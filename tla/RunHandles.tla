----------------------------- MODULE RunHandles -----------------------------
(***************************************************************************)
(* What a skill run takes from the host: Start acquires it in steps and    *)
(* gives back what it has when a later step fails, stop gives back the     *)
(* rest.  A shell has a child on a pty, a proxy a temporary file and a     *)
(* child, VNC a connection, KDP a serial port, and WireGuard a file under  *)
(* /etc/wireguard, the wg-quick that reads it and the tunnel it leaves in  *)
(* the kernel, named by the request and so shared with other runs and with *)
(* the operator.                                                           *)
(*                                                                         *)
(* Abstracted: a file, a tunnel and a port are whose they are; what the    *)
(* requests say apart from the name is good or refused.  The events of a   *)
(* run are in RunStream.                                                   *)
(***************************************************************************)
EXTENDS Naturals

CONSTANTS
  Starts,    \* skill.start goroutines
  Names,     \* interface names and device paths
  Free,      \* nobody's
  Operator   \* someone who runs wg-quick by hand

HandleAssumption == {Free, Operator} \cap Starts = {} /\ Free # Operator

Kinds == {"shell", "proxy", "wireguard", "vnc", "kdp"}

VARIABLES
  skill,    \* the kind of the runs
  priv,     \* how wg-quick gets root: direct, sudo, none
  place,    \* where each run is
  name,     \* the interface or the device of its request
  temp,     \* runs with a temporary file
  conf,     \* whose /etc/wireguard/<name>.conf is
  tunnel,   \* whose configuration the interface <name> runs
  child,    \* none, alive, dead
  handles,  \* runs with a pty, a connection or a port
  shared,   \* history: runs that passed Stat while another was past it
  early,    \* history: runs whose down came before their up was over
  spoilt,   \* history: runs whose write or down failed
  theirs,   \* history: names the operator configured
  raced     \* history: of those, the ones configured under a run

files == <<temp, conf, tunnel>>
past == <<shared, early, spoilt, theirs, raced>>
handlevars == <<skill, priv, place, name, files, child, handles, past>>

Stages == {"idle", "stat", "write", "spawn", "open", "running", "down", "kill",
           "release", "over"}
HandlesTypeOK ==
  /\ skill \in Kinds /\ priv \in {"direct", "sudo", "none"}
  /\ place \in [Starts -> Stages] /\ name \in [Starts -> Names]
  /\ temp \subseteq Starts /\ handles \subseteq Starts
  /\ conf \in [Names -> Starts \cup {Free, Operator}]
  /\ tunnel \in [Names -> Starts \cup {Free, Operator}]
  /\ child \in [Starts -> {"none", "alive", "dead"}]
  /\ shared \cup early \cup spoilt \subseteq Starts
  /\ raced \subseteq theirs /\ theirs \subseteq Names

(* detectWGPrivilege: nothing to probe without wg-quick, then as it is, then
   through sudo -n. *)
Detect(installed, root, sudoers) ==
  CASE installed /\ root -> "direct"
    [] installed /\ ~ root /\ sudoers -> "sudo"
    [] OTHER -> "none"

(* The operator may have a tunnel with a file where wg-quick looks for it, or
   with one elsewhere. *)
Init ==
  /\ skill \in Kinds
  /\ \E i, r, s \in BOOLEAN : priv = Detect(i, r, s)
  /\ place = [r \in Starts |-> "idle"]
  /\ name \in [Starts -> Names]
  /\ temp = {} /\ handles = {}
  /\ conf \in [Names -> {Free, Operator}]
  /\ tunnel \in [Names -> {Free, Operator}]
  /\ \A n \in Names : conf[n] = Operator => tunnel[n] = Operator
  /\ child = [r \in Starts |-> "none"]
  /\ shared = {} /\ early = {} /\ spoilt = {}
  /\ theirs = {n \in Names : conf[n] = Operator} /\ raced = {}

Goto(r, stage) == place' = [place EXCEPT ![r] = stage]
At(r, stage, kinds) == place[r] = stage /\ skill \in kinds

(* The commands of the run go through sudo -n. *)
UnderSudo == skill = "wireguard" /\ priv = "sudo"

(* Runs that may still write, or bring up, or take down what has this name: under
   sudo the wg-quick up of a run may outlive it. *)
Using(n) ==
  {r \in Starts : name[r] = n /\ (\/ place[r] \notin {"idle", "stat", "over"}
                               \/ child[r] = "alive")}

-----------------------------------------------------------------------------
(* Mutated steps: not part of Next. *)

(* Stat is left out: os.WriteFile overwrites what is there. *)
StatBlind(r) ==
  /\ At(r, "stat", {"wireguard"})
  /\ shared' = IF Using(name[r]) = {} THEN shared
               ELSE shared \cup {r} \cup Using(name[r])
  /\ Goto(r, "write")
  /\ UNCHANGED <<skill, priv, name, files, child, handles, early, spoilt, theirs,
                 raced>>

(* A start that fails late forgets the file it wrote. *)
SpawnFailsDirty(r) ==
  /\ At(r, "spawn", {"shell", "proxy", "wireguard"})
  /\ Goto(r, "over")
  /\ UNCHANGED <<skill, priv, name, files, child, handles, past>>

-----------------------------------------------------------------------------
(* Start.                                                                  *)

(* A request without what its kind cannot do without, a target that is not on
   the host or its network, no binary, no shell, no root. *)
Refuse(r) ==
  /\ place[r] = "idle"
  /\ Goto(r, "over")
  /\ UNCHANGED <<skill, priv, name, files, child, handles, past>>

(* Sizes and timeouts out of range are clamped, not refused. *)
StartShell(r) ==
  /\ At(r, "idle", {"shell"})
  /\ Goto(r, "spawn")
  /\ UNCHANGED <<skill, priv, name, files, child, handles, past>>

StartProxy(r) ==
  /\ At(r, "idle", {"proxy"})
  /\ Goto(r, "write")
  /\ UNCHANGED <<skill, priv, name, files, child, handles, past>>

StartWireguard(r) ==
  /\ At(r, "idle", {"wireguard"})
  /\ priv # "none"
  /\ Goto(r, "stat")
  /\ UNCHANGED <<skill, priv, name, files, child, handles, past>>

StartVnc(r) ==
  /\ At(r, "idle", {"vnc"})
  /\ Goto(r, "open")
  /\ UNCHANGED <<skill, priv, name, files, child, handles, past>>

StartKdp(r) ==
  /\ At(r, "idle", {"kdp"})
  /\ Goto(r, "open")
  /\ UNCHANGED <<skill, priv, name, files, child, handles, past>>

(* "Don't clobber an existing config". *)
Stat(r) ==
  /\ At(r, "stat", {"wireguard"})
  /\ \/ conf[name[r]] # Free /\ Goto(r, "over") /\ shared' = shared
     \/ conf[name[r]] = Free /\ Goto(r, "write")
        /\ shared' = IF Using(name[r]) = {} THEN shared
                     ELSE shared \cup {r} \cup Using(name[r])
  /\ UNCHANGED <<skill, priv, name, files, child, handles, early, spoilt, theirs,
                 raced>>

WriteTemp(r) ==
  /\ At(r, "write", {"proxy"})
  /\ \/ temp' = temp \cup {r} /\ Goto(r, "spawn")
     \/ temp' = temp /\ Goto(r, "over")
  /\ UNCHANGED <<skill, priv, name, conf, tunnel, child, handles, past>>

WriteConf(r) ==
  /\ At(r, "write", {"wireguard"})
  /\ conf' = [conf EXCEPT ![name[r]] = r]
  /\ Goto(r, "spawn")
  /\ UNCHANGED <<skill, priv, name, temp, tunnel, child, handles, past>>

(* A write that fails half way leaves the file it made. *)
WriteConfFails(r) ==
  /\ At(r, "write", {"wireguard"})
  /\ conf' \in {conf, [conf EXCEPT ![name[r]] = r]}
  /\ spoilt' = spoilt \cup {r}
  /\ Goto(r, "over")
  /\ UNCHANGED <<skill, priv, name, temp, tunnel, child, handles, shared, early,
                 theirs, raced>>

(* Pipes or a pty, and the process. *)
Spawn(r) ==
  /\ At(r, "spawn", {"shell", "proxy", "wireguard"})
  /\ child' = [child EXCEPT ![r] = "alive"]
  /\ handles' = IF skill = "shell" THEN handles \cup {r} ELSE handles
  /\ Goto(r, "running")
  /\ UNCHANGED <<skill, priv, name, files, past>>

(* The file goes, by its name. *)
SpawnFails(r) ==
  /\ At(r, "spawn", {"shell", "proxy", "wireguard"})
  /\ temp' = temp \ {r}
  /\ conf' = IF skill = "wireguard" THEN [conf EXCEPT ![name[r]] = Free] ELSE conf
  /\ Goto(r, "over")
  /\ UNCHANGED <<skill, priv, name, tunnel, child, handles, past>>

(* A dial; a port opens for one at a time. *)
Open(r) ==
  /\ At(r, "open", {"vnc", "kdp"})
  /\ skill = "kdp" => \A s \in handles : name[s] # name[r]
  /\ handles' = handles \cup {r}
  /\ Goto(r, "running")
  /\ UNCHANGED <<skill, priv, name, files, child, past>>

OpenFails(r) ==
  /\ At(r, "open", {"vnc", "kdp"})
  /\ Goto(r, "over")
  /\ UNCHANGED <<skill, priv, name, files, child, handles, past>>

-----------------------------------------------------------------------------
(* The run.                                                                *)

(* A shell or sing-box exits, or the end of the session kills it; wg-quick up
   is killed by that unless it runs under sudo. *)
ChildEnds(r) ==
  /\ child[r] = "alive"
  /\ ~ UnderSudo
  /\ child' = [child EXCEPT ![r] = "dead"]
  /\ UNCHANGED <<skill, priv, place, name, files, handles, past>>

(* wg-quick up: the interface must be new, and the file there. *)
Up(r) ==
  /\ skill = "wireguard" /\ child[r] = "alive"
  /\ tunnel' = IF tunnel[name[r]] = Free THEN [tunnel EXCEPT ![name[r]] = conf[name[r]]]
               ELSE tunnel
  /\ child' = [child EXCEPT ![r] = "dead"]
  /\ UNCHANGED <<skill, priv, place, name, temp, conf, handles, past>>

(* The first call of stop: Stop, the waiter, the watchdog or the reader. *)
Stop(r) ==
  /\ place[r] = "running"
  /\ Goto(r, CASE skill = "wireguard" -> "down"
               [] skill \in {"shell", "proxy"} -> "kill"
               [] OTHER -> "release")
  /\ UNCHANGED <<skill, priv, name, files, child, handles, past>>

(* wg-quick down goes by the name, and needs the file and the interface. *)
Down(r) ==
  /\ At(r, "down", {"wireguard"})
  /\ tunnel' = IF conf[name[r]] = Free THEN tunnel
               ELSE [tunnel EXCEPT ![name[r]] = Free]
  /\ early' = IF child[r] = "alive" THEN early \cup {r} ELSE early
  /\ Goto(r, "kill")
  /\ UNCHANGED <<skill, priv, name, temp, conf, child, handles, shared, spoilt,
                 theirs, raced>>

(* It is given five seconds. *)
DownFails(r) ==
  /\ At(r, "down", {"wireguard"})
  /\ spoilt' = spoilt \cup {r}
  /\ Goto(r, "kill")
  /\ UNCHANGED <<skill, priv, name, files, child, handles, shared, early, theirs,
                 raced>>

(* SIGTERM, a while, SIGKILL; for wg-quick up the context is cancelled, which
   does not reach a child of sudo. *)
Kill(r) ==
  /\ place[r] = "kill"
  /\ child' = IF UnderSudo THEN child
              ELSE [child EXCEPT ![r] = "dead"]
  /\ Goto(r, "release")
  /\ UNCHANGED <<skill, priv, name, files, handles, past>>

Release(r) ==
  /\ place[r] = "release"
  /\ temp' = temp \ {r} /\ handles' = handles \ {r}
  /\ conf' = IF skill = "wireguard" THEN [conf EXCEPT ![name[r]] = Free] ELSE conf
  /\ Goto(r, "over")
  /\ UNCHANGED <<skill, priv, name, tunnel, child, past>>

(* The operator brings up a tunnel of that name. *)
Configure(n) ==
  /\ skill = "wireguard"
  /\ conf[n] = Free /\ tunnel[n] = Free
  /\ conf' = [conf EXCEPT ![n] = Operator]
  /\ tunnel' = [tunnel EXCEPT ![n] = Operator]
  /\ theirs' = theirs \cup {n}
  /\ raced' = IF Using(n) = {} THEN raced ELSE raced \cup {n}
  /\ UNCHANGED <<skill, priv, place, name, temp, child, handles, shared, early,
                 spoilt>>

-----------------------------------------------------------------------------
Starting(r) ==
  \/ Refuse(r) \/ StartShell(r) \/ StartProxy(r) \/ StartWireguard(r)
  \/ StartVnc(r) \/ StartKdp(r)
  \/ Stat(r) \/ WriteTemp(r) \/ WriteConf(r) \/ WriteConfFails(r)
  \/ Spawn(r) \/ SpawnFails(r) \/ Open(r) \/ OpenFails(r)
Running(r) ==
  \/ ChildEnds(r) \/ Up(r) \/ Stop(r) \/ Down(r) \/ DownFails(r) \/ Kill(r)
  \/ Release(r)

Next ==
  \/ \E r \in Starts : Starting(r) \/ Running(r)
  \/ \E n \in Names : Configure(n)

Spec == Init /\ [][Next]_handlevars

-----------------------------------------------------------------------------
(* A start that failed, at whatever step, and a run that ended have given back
   what they took.  Not covered are runs that took one interface together, a
   write or a down that failed, and a tunnel that wg-quick brings up while stop
   is taking it down. *)
Released ==
  \A r \in Starts \ (shared \cup spoilt) :
    place[r] = "over" =>
      /\ r \notin temp \cup handles /\ \A n \in Names : conf[n] # r
      /\ r \notin early => child[r] # "alive" /\ \A n \in Names : tunnel[n] # r

(* "operator might be running a wg manually with the same name": a tunnel the
   operator configured is never overwritten, brought down or left without its
   file, unless it appears under a run that is past its look.  (One whose file
   is elsewhere is brought down.) *)
OperatorKept ==
  \A n \in theirs \ raced : conf[n] = Operator /\ tunnel[n] = Operator
=============================================================================
