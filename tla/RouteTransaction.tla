-------------------------- MODULE RouteTransaction ---------------------------
(***************************************************************************)
(* The route transactions of route_task.go: route_apply and route_rollback *)
(* tasks, one at a time under routeMu, moving the kernel table to a desired*)
(* set, waiting for the controller to confirm and then either recording    *)
(* the set in current.json and previous.json or running the inverse ops.   *)
(*                                                                         *)
(* The controller, the kernel and the file system are external: a confirm  *)
(* or its reply may be lost, a command may fail, a state file that can not *)
(* be read is taken for an empty one, a write may fail and leave an empty  *)
(* file, others may change the table, and the agent may crash.             *)
(***************************************************************************)
EXTENDS RouteDiff

CONSTANTS
  Txns,        \* the transactions, one task each
  Sets,        \* the sets the controller may ask for
  Slots6,      \* the slots of IPv6
  Nobody,      \* nobody holds routeMu
  MaxFaults,   \* commands, writes and messages that fail
  MaxOutside,  \* changes made to the table by others
  MaxCrashes   \* crashes of the agent

ASSUME TxnAssumption ==
  /\ Nobody \notin Txns
  /\ Sets \subseteq Tables /\ Slots6 \subseteq Slots
  /\ MaxFaults \in Nat /\ MaxOutside \in Nat /\ MaxCrashes \in Nat

VARIABLES
  kernel,    \* the kernel route table
  current,   \* current.json: the managed set; Empty also when unreadable
  previous,  \* previous.json
  hasPrev,   \* previous.json exists
  mu,        \* who holds routeMu
  pc,        \* where each transaction is
  mode,      \* "apply" or "rollback"
  want,      \* the set a transaction moves the kernel to
  managed,   \* current.json as the holder of routeMu read it
  before,    \* the listing as the holder of routeMu read it
  actual,    \* history: what the whole table would have been listed as
  todo,      \* the ops the holder has still to run
  done,      \* the ops the holder has run
  window,    \* the holder's confirm window is open
  ctl,       \* the controller's decision on each transaction
  touched,   \* slots changed by others since the holder listed the table
  drift,     \* slots whose route need not be that of current.json
  faults, outside, crashes

files == <<current, previous, hasPrev>>
plan == <<managed, before, actual>>
bounds == <<faults, outside, crashes>>
vars == <<kernel, files, mu, pc, mode, want, plan, todo, done, window, ctl,
          touched, drift, bounds>>

(* Where a transaction that has routeMu may be; one that has returned is at the
   result it returned. *)
Working == {"exec", "undo", "confirm", "revert", "promote1", "promote2",
            "swap1", "swap2"}
Results == {"refused", "committed", "reverted", "failed", "stuck", "rolledback"}
Ended == Results \cup {"crashed"}

Decisions == {"open", "committed", "refused"}

Slotted(ops) == {op.slot : op \in ops}

(* The slots with a route that the holder's listing left out. *)
Hidden == {s \in Slots : before[s] # actual[s]}

-----------------------------------------------------------------------------
TypeOK ==
  /\ kernel \in Kernels
  /\ current \in Tables /\ previous \in Tables /\ hasPrev \in BOOLEAN
  /\ mu \in Txns \cup {Nobody}
  /\ pc \in [Txns -> {"idle", "waiting"} \cup Working \cup Ended]
  /\ mode \in [Txns -> {"apply", "rollback"}]
  /\ want \in [Txns -> Tables]
  /\ managed \in Tables /\ before \in Tables /\ actual \in Tables
  /\ todo \subseteq Ops /\ done \subseteq Ops
  /\ window \in BOOLEAN
  /\ ctl \in [Txns -> Decisions]
  /\ touched \subseteq Slots /\ drift \subseteq Slots
  /\ faults \in 0 .. MaxFaults /\ outside \in 0 .. MaxOutside
  /\ crashes \in 0 .. MaxCrashes

Init ==
  /\ kernel \in Kernels
  /\ current = Empty /\ previous = Empty /\ hasPrev = FALSE
  /\ mu = Nobody
  /\ pc = [t \in Txns |-> "idle"]
  /\ mode = [t \in Txns |-> "apply"]
  /\ want = [t \in Txns |-> Empty]
  /\ managed = Empty /\ before = Empty /\ actual = Empty
  /\ todo = {} /\ done = {}
  /\ window = FALSE
  /\ ctl = [t \in Txns |-> "open"]
  /\ touched = {} /\ drift = {}
  /\ faults = 0 /\ outside = 0 /\ crashes = 0


-----------------------------------------------------------------------------
(* The claim loop hands a task to its handler, which waits for routeMu. *)
Claim(t) ==
  /\ pc[t] = "idle"
  /\ pc' = [pc EXCEPT ![t] = "waiting"]
  /\ \/ /\ mode' = [mode EXCEPT ![t] = "rollback"]
        /\ UNCHANGED want
     \/ /\ want' \in {[want EXCEPT ![t] = set] : set \in Sets}
        /\ UNCHANGED mode
  /\ UNCHANGED <<kernel, files, mu, plan, todo, done, window, ctl, touched,
                 drift, bounds>>

(* readSet: the set of a state file, none if the file can not be read. *)
Reads(set) == {set, Empty}

(* kernelTable: both families, or the IPv4 routes if listing IPv6 fails. *)
Lists(table) == {table, [s \in Slots |-> IF s \in Slots6 THEN None ELSE table[s]]}

Failed(read) == IF read THEN 1 ELSE 0

(* routeMu taken: the state files and the table are read and the ops planned, from
   what was read. *)
Begin(t) ==
  /\ pc[t] = "waiting" /\ mu = Nobody
  /\ mode[t] = "rollback" => hasPrev
  /\ mu' = t
  /\ pc' = [pc EXCEPT ![t] = "exec"]
  /\ \E goal \in IF mode[t] = "rollback" THEN Reads(previous) ELSE {want[t]} :
       /\ want' = [want EXCEPT ![t] = goal]
       /\ managed' \in Reads(current)
       /\ actual' = Listed(kernel)
       /\ before' \in Lists(actual')
       /\ faults' = faults + Failed(mode[t] = "rollback" /\ goal # previous)
                            + Failed(managed' # current) + Failed(before' # actual')
       /\ faults' <= MaxFaults
       /\ todo' = Diff(goal, managed', before')
  /\ done' = {}
  /\ window' = (mode[t] = "apply")
  /\ touched' = {}
  /\ UNCHANGED <<kernel, files, mode, ctl, drift, outside, crashes>>

(* Nothing to roll back to, or the IPv4 routes could not be listed. *)
BeginFails(t) ==
  /\ pc[t] = "waiting" /\ mu = Nobody
  /\ \/ /\ mode[t] = "rollback" /\ ~ hasPrev
        /\ UNCHANGED faults
     \/ /\ faults < MaxFaults
        /\ faults' = faults + 1
  /\ mu' = t
  /\ pc' = [pc EXCEPT ![t] = "refused"]
  /\ UNCHANGED <<kernel, files, mode, want, plan, todo, done, window, ctl,
                 touched, drift, outside, crashes>>

(* execOps runs one op; the order of the ops is left open. *)
RunOp(t) ==
  /\ pc[t] \in {"exec", "undo", "revert"}
  /\ \E op \in todo :
       /\ Runs(op, kernel)
       /\ kernel' = Exec(op, kernel)
       /\ todo' = todo \ {op}
       /\ done' = done \cup {op}
  /\ UNCHANGED <<files, mu, pc, mode, want, plan, window, ctl, touched, drift,
                 bounds>>

(* A command fails: an apply undoes what it did, if anything; a rollback and a
   failing undo stop where they are. *)
OpFails(t) ==
  /\ pc[t] \in {"exec", "undo", "revert"}
  /\ \E op \in todo :
       \/ /\ ~ Runs(op, kernel)
          /\ UNCHANGED faults
       \/ /\ faults < MaxFaults
          /\ faults' = faults + 1
  /\ IF pc[t] = "exec" /\ mode[t] = "apply" /\ done # {}
     THEN /\ pc' = [pc EXCEPT ![t] = "undo"]
          /\ todo' = InverseOps(done, before)
          /\ done' = {}
          /\ UNCHANGED drift
     ELSE /\ pc' = [pc EXCEPT ![t] = IF pc[t] = "exec" THEN "failed" ELSE "stuck"]
          /\ drift' = drift \cup IF pc[t] = "exec" THEN Slotted(done)
                                 ELSE Slotted(todo) \cup (Slotted(done) \cap Hidden)
          /\ UNCHANGED <<todo, done>>
  /\ UNCHANGED <<kernel, files, mu, mode, want, plan, window, ctl, touched,
                 outside, crashes>>

(* Mutated operator: the managed set is recorded before the controller is asked. *)
OpsDoneRecords(t) ==
  /\ pc[t] \in {"exec", "undo", "revert"}
  /\ todo = {}
  /\ pc' = [pc EXCEPT ![t] =
              CASE pc[t] = "undo" -> "failed"
                [] pc[t] = "revert" -> "reverted"
                [] pc[t] = "exec" -> IF mode[t] = "apply" THEN "confirm" ELSE "swap1"]
  /\ drift' = IF pc[t] = "exec" THEN drift ELSE drift \cup (Slotted(done) \cap Hidden)
  /\ current' = IF pc[t] = "exec" /\ mode[t] = "apply" THEN want[t] ELSE current
  /\ UNCHANGED <<kernel, previous, hasPrev, mu, mode, want, plan, todo, done,
                 window, ctl, touched, bounds>>

(* Every op ran.  What undid an add to a slot with a route has removed it. *)
OpsDone(t) ==
  /\ pc[t] \in {"exec", "undo", "revert"}
  /\ todo = {}
  /\ pc' = [pc EXCEPT ![t] =
              CASE pc[t] = "undo" -> "failed"
                [] pc[t] = "revert" -> "reverted"
                [] pc[t] = "exec" -> IF mode[t] = "apply" THEN "confirm" ELSE "swap1"]
  /\ drift' = IF pc[t] = "exec" THEN drift ELSE drift \cup (Slotted(done) \cap Hidden)
  /\ UNCHANGED <<kernel, files, mu, mode, want, plan, todo, done, window, ctl,
                 touched, bounds>>

-----------------------------------------------------------------------------
(* The confirm window runs out. *)
DeadlinePasses(t) ==
  /\ pc[t] \in {"exec", "confirm"} /\ window
  /\ window' = FALSE
  /\ UNCHANGED <<kernel, files, mu, pc, mode, want, plan, todo, done, ctl,
                 touched, drift, bounds>>

(* The ops that restore the listing, planned from all the ops that ran. *)
StartRevert(t) ==
  /\ pc' = [pc EXCEPT ![t] = "revert"]
  /\ todo' = InverseOps(done, before)
  /\ done' = {}

(* The controller decides, once, and its answer arrives. *)
ConfirmAnswered(t) ==
  /\ pc[t] = "confirm"
  /\ ctl' \in {[ctl EXCEPT ![t] = d] : d \in {"committed", "refused"}}
  /\ ctl[t] # "open" => ctl' = ctl
  /\ IF ctl'[t] = "committed"
     THEN pc' = [pc EXCEPT ![t] = "promote1"] /\ UNCHANGED <<todo, done>>
     ELSE StartRevert(t)
  /\ UNCHANGED <<kernel, files, mu, mode, want, plan, window, touched, drift,
                 bounds>>

(* Mutated operator: a controller that cannot be reached is taken to have committed. *)
ConfirmLostCommits(t) ==
  /\ pc[t] = "confirm" /\ ~ window
  /\ pc' = [pc EXCEPT ![t] = "promote1"]
  /\ UNCHANGED <<kernel, files, mu, mode, want, plan, todo, done, window, ctl,
                 touched, drift, bounds>>

(* The request or its answer is lost; past the window that ends the wait. *)
ConfirmLost(t) ==
  /\ pc[t] = "confirm"
  /\ ctl' \in {ctl} \cup {[ctl EXCEPT ![t] = d] : d \in {"committed", "refused"}}
  /\ ctl[t] # "open" => ctl' = ctl
  /\ IF window THEN UNCHANGED <<pc, todo, done>> ELSE StartRevert(t)
  /\ UNCHANGED <<kernel, files, mu, mode, want, plan, window, touched, drift,
                 bounds>>

-----------------------------------------------------------------------------
(* promote: previous.json, then current.json; the first failure ends it, and is
   only logged. *)
PromotePrevious(t) ==
  /\ pc[t] = "promote1"
  /\ previous' = managed /\ hasPrev' = TRUE
  /\ pc' = [pc EXCEPT ![t] = "promote2"]
  /\ UNCHANGED <<kernel, current, mu, mode, want, plan, todo, done, window, ctl,
                 touched, drift, bounds>>

PromoteCurrent(t) ==
  /\ pc[t] = "promote2"
  /\ current' = want[t]
  /\ pc' = [pc EXCEPT ![t] = "committed"]
  /\ drift' = touched
  /\ UNCHANGED <<kernel, previous, hasPrev, mu, mode, want, plan, todo, done,
                 window, ctl, touched, bounds>>

PromoteFails(t) ==
  /\ pc[t] \in {"promote1", "promote2"}
  /\ faults < MaxFaults
  /\ faults' = faults + 1
  /\ IF pc[t] = "promote1"
     THEN /\ previous' \in {previous, Empty}
          /\ hasPrev' \in {hasPrev, TRUE}
          /\ previous' # previous => hasPrev'
          /\ UNCHANGED current
     ELSE current' \in {current, Empty} /\ UNCHANGED <<previous, hasPrev>>
  /\ pc' = [pc EXCEPT ![t] = "committed"]
  /\ drift' = drift \cup touched \cup Slotted(done)
  /\ UNCHANGED <<kernel, mu, mode, want, plan, todo, done, window, ctl, touched,
                 outside, crashes>>

(* The end of a rollback: current.json and previous.json swap, each write on its
   own, a failure of either only logged. *)
SwapCurrent(t) ==
  /\ pc[t] = "swap1"
  /\ \/ /\ current' = want[t]
        /\ drift' = touched
        /\ UNCHANGED faults
     \/ /\ faults < MaxFaults
        /\ faults' = faults + 1
        /\ current' \in {current, Empty}
        /\ drift' = drift \cup touched \cup Slotted(done)
  /\ pc' = [pc EXCEPT ![t] = "swap2"]
  /\ UNCHANGED <<kernel, previous, hasPrev, mu, mode, want, plan, todo, done,
                 window, ctl, touched, outside, crashes>>

SwapPrevious(t) ==
  /\ pc[t] = "swap2"
  /\ \/ /\ previous' = managed
        /\ UNCHANGED faults
     \/ /\ faults < MaxFaults
        /\ faults' = faults + 1
        /\ previous' \in {previous, Empty}
  /\ pc' = [pc EXCEPT ![t] = "rolledback"]
  /\ UNCHANGED <<kernel, current, hasPrev, mu, mode, want, plan, todo, done,
                 window, ctl, touched, drift, outside, crashes>>

(* The handler returns and releases routeMu. *)
Unlock(t) ==
  /\ pc[t] \in Results /\ mu = t
  /\ mu' = Nobody
  /\ todo' = {} /\ done' = {}
  /\ managed' = Empty /\ before' = Empty /\ actual' = Empty
  /\ window' = FALSE /\ touched' = {}
  /\ UNCHANGED <<kernel, files, pc, mode, want, ctl, drift, bounds>>

-----------------------------------------------------------------------------
(* Another program, or the operator, changes the route of a slot. *)
OutsideWrite ==
  /\ outside < MaxOutside
  /\ outside' = outside + 1
  /\ \E s \in Slots, m \in Metrics, hop \in Hops \cup {None} :
       /\ kernel[s][m] # hop
       /\ kernel' = [kernel EXCEPT ![s][m] = hop]
       /\ touched' = touched \cup {s}
       /\ drift' = drift \cup {s}
  /\ UNCHANGED <<files, mu, pc, mode, want, plan, todo, done, window, ctl,
                 faults, crashes>>

(* The agent dies: what it was doing ends where it was, and a file being written
   may be left empty.  The claimed tasks are lost with it. *)
Crash ==
  /\ crashes < MaxCrashes
  /\ crashes' = crashes + 1
  /\ pc' = [t \in Txns |-> IF pc[t] \in {"waiting"} \cup Working THEN "crashed"
                           ELSE pc[t]]
  /\ IF \E t \in Txns : pc[t] \in {"promote1", "swap2"}
     THEN previous' \in {previous, Empty} /\ hasPrev' = TRUE
     ELSE UNCHANGED <<previous, hasPrev>>
  /\ IF \E t \in Txns : pc[t] \in {"promote2", "swap1"}
     THEN current' \in {current, Empty}
     ELSE UNCHANGED current
  /\ drift' = drift \cup touched \cup Slotted(todo \cup done)
  /\ mu' = Nobody
  /\ todo' = {} /\ done' = {}
  /\ managed' = Empty /\ before' = Empty /\ actual' = Empty
  /\ window' = FALSE /\ touched' = {}
  /\ UNCHANGED <<kernel, mode, want, ctl, faults, outside>>

-----------------------------------------------------------------------------
Next ==
  \/ \E t \in Txns : \/ Claim(t)
                     \/ Begin(t)
                     \/ BeginFails(t)
                     \/ RunOp(t)
                     \/ OpFails(t)
                     \/ OpsDone(t)
                     \/ DeadlinePasses(t)
                     \/ ConfirmAnswered(t)
                     \/ ConfirmLost(t)
                     \/ PromotePrevious(t)
                     \/ PromoteCurrent(t)
                     \/ PromoteFails(t)
                     \/ SwapCurrent(t)
                     \/ SwapPrevious(t)
                     \/ Unlock(t)
  \/ OutsideWrite
  \/ Crash

Spec == Init /\ [][Next]_vars

-----------------------------------------------------------------------------
(* Outside the slots others have changed since, what the controller is asked to
   confirm is what it asked for: every desired route is the one in use, also in
   a slot whose route the listing left out, and what the transaction read as
   managed and is no longer desired is gone, unless the listing left it out
   (Diff and execOps, whatever the table was when the transaction began). *)
Applied ==
  \A t \in Txns : pc[t] \in {"confirm", "promote1", "promote2", "swap1"} =>
    \A s \in Slots \ touched :
      /\ want[t][s] # None => Same(Listed(kernel)[s], want[t][s])
      /\ want[t][s] = None /\ managed[s] # None /\ s \notin Hidden
           => Listed(kernel)[s] = None

(* A transaction that was refused, timed out or failed half way leaves the table
   as it found it, outside the slots others have changed since ("a wrong
   default route must be undone without the network", route_task.go), and
   those it took for free because the IPv6 routes could not be listed. *)
Restored ==
  \A t \in Txns :
    (mu = t /\ pc[t] \in {"reverted", "failed"} /\ mode[t] = "apply") =>
      \A s \in Slots \ touched :
        (s \in Hidden => want[t][s] = None) => actual[s] = Listed(kernel)[s]

(* With no transaction under way, every route current.json records is the one
   in use, outside the slots that others changed, an undo or a rollback failed
   on, a crash or a failed write left behind, or an undo emptied that were taken
   for free: this is what the next diff takes for granted when it deletes. *)
Recorded ==
  mu = Nobody =>
    \A s \in Slots \ drift : current[s] # None => Same(Listed(kernel)[s], current[s])

(* Only the controller's commit makes a set the managed one: whatever was lost,
   retried, failed or crashed, each state file holds a set that some committed
   transaction asked for, or nothing. *)
CommittedSets == {Empty} \cup {want[t] : t \in {x \in Txns : /\ mode[x] = "apply"
                                                             /\ ctl[x] = "committed"}}
RecordedIsCommitted == current \in CommittedSets /\ previous \in CommittedSets

=============================================================================
