------------------------------ MODULE GuestKeys ------------------------------
(***************************************************************************)
(* The ssh_keys operation of cloud.guest tasks, cloud_guest_sshkeys.go:    *)
(* authorized_keys is read, merged with the request, written to a          *)
(* temporary file of a fixed name and renamed.  Several tasks may run at   *)
(* once, the user may edit the file by hand, the agent may crash.          *)
(*                                                                         *)
(* Abstracted: a file is the set of its lines, a line its key and where it *)
(* came from; options and the order of lines are left out, and so are      *)
(* modes and owners.                                                       *)
(***************************************************************************)
EXTENDS Naturals

CONSTANTS
  Editors,  \* ssh_keys tasks
  Keys,     \* key ids: type and base64
  NoKey,    \* the key of a comment or another line without one
  NoKeys,   \* a file that does not exist
  MaxEdits  \* edits by hand

Lines == [key : Keys \cup {NoKey}, by : {"api", "hand"}]

KeyAssumption == NoKey \notin Keys /\ MaxEdits \in Nat

VARIABLES
  auth,    \* authorized_keys
  tmp,     \* authorized_keys.polar-tmp
  step,    \* where each task is
  add,     \* the keys of its request
  drop,    \* the keys it removes
  cur,     \* the lines it read
  out,     \* where the file it writes is now
  before,  \* history: the lines when it began
  mixed,   \* history: tasks whose edit another one overlapped
  edits

request == <<add, drop>>
keyvars == <<auth, tmp, step, request, cur, out, before, mixed, edits>>

LinesOf(file) == IF file = NoKeys THEN {} ELSE file

-----------------------------------------------------------------------------
TypeOK ==
  /\ \A file \in {auth, tmp} : file # NoKeys => file \subseteq Lines
  /\ step \in [Editors -> {"idle", "read", "write", "fill", "rename", "answer"}]
  /\ add \in [Editors -> SUBSET Keys] /\ drop \in [Editors -> SUBSET Keys]
  /\ cur \in [Editors -> SUBSET Lines] /\ before \in [Editors -> SUBSET Lines]
  /\ out \in [Editors -> {"none", "tmp", "auth"}]
  /\ mixed \subseteq Editors
  /\ edits \in 0 .. MaxEdits

Init ==
  /\ auth = NoKeys /\ tmp = NoKeys
  /\ step = [e \in Editors |-> "idle"]
  /\ add = [e \in Editors |-> {}] /\ drop = [e \in Editors |-> {}]
  /\ cur = [e \in Editors |-> {}] /\ before = [e \in Editors |-> {}]
  /\ out = [e \in Editors |-> "none"]
  /\ mixed = {} /\ edits = 0

Goto(e, label) == step' = [step EXCEPT ![e] = label]
Editing == {e \in Editors : step[e] # "idle"}

(* Mutated operator: a key that is still wanted is dropped, and appended again
   without what its line said. *)
MergeDrops(lines, wanted, dropped) ==
  LET kept == {l \in lines : l.key \notin dropped}
      held == {l.key : l \in kept}
  IN kept \cup {[key |-> k, by |-> "api"] : k \in wanted \ held}

(* mergeAuthorizedKeys: the lines of dropped keys go, unless the key is wanted
   too; what is wanted and not there yet is appended. *)
Merge(lines, wanted, dropped) ==
  LET kept == {l \in lines : l.key \notin dropped \ wanted}
      held == {l.key : l \in kept}
  IN kept \cup {[key |-> k, by |-> "api"] : k \in wanted \ held}

-----------------------------------------------------------------------------
Begin(e) ==
  /\ step[e] = "idle"
  /\ \E k \in SUBSET Keys : add' = [add EXCEPT ![e] = k]
  /\ \E k \in SUBSET Keys : drop' = [drop EXCEPT ![e] = k]
  /\ before' = [before EXCEPT ![e] = LinesOf(auth)]
  /\ mixed' = IF Editing = {} THEN {} ELSE mixed \cup Editing \cup {e}
  /\ Goto(e, "read")
  /\ UNCHANGED <<auth, tmp, cur, out, edits>>

(* A file that is not there reads as an empty one. *)
Read(e) ==
  /\ step[e] = "read"
  /\ cur' = [cur EXCEPT ![e] = LinesOf(auth)]
  /\ Goto(e, "write")
  /\ UNCHANGED <<auth, tmp, request, out, before, mixed, edits>>

(* os.WriteFile empties the temporary file, then fills it. *)
Open(e) ==
  /\ step[e] = "write"
  /\ tmp' = {}
  /\ out' = [out EXCEPT ![e] = "tmp"]
  /\ Goto(e, "fill")
  /\ UNCHANGED <<auth, request, cur, before, mixed, edits>>

Fill(e) ==
  /\ step[e] = "fill"
  /\ LET merged == Merge(cur[e], add[e], drop[e]) IN
       /\ tmp' = IF out[e] = "tmp" THEN merged ELSE tmp
       /\ auth' = IF out[e] = "auth" THEN merged ELSE auth
  /\ cur' = [cur EXCEPT ![e] = {}]
  /\ out' = [out EXCEPT ![e] = "none"]
  /\ Goto(e, "rename")
  /\ UNCHANGED <<request, before, mixed, edits>>

(* The next task finds its registers empty. *)
Forget(e) ==
  /\ Goto(e, "idle")
  /\ add' = [add EXCEPT ![e] = {}] /\ drop' = [drop EXCEPT ![e] = {}]
  /\ cur' = [cur EXCEPT ![e] = {}] /\ before' = [before EXCEPT ![e] = {}]
  /\ out' = [out EXCEPT ![e] = "none"]
  /\ mixed' = mixed \ {e}

(* The disk is full, or the file cannot be read: the task fails. *)
Fails(e) ==
  /\ step[e] \in {"read", "write", "fill"}
  /\ Forget(e)
  /\ UNCHANGED <<auth, tmp, edits>>

(* Whatever the temporary file holds by now becomes authorized_keys, and whoever
   is writing to it writes there. *)
Rename(e) ==
  /\ step[e] = "rename" /\ tmp # NoKeys
  /\ auth' = tmp /\ tmp' = NoKeys
  /\ out' = [x \in Editors |-> IF out[x] = "tmp" THEN "auth" ELSE "none"]
  /\ Goto(e, "answer")
  /\ UNCHANGED <<request, cur, before, mixed, edits>>

(* Another task renamed it away. *)
RenameFails(e) ==
  /\ step[e] = "rename" /\ tmp = NoKeys
  /\ Forget(e)
  /\ UNCHANGED <<auth, tmp, edits>>

Answer(e) ==
  /\ step[e] = "answer"
  /\ Forget(e)
  /\ UNCHANGED <<auth, tmp, edits>>

(* The user adds a key or a comment by hand. *)
HandEdit ==
  /\ edits < MaxEdits
  /\ edits' = edits + 1
  /\ \E k \in Keys \cup {NoKey} :
       auth' = LinesOf(auth) \cup {[key |-> k, by |-> "hand"]}
  /\ mixed' = mixed \cup Editing
  /\ UNCHANGED <<tmp, step, request, cur, out, before>>

Crash ==
  /\ step' = [e \in Editors |-> "idle"]
  /\ add' = [e \in Editors |-> {}] /\ drop' = [e \in Editors |-> {}]
  /\ cur' = [e \in Editors |-> {}] /\ before' = [e \in Editors |-> {}]
  /\ out' = [e \in Editors |-> "none"]
  /\ mixed' = {}
  /\ UNCHANGED <<auth, tmp, edits>>

-----------------------------------------------------------------------------
Next ==
  \/ \E e \in Editors :
       \/ Begin(e) \/ Read(e) \/ Open(e) \/ Fill(e) \/ Fails(e)
       \/ Rename(e) \/ RenameFails(e) \/ Answer(e)
  \/ HandEdit
  \/ Crash

Spec == Init /\ [][Next]_keyvars

-----------------------------------------------------------------------------
(* While a task has the file to itself authorized_keys is at every moment the
   one it found or, before it answers, the one it was asked for: every key it
   adds, none it drops, and every other line as the user left it. *)
Asked(e) ==
  /\ \A k \in add[e] : \E l \in auth : l.key = k
  /\ \A k \in drop[e] \ add[e] : \A l \in auth : l.key # k
  /\ \A l \in before[e] : l.key \in drop[e] \ add[e] \/ l \in auth
  /\ \A l \in auth : l \in before[e] \/ l.key \in add[e]
AloneEdits ==
  \A e \in Editing \ mixed :
    IF step[e] = "answer" THEN Asked(e) ELSE LinesOf(auth) = before[e]
=============================================================================
