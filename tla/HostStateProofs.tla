--------------------------- MODULE HostStateProofs ---------------------------
(***************************************************************************)
(* TLAPS proofs about HostState and the components it follows one at a     *)
(* time, for any tasks, frames, names, keys and packages.  First, that a   *)
(* behaviour of HostState is one of each component; then, component by     *)
(* component, an inductive invariant, its one step, and what it implies.   *)
(***************************************************************************)
EXTENDS HostState, Sequences, FiniteSetTheorems, WellFoundedInduction, TLAPS

(* A step of the host is a step of the component it follows, and leaves the
   variables of every other as they are. *)
LEMMA StepOfEach ==
  [HostNext]_hostVars =>
    /\ [Next]_vars
    /\ [Store!Next]_Store!vars /\ [Blob!Next]_Blob!vars /\ [Auth!Next]_Auth!keyvars
    /\ [Held!Next]_Held!handlevars /\ [Fed!Next]_Fed!inputvars
    /\ [Conf!Next]_Conf!confvars
<1> SUFFICES ASSUME [HostNext]_hostVars
             PROVE  /\ [Next]_vars /\ [Store!Next]_Store!vars /\ [Blob!Next]_Blob!vars
                    /\ [Auth!Next]_Auth!keyvars /\ [Held!Next]_Held!handlevars
                    /\ [Fed!Next]_Fed!inputvars /\ [Conf!Next]_Conf!confvars
  OBVIOUS
<1>1. Store!Next \/ UNCHANGED storeVars
  BY Zenon DEF HostNext, hostVars
<1>2. Blob!Next \/ UNCHANGED blobVars
  BY Zenon DEF HostNext, hostVars
<1>3. Auth!Next \/ UNCHANGED authVars
  BY Zenon DEF HostNext, hostVars
<1>4. Held!Next \/ UNCHANGED heldVars
  BY Zenon DEF HostNext, hostVars
<1>5. Fed!Next \/ UNCHANGED fedVars
  BY Zenon DEF HostNext, hostVars
<1>6. Conf!Next \/ UNCHANGED confVars
  BY Zenon DEF HostNext, hostVars
<1>7. Next \/ UNCHANGED vars
  BY Zenon DEF HostNext, hostVars
<1> QED
  BY <1>1, <1>2, <1>3, <1>4, <1>5, <1>6, <1>7
  DEF storeVars, Store!vars, Store!source, Store!store, Store!results, Store!history,
      blobVars, Blob!vars, Blob!source, Blob!disk, Blob!task,
      authVars, Auth!keyvars, Auth!request,
      heldVars, Held!handlevars, Held!files, Held!past,
      fedVars, Fed!inputvars, Fed!stream, Fed!held,
      confVars, Conf!confvars

(* Each component behaves on the host as its own specification says: what is
   true of it there is true of it here. *)
THEOREM BehaviourOfEach ==
  HostSpec => /\ Spec /\ Store!Spec /\ Blob!Spec /\ Auth!Spec
              /\ Held!Spec /\ Fed!Spec /\ Conf!Spec
<1>1. HostInit => /\ Init /\ Store!Init /\ Blob!Init /\ Auth!Init
                  /\ Held!Init /\ Fed!Init /\ Conf!Init
  BY DEF HostInit
<1> QED
  BY <1>1, StepOfEach, PTL
  DEF HostSpec, Spec, Store!Spec, Blob!Spec, Auth!Spec, Held!Spec, Fed!Spec, Conf!Spec


-----------------------------------------------------------------------------
(* The routing table: RouteTransaction's own specification, for any slots,  *)
(* hops and transactions and any number of faults, outside changes and      *)
(* crashes.  Types and RecordedIsCommitted hold for any metrics; what a      *)
(* transaction leaves in the kernel (Applied, Restored, Recorded) when there *)
(* is one metric, as the diff compares routes without it.                    *)

(* A non-empty set of naturals has a least element. *)
LEMMA LeastNat ==
  ASSUME NEW T, T \subseteq Nat, T # {}
  PROVE  \E x \in T : \A y \in T : x <= y
<1>1. PICK x \in T : \A y \in T : ~ (<<y, x>> \in OpToRel(<, Nat))
  <2> HIDE DEF OpToRel
  <2> QED BY WFMin, NatLessThanWellFounded
<1>2. \A y \in T : ~ (y < x)
  BY <1>1 DEF OpToRel
<1>3. \A y \in T : x <= y
  BY <1>2
<1> QED BY <1>3

(* The first route of a slot is a route, of a metric in use. *)
LEMMA FirstType ==
  ASSUME NEW slot \in [Metrics -> Hops \cup {None}]
  PROVE  /\ First(slot) \in Routes \cup {None}
         /\ First(slot) = None <=> \A m \in Metrics : slot[m] = None
         /\ First(slot) # None => slot[First(slot).metric] = First(slot).hop
<1>1. CASE \A m \in Metrics : slot[m] = None
  BY <1>1 DEF First
<1>2. CASE \E m \in Metrics : slot[m] # None
  <2> DEFINE Used == {m \in Metrics : slot[m] # None}
             low == CHOOSE m \in Metrics : /\ slot[m] # None
                                           /\ \A n \in Metrics : slot[n] # None => m <= n
  <2>1. Used # {} /\ Used \subseteq Nat
    BY <1>2, DiffAssumption DEF DiffAssumption
  <2>2. \E x \in Used : \A y \in Used : x <= y
    BY <2>1, LeastNat
  <2>3. low \in Metrics /\ slot[low] # None
    BY <2>2
  <2>4. First(slot) = [hop |-> slot[low], metric |-> low]
    BY <1>2 DEF First
  <2>5. First(slot) \in Routes
    BY <2>3, <2>4 DEF Routes
  <2>6. None \notin Routes
    BY DiffAssumption DEF DiffAssumption, Routes
  <2>7. First(slot) # None
    BY <2>5, <2>6
  <2>8. First(slot).metric = low /\ First(slot).hop = slot[low]
    BY <2>4
  <2> HIDE DEF low
  <2> QED BY <1>2, <2>5, <2>7, <2>8
<1> QED BY <1>1, <1>2

(* A listing shows a route or none in every slot. *)
LEMMA ListedType ==
  ASSUME NEW k \in Kernels
  PROVE  Listed(k) \in Tables
BY FirstType DEF Kernels, Listed, Tables

(* A listing without the IPv6 routes is a table, and shows what is there or
   nothing. *)
LEMMA ListsType ==
  ASSUME NEW table \in Tables, NEW read \in Lists(table)
  PROVE  read \in Tables /\ \A s \in Slots : read[s] \in {table[s], None}
BY DEF Tables, Lists

(* None is neither a route nor a hop. *)
LEMMA NoneIsNoRoute == None \notin Routes /\ None \notin Hops
BY DiffAssumption DEF DiffAssumption, Routes

(* The ops of a diff are ops; what they change or delete was listed, what they
   add was not. *)
LEMMA DiffType ==
  ASSUME NEW desired \in Tables, NEW man \in Tables, NEW found \in Tables,
         NEW op \in Diff(desired, man, found)
  PROVE  /\ op \in Ops
         /\ op.act = "add" <=> found[op.slot] = None
         /\ op.act = "delete" <=> desired[op.slot] = None
         /\ op.act # "delete" => op.route = desired[op.slot]
BY NoneIsNoRoute DEF Diff, Tables, Ops, Acts

(* The inverse of an op is an op on its slot, whose route is the one that was
   listed there. *)
LEMMA UndoType ==
  ASSUME NEW op \in Ops, NEW found \in Tables,
         op.act # "add" => found[op.slot] # None
  PROVE  /\ Undo(op, found) \in Ops
         /\ Undo(op, found).slot = op.slot
         /\ Undo(op, found).act = "delete" <=> op.act = "add"
         /\ op.act # "add" => Undo(op, found).route = found[op.slot]
<1>1. op.slot \in Slots /\ op.route \in Routes /\ op.act \in Acts
  BY DEF Ops
<1>2. op.act # "add" => found[op.slot] \in Routes
  BY <1>1 DEF Tables
<1>3. CASE op.act = "add"
  BY <1>1, <1>3 DEF Undo, Ops, Acts
<1>4. CASE op.act = "delete"
  BY <1>1, <1>2, <1>4 DEF Undo, Ops, Acts
<1>5. CASE op.act = "change"
  BY <1>1, <1>2, <1>5 DEF Undo, Ops, Acts
<1> QED BY <1>1, <1>3, <1>4, <1>5 DEF Acts

(* Commands keep the kernel table well typed, and change one slot of it. *)
LEMMA ExecType ==
  ASSUME NEW k \in Kernels, NEW op \in Ops
  PROVE  /\ Exec(op, k) \in Kernels
         /\ \A s \in Slots : s # op.slot => Exec(op, k)[s] = k[s]
BY DEF Exec, Put, Drop, Kernels, Ops, Routes

-----------------------------------------------------------------------------
(* Types.  The inverse of an op is an op only if what it changed or deleted had
   been listed, so the inductive invariant knows the plan of the holder of
   routeMu, and that only the holder works. *)
Holder == \A t \in Txns : pc[t] \in Working => mu = t

Planned ==
  \A t \in Txns : pc[t] \in {"exec", "confirm"} =>
    \A op \in todo \cup done : op.act # "add" => before[op.slot] # None

TypeInv == TypeOK /\ Holder /\ Planned

(* The initial state is well typed, and nobody works. *)
LEMMA TypeInit == Init => TypeInv
<1> SUFFICES ASSUME Init PROVE TypeInv
  OBVIOUS
<1>1. Empty \in Tables
  BY DEF Empty, Tables
<1>2. faults \in 0 .. MaxFaults /\ outside \in 0 .. MaxOutside /\ crashes \in 0 .. MaxCrashes
  BY TxnAssumption DEF TxnAssumption, Init
<1>3. /\ pc \in [Txns -> {"idle", "waiting"} \cup Working \cup Ended]
      /\ mode \in [Txns -> {"apply", "rollback"}]
      /\ want \in [Txns -> Tables]
      /\ ctl \in [Txns -> Decisions]
  BY <1>1 DEF Init, Decisions
<1>4. TypeOK
  BY <1>1, <1>2, <1>3 DEF Init, TypeOK
<1>5. Holder /\ Planned
  BY DEF Init, Holder, Planned, Working
<1> QED BY <1>4, <1>5 DEF TypeInv

(* Inverses of ops the holder planned are ops. *)
LEMMA InverseType ==
  ASSUME TypeInv, NEW t \in Txns, pc[t] \in {"exec", "confirm"}
  PROVE  /\ InverseOps(done, before) \subseteq Ops
         /\ Slotted(InverseOps(done, before)) = Slotted(done)
<1>1. ASSUME NEW op \in done
      PROVE  Undo(op, before) \in Ops /\ Undo(op, before).slot = op.slot
  <2>1. op \in Ops /\ before \in Tables /\ (op.act # "add" => before[op.slot] # None)
    BY <1>1 DEF TypeInv, TypeOK, Planned
  <2> QED BY <2>1, UndoType
<1>2. InverseOps(done, before) \subseteq Ops
  BY <1>1 DEF InverseOps
<1>3. Slotted(InverseOps(done, before)) = Slotted(done)
  BY <1>1 DEF InverseOps, Slotted
<1> QED BY <1>2, <1>3

(* Every step keeps the types, the holder and its plan. *)
LEMMA TypeStep == TypeInv /\ [Next]_vars => TypeInv'
<1> SUFFICES ASSUME TypeInv, [Next]_vars PROVE TypeInv'
  OBVIOUS
<1>1. Empty \in Tables
  BY DEF Empty, Tables
<1>2. MaxFaults \in Nat /\ MaxOutside \in Nat /\ MaxCrashes \in Nat /\ Sets \subseteq Tables
      /\ Nobody \notin Txns
  BY TxnAssumption DEF TxnAssumption
<1>3. Listed(kernel) \in Tables
  BY ListedType DEF TypeInv, TypeOK
<1> USE DEF TypeInv, TypeOK, Holder, Planned, files, plan, bounds
<1>a. ASSUME NEW t \in Txns, Claim(t) PROVE TypeInv'
  <2>1. want' \in [Txns -> Tables]
    BY <1>2, <1>a DEF Claim
  <2>2. mode' \in [Txns -> {"apply", "rollback"}]
    BY <1>a DEF Claim
  <2>3. pc' \in [Txns -> {"idle", "waiting"} \cup Working \cup Ended]
    BY <1>a DEF Claim
  <2>4. Holder' /\ Planned'
    BY <1>a DEF Claim, Working
  <2> QED BY <1>a, <2>1, <2>2, <2>3, <2>4 DEF Claim
<1>b. ASSUME NEW t \in Txns, Begin(t) PROVE TypeInv'
  <2>0. PICK moved \in IF mode[t] = "rollback" THEN Reads(previous) ELSE {want[t]} :
          /\ want' = [want EXCEPT ![t] = moved]
          /\ managed' \in Reads(current)
          /\ actual' = Listed(kernel)
          /\ before' \in Lists(actual')
          /\ faults' = faults + Failed(mode[t] = "rollback" /\ moved # previous)
                               + Failed(managed' # current) + Failed(before' # actual')
          /\ faults' <= MaxFaults
          /\ todo' = Diff(moved, managed', before')
    BY <1>b DEF Begin
  <2>1. moved \in Tables /\ managed' \in Tables /\ actual' \in Tables
    BY <1>1, <1>3, <2>0 DEF Reads
  <2>2. before' \in Tables
    BY <2>0, <2>1, ListsType
  <2>3. faults' \in 0 .. MaxFaults
    BY <1>2, <2>0 DEF Failed
  <2>4. todo' \subseteq Ops
        /\ \A op \in todo' : op.act # "add" => before'[op.slot] # None
    BY <2>0, <2>1, <2>2, DiffType
  <2>5. want' \in [Txns -> Tables]
    BY <2>0, <2>1
  <2>6. pc' \in [Txns -> {"idle", "waiting"} \cup Working \cup Ended]
    BY <1>b DEF Begin, Working
  <2>7. Holder'
    BY <1>2, <1>b DEF Begin
  <2>8. Planned'
    BY <1>b, <2>4 DEF Begin
  <2> QED BY <1>b, <2>1, <2>2, <2>3, <2>4, <2>5, <2>6, <2>7, <2>8 DEF Begin
<1>c. ASSUME NEW t \in Txns, BeginFails(t) PROVE TypeInv'
  <2>1. faults' \in 0 .. MaxFaults
    BY <1>2, <1>c DEF BeginFails
  <2>2. pc' \in [Txns -> {"idle", "waiting"} \cup Working \cup Ended]
    BY <1>c DEF BeginFails, Ended, Results
  <2>3. Holder' /\ Planned'
    BY <1>2, <1>c DEF BeginFails, Working
  <2> QED BY <1>c, <2>1, <2>2, <2>3 DEF BeginFails
<1>d. ASSUME NEW t \in Txns, RunOp(t) PROVE TypeInv'
  <2>1. PICK op \in todo : /\ kernel' = Exec(op, kernel)
                           /\ todo' = todo \ {op} /\ done' = done \cup {op}
    BY <1>d DEF RunOp
  <2>2. kernel' \in Kernels
    BY <2>1, ExecType
  <2>3. todo' \cup done' = todo \cup done /\ todo' \subseteq Ops /\ done' \subseteq Ops
    BY <2>1
  <2>4. Holder' /\ Planned'
    BY <1>d, <2>3 DEF RunOp
  <2> QED BY <1>d, <2>2, <2>3, <2>4 DEF RunOp
<1>e. ASSUME NEW t \in Txns, OpFails(t) PROVE TypeInv'
  <2>1. faults' \in 0 .. MaxFaults
    BY <1>2, <1>e DEF OpFails
  <2>2. pc' \in [Txns -> {"idle", "waiting"} \cup Working \cup Ended]
    BY <1>e DEF OpFails, Working, Ended, Results
  <2>3. todo' \subseteq Ops /\ done' \subseteq Ops
    <3>1. pc[t] = "exec" => InverseOps(done, before) \subseteq Ops
      BY InverseType
    <3> QED BY <1>e, <3>1 DEF OpFails
  <2>4. Slotted(done) \subseteq Slots /\ Slotted(todo) \subseteq Slots
    BY DEF Slotted, Ops
  <2>5. drift' \subseteq Slots
    BY <1>e, <2>4 DEF OpFails
  <2>6. mu = t /\ \A u \in Txns \ {t} : pc[u] \notin Working
    BY <1>e DEF OpFails, Working
  <2>7. Holder' /\ Planned'
    BY <1>e, <2>6 DEF OpFails, Working
  <2> QED BY <1>e, <2>1, <2>2, <2>3, <2>5, <2>7 DEF OpFails
<1>f. ASSUME NEW t \in Txns, OpsDone(t) PROVE TypeInv'
  <2>1. pc' \in [Txns -> {"idle", "waiting"} \cup Working \cup Ended]
    BY <1>f DEF OpsDone, Working, Ended, Results
  <2>2. Holder' /\ Planned'
    BY <1>f DEF OpsDone, Working
  <2>3. drift' \subseteq Slots
    BY <1>f DEF OpsDone, Slotted, Ops
  <2> QED BY <1>f, <2>1, <2>2, <2>3 DEF OpsDone
<1>g. ASSUME NEW t \in Txns, DeadlinePasses(t) PROVE TypeInv'
  BY <1>g DEF DeadlinePasses
<1>h. ASSUME NEW t \in Txns, ConfirmAnswered(t) \/ ConfirmLost(t) PROVE TypeInv'
  <2>1. pc[t] = "confirm"
    BY <1>h DEF ConfirmAnswered, ConfirmLost
  <2>2. InverseOps(done, before) \subseteq Ops
    BY <2>1, InverseType
  <2>3. /\ ctl' \in [Txns -> Decisions]
        /\ pc' \in [Txns -> {"idle", "waiting"} \cup Working \cup Ended]
    BY <1>h DEF ConfirmAnswered, ConfirmLost, StartRevert, Decisions, Working
  <2>4. todo' \subseteq Ops /\ done' \subseteq Ops
    BY <1>h, <2>2 DEF ConfirmAnswered, ConfirmLost, StartRevert
  <2>5. mu = t /\ \A u \in Txns \ {t} : pc[u] \notin Working
    BY <2>1 DEF Working
  <2>6. Holder' /\ Planned'
    BY <1>h, <2>5 DEF ConfirmAnswered, ConfirmLost, StartRevert, Working
  <2> QED BY <1>h, <2>3, <2>4, <2>6 DEF ConfirmAnswered, ConfirmLost
<1>i. ASSUME NEW t \in Txns, PromotePrevious(t) PROVE TypeInv'
  BY <1>i DEF PromotePrevious, Working
<1>j. ASSUME NEW t \in Txns, PromoteCurrent(t) PROVE TypeInv'
  BY <1>j DEF PromoteCurrent, Working, Ended, Results
<1>k. ASSUME NEW t \in Txns, PromoteFails(t) PROVE TypeInv'
  <2>1. faults' \in 0 .. MaxFaults
    BY <1>2, <1>k DEF PromoteFails
  <2>2. pc' \in [Txns -> {"idle", "waiting"} \cup Working \cup Ended]
    BY <1>k DEF PromoteFails, Ended, Results
  <2>3. current' \in Tables /\ previous' \in Tables /\ hasPrev' \in BOOLEAN
    BY <1>1, <1>k DEF PromoteFails
  <2>4. drift' \subseteq Slots
    BY <1>k DEF PromoteFails, Slotted, Ops
  <2>5. Holder' /\ Planned'
    BY <1>k DEF PromoteFails, Working
  <2> QED BY <1>k, <2>1, <2>2, <2>3, <2>4, <2>5 DEF PromoteFails
<1>l. ASSUME NEW t \in Txns, SwapCurrent(t) PROVE TypeInv'
  <2>1. faults' \in 0 .. MaxFaults /\ current' \in Tables
    BY <1>1, <1>2, <1>l DEF SwapCurrent
  <2>2. drift' \subseteq Slots
    BY <1>l DEF SwapCurrent, Slotted, Ops
  <2>3. pc' \in [Txns -> {"idle", "waiting"} \cup Working \cup Ended]
    BY <1>l DEF SwapCurrent, Working
  <2>4. Holder' /\ Planned'
    BY <1>l DEF SwapCurrent, Working
  <2> QED BY <1>l, <2>1, <2>2, <2>3, <2>4 DEF SwapCurrent
<1>m. ASSUME NEW t \in Txns, SwapPrevious(t) PROVE TypeInv'
  <2>1. faults' \in 0 .. MaxFaults /\ previous' \in Tables
    BY <1>1, <1>2, <1>m DEF SwapPrevious
  <2>2. pc' \in [Txns -> {"idle", "waiting"} \cup Working \cup Ended]
    BY <1>m DEF SwapPrevious, Ended, Results
  <2>3. Holder' /\ Planned'
    BY <1>m DEF SwapPrevious, Working
  <2> QED BY <1>m, <2>1, <2>2, <2>3 DEF SwapPrevious
<1>n. ASSUME NEW t \in Txns, Unlock(t) PROVE TypeInv'
  <2>1. \A u \in Txns : pc[u] \notin Working
    BY <1>n DEF Unlock, Results, Working
  <2> QED BY <1>1, <1>n, <2>1 DEF Unlock, Working
<1>o. CASE OutsideWrite
  <2>1. /\ kernel' \in Kernels /\ touched' \subseteq Slots /\ drift' \subseteq Slots
        /\ outside' \in 0 .. MaxOutside
    BY <1>2, <1>o DEF OutsideWrite, Kernels
  <2> QED BY <1>o, <2>1 DEF OutsideWrite
<1>p. CASE Crash
  <2>1. /\ pc' \in [Txns -> {"idle", "waiting"} \cup Working \cup Ended]
        /\ \A u \in Txns : pc'[u] \notin Working
    BY <1>p DEF Crash, Working, Ended, Results
  <2>2. current' \in Tables /\ previous' \in Tables /\ hasPrev' \in BOOLEAN
    BY <1>1, <1>p DEF Crash
  <2>3. drift' \subseteq Slots
    BY <1>p DEF Crash, Slotted, Ops
  <2>4. crashes' \in 0 .. MaxCrashes
    BY <1>2, <1>p DEF Crash
  <2>5. Holder' /\ Planned'
    BY <2>1 DEF Working
  <2> QED BY <1>1, <1>p, <2>1, <2>2, <2>3, <2>4, <2>5 DEF Crash
<1>q. CASE UNCHANGED vars
  BY <1>q DEF vars
<1> QED BY <1>a, <1>b, <1>c, <1>d, <1>e, <1>f, <1>g, <1>h, <1>i, <1>j, <1>k,
           <1>l, <1>m, <1>n, <1>o, <1>p, <1>q DEF Next

(* Every variable keeps its type: the ops planned, run and undone are ops of the
   slots there are, and the state files hold tables. *)
THEOREM RouteTypesCorrect == Spec => []TypeOK
<1>1. Init => TypeInv
  BY TypeInit
<1>2. TypeInv /\ [Next]_vars => TypeInv'
  BY TypeStep
<1>3. TypeInv => TypeOK
  BY DEF TypeInv
<1> QED BY <1>1, <1>2, <1>3, PTL DEF Spec

-----------------------------------------------------------------------------
(* Committed sets.  RecordedIsCommitted is not inductive: promote and swap write
   managed and the want of their transaction, so these must be committed sets
   too; and that rests on where a transaction may be. *)
Phases ==
  \A t \in Txns :
    /\ pc[t] = "idle" => mode[t] = "apply" /\ ctl[t] = "open"
    /\ pc[t] \in {"confirm", "promote1", "promote2"} => mode[t] = "apply"
    /\ pc[t] \in {"promote1", "promote2"} => ctl[t] = "committed"
    /\ pc[t] \in {"swap1", "swap2"} => mode[t] = "rollback"

PendingIsCommitted ==
  /\ managed \in CommittedSets
  /\ \A t \in Txns : pc[t] \in {"exec", "swap1"} /\ mode[t] = "rollback"
                      => want[t] \in CommittedSets

CommitInv == Phases /\ RecordedIsCommitted /\ PendingIsCommitted

(* Every step keeps the phases. *)
LEMMA PhasesStep == TypeOK /\ Phases /\ [Next]_vars => Phases'
<1> SUFFICES ASSUME TypeOK, Phases, [Next]_vars PROVE Phases'
  OBVIOUS
<1> USE DEF TypeOK, Phases
<1>a. ASSUME NEW t \in Txns, Claim(t) PROVE Phases'
  BY <1>a DEF Claim
<1>b. ASSUME NEW t \in Txns, Begin(t) PROVE Phases'
  BY <1>b DEF Begin
<1>c. ASSUME NEW t \in Txns, BeginFails(t) PROVE Phases'
  BY <1>c DEF BeginFails
<1>d. ASSUME NEW t \in Txns, RunOp(t) PROVE Phases'
  BY <1>d DEF RunOp
<1>e. ASSUME NEW t \in Txns, OpFails(t) PROVE Phases'
  BY <1>e DEF OpFails
<1>f. ASSUME NEW t \in Txns, OpsDone(t) PROVE Phases'
  BY <1>f DEF OpsDone
<1>g. ASSUME NEW t \in Txns, DeadlinePasses(t) PROVE Phases'
  BY <1>g DEF DeadlinePasses
<1>h. ASSUME NEW t \in Txns, ConfirmAnswered(t) PROVE Phases'
  BY <1>h DEF ConfirmAnswered, StartRevert
<1>i. ASSUME NEW t \in Txns, ConfirmLost(t) PROVE Phases'
  BY <1>i DEF ConfirmLost, StartRevert
<1>j. ASSUME NEW t \in Txns, PromotePrevious(t) \/ PromoteCurrent(t) PROVE Phases'
  BY <1>j DEF PromotePrevious, PromoteCurrent
<1>k. ASSUME NEW t \in Txns, PromoteFails(t) PROVE Phases'
  BY <1>k DEF PromoteFails
<1>l. ASSUME NEW t \in Txns, SwapCurrent(t) \/ SwapPrevious(t) PROVE Phases'
  BY <1>l DEF SwapCurrent, SwapPrevious
<1>m. ASSUME NEW t \in Txns, Unlock(t) PROVE Phases'
  BY <1>m DEF Unlock
<1>n. CASE OutsideWrite
  BY <1>n DEF OutsideWrite
<1>o. CASE Crash
  BY <1>o DEF Crash
<1>p. CASE UNCHANGED vars
  BY <1>p DEF vars
<1> QED BY <1>a, <1>b, <1>c, <1>d, <1>e, <1>f, <1>g, <1>h, <1>i, <1>j, <1>k,
           <1>l, <1>m, <1>n, <1>o, <1>p DEF Next

(* A committed apply keeps the set it asked for. *)
LEMMA CommittedGrows ==
  ASSUME TypeOK, Phases, [Next]_vars
  PROVE  CommittedSets \subseteq CommittedSets'
<1> DEFINE Kept == \A u \in Txns : mode[u] = "apply" /\ ctl[u] = "committed" =>
                     /\ mode'[u] = "apply" /\ ctl'[u] = "committed"
                     /\ want'[u] = want[u]
<1>1. ASSUME NEW t \in Txns, Claim(t) PROVE Kept
  BY <1>1 DEF Claim, TypeOK, Phases
<1>2. ASSUME NEW t \in Txns, Begin(t) PROVE Kept
  BY <1>2 DEF Begin, TypeOK
<1>3. ASSUME NEW t \in Txns, ConfirmAnswered(t) \/ ConfirmLost(t) PROVE Kept
  BY <1>3 DEF ConfirmAnswered, ConfirmLost, TypeOK
<1>4. ASSUME UNCHANGED <<mode, ctl, want>> PROVE Kept
  BY <1>4
<1>5. \/ \E t \in Txns : Claim(t) \/ Begin(t) \/ ConfirmAnswered(t) \/ ConfirmLost(t)
      \/ UNCHANGED <<mode, ctl, want>>
  BY DEF Next, BeginFails, RunOp, OpFails, OpsDone, DeadlinePasses,
         PromotePrevious, PromoteCurrent, PromoteFails, SwapCurrent,
         SwapPrevious, Unlock, OutsideWrite, Crash, vars
<1>6. Kept
  BY <1>1, <1>2, <1>3, <1>4, <1>5
<1> QED BY <1>6 DEF CommittedSets

(* Every step keeps the state files, and what they may yet become, committed. *)
LEMMA CommitStep == TypeOK /\ CommitInv /\ [Next]_vars => CommitInv'
<1> SUFFICES ASSUME TypeOK, CommitInv, [Next]_vars PROVE CommitInv'
  OBVIOUS
<1> DEFINE Old == CommittedSets
           New == CommittedSets'
           Safe == /\ current' \in New /\ previous' \in New /\ managed' \in New
                   /\ \A u \in Txns : pc'[u] \in {"exec", "swap1"} /\ mode'[u] = "rollback"
                                       => want'[u] \in New
<1>1. Phases'
  BY PhasesStep DEF CommitInv
<1>2. Old \subseteq New
  BY CommittedGrows DEF CommitInv
<1>3. Empty \in Old
  BY DEF CommittedSets
<1>4. current \in Old /\ previous \in Old /\ managed \in Old
  BY DEF CommitInv, RecordedIsCommitted, PendingIsCommitted
<1>5. \A u \in Txns : pc[u] \in {"exec", "swap1"} /\ mode[u] = "rollback" => want[u] \in Old
  BY DEF CommitInv, PendingIsCommitted
<1>6. \A u \in Txns : pc[u] \in {"promote1", "promote2"} => want[u] \in Old
  BY DEF CommitInv, Phases, CommittedSets
<1>7. \A u \in Txns : pc[u] \in {"swap1", "swap2"} => mode[u] = "rollback"
  BY DEF CommitInv, Phases
<1> HIDE DEF Old, New
<1>8. Safe
  <2> USE <1>2, <1>3, <1>4, <1>5, <1>6, <1>7 DEF TypeOK, files, plan
  <2>a. ASSUME NEW t \in Txns, Claim(t) PROVE Safe
    BY <2>a DEF Claim
  <2>b. ASSUME NEW t \in Txns, Begin(t) PROVE Safe
    BY <2>b DEF Begin, Reads
  <2>c. ASSUME NEW t \in Txns, BeginFails(t) PROVE Safe
    BY <2>c DEF BeginFails
  <2>d. ASSUME NEW t \in Txns, RunOp(t) PROVE Safe
    BY <2>d DEF RunOp
  <2>e. ASSUME NEW t \in Txns, OpFails(t) PROVE Safe
    BY <2>e DEF OpFails
  <2>f. ASSUME NEW t \in Txns, OpsDone(t) PROVE Safe
    BY <2>f DEF OpsDone
  <2>g. ASSUME NEW t \in Txns, DeadlinePasses(t) PROVE Safe
    BY <2>g DEF DeadlinePasses
  <2>h. ASSUME NEW t \in Txns, ConfirmAnswered(t) \/ ConfirmLost(t) PROVE Safe
    BY <2>h DEF ConfirmAnswered, ConfirmLost, StartRevert
  <2>i. ASSUME NEW t \in Txns, PromotePrevious(t) \/ PromoteCurrent(t) PROVE Safe
    BY <2>i DEF PromotePrevious, PromoteCurrent
  <2>j. ASSUME NEW t \in Txns, PromoteFails(t) PROVE Safe
    BY <2>j DEF PromoteFails
  <2>k. ASSUME NEW t \in Txns, SwapCurrent(t) \/ SwapPrevious(t) PROVE Safe
    BY <2>k DEF SwapCurrent, SwapPrevious
  <2>l. ASSUME NEW t \in Txns, Unlock(t) PROVE Safe
    BY <2>l DEF Unlock
  <2>m. ASSUME OutsideWrite PROVE Safe
    BY <2>m DEF OutsideWrite
  <2>n. ASSUME Crash PROVE Safe
    BY <2>n DEF Crash
  <2>o. ASSUME UNCHANGED vars PROVE Safe
    BY <2>o DEF vars
  <2> QED BY <2>a, <2>b, <2>c, <2>d, <2>e, <2>f, <2>g, <2>h, <2>i, <2>j, <2>k,
             <2>l, <2>m, <2>n, <2>o DEF Next
<1> QED BY <1>1, <1>8 DEF CommitInv, RecordedIsCommitted, PendingIsCommitted, New

(* Only the controller's commit makes a set the managed one, or a rollback's
   target: whatever is lost, fails or crashes, current.json and previous.json
   hold nothing or the set of an apply the controller committed. *)
THEOREM RecordedIsCommittedHolds == Spec => []RecordedIsCommitted
<1>1. Init => CommitInv
  BY DEF Init, CommitInv, Phases, RecordedIsCommitted, PendingIsCommitted, CommittedSets
<1>2. TypeOK /\ CommitInv /\ [Next]_vars => CommitInv'
  BY CommitStep
<1>3. CommitInv => RecordedIsCommitted
  BY DEF CommitInv
<1> QED BY RouteTypesCorrect, <1>1, <1>2, <1>3, PTL DEF Spec

-----------------------------------------------------------------------------
(* The kernel table, when all routes have one metric.  While ops run, a slot is
   listed as it was until its op has run, and as wanted from then on; while they
   are undone, a slot is listed as it was read once its inverse has run.  It was
   read as it was, or as none when the listing left it out, and then the only op
   on it adds what is wanted. *)
OneMetric == \A m, n \in Metrics : m = n

Target(op) == IF op.act = "delete" THEN None ELSE op.route

Shown == \A s \in Slots : before[s] \in {actual[s], None}

Forward(t) ==
  /\ Shown
  /\ todo \cup done = Diff(want[t], managed, before)
  /\ \A s \in Slots \ touched :
       Listed(kernel)[s] = IF s \in Slotted(done) THEN want[t][s] ELSE actual[s]

Backward(t) ==
  /\ \A op \in todo : Target(op) = before[op.slot]
  /\ \A s \in Hidden : s \in Slotted(todo) \cup Slotted(done) => want[t][s] # None
  /\ \A s \in Slots \ touched :
       s \notin Slotted(todo) =>
         Listed(kernel)[s] = IF s \in Slotted(done) THEN before[s] ELSE actual[s]

KernelInv ==
  \A t \in Txns :
    /\ pc[t] \in {"exec", "confirm", "promote1", "promote2", "swap1"} => Forward(t)
    /\ pc[t] \in {"confirm", "promote1", "promote2", "swap1"} => todo = {}
    /\ pc[t] \in {"undo", "revert"} => Backward(t)
    /\ mu = t /\ pc[t] \in {"reverted", "failed"} /\ mode[t] = "apply" =>
         \A s \in Slots \ touched :
           (s \in Hidden => want[t][s] = None) => actual[s] = Listed(kernel)[s]

(* A command that runs leaves its slot listed as it says, and the others as
   they were. *)
LEMMA ExecLists ==
  ASSUME OneMetric, NEW k \in Kernels, NEW op \in Ops, Runs(op, k), NEW s \in Slots
  PROVE  Listed(Exec(op, k))[s] = IF s = op.slot THEN Target(op) ELSE Listed(k)[s]
<1>1. op.slot \in Slots /\ op.route \in Routes /\ op.act \in Acts
  BY DEF Ops
<1>2. Exec(op, k) \in Kernels
  BY ExecType
<1>3. k[op.slot] \in [Metrics -> Hops \cup {None}]
  BY <1>1 DEF Kernels
<1>4. Listed(Exec(op, k))[s] = First(Exec(op, k)[s]) /\ Listed(k)[s] = First(k[s])
  BY DEF Listed
<1>5. CASE s # op.slot
  BY <1>4, <1>5, ExecType
<1>6. CASE s = op.slot
  <2> DEFINE new == Exec(op, k)[s]
  <2>1. new \in [Metrics -> Hops \cup {None}]
    BY <1>2 DEF Kernels
  <2>2. CASE op.act = "delete"
    <3>1. First(k[s]) # None
      BY <1>6, <2>2 DEF Runs
    <3>2. First(k[s]) \in Routes
      BY <1>3, <1>6, <3>1, FirstType
    <3>3. First(k[s]).metric \in Metrics
      BY <3>2 DEF Routes
    <3>4. new = [k[s] EXCEPT ![First(k[s]).metric] = None]
      BY <1>1, <1>6, <2>2 DEF Exec, Drop, Kernels
    <3>5. \A m \in Metrics : new[m] = None
      BY <1>3, <1>6, <3>3, <3>4 DEF OneMetric
    <3>6. First(new) = None
      BY <2>1, <3>5, FirstType
    <3> QED BY <1>4, <1>6, <2>2, <3>6 DEF Target
  <2>3. CASE op.act # "delete"
    <3>1. op.route.metric \in Metrics /\ op.route.hop \in Hops
          /\ op.route = [hop |-> op.route.hop, metric |-> op.route.metric]
      BY <1>1 DEF Routes
    <3>2. new = [k[s] EXCEPT ![op.route.metric] = op.route.hop]
      BY <1>1, <1>6, <2>3 DEF Exec, Put, Kernels
    <3>3. new[op.route.metric] = op.route.hop /\ op.route.hop # None
      BY <1>3, <1>6, <3>1, <3>2, NoneIsNoRoute
    <3>4. First(new) # None
      BY <2>1, <3>1, <3>3, FirstType
    <3>5. First(new) \in Routes /\ new[First(new).metric] = First(new).hop
      BY <2>1, <3>4, FirstType
    <3>6. First(new).metric = op.route.metric
      BY <3>1, <3>5 DEF OneMetric, Routes
    <3>7. First(new) = op.route
      BY <3>1, <3>3, <3>5, <3>6 DEF Routes
    <3> QED BY <1>4, <1>6, <2>3, <3>7 DEF Target
  <2> QED BY <2>2, <2>3
<1> QED BY <1>5, <1>6

(* The diff has an op for every slot that is not as wanted: a slot without one
   lists the route wanted, or none that was managed. *)
LEMMA DiffCovers ==
  ASSUME NEW desired \in Tables, NEW man \in Tables, NEW found \in Tables,
         NEW s \in Slots, s \notin Slotted(Diff(desired, man, found))
  PROVE  /\ desired[s] # None => Same(found[s], desired[s])
         /\ desired[s] = None /\ man[s] # None => found[s] = None
<1>1. ASSUME desired[s] # None, found[s] = None PROVE FALSE
  <2>1. [act |-> "add", slot |-> s, route |-> desired[s]] \in Diff(desired, man, found)
    BY <1>1 DEF Diff
  <2> QED BY <2>1 DEF Slotted
<1>2. ASSUME desired[s] # None, found[s] # None, ~ Same(found[s], desired[s]) PROVE FALSE
  <2>1. [act |-> "change", slot |-> s, route |-> desired[s]] \in Diff(desired, man, found)
    BY <1>2 DEF Diff
  <2> QED BY <2>1 DEF Slotted
<1>3. ASSUME desired[s] = None, man[s] # None, found[s] # None PROVE FALSE
  <2>1. [act |-> "delete", slot |-> s, route |-> man[s]] \in Diff(desired, man, found)
    BY <1>3 DEF Diff
  <2> QED BY <2>1 DEF Slotted
<1> QED BY <1>1, <1>2, <1>3

(* Undoing what ran, from where Forward leaves the table, is Backward. *)
LEMMA TurnBack ==
  ASSUME TypeInv, NEW t \in Txns, pc[t] \in {"exec", "confirm"}, Forward(t),
         todo' = InverseOps(done, before), done' = {},
         UNCHANGED <<kernel, want, plan, touched>>
  PROVE  Backward(t)'
<1> USE DEF plan
<1>1. Slotted(todo') = Slotted(done) /\ Slotted(done') = {}
  BY InverseType DEF Slotted
<1>2. ASSUME NEW op \in done
      PROVE  /\ Target(Undo(op, before)) = before[Undo(op, before).slot]
             /\ before[op.slot] = None => want[t][op.slot] # None
  <2>1. op \in Ops /\ before \in Tables /\ (op.act # "add" => before[op.slot] # None)
    BY DEF TypeInv, TypeOK, Planned
  <2>2. (op.act = "add" => before[op.slot] = None)
        /\ (op.act = "delete" <=> want[t][op.slot] = None)
    BY DiffType DEF TypeInv, TypeOK, Forward
  <2> QED BY <2>1, <2>2, UndoType DEF Target
<1>3. \A op \in todo' : Target(op) = before'[op.slot]
  BY <1>2 DEF InverseOps
<1>4. \A s \in Slots \ touched' : s \notin Slotted(todo') => Listed(kernel)'[s] = actual'[s]
  BY <1>1 DEF Forward
<1>5. \A s \in Hidden : s \in Slotted(done) => want[t][s] # None
  BY <1>2 DEF Hidden, Forward, Shown, Slotted
<1>6. Hidden' = Hidden
  BY DEF Hidden
<1> QED BY <1>1, <1>3, <1>4, <1>5, <1>6 DEF Backward

(* An op of the plan brings its slot to what is wanted. *)
LEMMA ForwardRun ==
  ASSUME OneMetric, TypeInv, NEW t \in Txns, Forward(t), NEW op \in todo,
         Runs(op, kernel), kernel' = Exec(op, kernel), todo' = todo \ {op},
         done' = done \cup {op}, UNCHANGED <<want, plan, touched>>
  PROVE  Forward(t)'
<1> USE DEF plan
<1>1. op \in Ops /\ kernel \in Kernels
  BY DEF TypeInv, TypeOK
<1>2. Target(op) = want[t][op.slot]
  BY DiffType DEF Forward, Target, TypeInv, TypeOK
<1>3. Slotted(done') = Slotted(done) \cup {op.slot}
  BY DEF Slotted
<1>4. todo' \cup done' = Diff(want'[t], managed', before') /\ Shown'
  BY DEF Forward, Shown
<1>5. ASSUME NEW s \in Slots \ touched
      PROVE  Listed(kernel')[s] = IF s \in Slotted(done') THEN want[t][s] ELSE actual[s]
  <2>1. Listed(kernel')[s] = IF s = op.slot THEN Target(op) ELSE Listed(kernel)[s]
    BY <1>1, ExecLists
  <2>2. Listed(kernel)[s] = IF s \in Slotted(done) THEN want[t][s] ELSE actual[s]
    BY DEF Forward
  <2> QED BY <1>2, <1>3, <2>1, <2>2
<1> QED BY <1>4, <1>5 DEF Forward

(* An inverse op brings its slot back. *)
LEMMA BackwardRun ==
  ASSUME OneMetric, TypeInv, NEW t \in Txns, Backward(t), NEW op \in todo,
         Runs(op, kernel), kernel' = Exec(op, kernel), todo' = todo \ {op},
         done' = done \cup {op}, UNCHANGED <<want, plan, touched>>
  PROVE  Backward(t)'
<1> USE DEF plan
<1>1. op \in Ops /\ kernel \in Kernels
  BY DEF TypeInv, TypeOK
<1>2. Target(op) = before[op.slot]
  BY DEF Backward
<1>3. /\ Slotted(done') = Slotted(done) \cup {op.slot}
      /\ Slotted(todo) = Slotted(todo') \cup {op.slot}
  BY DEF Slotted
<1>4. ASSUME NEW s \in Slots \ touched, s \notin Slotted(todo')
      PROVE  Listed(kernel')[s] = IF s \in Slotted(done') THEN before[s] ELSE actual[s]
  <2>1. Listed(kernel')[s] = IF s = op.slot THEN Target(op) ELSE Listed(kernel)[s]
    BY <1>1, ExecLists
  <2>2. s # op.slot =>
          Listed(kernel)[s] = IF s \in Slotted(done) THEN before[s] ELSE actual[s]
    BY <1>3, <1>4 DEF Backward
  <2> QED BY <1>2, <1>3, <2>1, <2>2
<1>5. \A o \in todo' : Target(o) = before'[o.slot]
  BY DEF Backward
<1>6. \A s \in Hidden : s \in Slotted(todo') \cup Slotted(done') => want[t][s] # None
  BY <1>3 DEF Backward
<1>7. Hidden' = Hidden
  BY DEF Hidden
<1> QED BY <1>4, <1>5, <1>6, <1>7 DEF Backward

(* Every step keeps what is known of the kernel table. *)
LEMMA KernelStep ==
  ASSUME OneMetric, TypeInv, Phases, KernelInv, [Next]_vars
  PROVE  KernelInv'
<1>1. \A t \in Txns : pc[t] \in Working => mu = t /\ \A u \in Txns \ {t} : pc[u] \notin Working
  BY DEF TypeInv, Holder
<1>2. Nobody \notin Txns
  BY TxnAssumption DEF TxnAssumption
<1> USE DEF TypeInv, TypeOK, files, plan, bounds
<1>a. ASSUME NEW t \in Txns, Claim(t) PROVE KernelInv'
  BY <1>a DEF Claim, KernelInv, Forward, Backward, Shown, Hidden
<1>b. ASSUME NEW t \in Txns, Begin(t) PROVE KernelInv'
  <2>1. \A u \in Txns : pc[u] \notin Working
    BY <1>1, <1>2, <1>b DEF Begin
  <2>2. Slotted(done') = {}
    BY <1>b DEF Begin, Slotted
  <2>3. Forward(t)'
    <3>1. Shown'
      BY <1>b, ListedType, ListsType DEF Begin, Shown
    <3> QED BY <1>b, <2>2, <3>1 DEF Begin, Forward
  <2> QED BY <1>b, <2>1, <2>3 DEF Begin, KernelInv, Working
<1>c. ASSUME NEW t \in Txns, BeginFails(t) PROVE KernelInv'
  <2>1. \A u \in Txns : pc[u] \notin Working
    BY <1>1, <1>2, <1>c DEF BeginFails
  <2> QED BY <1>c, <2>1 DEF BeginFails, KernelInv, Working
<1>d. ASSUME NEW t \in Txns, RunOp(t) PROVE KernelInv'
  <2>1. PICK op \in todo : /\ Runs(op, kernel) /\ kernel' = Exec(op, kernel)
                           /\ todo' = todo \ {op} /\ done' = done \cup {op}
    BY <1>d DEF RunOp
  <2>2. pc[t] \in {"exec", "undo", "revert"} /\ UNCHANGED <<pc, want, plan, touched, mu, mode>>
    BY <1>d DEF RunOp
  <2>3. \A u \in Txns \ {t} : pc[u] \notin Working /\ mu # u
    BY <1>1, <2>2 DEF Working
  <2>4. pc[t] = "exec" => Forward(t)'
    BY <2>1, <2>2, ForwardRun DEF KernelInv
  <2>5. pc[t] \in {"undo", "revert"} => Backward(t)'
    BY <2>1, <2>2, BackwardRun DEF KernelInv
  <2> QED BY <2>2, <2>3, <2>4, <2>5 DEF KernelInv, Working
<1>e. ASSUME NEW t \in Txns, OpFails(t) PROVE KernelInv'
  <2>1. pc[t] \in {"exec", "undo", "revert"} /\ UNCHANGED <<kernel, want, plan, touched, mu, mode>>
    BY <1>e DEF OpFails
  <2>2. mu = t /\ \A u \in Txns \ {t} : pc[u] \notin Working /\ pc'[u] = pc[u]
    BY <1>1, <1>e, <2>1 DEF OpFails, Working
  <2>3. CASE pc[t] = "exec" /\ mode[t] = "apply" /\ done # {}
    <3>1. pc' = [pc EXCEPT ![t] = "undo"] /\ todo' = InverseOps(done, before) /\ done' = {}
      BY <1>e, <2>3 DEF OpFails
    <3>2. Backward(t)'
      BY <2>1, <2>3, <3>1, TurnBack DEF KernelInv
    <3> QED BY <2>1, <2>2, <3>1, <3>2 DEF KernelInv, Working
  <2>4. CASE ~ (pc[t] = "exec" /\ mode[t] = "apply" /\ done # {})
    <3>1. pc' = [pc EXCEPT ![t] = IF pc[t] = "exec" THEN "failed" ELSE "stuck"]
      BY <1>e, <2>4 DEF OpFails
    <3>2. ASSUME pc[t] = "exec", mode[t] = "apply", NEW s \in Slots \ touched
          PROVE  actual[s] = Listed(kernel)[s]
      <4>1. done = {}
        BY <2>4, <3>2
      <4>2. Slotted(done) = {}
        BY <4>1 DEF Slotted
      <4> QED BY <3>2, <4>2 DEF KernelInv, Forward
    <3> QED BY <2>1, <2>2, <3>1, <3>2 DEF KernelInv, Working
  <2> QED BY <2>3, <2>4
<1>f. ASSUME NEW t \in Txns, OpsDone(t) PROVE KernelInv'
  <2>1. pc[t] \in {"exec", "undo", "revert"} /\ todo = {}
        /\ UNCHANGED <<kernel, todo, done, want, plan, touched, mu, mode>>
    BY <1>f DEF OpsDone
  <2>2. mu = t /\ \A u \in Txns \ {t} : pc[u] \notin Working /\ pc'[u] = pc[u]
    BY <1>1, <1>f, <2>1 DEF OpsDone, Working
  <2>3. pc[t] = "exec" => pc'[t] \in {"confirm", "swap1"}
    BY <1>f DEF OpsDone
  <2>4. pc[t] \in {"undo", "revert"} => pc'[t] \in {"failed", "reverted"}
    BY <1>f DEF OpsDone
  <2>5. pc[t] = "exec" => Forward(t)'
    BY <2>1 DEF KernelInv, Forward, Shown
  <2>6. ASSUME pc[t] \in {"undo", "revert"}, NEW s \in Slots \ touched,
               s \in Hidden => want[t][s] = None
        PROVE  actual[s] = Listed(kernel)[s]
    <3>1. Slotted(todo) = {}
      BY <2>1 DEF Slotted
    <3>2. s \in Slotted(done) => before[s] = actual[s]
      BY <2>6 DEF KernelInv, Backward, Hidden
    <3> QED BY <2>6, <3>1, <3>2 DEF KernelInv, Backward
  <2>7. Hidden' = Hidden
    BY <2>1 DEF Hidden
  <2> QED BY <2>1, <2>2, <2>3, <2>4, <2>5, <2>6, <2>7 DEF KernelInv, Working
<1>g. ASSUME NEW t \in Txns, DeadlinePasses(t) PROVE KernelInv'
  BY <1>g DEF DeadlinePasses, KernelInv, Forward, Backward, Shown, Hidden
<1>h. ASSUME NEW t \in Txns, ConfirmAnswered(t) \/ ConfirmLost(t) PROVE KernelInv'
  <2>1. pc[t] = "confirm" /\ UNCHANGED <<kernel, want, plan, touched, mu, mode>>
    BY <1>h DEF ConfirmAnswered, ConfirmLost
  <2>2. mu = t /\ \A u \in Txns \ {t} : pc[u] \notin Working
    BY <1>1, <2>1 DEF Working
  <2>3. Forward(t) /\ todo = {}
    BY <2>1 DEF KernelInv
  <2>4. \/ pc' = [pc EXCEPT ![t] = "promote1"] /\ UNCHANGED <<todo, done>>
        \/ UNCHANGED <<pc, todo, done>>
        \/ /\ pc' = [pc EXCEPT ![t] = "revert"]
           /\ todo' = InverseOps(done, before) /\ done' = {}
    BY <1>h DEF ConfirmAnswered, ConfirmLost, StartRevert
  <2>5. CASE pc' \in {pc, [pc EXCEPT ![t] = "promote1"]} /\ UNCHANGED <<todo, done>>
    <3>1. Forward(t)' /\ todo' = {}
      BY <2>1, <2>3, <2>5 DEF Forward, Shown
    <3> QED BY <2>1, <2>2, <2>5, <3>1 DEF KernelInv, Working
  <2>6. CASE /\ pc' = [pc EXCEPT ![t] = "revert"]
             /\ todo' = InverseOps(done, before) /\ done' = {}
    <3>1. Backward(t)'
      BY <2>1, <2>3, <2>6, TurnBack
    <3> QED BY <2>1, <2>2, <2>6, <3>1 DEF KernelInv, Working
  <2> QED BY <2>4, <2>5, <2>6
<1>i. ASSUME NEW t \in Txns, PromotePrevious(t) PROVE KernelInv'
  <2>1. \A u \in Txns \ {t} : pc[u] \notin Working
    BY <1>1, <1>i DEF PromotePrevious, Working
  <2>2. Forward(t)' /\ todo' = {}
    BY <1>i DEF PromotePrevious, KernelInv, Forward, Shown
  <2>3. mu' = t /\ pc' = [pc EXCEPT ![t] = "promote2"]
    BY <1>1, <1>i DEF PromotePrevious, Working
  <2> QED BY <2>1, <2>2, <2>3 DEF KernelInv, Working
<1>j. ASSUME NEW t \in Txns, PromoteCurrent(t) \/ PromoteFails(t) PROVE KernelInv'
  <2>1. \A u \in Txns \ {t} : pc[u] \notin Working /\ pc'[u] = pc[u] /\ mu' # u
    BY <1>1, <1>j DEF PromoteCurrent, PromoteFails, Working
  <2> QED BY <1>j, <2>1 DEF PromoteCurrent, PromoteFails, KernelInv, Working
<1>k. ASSUME NEW t \in Txns, SwapCurrent(t) \/ SwapPrevious(t) PROVE KernelInv'
  <2>1. \A u \in Txns \ {t} : pc[u] \notin Working /\ pc'[u] = pc[u] /\ mu' # u
    BY <1>1, <1>k DEF SwapCurrent, SwapPrevious, Working
  <2> QED BY <1>k, <2>1 DEF SwapCurrent, SwapPrevious, KernelInv, Working
<1>l. ASSUME NEW t \in Txns, Unlock(t) PROVE KernelInv'
  <2>1. \A u \in Txns : pc[u] \notin Working
    BY <1>1, <1>l DEF Unlock, Results, Working
  <2> QED BY <1>2, <1>l, <2>1 DEF Unlock, KernelInv, Working
<1>m. CASE OutsideWrite
  <2>1. PICK x \in Slots : touched' = touched \cup {x}
                           /\ \A s \in Slots \ {x} : Listed(kernel')[s] = Listed(kernel)[s]
    BY <1>m DEF OutsideWrite, Listed, Kernels
  <2>2. UNCHANGED <<pc, want, plan, todo, done, mu, mode>>
    BY <1>m DEF OutsideWrite
  <2>3. Hidden' = Hidden /\ (Shown => Shown')
    BY <2>2 DEF Hidden, Shown
  <2>4. \A t \in Txns : Forward(t) => Forward(t)'
    BY <2>1, <2>2, <2>3 DEF Forward
  <2>5. \A t \in Txns : Backward(t) => Backward(t)'
    BY <2>1, <2>2, <2>3 DEF Backward
  <2> QED BY <2>1, <2>2, <2>3, <2>4, <2>5 DEF KernelInv
<1>n. CASE Crash
  <2>1. \A u \in Txns : pc'[u] \notin Working /\ mu' # u
    BY <1>2, <1>n DEF Crash, Working
  <2> QED BY <2>1 DEF KernelInv, Working
<1>o. CASE UNCHANGED vars
  BY <1>o DEF vars, KernelInv, Forward, Backward, Shown, Hidden
<1> QED BY <1>a, <1>b, <1>c, <1>d, <1>e, <1>f, <1>g, <1>h, <1>i, <1>j, <1>k,
           <1>l, <1>m, <1>n, <1>o DEF Next

(* Nothing is known of the table before the first transaction. *)
LEMMA KernelInit == Init => KernelInv
BY DEF Init, KernelInv

(* The invariants of the kernel table hold of every behaviour. *)
LEMMA KernelHolds ==
  ASSUME OneMetric
  PROVE  Spec => [](TypeInv /\ KernelInv)
<1>1. Init => TypeInv /\ Phases /\ KernelInv
  BY TypeInit, KernelInit DEF Init, Phases
<1>2. TypeInv /\ Phases /\ KernelInv /\ [Next]_vars => (TypeInv /\ Phases /\ KernelInv)'
  BY OneMetric, TypeStep, PhasesStep, KernelStep DEF TypeInv
<1> QED BY <1>1, <1>2, PTL DEF Spec

(* What the invariants say of a transaction whose ops have all run. *)
LEMMA AppliedInv == TypeInv /\ KernelInv => Applied
<1> SUFFICES ASSUME TypeInv, KernelInv, NEW t \in Txns,
                    pc[t] \in {"confirm", "promote1", "promote2", "swap1"},
                    NEW s \in Slots \ touched
             PROVE  /\ want[t][s] # None => Same(Listed(kernel)[s], want[t][s])
                    /\ want[t][s] = None /\ managed[s] # None /\ s \notin Hidden
                         => Listed(kernel)[s] = None
  BY DEF Applied
<1>1. /\ done = Diff(want[t], managed, before)
      /\ Listed(kernel)[s] = IF s \in Slotted(done) THEN want[t][s] ELSE actual[s]
      /\ before[s] \in {actual[s], None}
  BY DEF KernelInv, Forward, Shown
<1>2. want[t] \in Tables /\ managed \in Tables /\ before \in Tables
  BY DEF TypeInv, TypeOK
<1>3. CASE s \in Slotted(done)
  BY <1>1, <1>3 DEF Same
<1>4. CASE s \notin Slotted(done)
  <2>1. /\ want[t][s] # None => Same(before[s], want[t][s])
        /\ want[t][s] = None /\ managed[s] # None => before[s] = None
    BY <1>1, <1>2, <1>4, DiffCovers
  <2> QED BY <1>1, <1>4, <2>1 DEF Same, Hidden
<1> QED BY <1>3, <1>4

(* With one metric, what the controller is asked to confirm is in the kernel:
   every desired route is the one listed, also where the listing left out the
   IPv6 route that was there, and no route read as managed and no longer desired
   is, unless the listing left it out; outside the slots others have changed
   since the transaction listed the table, whatever it found there. *)
THEOREM AppliedHolds ==
  ASSUME OneMetric
  PROVE  Spec => []Applied
BY AppliedInv, KernelHolds, PTL

(* With one metric, an apply that was refused, timed out or failed half way and
   was undone leaves every slot listed as it was, except those that others
   have changed since and those wanted whose IPv6 route it could not list. *)
THEOREM RestoredHolds ==
  ASSUME OneMetric
  PROVE  Spec => []Restored
<1>1. KernelInv => Restored
  BY DEF KernelInv, Restored
<1> QED BY <1>1, KernelHolds, PTL

-----------------------------------------------------------------------------
(* What current.json records.  While a transaction works on the table, or has
   not yet written the file, current.json was in force in the table as it was
   when the transaction read it; otherwise it is in force. *)
Early == {"exec", "undo", "revert", "confirm", "promote1", "promote2", "swap1"}

InForce(set, table) == \A s \in Slots \ drift : set[s] # None => Same(table[s], set[s])

RecordInv ==
  /\ touched \subseteq drift
  /\ (\E t \in Txns : pc[t] \in Early) => InForce(current, actual)
  /\ (\A t \in Txns : pc[t] \notin Early) => InForce(current, Listed(kernel))

(* A slot whose op has not run, or has been undone, lists what it did. *)
LEMMA Untouched ==
  ASSUME TypeInv, KernelInv, NEW t \in Txns, pc[t] \in Early,
         NEW s \in Slots \ touched, s \notin Slotted(todo \cup done)
  PROVE  Listed(kernel)[s] = actual[s]
<1>1. s \notin Slotted(todo) /\ s \notin Slotted(done)
  BY DEF Slotted
<1>2. CASE pc[t] \in {"undo", "revert"}
  BY <1>1, <1>2 DEF KernelInv, Backward
<1>3. CASE pc[t] \notin {"undo", "revert"}
  BY <1>1, <1>3 DEF KernelInv, Forward, Early
<1> QED BY <1>2, <1>3

(* Every step keeps what is known of current.json. *)
LEMMA RecordStep ==
  ASSUME OneMetric, TypeInv, Phases, KernelInv, RecordInv, [Next]_vars
  PROVE  RecordInv'
<1>1. \A t \in Txns : pc[t] \in Working => mu = t /\ \A u \in Txns \ {t} : pc[u] \notin Working
  BY DEF TypeInv, Holder
<1>2. Nobody \notin Txns
  BY TxnAssumption DEF TxnAssumption
<1>3. Early \subseteq Working
  BY DEF Early, Working
<1>4. \A s \in Slots : Empty[s] = None
  BY DEF Empty
<1>5. \A t \in Txns : pc[t] \in {"promote2", "swap1"} =>
        \A s \in Slots \ touched : want[t][s] # None => Same(Listed(kernel)[s], want[t][s])
  BY AppliedInv DEF Applied
<1> USE DEF TypeInv, TypeOK, files, plan, bounds
<1>a. ASSUME NEW t \in Txns, Claim(t) PROVE RecordInv'
  BY <1>a DEF Claim, RecordInv, InForce, Early
<1>b. ASSUME NEW t \in Txns, Begin(t) PROVE RecordInv'
  <2>1. \A u \in Txns : pc[u] \notin Early
    BY <1>1, <1>2, <1>3, <1>b DEF Begin
  <2>2. pc'[t] \in Early
    BY <1>b DEF Begin, Early
  <2> QED BY <1>b, <2>1, <2>2 DEF Begin, RecordInv, InForce
<1>c. ASSUME NEW t \in Txns, BeginFails(t) PROVE RecordInv'
  BY <1>c DEF BeginFails, RecordInv, InForce, Early
<1>d. ASSUME NEW t \in Txns, RunOp(t) PROVE RecordInv'
  <2>1. pc[t] \in Early
    BY <1>d DEF RunOp, Early
  <2> QED BY <1>d, <2>1 DEF RunOp, RecordInv, InForce
<1>e. ASSUME NEW t \in Txns, OpFails(t) PROVE RecordInv'
  <2>1. pc[t] \in {"exec", "undo", "revert"} /\ pc[t] \in Early
        /\ UNCHANGED <<kernel, current, plan, touched>>
    BY <1>e DEF OpFails, Early
  <2>2. InForce(current, actual) /\ touched \subseteq drift
    BY <2>1 DEF RecordInv
  <2>3. CASE pc'[t] = "undo"
    <3>1. drift' = drift /\ pc'[t] \in Early
      BY <1>e, <2>1, <2>3 DEF OpFails, Early
    <3> QED BY <2>1, <2>2, <3>1 DEF RecordInv, InForce
  <2>4. CASE pc'[t] # "undo"
    <3>1. drift' = drift \cup IF pc[t] = "exec" THEN Slotted(done)
                             ELSE Slotted(todo) \cup (Slotted(done) \cap Hidden)
      BY <1>e, <2>1, <2>4 DEF OpFails
    <3>2. ASSUME NEW s \in Slots \ drift' PROVE Listed(kernel)[s] = actual[s]
      BY <2>1, <2>2, <3>1, <3>2 DEF KernelInv, Forward, Backward, Hidden
    <3>3. InForce(current, Listed(kernel))'
      BY <2>1, <2>2, <3>1, <3>2 DEF InForce, Listed
    <3>4. \A u \in Txns : pc'[u] \notin Early
      <4>1. pc'[t] \in {"failed", "stuck"}
        BY <1>e, <2>1, <2>4 DEF OpFails
      <4>2. \A u \in Txns \ {t} : pc'[u] = pc[u] /\ pc[u] \notin Early
        BY <1>1, <1>3, <1>e, <2>1 DEF OpFails
      <4> QED BY <4>1, <4>2 DEF Early
    <3>5. touched' \subseteq drift'
      BY <2>1, <2>2, <3>1
    <3> QED BY <3>3, <3>4, <3>5 DEF RecordInv
  <2> QED BY <2>3, <2>4
<1>f. ASSUME NEW t \in Txns, OpsDone(t) PROVE RecordInv'
  <2>1. pc[t] \in {"exec", "undo", "revert"} /\ pc[t] \in Early /\ todo = {}
        /\ UNCHANGED <<kernel, current, plan, touched>>
        /\ drift' = IF pc[t] = "exec" THEN drift ELSE drift \cup (Slotted(done) \cap Hidden)
    BY <1>f DEF OpsDone, Early
  <2>2. InForce(current, actual) /\ touched \subseteq drift
    BY <2>1 DEF RecordInv
  <2>3. CASE pc[t] = "exec"
    <3>1. pc'[t] \in Early
      BY <1>f, <2>3 DEF OpsDone, Early
    <3> QED BY <2>1, <2>2, <3>1 DEF RecordInv, InForce
  <2>4. CASE pc[t] \in {"undo", "revert"}
    <3>1. Slotted(todo) = {}
      BY <2>1 DEF Slotted
    <3>2. ASSUME NEW s \in Slots \ drift' PROVE Listed(kernel)[s] = actual[s]
      BY <2>1, <2>2, <2>4, <3>1, <3>2 DEF KernelInv, Backward, Hidden
    <3>3. InForce(current, Listed(kernel))'
      BY <2>1, <2>2, <2>4, <3>2 DEF InForce, Listed
    <3>4. \A u \in Txns : pc'[u] \notin Early
      <4>1. pc'[t] \in {"failed", "reverted"}
        BY <1>f, <2>4 DEF OpsDone
      <4>2. \A u \in Txns \ {t} : pc'[u] = pc[u] /\ pc[u] \notin Early
        BY <1>1, <1>3, <1>f, <2>1 DEF OpsDone
      <4> QED BY <4>1, <4>2 DEF Early
    <3> QED BY <2>1, <2>2, <2>4, <3>3, <3>4 DEF RecordInv
  <2> QED BY <2>1, <2>3, <2>4
<1>g. ASSUME NEW t \in Txns, DeadlinePasses(t) PROVE RecordInv'
  BY <1>g DEF DeadlinePasses, RecordInv, InForce
<1>h. ASSUME NEW t \in Txns, ConfirmAnswered(t) \/ ConfirmLost(t) PROVE RecordInv'
  <2>1. pc[t] \in Early /\ pc'[t] \in Early
        /\ UNCHANGED <<current, plan, touched, drift>>
    BY <1>h DEF ConfirmAnswered, ConfirmLost, StartRevert, Early
  <2> QED BY <2>1 DEF RecordInv, InForce
<1>i. ASSUME NEW t \in Txns, PromotePrevious(t) PROVE RecordInv'
  <2>1. pc[t] \in Early /\ pc'[t] \in Early
        /\ UNCHANGED <<current, plan, touched, drift>>
    BY <1>i DEF PromotePrevious, Early
  <2> QED BY <2>1 DEF RecordInv, InForce
<1>j. ASSUME NEW t \in Txns, PromoteCurrent(t) PROVE RecordInv'
  <2>1. pc[t] = "promote2" /\ current' = want[t] /\ drift' = touched /\ touched' = touched
        /\ kernel' = kernel
    BY <1>j DEF PromoteCurrent
  <2>2. InForce(current, Listed(kernel))'
    BY <1>5, <2>1 DEF InForce, Listed
  <2>3. \A u \in Txns : pc'[u] \notin Early
    BY <1>1, <1>3, <1>j, <2>1 DEF PromoteCurrent, Early, Working
  <2> QED BY <2>1, <2>2, <2>3 DEF RecordInv
<1>k. ASSUME NEW t \in Txns, PromoteFails(t) PROVE RecordInv'
  <2>1. /\ pc[t] \in {"promote1", "promote2"} /\ pc[t] \in Early
        /\ current' \in {current, Empty} /\ drift' = drift \cup touched \cup Slotted(done)
        /\ UNCHANGED <<kernel, touched>>
    BY <1>k DEF PromoteFails, Early
  <2>2. InForce(current, actual) /\ todo = {}
    BY <2>1 DEF RecordInv, KernelInv
  <2>3. \A s \in Slots \ drift' : Listed(kernel)[s] = actual[s]
    BY <2>1, <2>2, Untouched
  <2>4. InForce(current, Listed(kernel))'
    BY <1>4, <2>1, <2>2, <2>3 DEF InForce, Listed
  <2>5. \A u \in Txns : pc'[u] \notin Early
    BY <1>1, <1>3, <1>k, <2>1 DEF PromoteFails, Early, Working
  <2> QED BY <2>1, <2>4, <2>5 DEF RecordInv
<1>l. ASSUME NEW t \in Txns, SwapCurrent(t) PROVE RecordInv'
  <2>1. pc[t] = "swap1" /\ pc[t] \in Early /\ UNCHANGED <<kernel, touched>>
    BY <1>l DEF SwapCurrent, Early
  <2>2. InForce(current, actual) /\ touched \subseteq drift /\ todo = {}
    BY <2>1 DEF RecordInv, KernelInv
  <2>3. InForce(current, Listed(kernel))' /\ touched' \subseteq drift'
    <3>1. CASE current' = want[t] /\ drift' = touched
      BY <1>5, <2>1, <3>1 DEF InForce, Listed
    <3>2. CASE current' \in {current, Empty} /\ drift' = drift \cup touched \cup Slotted(done)
      <4>1. \A s \in Slots \ drift' : Listed(kernel)[s] = actual[s]
        BY <2>1, <2>2, <3>2, Untouched
      <4> QED BY <1>4, <2>1, <2>2, <3>2, <4>1 DEF InForce, Listed
    <3> QED BY <1>l, <3>1, <3>2 DEF SwapCurrent
  <2>4. \A u \in Txns : pc'[u] \notin Early
    BY <1>1, <1>3, <1>l, <2>1 DEF SwapCurrent, Early, Working
  <2> QED BY <2>3, <2>4 DEF RecordInv
<1>m. ASSUME NEW t \in Txns, SwapPrevious(t) \/ Unlock(t) PROVE RecordInv'
  <2>1. \A u \in Txns : pc[u] \notin Early /\ pc'[u] \notin Early
    BY <1>1, <1>3, <1>m DEF SwapPrevious, Unlock, Early, Results, Working
  <2> QED BY <1>m, <2>1 DEF SwapPrevious, Unlock, RecordInv, InForce
<1>n. CASE OutsideWrite
  <2>1. PICK x \in Slots : /\ touched' = touched \cup {x} /\ drift' = drift \cup {x}
                           /\ \A s \in Slots \ {x} : Listed(kernel')[s] = Listed(kernel)[s]
    BY <1>n DEF OutsideWrite, Listed, Kernels
  <2>2. UNCHANGED <<pc, current, plan>>
    BY <1>n DEF OutsideWrite
  <2> QED BY <2>1, <2>2 DEF RecordInv, InForce
<1>o. CASE Crash
  <2>1. \A u \in Txns : pc'[u] \notin Early
    BY <1>3, <1>o DEF Crash, Early, Working
  <2>2. drift' = drift \cup touched \cup Slotted(todo \cup done) /\ kernel' = kernel /\ touched' = {}
    BY <1>o DEF Crash
  <2>3. CASE \E t \in Txns : pc[t] \in Early
    <3>1. InForce(current, actual)
      BY <2>3 DEF RecordInv
    <3>2. current' \in {current, Empty}
      BY <1>o DEF Crash
    <3>3. \A s \in Slots \ drift' : Listed(kernel)[s] = actual[s]
      BY <2>2, <2>3, Untouched
    <3>4. InForce(current, Listed(kernel))'
      BY <1>4, <2>2, <3>1, <3>2, <3>3 DEF InForce, Listed
    <3> QED BY <2>1, <2>2, <3>4 DEF RecordInv
  <2>4. CASE \A t \in Txns : pc[t] \notin Early
    <3>1. current' = current
      BY <1>o, <2>4 DEF Crash, Early
    <3>2. InForce(current, Listed(kernel))'
      BY <2>2, <2>4, <3>1 DEF RecordInv, InForce, Listed
    <3> QED BY <2>1, <2>2, <3>2 DEF RecordInv
  <2> QED BY <2>3, <2>4
<1>p. CASE UNCHANGED vars
  BY <1>p DEF vars, RecordInv, InForce
<1> QED BY <1>a, <1>b, <1>c, <1>d, <1>e, <1>f, <1>g, <1>h, <1>i, <1>j, <1>k,
           <1>l, <1>m, <1>n, <1>o, <1>p DEF Next

(* With one metric, between transactions every route that current.json records
   is the one in force, except where others changed it, an undo or a rollback
   failed, a crash or a failed write left it behind, or an undo emptied a slot
   whose route the listing had left out: the next diff may take it for granted
   that what it deletes is what the agent put there. *)
THEOREM RecordedHolds ==
  ASSUME OneMetric
  PROVE  Spec => []Recorded
<1>1. Init => RecordInv
  BY DEF Init, RecordInv, InForce, Empty, Early
<1>2. TypeInv /\ Phases /\ KernelInv /\ RecordInv /\ [Next]_vars
        => (TypeInv /\ Phases /\ KernelInv /\ RecordInv)'
  BY OneMetric, TypeStep, PhasesStep, KernelStep, RecordStep DEF TypeInv
<1>3. Init => TypeInv /\ Phases /\ KernelInv
  BY TypeInit, KernelInit DEF Init, Phases
<1>4. TypeInv /\ RecordInv => Recorded
  <2> SUFFICES ASSUME TypeInv, RecordInv, mu = Nobody PROVE InForce(current, Listed(kernel))
    BY DEF Recorded, InForce
  <2>1. \A t \in Txns : pc[t] \notin Early
    BY TxnAssumption DEF TxnAssumption, TypeInv, Holder, Early, Working
  <2> QED BY <2>1 DEF RecordInv
<1> QED BY <1>1, <1>2, <1>3, <1>4, PTL DEF Spec
-----------------------------------------------------------------------------
(* The bundle store.                                                       *)

(* An installer at work has its frame. *)
StoreFrames == \A i \in Installers : frame[i] # "idle" => req[i] \in Ids

(* Whoever is inside install holds the mutex, and until its rename the name is
   free, because nobody else makes the directory. *)
StoreLock ==
  /\ staging # "absent" => dir = "absent"
  /\ \A o \in Store!Unpackers :
       /\ frame[o] \in Store!Inside => holder = o
       /\ frame[o] \in {"download", "unpack", "rename"} => dir = "absent"
       /\ frame[o] = "rename" => staging = "whole"

(* While a run has its files, an installer that came after it began has found
   them, too: it is not behind its look. *)
StoreLate ==
  /\ \A i \in Installers : frame[i] # "running"
  /\ \A s \in Starters : frame[s] = "running" =>
       \A i \in Installers \ early[s] :
         /\ dir \in {"bare", "ready"}
         /\ frame[i] \in {"idle", "lookup", "stat", "record", "answer", "replayed"}

(* Nobody else is in the store beside an installer that is not in overlap, and
   the directory is as its last step left it. *)
StoreAlone ==
  \A i \in Installers \ overlap :
    frame[i] # "idle" =>
      /\ Store!Busy = {i}
      /\ frame[i] \in {"lock", "download", "unpack", "rename"} => dir = "absent"
      /\ frame[i] = "venv" => dir = "bare"
      /\ frame[i] = "gates" => dir = "ready"
      /\ frame[i] \in {"clean", "cleaning"} => res[i] = "failed"
      /\ frame[i] \in {"record", "answer"} =>
           /\ res[i] = "ok" => /\ dir = "ready"
                               /\ Store!SignatureOk(req[i]) /\ Store!ManifestOk
           /\ res[i] = "already" => dir # "absent"
           /\ res[i] = "failed" => dir = "absent"
      /\ frame[i] = "replayed" =>
           /\ dir # "absent"
           /\ req[i] \in sure => res[i] = log[req[i]]

(* A remembered answer is exact as long as nobody has touched the directory. *)
StoreSure ==
  \A id \in sure :
    /\ log[id] = "ok" => /\ dir = "ready"
                         /\ Store!SignatureOk(id) /\ Store!ManifestOk
    /\ log[id] = "already" => dir # "absent"
    /\ log[id] = "failed" => dir = "absent"

StoreInv ==
  Store!TypeOK /\ StoreFrames /\ StoreLock /\ StoreLate /\ StoreAlone /\ StoreSure

(* One step of a goroutine in the store, or a crash. *)
LEMMA StoreStep == StoreInv /\ [Store!Next]_Store!vars => StoreInv'
<1> SUFFICES ASSUME StoreInv, [Store!Next]_Store!vars PROVE StoreInv'
  OBVIOUS
<1> USE HostAssumption
    DEF Store!BundleAssumption, Store!Ops, Store!Unpackers, Store!Inside,
        Store!source, Store!store, Store!results, Store!history, Store!Goto, Store!Busy,
        Store!Labels, Store!Dirs, Store!Statuses, Store!Remembered,
        Store!SignatureOk, Store!ManifestOk,
        StoreInv, Store!TypeOK, StoreFrames, StoreLock, StoreLate, StoreAlone, StoreSure
<1>1. ASSUME NEW i \in Installers, Store!InstallFrame(i) PROVE StoreInv'
  BY <1>1 DEF Store!InstallFrame, Store!Enter
<1>2. ASSUME NEW i \in Installers, Store!Answer(i) PROVE StoreInv'
  BY <1>2 DEF Store!Answer, Store!Leave
<1>21. ASSUME NEW i \in Installers, Store!Replay(i) PROVE StoreInv'
  BY <1>21 DEF Store!Replay
<1>3. ASSUME NEW i \in Installers, Store!Unknown(i) \/ Store!Expired(i) PROVE StoreInv'
  BY <1>3 DEF Store!Unknown, Store!Expired
<1>4. ASSUME NEW i \in Installers, Store!Stat(i) PROVE StoreInv'
  BY <1>4 DEF Store!Stat
<1>5. ASSUME NEW i \in Installers, Store!Gates(i) PROVE StoreInv'
  BY <1>5 DEF Store!Gates
<1>6. ASSUME NEW i \in Installers, Store!CleanBegin(i) PROVE StoreInv'
  BY <1>6 DEF Store!CleanBegin, Store!Remove
<1>7. ASSUME NEW i \in Installers, Store!CleanEnd(i) PROVE StoreInv'
  BY <1>7 DEF Store!CleanEnd, Store!Remove
<1>8. ASSUME NEW i \in Installers, Store!Record(i) PROVE StoreInv'
  BY <1>8 DEF Store!Record
<1>9. ASSUME NEW o \in Store!Unpackers, Store!Acquire(o) PROVE StoreInv'
  BY <1>9 DEF Store!Acquire, Store!Returned
<1>10. ASSUME NEW o \in Store!Unpackers, Store!Download(o) \/ Store!Unpack(o)
       PROVE StoreInv'
  BY <1>10 DEF Store!Download, Store!Unpack
<1>11. ASSUME NEW o \in Store!Unpackers,
              Store!DownloadFails(o) \/ Store!UnpackFails(o) \/ Store!VenvFails(o)
       PROVE StoreInv'
  BY <1>11 DEF Store!DownloadFails, Store!UnpackFails, Store!VenvFails, Store!Fail,
               Store!Errored
<1>12. ASSUME NEW o \in Store!Unpackers, Store!Rename(o) PROVE StoreInv'
  BY <1>12 DEF Store!Rename, Store!Returned
<1>13. ASSUME NEW o \in Store!Unpackers, Store!Venv(o) PROVE StoreInv'
  BY <1>13 DEF Store!Venv, Store!Returned
<1>14. ASSUME NEW s \in Starters, Store!StartFrame(s) PROVE StoreInv'
  BY <1>14 DEF Store!StartFrame, Store!Enter
<1>15. ASSUME NEW s \in Starters, Store!Exec(s) PROVE StoreInv'
  BY <1>15 DEF Store!Exec, Store!BusyInstallers
<1>16. ASSUME NEW s \in Starters, Store!ExecFails(s) \/ Store!RunEnds(s) PROVE StoreInv'
  BY <1>16 DEF Store!ExecFails, Store!RunEnds
<1>17. ASSUME NEW u \in Uninstallers, Store!Uninstall(u) PROVE StoreInv'
  BY <1>17 DEF Store!Uninstall, Store!Enter, Store!Remove
<1>18. ASSUME NEW u \in Uninstallers, Store!UninstallEnds(u) PROVE StoreInv'
  BY <1>18 DEF Store!UninstallEnds, Store!Remove
<1>19. CASE Store!Crash
  BY <1>19 DEF Store!Crash
<1>20. CASE UNCHANGED Store!vars
  BY <1>20 DEF Store!vars
<1> QED
  BY <1>1, <1>2, <1>3, <1>4, <1>5, <1>6, <1>7, <1>8, <1>9, <1>10, <1>11, <1>12,
     <1>13, <1>14, <1>15, <1>16, <1>17, <1>18, <1>19, <1>20, <1>21
  DEF Store!Next, Store!Unpacking

LEMMA StoreSafe == HostSpec => []StoreInv
<1>1. Store!Init => StoreInv
  BY HostAssumption
  DEF Store!BundleAssumption, Store!Init, Store!Labels, Store!Dirs, Store!Statuses,
      Store!Remembered, Store!Ops, Store!Unpackers, Store!Inside,
      StoreInv, Store!TypeOK, StoreFrames, StoreLock, StoreLate, StoreAlone, StoreSure
<1> QED
  BY <1>1, StoreStep, BehaviourOfEach, PTL DEF Store!Spec

(* No install replaces a directory, and a leftover staging directory never stands
   beside one. *)
THEOREM NoClobberHolds == HostSpec => []NoClobber
<1>1. StoreInv => NoClobber
  BY DEF StoreInv, StoreLock, NoClobber, Store!NoClobber, Store!Inside
<1> QED
  BY <1>1, StoreSafe, PTL

(* An install that begins under a run does not remove its files. *)
THEOREM LateInstallsHarmlessHolds == HostSpec => []LateInstallsHarmless
<1>1. StoreInv => LateInstallsHarmless
  BY DEF StoreInv, StoreLate, LateInstallsHarmless, Store!LateInstallsHarmless
<1> QED
  BY <1>1, StoreSafe, PTL

(* What an install that had the store to itself answers is what is there, the
   answer it repeats for a known id included while the directory is as it was. *)
THEOREM AloneIsExactHolds == HostSpec => []AloneIsExact
<1>1. StoreInv => AloneIsExact
  BY DEF StoreInv, Store!TypeOK, Store!Statuses, StoreFrames, StoreAlone, StoreSure,
         AloneIsExact, Store!AloneIsExact
<1> QED
  BY <1>1, StoreSafe, PTL


-----------------------------------------------------------------------------
(* The image cache.                                                        *)

(* Images and bundles are fetched by different steps, and only a bundle has a
   marker. *)
BlobKinds ==
  /\ at \in [Creates -> Blob!Labels] /\ kind \in {"image", "bundle"}
  /\ \A t \in Creates :
       /\ at[t] \in {"stat", "ask"} => kind = "image"
       /\ at[t] \in {"remove", "removing", "mark"} => kind = "bundle"
  /\ marked => kind = "bundle"

(* A marker that a task alone with the cache wrote stands in a whole bundle, and
   nobody is past the look that would have found it. *)
BlobMarked ==
  marked /\ ~ strange =>
    /\ bundle = "whole"
    /\ \A t \in Creates : at[t] \in {"idle", "check", "use", "failed"}

(* A task that is not in crowd is the only one, and what it verified stays as it
   was until it has its name. *)
BlobAlone ==
  \A t \in Creates \ crowd : at[t] # "idle" =>
    /\ Blob!Busy = {t}
    /\ at[t] = "rename" /\ kind = "image" => part = Blob!Whole
    /\ at[t] \in {"remove", "removing", "rename"} /\ kind = "bundle" => bpart = "whole"
    /\ at[t] = "mark" => bundle = "whole"
    /\ at[t] = "use" => IF kind = "image" THEN image = Blob!Whole
                        ELSE bundle = "whole" \/ strange

BlobInv == BlobKinds /\ BlobMarked /\ BlobAlone

(* One step of a create task, or a crash. *)
LEMMA BlobStep == BlobInv /\ [Blob!Next]_Blob!vars => BlobInv'
<1> SUFFICES ASSUME BlobInv, [Blob!Next]_Blob!vars PROVE BlobInv'
  OBVIOUS
<1> USE DEF Blob!Labels, Blob!disk, Blob!task, Blob!source, Blob!Goto, Blob!Busy,
            BlobInv, BlobKinds, BlobMarked, BlobAlone
<1>1. ASSUME NEW t \in Creates, Blob!Begin(t) PROVE BlobInv'
  BY <1>1 DEF Blob!Begin
<1>2. ASSUME NEW t \in Creates, Blob!Check(t) PROVE BlobInv'
  BY <1>2 DEF Blob!Check
<1>3. ASSUME NEW t \in Creates,
             \/ Blob!Stat(t) \/ Blob!NothingMore(t) \/ Blob!Refused(t)
             \/ Blob!Unanswered(t)
      PROVE BlobInv'
  BY <1>3 DEF Blob!Stat, Blob!NothingMore, Blob!Refused, Blob!Unanswered, Blob!Again
<1>4. ASSUME NEW t \in Creates, Blob!Partial(t) \/ Blob!Full(t) PROVE BlobInv'
  BY <1>4 DEF Blob!Partial, Blob!Full
<1>5. ASSUME NEW t \in Creates, Blob!Block(t) PROVE BlobInv'
  BY <1>5 DEF Blob!Block
<1>6. ASSUME NEW t \in Creates, Blob!Eof(t) \/ Blob!Cut(t) PROVE BlobInv'
  BY <1>6 DEF Blob!Eof, Blob!Cut, Blob!Close, Blob!Again
<1>7. ASSUME NEW t \in Creates, Blob!Clear(t) \/ Blob!Clone(t) \/ Blob!Copy(t)
      PROVE BlobInv'
  BY <1>7 DEF Blob!Clear, Blob!Clone, Blob!Copy
<1>8. ASSUME NEW t \in Creates,
             Blob!CopyTree(t) \/ Blob!TreeCopied(t) \/ Blob!TreeFails(t)
      PROVE BlobInv'
  BY <1>8 DEF Blob!CopyTree, Blob!TreeCopied, Blob!TreeFails
<1>9. ASSUME NEW t \in Creates, Blob!Verify(t) \/ Blob!VerifyTree(t) PROVE BlobInv'
  BY <1>9 DEF Blob!Verify, Blob!VerifyTree
<1>10. ASSUME NEW t \in Creates, Blob!Rename(t) PROVE BlobInv'
  BY <1>10 DEF Blob!Rename
<1>11. ASSUME NEW t \in Creates, Blob!RemoveTree(t) \/ Blob!TreeRemoved(t) PROVE BlobInv'
  <2>1. marked' => marked /\ Blob!RemoveTree(t)
    BY <1>11, Zenon DEF Blob!RemoveTree, Blob!TreeRemoved
  <2>2. at[t] \in {"remove", "removing"} /\ strange' = strange /\ marked' => strange
    BY <1>11, <2>1 DEF Blob!RemoveTree, Blob!TreeRemoved
  <2> QED
    BY <1>11, <2>1, <2>2 DEF Blob!RemoveTree, Blob!TreeRemoved
<1>12. ASSUME NEW t \in Creates, Blob!RenameTree(t) PROVE BlobInv'
  BY <1>12 DEF Blob!RenameTree
<1>13. ASSUME NEW t \in Creates, Blob!Mark(t) \/ Blob!MarkFails(t) PROVE BlobInv'
  <2>1. Blob!Mark(t) /\ bundle # "absent" => (strange' <=> t \in crowd)
    BY Zenon DEF Blob!Mark
  <2> QED
    BY <1>13, <2>1 DEF Blob!Mark, Blob!MarkFails
<1>14. ASSUME NEW t \in Creates, Blob!End(t) PROVE BlobInv'
  BY <1>14 DEF Blob!End
<1>15. CASE Blob!Crash
  BY <1>15 DEF Blob!Crash
<1>16. CASE UNCHANGED Blob!vars
  BY <1>16 DEF Blob!vars
<1> QED
  BY <1>1, <1>2, <1>3, <1>4, <1>5, <1>6, <1>7, <1>8, <1>9, <1>10, <1>11, <1>12,
     <1>13, <1>14, <1>15, <1>16
  DEF Blob!Next, Blob!Fetch

LEMMA BlobSafe == HostSpec => []BlobInv
<1>1. Blob!Init => BlobInv
  BY DEF Blob!Init, Blob!Labels, Blob!Busy, BlobInv, BlobKinds, BlobMarked, BlobAlone
<1> QED
  BY <1>1, BlobStep, BehaviourOfEach, PTL DEF Blob!Spec

(* A create task that had the cache to itself hands on what it verified, after any
   tasks, crashes and leftovers before it. *)
THEOREM AloneVerifiedHolds == HostSpec => []AloneVerified
<1>1. BlobInv => AloneVerified
  BY DEF BlobInv, BlobKinds, BlobAlone, AloneVerified, Blob!AloneVerified, Blob!Cached
<1> QED
  BY <1>1, BlobSafe, PTL

(* What the types of the image cache rest on: a descriptor is of a file that is
   there, and a task that may try again has an attempt left. *)
BlobFiles ==
  \A t \in Creates :
    /\ fd[t] = "part" => part # NoFile
    /\ fd[t] = "image" => image # NoFile
    /\ at[t] \in {"idle", "check", "stat", "ask"} => tries[t] < MaxAttempts
    /\ at[t] \in {"clear", "copy", "stream"} /\ kind = "image" => tries[t] < MaxAttempts

BlobTyped == Blob!TypeOK /\ BlobFiles

LEMMA BlobSizes ==
  /\ Size \in Nat /\ Size > 0 /\ MaxAttempts \in Nat /\ MaxAttempts > 0
  /\ \A f \in Seq(BOOLEAN) : f # NoFile
  /\ <<>> \in Seq(BOOLEAN) /\ <<FALSE>> \in Seq(BOOLEAN)
<1>1. Size \in Nat \ {0} /\ MaxAttempts \in Nat \ {0} /\ NoFile \notin Seq(BOOLEAN)
  BY HostAssumption, Zenon DEF HostAssumption, Blob!BlobAssumption
<1> QED
  BY <1>1

(* A file stays one when a block is written to it. *)
LEMMA WrittenType ==
  ASSUME NEW t \in Creates, NEW f \in Seq(BOOLEAN), Blob!TypeOK, off[t] < Size
  PROVE  Blob!Written(f, t) \in Seq(BOOLEAN) /\ Blob!Written(f, t) # NoFile
<1> DEFINE pos == IF append[t] THEN Len(f) + 1 ELSE off[t] + 1
           ext == IF pos <= Len(f) THEN Len(f) ELSE pos
<1>1. pos \in Nat /\ ext \in Nat
  BY BlobSizes DEF Blob!TypeOK
<1>2. ASSUME NEW i \in 1 .. ext
      PROVE  (IF i = pos THEN served /\ i = off[t] + 1 ELSE i <= Len(f) /\ f[i]) \in BOOLEAN
  OBVIOUS
<1>3. Blob!Written(f, t) \in [1 .. ext -> BOOLEAN]
  <2> HIDE DEF pos, ext
  <2>1. Blob!Written(f, t) =
          [i \in 1 .. ext |->
             IF i = pos THEN served /\ i = off[t] + 1 ELSE i <= Len(f) /\ f[i]]
    BY Zenon DEF Blob!Written, pos, ext
  <2> QED
    BY <1>2, <2>1, Zenon
<1>4. Blob!Written(f, t) \in Seq(BOOLEAN)
  <2> HIDE DEF pos, ext
  <2> QED BY <1>1, <1>3, SMT
<1> QED
  BY <1>4, BlobSizes

(* One step of a create task, or a crash. *)
LEMMA BlobTypeStep == BlobTyped /\ BlobKinds /\ [Blob!Next]_Blob!vars => BlobTyped'
<1> SUFFICES ASSUME BlobTyped, BlobKinds, [Blob!Next]_Blob!vars PROVE BlobTyped'
  OBVIOUS
<1> USE BlobSizes
    DEF Blob!Labels, Blob!Trees, Blob!disk, Blob!task, Blob!source, Blob!Goto, Blob!TypeOK,
        BlobTyped, BlobKinds, BlobFiles
<1>1. ASSUME NEW t \in Creates, Blob!Begin(t) PROVE BlobTyped'
  BY <1>1 DEF Blob!Begin, Blob!Busy
<1>2. ASSUME NEW t \in Creates, Blob!Check(t) PROVE BlobTyped'
  BY <1>2 DEF Blob!Check
<1>3. ASSUME NEW t \in Creates,
             \/ Blob!Stat(t) \/ Blob!NothingMore(t) \/ Blob!Refused(t)
             \/ Blob!Unanswered(t)
      PROVE BlobTyped'
  <2>1. ASSUME Blob!Stat(t) PROVE BlobTyped'
    <3>1. (IF part = NoFile THEN 0 ELSE Len(part)) \in Nat
      OBVIOUS
    <3>2. have' \in [Creates -> Nat]
      BY <2>1, <3>1, Zenon DEF Blob!Stat
    <3> QED
      BY <2>1, <3>2 DEF Blob!Stat
  <2>2. ASSUME Blob!NothingMore(t) \/ Blob!Refused(t) PROVE BlobTyped'
    <3>1. CASE Blob!NothingMore(t)
      BY <3>1 DEF Blob!NothingMore
    <3>2. CASE Blob!Refused(t)
      BY <3>2 DEF Blob!Refused
    <3> QED
      BY <2>2, <3>1, <3>2
  <2>3. ASSUME Blob!Unanswered(t) PROVE BlobTyped'
    BY <2>3 DEF Blob!Unanswered, Blob!Again
  <2> QED
    BY <1>3, <2>1, <2>2, <2>3
<1>4. ASSUME NEW t \in Creates, Blob!Partial(t) \/ Blob!Full(t) PROVE BlobTyped'
  <2>2. ASSUME Blob!Partial(t) PROVE BlobTyped'
    <3>1. part' \in Seq(BOOLEAN) /\ part' # NoFile
      BY <2>2, BlobSizes, Zenon DEF Blob!Partial
    <3>2. off' \in [Creates -> 0 .. Size]
      BY <2>2 DEF Blob!Partial
    <3> QED
      BY <2>2, <3>1, <3>2 DEF Blob!Partial
  <2>3. ASSUME Blob!Full(t) PROVE BlobTyped'
    BY <2>3 DEF Blob!Full
  <2> QED
    BY <1>4, <2>2, <2>3
<1>5. ASSUME NEW t \in Creates, Blob!Block(t) PROVE BlobTyped'
  <2>1. fd[t] = "part" => part \in Seq(BOOLEAN)
    BY <1>5 DEF Blob!Block
  <2>2. fd[t] = "image" => image \in Seq(BOOLEAN)
    BY <1>5 DEF Blob!Block
  <2>3. off[t] < Size /\ at[t] = "stream" /\ kind = "image"
    BY <1>5 DEF Blob!Block
  <2>4. fd[t] = "part" => part' \in Seq(BOOLEAN) /\ part' # NoFile
    BY <1>5, <2>1, <2>3, WrittenType, Zenon DEF Blob!Block
  <2>5. fd[t] = "image" => image' \in Seq(BOOLEAN) /\ image' # NoFile
    BY <1>5, <2>2, <2>3, WrittenType, Zenon DEF Blob!Block
  <2>6. /\ fd[t] # "part" => part' = part
        /\ fd[t] # "image" => image' = image
    BY <1>5, Zenon DEF Blob!Block
  <2>7. /\ part' # NoFile => part' \in Seq(BOOLEAN)
        /\ image' # NoFile => image' \in Seq(BOOLEAN)
    BY <2>4, <2>5, <2>6
  <2>8. off' = [off EXCEPT ![t] = @ + 1]
        /\ UNCHANGED <<kind, via, served, bundle, bpart, marked, at, have, fd, append,
                       tries, crowd, strange>>
    BY <1>5, Zenon DEF Blob!Block
  <2>9. off' \in [Creates -> 0 .. Size]
    BY <2>3, <2>8
  <2> QED
    BY <2>3, <2>4, <2>5, <2>6, <2>7, <2>8, <2>9
<1>6. ASSUME NEW t \in Creates, Blob!Eof(t) \/ Blob!Cut(t) PROVE BlobTyped'
  <2>1. ASSUME Blob!Eof(t) PROVE BlobTyped'
    BY <2>1 DEF Blob!Eof, Blob!Close
  <2>2. ASSUME Blob!Cut(t) PROVE BlobTyped'
    <3>1. CASE via = "http"
      <4>1. Blob!TypeOK'
        <5>1. tries[t] + 1 \in 0 .. MaxAttempts
          BY <2>2 DEF Blob!Cut
        <5>2. at' \in [Creates -> Blob!Labels] /\ tries' \in [Creates -> 0 .. MaxAttempts]
          BY <2>2, <3>1, <5>1 DEF Blob!Cut, Blob!Again
        <5>3. /\ fd' \in [Creates -> {"none", "part", "image"}]
              /\ append' \in [Creates -> BOOLEAN] /\ off' \in [Creates -> 0 .. Size]
          BY <2>2 DEF Blob!Cut, Blob!Close
        <5> QED
          BY <2>2, <5>2, <5>3 DEF Blob!Cut
      <4>2. BlobFiles'
        BY <2>2, <3>1 DEF Blob!Cut, Blob!Close, Blob!Again
      <4> QED
        BY <4>1, <4>2
    <3>2. CASE via # "http"
      <4>1. Blob!TypeOK'
        <5>1. at' \in [Creates -> Blob!Labels] /\ tries' = tries
          BY <2>2, <3>2 DEF Blob!Cut
        <5>2. /\ fd' \in [Creates -> {"none", "part", "image"}]
              /\ append' \in [Creates -> BOOLEAN] /\ off' \in [Creates -> 0 .. Size]
          BY <2>2 DEF Blob!Cut, Blob!Close
        <5> QED
          BY <2>2, <5>1, <5>2 DEF Blob!Cut
      <4>2. BlobFiles'
        BY <2>2, <3>2 DEF Blob!Cut, Blob!Close
      <4> QED
        BY <4>1, <4>2
    <3> QED
      BY <3>1, <3>2
  <2> QED
    BY <1>6, <2>1, <2>2
<1>7. ASSUME NEW t \in Creates, Blob!Clear(t) \/ Blob!Clone(t) \/ Blob!Copy(t)
      PROVE BlobTyped'
  <2>1. ASSUME Blob!Clear(t) PROVE BlobTyped'
    <3>1. CASE kind = "image"
      BY <2>1, <3>1 DEF Blob!Clear, Blob!Follow
    <3>2. CASE kind # "image"
      BY <2>1, <3>2 DEF Blob!Clear
    <3> QED
      BY <3>1, <3>2
  <2>2. ASSUME Blob!Clone(t) PROVE BlobTyped'
    <3>1. [i \in 1 .. Size |-> served] \in [1 .. Size -> BOOLEAN]
      BY Zenon
    <3>2. [i \in 1 .. Size |-> served] \in Seq(BOOLEAN)
      BY <3>1
    <3>3. part' \in Seq(BOOLEAN) /\ part' # NoFile
      BY <2>2, <3>2, Zenon DEF Blob!Clone
    <3>4. /\ UNCHANGED <<kind, via, served, image, bundle, bpart, marked, have, fd,
                         append, off, tries, crowd, strange>>
          /\ at[t] = "copy" /\ at' = [at EXCEPT ![t] = "verify"]
      BY <2>2, Zenon DEF Blob!Clone
    <3> QED
      BY <3>3, <3>4
  <2>3. ASSUME Blob!Copy(t) PROVE BlobTyped'
    <3>1. Blob!TypeOK'
      BY <2>3 DEF Blob!Copy
    <3>2. /\ UNCHANGED <<image, kind, tries>> /\ part' = <<>>
          /\ at[t] = "copy" /\ kind = "image"
          /\ at' = [at EXCEPT ![t] = "stream"] /\ fd' = [fd EXCEPT ![t] = "part"]
      BY <2>3, Zenon DEF Blob!Copy
    <3>3. part' # NoFile
      BY <3>2
    <3>4. BlobFiles'
      BY <3>2, <3>3
    <3> QED
      BY <3>1, <3>4
  <2> QED
    BY <1>7, <2>1, <2>2, <2>3
<1>8. ASSUME NEW t \in Creates,
             Blob!CopyTree(t) \/ Blob!TreeCopied(t) \/ Blob!TreeFails(t)
      PROVE BlobTyped'
  <2>1. ASSUME Blob!CopyTree(t) PROVE BlobTyped'
    BY <2>1 DEF Blob!CopyTree
  <2>2. ASSUME Blob!TreeCopied(t) PROVE BlobTyped'
    BY <2>2 DEF Blob!TreeCopied
  <2>3. ASSUME Blob!TreeFails(t) PROVE BlobTyped'
    BY <2>3 DEF Blob!TreeFails
  <2> QED
    BY <1>8, <2>1, <2>2, <2>3
<1>9. ASSUME NEW t \in Creates, Blob!Verify(t) \/ Blob!VerifyTree(t) PROVE BlobTyped'
  <2>1. ASSUME Blob!Verify(t), part = Blob!Whole PROVE BlobTyped'
    BY <2>1 DEF Blob!Verify
  <2>2. ASSUME Blob!Verify(t), part # Blob!Whole PROVE BlobTyped'
    <3>1. \A u \in Creates : /\ fd'[u] # "part" /\ fd'[u] \in {"none", "image"}
                             /\ fd'[u] = "image" => fd[u] = "image"
      <4>1. fd' = Blob!Follow("part", "none")
        BY <2>2, Zenon DEF Blob!Verify
      <4> QED
        BY <4>1 DEF Blob!Follow
    <3>2. Blob!TypeOK'
      BY <2>2, <3>1 DEF Blob!Verify, Blob!Follow
    <3>3. UNCHANGED <<image, kind, tries>> /\ at' = [at EXCEPT ![t] = "failed"]
      BY <2>2, Zenon DEF Blob!Verify
    <3>4. BlobFiles'
      BY <3>1, <3>3
    <3> QED
      BY <3>2, <3>4
  <2>3. ASSUME Blob!VerifyTree(t) PROVE BlobTyped'
    BY <2>3 DEF Blob!VerifyTree
  <2> QED
    BY <1>9, <2>1, <2>2, <2>3
<1>10. ASSUME NEW t \in Creates, Blob!Rename(t) PROVE BlobTyped'
  <2>1. CASE part = NoFile
    BY <1>10, <2>1 DEF Blob!Rename
  <2>2. CASE part # NoFile
    <3>1. \A u \in Creates : fd'[u] \in {"none", "image"}
      BY <1>10, <2>2 DEF Blob!Rename, Blob!Follow
    <3>2. Blob!TypeOK'
      BY <1>10, <2>2 DEF Blob!Rename, Blob!Follow
    <3>3. BlobFiles'
      BY <1>10, <2>2, <3>1 DEF Blob!Rename
    <3> QED
      BY <3>2, <3>3
  <2> QED
    BY <2>1, <2>2
<1>11. ASSUME NEW t \in Creates, Blob!RemoveTree(t) \/ Blob!TreeRemoved(t) PROVE BlobTyped'
  BY <1>11 DEF Blob!RemoveTree, Blob!TreeRemoved
<1>12. ASSUME NEW t \in Creates, Blob!RenameTree(t) PROVE BlobTyped'
  BY <1>12 DEF Blob!RenameTree
<1>13. ASSUME NEW t \in Creates, Blob!Mark(t) \/ Blob!MarkFails(t) PROVE BlobTyped'
  <2>1. Blob!Mark(t) /\ bundle # "absent" => marked' = TRUE /\ strange' = (t \in crowd)
    BY Zenon DEF Blob!Mark
  <2>3. Blob!Mark(t) /\ bundle # "absent" => marked' \in BOOLEAN /\ strange' \in BOOLEAN
    BY <2>1
  <2>4. (Blob!Mark(t) /\ bundle = "absent") \/ Blob!MarkFails(t)
          => marked' = marked /\ strange' = strange
    BY Zenon DEF Blob!Mark, Blob!MarkFails, Blob!disk
  <2>5. marked' \in BOOLEAN /\ strange' \in BOOLEAN
    BY <1>13, <2>3, <2>4
  <2> QED
    BY <1>13, <2>5 DEF Blob!Mark, Blob!MarkFails
<1>14. ASSUME NEW t \in Creates, Blob!End(t) PROVE BlobTyped'
  BY <1>14 DEF Blob!End
<1>15. CASE Blob!Crash
  BY <1>15 DEF Blob!Crash
<1>16. CASE UNCHANGED Blob!vars
  BY <1>16 DEF Blob!vars
<1> QED
  BY <1>1, <1>2, <1>3, <1>4, <1>5, <1>6, <1>7, <1>8, <1>9, <1>10, <1>11, <1>12,
     <1>13, <1>14, <1>15, <1>16
  DEF Blob!Next, Blob!Fetch

LEMMA BlobTypesSafe == HostSpec => []BlobTyped
<1>1. Blob!Init => Blob!TypeOK
  <2> SUFFICES ASSUME Blob!Init PROVE Blob!TypeOK
    OBVIOUS
  <2>1. \A f \in {image, part} : f # NoFile => f \in Seq(BOOLEAN)
    BY BlobSizes DEF Blob!Init
  <2>2. /\ bundle \in Blob!Trees /\ bpart \in Blob!Trees
        /\ at \in [Creates -> Blob!Labels] /\ fd \in [Creates -> {"none", "part", "image"}]
    BY DEF Blob!Init, Blob!Labels, Blob!Trees
  <2>3. /\ have \in [Creates -> Nat] /\ off \in [Creates -> 0 .. Size]
        /\ tries \in [Creates -> 0 .. MaxAttempts]
    BY BlobSizes DEF Blob!Init
  <2>4. /\ kind \in {"image", "bundle"} /\ via \in {"http", "file"}
        /\ served \in BOOLEAN /\ marked \in BOOLEAN /\ strange \in BOOLEAN
        /\ append \in [Creates -> BOOLEAN] /\ crowd \subseteq Creates
    BY Zenon DEF Blob!Init
  <2> QED
    BY <2>1, <2>2, <2>3, <2>4 DEF Blob!TypeOK
<1>2. Blob!Init => BlobFiles
  BY BlobSizes DEF Blob!Init, BlobFiles
<1>3. BlobInv => BlobKinds
  BY DEF BlobInv
<1> QED
  BY <1>1, <1>2, <1>3, BlobTypeStep, BlobSafe, BehaviourOfEach, PTL DEF Blob!Spec, BlobTyped
-----------------------------------------------------------------------------
(* authorized_keys.                                                        *)

(* mergeAuthorizedKeys: every wanted key is there, a dropped one is gone unless
   it is wanted too, other lines stay, and nothing else comes in. *)
LEMMA MergeDoes ==
  ASSUME NEW old \in SUBSET Auth!Lines, NEW wanted \in SUBSET Keys,
         NEW dropped \in SUBSET Keys
  PROVE  LET merged == Auth!Merge(old, wanted, dropped)
         IN /\ merged \subseteq Auth!Lines
            /\ \A k \in wanted : \E l \in merged : l.key = k
            /\ \A k \in dropped \ wanted : \A l \in merged : l.key # k
            /\ \A l \in old : l.key \in dropped \ wanted \/ l \in merged
            /\ \A l \in merged : l \in old \/ l.key \in wanted
<1> DEFINE kept == {l \in old : l.key \notin dropped \ wanted}
           held == {l.key : l \in kept}
           new == {[key |-> k, by |-> "api"] : k \in wanted \ held}
<1>1. Auth!Merge(old, wanted, dropped) = kept \cup new
  BY DEF Auth!Merge
<1>2. \A k \in wanted : \E l \in kept \cup new : l.key = k
  <2> SUFFICES ASSUME NEW k \in wanted PROVE \E l \in kept \cup new : l.key = k
    OBVIOUS
  <2>1. CASE k \in held
    BY <2>1
  <2>2. CASE k \notin held
    <3>1. [key |-> k, by |-> "api"] \in new
      BY <2>2
    <3>2. [key |-> k, by |-> "api"].key = k
      OBVIOUS
    <3> QED
      BY <3>1, <3>2
  <2> QED
    BY <2>1, <2>2
<1>3. \A l \in new : l.key \in wanted /\ l \in Auth!Lines
  BY DEF Auth!Lines
<1>4. kept \subseteq Auth!Lines
  OBVIOUS
<1> QED
  BY <1>1, <1>2, <1>3, <1>4

(* Nobody else is editing beside a task that is not mixed, and the files are as
   its last step left them. *)
AuthAlone ==
  \A e \in Auth!Editing \ mixed :
    /\ Auth!Editing = {e}
    /\ step[e] # "answer" => Auth!LinesOf(auth) = lines[e]
    /\ step[e] \in {"write", "fill"} => cur[e] = lines[e]
    /\ step[e] = "fill" => out[e] = "tmp"
    /\ step[e] = "rename" => tmp = Auth!Merge(lines[e], add[e], drop[e])
    /\ step[e] = "answer" => auth = Auth!Merge(lines[e], add[e], drop[e])

AuthInv == Auth!TypeOK /\ AuthAlone

(* One step of a task, an edit by hand, or a crash. *)
LEMMA AuthStep == AuthInv /\ [Auth!Next]_Auth!keyvars => AuthInv'
<1> SUFFICES ASSUME AuthInv, [Auth!Next]_Auth!keyvars PROVE AuthInv'
  OBVIOUS
<1> USE DEF AuthInv, Auth!TypeOK, AuthAlone, Auth!Editing, Auth!request, Auth!Goto
<1>1. ASSUME NEW e \in Editors, Auth!Begin(e) PROVE AuthInv'
  BY <1>1 DEF Auth!Begin, Auth!LinesOf
<1>2. ASSUME NEW e \in Editors, Auth!Read(e) PROVE AuthInv'
  BY <1>2 DEF Auth!Read, Auth!LinesOf
<1>3. ASSUME NEW e \in Editors, Auth!Open(e) PROVE AuthInv'
  BY <1>3 DEF Auth!Open
<1>4. ASSUME NEW e \in Editors, Auth!Fill(e) PROVE AuthInv'
  <2>1. Auth!Merge(cur[e], add[e], drop[e]) \subseteq Auth!Lines
    BY MergeDoes
  <2> QED
    BY <1>4, <2>1 DEF Auth!Fill
<1>5. ASSUME NEW e \in Editors, Auth!Fails(e) \/ Auth!RenameFails(e) \/ Auth!Answer(e)
      PROVE AuthInv'
  BY <1>5 DEF Auth!Fails, Auth!RenameFails, Auth!Answer, Auth!Forget
<1>6. ASSUME NEW e \in Editors, Auth!Rename(e) PROVE AuthInv'
  BY <1>6 DEF Auth!Rename
<1>7. CASE Auth!HandEdit
  <2>1. edits' \in 0 .. MaxEdits
    BY <1>7, HostAssumption DEF Auth!HandEdit, Auth!KeyAssumption
  <2>2. \A file \in {auth', tmp'} : file # NoKeys => file \subseteq Auth!Lines
    BY <1>7 DEF Auth!HandEdit, Auth!Lines, Auth!LinesOf
  <2> QED
    BY <1>7, <2>1, <2>2 DEF Auth!HandEdit
<1>8. CASE Auth!Crash
  BY <1>8 DEF Auth!Crash
<1>9. CASE UNCHANGED Auth!keyvars
  BY <1>9 DEF Auth!keyvars
<1> QED
  BY <1>1, <1>2, <1>3, <1>4, <1>5, <1>6, <1>7, <1>8, <1>9 DEF Auth!Next

(* So the invariant holds at every moment. *)
LEMMA AuthSafe == HostSpec => []AuthInv
<1>1. Auth!Init => AuthInv
  BY HostAssumption
  DEF Auth!KeyAssumption, Auth!Init, AuthInv, Auth!TypeOK, AuthAlone, Auth!Editing
<1> QED
  BY <1>1, AuthStep, BehaviourOfEach, PTL DEF Auth!Spec

(* authorized_keys is, at every moment a task has it to itself, the file it found
   or the one it was asked for. *)
THEOREM AloneEditsHolds == HostSpec => []AloneEdits
<1>1. AuthInv => AloneEdits
  <2> SUFFICES ASSUME AuthInv, NEW e \in Auth!Editing \ mixed, step[e] = "answer"
               PROVE Auth!Asked(e)
    BY DEF AloneEdits, Auth!AloneEdits, AuthInv, AuthAlone
  <2>1. e \in Editors /\ auth = Auth!Merge(lines[e], add[e], drop[e])
    BY DEF AuthInv, AuthAlone, Auth!Editing
  <2>2. /\ lines[e] \in SUBSET Auth!Lines
        /\ add[e] \in SUBSET Keys /\ drop[e] \in SUBSET Keys
    BY <2>1 DEF AuthInv, Auth!TypeOK
  <2> QED
    BY <2>1, <2>2, MergeDoes DEF Auth!Asked
<1> QED
  BY <1>1, AuthSafe, PTL

-----------------------------------------------------------------------------
(* What the runs hold.                                                     *)

(* Past its look, or with a wg-quick that outlived it. *)
HeldBusy(r) == place[r] \notin {"idle", "stat", "over"} \/ child[r] = "alive"

(* Nobody is past the look at a name that is the operator's, because the look
   finds the file. *)
HeldKept ==
  \A n \in theirs \ raced :
    /\ conf[n] = Operator /\ tunnel[n] = Operator
    /\ skill = "wireguard" => \A r \in Starts : name[r] = n => ~ HeldBusy(r)

(* Where a run has a temporary file, a handle, a child. *)
HeldTemp ==
  \A r \in temp :
    skill = "proxy" /\ place[r] \in {"spawn", "running", "kill", "release"}
HeldOpen ==
  \A r \in handles :
    /\ skill \in {"shell", "vnc", "kdp"}
    /\ place[r] \in {"running", "kill", "release"}
HeldChild ==
  \A r \in Starts : child[r] = "alive" =>
    \/ skill \in {"shell", "proxy"} /\ place[r] \in {"running", "kill"}
    \/ skill = "wireguard" /\ (\/ place[r] \in {"running", "down"}
                              \/ r \in late \cup spoilt)

(* Two runs past their look at one name share it: who comes second marks both. *)
HeldShared ==
  skill = "wireguard" =>
    \A r, s \in Starts :
      r # s /\ name[r] = name[s] /\ HeldBusy(r) /\ HeldBusy(s) => r \in shared

(* A file is of a run that will remove it, and the file of a run that shares its
   name with nobody is its own. *)
Holding == {"spawn", "running", "down", "kill", "release"}
HeldConf ==
  /\ \A n \in Names, r \in Starts : conf[n] = r =>
       /\ skill = "wireguard" /\ n = name[r]
       /\ place[r] \in Holding \/ r \in spoilt
  /\ skill = "wireguard" =>
       \A r \in Starts \ (shared \cup spoilt) :
         place[r] \in Holding => conf[name[r]] = r

(* A tunnel is of a run that will take it down. *)
HeldTunnel ==
  \A r \in Starts \ (shared \cup spoilt \cup late), n \in Names : tunnel[n] = r =>
    /\ skill = "wireguard" /\ n = name[r] /\ place[r] \in {"running", "down"}

HeldInv ==
  /\ Held!HandlesTypeOK /\ HeldKept /\ HeldTemp /\ HeldOpen /\ HeldChild
  /\ HeldShared /\ HeldConf /\ HeldTunnel

(* One step of a start, of a run, or of the operator. *)
LEMMA HeldStep == HeldInv /\ [Held!Next]_Held!handlevars => HeldInv'
<1> SUFFICES ASSUME HeldInv, [Held!Next]_Held!handlevars PROVE HeldInv'
  OBVIOUS
<1> USE HostAssumption
    DEF Held!HandleAssumption, Held!HandlesTypeOK, Held!Kinds, Held!Stages,
        Held!files, Held!past, Held!Goto, Held!At, Held!UnderSudo,
        HeldInv, HeldBusy, HeldKept, HeldTemp, HeldOpen, HeldChild, HeldShared,
        Holding, HeldConf, HeldTunnel
<1>1. ASSUME NEW r \in Starts, Held!Refuse(r) \/ Held!OpenFails(r) PROVE HeldInv'
  BY <1>1 DEF Held!Refuse, Held!OpenFails
<1>2. ASSUME NEW r \in Starts,
             \/ Held!StartShell(r) \/ Held!StartProxy(r) \/ Held!StartWireguard(r)
             \/ Held!StartVnc(r) \/ Held!StartKdp(r)
      PROVE HeldInv'
  BY <1>2 DEF Held!StartShell, Held!StartProxy, Held!StartWireguard, Held!StartVnc,
              Held!StartKdp
<1>3. ASSUME NEW r \in Starts, Held!Stat(r) PROVE HeldInv'
  BY <1>3 DEF Held!Stat, Held!Using
<1>4. ASSUME NEW r \in Starts, Held!WriteTemp(r) PROVE HeldInv'
  BY <1>4 DEF Held!WriteTemp
<1>5. ASSUME NEW r \in Starts, Held!WriteConf(r) PROVE HeldInv'
  BY <1>5 DEF Held!WriteConf
<1>6. ASSUME NEW r \in Starts, Held!WriteConfFails(r) PROVE HeldInv'
  BY <1>6 DEF Held!WriteConfFails
<1>7. ASSUME NEW r \in Starts, Held!Spawn(r) PROVE HeldInv'
  BY <1>7 DEF Held!Spawn
<1>8. ASSUME NEW r \in Starts, Held!Open(r) PROVE HeldInv'
  BY <1>8 DEF Held!Open
<1>9. ASSUME NEW r \in Starts, Held!SpawnFails(r) PROVE HeldInv'
  BY <1>9 DEF Held!SpawnFails
<1>10. ASSUME NEW r \in Starts, Held!Release(r) PROVE HeldInv'
  BY <1>10 DEF Held!Release
<1>11. ASSUME NEW r \in Starts, Held!ChildEnds(r) PROVE HeldInv'
  BY <1>11 DEF Held!ChildEnds
<1>12. ASSUME NEW r \in Starts, Held!Up(r) PROVE HeldInv'
  BY <1>12 DEF Held!Up
<1>13. ASSUME NEW r \in Starts, Held!Stop(r) PROVE HeldInv'
  BY <1>13 DEF Held!Stop
<1>14. ASSUME NEW r \in Starts, Held!Kill(r) PROVE HeldInv'
  BY <1>14 DEF Held!Kill
<1>15. ASSUME NEW r \in Starts, Held!Down(r) PROVE HeldInv'
  BY <1>15 DEF Held!Down
<1>16. ASSUME NEW r \in Starts, Held!DownFails(r) PROVE HeldInv'
  BY <1>16 DEF Held!DownFails
<1>17. ASSUME NEW n \in Names, Held!Configure(n) PROVE HeldInv'
  BY <1>17 DEF Held!Configure, Held!Using
<1>18. CASE UNCHANGED Held!handlevars
  BY <1>18 DEF Held!handlevars
<1> QED
  BY <1>1, <1>2, <1>3, <1>4, <1>5, <1>6, <1>7, <1>8, <1>9, <1>10, <1>11, <1>12,
     <1>13, <1>14, <1>15, <1>16, <1>17, <1>18
  DEF Held!Next, Held!Starting, Held!Running

LEMMA HeldSafe == HostSpec => []HeldInv
<1>1. Held!Init => HeldInv
  <2> SUFFICES ASSUME Held!Init PROVE HeldInv
    OBVIOUS
  <2>1. Held!HandlesTypeOK
    BY DEF Held!Init, Held!HandlesTypeOK, Held!Kinds, Held!Stages, Held!Detect
  <2>2. HeldKept /\ HeldTemp /\ HeldOpen /\ HeldChild /\ HeldShared
    BY DEF Held!Init, HeldKept, HeldTemp, HeldOpen, HeldChild, HeldShared, HeldBusy
  <2>3. HeldConf /\ HeldTunnel
    BY HostAssumption
    DEF Held!HandleAssumption, Held!Init, HeldConf, HeldTunnel, Holding
  <2> QED
    BY <2>1, <2>2, <2>3 DEF HeldInv
<1> QED
  BY <1>1, HeldStep, BehaviourOfEach, PTL DEF Held!Spec

(* What the operator configured, and did not configure under a run that was past
   its look, stays as it was. *)
THEOREM OperatorKeptHolds == HostSpec => []OperatorKept
<1>1. HeldInv => OperatorKept
  BY DEF HeldInv, HeldKept, OperatorKept, Held!OperatorKept
<1> QED
  BY <1>1, HeldSafe, PTL

(* Whatever step of Start failed and however the run ended, what it took is given
   back, but for runs that took one interface together, writes and downs that
   failed, and an up that stop overtook. *)
THEOREM ReleasedHolds == HostSpec => []Released
<1>1. HeldInv => Released
  BY DEF HeldInv, Held!HandlesTypeOK, HeldTemp, HeldOpen, HeldChild, HeldConf,
         HeldTunnel, Holding, Released, Held!Released
<1> QED
  BY <1>1, HeldSafe, PTL

-----------------------------------------------------------------------------
(* What the runs are fed.                                                  *)

(* The rank of a number in a finite set grows with it. *)
LEMMA RankGrows ==
  ASSUME NEW S \in SUBSET Int, IsFiniteSet(S), NEW k \in S
  PROVE  /\ Cardinality({j \in S : j <= k}) \in 1 .. Cardinality(S)
         /\ \A l \in S : k < l =>
              Cardinality({j \in S : j <= k}) < Cardinality({j \in S : j <= l})
<1> DEFINE upto(l) == {j \in S : j <= l}
<1>1. ASSUME NEW l \in S PROVE IsFiniteSet(upto(l)) /\ Cardinality(upto(l)) \in Nat
  <2>1. upto(l) \in SUBSET S
    OBVIOUS
  <2> QED
    BY <2>1, FS_Subset, FS_CardinalityType
<1>2. Cardinality(upto(k)) \in 1 .. Cardinality(S)
  <2>1. upto(k) \in SUBSET S /\ k \in upto(k)
    OBVIOUS
  <2>2. Cardinality(upto(k)) <= Cardinality(S) /\ Cardinality(S) \in Nat
    BY <2>1, FS_Subset, FS_CardinalityType
  <2>3. Cardinality(upto(k)) # 0
    BY <1>1, <2>1, FS_EmptySet
  <2> QED
    BY <1>1, <2>2, <2>3
<1>3. ASSUME NEW l \in S, k < l PROVE Cardinality(upto(k)) < Cardinality(upto(l))
  <2>1. k \in Int /\ l \in Int /\ \A j \in S : j \in Int
    OBVIOUS
  <2>2. \A j \in S : j <= k => j <= l
    BY <1>3, <2>1
  <2>3. l \in upto(l) /\ l \notin upto(k)
    BY <1>3, <2>1
  <2>4. upto(k) \in SUBSET upto(l)
    BY <2>2
  <2>5. /\ IsFiniteSet(upto(l))
        /\ Cardinality(upto(k)) \in Nat /\ Cardinality(upto(l)) \in Nat
    BY <1>1
  <2> HIDE DEF upto
  <2> QED
    BY <2>3, <2>4, <2>5, FS_Subset
<1> QED
  BY <1>2, <1>3

(* There is a number of each rank: ranks are different, so they are all there. *)
LEMMA RankReached ==
  ASSUME NEW S \in SUBSET Int, IsFiniteSet(S), NEW i \in 1 .. Cardinality(S)
  PROVE  \E k \in S : Cardinality({j \in S : j <= k}) = i
<1> DEFINE rank == [k \in S |-> Cardinality({j \in S : j <= k})]
           n == Cardinality(S)
<1>1. rank \in Injection(S, 1 .. n)
  <2>1. rank \in [S -> 1 .. n]
    BY RankGrows
  <2>2. ASSUME NEW k \in S, NEW l \in S, k < l PROVE rank[k] # rank[l]
    <3>1. rank[k] < rank[l] /\ rank[k] \in Int /\ rank[l] \in Int
      BY <2>2, RankGrows
    <3> QED
      BY <3>1
  <2>3. \A k, l \in S : k < l \/ l < k \/ k = l
    OBVIOUS
  <2> QED
    BY <2>1, <2>2, <2>3 DEF Injection, IsInjective
<1>2. n \in Nat
  BY FS_CardinalityType
<1>3. IsFiniteSet(1 .. n) /\ Cardinality(1 .. n) = n
  BY <1>2, FS_Interval
<1>4. rank \in Surjection(S, 1 .. n)
  <2> HIDE DEF rank
  <2> QED
    BY <1>1, <1>3, FS_Injection
<1> QED
  BY <1>4 DEF Surjection

(* Lines and Trailer cut the buffer b into n lines and what is left, the i-th line
   from behind e[i - 1] to e[i], where the places e are those of eols in order. *)
CutsAt(b, eols, n, e) ==
  /\ n \in Nat /\ e \in [0 .. n -> 0 .. Len(b)] /\ e[0] = 0
  /\ \A i \in 1 .. n :
       /\ e[i] \in eols /\ e[i - 1] < e[i]
       /\ \A k \in eols : k <= e[i - 1] \/ e[i] <= k
  /\ \A k \in eols : k <= e[n]
  /\ Fed!Lines(b, eols) = [i \in 1 .. n |-> SubSeq(b, e[i - 1] + 1, e[i])]
  /\ Fed!Trailer(b, eols) = SubSeq(b, e[n] + 1, Len(b))

(* They do so at whatever places they are given. *)
LEMMA LinesCut ==
  ASSUME NEW b, Len(b) \in Nat, NEW eols, \A k \in eols : k \in 1 .. Len(b)
  PROVE  \E n, e : CutsAt(b, eols, n, e)
<1> DEFINE n == Fed!Cardinality(eols)
           rank(k) == Fed!Cardinality({j \in eols : j <= k})
           end(i) == CHOOSE k \in eols : rank(k) = i
           e == [i \in 0 .. n |-> IF i = 0 THEN 0 ELSE end(i)]
<1>0. \A k \in eols : k \in Nat /\ k <= Len(b)
  OBVIOUS
<1> HIDE DEF n, rank
<1>a. \A S : Fed!Cardinality(S) = Cardinality(S)
  BY DEF Fed!Cardinality, Cardinality
<1>b. n = Cardinality(eols)
  BY <1>a DEF n
<1>c. \A k : rank(k) = Cardinality({j \in eols : j <= k})
  BY <1>a DEF rank
<1>1. IsFiniteSet(eols) /\ n \in Nat
  <2>1. IsFiniteSet(1 .. Len(b))
    BY FS_Interval
  <2>2. IsFiniteSet(eols)
    BY <2>1, FS_Subset, eols \in SUBSET (1 .. Len(b))
  <2>3. n \in Nat
    BY <2>2, <1>b, FS_CardinalityType
  <2> QED
    BY <2>2, <2>3
<1>2. \A i \in 1 .. n : end(i) \in eols /\ rank(end(i)) = i
  <2>1. \A i \in 1 .. n : \E k \in eols : rank(k) = i
    BY <1>1, <1>b, <1>c, RankReached, eols \in SUBSET Int
  <2> QED
    BY <2>1
<1>3. \A k \in eols : rank(k) \in 1 .. n /\ \A l \in eols : k < l => rank(k) < rank(l)
  BY <1>1, <1>b, <1>c, RankGrows, eols \in SUBSET Int
<1> HIDE DEF end
<1>4. e \in [0 .. n -> 0 .. Len(b)] /\ e[0] = 0
  <2>1. \A i \in 0 .. n : (IF i = 0 THEN 0 ELSE end(i)) \in 0 .. Len(b)
    BY <1>0, <1>1, <1>2
  <2>2. 0 \in 0 .. n
    BY <1>1
  <2> QED
    BY <2>1, <2>2
<1>5. \A i \in 1 .. n : e[i] = end(i) /\ e[i] \in eols /\ rank(e[i]) = i
  BY <1>1, <1>2
<1>6. ASSUME NEW i \in 1 .. n
      PROVE  e[i - 1] < e[i] /\ \A k \in eols : k <= e[i - 1] \/ e[i] <= k
  <2>1. i \in Nat /\ (i = 1 \/ i - 1 \in 1 .. n)
    BY <1>1
  <2>2. e[i] \in eols /\ rank(e[i]) = i
    BY <1>5
  <2>3. CASE i = 1
    BY <1>1, <1>3, <1>4, <2>2, <2>3
  <2>4. CASE i - 1 \in 1 .. n
    <3>1. e[i - 1] \in eols /\ rank(e[i - 1]) = i - 1
      BY <1>5, <2>4
    <3> HIDE DEF e
    <3>2. e[i - 1] \in Int /\ e[i] \in Int
      BY <1>1, <2>2, <3>1
    <3>3. e[i - 1] < e[i]
      BY <1>3, <2>1, <2>2, <3>1, <3>2
    <3>4. ASSUME NEW k \in eols, e[i - 1] < k, k < e[i] PROVE FALSE
      <4>1. rank(e[i - 1]) < rank(k) /\ rank(k) < rank(e[i]) /\ rank(k) \in Int
        BY <1>1, <1>3, <2>2, <3>1, <3>2, <3>4
      <4> QED
        BY <4>1, <2>1, <2>2, <3>1
    <3> QED
      BY <1>1, <3>2, <3>3, <3>4
  <2> QED
    BY <2>1, <2>3, <2>4
<1>7. \A k \in eols : k <= e[n]
  <2> SUFFICES ASSUME NEW k \in eols PROVE k <= e[n]
    OBVIOUS
  <2>1. rank(k) \in 1 .. n
    BY <1>3
  <2>2. n \in 1 .. n
    BY <1>1, <2>1
  <2>3. e[n] \in eols /\ rank(e[n]) = n
    BY <1>5, <2>2
  <2> HIDE DEF e
  <2>4. k \in Int /\ e[n] \in Int /\ rank(k) \in Int
    BY <1>0, <1>1, <2>1, <2>3
  <2>5. ~ (e[n] < k)
    BY <1>1, <1>3, <2>1, <2>3, <2>4
  <2> QED
    BY <2>4, <2>5
<1>8. Fed!Lines(b, eols) = [i \in 1 .. n |-> SubSeq(b, e[i - 1] + 1, e[i])]
  <2> DEFINE piece(i) == SubSeq(b, IF i = 1 THEN 1 ELSE end(i - 1) + 1, end(i))
             line(i) == SubSeq(b, e[i - 1] + 1, e[i])
  <2>1. Fed!Lines(b, eols) = [i \in 1 .. n |-> piece(i)]
    BY Zenon DEF Fed!Lines, n, end, rank
  <2>2. ASSUME NEW i \in 1 .. n PROVE piece(i) = line(i)
    <3>1. (IF i = 1 THEN 1 ELSE end(i - 1) + 1) = e[i - 1] + 1 /\ end(i) = e[i]
      BY <1>1
    <3> QED
      BY <3>1
  <2> HIDE DEF piece, line
  <2>3. [i \in 1 .. n |-> piece(i)] = [i \in 1 .. n |-> line(i)]
    BY <2>2
  <2> QED
    BY <2>1, <2>3 DEF line
<1>9. Fed!Trailer(b, eols) = SubSeq(b, e[n] + 1, Len(b))
  <2>1. e[n] \in {0} \cup eols /\ \A k \in {0} \cup eols : e[n] >= k
    <3>1. n = 0 \/ n \in 1 .. n
      BY <1>1
    <3>2. e[n] \in {0} \cup eols
      BY <1>4, <1>5, <3>1
    <3> HIDE DEF e
    <3>3. e[n] \in Nat
      BY <1>0, <3>2
    <3> QED
      BY <1>1, <1>7, <3>2, <3>3
  <2>2. \A x \in {0} \cup eols :
          (\A k \in {0} \cup eols : x >= k) => x = e[n]
    BY <1>1, <1>4, <2>1
  <2> HIDE DEF e
  <2>3. Fed!Max({0} \cup eols) = e[n]
    BY <2>1, <2>2 DEF Fed!Max
  <2> QED
    BY <2>3 DEF Fed!Trailer
<1> HIDE DEF e
<1>10. CutsAt(b, eols, n, e)
  BY <1>1, <1>4, <1>5, <1>6, <1>7, <1>8, <1>9 DEF CutsAt
<1> QED
  BY <1>10

(* Where the i-th piece of p starts, when the first one starts behind c, and that
   each starts where the one before it ended. *)
Behind(p, c, i) == IF i = 1 THEN c ELSE p[i - 1][Len(p[i - 1])]
InOrder(p, c) ==
  \A i \in 1 .. Len(p) :
    p[i] # <<>> /\ p[i] = Fed!Bytes(Behind(p, c, i), Len(p[i]))

(* A piece of consecutive bytes, as a sequence. *)
LEMMA BytesAre ==
  ASSUME NEW from \in Nat, NEW n \in Nat, NEW top \in Nat, from + n <= top
  PROVE  /\ Fed!Bytes(from, n) \in Seq(1 .. top) /\ Len(Fed!Bytes(from, n)) = n
         /\ \A k \in 1 .. n : Fed!Bytes(from, n)[k] = from + k
BY DEF Fed!Bytes

(* A part of them is, too. *)
LEMMA PartOfBytes ==
  ASSUME NEW c \in Nat, NEW m \in Nat,
         NEW i \in Nat \ {0}, NEW j \in Nat, i <= j + 1, j <= m
  PROVE  SubSeq(Fed!Bytes(c, m), i, j) = Fed!Bytes(c + i - 1, j - i + 1)
<1> DEFINE b == Fed!Bytes(c, m)
           s == SubSeq(b, i, j)
<1>1. Len(b) = m /\ \A k \in 1 .. m : b[k] = c + k
  BY BytesAre, c + m \in Nat, c + m <= c + m
<1>2. b \in Seq(Nat)
  BY DEF Fed!Bytes
<1> HIDE DEF b
<1>3. /\ s \in Seq(Nat) /\ Len(s) = j - i + 1
      /\ \A k \in 1 .. j - i + 1 : s[k] = b[i + k - 1]
  BY <1>1, <1>2
<1> HIDE DEF s
<1>4. \A k \in 1 .. j - i + 1 : s[k] = c + i - 1 + k
  BY <1>1, <1>3
<1>5. s = [k \in 1 .. j - i + 1 |-> c + i - 1 + k]
  BY <1>3, <1>4
<1> QED
  BY <1>5 DEF Fed!Bytes, s, b

(* The lines that are cut from consecutive bytes are in order, and the rest comes
   behind them. *)
LEMMA CutInOrder ==
  ASSUME NEW c \in Nat, NEW m \in Nat, NEW eols, NEW n, NEW e,
         CutsAt(Fed!Bytes(c, m), eols, n, e)
  PROVE  LET b == Fed!Bytes(c, m)
             p == Fed!Lines(b, eols)
         IN /\ p \in Seq(Seq(1 .. c + m)) /\ Len(p) = n /\ InOrder(p, c)
            /\ \A i \in 1 .. n :
                 /\ Len(p[i]) = e[i] - e[i - 1]
                 /\ \A k \in 1 .. Len(p[i]) : p[i][k] = c + e[i - 1] + k
            /\ Behind(p, c, n + 1) = c + e[n]
            /\ Fed!Trailer(b, eols) = Fed!Bytes(c + e[n], m - e[n])
            /\ e[n] \in 0 .. m
<1> DEFINE b == Fed!Bytes(c, m)
           p == Fed!Lines(b, eols)
<1>1. Len(b) = m
  BY BytesAre, c + m \in Nat, c + m <= c + m
<1>2. n \in Nat /\ e[0] = 0
  BY DEF CutsAt
<1>3. \A i \in 0 .. n : e[i] \in 0 .. m
  BY <1>1 DEF CutsAt
<1>4. \A i \in 1 .. n : i - 1 \in 0 .. n /\ i \in 0 .. n /\ e[i - 1] < e[i]
  BY <1>2 DEF CutsAt
<1>5. /\ p = [i \in 1 .. n |-> SubSeq(b, e[i - 1] + 1, e[i])]
      /\ Fed!Trailer(b, eols) = SubSeq(b, e[n] + 1, m)
  BY <1>1 DEF CutsAt
<1> HIDE DEF b, p
<1>6. ASSUME NEW i \in 1 .. n
      PROVE  /\ p[i] = Fed!Bytes(c + e[i - 1], e[i] - e[i - 1])
             /\ p[i] \in Seq(1 .. c + m) /\ Len(p[i]) = e[i] - e[i - 1] /\ p[i] # <<>>
             /\ \A k \in 1 .. Len(p[i]) : p[i][k] = c + e[i - 1] + k
  <2> DEFINE from == e[i - 1]
             to == e[i]
  <2>1. from \in 0 .. m /\ to \in 0 .. m /\ from < to
    BY <1>3, <1>4
  <2>2. p[i] = SubSeq(b, from + 1, to)
    BY <1>5
  <2> HIDE DEF from, to
  <2>3. p[i] = Fed!Bytes(c + from, to - from)
    <3> DEFINE f == from + 1
    <3>1. f \in Nat \ {0} /\ to \in Nat /\ f <= to + 1 /\ to <= m
      BY <2>1
    <3>2. c + f - 1 = c + from /\ to - f + 1 = to - from
      BY <2>1
    <3> HIDE DEF f
    <3>3. SubSeq(Fed!Bytes(c, m), f, to) = Fed!Bytes(c + f - 1, to - f + 1)
      BY <3>1, PartOfBytes, Zenon
    <3> QED
      BY <2>2, <3>2, <3>3, Zenon DEF b, f
  <2>4. /\ p[i] \in Seq(1 .. c + m) /\ Len(p[i]) = to - from
        /\ \A k \in 1 .. to - from : p[i][k] = c + from + k
    <3> DEFINE f == c + from
               l == to - from
               t == c + m
    <3>1. f \in Nat /\ l \in Nat /\ t \in Nat /\ f + l <= t
      BY <2>1
    <3> HIDE DEF f, l, t
    <3>2. /\ Fed!Bytes(f, l) \in Seq(1 .. t) /\ Len(Fed!Bytes(f, l)) = l
          /\ \A k \in 1 .. l : Fed!Bytes(f, l)[k] = f + k
      BY <3>1, BytesAre, Zenon
    <3> QED
      BY <2>3, <3>1, <3>2 DEF f, l, t
  <2> QED
    BY <2>1, <2>3, <2>4 DEF from, to
<1>7. Fed!Trailer(b, eols) = Fed!Bytes(c + e[n], m - e[n]) /\ e[n] \in 0 .. m
  <2>1. e[n] \in 0 .. m
    BY <1>2, <1>3
  <2> DEFINE from == e[n]
  <2> HIDE DEF from
  <2> DEFINE f == from + 1
  <2>2. f \in Nat \ {0} /\ f <= m + 1 /\ m <= m
    BY <2>1 DEF from
  <2>3. c + f - 1 = c + from /\ m - f + 1 = m - from
    BY <2>1 DEF from
  <2> HIDE DEF f
  <2>4. SubSeq(Fed!Bytes(c, m), f, m) = Fed!Bytes(c + f - 1, m - f + 1)
    BY <2>2, PartOfBytes, Zenon
  <2> QED
    BY <1>5, <2>1, <2>3, <2>4, Zenon DEF b, from, f
<1>8. p \in Seq(Seq(1 .. c + m)) /\ Len(p) = n
  <2>1. p \in [1 .. n -> Seq(1 .. c + m)]
    BY <1>5, <1>6
  <2> QED
    BY <1>2, <2>1
<1>9. ASSUME NEW i \in 1 .. n + 1 PROVE Behind(p, c, i) = c + e[i - 1]
  <2>1. CASE i = 1
    BY <1>2, <2>1 DEF Behind
  <2>2. CASE i # 1
    <3> DEFINE j == i - 1
               l == Len(p[j])
    <3>1. j \in 1 .. n
      BY <1>2, <2>2
    <3>2. Behind(p, c, i) = p[j][l]
      BY <2>2 DEF Behind
    <3> HIDE DEF j, l
    <3>3. e[j] \in Nat /\ e[j - 1] \in Nat /\ e[j - 1] < e[j]
      BY <1>3, <1>4, <3>1
    <3>4. l = e[j] - e[j - 1] /\ \A k \in 1 .. l : p[j][k] = c + e[j - 1] + k
      BY <1>6, <3>1 DEF l
    <3>5. l \in 1 .. l
      BY <3>3, <3>4
    <3>6. p[j][l] = c + e[j - 1] + l
      BY <3>4, <3>5
    <3>7. p[j][l] = c + e[j]
      BY <3>3, <3>4, <3>6
    <3> QED
      BY <3>2, <3>7 DEF j
  <2> QED
    BY <2>1, <2>2
<1>10. InOrder(p, c)
  <2> SUFFICES ASSUME NEW i \in 1 .. n
               PROVE  p[i] # <<>> /\ p[i] = Fed!Bytes(Behind(p, c, i), Len(p[i]))
    BY <1>8 DEF InOrder
  <2>1. i \in 1 .. n + 1
    BY <1>2
  <2> QED
    BY <1>6, <1>9, <2>1
<1>11. Behind(p, c, n + 1) = c + e[n]
  <2>1. n + 1 \in 1 .. n + 1 /\ n + 1 - 1 = n
    BY <1>2
  <2> DEFINE i == n + 1
  <2> HIDE DEF i
  <2>2. Behind(p, c, i) = c + e[i - 1]
    BY <1>9, <2>1 DEF i
  <2> QED
    BY <1>2, <2>1, <2>2 DEF i
<1> QED
  BY <1>6, <1>7, <1>8, <1>10, <1>11 DEF b, p

(* A finite set of numbers has a greatest one. *)
LEMMA GreatestOf ==
  ASSUME NEW S \in SUBSET Nat, IsFiniteSet(S), S # {}
  PROVE  \E x \in S : \A y \in S : y <= x
<1> DEFINE n == Cardinality(S)
           rank(k) == Cardinality({j \in S : j <= k})
<1>0. S \in SUBSET Int
  OBVIOUS
<1>1. n \in Nat /\ n # 0
  BY FS_CardinalityType, FS_EmptySet
<1>2. \E x \in S : rank(x) = n
  BY <1>0, <1>1, RankReached
<1>3. \A k \in S : rank(k) \in 1 .. n /\ \A l \in S : k < l => rank(k) < rank(l)
  BY <1>0, RankGrows
<1> HIDE DEF n, rank
<1>4. PICK x \in S : rank(x) = n
  BY <1>2
<1>5. ASSUME NEW y \in S PROVE y <= x
  <2>1. x \in Nat /\ y \in Nat /\ rank(y) \in Nat /\ rank(y) <= n
    BY <1>1, <1>3
  <2>2. ~ (x < y)
    BY <1>1, <1>3, <1>4, <2>1
  <2> QED
    BY <2>1, <2>2
<1> QED
  BY <1>5

(* Max is it. *)
LEMMA MaxIs ==
  ASSUME NEW S \in SUBSET Nat, IsFiniteSet(S), S # {}
  PROVE  Fed!Max(S) \in S /\ \A y \in S : Fed!Max(S) >= y
<1>1. \E x \in S : \A y \in S : x >= y
  BY GreatestOf, \A x, y \in S : y <= x => x >= y
<1> QED
  BY <1>1 DEF Fed!Max

(* Where Cuts cuts, a line ends, and it cuts before wherever one ends that it cuts
   behind.  What ends elsewhere is the end of a line of an MCP run, and is farther
   than the limit from every cut. *)
LEMMA CutsWhereLinesEnd ==
  ASSUME serves \in {"mcp", "kdp"}, NEW b, Len(b) \in Nat, NEW eol
  PROVE  LET ending == {k \in 1 .. Len(b) : b[k] \in eol}
             eols == Fed!Cuts(b, eol)
         IN /\ \A x \in eols : x \in ending
            /\ \A x \in eols, y \in ending : y <= x => y \in eols
            /\ \A y \in ending : y \notin eols =>
                 serves = "mcp" /\ \A z : z = 0 \/ z \in eols => y - z > Limit
<1> DEFINE ending == {k \in 1 .. Len(b) : b[k] \in eol}
           eols == Fed!Cuts(b, eol)
           front(k) == {0} \cup {j \in ending : j < k}
           Long(k) == k - Fed!Max(front(k)) > Limit
<1>0. Limit \in Nat
  BY HostAssumption DEF Fed!InputAssumption
<1>1. \A k \in ending : k \in Nat
  OBVIOUS
<1>2. eols = IF serves = "kdp" THEN ending
             ELSE {k \in ending : \A j \in ending : j <= k => ~ Long(j)}
  BY DEF Fed!Cuts
<1>3. ASSUME NEW k \in ending
      PROVE  Fed!Max(front(k)) \in front(k) /\ \A y \in front(k) : Fed!Max(front(k)) >= y
  <2>1. front(k) \in SUBSET Nat /\ front(k) # {}
    BY <1>1
  <2>2. front(k) \in SUBSET (0 .. Len(b))
    OBVIOUS
  <2>3. IsFiniteSet(0 .. Len(b))
    BY FS_Interval
  <2>4. IsFiniteSet(front(k))
    BY <2>2, <2>3, FS_Subset
  <2> HIDE DEF front
  <2> QED
    BY <2>1, <2>4, MaxIs
<1>4. ASSUME NEW k \in ending, NEW z, z = 0 \/ z \in ending, z < k, Long(k)
      PROVE  k - z > Limit
  <2>1. z \in front(k)
    BY <1>4
  <2>2. Fed!Max(front(k)) \in Nat
    BY <1>1, <1>3
  <2>3. Fed!Max(front(k)) >= z
    BY <1>3, <2>1
  <2>4. k \in Nat /\ z \in Nat
    BY <1>1, <1>4
  <2> DEFINE top == Fed!Max(front(k))
  <2>5. k - top > Limit
    BY <1>4
  <2> HIDE DEF top, Long
  <2> QED
    BY <1>0, <2>2, <2>3, <2>4, <2>5 DEF top
<1> HIDE DEF ending, eols, Long, front
<1>5. \A x \in eols : x \in ending
  BY <1>2
<1>6. ASSUME NEW x \in eols, NEW y \in ending, y <= x PROVE y \in eols
  <2>1. x \in Nat /\ y \in Nat
    BY <1>1, <1>5
  <2>2. CASE serves = "kdp"
    BY <1>2, <2>2
  <2>3. CASE serves # "kdp"
    <3>1. \A j \in ending : j <= x => ~ Long(j)
      BY <1>2, <2>3
    <3>2. \A j \in ending : j <= y => ~ Long(j)
      BY <1>1, <1>6, <2>1, <3>1
    <3> QED
      BY <1>2, <2>3, <3>2
  <2> QED
    BY <2>2, <2>3
<1>7. ASSUME NEW y \in ending, y \notin eols
      PROVE  serves = "mcp" /\ \A z : z = 0 \/ z \in eols => y - z > Limit
  <2>1. serves = "mcp"
    BY <1>2, <1>7
  <2>2. PICK j \in ending : j <= y /\ Long(j)
    BY <1>2, <1>7, <2>1
  <2>3. ASSUME NEW z, z = 0 \/ z \in eols PROVE y - z > Limit
    <3>1. z \in Nat /\ j \in Nat /\ y \in Nat /\ (z = 0 \/ z \in ending)
      BY <1>1, <1>5, <2>3
    <3>2. z < j
      <4>1. CASE z = 0
        BY <3>1, <4>1 DEF ending
      <4>2. CASE z \in eols
        <5>1. \A i \in ending : i <= z => ~ Long(i)
          BY <1>2, <2>1, <4>2
        <5> QED
          BY <2>2, <3>1, <5>1
      <4> QED
        BY <2>3, <4>1, <4>2
    <3>3. j - z > Limit
      BY <1>4, <2>2, <3>1, <3>2
    <3> QED
      BY <1>0, <2>2, <3>1, <3>3
  <2> QED
    BY <2>1, <2>3
<1> QED
  BY <1>5, <1>6, <1>7 DEF ending, eols

(* Pieces behind pieces. *)
LEMMA JoinInOrder ==
  ASSUME NEW S, NEW p \in Seq(Seq(S)), NEW q \in Seq(Seq(S)), NEW c,
         InOrder(p, c), InOrder(q, Behind(p, c, Len(p) + 1))
  PROVE  /\ InOrder(p \o q, c)
         /\ Behind(p \o q, c, Len(p \o q) + 1)
            = Behind(q, Behind(p, c, Len(p) + 1), Len(q) + 1)
<1> DEFINE d == Behind(p, c, Len(p) + 1)
           r == p \o q
<1>1. /\ Len(p) \in Nat /\ Len(q) \in Nat /\ Len(r) = Len(p) + Len(q)
      /\ \A i \in 1 .. Len(p) : r[i] = p[i]
      /\ \A i \in 1 .. Len(q) : r[Len(p) + i] = q[i]
  OBVIOUS
<1> HIDE DEF r
<1>2. ASSUME NEW i \in 1 .. Len(p) + 1 PROVE Behind(r, c, i) = Behind(p, c, i)
  <2>1. i = 1 \/ i - 1 \in 1 .. Len(p)
    BY <1>1
  <2> QED
    BY <1>1, <2>1 DEF Behind
<1>3. ASSUME NEW i \in 1 .. Len(q) + 1 PROVE Behind(r, c, Len(p) + i) = Behind(q, d, i)
  <2>1. CASE i = 1
    <3>1. Behind(r, c, Len(p) + 1) = d
      BY <1>1, <1>2
    <3> QED
      BY <2>1, <3>1 DEF Behind
  <2>2. CASE i # 1
    <3> DEFINE j == i - 1
    <3>1. j \in 1 .. Len(q) /\ Len(p) + i # 1 /\ Len(p) + i - 1 = Len(p) + j
      BY <1>1, <2>2
    <3>2. r[Len(p) + i - 1] = q[i - 1]
      BY <1>1, <3>1
    <3> QED
      BY <2>2, <3>1, <3>2 DEF Behind
  <2> QED
    BY <2>1, <2>2
<1>4. ASSUME NEW i \in 1 .. Len(r)
      PROVE  r[i] # <<>> /\ r[i] = Fed!Bytes(Behind(r, c, i), Len(r[i]))
  <2>1. CASE i \in 1 .. Len(p)
    <3>1. r[i] = p[i] /\ i \in 1 .. Len(p) + 1
      BY <1>1, <2>1
    <3>2. Behind(r, c, i) = Behind(p, c, i)
      BY <1>2, <3>1
    <3> QED
      BY <2>1, <3>1, <3>2 DEF InOrder
  <2>2. CASE i \notin 1 .. Len(p)
    <3> DEFINE j == i - Len(p)
    <3>1. j \in 1 .. Len(q) /\ j \in 1 .. Len(q) + 1 /\ i = Len(p) + j
      BY <1>1, <2>2
    <3> HIDE DEF j
    <3>2. r[i] = q[j] /\ Behind(r, c, i) = Behind(q, d, j)
      BY <1>1, <1>3, <3>1
    <3> QED
      BY <3>1, <3>2 DEF InOrder
  <2> QED
    BY <2>1, <2>2
<1>5. Behind(r, c, Len(r) + 1) = Behind(q, d, Len(q) + 1)
  <2> DEFINE i == Len(q) + 1
  <2>1. i \in 1 .. Len(q) + 1 /\ Len(r) + 1 = Len(p) + i
    BY <1>1
  <2> HIDE DEF i
  <2>2. Behind(r, c, Len(p) + i) = Behind(q, d, i)
    BY <1>3, <2>1
  <2> QED
    BY <2>1, <2>2 DEF i
<1> QED
  BY <1>4, <1>5 DEF InOrder, r

(* The property, piece by piece: a piece is whole, and what is held is no line. *)
Whole(line) ==
  \/ serves = "kdp" /\ Len(line) > Limit
  \/ {k \in 1 .. Len(line) : line[k] \in ends} = {Len(line)}
FedOrder ==
  LET p == cuts \o ready
      from == Behind(p, 0, Len(p) + 1)
  IN /\ InOrder(p, 0) /\ \A i \in 1 .. Len(p) : Whole(p[i])
     /\ from + Len(inBuf) = got /\ inBuf = Fed!Bytes(from, Len(inBuf))
     /\ \A k \in 1 .. Len(inBuf) :
          inBuf[k] \in ends => serves = "mcp" /\ k > Limit

(* A session the watchdog listed has been open, and is not active unless it was
   used after that. *)
FedListed ==
  \A s \in listed : sessions[s] # "unused" /\ (sessions[s] = "active" => s \in pinged)

FedInv == Fed!InputTypeOK /\ FedOrder /\ FedListed

(* A line that is dispatched moves from what is cut to what is done. *)
LEMMA DispatchStep ==
  ASSUME FedInv, Fed!Dispatch, UNCHANGED serves
  PROVE  /\ FedOrder' /\ cuts' \in Seq(Seq(1 .. got')) /\ ready' \in Seq(Seq(1 .. got'))
         /\ got' = got /\ ends' = ends /\ inBuf' = inBuf
<1> USE DEF FedInv, Fed!InputTypeOK, Fed!Dispatch
<1>1. ready # <<>> /\ ready \in Seq(Seq(1 .. got)) /\ cuts \in Seq(Seq(1 .. got))
  OBVIOUS
<1>2. Append(cuts, Head(ready)) \o Tail(ready) = cuts \o ready
  BY <1>1
<1>3. cuts' \o ready' = cuts \o ready
  BY <1>2
<1>4. cuts' \in Seq(Seq(1 .. got)) /\ ready' \in Seq(Seq(1 .. got))
  BY <1>1
<1>5. serves' = serves /\ got' = got /\ ends' = ends /\ inBuf' = inBuf
  OBVIOUS
<1>6. FedOrder'
  BY <1>3, <1>5 DEF FedOrder, Whole
<1> QED
  BY <1>4, <1>5, <1>6

(* A sequence over a set is one over a larger set. *)
LEMMA SeqGrows ==
  ASSUME NEW S, NEW T, \A x \in S : x \in T, NEW s \in Seq(S)
  PROVE  s \in Seq(T)
OBVIOUS

(* Bytes that arrive continue those that are held. *)
LEMMA JoinBytes ==
  ASSUME NEW c \in Nat, NEW l \in Nat, NEW n \in Nat
  PROVE  Fed!Bytes(c, l) \o Fed!Bytes(c + l, n) = Fed!Bytes(c, l + n)
<1> DEFINE s == Fed!Bytes(c, l)
           t == Fed!Bytes(c + l, n)
<1>1. s \in Seq(Nat) /\ Len(s) = l /\ \A k \in 1 .. l : s[k] = c + k
  BY DEF Fed!Bytes
<1>2. t \in Seq(Nat) /\ Len(t) = n /\ \A k \in 1 .. n : t[k] = c + l + k
  BY DEF Fed!Bytes
<1> HIDE DEF s, t
<1> DEFINE r == s \o t
<1>3. /\ Len(r) = l + n /\ r \in Seq(Nat)
      /\ \A k \in 1 .. l : r[k] = s[k]
      /\ \A k \in 1 .. n : r[l + k] = t[k]
  <2>1. s \in Seq(Nat) /\ t \in Seq(Nat)
    BY <1>1, <1>2
  <2>2. /\ Len(r) = Len(s) + Len(t) /\ r \in Seq(Nat)
        /\ \A k \in 1 .. Len(s) : r[k] = s[k]
        /\ \A k \in 1 .. Len(t) : r[Len(s) + k] = t[k]
    BY <2>1
  <2> HIDE DEF r
  <2> QED
    BY <1>1, <1>2, <2>2
<1> HIDE DEF r
<1>4. ASSUME NEW k \in 1 .. l + n PROVE r[k] = c + k
  <2>1. CASE k \in 1 .. l
    BY <1>1, <1>3, <2>1
  <2>2. CASE k \notin 1 .. l
    <3> DEFINE i == k - l
    <3>1. i \in 1 .. n /\ k = l + i
      BY <2>2
    <3> HIDE DEF i
    <3>2. r[k] = c + l + i
      BY <1>2, <1>3, <3>1
    <3> QED
      BY <3>1, <3>2
  <2> QED
    BY <2>1, <2>2
<1>5. r = [k \in 1 .. l + n |-> c + k]
  BY <1>3, <1>4
<1> QED
  BY <1>5 DEF Fed!Bytes, r, s, t

(* Frames are cut into lines. *)
LEMMA WriteStep ==
  ASSUME FedInv, NEW n \in 1 .. MaxInput, Fed!WriteInput(n)
  PROVE  Fed!InputTypeOK' /\ FedOrder'
<1> DEFINE base == Behind(cuts, 0, Len(cuts) + 1)
           l == Len(inBuf)
           m == l + n
           b == Fed!Bytes(base, m)
           new == Fed!Cuts(b, ends')
<1>0. ASSUME NEW S, NEW x \in Seq(S)
      PROVE  Len(x) \in Nat /\ \A k \in 1 .. Len(x) : x[k] \in S
  OBVIOUS
<1>1. /\ ready = <<>> /\ serves' = serves /\ serves \in {"mcp", "kdp"}
      /\ got \in Nat /\ got' = got + n /\ got' \in 0 .. MaxInput /\ n \in Nat
      /\ cuts \in Seq(Seq(1 .. got))
  BY HostAssumption
  DEF FedInv, Fed!InputTypeOK, Fed!WriteInput, Fed!Idle, Fed!InputAssumption
<1>2. /\ ends' \subseteq 1 .. got'
      /\ \A x \in 1 .. got : x \in ends' <=> x \in ends
  BY <1>1 DEF FedInv, Fed!InputTypeOK, Fed!WriteInput
<1>3. cuts \o ready = cuts
  BY <1>1
<1>4. /\ InOrder(cuts, 0) /\ \A i \in 1 .. Len(cuts) : Whole(cuts[i])
      /\ base + l = got /\ inBuf = Fed!Bytes(base, l)
  BY <1>3 DEF FedInv, FedOrder
<1>5. base \in Nat /\ l \in Nat /\ m \in Nat /\ base + m = got'
  <2>1. l \in Nat
    BY DEF FedInv, Fed!InputTypeOK
  <2>2. base \in Nat
    <3>1. CASE Len(cuts) = 0
      BY <3>1 DEF Behind
    <3>2. CASE Len(cuts) # 0
      <4> DEFINE j == Len(cuts)
                 x == cuts[j]
      <4>1. j \in 1 .. Len(cuts)
        BY <1>1, <3>2
      <4>2. x \in Seq(1 .. got) /\ x # <<>>
        BY <1>1, <1>4, <4>1 DEF InOrder
      <4>3. Behind(cuts, 0, j + 1) = x[Len(x)]
        BY <1>1, <3>2, <4>1 DEF Behind
      <4> HIDE DEF x
      <4>4. x[Len(x)] \in 1 .. got
        <5>1. Len(x) \in 1 .. Len(x)
          BY <4>2
        <5> QED
          BY <1>0, <4>2, <5>1, Zenon
      <4> QED
        BY <4>3, <4>4
    <3> QED
      BY <3>1, <3>2
  <2> HIDE DEF base, l
  <2> QED
    BY <1>1, <1>4, <2>1, <2>2
<1>6. inBuf \o Fed!Bytes(got, n) = b
  <2> HIDE DEF base, l
  <2> QED
    BY <1>1, <1>4, <1>5, JoinBytes DEF b, m
<1> HIDE DEF base, l, m
<1>7. IF serves = "kdp" /\ Len(b) > Limit
      THEN inBuf' = <<>> /\ cuts' = Append(cuts, b) /\ ready' = <<>>
      ELSE /\ inBuf' = Fed!Trailer(b, new) /\ ready' = Fed!Lines(b, new)
           /\ cuts' = cuts
  <2> HIDE DEF b
  <2> QED
    BY <1>1, <1>6 DEF Fed!WriteInput
<1>8. b \in Seq(1 .. got') /\ Len(b) = m /\ \A k \in 1 .. m : b[k] = base + k
  BY <1>1, <1>5, BytesAre
<1>9. ASSUME NEW i \in 1 .. Len(cuts)
      PROVE  \/ serves' = "kdp" /\ Len(cuts[i]) > Limit
             \/ {k \in 1 .. Len(cuts[i]) : cuts[i][k] \in ends'} = {Len(cuts[i])}
  <2> DEFINE x == cuts[i]
  <2>1. x \in Seq(1 .. got)
    BY <1>1
  <2>2. Whole(x)
    BY <1>4
  <2> HIDE DEF x
  <2>3. \A k \in 1 .. Len(x) : x[k] \in 1 .. got
    BY <1>0, <2>1, Zenon
  <2>4. \A k \in 1 .. Len(x) : x[k] \in ends' <=> x[k] \in ends
    BY <1>2, <2>3
  <2>5. {k \in 1 .. Len(x) : x[k] \in ends'} = {k \in 1 .. Len(x) : x[k] \in ends}
    BY <2>4
  <2> QED
    BY <1>1, <2>2, <2>5 DEF Whole, x
<1>10. cuts \in Seq(Seq(1 .. got'))
  <2>1. \A k \in 1 .. got : k \in 1 .. got'
    BY <1>1
  <2>2. \A x \in Seq(1 .. got) : x \in Seq(1 .. got')
    BY <2>1, SeqGrows, Zenon
  <2> QED
    BY <1>1, <2>2, SeqGrows, Zenon
<1>11. ASSUME NEW q \in Seq(Seq(1 .. got')), cuts' \o ready' = cuts \o q, InOrder(q, base),
              NEW from, from = Behind(q, base, Len(q) + 1),
              \A i \in 1 .. Len(q) :
                \/ serves' = "kdp" /\ Len(q[i]) > Limit
                \/ {k \in 1 .. Len(q[i]) : q[i][k] \in ends'} = {Len(q[i])},
              from + Len(inBuf') = got' /\ inBuf' = Fed!Bytes(from, Len(inBuf')),
              \A k \in 1 .. Len(inBuf') :
                inBuf'[k] \in ends' => serves' = "mcp" /\ k > Limit
       PROVE  FedOrder'
  <2> DEFINE p == cuts \o q
  <2>1. InOrder(p, 0) /\ Behind(p, 0, Len(p) + 1) = from
    BY <1>4, <1>10, <1>11, JoinInOrder DEF base
  <2>2. /\ Len(p) = Len(cuts) + Len(q) /\ Len(cuts) \in Nat /\ Len(q) \in Nat
        /\ \A i \in 1 .. Len(cuts) : p[i] = cuts[i]
        /\ \A i \in 1 .. Len(q) : p[Len(cuts) + i] = q[i]
    BY <1>10
  <2> HIDE DEF p
  <2>3. ASSUME NEW i \in 1 .. Len(p)
        PROVE  \/ serves' = "kdp" /\ Len(p[i]) > Limit
               \/ {k \in 1 .. Len(p[i]) : p[i][k] \in ends'} = {Len(p[i])}
    <3>1. CASE i \in 1 .. Len(cuts)
      BY <1>9, <2>2, <3>1
    <3>2. CASE i \notin 1 .. Len(cuts)
      <4> DEFINE j == i - Len(cuts)
      <4>1. j \in 1 .. Len(q) /\ i = Len(cuts) + j
        BY <2>2, <3>2
      <4> HIDE DEF j
      <4>2. p[i] = q[j]
        BY <2>2, <4>1
      <4> QED
        BY <1>11, <4>1, <4>2
    <3> QED
      BY <3>1, <3>2
  <2>4. cuts' \o ready' = p
    BY <1>11 DEF p
  <2> QED
    BY <1>11, <2>1, <2>3, <2>4 DEF FedOrder, Whole
<1>12. ASSUME serves = "kdp" /\ Len(b) > Limit
       PROVE  /\ ready' \in Seq(Seq(1 .. got')) /\ cuts' \in Seq(Seq(1 .. got'))
              /\ inBuf' \in Seq(1 .. got') /\ FedOrder'
  <2>1. inBuf' = <<>> /\ cuts' = Append(cuts, b) /\ ready' = <<>>
    BY <1>7, <1>12
  <2>2. m > 0 /\ b # <<>>
    BY <1>1, <1>5, <1>8 DEF l, m
  <2> DEFINE q == <<b>>
  <2>3. InOrder(q, base) /\ Behind(q, base, 2) = got'
    <3> HIDE DEF b
    <3>1. Len(q) = 1 /\ q[1] = b
      OBVIOUS
    <3>2. Behind(q, base, 1) = base /\ Behind(q, base, 2) = b[Len(b)]
      BY <3>1 DEF Behind
    <3> QED
      BY <1>5, <1>8, <2>2, <3>1, <3>2 DEF InOrder, b
  <2>4. b \in Seq(1 .. got')
    BY <1>8
  <2> HIDE DEF b
  <2>5. q \in Seq(Seq(1 .. got')) /\ Len(q) = 1 /\ q[1] = b
    BY <2>4
  <2>6. cuts' \o ready' = cuts \o q
    BY <1>10, <2>1, <2>4
  <2>7. /\ ready' \in Seq(Seq(1 .. got')) /\ cuts' \in Seq(Seq(1 .. got'))
        /\ inBuf' \in Seq(1 .. got')
    BY <1>10, <2>1, <2>4
  <2> HIDE DEF q
  <2>8. got' + Len(inBuf') = got' /\ inBuf' = Fed!Bytes(got', Len(inBuf')) /\ Len(inBuf') = 0
    BY <1>1, <2>1 DEF Fed!Bytes
  <2>9. got' = Behind(q, base, Len(q) + 1)
    BY <2>3, <2>5
  <2>10. \A i \in 1 .. Len(q) : serves' = "kdp" /\ Len(q[i]) > Limit
    BY <1>1, <1>12, <2>5
  <2>11. \A k \in 1 .. Len(inBuf') :
           inBuf'[k] \in ends' => serves' = "mcp" /\ k > Limit
    BY <2>8
  <2>12. FedOrder'
    BY <1>11, <2>3, <2>5, <2>6, <2>8, <2>9, <2>10, <2>11, Zenon
  <2> QED
    BY <2>7, <2>12
<1>13. ASSUME ~ (serves = "kdp" /\ Len(b) > Limit)
       PROVE  /\ ready' \in Seq(Seq(1 .. got')) /\ cuts' \in Seq(Seq(1 .. got'))
              /\ inBuf' \in Seq(1 .. got') /\ FedOrder'
  <2> DEFINE ending == {k \in 1 .. m : b[k] \in ends'}
             q == Fed!Lines(b, new)
  <2>1. /\ \A x \in new : x \in ending
        /\ \A x \in new, y \in ending : y <= x => y \in new
        /\ \A y \in ending : y \notin new =>
             serves = "mcp" /\ \A z : z = 0 \/ z \in new => y - z > Limit
    <3> HIDE DEF b, new
    <3> QED
      BY <1>1, <1>5, <1>8, CutsWhereLinesEnd DEF new
  <2> HIDE DEF new
  <2>2. PICK count, e : CutsAt(b, new, count, e)
    <3>1. \A k \in new : k \in 1 .. Len(b)
      BY <1>8, <2>1
    <3>2. Len(b) \in Nat
      BY <1>5, <1>8
    <3> HIDE DEF b, ending, q
    <3> QED
      BY <3>1, <3>2, LinesCut, Zenon
  <2>3. /\ q \in Seq(Seq(1 .. base + m)) /\ Len(q) = count /\ InOrder(q, base)
        /\ \A i \in 1 .. count :
             /\ Len(q[i]) = e[i] - e[i - 1]
             /\ \A k \in 1 .. Len(q[i]) : q[i][k] = base + e[i - 1] + k
        /\ Behind(q, base, count + 1) = base + e[count]
        /\ Fed!Trailer(b, new) = Fed!Bytes(base + e[count], m - e[count])
        /\ e[count] \in 0 .. m
    BY <1>5, <2>2, CutInOrder
  <2>4. count \in Nat /\ \A k \in new : k <= e[count]
    BY <2>2 DEF CutsAt
  <2>5. \A i \in 1 .. count :
          /\ i - 1 \in 0 .. count /\ i \in 0 .. count
          /\ e[i] \in new /\ e[i - 1] < e[i]
          /\ \A k \in new : k <= e[i - 1] \/ e[i] <= k
    BY <2>2, <2>4 DEF CutsAt
  <2>6. \A i \in 0 .. count : e[i] \in 0 .. m
    BY <1>8, <2>2 DEF CutsAt
  <2>7. \A j \in 1 .. m : base + j \in ends' <=> j \in ending
    BY <1>8
  <2> HIDE DEF b, ending, q
  <2>8. ASSUME NEW i \in 1 .. count
        PROVE  {k \in 1 .. Len(q[i]) : q[i][k] \in ends'} = {Len(q[i])}
    <3> DEFINE x == q[i]
               from == e[i - 1]
               to == e[i]
    <3>1. /\ from \in 0 .. m /\ to \in 0 .. m /\ from < to /\ to \in new
          /\ \A k \in new : k <= from \/ to <= k
      BY <2>5, <2>6
    <3>2. Len(x) = to - from /\ \A k \in 1 .. to - from : x[k] = base + from + k
      BY <2>3
    <3> HIDE DEF x, from, to
    <3>3. ASSUME NEW k \in 1 .. Len(x) PROVE x[k] \in ends' <=> from + k \in ending
      <4> DEFINE j == from + k
      <4>1. j \in 1 .. m /\ base + j = base + from + k
        BY <1>5, <3>1, <3>2
      <4>2. x[k] = base + j
        BY <3>2, <4>1
      <4> HIDE DEF j
      <4> QED
        BY <2>7, <4>1, <4>2 DEF j
    <3>4. Len(x) \in 1 .. Len(x) /\ from + Len(x) = to
      BY <3>1, <3>2
    <3>5. x[Len(x)] \in ends'
      BY <2>1, <3>1, <3>3, <3>4
    <3>6. ASSUME NEW k \in 1 .. Len(x), k # Len(x) PROVE x[k] \notin ends'
      <4> DEFINE j == from + k
      <4>1. from < j /\ j < to /\ j \in Nat
        BY <3>1, <3>2, <3>6
      <4>2. to \in Nat /\ from \in Nat
        BY <3>1
      <4> HIDE DEF j
      <4>3. j \notin new
        BY <3>1, <4>1, <4>2
      <4>4. j \notin ending
        BY <2>1, <3>1, <4>1, <4>2, <4>3
      <4> QED
        BY <3>3, <4>4 DEF j
    <3>7. {k \in 1 .. Len(x) : x[k] \in ends'} = {Len(x)}
      BY <3>4, <3>5, <3>6
    <3> QED
      BY <3>7 DEF x
  <2> DEFINE from == base + e[count]
             rest == m - e[count]
  <2>9. from \in Nat /\ rest \in Nat /\ from + rest = got'
    BY <1>5, <2>3
  <2>10. inBuf' = Fed!Bytes(from, rest) /\ ready' = q /\ cuts' = cuts
    BY <1>7, <1>13, <2>3 DEF q
  <2>11. /\ inBuf' \in Seq(1 .. got') /\ Len(inBuf') = rest
         /\ \A k \in 1 .. rest : inBuf'[k] = from + k
    <3> HIDE DEF from, rest
    <3>1. got' \in Nat /\ from + rest <= got'
      BY <1>1, <2>9
    <3> QED
      BY <2>9, <2>10, <3>1, BytesAre
  <2>12. ASSUME NEW k \in 1 .. rest, inBuf'[k] \in ends' PROVE serves' = "mcp" /\ k > Limit
    <3> DEFINE z == e[count]
               j == z + k
    <3>1. z \in 0 .. m /\ (z = 0 \/ z \in new)
      BY <2>2, <2>3, <2>4, <2>5 DEF CutsAt
    <3>2. j \in 1 .. m /\ base + j = from + k
      BY <1>5, <3>1
    <3>3. inBuf'[k] = from + k
      BY <2>11
    <3>4. base + j \in ends'
      BY <2>12, <3>2, <3>3
    <3> HIDE DEF j
    <3>5. j \in ending
      BY <2>7, <3>2, <3>4
    <3>6. \A x \in new : x <= z
      BY <2>4
    <3> HIDE DEF z
    <3>7. j \notin new
      BY <1>5, <3>1, <3>6 DEF j
    <3>8. serves = "mcp" /\ j - z > Limit
      BY <2>1, <3>1, <3>5, <3>7
    <3>9. j - z = k
      BY <3>1 DEF j
    <3> QED
      BY <1>1, <3>8, <3>9
  <2>13. q \in Seq(Seq(1 .. got'))
    BY <1>5, <2>3
  <2>14. cuts' \o ready' = cuts \o q
    BY <2>10
  <2>15. from = Behind(q, base, Len(q) + 1) /\ Len(q) = count /\ InOrder(q, base)
    BY <2>3
  <2> HIDE DEF from
  <2>16. from + Len(inBuf') = got' /\ inBuf' = Fed!Bytes(from, Len(inBuf'))
    BY <2>9, <2>10, <2>11
  <2> HIDE DEF rest
  <2>17. \A k \in 1 .. Len(inBuf') :
           inBuf'[k] \in ends' => serves' = "mcp" /\ k > Limit
    BY <2>11, <2>12
  <2>18. FedOrder'
    BY <1>11, <2>8, <2>13, <2>14, <2>15, <2>16, <2>17, Zenon
  <2> QED
    BY <1>10, <2>10, <2>11, <2>13, <2>18
<1>14. Fed!InputTypeOK'
  <2>1. UNCHANGED <<sessions, closing, listed, stopped, asked, pinged, opened>>
    BY DEF Fed!WriteInput, Fed!held
  <2> QED
    BY <1>1, <1>2, <1>12, <1>13, <2>1 DEF FedInv, Fed!InputTypeOK
<1> QED
  BY <1>12, <1>13, <1>14

(* One step of the reader, of the watchdog or of stop. *)
LEMMA FedStep == FedInv /\ [Fed!Next]_Fed!inputvars => FedInv'
<1> SUFFICES ASSUME FedInv, [Fed!Next]_Fed!inputvars PROVE FedInv'
  OBVIOUS
<1>1. ASSUME NEW n \in 1 .. MaxInput, Fed!WriteInput(n) PROVE FedInv'
  <2>1. FedListed'
    BY <1>1 DEF FedInv, FedListed, Fed!WriteInput, Fed!held
  <2> QED
    BY <1>1, <2>1, WriteStep DEF FedInv
<1>2. ASSUME Fed!Dispatch, UNCHANGED serves,
             \/ UNCHANGED Fed!held
             \/ \E s \in Sessions :
                  \/ Fed!OpenSession(s) \/ Fed!TouchSession(s) \/ Fed!CloseTool(s)
                  \/ Fed!MetaFind(s)
      PROVE  FedInv'
  <2>1. /\ FedOrder' /\ cuts' \in Seq(Seq(1 .. got')) /\ ready' \in Seq(Seq(1 .. got'))
        /\ got' = got /\ ends' = ends /\ inBuf' = inBuf
    BY <1>2, DispatchStep
  <2> USE DEF FedInv, FedListed, Fed!InputTypeOK, Fed!SessionStates, Fed!held, Fed!Open
  <2>2. /\ sessions' \in [Sessions -> Fed!SessionStates]
        /\ closing' \cup listed' \cup asked' \cup pinged' \cup opened' \subseteq Sessions
        /\ stopped' = stopped /\ FedListed'
    <3>1. CASE UNCHANGED Fed!held
      BY <3>1
    <3>2. ASSUME NEW s \in Sessions,
                 \/ Fed!OpenSession(s) \/ Fed!TouchSession(s) \/ Fed!CloseTool(s)
                 \/ Fed!MetaFind(s)
          PROVE  /\ sessions' \in [Sessions -> Fed!SessionStates]
                 /\ closing' \cup listed' \cup asked' \cup pinged' \cup opened'
                      \subseteq Sessions
                 /\ stopped' = stopped /\ FedListed'
      BY <3>2
      DEF Fed!OpenSession, Fed!TouchSession, Fed!CloseTool, Fed!MetaFind, Fed!Close
    <3> QED
      BY <1>2, <3>1, <3>2
  <2> QED
    BY <1>2, <2>1, <2>2
<1>3. ASSUME UNCHANGED <<serves, Fed!stream>>,
             \/ UNCHANGED Fed!held
             \/ \E s \in Sessions : Fed!MetaClose(s) \/ Fed!Ages(s) \/ Fed!Reap(s)
             \/ Fed!ReapLists \/ Fed!Stop \/ Fed!CloseAdapters
      PROVE  FedInv'
  <2>1. /\ serves' = serves /\ got' = got /\ ends' = ends /\ inBuf' = inBuf
        /\ ready' = ready /\ cuts' = cuts
    BY <1>3 DEF Fed!stream
  <2>2. FedOrder'
    BY <2>1 DEF FedInv, FedOrder, Whole
  <2> USE DEF FedInv, FedListed, Fed!InputTypeOK, Fed!SessionStates, Fed!held, Fed!Open
  <2>3. /\ sessions' \in [Sessions -> Fed!SessionStates]
        /\ closing' \cup listed' \cup asked' \cup pinged' \cup opened' \subseteq Sessions
        /\ stopped' \in {"no", "closed", "over"} /\ FedListed'
    <3>1. CASE UNCHANGED Fed!held
      BY <3>1
    <3>2. ASSUME NEW s \in Sessions, Fed!MetaClose(s) \/ Fed!Ages(s) \/ Fed!Reap(s)
          PROVE  /\ sessions' \in [Sessions -> Fed!SessionStates]
                 /\ closing' \cup listed' \cup asked' \cup pinged' \cup opened'
                      \subseteq Sessions
                 /\ stopped' \in {"no", "closed", "over"} /\ FedListed'
      BY <3>2 DEF Fed!MetaClose, Fed!Ages, Fed!Reap, Fed!Close
    <3>3. CASE Fed!ReapLists \/ Fed!Stop \/ Fed!CloseAdapters
      BY <3>3 DEF Fed!ReapLists, Fed!Stop, Fed!CloseAdapters
    <3> QED
      BY <1>3, <3>1, <3>2, <3>3
  <2> QED
    BY <2>1, <2>2, <2>3
<1>4. CASE UNCHANGED Fed!inputvars
  BY <1>3, <1>4 DEF Fed!inputvars
<1>5. ASSUME Fed!Plain \/ Fed!Command PROVE FedInv'
  BY <1>2, <1>5 DEF Fed!Plain, Fed!Command, Fed!Dispatch
<1>6. ASSUME NEW s \in Sessions,
             \/ Fed!OpenSession(s) \/ Fed!TouchSession(s) \/ Fed!CloseTool(s)
             \/ Fed!MetaFind(s)
      PROVE  FedInv'
  <2>1. Fed!Dispatch /\ UNCHANGED serves
    BY <1>6 DEF Fed!OpenSession, Fed!TouchSession, Fed!CloseTool, Fed!MetaFind, Fed!Dispatch
  <2> QED
    BY <1>2, <1>6, <2>1
<1>7. ASSUME NEW s \in Sessions, Fed!MetaClose(s) \/ Fed!Ages(s) \/ Fed!Reap(s)
      PROVE  FedInv'
  <2>1. UNCHANGED <<serves, Fed!stream>>
    BY <1>7 DEF Fed!MetaClose, Fed!Ages, Fed!Reap
  <2> QED
    BY <1>3, <1>7, <2>1
<1>8. ASSUME Fed!ReapLists \/ Fed!Stop \/ Fed!CloseAdapters PROVE FedInv'
  <2>1. UNCHANGED <<serves, Fed!stream>>
    BY <1>8 DEF Fed!ReapLists, Fed!Stop, Fed!CloseAdapters
  <2> QED
    BY <1>3, <1>8, <2>1
<1> QED
  BY <1>1, <1>4, <1>5, <1>6, <1>7, <1>8 DEF Fed!Next

LEMMA FedSafe == HostSpec => []FedInv
<1>1. Fed!Init => FedInv
  <2> SUFFICES ASSUME Fed!Init PROVE FedInv
    OBVIOUS
  <2>1. Fed!InputTypeOK /\ FedListed
    BY HostAssumption
    DEF Fed!InputAssumption, Fed!Init, Fed!InputTypeOK, Fed!SessionStates, FedListed
  <2>2. /\ cuts \o ready = <<>> /\ Len(<<>>) = 0 /\ inBuf = <<>> /\ got = 0
        /\ Behind(<<>>, 0, 1) = 0 /\ InOrder(<<>>, 0) /\ Fed!Bytes(0, 0) = <<>>
    BY DEF Fed!Init, Behind, InOrder, Fed!Bytes
  <2>3. FedOrder
    BY <2>2 DEF FedOrder
  <2> QED
    BY <2>1, <2>3 DEF FedInv
<1> QED
  BY <1>1, FedStep, BehaviourOfEach, PTL DEF Fed!Spec

(* However the frames cut the stream, its lines come out as they went in. *)
THEOREM LinesExactHolds == HostSpec => []LinesExact
<1>1. FedInv => LinesExact
  BY DEF FedInv, FedOrder, InOrder, Behind, Whole, LinesExact, Fed!LinesExact, Fed!Last
<1> QED
  BY <1>1, FedSafe, PTL

(* An active session goes only when it is asked for, or under the conditions the
   property names. *)
THEOREM ActiveKeptHolds == HostSpec => ActiveKept
<1>1. FedInv /\ [Fed!Next]_Fed!inputvars =>
        [\A s \in Sessions : (sessions[s] = "active" /\ sessions'[s] = "gone")
           => s \in asked' \/ s \in pinged \/ stopped = "closed"]_Fed!inputvars
  <2> SUFFICES ASSUME FedInv, Fed!Next, NEW s \in Sessions,
                      sessions[s] = "active", sessions'[s] = "gone"
               PROVE  s \in asked' \/ s \in pinged \/ stopped = "closed"
    OBVIOUS
  <2> USE DEF FedInv, FedListed, Fed!InputTypeOK, Fed!SessionStates, Fed!held, Fed!Close,
              Fed!Open
  <2>1. ASSUME NEW n \in 1 .. MaxInput, Fed!WriteInput(n) PROVE FALSE
    BY <2>1 DEF Fed!WriteInput
  <2>2. ASSUME Fed!Plain \/ Fed!Command PROVE FALSE
    BY <2>2 DEF Fed!Plain, Fed!Command
  <2>3. ASSUME NEW r \in Sessions,
               Fed!OpenSession(r) \/ Fed!TouchSession(r) \/ Fed!MetaFind(r) \/ Fed!Ages(r)
        PROVE  FALSE
    BY <2>3 DEF Fed!OpenSession, Fed!TouchSession, Fed!MetaFind, Fed!Ages
  <2>4. ASSUME NEW r \in Sessions, Fed!CloseTool(r) \/ Fed!MetaClose(r)
        PROVE  s \in asked'
    BY <2>4 DEF Fed!CloseTool, Fed!MetaClose
  <2>5. ASSUME NEW r \in Sessions, Fed!Reap(r) PROVE s \in pinged
    BY <2>5 DEF Fed!Reap
  <2>6. ASSUME Fed!ReapLists \/ Fed!Stop PROVE FALSE
    BY <2>6 DEF Fed!ReapLists, Fed!Stop
  <2>7. ASSUME Fed!CloseAdapters PROVE stopped = "closed"
    BY <2>7 DEF Fed!CloseAdapters
  <2> QED
    BY <2>1, <2>2, <2>3, <2>4, <2>5, <2>6, <2>7 DEF Fed!Next
<1> QED
  BY <1>1, FedSafe, BehaviourOfEach, PTL DEF Fed!Spec, ActiveKept, Fed!ActiveKept
-----------------------------------------------------------------------------
(* agent.toml.                                                             *)

(* A Save writes the fields that are set, each with its value: every line is one
   of them, and each of them has a line. *)
LEMMA RenderedLines ==
  ASSUME Conf!ConfigAssumption, NEW cfg \in Conf!Configs
  PROVE  \E n \in Nat :
           /\ Conf!Rendered(cfg) \in [1 .. n -> Conf!Fields \X Cmds]
           /\ \A i \in 1 .. n : Conf!Rendered(cfg)[i][2] = cfg[Conf!Rendered(cfg)[i][1]]
           /\ \A f \in Conf!Fields : cfg[f] # None =>
                \E i \in 1 .. n : Conf!Rendered(cfg)[i][1] = f
<1> DEFINE set == {k \in DOMAIN Conf!Order : cfg[Conf!Order[k]] # None}
           n == Conf!Cardinality(set)
           rank(k) == Conf!Cardinality({j \in set : j <= k})
           line(i) == CHOOSE k \in set : rank(k) = i
           text == Conf!Rendered(cfg)
<1>1. /\ DOMAIN Conf!Order = 1 .. 6
      /\ \A k \in 1 .. 6 : Conf!Order[k] \in Conf!Fields
      /\ \A f \in Conf!Fields : \E k \in 1 .. 6 : Conf!Order[k] = f
  BY DEF Conf!Order, Conf!Fields
<1>2. text = [i \in 1 .. n |-> <<Conf!Order[line(i)], cfg[Conf!Order[line(i)]]>>]
  BY DEF Conf!Rendered
<1>3. \A k \in set : k \in 1 .. 6 /\ cfg[Conf!Order[k]] \in Cmds
  BY <1>1 DEF Conf!Configs
<1>4. set \in SUBSET Int /\ IsFiniteSet(set)
  <2>1. IsFiniteSet(1 .. 6)
    BY FS_Interval, 1 \in Int, 6 \in Int, Zenon
  <2> QED
    BY <1>3, <2>1, FS_Subset, set \in SUBSET (1 .. 6)
<1>5. \A k \in 1 .. 6 : cfg[Conf!Order[k]] # None => k \in set
  BY <1>1
<1>a. \A S : Conf!Cardinality(S) = Cardinality(S)
  BY DEF Conf!Cardinality, Cardinality
<1> HIDE DEF set
<1>6. n = Cardinality(set) /\ \A k : rank(k) = Cardinality({j \in set : j <= k})
  BY <1>a
<1> HIDE DEF n, rank
<1>7. n \in Nat
  BY <1>4, <1>6, FS_CardinalityType
<1>8. \A i \in 1 .. n : line(i) \in set /\ rank(line(i)) = i
  <2>1. \A i \in 1 .. n : \E k \in set : rank(k) = i
    BY <1>4, <1>6, RankReached
  <2> QED
    BY <2>1
<1>9. \A k \in set : rank(k) \in 1 .. n /\ line(rank(k)) = k
  <2>1. ASSUME NEW k \in set PROVE rank(k) \in 1 .. n
    BY <1>4, <1>6, RankGrows
  <2>2. ASSUME NEW k \in set, NEW l \in set, rank(k) = rank(l) PROVE k = l
    <3>1. k \in Int /\ l \in Int /\ rank(k) \in Int /\ rank(l) \in Int
      BY <1>4, <1>7, <2>1
    <3>2. (k < l => rank(k) < rank(l)) /\ (l < k => rank(l) < rank(k))
      BY <1>4, <1>6, RankGrows
    <3> QED
      BY <2>2, <3>1, <3>2
  <2> HIDE DEF line
  <2> QED
    BY <1>8, <2>1, <2>2
<1> HIDE DEF line, text
<1>10. text \in [1 .. n -> Conf!Fields \X Cmds]
  BY <1>1, <1>2, <1>3, <1>8
<1>11. \A i \in 1 .. n : text[i][2] = cfg[text[i][1]]
  BY <1>2
<1>12. ASSUME NEW f \in Conf!Fields, cfg[f] # None PROVE \E i \in 1 .. n : text[i][1] = f
  <2>1. PICK k \in 1 .. 6 : Conf!Order[k] = f
    BY <1>1
  <2>2. k \in set
    BY <1>5, <1>12, <2>1
  <2>3. rank(k) \in 1 .. n /\ line(rank(k)) = k
    BY <1>9, <2>2
  <2> QED
    BY <1>2, <2>1, <2>3
<1> QED
  BY <1>7, <1>10, <1>11, <1>12 DEF text

(* Of lines that say nothing but what cfg says, each with its value, a reader gets
   a part of cfg: a field it has a line for as it is there, any other empty. *)
LEMMA ParsedOfLines ==
  ASSUME NEW cfg \in Conf!Configs, NEW m \in Nat, NEW text \in [1 .. m -> Conf!Fields \X Cmds],
         \A i \in 1 .. m : text[i][2] = cfg[text[i][1]]
  PROVE  /\ Conf!Parsed(text) \in Conf!Configs
         /\ \A f \in Conf!Fields :
              Conf!Parsed(text)[f] =
                IF \E i \in 1 .. m : text[i][1] = f THEN cfg[f] ELSE None
<1> DEFINE having(f) == {i \in DOMAIN text : text[i][1] = f}
           last(f) == CHOOSE i \in having(f) : \A j \in having(f) : j <= i
<1>1. ASSUME NEW f \in Conf!Fields
      PROVE  Conf!Parsed(text)[f] = IF having(f) = {} THEN None ELSE text[last(f)][2]
  BY DEF Conf!Parsed
<1>2. ASSUME NEW f \in Conf!Fields, having(f) # {}
      PROVE  last(f) \in 1 .. m /\ text[last(f)][1] = f
  <2>1. having(f) \in SUBSET (1 .. m) /\ having(f) \in SUBSET Nat
    OBVIOUS
  <2>2. IsFiniteSet(having(f))
    BY <2>1, FS_Interval, FS_Subset
  <2>3. \E i \in having(f) : \A j \in having(f) : j <= i
    BY <1>2, <2>1, <2>2, GreatestOf
  <2>4. last(f) \in having(f)
    BY <2>3
  <2> QED
    BY <2>1, <2>4
<1> HIDE DEF last
<1>3. ASSUME NEW f \in Conf!Fields
      PROVE  Conf!Parsed(text)[f] = IF \E i \in 1 .. m : text[i][1] = f THEN cfg[f] ELSE None
  BY <1>1, <1>2
<1>4. \A f \in Conf!Fields : Conf!Parsed(text)[f] \in Cmds \cup {None}
  BY <1>3 DEF Conf!Configs
<1>5. Conf!Parsed(text) = [f \in Conf!Fields |-> Conf!Parsed(text)[f]]
  BY DEF Conf!Parsed
<1> QED
  BY <1>3, <1>4, <1>5 DEF Conf!Configs

(* What was written of a Save up to some line parses to a part of what was saved;
   all of it parses to what was saved. *)
LEMMA PrefixParsed ==
  ASSUME Conf!ConfigAssumption, NEW cfg \in Conf!Configs,
         NEW n \in 0 .. Len(Conf!Rendered(cfg))
  PROVE  LET text == SubSeq(Conf!Rendered(cfg), 1, n)
         IN /\ text \in Seq(Conf!Fields \X Cmds)
            /\ Conf!Parsed(text) \in Conf!Configs
            /\ \A f \in Conf!Fields : Conf!Parsed(text)[f] \in {cfg[f], None}
            /\ n = Len(Conf!Rendered(cfg)) => Conf!Parsed(text) = cfg
<1> DEFINE all == Conf!Rendered(cfg)
           text == SubSeq(all, 1, n)
<1>1. PICK m \in Nat :
        /\ all \in [1 .. m -> Conf!Fields \X Cmds]
        /\ \A i \in 1 .. m : all[i][2] = cfg[all[i][1]]
        /\ \A f \in Conf!Fields : cfg[f] # None => \E i \in 1 .. m : all[i][1] = f
  BY RenderedLines, Zenon
<1> HIDE DEF all
<1>2. Len(all) = m /\ all \in Seq(Conf!Fields \X Cmds)
  BY <1>1
<1>3. n \in Nat /\ n <= m
  BY <1>2 DEF all
<1>4. text = [i \in 1 .. n |-> all[i]]
  BY <1>2, <1>3
<1> HIDE DEF text
<1>a. \A i \in 1 .. n : i \in 1 .. m
  BY <1>3
<1>b. \A i \in 1 .. n : all[i] \in Conf!Fields \X Cmds
  BY <1>1, <1>a
<1>5. text \in [1 .. n -> Conf!Fields \X Cmds] /\ \A i \in 1 .. n : text[i] = all[i]
  BY <1>4, <1>b
<1>6. \A i \in 1 .. n : text[i][2] = cfg[text[i][1]]
  BY <1>1, <1>a, <1>5
<1>7. text \in Seq(Conf!Fields \X Cmds)
  BY <1>3, <1>5
<1>8. /\ Conf!Parsed(text) \in Conf!Configs
      /\ \A f \in Conf!Fields :
           Conf!Parsed(text)[f] =
             IF \E i \in 1 .. n : text[i][1] = f THEN cfg[f] ELSE None
  BY <1>3, <1>5, <1>6, ParsedOfLines
<1>9. ASSUME n = m PROVE Conf!Parsed(text) = cfg
  <2>1. \A f \in Conf!Fields : Conf!Parsed(text)[f] = cfg[f]
    BY <1>1, <1>5, <1>8, <1>9
  <2> QED
    BY <1>8, <2>1 DEF Conf!Configs
<1> QED
  BY <1>2, <1>7, <1>8, <1>9 DEF text, all

(* An empty file says nothing. *)
LEMMA EmptyParsed ==
  /\ Conf!Parsed(<<>>) = Conf!Blank /\ Conf!Blank \in Conf!Configs
  /\ ~ Conf!Complete(Conf!Blank)
<1>1. \A f \in Conf!Fields : {i \in DOMAIN <<>> : <<>>[i][1] = f} = {}
  OBVIOUS
<1> QED
  BY <1>1 DEF Conf!Parsed, Conf!Blank, Conf!Configs, Conf!Complete, Conf!Fields

(* Whatever the lines of a file are, each of its fields is empty or was brought by
   a command. *)
LEMMA ParsedOfSome ==
  ASSUME NEW text \in Seq(Conf!Fields \X Cmds)
  PROVE  Conf!Parsed(text) \in Conf!Configs
<1> DEFINE having(f) == {i \in DOMAIN text : text[i][1] = f}
           last(f) == CHOOSE i \in having(f) : \A j \in having(f) : j <= i
<1>1. DOMAIN text = 1 .. Len(text) /\ Len(text) \in Nat
  OBVIOUS
<1>2. ASSUME NEW f \in Conf!Fields, having(f) # {} PROVE text[last(f)][2] \in Cmds
  <2>1. having(f) \in SUBSET (1 .. Len(text)) /\ having(f) \in SUBSET Nat
    BY <1>1
  <2>2. IsFiniteSet(having(f))
    <3>1. IsFiniteSet(1 .. Len(text))
      BY <1>1, FS_Interval
    <3> QED
      BY <2>1, <3>1, FS_Subset
  <2>3. \E i \in having(f) : \A j \in having(f) : j <= i
    BY <1>2, <2>1, <2>2, GreatestOf
  <2>4. last(f) \in having(f)
    BY <2>3
  <2> HIDE DEF last
  <2>5. last(f) \in 1 .. Len(text)
    BY <2>1, <2>4
  <2> QED
    BY <2>5
<1> HIDE DEF last
<1>3. Conf!Parsed(text) =
        [f \in Conf!Fields |-> IF having(f) = {} THEN None ELSE text[last(f)][2]]
  BY DEF Conf!Parsed, last
<1> HIDE DEF having
<1> QED
  BY <1>2, <1>3 DEF Conf!Configs

(* What is left of a sequence behind some place. *)
LEMMA TailOf ==
  ASSUME NEW S, NEW s \in Seq(S), NEW k \in 0 .. Len(s)
  PROVE  SubSeq(s, k + 1, Len(s)) \in Seq(S)
OBVIOUS

(* A command that has not started, or waits for the dock, is not set-agent-id:
   what it does is settled when it starts. *)
ConfSettled ==
  \A c \in Cmds : stage[c] \in {"idle", "posted"} => does[c] # "set"

(* While the file was not changed under a command: a whole file says what was
   saved last; what it says, and what a command is about to save or presents, is
   of one identity; a save is to bring about what its command has in memory; and
   a command that writes has an empty file for itself. *)
ConfWhole ==
  /\ ~ cut => Conf!Parsed(toml) = said
  /\ Conf!Complete(Conf!Parsed(toml)) => Conf!OfOne(Conf!Parsed(toml))
ConfMeant ==
  \A c \in Cmds :
    /\ stage[c] \in {"save", "write", "attached"} => Conf!OfOne(mem[c])
    /\ stage[c] \in {"save", "write"} => goal[c] = mem[c]
ConfWriter ==
  \A c \in Cmds : stage[c] = "write" => toml = <<>> /\ cut /\ Conf!Under(c) = {}

ConfInv ==
  /\ Conf!ConfigTypeOK /\ Conf!Parsed(toml) \in Conf!Configs
  /\ ConfSettled
  /\ ~ tangled => ConfWhole /\ ConfMeant /\ ConfWriter

(* A configuration of one identity stays one while no command stops being a
   set-agent-id. *)
SetStays == \A x \in Cmds : does[x] = "set" => does'[x] = "set"
StillOne(cfg) ==
  \A f \in Conf!Fields :
    \/ cfg[f] \in {cfg["token"], None}
    \/ f \in {"agent_id", "bot_user_id"} /\ does'[cfg[f]] = "set"

LEMMA OfOneStays ==
  ASSUME SetStays, NEW cfg \in Conf!Configs, Conf!OfOne(cfg)
  PROVE  StillOne(cfg)
BY DEF SetStays, StillOne, Conf!OfOne, Conf!Configs

(* Parsed has nothing of the state but the lines. *)
LEMMA ParsedThen == Conf!Parsed(toml)' = Conf!Parsed(toml')
BY DEF Conf!Parsed

LEMMA ParsedSame == toml' = toml => Conf!Parsed(toml)' = Conf!Parsed(toml)
BY DEF Conf!Parsed

(* A command that ends without a change to the file. *)
LEMMA ConfOver ==
  ASSUME ConfInv, NEW c \in Cmds, stage' = [stage EXCEPT ![c] = "over"],
         UNCHANGED <<toml, does, mem, goal, said, cut, tangled>>
  PROVE  ConfInv'
<1>1. Conf!ConfigTypeOK' /\ (Conf!Parsed(toml) \in Conf!Configs)'
  BY ParsedSame DEF ConfInv, Conf!ConfigTypeOK, Conf!Configs
<1>2. ConfSettled'
  BY DEF ConfInv, ConfSettled, Conf!ConfigTypeOK
<1>3. ~ tangled' => ConfWhole'
  BY ParsedSame DEF ConfInv, ConfWhole, Conf!Complete, Conf!OfOne
<1>4. ~ tangled' => ConfMeant'
  BY DEF ConfInv, ConfMeant, Conf!ConfigTypeOK, Conf!OfOne
<1>5. ~ tangled' => ConfWriter'
  BY DEF ConfInv, ConfWriter, Conf!ConfigTypeOK, Conf!Under
<1> QED
  BY <1>1, <1>2, <1>3, <1>4, <1>5 DEF ConfInv

(* A command that has something to save now.  It is of one identity, and what the
   file is to say then; set-agent-id is none while another writes. *)
LEMMA ConfSaves ==
  ASSUME ConfInv, NEW c \in Cmds, stage[c] \in {"idle", "posted"},
         NEW what \in {"login", "register", "set"},
         NEW cfg \in Conf!Configs, NEW then \in Conf!Configs,
         Conf!Saves(c, what, cfg, then),
         ~ tangled => StillOne(cfg) /\ then = cfg,
         ~ tangled /\ what = "set" => \A d \in Cmds : stage[d] # "write"
  PROVE  ConfInv'
<1>0. /\ does' = [does EXCEPT ![c] = what] /\ stage' = [stage EXCEPT ![c] = "save"]
      /\ mem' = [mem EXCEPT ![c] = cfg] /\ goal' = [goal EXCEPT ![c] = then]
      /\ toml' = toml /\ said' = said /\ cut' = cut /\ tangled' = tangled
  BY DEF Conf!Saves
<1>1. Conf!ConfigTypeOK' /\ (Conf!Parsed(toml) \in Conf!Configs)'
  BY <1>0, ParsedSame DEF ConfInv, Conf!ConfigTypeOK, Conf!Configs
<1>2. ConfSettled' /\ SetStays
  BY <1>0 DEF ConfInv, ConfSettled, SetStays, Conf!ConfigTypeOK
<1>3. ~ tangled' => ConfWhole'
  <2>1. Conf!OfOne(Conf!Parsed(toml)) => StillOne(Conf!Parsed(toml))
    BY <1>2, OfOneStays DEF ConfInv
  <2> QED
    BY <1>0, <2>1, ParsedSame DEF ConfInv, ConfWhole, Conf!Complete, Conf!OfOne, StillOne
<1>4. ~ tangled' => ConfMeant'
  <2>1. ASSUME ~ tangled', NEW d \in Cmds
        PROVE  /\ stage'[d] \in {"save", "write", "attached"} => StillOne(mem'[d])
               /\ stage'[d] \in {"save", "write"} => goal'[d] = mem'[d]
    <3>1. CASE d = c
      BY <1>0, <2>1, <3>1 DEF ConfInv, Conf!ConfigTypeOK
    <3>2. CASE d # c
      <4>1. stage'[d] = stage[d] /\ mem'[d] = mem[d] /\ goal'[d] = goal[d]
        BY <1>0, <3>2 DEF ConfInv, Conf!ConfigTypeOK
      <4>2. mem[d] \in Conf!Configs
        BY DEF ConfInv, Conf!ConfigTypeOK
      <4> QED
        BY <1>0, <1>2, <2>1, <4>1, <4>2, OfOneStays DEF ConfInv, ConfMeant
    <3> QED
      BY <3>1, <3>2
  <2> QED
    BY <2>1 DEF ConfMeant, Conf!OfOne, StillOne
<1>5. ~ tangled' => ConfWriter'
  BY <1>0 DEF ConfInv, ConfWriter, Conf!ConfigTypeOK, Conf!Under
<1> QED
  BY <1>1, <1>2, <1>3, <1>4, <1>5 DEF ConfInv

(* What a command brings itself is of one identity. *)
LEMMA GivenOne ==
  ASSUME NEW c \in Cmds, NEW fields, "token" \in fields
  PROVE  Conf!Given(c, fields) \in Conf!Configs /\ StillOne(Conf!Given(c, fields))
BY DEF Conf!Given, Conf!Configs, StillOne, Conf!Fields

LEMMA ConfGiven ==
  ASSUME ConfInv, NEW c \in Cmds,
         Conf!Login(c) \/ Conf!Answered(c)
  PROVE  ConfInv'
<1>1. \E what \in {"login", "register"} : \E fields :
        /\ "token" \in fields
        /\ Conf!Saves(c, what, Conf!Given(c, fields), Conf!Given(c, fields))
  BY DEF Conf!Login, Conf!Answered
<1>2. stage[c] \in {"idle", "posted"}
  BY DEF Conf!Login, Conf!Answered
<1> QED
  BY <1>1, <1>2, GivenOne, ConfSaves

(* set-agent-id saves what a file held that was whole, with its own ids. *)
LEMMA ConfSetAgentID ==
  ASSUME ConfInv, NEW c \in Cmds, Conf!SetAgentID(c)
  PROVE  ConfInv'
<1>1. PICK new \in {{"agent_id"}, {"agent_id", "bot_user_id"}} :
        LET On(cfg) == [f \in Conf!Fields |-> IF f \in new THEN c ELSE cfg[f]]
        IN Conf!Saves(c, "set", On(Conf!Parsed(toml)),
                      On(IF cut THEN Conf!Parsed(toml) ELSE said))
  BY DEF Conf!SetAgentID
<1> DEFINE On(cfg) == [f \in Conf!Fields |-> IF f \in new THEN c ELSE cfg[f]]
           now == Conf!Parsed(toml)
           then == IF cut THEN Conf!Parsed(toml) ELSE said
<1>2. stage[c] = "idle" /\ Conf!Complete(now)
  BY DEF Conf!SetAgentID
<1>3. now \in Conf!Configs /\ then \in Conf!Configs
  BY DEF ConfInv, Conf!ConfigTypeOK
<1>4. ~ tangled => then = now /\ Conf!OfOne(now)
  BY <1>2 DEF ConfInv, ConfWhole
<1>5. Conf!Saves(c, "set", On(now), On(then))
  BY <1>1
<1>6. ASSUME ~ tangled, NEW d \in Cmds PROVE stage[d] # "write"
  BY <1>2, <1>6, EmptyParsed DEF ConfInv, ConfWriter
<1> HIDE DEF now, then
<1>7. On(now) \in Conf!Configs /\ On(then) \in Conf!Configs
  BY <1>3 DEF Conf!Configs
<1>8. /\ \A x \in Cmds : does[x] = "set" => does'[x] = "set"
      /\ does'[c] = "set"
  BY <1>5 DEF Conf!Saves, ConfInv, Conf!ConfigTypeOK
<1>9. Conf!OfOne(now) => StillOne(On(now))
  <2>1. Conf!OfOne(now) => StillOne(now)
    BY <1>3, <1>8, OfOneStays DEF SetStays
  <2>2. /\ \A f \in Conf!Fields \ new : On(now)[f] = now[f]
        /\ \A f \in new : f \in {"agent_id", "bot_user_id"} /\ On(now)[f] = c
        /\ "token" \in Conf!Fields \ new
    BY DEF Conf!Fields
  <2> HIDE DEF On
  <2> QED
    BY <1>8, <2>1, <2>2 DEF StillOne
<1>10. ~ tangled => StillOne(On(now)) /\ On(then) = On(now)
  BY <1>4, <1>9
<1> HIDE DEF On
<1> QED
  BY <1>2, <1>5, <1>6, <1>7, <1>10, ConfSaves

LEMMA ConfRegister ==
  ASSUME ConfInv, NEW c \in Cmds, Conf!Register(c)
  PROVE  ConfInv'
<1>0. /\ does' = [does EXCEPT ![c] = "register"] /\ stage' = [stage EXCEPT ![c] = "posted"]
      /\ UNCHANGED <<toml, mem, goal, said, cut, tangled>> /\ stage[c] = "idle"
  BY DEF Conf!Register
<1>1. Conf!ConfigTypeOK' /\ (Conf!Parsed(toml) \in Conf!Configs)'
  BY <1>0, ParsedSame DEF ConfInv, Conf!ConfigTypeOK, Conf!Configs
<1>2. ConfSettled' /\ SetStays
  BY <1>0 DEF ConfInv, ConfSettled, SetStays, Conf!ConfigTypeOK
<1>3. ~ tangled' => ConfWhole'
  <2>1. Conf!OfOne(Conf!Parsed(toml)) => StillOne(Conf!Parsed(toml))
    BY <1>2, OfOneStays DEF ConfInv
  <2> QED
    BY <1>0, <2>1, ParsedSame DEF ConfInv, ConfWhole, Conf!Complete, Conf!OfOne, StillOne
<1>4. ~ tangled' => ConfMeant'
  <2>1. ASSUME NEW d \in Cmds PROVE mem[d] \in Conf!Configs
    BY DEF ConfInv, Conf!ConfigTypeOK
  <2>2. \A d \in Cmds : Conf!OfOne(mem[d]) => StillOne(mem[d])
    BY <1>2, <2>1, OfOneStays
  <2> QED
    BY <1>0, <2>2 DEF ConfInv, ConfMeant, Conf!OfOne, StillOne, Conf!ConfigTypeOK
<1>5. ~ tangled' => ConfWriter'
  BY <1>0 DEF ConfInv, ConfWriter, Conf!ConfigTypeOK, Conf!Under
<1> QED
  BY <1>1, <1>2, <1>3, <1>4, <1>5 DEF ConfInv

(* attach has what a file held that was whole. *)
LEMMA ConfAttach ==
  ASSUME ConfInv, NEW c \in Cmds, Conf!Attach(c)
  PROVE  ConfInv'
<1>0. /\ does' = [does EXCEPT ![c] = "attach"] /\ stage' = [stage EXCEPT ![c] = "attached"]
      /\ mem' = [mem EXCEPT ![c] = Conf!Parsed(toml)]
      /\ UNCHANGED <<toml, goal, said, cut, tangled>>
      /\ stage[c] = "idle" /\ Conf!Complete(Conf!Parsed(toml))
  BY DEF Conf!Attach
<1>1. Conf!ConfigTypeOK' /\ (Conf!Parsed(toml) \in Conf!Configs)'
  BY <1>0, ParsedSame DEF ConfInv, Conf!ConfigTypeOK, Conf!Configs
<1>2. ConfSettled' /\ SetStays
  BY <1>0 DEF ConfInv, ConfSettled, SetStays, Conf!ConfigTypeOK
<1>a. Conf!OfOne(Conf!Parsed(toml)) => StillOne(Conf!Parsed(toml))
  BY <1>2, OfOneStays DEF ConfInv
<1>3. ~ tangled' => ConfWhole'
  BY <1>0, <1>a, ParsedSame DEF ConfInv, ConfWhole, Conf!Complete, Conf!OfOne, StillOne
<1>4. ~ tangled' => ConfMeant'
  <2>1. ASSUME NEW d \in Cmds PROVE mem[d] \in Conf!Configs
    BY DEF ConfInv, Conf!ConfigTypeOK
  <2>2. \A d \in Cmds : Conf!OfOne(mem[d]) => StillOne(mem[d])
    BY <1>2, <2>1, OfOneStays
  <2>3. mem'[c] = Conf!Parsed(toml) /\ stage'[c] = "attached"
    BY <1>0 DEF ConfInv, Conf!ConfigTypeOK
  <2>4. \A d \in Cmds \ {c} : mem'[d] = mem[d] /\ stage'[d] = stage[d]
    BY <1>0 DEF ConfInv, Conf!ConfigTypeOK
  <2>5. ASSUME ~ tangled', NEW d \in Cmds
        PROVE  /\ stage'[d] \in {"save", "write", "attached"} => StillOne(mem'[d])
               /\ stage'[d] \in {"save", "write"} => goal'[d] = mem'[d]
    BY <1>0, <1>a, <2>2, <2>3, <2>4, <2>5 DEF ConfInv, ConfWhole, ConfMeant
  <2> QED
    BY <2>5 DEF ConfMeant, Conf!OfOne, StillOne
<1>5. ~ tangled' => ConfWriter'
  BY <1>0 DEF ConfInv, ConfWriter, Conf!ConfigTypeOK, Conf!Under
<1> QED
  BY <1>1, <1>2, <1>3, <1>4, <1>5 DEF ConfInv

(* The file is emptied: unless there are others under it, the command has it for
   itself from here. *)
LEMMA ConfTruncate ==
  ASSUME ConfInv, NEW c \in Cmds, Conf!Truncate(c)
  PROVE  ConfInv'
<1>0. /\ stage[c] = "save" /\ stage' = [stage EXCEPT ![c] = "write"]
      /\ toml' = <<>> /\ cut' = TRUE /\ tangled' = (tangled \/ Conf!Under(c) # {})
      /\ UNCHANGED <<does, mem, goal, said>>
  BY DEF Conf!Truncate
<1>1. Conf!ConfigTypeOK' /\ (Conf!Parsed(toml) \in Conf!Configs)'
  <2>1. Conf!Parsed(toml') \in Conf!Configs
    BY <1>0, EmptyParsed
  <2>2. tangled' \in BOOLEAN /\ cut' \in BOOLEAN
    BY <1>0, Zenon
  <2> QED
    BY <1>0, <2>1, <2>2 DEF ConfInv, Conf!ConfigTypeOK, Conf!Configs, Conf!Parsed
<1>2. ConfSettled'
  BY <1>0 DEF ConfInv, ConfSettled, Conf!ConfigTypeOK
<1>3. ConfWhole'
  <2>1. cut' /\ ~ Conf!Complete(Conf!Parsed(toml'))
    BY <1>0, EmptyParsed
  <2> QED
    BY <2>1 DEF ConfWhole, Conf!Parsed, Conf!Complete
<1>4. ~ tangled' => ~ tangled /\ Conf!Under(c) = {}
  BY <1>0, Zenon
<1>5. ~ tangled' => ConfMeant'
  BY <1>0, <1>4 DEF ConfInv, ConfMeant, Conf!ConfigTypeOK, Conf!OfOne
<1>6. ~ tangled' => ConfWriter'
  <2> SUFFICES ASSUME ~ tangled', NEW d \in Cmds, stage'[d] = "write"
               PROVE  toml' = <<>> /\ cut' /\ Conf!Under(d)' = {}
    BY DEF ConfWriter
  <2>1. d = c
    BY <1>0, <1>4 DEF ConfInv, Conf!ConfigTypeOK, Conf!Under
  <2> QED
    BY <1>0, <1>4, <2>1 DEF ConfInv, Conf!ConfigTypeOK, Conf!Under
<1> QED
  BY <1>1, <1>2, <1>3, <1>5, <1>6 DEF ConfInv

(* What a command writes that has an empty file for itself is a part of what it
   has in memory, and all of it when it writes all. *)
LEMMA ConfWrites ==
  ASSUME ConfInv, Conf!ConfigAssumption, NEW c \in Cmds,
         NEW n \in 0 .. Len(Conf!Rendered(mem[c])),
         stage[c] = "write", stage' = [stage EXCEPT ![c] = "over"],
         Conf!Over(c, n),
         tangled' = (tangled \/ Conf!Under(c) # {}),
         UNCHANGED <<does, mem, goal>>,
         \/ UNCHANGED <<said, cut>>
         \/ n = Len(Conf!Rendered(mem[c])) /\ said' = goal[c] /\ cut' = FALSE
  PROVE  ConfInv'
<1> DEFINE text == SubSeq(Conf!Rendered(mem[c]), 1, n)
<1>1. mem[c] \in Conf!Configs /\ goal[c] \in Conf!Configs
  BY DEF ConfInv, Conf!ConfigTypeOK
<1>2. /\ text \in Seq(Conf!Fields \X Cmds)
      /\ Conf!Parsed(text) \in Conf!Configs
      /\ \A f \in Conf!Fields : Conf!Parsed(text)[f] \in {mem[c][f], None}
      /\ n = Len(Conf!Rendered(mem[c])) => Conf!Parsed(text) = mem[c]
  BY <1>1, PrefixParsed
<1> HIDE DEF text
<1>3. PICK k \in 0 .. Len(toml) : toml' = text \o SubSeq(toml, k + 1, Len(toml))
  BY DEF Conf!Over, text
<1>4. toml' \in Seq(Conf!Fields \X Cmds)
  <2>1. toml \in Seq(Conf!Fields \X Cmds)
    BY DEF ConfInv, Conf!ConfigTypeOK
  <2>2. SubSeq(toml, k + 1, Len(toml)) \in Seq(Conf!Fields \X Cmds)
    BY <2>1, TailOf
  <2> QED
    BY <1>2, <1>3, <2>2
<1>5. tangled' \in BOOLEAN /\ (~ tangled' => ~ tangled /\ Conf!Under(c) = {})
  BY Zenon
<1>6. Conf!ConfigTypeOK'
  BY <1>1, <1>4, <1>5 DEF ConfInv, Conf!ConfigTypeOK, Conf!Configs
<1>7. (Conf!Parsed(toml) \in Conf!Configs)'
  <2>1. Conf!Parsed(toml') \in Conf!Configs
    BY <1>4, ParsedOfSome
  <2> QED
    BY <2>1 DEF Conf!Parsed, Conf!Configs
<1>8. ConfSettled'
  BY DEF ConfInv, ConfSettled, Conf!ConfigTypeOK
<1>9. ASSUME ~ tangled' PROVE toml = <<>> /\ cut /\ toml' = text
  <2>1. toml = <<>> /\ cut
    BY <1>5, <1>9 DEF ConfInv, ConfWriter
  <2>2. SubSeq(toml, k + 1, Len(toml)) = <<>>
    BY <2>1
  <2> QED
    BY <1>2, <1>3, <2>1, <2>2
<1>10. ~ tangled' => ConfWhole'
  <2> SUFFICES ASSUME ~ tangled' PROVE ConfWhole'
    OBVIOUS
  <2>1. goal[c] = mem[c] /\ Conf!OfOne(mem[c]) /\ cut
    BY <1>5 DEF ConfInv, ConfMeant, ConfWriter
  <2>2. ~ cut' => Conf!Parsed(toml') = said'
    BY <1>2, <1>9, <2>1
  <2>3. Conf!Complete(Conf!Parsed(toml')) => StillOne(Conf!Parsed(toml'))
    <3> DEFINE read == Conf!Parsed(text)
    <3>1. Conf!Complete(read) => read["token"] = mem[c]["token"]
      BY <1>2 DEF Conf!Complete, Conf!Fields
    <3> HIDE DEF read
    <3>2. \A f \in Conf!Fields : read[f] \in {mem[c][f], None}
      BY <1>2 DEF read
    <3>3. Conf!Complete(read) => StillOne(read)
      BY <2>1, <3>1, <3>2 DEF StillOne, Conf!OfOne
    <3> QED
      BY <1>9, <3>3 DEF read
  <2> QED
    BY <2>2, <2>3, ParsedThen DEF ConfWhole, Conf!Complete, Conf!OfOne, StillOne
<1>11. ~ tangled' => ConfMeant'
  BY <1>5 DEF ConfInv, ConfMeant, Conf!ConfigTypeOK, Conf!OfOne
<1>12. ~ tangled' => ConfWriter'
  BY <1>5 DEF ConfInv, ConfWriter, Conf!ConfigTypeOK, Conf!Under
<1> QED
  BY <1>6, <1>7, <1>8, <1>10, <1>11, <1>12 DEF ConfInv

LEMMA ConfStep == ConfInv /\ [Conf!Next]_Conf!confvars => ConfInv'
<1> SUFFICES ASSUME ConfInv, [Conf!Next]_Conf!confvars PROVE ConfInv'
  OBVIOUS
<1>0. Conf!ConfigAssumption
  BY HostAssumption
<1>1. ASSUME NEW c \in Cmds,
             Conf!Refuse(c) \/ Conf!Unanswered(c) \/ Conf!OpenFails(c) \/ Conf!Dies(c)
      PROVE  ConfInv'
  BY <1>1, ConfOver DEF Conf!Refuse, Conf!Unanswered, Conf!OpenFails, Conf!Dies
<1>2. ASSUME NEW c \in Cmds, Conf!Write(c) \/ Conf!WriteCut(c) PROVE ConfInv'
  <2>1. Len(Conf!Rendered(mem[c])) \in Nat
    <3>1. mem[c] \in Conf!Configs
      BY DEF ConfInv, Conf!ConfigTypeOK
    <3> QED
      BY <1>0, <3>1, RenderedLines
  <2>2. \E n \in 0 .. Len(Conf!Rendered(mem[c])) :
          /\ Conf!Over(c, n)
          /\ \/ UNCHANGED <<said, cut>>
             \/ n = Len(Conf!Rendered(mem[c])) /\ said' = goal[c] /\ cut' = FALSE
    BY <1>2, <2>1 DEF Conf!Write, Conf!WriteCut
  <2> QED
    BY <1>0, <1>2, <2>2, ConfWrites DEF Conf!Write, Conf!WriteCut
<1>3. CASE UNCHANGED Conf!confvars
  BY <1>3, ParsedSame
  DEF Conf!confvars, ConfInv, Conf!ConfigTypeOK, ConfSettled, ConfWhole, ConfMeant,
      ConfWriter, Conf!Complete, Conf!OfOne, Conf!Under, Conf!Configs
<1> QED
  BY <1>1, <1>2, <1>3, ConfGiven, ConfSetAgentID, ConfRegister, ConfAttach, ConfTruncate
  DEF Conf!Next

(* So the invariant holds at every moment. *)
LEMMA ConfSafe == HostSpec => []ConfInv
<1>1. Conf!Init => ConfInv
  <2> SUFFICES ASSUME Conf!Init PROVE ConfInv
    OBVIOUS
  <2>1. Conf!Parsed(toml) = Conf!Blank /\ Conf!Parsed(toml) \in Conf!Configs
    BY EmptyParsed DEF Conf!Init
  <2>2. Conf!ConfigTypeOK
    <3>1. Conf!Blank \in Conf!Configs
      BY EmptyParsed
    <3>2. toml = <<>> /\ cut \in BOOLEAN /\ tangled \in BOOLEAN
      BY Zenon DEF Conf!Init
    <3>3. toml \in Seq(Conf!Fields \X Cmds)
      BY <3>2
    <3> QED
      BY <3>1, <3>2, <3>3 DEF Conf!Init, Conf!ConfigTypeOK
  <2>3. ConfSettled /\ ConfMeant /\ ConfWriter
    BY DEF Conf!Init, ConfSettled, ConfMeant, ConfWriter
  <2>4. ConfWhole
    BY <2>1, EmptyParsed DEF Conf!Init, ConfWhole
  <2> QED
    BY <2>1, <2>2, <2>3, <2>4 DEF ConfInv
<1> QED
  BY <1>1, ConfStep, BehaviourOfEach, PTL DEF Conf!Spec

(* Unless one command saved under another, the file holds the identity saved last,
   and no hello presents a token with the ids of another registration: for any
   commands, any answers of a dock, any cuts and any order of them. *)
THEOREM OneIdentityHolds == HostSpec => []OneIdentity
<1>1. ConfInv => OneIdentity
  BY DEF ConfInv, ConfWhole, ConfMeant, OneIdentity, Conf!OneIdentity
<1> QED
  BY <1>1, ConfSafe, PTL

-----------------------------------------------------------------------------
(* Types.                                                                  *)

(* Every variable keeps its type, in every component HostState follows: for any
   frames, ids and packages, tasks and keys, starts and names, images, amounts of
   input, and commands. *)
THEOREM TypesCorrect ==
  HostSpec => [](/\ TypeOK /\ Store!TypeOK /\ Blob!TypeOK /\ Auth!TypeOK
                 /\ Held!HandlesTypeOK /\ Fed!InputTypeOK /\ Conf!ConfigTypeOK)
<1>1. /\ (StoreInv => Store!TypeOK) /\ (BlobTyped => Blob!TypeOK) /\ (AuthInv => Auth!TypeOK)
      /\ (HeldInv => Held!HandlesTypeOK) /\ (FedInv => Fed!InputTypeOK)
      /\ (ConfInv => Conf!ConfigTypeOK)
  BY DEF StoreInv, BlobTyped, AuthInv, HeldInv, FedInv, ConfInv
<1>2. HostSpec => /\ []StoreInv /\ []BlobTyped /\ []AuthInv /\ []HeldInv /\ []FedInv /\ []ConfInv
  BY StoreSafe, BlobTypesSafe, AuthSafe, HeldSafe, FedSafe, ConfSafe
<1>3. HostSpec => []TypeOK
  BY RouteTypesCorrect, BehaviourOfEach
<1> QED
  BY <1>1, <1>2, <1>3, PTL
=============================================================================
