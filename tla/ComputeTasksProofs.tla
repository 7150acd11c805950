------------------------- MODULE ComputeTasksProofs -------------------------
(***************************************************************************)
(* TLAPS proofs about ComputeTasks, for every finite set of tasks and      *)
(* every number of slots, sessions and faults: the slots are accounted     *)
(* for, and from that follows what the dock may believe this agent runs.   *)
(***************************************************************************)
EXTENDS ComputeTasks, FiniteSetTheorems, TLAPS

(* Who holds a claimed task: the loop whose claim reply it is, of a session that
   was opened. *)
RepliesInv ==
  /\ \A l \in Loops : l > session => pc[l] = "off"
  /\ \A l \in Loops : reply[l] # NoTask <=> pc[l] = "found"
  /\ \A l \in Loops : reply[l] # NoTask => task[reply[l]] = "claimed"
  /\ \A t \in Tasks : task[t] = "claimed" => \E l \in Loops : reply[l] = t

(* The slots follow from the two sets they are spent on, so the type of slots is
   a consequence. *)
TypeButSlots ==
  /\ connected \in BOOLEAN
  /\ session \in 0..MaxSessions
  /\ task \in [Tasks -> TaskStates]
  /\ pc \in [Loops -> Labels]
  /\ reply \in [Loops -> Tasks \cup {NoTask}]
  /\ wake \in BOOLEAN
  /\ draining \in BOOLEAN
  /\ slots \in Int
  /\ faults \in 0..MaxFaults

SlotCap == slots <= MaxParallel

IInv == TypeButSlots /\ SingleDrain /\ RepliesInv /\ SlotAccounting /\ SlotCap

-----------------------------------------------------------------------------
(* The sets whose sizes are compared are finite. *)
LEMMA Finite ==
  /\ IsFiniteSet(Occupants) /\ Cardinality(Occupants) \in Nat
  /\ IsFiniteSet(Claiming) /\ Cardinality(Claiming) \in Nat
<1>1. IsFiniteSet(Tasks) /\ IsFiniteSet(Loops)
  BY ComputeAssumption, FS_Interval DEF Loops
<1>2. Occupants \in SUBSET Tasks /\ Claiming \in SUBSET Loops
  BY DEF Occupants, Claiming
<1>3. IsFiniteSet(Occupants) /\ IsFiniteSet(Claiming)
  BY <1>1, <1>2, FS_Subset
<1> QED
  BY <1>3, FS_CardinalityType

(* Every step but for the slots. *)
LEMMA TypeButSlotsStep ==
  TypeButSlots /\ RepliesInv /\ [Next]_vars => TypeButSlots'
<1> SUFFICES ASSUME TypeButSlots, RepliesInv, [Next]_vars PROVE TypeButSlots'
  OBVIOUS
<1>0. /\ {"off", "entry", "select", "gone", "top", "claim", "found", "empty"}
           \subseteq Labels
      /\ {"queued", "claimed", "running", "reporting", "done", "lost"}
           \subseteq TaskStates
  BY DEF Labels, Draining, TaskStates
<1> USE <1>0 DEF TypeButSlots
<1>1. CASE Connect
  <2>1. session' \in 0..MaxSessions
    BY <1>1, ComputeAssumption DEF Connect
  <2>2. connected' \in BOOLEAN
    BY <1>1 DEF Connect
  <2> QED
    BY <1>1, <2>1, <2>2 DEF Connect
<1>2. CASE Disconnect \/ Wake
  BY <1>2 DEF Disconnect, Wake, sessionVars
<1>3. ASSUME NEW t \in Tasks, Enqueue(t) \/ HandlerEnds(t) PROVE TypeButSlots'
  BY <1>3 DEF Enqueue, HandlerEnds, sessionVars
<1>4. ASSUME NEW t \in Tasks, Report(t) PROVE TypeButSlots'
  BY <1>4, ComputeAssumption DEF Report, sessionVars
<1>5. ASSUME NEW l \in Loops, TakeWake(l) \/ Tick(l) \/ LoopEnds(l)
      PROVE TypeButSlots'
  BY <1>5 DEF TakeWake, Tick, LoopEnds, sessionVars
<1>6. ASSUME NEW l \in Loops, EnterBusy(l) \/ EnterDrain(l) \/ LeaveDrain(l)
      PROVE TypeButSlots'
  BY <1>6 DEF EnterBusy, EnterDrain, LeaveDrain, sessionVars
<1>7. ASSUME NEW l \in Loops, Acquire(l) \/ ServeEmpty(l) \/ GotEmpty(l)
      PROVE TypeButSlots'
  <2>1. slots' \in Int
    BY <1>7 DEF Acquire, ServeEmpty, GotEmpty
  <2> QED
    BY <1>7, <2>1 DEF Acquire, ServeEmpty, GotEmpty, sessionVars
<1>8. ASSUME NEW l \in Loops, ClaimFails(l) PROVE TypeButSlots'
  <2>1. slots' \in Int /\ faults' \in 0..MaxFaults
    BY <1>8, ComputeAssumption DEF ClaimFails, Fault
  <2>2. task' \in [Tasks -> TaskStates]
    BY <1>8 DEF ClaimFails
  <2> QED
    BY <1>8, <2>1, <2>2 DEF ClaimFails, sessionVars
<1>9. ASSUME NEW l \in Loops, StartTask(l) PROVE TypeButSlots'
  BY <1>9 DEF StartTask, sessionVars
<1>10. ASSUME NEW l \in Loops, NEW t \in Tasks, ServeTask(l, t) PROVE TypeButSlots'
  BY <1>10 DEF ServeTask, sessionVars
<1>11. CASE UNCHANGED vars
  BY <1>11 DEF vars
<1> QED
  BY <1>1, <1>2, <1>3, <1>4, <1>5, <1>6, <1>7, <1>8, <1>9, <1>10, <1>11 DEF Next

(* The flag goes up and down with the one loop that is in the drain. *)
LEMMA SingleDrainStep ==
  TypeButSlots /\ RepliesInv /\ SingleDrain /\ [Next]_vars => SingleDrain'
<1> SUFFICES ASSUME TypeButSlots, RepliesInv, SingleDrain, [Next]_vars
             PROVE SingleDrain'
  OBVIOUS
<1> USE DEF TypeButSlots, SingleDrain, Labels, Draining, sessionVars
<1>1. CASE Connect
  BY <1>1, ComputeAssumption DEF Connect, RepliesInv, Loops
<1>2. CASE Disconnect \/ Wake
  BY <1>2 DEF Disconnect, Wake
<1>3. ASSUME NEW t \in Tasks
      PROVE Enqueue(t) \/ HandlerEnds(t) \/ Report(t) => SingleDrain'
  BY DEF Enqueue, HandlerEnds, Report
<1>4. ASSUME NEW l \in Loops
      PROVE TakeWake(l) \/ Tick(l) \/ LoopEnds(l) \/ EnterBusy(l) => SingleDrain'
  BY DEF TakeWake, Tick, LoopEnds, EnterBusy
<1>5. ASSUME NEW l \in Loops PROVE EnterDrain(l) \/ LeaveDrain(l) => SingleDrain'
  BY DEF EnterDrain, LeaveDrain
<1>6. ASSUME NEW l \in Loops
      PROVE Acquire(l) \/ ServeEmpty(l) \/ StartTask(l) => SingleDrain'
  BY DEF Acquire, ServeEmpty, StartTask
<1>7. ASSUME NEW l \in Loops PROVE GotEmpty(l) \/ ClaimFails(l) => SingleDrain'
  BY DEF GotEmpty, ClaimFails
<1>8. ASSUME NEW l \in Loops, NEW t \in Tasks PROVE ServeTask(l, t) => SingleDrain'
  BY DEF ServeTask
<1>9. CASE UNCHANGED vars
  BY <1>9 DEF vars
<1> QED
  BY <1>1, <1>2, <1>3, <1>4, <1>5, <1>6, <1>7, <1>8, <1>9 DEF Next

(* A reply is consumed by the loop that got it. *)
LEMMA RepliesStep ==
  TypeButSlots /\ SingleDrain /\ RepliesInv /\ [Next]_vars => RepliesInv'
<1> SUFFICES ASSUME TypeButSlots, SingleDrain, RepliesInv, [Next]_vars
             PROVE RepliesInv'
  OBVIOUS
<1> USE DEF TypeButSlots, RepliesInv, Labels, Draining, sessionVars
<1>1. CASE Connect
  BY <1>1, ComputeAssumption DEF Connect, Loops
<1>2. CASE Disconnect \/ Wake
  BY <1>2 DEF Disconnect, Wake
<1>3. ASSUME NEW t \in Tasks
      PROVE Enqueue(t) \/ HandlerEnds(t) \/ Report(t) => RepliesInv'
  BY ComputeAssumption DEF Enqueue, HandlerEnds, Report
<1>4. ASSUME NEW l \in Loops
      PROVE TakeWake(l) \/ Tick(l) \/ LoopEnds(l) \/ EnterBusy(l) => RepliesInv'
  BY DEF TakeWake, Tick, LoopEnds, EnterBusy
<1>5. ASSUME NEW l \in Loops
      PROVE EnterDrain(l) \/ LeaveDrain(l) \/ Acquire(l) => RepliesInv'
  BY DEF EnterDrain, LeaveDrain, Acquire
<1>6. ASSUME NEW l \in Loops PROVE ServeEmpty(l) \/ GotEmpty(l) => RepliesInv'
  BY DEF ServeEmpty, GotEmpty
<1>7. ASSUME NEW l \in Loops PROVE StartTask(l) => RepliesInv'
  BY ComputeAssumption DEF StartTask, SingleDrain
<1>8. ASSUME NEW l \in Loops PROVE ClaimFails(l) => RepliesInv'
  BY ComputeAssumption DEF ClaimFails, SingleDrain
<1>9. ASSUME NEW l \in Loops, NEW t \in Tasks PROVE ServeTask(l, t) => RepliesInv'
  BY ComputeAssumption DEF ServeTask, SingleDrain
<1>10. CASE UNCHANGED vars
  BY <1>10 DEF vars
<1> QED
  BY <1>1, <1>2, <1>3, <1>4, <1>5, <1>6, <1>7, <1>8, <1>9, <1>10 DEF Next

-----------------------------------------------------------------------------
(* A slot is taken when a loop begins to claim, moves with the task to its
   goroutine, and is given back when that ends or there is no task. *)
LEMMA SlotStep ==
  TypeButSlots /\ RepliesInv /\ SlotAccounting /\ [Next]_vars => SlotAccounting'
<1> SUFFICES ASSUME TypeButSlots, RepliesInv, SlotAccounting, [Next]_vars
             PROVE SlotAccounting'
  OBVIOUS
<1> USE DEF TypeButSlots, SlotAccounting
<1>0. /\ IsFiniteSet(Occupants) /\ Cardinality(Occupants) \in Nat
      /\ IsFiniteSet(Claiming) /\ Cardinality(Claiming) \in Nat
  BY Finite
<1>1. ASSUME slots' = slots, Occupants' = Occupants, Claiming' = Claiming
      PROVE SlotAccounting'
  BY <1>1
<1>2. CASE Connect
  <2>1. Claiming' = Claiming
    BY <1>2, ComputeAssumption DEF Connect, Claiming, RepliesInv, Loops
  <2> QED
    BY <1>1, <1>2, <2>1 DEF Connect, Occupants
<1>3. CASE Disconnect \/ Wake
  BY <1>1, <1>3 DEF Disconnect, Wake, Occupants, Claiming
<1>4. ASSUME NEW t \in Tasks, Enqueue(t) \/ HandlerEnds(t) PROVE SlotAccounting'
  <2>1. Occupants' = Occupants
    BY <1>4 DEF Enqueue, HandlerEnds, Occupants
  <2> QED
    BY <1>1, <1>4, <2>1 DEF Enqueue, HandlerEnds, Claiming
<1>5. ASSUME NEW t \in Tasks, Report(t) PROVE SlotAccounting'
  <2>1. Occupants' = Occupants \ {t} /\ t \in Occupants
    BY <1>5 DEF Report, Occupants
  <2>2. Claiming' = Claiming /\ slots' = slots - 1
    BY <1>5 DEF Report, Claiming
  <2>3. Cardinality(Occupants') = Cardinality(Occupants) - 1
    BY <1>0, <2>1, FS_RemoveElement
  <2> QED
    BY <1>0, <2>2, <2>3
<1>6. ASSUME NEW l \in Loops,
             \/ TakeWake(l) \/ Tick(l) \/ LoopEnds(l)
             \/ EnterBusy(l) \/ EnterDrain(l) \/ LeaveDrain(l) \/ ServeEmpty(l)
      PROVE SlotAccounting'
  <2>1. Claiming' = Claiming
    BY <1>6 DEF TakeWake, Tick, LoopEnds, EnterBusy, EnterDrain, LeaveDrain,
                ServeEmpty, Claiming
  <2> QED
    BY <1>1, <1>6, <2>1 DEF TakeWake, Tick, LoopEnds, EnterBusy, EnterDrain,
                            LeaveDrain, ServeEmpty, Occupants
<1>7. ASSUME NEW l \in Loops, Acquire(l) PROVE SlotAccounting'
  <2>1. Claiming' = Claiming \cup {l} /\ l \notin Claiming
    BY <1>7 DEF Acquire, Claiming
  <2>2. Occupants' = Occupants /\ slots' = slots + 1
    BY <1>7 DEF Acquire, Occupants
  <2>3. Cardinality(Claiming') = Cardinality(Claiming) + 1
    BY <1>0, <2>1, FS_AddElement
  <2> QED
    BY <1>0, <2>2, <2>3
<1>8. ASSUME NEW l \in Loops, ClaimFails(l) PROVE SlotAccounting'
  <2>1. Claiming' = Claiming \ {l} /\ l \in Claiming
    BY <1>8 DEF ClaimFails, Claiming
  <2>2. Occupants' = Occupants
    BY <1>8, ComputeAssumption DEF ClaimFails, Occupants, RepliesInv
  <2>3. slots' = slots - 1
    BY <1>8 DEF ClaimFails
  <2>4. Cardinality(Claiming') = Cardinality(Claiming) - 1
    BY <1>0, <2>1, FS_RemoveElement
  <2> QED
    BY <1>0, <2>2, <2>3, <2>4
<1>9. ASSUME NEW l \in Loops, GotEmpty(l) PROVE SlotAccounting'
  <2>1. Claiming' = Claiming \ {l} /\ l \in Claiming
    BY <1>9 DEF GotEmpty, Claiming
  <2>2. Occupants' = Occupants /\ slots' = slots - 1
    BY <1>9 DEF GotEmpty, Occupants
  <2>3. Cardinality(Claiming') = Cardinality(Claiming) - 1
    BY <1>0, <2>1, FS_RemoveElement
  <2> QED
    BY <1>0, <2>2, <2>3
<1>10. ASSUME NEW l \in Loops, StartTask(l) PROVE SlotAccounting'
  <2>1. Claiming' = Claiming \ {l} /\ l \in Claiming
    BY <1>10 DEF StartTask, Claiming
  <2>2. reply[l] \in Tasks /\ task[reply[l]] = "claimed"
    BY <1>10 DEF StartTask, RepliesInv
  <2>3. Occupants' = Occupants \cup {reply[l]} /\ reply[l] \notin Occupants
    BY <1>10, <2>2 DEF StartTask, Occupants
  <2>4. slots' = slots
    BY <1>10 DEF StartTask
  <2>5. Cardinality(Claiming') = Cardinality(Claiming) - 1
    BY <1>0, <2>1, FS_RemoveElement
  <2>6. Cardinality(Occupants') = Cardinality(Occupants) + 1
    BY <1>0, <2>3, FS_AddElement
  <2> QED
    BY <1>0, <2>4, <2>5, <2>6
<1>11. ASSUME NEW l \in Loops, NEW t \in Tasks, ServeTask(l, t) PROVE SlotAccounting'
  <2>1. Claiming' = Claiming
    BY <1>11 DEF ServeTask, Claiming
  <2>2. Occupants' = Occupants
    BY <1>11 DEF ServeTask, Occupants
  <2> QED
    BY <1>1, <1>11, <2>1, <2>2 DEF ServeTask
<1>12. CASE UNCHANGED vars
  BY <1>1, <1>12 DEF vars, Occupants, Claiming
<1> QED
  BY <1>2, <1>3, <1>4, <1>5, <1>6, <1>7, <1>8, <1>9, <1>10, <1>11, <1>12 DEF Next

(* Only Acquire takes a slot, and it looks first. *)
LEMMA SlotCapStep == TypeButSlots /\ SlotCap /\ [Next]_vars => SlotCap'
<1> SUFFICES ASSUME TypeButSlots, SlotCap, [Next]_vars PROVE SlotCap'
  OBVIOUS
<1>1. slots \in Int /\ slots <= MaxParallel /\ MaxParallel \in Nat
  BY ComputeAssumption DEF TypeButSlots, SlotCap
<1>2. \/ slots' = slots \/ slots' = slots - 1
      \/ slots < MaxParallel /\ slots' = slots + 1
  <2>1. ASSUME Connect \/ Disconnect \/ Wake PROVE slots' = slots
    BY <2>1 DEF Connect, Disconnect, Wake
  <2>5. ASSUME UNCHANGED vars PROVE slots' = slots
    BY <2>5 DEF vars
  <2>2. ASSUME NEW t \in Tasks, Enqueue(t) \/ HandlerEnds(t) \/ Report(t)
        PROVE slots' = slots \/ slots' = slots - 1
    BY <2>2 DEF Enqueue, HandlerEnds, Report
  <2>3. ASSUME NEW l \in Loops,
               \/ TakeWake(l) \/ Tick(l) \/ LoopEnds(l)
               \/ EnterBusy(l) \/ EnterDrain(l) \/ LeaveDrain(l)
               \/ ServeEmpty(l) \/ ClaimFails(l) \/ GotEmpty(l) \/ StartTask(l)
               \/ \E t \in Tasks : ServeTask(l, t)
        PROVE slots' = slots \/ slots' = slots - 1
    BY <2>3 DEF TakeWake, Tick, LoopEnds, EnterBusy, EnterDrain, LeaveDrain,
       ServeEmpty, ServeTask, ClaimFails, GotEmpty, StartTask
  <2>4. ASSUME NEW l \in Loops, Acquire(l)
        PROVE slots < MaxParallel /\ slots' = slots + 1
    BY <2>4 DEF Acquire
  <2> QED
    BY <2>1, <2>2, <2>3, <2>4, <2>5 DEF Next
<1> QED
  BY <1>1, <1>2 DEF SlotCap

(* Before the first session there is no drain and no slot is taken. *)
LEMMA InitIInv == Init => IInv
<1> SUFFICES ASSUME Init PROVE IInv
  OBVIOUS
<1>1. TypeButSlots
  <2>1. "new" \in TaskStates /\ "off" \in Labels
    BY DEF TaskStates, Labels
  <2>2. session \in 0..MaxSessions /\ slots \in Int /\ faults \in 0..MaxFaults
    BY ComputeAssumption DEF Init
  <2> QED
    BY <2>1, <2>2 DEF Init, TypeButSlots
<1>2. SingleDrain /\ RepliesInv
  BY DEF Init, SingleDrain, RepliesInv, Draining
<1>3. Occupants = {} /\ Claiming = {}
  BY DEF Init, Occupants, Claiming
<1>4. SlotAccounting
  BY <1>3, FS_EmptySet DEF Init, SlotAccounting
<1>5. SlotCap
  BY ComputeAssumption DEF Init, SlotCap
<1> QED
  BY <1>1, <1>2, <1>4, <1>5 DEF IInv

(* The inductive invariant of the drains and the slots. *)
LEMMA Inductive == Spec => []IInv
<1>1. IInv /\ [Next]_vars => IInv'
  BY TypeButSlotsStep, SingleDrainStep, RepliesStep, SlotStep, SlotCapStep
  DEF IInv
<1> QED
  BY <1>1, InitIInv, PTL DEF Spec

(* Type correctness of the queue; the slots in use are never below zero or more
   than there are. *)
THEOREM TypeCorrect == Spec => []TypeOK
<1>1. ASSUME IInv PROVE TypeOK
  <2>1. slots \in 0..MaxParallel
    BY <1>1, Finite, ComputeAssumption
    DEF IInv, TypeButSlots, SlotAccounting, SlotCap
  <2> QED
    BY <1>1, <2>1 DEF IInv, TypeButSlots, TypeOK
<1> QED
  BY <1>1, Inductive, PTL

(* At most one of the loops that overlap after a reconnect is in the drain, and
   the flag says so. *)
THEOREM SingleDrainHolds == Spec => []SingleDrain
BY Inductive, PTL DEF IInv

(* No slot leaks or is freed twice: what is taken is what claims and runs. *)
THEOREM SlotAccountingHolds == Spec => []SlotAccounting
BY Inductive, PTL DEF IInv

(* What the dock believes this agent runs is never more than its slots: the one
   task that is claimed and not yet running has the slot of the loop that claimed
   it. *)
THEOREM NoBacklogHolds == Spec => []NoBacklog
<1>1. ASSUME IInv PROVE NoBacklog
  <2> DEFINE Held == {t \in Tasks : task[t] = "claimed"}
  <2> USE DEF IInv
  <2>1. slots = Cardinality(Occupants) + Cardinality(Claiming)
        /\ slots <= MaxParallel /\ MaxParallel \in Nat /\ slots \in Int
    BY <1>1, ComputeAssumption DEF SlotAccounting, SlotCap, TypeButSlots
  <2>2. CASE Held = {}
    <3>1. Backlog = Occupants
      BY <2>2 DEF Occupants, Backlog
    <3> QED
      BY <3>1, <2>1, Finite DEF NoBacklog
  <2>3. CASE Held # {}
    <3>1. PICK t \in Tasks : task[t] = "claimed"
      BY <2>3
    <3>2. PICK l \in Loops : reply[l] = t
      BY <1>1, <3>1 DEF RepliesInv
    <3>3. l \in Claiming
      BY <1>1, <3>1, <3>2, ComputeAssumption DEF RepliesInv, Claiming
    <3>4. Held = {t}
      <4>1. ASSUME NEW u \in Tasks, task[u] = "claimed" PROVE u = t
        <5>1. PICK m \in Loops : reply[m] = u
          BY <1>1, <4>1 DEF RepliesInv
        <5>2. pc[m] = "found" /\ pc[l] = "found"
          BY <1>1, <3>1, <3>2, <4>1, <5>1, ComputeAssumption DEF RepliesInv
        <5> QED
          BY <1>1, <3>2, <5>1, <5>2 DEF SingleDrain, Draining
      <4> QED
        BY <3>1, <4>1
    <3>5. Backlog = Occupants \cup {t} /\ t \notin Occupants
      BY <3>1, <3>4 DEF Occupants, Backlog
    <3>6. Cardinality(Backlog) = Cardinality(Occupants) + 1
      BY <3>5, Finite, FS_AddElement
    <3>7. Cardinality(Claiming) # 0
      BY <3>3, Finite, FS_EmptySet
    <3> QED
      BY <2>1, <3>6, <3>7, Finite DEF NoBacklog
  <2> QED
    BY <2>2, <2>3
<1> QED
  BY <1>1, Inductive, PTL

-----------------------------------------------------------------------------
(* The loops that hold a task in a reply of a session that ended. *)
Doomed == {l \in Loops : pc[l] = "found" /\ ~CtxLive(l)}

(* LossBound leaves room for a task that is about to be lost: a claim is served
   while its session is live, so its end accounts for the one reply it dooms. *)
LossInv ==
  /\ Cardinality(Lost) <= faults + Ended
  /\ Doomed # {} => Cardinality(Lost) < faults + Ended

(* The numbers compared are numbers. *)
LEMMA Numbers ==
  ASSUME TypeButSlots
  PROVE  /\ IsFiniteSet(Lost) /\ Cardinality(Lost) \in Nat
         /\ faults \in Nat /\ session \in Nat /\ Ended \in Int
<1>1. Lost \in SUBSET Tasks
  BY DEF Lost
<1>2. IsFiniteSet(Lost)
  BY <1>1, ComputeAssumption, FS_Subset
<1>3. faults \in Nat /\ session \in Nat
  BY ComputeAssumption DEF TypeButSlots
<1> QED
  BY <1>2, <1>3, FS_CardinalityType DEF Ended

(* Every step but those that lose a task. *)
LEMMA LossKept ==
  ASSUME TypeButSlots, TypeButSlots', LossInv, Lost' = Lost, Doomed' \subseteq Doomed,
         faults' >= faults, Ended' = Ended
  PROVE  LossInv'
<1>1. /\ Cardinality(Lost) \in Nat /\ Ended \in Int /\ faults \in Nat
      /\ faults' \in Nat
  BY Numbers, ComputeAssumption DEF TypeButSlots
<1>2. Cardinality(Lost') = Cardinality(Lost)
  OBVIOUS
<1> QED
  BY <1>1, <1>2 DEF LossInv

(* One step of the account of losses. *)
LEMMA LossStep == IInv /\ IInv' /\ LossInv /\ [Next]_vars => LossInv'
<1> SUFFICES ASSUME IInv, IInv', LossInv, [Next]_vars PROVE LossInv'
  OBVIOUS
<1>0. /\ TypeButSlots /\ TypeButSlots' /\ SingleDrain /\ RepliesInv
      /\ IsFiniteSet(Lost) /\ Cardinality(Lost) \in Nat
      /\ faults \in Nat /\ Ended \in Int
  BY Numbers DEF IInv
<1>a. ASSUME NEW t \in Tasks, Lost' = Lost \cup {t}
      PROVE Cardinality(Lost') \in {Cardinality(Lost), Cardinality(Lost) + 1}
  BY <1>0, <1>a, FS_AddElement
<1>1. CASE Connect
  <2>1. Lost' = Lost /\ faults' = faults
    BY <1>1 DEF Connect, Lost
  <2>2. Ended' = Ended
    BY <1>0, <1>1, Numbers DEF Connect, Ended
  <2>3. Doomed' \subseteq Doomed
    <3> SUFFICES ASSUME NEW l \in Loops, pc'[l] = "found" PROVE l \in Doomed
      BY DEF Doomed
    <3>1. pc[l] = "found"
      BY <1>0, <1>1 DEF Connect, TypeButSlots
    <3> QED
      BY <1>1, <3>1 DEF Connect, Doomed, CtxLive
  <2> QED
    BY <1>0, <2>1, <2>2, <2>3, LossKept
<1>2. CASE Disconnect
  <2>1. Lost' = Lost /\ faults' = faults
    BY <1>2 DEF Disconnect, Lost
  <2>2. Ended' = Ended + 1
    BY <1>0, <1>2, Numbers DEF Disconnect, Ended
  <2> QED
    BY <1>0, <2>1, <2>2, Numbers DEF LossInv
<1>3. CASE Wake
  BY <1>0, <1>3, LossKept DEF Wake, sessionVars, Lost, Doomed, Ended, CtxLive
<1>4. ASSUME NEW t \in Tasks, Enqueue(t) \/ HandlerEnds(t) PROVE LossInv'
  <2>1. Lost' = Lost
    BY <1>0, <1>4 DEF Enqueue, HandlerEnds, Lost, TypeButSlots
  <2> QED
    BY <1>0, <1>4, <2>1, LossKept
    DEF Enqueue, HandlerEnds, sessionVars, Doomed, Ended, CtxLive
<1>5. ASSUME NEW t \in Tasks, Report(t) PROVE LossInv'
  <2>1. Doomed' = Doomed /\ Ended' = Ended
    BY <1>5 DEF Report, sessionVars, Doomed, Ended, CtxLive
  <2>2. CASE faults' = faults /\ task' = [task EXCEPT ![t] = "done"]
    <3>1. Lost' = Lost
      BY <1>0, <1>5, <2>2 DEF Report, Lost, TypeButSlots
    <3> QED
      BY <1>0, <2>1, <2>2, <3>1, LossKept
  <2>3. CASE faults' = faults + 1 /\ task' = [task EXCEPT ![t] = "lost"]
    <3>1. Lost' = Lost \cup {t}
      BY <1>0, <2>3 DEF Lost, TypeButSlots
    <3>2. Cardinality(Lost') \in {Cardinality(Lost), Cardinality(Lost) + 1}
      BY <1>a, <3>1
    <3> QED
      BY <1>0, <2>1, <2>3, <3>2 DEF LossInv
  <2> QED
    BY <1>5, <2>2, <2>3 DEF Report
<1>6. ASSUME NEW l \in Loops,
             \/ TakeWake(l) \/ Tick(l) \/ LoopEnds(l)
             \/ EnterBusy(l) \/ EnterDrain(l) \/ LeaveDrain(l)
             \/ Acquire(l) \/ ServeEmpty(l) \/ GotEmpty(l)
      PROVE LossInv'
  <2>1. /\ task' = task /\ faults' = faults
        /\ connected' = connected /\ session' = session
        /\ \A m \in Loops : pc'[m] = "found" => pc[m] = "found"
    BY <1>0, <1>6 DEF TakeWake, Tick, LoopEnds, EnterBusy, EnterDrain, LeaveDrain,
       Acquire, ServeEmpty, GotEmpty, sessionVars, TypeButSlots
  <2> QED
    BY <1>0, <2>1, LossKept DEF Lost, Doomed, Ended, CtxLive
<1>7. ASSUME NEW l \in Loops, ClaimFails(l) PROVE LossInv'
  <2>1. Ended' = Ended /\ Doomed' \subseteq Doomed \ {l}
    BY <1>0, <1>7 DEF ClaimFails, sessionVars, Ended, Doomed, CtxLive, TypeButSlots
  <2>2. CASE reply[l] = NoTask
    <3>1. Lost' = Lost
      BY <1>0, <1>7, <2>2, ComputeAssumption DEF ClaimFails, Lost, TypeButSlots
    <3>2. faults' >= faults
      BY <1>0, <1>7 DEF ClaimFails, Fault
    <3> QED
      BY <1>0, <2>1, <3>1, <3>2, LossKept
  <2>3. CASE reply[l] # NoTask
    <3>1. pc[l] = "found" /\ reply[l] \in Tasks
      BY <1>0, <2>3 DEF RepliesInv, TypeButSlots
    <3>2. Lost' = Lost \cup {reply[l]}
      BY <1>0, <1>7, <3>1 DEF ClaimFails, Lost, TypeButSlots
    <3>3. Cardinality(Lost') \in {Cardinality(Lost), Cardinality(Lost) + 1}
      BY <1>a, <3>1, <3>2
    <3>4. CASE CtxLive(l)
      <4>1. faults' = faults + 1
        BY <1>7, <3>4 DEF ClaimFails, Fault
      <4> QED
        BY <1>0, <2>1, <3>3, <4>1 DEF LossInv
    <3>5. CASE ~CtxLive(l)
      <4>1. l \in Doomed /\ faults' = faults
        BY <1>7, <3>1, <3>5 DEF ClaimFails, Fault, Doomed
      <4>2. Doomed = {l}
        BY <1>0, <3>1, <4>1 DEF Doomed, SingleDrain, Draining
      <4>3. Doomed' = {}
        BY <2>1, <4>2
      <4> QED
        BY <1>0, <2>1, <3>3, <4>1, <4>3 DEF LossInv
    <3> QED
      BY <3>4, <3>5
  <2> QED
    BY <2>2, <2>3
<1>8. ASSUME NEW l \in Loops, StartTask(l) PROVE LossInv'
  <2>1. reply[l] \in Tasks /\ task[reply[l]] = "claimed"
    BY <1>0, <1>8, ComputeAssumption DEF StartTask, RepliesInv, TypeButSlots
  <2>2. Lost' = Lost
    BY <1>0, <1>8, <2>1 DEF StartTask, Lost, TypeButSlots
  <2>3. Doomed' \subseteq Doomed
    BY <1>0, <1>8 DEF StartTask, sessionVars, Doomed, CtxLive, TypeButSlots
  <2>4. Ended' = Ended /\ faults' = faults
    BY <1>8 DEF StartTask, sessionVars, Ended
  <2> QED
    BY <1>0, <2>2, <2>3, <2>4, LossKept
<1>9. ASSUME NEW l \in Loops, NEW t \in Tasks, ServeTask(l, t) PROVE LossInv'
  <2>1. Lost' = Lost
    BY <1>0, <1>9 DEF ServeTask, Lost, TypeButSlots
  <2>2. Doomed' \subseteq Doomed
    BY <1>0, <1>9 DEF ServeTask, sessionVars, Doomed, CtxLive, TypeButSlots
  <2>3. Ended' = Ended /\ faults' = faults
    BY <1>9 DEF ServeTask, sessionVars, Ended
  <2> QED
    BY <1>0, <2>1, <2>2, <2>3, LossKept
<1>10. CASE UNCHANGED vars
  BY <1>0, <1>10, LossKept DEF vars, Lost, Doomed, Ended, CtxLive
<1> QED
  BY <1>1, <1>2, <1>3, <1>4, <1>5, <1>6, <1>7, <1>8, <1>9, <1>10 DEF Next

(* At first nothing was lost and no session had ended. *)
LEMMA NothingEnded == Init => Lost = {} /\ faults = 0 /\ Ended = 0
<1> SUFFICES ASSUME Init PROVE Lost = {} /\ faults = 0 /\ Ended = 0
  OBVIOUS
<1>1. ~connected /\ session = 0 /\ faults = 0 /\ Lost = {}
  BY DEF Init, Lost
<1>2. (IF connected THEN 1 ELSE 0) = 0
  BY <1>1, Zenon
<1>3. Ended = session - 0
  BY <1>2, Zenon DEF Ended
<1> QED
  BY <1>1, <1>3

LEMMA LossHolds == Spec => []LossInv
<1>1. Init => LossInv
  <2>1. Init => Doomed = {}
    BY DEF Init, Doomed
  <2> QED
    BY <2>1, NothingEnded, FS_EmptySet DEF LossInv
<1> QED
  BY <1>1, Inductive, LossStep, PTL DEF Spec

(* A failed request or the end of a session loses at most one task each, and
   nothing else loses one. *)
THEOREM LossBoundHolds == Spec => []LossBound
<1>1. TypeButSlots /\ LossInv => LossBound
  BY Numbers DEF LossInv, LossBound
<1> QED
  BY <1>1, Inductive, LossHolds, PTL DEF IInv

-----------------------------------------------------------------------------
(* The ledger. *)

(* What a step may change of it. *)
Waiting == {t \in Tasks : task[t] = "queued"}
Answered == {t \in Tasks : task[t] = "done"}
Owed == faults + Ended - Cardinality(Lost)

(* A loop that is about to claim has a slot for what it may get: no other loop has
   a task in its reply. *)
LEMMA RoomToTake ==
  ASSUME IInv, NEW l \in Loops, pc[l] = "claim"
  PROVE  Cardinality(Backlog) < MaxParallel
<1>1. \A t \in Tasks : task[t] # "claimed"
  BY ComputeAssumption DEF IInv, RepliesInv, SingleDrain, Draining
<1>2. Backlog = Occupants
  BY <1>1 DEF Backlog, Occupants
<1>3. Cardinality(Claiming) # 0
  <2>1. l \in Claiming
    BY DEF Claiming
  <2> QED
    BY <2>1, Finite, FS_EmptySet
<1> QED
  BY <1>2, <1>3, Finite, ComputeAssumption
  DEF IInv, SlotAccounting, SlotCap, TypeButSlots

LEMMA OwedIsNat ==
  ASSUME TypeButSlots, LossInv
  PROVE  Owed \in Nat /\ (Doomed # {} => Owed > 0)
BY Numbers DEF Owed, LossInv

(* A step that moves no task and has no outage is none of the ledger. *)
LEMMA LedgerRests ==
  ASSUME task' = task, faults' = faults, Ended' = Ended
  PROVE  UNCHANGED Ledger!vars
BY DEF Ledger!vars, Backlog, Lost

(* A task is given up in one step of the ledger, for an outage before or now. *)
LEMMA LedgerGivesUp ==
  ASSUME TypeButSlots, LossInv, NEW t \in Backlog, task' = [task EXCEPT ![t] = "lost"],
         Ended' = Ended,
         \/ faults' = faults + 1
         \/ faults' = faults /\ Doomed # {}
  PROVE  Ledger!GiveUp(t)
<1>1. /\ t \in Tasks /\ t \notin Lost
      /\ Lost' = Lost \cup {t} /\ Backlog' = Backlog \ {t}
      /\ Waiting' = Waiting /\ Answered' = Answered
  BY DEF TypeButSlots, Backlog, Lost, Waiting, Answered
<1>2. /\ Cardinality(Lost') = Cardinality(Lost) + 1
      /\ Cardinality(Lost) \in Nat /\ faults \in Nat /\ Ended \in Int
  BY <1>1, Numbers, FS_AddElement
<1>3. Owed \in Nat /\ (Doomed # {} => Owed > 0)
  BY OwedIsNat
<1>4. \E n \in {Owed, Owed + 1} : n > 0 /\ Owed' = n - 1
  <2>1. CASE faults' = faults + 1
    BY <1>2, <1>3, <2>1 DEF Owed
  <2>2. CASE faults' = faults /\ Doomed # {}
    BY <1>2, <1>3, <2>2 DEF Owed
  <2> QED
    BY <2>1, <2>2
<1> QED
  BY <1>1, <1>4 DEF Ledger!GiveUp, Owed, Waiting, Answered

(* Every step of the queue is one of the ledger or none. *)
LEMMA LedgerStep ==
  IInv /\ IInv' /\ LossInv /\ [Next]_vars => [Ledger!Next]_(Ledger!vars)
<1> SUFFICES ASSUME IInv, IInv', LossInv, [Next]_vars PROVE [Ledger!Next]_(Ledger!vars)
  OBVIOUS
<1>0. /\ TypeButSlots /\ SingleDrain /\ RepliesInv
      /\ IsFiniteSet(Lost) /\ Cardinality(Lost) \in Nat
      /\ faults \in Nat /\ session \in Nat /\ Ended \in Int
  BY Numbers DEF IInv
<1>1. CASE Connect
  <2>1. Ended' = Ended
    BY <1>0, <1>1 DEF Connect, Ended
  <2> QED
    BY <1>1, <2>1, LedgerRests DEF Connect
<1>2. CASE Disconnect
  <2>1. Ended' = Ended + 1
    BY <1>0, <1>2 DEF Disconnect, Ended
  <2>2. Lost' = Lost /\ Backlog' = Backlog /\ Waiting' = Waiting /\ Answered' = Answered
    BY <1>2 DEF Disconnect, Lost, Backlog, Waiting, Answered
  <2>3. Owed' = Owed + 1
    BY <1>0, <1>2, <2>1, <2>2 DEF Disconnect, Owed
  <2>4. Ledger!Outage
    BY <2>2, <2>3 DEF Ledger!Outage, Owed, Waiting, Answered
  <2> QED
    BY <2>4 DEF Ledger!Next
<1>3. CASE Wake
  BY <1>3, LedgerRests DEF Wake, sessionVars, Ended
<1>4. ASSUME NEW t \in Tasks, Enqueue(t) PROVE Ledger!Submit(t)
  <2>1. /\ Waiting' = Waiting \cup {t} /\ Lost' = Lost
        /\ Backlog' = Backlog /\ Answered' = Answered
        /\ t \notin Waiting \cup Backlog \cup Answered \cup Lost
    BY <1>0, <1>4 DEF TypeButSlots, Enqueue, Waiting, Lost, Backlog, Answered
  <2>2. Owed' = Owed
    BY <1>4, <2>1 DEF Enqueue, sessionVars, Owed, Ended
  <2> QED
    BY <2>1, <2>2 DEF Ledger!Submit, Owed, Waiting, Answered
<1>5. ASSUME NEW t \in Tasks, HandlerEnds(t) PROVE UNCHANGED Ledger!vars
  <2>1. /\ Waiting' = Waiting /\ Lost' = Lost
        /\ Backlog' = Backlog /\ Answered' = Answered
    BY <1>0, <1>5 DEF TypeButSlots, HandlerEnds, Waiting, Lost, Backlog, Answered
  <2>2. Owed' = Owed
    BY <1>5, <2>1 DEF HandlerEnds, sessionVars, Owed, Ended
  <2> QED
    BY <2>1, <2>2 DEF Ledger!vars, Owed, Waiting, Answered
<1>6. ASSUME NEW t \in Tasks, Report(t) PROVE Ledger!Answer(t) \/ Ledger!GiveUp(t)
  <2>1. t \in Backlog /\ Ended' = Ended
    BY <1>6 DEF Report, Backlog, Ended, sessionVars
  <2>2. CASE faults' = faults /\ task' = [task EXCEPT ![t] = "done"]
    <3>1. /\ Waiting' = Waiting /\ Lost' = Lost
          /\ Backlog' = Backlog \ {t} /\ Answered' = Answered \cup {t}
      BY <1>0, <1>6, <2>2 DEF TypeButSlots, Report, Waiting, Lost, Backlog, Answered
    <3>2. Owed' = Owed
      BY <2>1, <2>2, <3>1 DEF Owed
    <3> QED
      BY <2>1, <3>1, <3>2 DEF Ledger!Answer, Owed, Waiting, Answered
  <2>3. CASE faults' = faults + 1 /\ task' = [task EXCEPT ![t] = "lost"]
    BY <1>0, <2>1, <2>3, LedgerGivesUp
  <2> QED
    BY <1>6, <2>2, <2>3 DEF Report
<1>7. ASSUME NEW l \in Loops,
             \/ TakeWake(l) \/ Tick(l) \/ LoopEnds(l)
             \/ EnterBusy(l) \/ EnterDrain(l) \/ LeaveDrain(l)
             \/ Acquire(l) \/ ServeEmpty(l) \/ GotEmpty(l)
      PROVE UNCHANGED Ledger!vars
  <2>1. task' = task /\ faults' = faults /\ UNCHANGED sessionVars
    BY <1>7 DEF TakeWake, Tick, LoopEnds, EnterBusy, EnterDrain, LeaveDrain,
       Acquire, ServeEmpty, GotEmpty
  <2> QED
    BY <2>1, LedgerRests DEF Ended, sessionVars
<1>8. ASSUME NEW l \in Loops, ClaimFails(l) PROVE [Ledger!Next]_(Ledger!vars)
  <2>1. Ended' = Ended
    BY <1>8 DEF ClaimFails, sessionVars, Ended
  <2>2. CASE reply[l] = NoTask
    <3>1. task' = task
      BY <1>0, <1>8, <2>2, ComputeAssumption DEF ClaimFails, TypeButSlots
    <3>2. CASE faults' = faults
      BY <2>1, <3>1, <3>2, LedgerRests
    <3>3. CASE faults' = faults + 1
      <4>1. /\ Lost' = Lost /\ Backlog' = Backlog
            /\ Waiting' = Waiting /\ Answered' = Answered
        BY <3>1 DEF Lost, Backlog, Waiting, Answered
      <4>2. Owed' = Owed + 1
        BY <1>0, <2>1, <3>3, <4>1 DEF Owed
      <4>3. Ledger!Outage
        BY <4>1, <4>2 DEF Ledger!Outage, Owed, Waiting, Answered
      <4> QED
        BY <4>3 DEF Ledger!Next
    <3> QED
      BY <1>8, <3>2, <3>3 DEF ClaimFails, Fault
  <2>3. CASE reply[l] # NoTask
    <3>1. reply[l] \in Tasks /\ task[reply[l]] = "claimed" /\ pc[l] = "found"
      BY <1>0, <2>3 DEF RepliesInv, TypeButSlots
    <3>2. reply[l] \in Backlog
      BY <3>1 DEF Backlog
    <3>3. task' = [task EXCEPT ![reply[l]] = "lost"]
      BY <1>0, <1>8, <3>1 DEF ClaimFails, TypeButSlots
    <3>4. faults' = faults + 1 \/ (faults' = faults /\ Doomed # {})
      BY <1>8, <3>1 DEF ClaimFails, Fault, Doomed
    <3>5. Ledger!GiveUp(reply[l])
      BY <1>0, <2>1, <3>2, <3>3, <3>4, LedgerGivesUp
    <3> QED
      BY <3>1, <3>5 DEF Ledger!Next
  <2> QED
    BY <2>2, <2>3
<1>9. ASSUME NEW l \in Loops, StartTask(l) PROVE UNCHANGED Ledger!vars
  <2>1. reply[l] \in Tasks /\ task[reply[l]] = "claimed"
    BY <1>0, <1>9, ComputeAssumption DEF StartTask, RepliesInv, TypeButSlots
  <2>2. /\ Waiting' = Waiting /\ Lost' = Lost
        /\ Backlog' = Backlog /\ Answered' = Answered
    BY <1>0, <1>9, <2>1 DEF TypeButSlots, StartTask, Waiting, Lost, Backlog, Answered
  <2>3. Owed' = Owed
    BY <1>9, <2>2 DEF StartTask, sessionVars, Owed, Ended
  <2> QED
    BY <2>2, <2>3 DEF Ledger!vars, Owed, Waiting, Answered
<1>10. ASSUME NEW l \in Loops, NEW t \in Tasks, ServeTask(l, t) PROVE Ledger!Take(t)
  <2>1. /\ Waiting' = Waiting \ {t} /\ t \in Waiting /\ Lost' = Lost
        /\ Backlog' = Backlog \cup {t} /\ Answered' = Answered
    BY <1>0, <1>10 DEF TypeButSlots, ServeTask, Waiting, Lost, Backlog, Answered
  <2>2. Owed' = Owed
    BY <1>10, <2>1 DEF ServeTask, sessionVars, Owed, Ended
  <2>3. \A S : Ledger!Cardinality(S) = Cardinality(S)
    BY DEF Ledger!Cardinality, Cardinality
  <2>4. Ledger!Cardinality(Backlog) < MaxParallel
    BY <1>10, <2>3, RoomToTake DEF ServeTask
  <2> QED
    BY <2>1, <2>2, <2>4 DEF Ledger!Take, Owed, Waiting, Answered
<1>11. CASE UNCHANGED vars
  BY <1>11, LedgerRests DEF vars, Ended
<1> QED
  BY <1>1, <1>2, <1>3, <1>4, <1>5, <1>6, <1>7, <1>8, <1>9, <1>10, <1>11
  DEF Next, Ledger!Next

(* The queue implements the ledger: never more tasks out than slots, each taken
   once and ended once, and given up only for an outage of its own. *)
THEOREM RefinesLedgerHolds == Spec => RefinesLedger
<1>1. Init => Ledger!Init
  <2> SUFFICES ASSUME Init PROVE Ledger!Init
    OBVIOUS
  <2>1. Waiting = {} /\ Backlog = {} /\ Answered = {} /\ Lost = {}
    BY DEF Init, Waiting, Backlog, Answered, Lost
  <2>2. Owed = 0
    BY NothingEnded, FS_EmptySet DEF Owed
  <2> QED
    BY <2>1, <2>2 DEF Ledger!Init, Waiting, Answered, Owed
<1> QED
  BY <1>1, LedgerStep, LossHolds, Inductive, PTL DEF Spec, RefinesLedger, Ledger!Spec
=============================================================================
