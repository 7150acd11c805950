-------------------------- MODULE TaskClaimProofs --------------------------
(***************************************************************************)
(* TLAPS proofs about TaskClaim, for every set of runs and of goroutines,  *)
(* and whether or not HTTP requests fail.                                  *)
(***************************************************************************)
EXTENDS TaskClaim, TLAPS

USE DEF sessionVars, flags

(* Every variable keeps its type in every step of the drain and the session. *)
LEMMA TypeStep == TypeOK /\ [Next]_vars => TypeOK'
<1> SUFFICES ASSUME TypeOK, [Next]_vars PROVE TypeOK'
  OBVIOUS
<1> USE DEF TypeOK, RunStates, Labels, Body
<1>1. CASE ReadError
  BY <1>1 DEF ReadError
<1>2. CASE CancelSession
  BY <1>2 DEF CancelSession
<1>3. CASE RingForCompute
  BY <1>3 DEF RingForCompute
<1>4. ASSUME NEW c \in Calls PROVE Connect(c) => TypeOK'
  BY DEF Connect, Spawn
<1>5. ASSUME NEW c \in Calls PROVE Wake(c) => TypeOK'
  BY DEF Wake, Spawn
<1>6. ASSUME NEW c \in Calls PROVE EnterJoin(c) \/ EnterDrain(c) => TypeOK'
  BY DEF EnterJoin, EnterDrain, Queued
<1>7. ASSUME NEW c \in Calls PROVE SendClaim(c) \/ ServeEmpty(c) => TypeOK'
  BY DEF SendClaim, ServeEmpty
<1>8. ASSUME NEW c \in Calls PROVE StartTask(c) \/ GotEmpty(c) => TypeOK'
  BY DEF StartTask, GotEmpty
<1>9. ASSUME NEW c \in Calls PROVE ClaimFail(c) => TypeOK'
  BY DEF ClaimFail, Queued
<1>10. ASSUME NEW c \in Calls PROVE SettleAgain(c) \/ SettleStop(c) => TypeOK'
  BY DEF SettleAgain, SettleStop
<1>11. ASSUME NEW r \in Runs PROVE Enqueue(r) \/ PushTask(r) => TypeOK'
  BY DEF Enqueue, PushTask
<1>12. ASSUME NEW r \in Runs PROVE FinishTask(r) => TypeOK'
  BY DEF FinishTask
<1>13. ASSUME NEW c \in Calls, NEW r \in Runs PROVE ServeRun(c, r) => TypeOK'
  BY DEF ServeRun
<1>14. CASE UNCHANGED vars
  BY <1>14 DEF vars
<1> QED
  BY <1>1, <1>2, <1>3, <1>4, <1>5, <1>6, <1>7, <1>8, <1>9, <1>10, <1>11,
     <1>12, <1>13, <1>14 DEF Next

(* Type correctness of the claim loop. *)
THEOREM TypeCorrect == Spec => []TypeOK
<1>1. Init => TypeOK
  <2> SUFFICES ASSUME Init PROVE TypeOK
    OBVIOUS
  <2> USE DEF Init
  <2>1. link \in {"down", "open", "closing"} /\ session \in Nat /\ bells \in Nat
    OBVIOUS
  <2>2. run \in [Runs -> RunStates] /\ owner \in [Runs -> Nat]
    BY DEF RunStates
  <2>3. pc \in [Calls -> Labels] /\ sess \in [Calls -> Nat]
    BY DEF Labels
  <2>4. reply \in [Calls -> Runs \cup {NoRun}]
    OBVIOUS
  <2>5. draining \in BOOLEAN /\ drainPending \in BOOLEAN /\ excused \subseteq Runs
    OBVIOUS
  <2> QED
    BY <2>1, <2>2, <2>3, <2>4, <2>5 DEF TypeOK
<1> QED
  BY <1>1, TypeStep, PTL DEF Spec

-----------------------------------------------------------------------------
(* One step of the single-flight gate: the flag and the goroutine in the body
   of drainClaims come and go together. *)
LEMMA SingleFlightStep == TypeOK /\ SingleFlight /\ [Next]_vars => SingleFlight'
<1> SUFFICES ASSUME TypeOK, SingleFlight, [Next]_vars PROVE SingleFlight'
  OBVIOUS
<1> USE DEF TypeOK, SingleFlight, Body
<1>1. CASE ReadError
  BY <1>1 DEF ReadError
<1>2. CASE CancelSession
  BY <1>2 DEF CancelSession
<1>3. CASE RingForCompute
  BY <1>3 DEF RingForCompute
<1>4. ASSUME NEW c \in Calls, Connect(c) \/ Wake(c) PROVE SingleFlight'
  BY <1>4 DEF Connect, Wake, Spawn
<1>5. ASSUME NEW c \in Calls, EnterJoin(c) PROVE SingleFlight'
  BY <1>5 DEF EnterJoin
<1>6. ASSUME NEW c \in Calls, EnterDrain(c) PROVE SingleFlight'
  BY <1>6 DEF EnterDrain
<1>7. ASSUME NEW c \in Calls, SendClaim(c) PROVE SingleFlight'
  BY <1>7 DEF SendClaim
<1>8. ASSUME NEW c \in Calls, ServeEmpty(c) PROVE SingleFlight'
  BY <1>8 DEF ServeEmpty
<1>9. ASSUME NEW c \in Calls, StartTask(c) PROVE SingleFlight'
  BY <1>9 DEF StartTask
<1>10. ASSUME NEW c \in Calls, GotEmpty(c) PROVE SingleFlight'
  BY <1>10 DEF GotEmpty
<1>11. ASSUME NEW c \in Calls, ClaimFail(c) PROVE SingleFlight'
  BY <1>11 DEF ClaimFail
<1>12. ASSUME NEW c \in Calls, SettleAgain(c) PROVE SingleFlight'
  BY <1>12 DEF SettleAgain
<1>13. ASSUME NEW c \in Calls, SettleStop(c) PROVE SingleFlight'
  BY <1>13 DEF SettleStop
<1>14. ASSUME NEW r \in Runs, Enqueue(r) \/ PushTask(r) \/ FinishTask(r)
       PROVE SingleFlight'
  BY <1>14 DEF Enqueue, PushTask, FinishTask
<1>15. ASSUME NEW c \in Calls, NEW r \in Runs, ServeRun(c, r) PROVE SingleFlight'
  BY <1>15 DEF ServeRun
<1>16. CASE UNCHANGED vars
  BY <1>16 DEF vars
<1> QED
  BY <1>1, <1>2, <1>3, <1>4, <1>5, <1>6, <1>7, <1>8, <1>9, <1>10, <1>11,
     <1>12, <1>13, <1>14, <1>15, <1>16 DEF Next

(* At most one drain runs at a time, across sessions, and a pending wake is
   never left behind by a drain that stopped. *)
THEOREM SingleFlightHolds == Spec => []SingleFlight
<1>1. Init => SingleFlight
  BY DEF Init, SingleFlight, Body
<1> QED
  BY <1>1, SingleFlightStep, TypeCorrect, PTL DEF Spec

-----------------------------------------------------------------------------
(* A queued, unexcused run of a connected agent keeps somebody's attention in
   every step: the doorbell of its enqueue, or the connect, is handed over to a
   goroutine of this session, to a flag its drain will see, or to the claim that
   will find the run.  A drain of an ended session can only be in the way of a
   goroutine that joins it, and that excuses the run. *)
LEMMA NoLostWakeStep ==
  TypeOK /\ SingleFlight /\ NoLostWake /\ [Next]_vars => NoLostWake'
<1> SUFFICES ASSUME TypeOK, SingleFlight, NoLostWake, [Next]_vars,
                    link' = "open", ~(Queued' \subseteq excused')
             PROVE  Attended'
  BY DEF NoLostWake
<1> USE DEF TypeOK, NoLostWake, Attended, Queued, Body
<1>1. CASE ReadError
  BY <1>1 DEF ReadError
<1>2. CASE CancelSession
  BY <1>2 DEF CancelSession
<1>3. CASE RingForCompute
  BY <1>3 DEF RingForCompute
<1>4. ASSUME NEW c \in Calls, Connect(c) PROVE Attended'
  BY <1>4 DEF Connect, Spawn
<1>18. ASSUME NEW c \in Calls, Wake(c) PROVE Attended'
  BY <1>18 DEF Wake, Spawn
<1>5. ASSUME NEW c \in Calls, EnterJoin(c) PROVE Attended'
  <2>1. PICK d \in Calls : pc[d] \in Body
    BY <1>5 DEF EnterJoin, SingleFlight
  <2>2. CASE sess[d] = session
    BY <1>5, <2>1, <2>2 DEF EnterJoin
  <2>3. CASE sess[d] # session
    <3>1. excused' = excused \cup Queued /\ run' = run
      BY <1>5, <2>1, <2>3 DEF EnterJoin, CtxLive
    <3> QED
      BY <3>1
  <2> QED
    BY <2>2, <2>3
<1>6. ASSUME NEW c \in Calls, EnterDrain(c) PROVE Attended'
  BY <1>6 DEF EnterDrain
<1>7. ASSUME NEW c \in Calls, SendClaim(c) PROVE Attended'
  BY <1>7 DEF SendClaim
<1>8. ASSUME NEW c \in Calls, ServeEmpty(c) PROVE Attended'
  BY <1>8 DEF ServeEmpty
<1>9. ASSUME NEW c \in Calls, StartTask(c) PROVE Attended'
  BY <1>9 DEF StartTask
<1>10. ASSUME NEW c \in Calls, GotEmpty(c) PROVE Attended'
  BY <1>10 DEF GotEmpty
<1>11. ASSUME NEW c \in Calls, ClaimFail(c) PROVE Attended'
  <2>1. \A r \in Runs : run'[r] = "queued" => run[r] = "queued"
    BY <1>11 DEF ClaimFail
  <2>2. CASE sess[c] = session
    <3>1. excused' = excused \cup Queued
      BY <1>11, <2>2 DEF ClaimFail, CtxLive
    <3> QED
      BY <2>1, <3>1
  <2>3. CASE sess[c] # session
    BY <1>11, <2>1, <2>3 DEF ClaimFail, CtxLive
  <2> QED
    BY <2>2, <2>3
<1>12. ASSUME NEW c \in Calls, SettleAgain(c) PROVE Attended'
  BY <1>12 DEF SettleAgain, SingleFlight
<1>13. ASSUME NEW c \in Calls, SettleStop(c) PROVE Attended'
  BY <1>13 DEF SettleStop
<1>14. ASSUME NEW r \in Runs, Enqueue(r) PROVE Attended'
  BY <1>14 DEF Enqueue
<1>15. ASSUME NEW r \in Runs, PushTask(r) \/ FinishTask(r) PROVE Attended'
  BY <1>15 DEF PushTask, FinishTask
<1>16. ASSUME NEW c \in Calls, NEW r \in Runs, ServeRun(c, r) PROVE Attended'
  BY <1>16 DEF ServeRun
<1>17. CASE UNCHANGED vars
  BY <1>17 DEF vars
<1> QED
  BY <1>1, <1>2, <1>3, <1>4, <1>5, <1>6, <1>7, <1>8, <1>9, <1>10, <1>11,
     <1>12, <1>13, <1>14, <1>15, <1>16, <1>17, <1>18 DEF Next

(* No wake is lost between a 204 and a fresh enqueue, or over a reconnect: only
   a claim that failed in a live session, or a wake left to the drain of an ended
   one, can leave a queued run with nobody about to look at the queue. *)
THEOREM NoLostWakeHolds == Spec => []NoLostWake
<1>1. Init => NoLostWake
  BY DEF Init, NoLostWake, Queued
<1> QED
  BY <1>1, NoLostWakeStep, SingleFlightHolds, TypeCorrect, PTL DEF Spec

-----------------------------------------------------------------------------
(* Each step of the drain is a step of the doorbell or leaves it unchanged. *)
LEMMA DoorbellStep ==
  TypeOK /\ SingleFlight /\ [Next]_vars => [Bell!Next]_(Bell!vars)
<1> SUFFICES ASSUME TypeOK, SingleFlight, [Next]_vars
             PROVE  [Bell!Next]_(Bell!vars)
  OBVIOUS
<1> USE DEF TypeOK, Bell!Next, Bell!vars, Bell!Ring, Bell!LetIn, Bell!Attempt,
            Bell!Rest
<1>1. CASE ReadError \/ CancelSession \/ RingForCompute
  BY <1>1 DEF ReadError, CancelSession, RingForCompute
<1>2. ASSUME NEW c \in Calls, Connect(c) \/ Wake(c)
      PROVE  Bell!Ring
  BY <1>2 DEF Connect, Wake, Spawn
<1>3. ASSUME NEW c \in Calls, EnterJoin(c) PROVE Bell!LetIn
  BY <1>3 DEF EnterJoin
<1>4. ASSUME NEW c \in Calls, EnterDrain(c) PROVE Bell!LetIn
  BY <1>4 DEF EnterDrain
<1>5. ASSUME NEW c \in Calls, SendClaim(c) \/ ClaimFail(c)
      PROVE  Bell!Attempt \/ UNCHANGED Bell!vars
  BY <1>5 DEF SendClaim, ClaimFail, SingleFlight, Body
<1>6. ASSUME NEW c \in Calls, ServeEmpty(c) \/ StartTask(c) \/ GotEmpty(c)
      PROVE  UNCHANGED Bell!vars
  BY <1>6 DEF ServeEmpty, StartTask, GotEmpty
<1>7. ASSUME NEW c \in Calls, SettleAgain(c) PROVE UNCHANGED Bell!vars
  BY <1>7 DEF SettleAgain
<1>8. ASSUME NEW c \in Calls, SettleStop(c) PROVE Bell!Rest
  BY <1>8 DEF SettleStop, SingleFlight, Body
<1>9. ASSUME NEW r \in Runs, Enqueue(r) \/ PushTask(r) \/ FinishTask(r)
      PROVE  UNCHANGED Bell!vars
  BY <1>9 DEF Enqueue, PushTask, FinishTask
<1>10. ASSUME NEW c \in Calls, NEW r \in Runs, ServeRun(c, r)
       PROVE  UNCHANGED Bell!vars
  BY <1>10 DEF ServeRun
<1>11. CASE UNCHANGED vars
  BY <1>11 DEF vars
<1> QED
  BY <1>1, <1>2, <1>3, <1>4, <1>5, <1>6, <1>7, <1>8, <1>9, <1>10, <1>11 DEF Next

(* The coalescing drain implements the doorbell: no wake that was let in is
   answered only by a claim that began before it. *)
THEOREM RefinesDoorbellHolds == Spec => RefinesDoorbell
<1>1. Init => Bell!Init
  BY DEF Init, Bell!Init
<1>2. TypeOK /\ SingleFlight /\ [Next]_vars => [Bell!Next]_(Bell!vars)
  BY DoorbellStep
<1> QED
  BY <1>1, <1>2, SingleFlightHolds, TypeCorrect, PTL
     DEF Spec, RefinesDoorbell, Bell!Spec
=============================================================================
