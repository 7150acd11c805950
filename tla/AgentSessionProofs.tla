------------------------- MODULE AgentSessionProofs -------------------------
(***************************************************************************)
(* TLAPS proofs about AgentSession, for every set of runs, of kinds and    *)
(* every number of sessions.                                               *)
(***************************************************************************)
EXTENDS AgentSession, TLAPS

(* Every step of the session, of a start goroutine and of a run keeps every
   variable in its type. *)
LEMMA TypeStep == TypeOK /\ [Next]_vars => TypeOK'
<1> SUFFICES ASSUME TypeOK, [Next]_vars PROVE TypeOK'
  OBVIOUS
<1> USE DEF TypeOK, Labels
<1>1. CASE Connect
  BY <1>1 DEF Connect
<1>2. CASE ReadError
  BY <1>2 DEF ReadError
<1>3. CASE CancelSession
  BY <1>3 DEF CancelSession
<1>4. ASSUME NEW i \in RunIDs PROVE StopNext(i) \/ StopFrame(i) => TypeOK'
  BY DEF StopNext, StopFrame
<1>5. ASSUME NEW i \in RunIDs PROVE StopReturn(i) => TypeOK'
  BY DEF StopReturn
<1>6. ASSUME NEW i \in RunIDs PROVE StartFails(i) \/ StartOk(i) => TypeOK'
  BY DEF StartFails, StartOk
<1>7. ASSUME NEW i \in RunIDs PROVE Register(i) => TypeOK'
  BY DEF Register
<1>8. ASSUME NEW i \in RunIDs PROVE PumpEnd(i) => TypeOK'
  BY DEF PumpEnd
<1>9. ASSUME NEW i \in RunIDs
      PROVE StopCloses(i) \/ CtxKill(i) \/ EndsByItself(i) => TypeOK'
  BY DEF StopCloses, CtxKill, EndsByItself, CloseStream
<1>10. ASSUME NEW i \in RunIDs PROVE TunnelUp(i) => TypeOK'
  BY DEF TunnelUp
<1>11. ASSUME NEW i \in RunIDs, NEW k \in Kinds PROVE StartFrame(i, k) => TypeOK'
  BY SessionAssumption DEF StartFrame
<1>12. CASE UNCHANGED vars
  BY <1>12 DEF vars
<1> QED
  BY <1>1, <1>2, <1>3, <1>4, <1>5, <1>6, <1>7, <1>8, <1>9, <1>10, <1>11, <1>12
  DEF Next

(* Type correctness of sessions and runs. *)
THEOREM TypeCorrect == Spec => []TypeOK
<1>1. Init => TypeOK
  BY DEF Init, TypeOK, Labels, AllKinds
<1> QED
  BY <1>1, TypeStep, PTL DEF Spec

-----------------------------------------------------------------------------
(* A run is put into the registry and taken out of it by the goroutine that
   pumps its events, in the same step in which it enters and leaves the pump. *)
LEMMA RegistryStep ==
  TypeOK /\ RegistryIsPumping /\ [Next]_vars => RegistryIsPumping'
<1> SUFFICES ASSUME TypeOK, RegistryIsPumping, [Next]_vars
             PROVE RegistryIsPumping'
  OBVIOUS
<1> USE DEF TypeOK, RegistryIsPumping
<1>1. CASE Connect \/ ReadError \/ CancelSession
  BY <1>1 DEF Connect, ReadError, CancelSession
<1>2. ASSUME NEW i \in RunIDs
      PROVE StopNext(i) \/ StopFrame(i) \/ StopReturn(i) => RegistryIsPumping'
  BY DEF StopNext, StopFrame, StopReturn
<1>3. ASSUME NEW i \in RunIDs
      PROVE StartFails(i) \/ StartOk(i) => RegistryIsPumping'
  BY DEF StartFails, StartOk
<1>4. ASSUME NEW i \in RunIDs PROVE Register(i) => RegistryIsPumping'
  BY DEF Register
<1>5. ASSUME NEW i \in RunIDs PROVE PumpEnd(i) => RegistryIsPumping'
  BY DEF PumpEnd
<1>6. ASSUME NEW i \in RunIDs
      PROVE StopCloses(i) \/ CtxKill(i) \/ EndsByItself(i) \/ TunnelUp(i)
            => RegistryIsPumping'
  BY DEF StopCloses, CtxKill, EndsByItself, CloseStream, TunnelUp
<1>7. ASSUME NEW i \in RunIDs, NEW k \in Kinds
      PROVE StartFrame(i, k) => RegistryIsPumping'
  BY DEF StartFrame
<1>8. CASE UNCHANGED vars
  BY <1>8 DEF vars
<1> QED
  BY <1>1, <1>2, <1>3, <1>4, <1>5, <1>6, <1>7, <1>8 DEF Next

(* The registry is exactly the set of runs whose events are being pumped. *)
THEOREM RegistryHolds == Spec => []RegistryIsPumping
<1>1. Init => RegistryIsPumping
  BY DEF Init, RegistryIsPumping
<1> QED
  BY <1>1, TypeCorrect, RegistryStep, PTL DEF Spec

-----------------------------------------------------------------------------
(* Why the sweep reaches every registered run: while its session is open it is
   still to be swept, while stopAll runs it is in the snapshot or behind it,
   and no run has the context of a session yet to come. *)
SweepInv ==
  /\ \A i \in RunIDs : sess[i] <= session
  /\ \A i \in byID :
       \/ i \in asked \/ stream[i] = "closed" \/ i \in late
       \/ sess[i] = session /\ link = "open"
       \/ sess[i] = session /\ link = "closing" /\ i \in toStop

(* One step of the sweep. *)
LEMMA SweepStep ==
  TypeOK /\ RegistryIsPumping /\ SweepInv /\ [Next]_vars => SweepInv'
<1> SUFFICES ASSUME TypeOK, RegistryIsPumping, SweepInv, [Next]_vars
             PROVE SweepInv'
  OBVIOUS
<1> USE DEF TypeOK, RegistryIsPumping, SweepInv
<1>1. CASE Connect
  BY <1>1 DEF Connect
<1>2. CASE ReadError
  BY <1>2 DEF ReadError, Reading
<1>3. CASE CancelSession
  BY <1>3 DEF CancelSession
<1>4. ASSUME NEW i \in RunIDs PROVE StopNext(i) => SweepInv'
  BY DEF StopNext
<1>5. ASSUME NEW i \in RunIDs PROVE StopFrame(i) \/ StopReturn(i) => SweepInv'
  BY DEF StopFrame, StopReturn
<1>6. ASSUME NEW i \in RunIDs PROVE StartFails(i) \/ StartOk(i) => SweepInv'
  BY DEF StartFails, StartOk
<1>7. ASSUME NEW i \in RunIDs PROVE Register(i) => SweepInv'
  BY DEF Register
<1>8. ASSUME NEW i \in RunIDs PROVE PumpEnd(i) => SweepInv'
  BY DEF PumpEnd
<1>9. ASSUME NEW i \in RunIDs
      PROVE StopCloses(i) \/ CtxKill(i) \/ EndsByItself(i) => SweepInv'
  BY DEF StopCloses, CtxKill, EndsByItself, CloseStream
<1>10. ASSUME NEW i \in RunIDs PROVE TunnelUp(i) => SweepInv'
  BY DEF TunnelUp
<1>11. ASSUME NEW i \in RunIDs, NEW k \in Kinds PROVE StartFrame(i, k) => SweepInv'
  BY DEF StartFrame, Reading
<1>12. CASE UNCHANGED vars
  BY <1>12 DEF vars
<1> QED
  BY <1>1, <1>2, <1>3, <1>4, <1>5, <1>6, <1>7, <1>8, <1>9, <1>10, <1>11, <1>12
  DEF Next

(* Once a session's context is cancelled, each of its registered runs was asked
   to stop, has ended, or was too late for the snapshot of stopAll. *)
THEOREM SweptBeforeCancelHolds == Spec => []SweptBeforeCancel
<1>1. Init => SweepInv
  BY DEF Init, SweepInv
<1>2. SweepInv => SweptBeforeCancel
  BY DEF SweepInv, SweptBeforeCancel, CtxLive
<1> QED
  BY <1>1, <1>2, TypeCorrect, RegistryHolds, SweepStep, PTL DEF Spec
=============================================================================
