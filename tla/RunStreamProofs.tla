--------------------------- MODULE RunStreamProofs ---------------------------
(***************************************************************************)
(* TLAPS proofs about RunStream, for any set of kinds and of sources and   *)
(* any buffer: no send or close brings the agent down, but for the two     *)
(* kinds that do not recover, and a run reports its end once.              *)
(***************************************************************************)
EXTENDS RunStream, TLAPS

Items == {"state", "out", "exit"}

(* What appending an event to the buffer, or taking its head, does to each
   position. *)
LEMMA BufferAppend ==
  ASSUME NEW b \in Seq(Items), NEW e \in Items
  PROVE  /\ Append(b, e) \in Seq(Items)
         /\ Len(Append(b, e)) = Len(b) + 1
         /\ \A m \in 1..Len(b) : Append(b, e)[m] = b[m]
         /\ Append(b, e)[Len(b) + 1] = e
  OBVIOUS

LEMMA BufferTail ==
  ASSUME NEW b \in Seq(Items), b # <<>>
  PROVE  /\ Head(b) = b[1] /\ b[1] \in Items
         /\ Tail(b) \in Seq(Items)
         /\ Len(Tail(b)) = Len(b) - 1
         /\ \A m \in 1..Len(Tail(b)) : Tail(b)[m] = b[m + 1]
  OBVIOUS

-----------------------------------------------------------------------------
(* Every step keeps every variable in its type. *)
LEMMA TypeStep == TypeOK /\ [Next]_vars => TypeOK'
<1> SUFFICES ASSUME TypeOK, [Next]_vars PROVE TypeOK'
  OBVIOUS
<1> USE StreamAssumption DEF TypeOK, Phases, Callers
<1>1. CASE ProcEnds
  BY <1>1 DEF ProcEnds
<1>2. CASE OrphanEnds
  BY <1>2 DEF OrphanEnds
<1>13. CASE TunnelUp
  BY <1>13 DEF TunnelUp
<1>14. CASE CancelSession
  <2>1. ctx' = FALSE /\ UNCHANGED <<kind, proc, src, call, once, phase, buf, closed, exit,
                                   pump, crashed>>
    BY <1>14, Zenon DEF CancelSession
  <2>2. ctx' \in BOOLEAN
    BY <2>1, Zenon
  <2> QED
    BY <2>1, <2>2
<1>3. ASSUME NEW s \in Sources, Read(s) \/ CheckOpen(s) PROVE TypeOK'
  BY <1>3 DEF Read, CheckOpen
<1>4. ASSUME NEW s \in Sources, Emit(s) PROVE TypeOK'
  BY <1>4, BufferAppend DEF Emit, Items
<1>5. ASSUME NEW s \in Sources, SourceEnds(s) \/ SerialEnds(s) PROVE TypeOK'
  BY <1>5 DEF SourceEnds, SerialEnds
<1>6. CASE StopCalls \/ WaiterCalls \/ WatchdogCalls
  BY <1>6 DEF StopCalls, WaiterCalls, WatchdogCalls
<1>7. ASSUME NEW c \in Callers, EnterOnce(c) \/ Return(c) PROVE TypeOK'
  BY <1>7 DEF EnterOnce, Return
<1>8. CASE SendExit
  BY <1>8, BufferAppend DEF SendExit, Items
<1>9. CASE TearDown \/ DropExit
  BY <1>9 DEF TearDown, DropExit
<1>15. CASE Flag
  BY <1>15 DEF Flag
<1>16. CASE CloseEvents
  BY <1>16 DEF CloseEvents
<1>10. CASE Take
  BY <1>10, BufferTail DEF Take, Items
<1>11. CASE PumpEnds
  BY <1>11 DEF PumpEnds
<1>12. CASE UNCHANGED vars
  BY <1>12 DEF vars
<1> QED
  BY <1>1, <1>2, <1>3, <1>4, <1>5, <1>6, <1>7, <1>8, <1>9, <1>10, <1>11, <1>12, <1>13,
     <1>14, <1>15, <1>16
  DEF Next

LEMMA TypeInit == Init => TypeOK
<1> SUFFICES ASSUME Init PROVE TypeOK
  OBVIOUS
<1>1. ctx \in BOOLEAN /\ closed \in BOOLEAN /\ crashed \in BOOLEAN
  BY Zenon DEF Init
<1>2. buf \in Seq(Items) /\ Len(buf) <= Cap
  BY StreamAssumption DEF Init, Items
<1>3. src \in [Sources -> {"reading", "holding", "sending", "ended"}]
  BY DEF Init
<1> QED
  BY <1>1, <1>2, <1>3 DEF Init, TypeOK, Phases, Callers, Items

(* Type correctness of a run's stream. *)
THEOREM TypeCorrect == Spec => []TypeOK
  BY TypeInit, TypeStep, PTL DEF Spec

-----------------------------------------------------------------------------
(* One teardown runs and its stages follow each other: the body is entered by
   one caller, the channel is closed at its end and only there, and until then
   but one stage has sent or dropped the exit event.  A coder run has no source
   whose events could fill the buffer before its exit event. *)
StageInv ==
  /\ once = "nobody" <=> phase = "idle"
  /\ closed <=> phase = "done"
  /\ exit = "none" <=> phase \in {"idle", "begun", "torn"}
  /\ kind = "coder" => /\ \A s \in Sources : src[s] = "ended"
                       /\ exit = "none" => Len(buf) < 2
                       /\ exit # "dropped"

(* The exit event is in the buffer at most once, and there only after it was
   sent and before the pump has seen it. *)
ExitInv ==
  /\ exit # "sent" => /\ \A m \in 1..Len(buf) : buf[m] # "exit"
                      /\ pump \notin {"exit", "late"}
  /\ \A m, n \in 1..Len(buf) : buf[m] = "exit" /\ buf[n] = "exit" => m = n
  /\ pump \in {"exit", "late"} => \A m \in 1..Len(buf) : buf[m] # "exit"

StreamInv == StageInv /\ ExitInv /\ NoPanic

(* One step of the run, of its sources, of the teardown or of the pump. *)
LEMMA StreamStep == TypeOK /\ StreamInv /\ [Next]_vars => StreamInv'
<1> SUFFICES ASSUME TypeOK, StreamInv, [Next]_vars PROVE StreamInv'
  OBVIOUS
<1> USE StreamAssumption
    DEF TypeOK, Phases, Callers, AllKinds, StreamInv, StageInv, ExitInv, NoPanic
<1>1. CASE ProcEnds \/ OrphanEnds \/ TunnelUp
  BY <1>1 DEF ProcEnds, OrphanEnds, TunnelUp
<1>2. CASE CancelSession
  BY <1>2 DEF CancelSession
<1>3. ASSUME NEW s \in Sources, Read(s) \/ CheckOpen(s) PROVE StreamInv'
  BY <1>3 DEF Read, CheckOpen
<1>4. ASSUME NEW s \in Sources, Emit(s) PROVE StreamInv'
  <2>1. kind # "coder"
    BY <1>4 DEF Emit
  <2>2. \/ buf' = buf
        \/ /\ Len(buf') = Len(buf) + 1
           /\ \A m \in 1..Len(buf) : buf'[m] = buf[m]
           /\ buf'[Len(buf) + 1] = "out"
    BY <1>4, BufferAppend DEF Emit, Items
  <2>3. UNCHANGED <<kind, once, phase, closed, exit, pump>>
    BY <1>4 DEF Emit
  <2>4. StageInv' /\ NoPanic'
    BY <1>4, <2>1 DEF Emit, Recovers
  <2>5. \A m \in 1..Len(buf') : buf'[m] = "exit" => m \in 1..Len(buf) /\ buf[m] = "exit"
    BY <2>2
  <2>6. ExitInv'
    BY <2>3, <2>5
  <2> QED
    BY <2>4, <2>6
<1>5. ASSUME NEW s \in Sources, SourceEnds(s) \/ SerialEnds(s) PROVE StreamInv'
  BY <1>5 DEF SourceEnds, SerialEnds
<1>6. CASE StopCalls \/ WaiterCalls \/ WatchdogCalls
  BY <1>6 DEF StopCalls, WaiterCalls, WatchdogCalls
<1>7. ASSUME NEW c \in Callers, EnterOnce(c) \/ Return(c) PROVE StreamInv'
  BY <1>7 DEF EnterOnce, Return
<1>8. CASE SendExit
  <2>1. /\ Len(buf') = Len(buf) + 1
        /\ \A m \in 1..Len(buf) : buf'[m] = buf[m]
        /\ buf'[Len(buf) + 1] = "exit"
    BY <1>8, BufferAppend DEF SendExit, Items
  <2>2. \A m \in 1..Len(buf') : buf'[m] = "exit" => m = Len(buf) + 1
    BY <1>8, <2>1 DEF SendExit
  <2>3. pump' \notin {"exit", "late"} /\ exit' = "sent"
    BY <1>8 DEF SendExit
  <2>4. ExitInv'
    BY <2>2, <2>3
  <2>5. StageInv' /\ NoPanic'
    BY <1>8 DEF SendExit
  <2> QED
    BY <2>4, <2>5
<1>9. CASE TearDown
  BY <1>9 DEF TearDown
<1>10. CASE DropExit
  BY <1>10 DEF DropExit
<1>11. CASE Flag
  BY <1>11 DEF Flag
<1>12. CASE CloseEvents
  BY <1>12 DEF CloseEvents
<1>13. CASE Take
  <2>1. /\ buf[1] = Head(buf)
        /\ Len(buf') = Len(buf) - 1
        /\ \A m \in 1..Len(buf') : buf'[m] = buf[m + 1]
    BY <1>13, BufferTail DEF Take, Items
  <2>2. \A m \in 1..Len(buf') : m + 1 \in 1..Len(buf) /\ m + 1 # 1 /\ 1 \in 1..Len(buf)
    BY <2>1
  <2>3. UNCHANGED <<kind, src, once, phase, closed, exit, crashed>>
    BY <1>13 DEF Take
  <2>4. StageInv' /\ NoPanic'
    BY <2>1, <2>3
  <2>5. pump' \in {"exit", "late"} =>
          pump \in {"exit", "late"} \/ buf[1] = "exit"
    BY <1>13, <2>1 DEF Take
  <2>6. pump' \in {"exit", "late"} => \A m \in 1..Len(buf') : buf'[m] # "exit"
    BY <2>1, <2>2, <2>5
  <2>7. \A m, n \in 1..Len(buf') : buf'[m] = "exit" /\ buf'[n] = "exit" => m = n
    BY <2>1, <2>2
  <2>8. exit' # "sent" => /\ \A m \in 1..Len(buf') : buf'[m] # "exit"
                          /\ pump' \notin {"exit", "late"}
    <3>1. buf # <<>> => 1 \in 1..Len(buf)
      OBVIOUS
    <3> QED
      BY <1>13, <2>1, <2>2, <2>3, <2>5, <3>1 DEF Take
  <2> QED
    BY <2>4, <2>6, <2>7, <2>8
<1>14. CASE PumpEnds
  BY <1>14 DEF PumpEnds
<1>15. CASE UNCHANGED vars
  BY <1>15 DEF vars
<1> QED
  BY <1>1, <1>2, <1>3, <1>4, <1>5, <1>6, <1>7, <1>8, <1>9, <1>10, <1>11, <1>12,
     <1>13, <1>14, <1>15
  DEF Next

LEMMA StreamSafe == Spec => [](TypeOK /\ StreamInv)
<1>1. Init => TypeOK /\ StreamInv
  <2> SUFFICES ASSUME Init PROVE StreamInv
    BY TypeInit
  <2>1. Len(buf) = 1 /\ buf[1] = "state"
    BY DEF Init
  <2> QED
    BY <2>1 DEF Init, StreamInv, StageInv, ExitInv, NoPanic
<1>2. TypeOK /\ StreamInv /\ [Next]_vars => (TypeOK /\ StreamInv)'
  BY TypeStep, StreamStep
<1> QED
  BY <1>1, <1>2, PTL DEF Spec

(* No send and no second close brings the agent down, but in the two kinds whose
   sources do not recover: what can still send when the channel is closed does
   so behind a recover, and the channel is closed once. *)
THEOREM NoPanicHolds == Spec => []NoPanic
<1>1. StreamInv => NoPanic
  BY DEF StreamInv
<1> QED
  BY <1>1, StreamSafe, PTL

(* A run reports its end once. *)
THEOREM OneExitHolds == Spec => []OneExit
<1>1. TypeOK /\ StreamInv => OneExit
  BY DEF TypeOK, Phases, StreamInv, StageInv, ExitInv, OneExit
<1> QED
  BY <1>1, StreamSafe, PTL
=============================================================================
