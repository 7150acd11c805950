--------------------------- MODULE CollectorProofs ---------------------------
(***************************************************************************)
(* Theorems about Collector, for any processes, any size of the queue and  *)
(* of a batch, and any number of events.                                   *)
(***************************************************************************)
EXTENDS Collector, TLAPS

(* TypeOK bounds the lengths of queue and batch and leaves open what is in
   them: packets that were logged. *)
Packets == 1 .. MaxEvents
Typed == TypeOK /\ queue \in Seq(Packets) /\ batch \in Seq(Packets)

(* EventsOnce says nothing of what is on its way.  On pf that is in the order of
   the log: the events of the batch come behind the last the controller has,
   those of the queue behind them, and the next packet of a tail behind all of
   these, as a tail that starts again starts at the end of the log.  A batch that
   is posted is therefore news, whatever became of those before it. *)
Rising(s) == \A i, j \in 1 .. Len(s) : i < j => s[i] < s[j]

Ordered ==
  /\ Rising(batch) /\ Rising(queue)
  /\ \A i \in 1 .. Len(batch) : stored < batch[i]
  /\ \A j \in 1 .. Len(queue) :
       stored < queue[j] /\ \A i \in 1 .. Len(batch) : batch[i] < queue[j]

Behind(n) ==
  /\ stored <= n
  /\ \A i \in 1 .. Len(batch) : batch[i] <= n
  /\ \A j \in 1 .. Len(queue) : queue[j] <= n

InOrder ==
  host = "pf" =>
    /\ ~ again /\ Ordered
    /\ Behind(logged)
    /\ tail # 0 => tail <= logged + 1 /\ Behind(tail - 1)

EventInv == Typed /\ InOrder

(* Sequences. *)
LEMMA SeqTail ==
  ASSUME NEW S, NEW s \in Seq(S), s # <<>>
  PROVE  /\ Len(s) \in Nat /\ Len(s) > 0 /\ Head(s) = s[1] /\ s[1] \in S
         /\ s[Len(s)] \in S
         /\ Tail(s) \in Seq(S) /\ Len(Tail(s)) = Len(s) - 1
         /\ \A j \in 1 .. Len(s) - 1 : Tail(s)[j] = s[j + 1]
OBVIOUS

LEMMA SeqAppend ==
  ASSUME NEW S, NEW s \in Seq(S), NEW x \in S
  PROVE  /\ Append(s, x) \in Seq(S) /\ Len(Append(s, x)) = Len(s) + 1
         /\ \A i \in 1 .. Len(s) : Append(s, x)[i] = s[i]
         /\ Append(s, x)[Len(s) + 1] = x
OBVIOUS

LEMMA EmptySeq == \A S : <<>> \in Seq(S) /\ Len(<<>>) = 0
OBVIOUS

LEMMA PacketNumbers ==
  ASSUME NEW s \in Seq(Packets)
  PROVE  Len(s) \in Nat /\ \A i \in 1 .. Len(s) : s[i] \in Nat /\ s[i] > 0 /\ s[i] <= MaxEvents
<1>1. \A i \in 1 .. Len(s) : s[i] \in Packets
  OBVIOUS
<1> QED
  BY <1>1, CollectorAssumption DEF Packets, CollectorAssumption

(* TypeOK in two parts: the processes with what they report of the machine, and
   the events. *)
TypeHost ==
  /\ role \in Roles /\ host \in Hosts
  /\ flock \in Procs \cup {Free}
  /\ proc \in [Procs -> {"off", "gate", "active", "gone"}]
  /\ base \in BOOLEAN
  /\ hash \in 0 .. MaxChanges /\ shown \in 0 .. MaxChanges
  /\ report \in [Procs -> 0 .. MaxChanges + 1]
TypeEvents ==
  /\ logged \in 0 .. MaxEvents /\ tail \in 0 .. MaxEvents + 1
  /\ stored \in 0 .. MaxEvents /\ again \in BOOLEAN
  /\ Len(queue) <= QueueCap /\ Len(batch) <= BatchMax
  /\ queue \in Seq(Packets) /\ batch \in Seq(Packets)

LEMMA TypedParts == Typed <=> TypeHost /\ TypeEvents
BY DEF Typed, TypeOK, TypeHost, TypeEvents, Idle

LEMMA TypedNext == Typed' <=> TypeHost' /\ TypeEvents'
BY DEF Typed, TypeOK, TypeHost, TypeEvents, Idle

LEMMA TypeHostStep == TypeHost /\ [Next]_colvars => TypeHost'
<1> SUFFICES ASSUME TypeHost, [Next]_colvars PROVE TypeHost'
  OBVIOUS
<1> USE CollectorAssumption DEF CollectorAssumption, TypeHost
<1>1. ASSUME NEW p \in Procs, Start(p) \/ Finalize(p) \/ PassGate(p) PROVE TypeHost'
  BY <1>1 DEF Start, Finalize, PassGate, machine
<1>2. ASSUME NEW p \in Procs, Exit(p) PROVE TypeHost'
  BY <1>2 DEF Exit, machine, Idle
<1>3. ASSUME NEW p \in Procs, ReadState(p) \/ PostStateFails(p) PROVE TypeHost'
  BY <1>3 DEF ReadState, PostStateFails, machine, Idle
<1>4. ASSUME NEW p \in Procs, PostState(p) PROVE TypeHost'
  <2>1. report[p] \in 0 .. MaxChanges
    BY <1>4 DEF PostState, Idle
  <2> QED
    BY <1>4, <2>1 DEF PostState, machine, Idle
<1>5. CASE UNCHANGED <<machine, flock, proc, base, hash, shown, report>>
  BY <1>5, Zenon DEF machine
<1>6. CASE Change \/ Managed
  <2>1. base' \in BOOLEAN
    BY <1>6, Zenon DEF Change, Managed
  <2> QED
    BY <1>6, <2>1 DEF Change, Managed, machine
<1>7. CASE UNCHANGED colvars
  BY <1>7 DEF colvars, machine
<1> QED
  BY <1>1, <1>2, <1>3, <1>4, <1>5, <1>6, <1>7, Zenon
  DEF Next, TailStarts, TailEnds, TailLine, Take, Flush, Log

LEMMA TypeEventsStep == TypeEvents /\ [Next]_colvars => TypeEvents'
<1> SUFFICES ASSUME TypeEvents, [Next]_colvars PROVE TypeEvents'
  OBVIOUS
<1>0. /\ QueueCap \in Nat \ {0} /\ BatchMax \in Nat \ {0} /\ MaxEvents \in Nat
  BY CollectorAssumption DEF CollectorAssumption
<1>1. CASE UNCHANGED events
  BY <1>1 DEF events, TypeEvents
<1>2. ASSUME NEW p \in Procs, Exit(p) PROVE TypeEvents'
  <2>1. CASE p = Watched
    <3>1. /\ tail' = 0 /\ queue' = <<>> /\ batch' = <<>> /\ stored' = 0 /\ again' = FALSE
          /\ logged' = logged
      BY <1>2, <2>1 DEF Exit
    <3>2. again' \in BOOLEAN
      BY <3>1, Zenon
    <3> QED
      BY <1>0, <3>1, <3>2, EmptySeq DEF TypeEvents
  <2>2. CASE p # Watched
    BY <1>1, <1>2, <2>2 DEF Exit, events
  <2> QED
    BY <2>1, <2>2
<1>3. CASE TailStarts \/ TailEnds
  BY <1>0, <1>3 DEF TailStarts, TailEnds, TypeEvents
<1>4. CASE TailLine
  <2>1. tail \in Packets /\ tail' \in 0 .. MaxEvents + 1
    BY <1>0, <1>4 DEF TailLine, TypeEvents, Packets
  <2>2. queue' \in Seq(Packets) /\ Len(queue') <= QueueCap
    BY <1>0, <1>4, <2>1 DEF TailLine, TypeEvents
  <2> QED
    BY <1>4, <2>1, <2>2 DEF TailLine, TypeEvents
<1>5. CASE Take
  <2>1. /\ queue \in Seq(Packets) /\ queue # <<>> /\ batch \in Seq(Packets)
        /\ Len(queue) <= QueueCap /\ Len(batch) < BatchMax
        /\ batch' = Append(batch, Head(queue)) /\ queue' = Tail(queue)
    BY <1>5 DEF Take, TypeEvents
  <2>2. /\ queue' \in Seq(Packets) /\ batch' \in Seq(Packets)
        /\ Len(queue') <= QueueCap /\ Len(batch') <= BatchMax
    BY <1>0, <2>1
  <2> QED
    BY <1>5, <2>2 DEF Take, TypeEvents
<1>6. CASE Flush
  <2>1. batch # <<>> /\ batch \in Seq(Packets)
    BY <1>6 DEF Flush, TypeEvents
  <2>2. batch[Len(batch)] \in Packets
    BY <2>1
  <2>3. stored' \in 0 .. MaxEvents
    <3>1. stored' \in {stored, batch[Len(batch)]}
      BY <1>6, Zenon DEF Flush, Stored
    <3> QED
      BY <1>0, <2>2, <3>1 DEF TypeEvents, Packets
  <2>4. again' \in BOOLEAN
    BY <1>6, Zenon DEF Flush, Stored, TypeEvents
  <2>5. batch' = <<>> /\ batch' \in Seq(Packets) /\ Len(batch') <= BatchMax
    BY <1>0, <1>6 DEF Flush
  <2> QED
    BY <1>6, <2>3, <2>4, <2>5 DEF Flush, TypeEvents
<1>7. CASE Log
  BY <1>0, <1>7 DEF Log, TypeEvents
<1> QED
  BY <1>1, <1>2, <1>3, <1>4, <1>5, <1>6, <1>7
  DEF Next, Start, Finalize, PassGate, ReadState, PostState, PostStateFails, Change,
      Managed, colvars

(* Every step keeps the types. *)
LEMMA TypedStep == Typed /\ [Next]_colvars => Typed'
BY TypedParts, TypedNext, TypeHostStep, TypeEventsStep

LEMMA TypedInit == Init => Typed
<1> SUFFICES ASSUME Init PROVE TypeHost /\ TypeEvents
  BY TypedParts
<1>1. base \in BOOLEAN /\ again \in BOOLEAN
  BY Zenon DEF Init
<1>2. TypeHost
  BY <1>1, CollectorAssumption DEF CollectorAssumption, Init, TypeHost, Idle
<1>3. TypeEvents
  BY <1>1, CollectorAssumption, EmptySeq DEF CollectorAssumption, Init, TypeEvents
<1> QED
  BY <1>2, <1>3

(* Every variable keeps its type: the queue and the batch never hold more than
   they are made for, and nothing but packets that were logged. *)
THEOREM TypeCorrect == Spec => []TypeOK
<1>1. Init => Typed
  BY TypedInit
<1>2. Typed => TypeOK
  BY DEF Typed
<1> QED
  BY <1>1, <1>2, TypedStep, PTL DEF Spec

-----------------------------------------------------------------------------
(* An event from the queue to the batch. *)
LEMMA TakeInOrder == EventInv /\ Take => InOrder'
<1> SUFFICES ASSUME EventInv, Take, host = "pf" PROVE InOrder'
  BY DEF InOrder, Take, machine
<1>1. /\ queue # <<>> /\ batch' = Append(batch, Head(queue)) /\ queue' = Tail(queue)
      /\ stored' = stored /\ again' = again /\ logged' = logged /\ tail' = tail
  BY DEF Take
<1>2. /\ queue \in Seq(Packets) /\ batch \in Seq(Packets)
      /\ stored \in Nat /\ logged \in Nat /\ tail \in Nat
  BY DEF EventInv, Typed, TypeOK
<1>3. /\ Len(batch') = Len(batch) + 1 /\ Len(queue') = Len(queue) - 1
      /\ Len(batch) \in Nat /\ Len(queue) \in Nat /\ Len(queue) > 0
      /\ \A i \in 1 .. Len(batch) : batch'[i] = batch[i] /\ batch[i] \in Nat
      /\ batch'[Len(batch) + 1] = queue[1]
      /\ \A j \in 1 .. Len(queue) - 1 : queue'[j] = queue[j + 1]
      /\ \A j \in 1 .. Len(queue) : queue[j] \in Nat
  <2>1. Head(queue) = queue[1] /\ queue[1] \in Packets
    BY <1>1, <1>2, SeqTail
  <2>2. /\ Len(batch') = Len(batch) + 1 /\ batch'[Len(batch) + 1] = queue[1]
        /\ \A i \in 1 .. Len(batch) : batch'[i] = batch[i]
    BY <1>1, <1>2, <2>1, SeqAppend
  <2>3. /\ Len(queue') = Len(queue) - 1 /\ Len(queue) > 0
        /\ \A j \in 1 .. Len(queue) - 1 : queue'[j] = queue[j + 1]
    BY <1>1, <1>2, SeqTail
  <2> QED
    BY <1>2, <2>2, <2>3, PacketNumbers
<1>4. Ordered /\ Behind(logged) /\ ~ again /\ (tail # 0 => tail <= logged + 1 /\ Behind(tail - 1))
  BY DEF EventInv, InOrder
<1>m. Len(batch) \in Nat /\ Len(batch') = Len(batch) + 1
  BY <1>3
<1>5. Rising(batch')
  <2> SUFFICES ASSUME NEW i \in 1 .. Len(batch'), NEW j \in 1 .. Len(batch'), i < j
               PROVE  batch'[i] < batch'[j]
    BY DEF Rising
  <2>1. i \in 1 .. Len(batch)
    BY <1>3
  <2>2. CASE j \in 1 .. Len(batch)
    BY <1>3, <1>4, <2>1, <2>2 DEF Ordered, Rising
  <2>3. CASE j = Len(batch) + 1
    BY <1>3, <1>4, <2>1, <2>3 DEF Ordered
  <2>4. j \in 1 .. Len(batch) \/ j = Len(batch) + 1
    BY <1>m
  <2> QED
    BY <2>2, <2>3, <2>4
<1>6. Rising(queue')
  <2> SUFFICES ASSUME NEW i \in 1 .. Len(queue'), NEW j \in 1 .. Len(queue'), i < j
               PROVE  queue'[i] < queue'[j]
    BY DEF Rising
  <2>1. i + 1 \in 1 .. Len(queue) /\ j + 1 \in 1 .. Len(queue) /\ i + 1 < j + 1
    BY <1>3
  <2>2. queue'[i] = queue[i + 1] /\ queue'[j] = queue[j + 1]
    BY <1>3
  <2> QED
    BY <1>4, <2>1, <2>2 DEF Ordered, Rising
<1>7. Ordered'
  <2>1. \A i \in 1 .. Len(batch') : stored < batch'[i]
    BY <1>3, <1>4 DEF Ordered
  <2>2. ASSUME NEW j \in 1 .. Len(queue'), NEW i \in 1 .. Len(batch')
        PROVE  batch'[i] < queue'[j]
    <3>1. j + 1 \in 1 .. Len(queue) /\ queue'[j] = queue[j + 1] /\ 1 < j + 1
      BY <1>3
    <3>2. CASE i \in 1 .. Len(batch)
      BY <1>3, <1>4, <3>1, <3>2 DEF Ordered
    <3>3. CASE i = Len(batch) + 1
      BY <1>3, <1>4, <3>1, <3>3 DEF Ordered, Rising
    <3> QED
      BY <1>3, <3>2, <3>3
  <2>3. ASSUME NEW j \in 1 .. Len(queue') PROVE stored < queue'[j]
    <3>1. j + 1 \in 1 .. Len(queue) /\ queue'[j] = queue[j + 1]
      BY <1>3
    <3> QED
      BY <1>4, <3>1 DEF Ordered
  <2> QED
    BY <1>1, <1>5, <1>6, <2>1, <2>2, <2>3 DEF Ordered, Rising
<1>8. ASSUME NEW n, Behind(n)
      PROVE  /\ \A i \in 1 .. Len(batch') : batch'[i] <= n
             /\ \A j \in 1 .. Len(queue') : queue'[j] <= n
  <2>1. ASSUME NEW i \in 1 .. Len(batch') PROVE batch'[i] <= n
    <3>1. i \in 1 .. Len(batch) \/ i = Len(batch) + 1
      BY <1>3
    <3>2. 1 \in 1 .. Len(queue)
      BY <1>3
    <3> QED
      BY <1>3, <1>8, <3>1, <3>2 DEF Behind
  <2>2. ASSUME NEW j \in 1 .. Len(queue') PROVE queue'[j] <= n
    <3>1. j + 1 \in 1 .. Len(queue) /\ queue'[j] = queue[j + 1]
      BY <1>3
    <3> QED
      BY <1>8, <3>1 DEF Behind
  <2> QED
    BY <2>1, <2>2
<1>9. Behind(logged)' /\ (tail' # 0 => Behind(tail - 1)')
  BY <1>1, <1>4, <1>8 DEF Behind
<1> QED
  BY <1>1, <1>4, <1>7, <1>9 DEF InOrder

(* A batch that is posted holds what the controller has not, in order. *)
LEMMA FlushInOrder == EventInv /\ Flush => InOrder'
<1> SUFFICES ASSUME EventInv, Flush, host = "pf" PROVE InOrder'
  BY DEF InOrder, Flush, machine
<1>1. /\ batch # <<>> /\ batch' = <<>> /\ (Stored \/ UNCHANGED <<stored, again>>)
      /\ queue' = queue /\ logged' = logged /\ tail' = tail
  BY DEF Flush
<1>2. /\ queue \in Seq(Packets) /\ batch \in Seq(Packets)
      /\ stored \in Nat /\ logged \in Nat /\ tail \in Nat
  BY DEF EventInv, Typed, TypeOK
<1>3. /\ Len(batch) \in Nat /\ Len(batch) > 0 /\ Len(queue) \in Nat
      /\ \A i \in 1 .. Len(batch) : batch[i] \in Nat
      /\ \A j \in 1 .. Len(queue) : queue[j] \in Nat
      /\ Len(batch') = 0
  BY <1>1, <1>2, SeqTail, PacketNumbers, EmptySeq
<1>4. Ordered /\ Behind(logged) /\ ~ again /\ (tail # 0 => tail <= logged + 1 /\ Behind(tail - 1))
  BY DEF EventInv, InOrder
<1>5. /\ ~ again'
      /\ stored' \in {stored, batch[Len(batch)]}
  <2>1. CASE Stored
    <3>1. ~ (batch[1] <= stored)
      BY <1>2, <1>3, <1>4 DEF Ordered
    <3>2. \A i \in 1 .. Len(batch) - 1 : ~ (batch[i + 1] <= batch[i])
      BY <1>3, <1>4 DEF Ordered, Rising
    <3> QED
      BY <1>4, <2>1, <3>1, <3>2 DEF Stored
  <2>2. CASE UNCHANGED <<stored, again>>
    BY <1>4, <2>2
  <2> QED
    BY <1>1, <2>1, <2>2
<1>6. Ordered'
  <2>1. \A j \in 1 .. Len(queue) : stored' < queue[j]
    BY <1>3, <1>4, <1>5 DEF Ordered
  <2>2. Rising(queue)' /\ Rising(batch)'
    BY <1>1, <1>3, <1>4 DEF Ordered, Rising
  <2> QED
    BY <1>1, <1>3, <2>1, <2>2 DEF Ordered
<1>7. ASSUME NEW n, Behind(n)
      PROVE /\ stored' <= n
            /\ \A i \in 1 .. Len(batch') : batch'[i] <= n
            /\ \A j \in 1 .. Len(queue') : queue'[j] <= n
  BY <1>1, <1>3, <1>5, <1>7 DEF Behind
<1>8. Behind(logged)' /\ (tail' # 0 => Behind(tail - 1)')
  BY <1>1, <1>4, <1>7 DEF Behind
<1> QED
  BY <1>1, <1>4, <1>5, <1>6, <1>8 DEF InOrder

(* A line of the tail is behind all the tail or one before it printed. *)
LEMMA LineInOrder == EventInv /\ TailLine => InOrder'
<1> SUFFICES ASSUME EventInv, TailLine, host = "pf" PROVE InOrder'
  BY DEF InOrder, TailLine, machine
<1>1. /\ tail # 0 /\ tail <= logged /\ queue' \in {queue, Append(queue, tail)}
      /\ tail' = tail + 1
      /\ batch' = batch /\ stored' = stored /\ again' = again /\ logged' = logged
  BY DEF TailLine
<1>2. /\ queue \in Seq(Packets) /\ batch \in Seq(Packets)
      /\ stored \in Nat /\ logged \in Nat /\ tail \in Nat
  BY DEF EventInv, Typed, TypeOK
<1>3. Ordered /\ Behind(logged) /\ ~ again /\ Behind(tail - 1)
  BY <1>1 DEF EventInv, InOrder
<1>4. /\ Len(queue) \in Nat /\ Len(batch) \in Nat
      /\ \A i \in 1 .. Len(batch) : batch[i] \in Nat
      /\ \A j \in 1 .. Len(queue) : queue[j] \in Nat
  BY <1>2, PacketNumbers
<1>5. CASE queue' = queue
  <2>1. Ordered' /\ Behind(logged)'
    BY <1>1, <1>3, <1>5 DEF Ordered, Behind, Rising
  <2>2. /\ stored' <= tail /\ \A i \in 1 .. Len(batch') : batch'[i] <= tail
        /\ \A j \in 1 .. Len(queue') : queue'[j] <= tail
    BY <1>1, <1>2, <1>3, <1>4, <1>5 DEF Behind
  <2>3. tail' <= logged' + 1 /\ tail' - 1 = tail
    BY <1>1, <1>2
  <2>4. (Behind(tail - 1))'
    BY <2>2, <2>3 DEF Behind
  <2> QED
    BY <1>1, <1>3, <2>1, <2>3, <2>4 DEF InOrder
<1>6. CASE queue' = Append(queue, tail)
  <2>1. /\ Len(queue') = Len(queue) + 1
        /\ \A j \in 1 .. Len(queue) : queue'[j] = queue[j]
        /\ queue'[Len(queue) + 1] = tail
    BY <1>2, <1>6
  <2>2. Rising(queue)'
    BY <1>2, <1>3, <1>4, <2>1 DEF Ordered, Rising, Behind
  <2>3. ASSUME NEW j \in 1 .. Len(queue')
        PROVE  /\ stored < queue'[j] /\ queue'[j] <= tail /\ queue'[j] <= logged
               /\ \A i \in 1 .. Len(batch) : batch[i] < queue'[j]
    <3>1. CASE j \in 1 .. Len(queue)
      BY <1>1, <1>2, <1>3, <1>4, <2>1, <3>1 DEF Ordered, Behind
    <3>2. CASE j = Len(queue) + 1
      BY <1>1, <1>2, <1>3, <1>4, <2>1, <3>2 DEF Behind
    <3> QED
      BY <1>4, <2>1, <3>1, <3>2
  <2>4. Ordered' /\ Behind(logged)'
    BY <1>1, <1>3, <2>2, <2>3 DEF Ordered, Behind, Rising
  <2>5. stored <= tail /\ \A i \in 1 .. Len(batch) : batch[i] <= tail
    BY <1>2, <1>3, <1>4 DEF Behind
  <2>6. tail' <= logged' + 1 /\ tail' - 1 = tail
    BY <1>1, <1>2
  <2>7. (Behind(tail - 1))'
    BY <1>1, <2>3, <2>5, <2>6 DEF Behind
  <2> QED
    BY <1>1, <1>3, <2>4, <2>6, <2>7 DEF InOrder
<1> QED
  BY <1>1, <1>5, <1>6

(* A tail that starts on pf starts at the end of the log. *)
LEMMA TailInOrder == EventInv /\ TailStarts => InOrder'
<1> SUFFICES ASSUME EventInv, TailStarts, host = "pf" PROVE InOrder'
  BY DEF InOrder, TailStarts, machine
<1>1. /\ tail' = logged + 1
      /\ UNCHANGED <<logged, queue, batch, stored, again>>
  BY DEF TailStarts
<1>2. logged \in Nat
  BY DEF EventInv, Typed, TypeOK
<1> QED
  BY <1>1, <1>2 DEF EventInv, InOrder, Ordered, Rising, Behind

LEMMA EventStep == EventInv /\ [Next]_colvars => EventInv'
<1> SUFFICES ASSUME EventInv, [Next]_colvars PROVE EventInv'
  OBVIOUS
<1>1. Typed'
  BY TypedStep DEF EventInv
<1>2. ASSUME UNCHANGED <<host, logged, tail, queue, batch, stored, again>> PROVE InOrder'
  BY <1>2 DEF EventInv, InOrder, Ordered, Rising, Behind
<1>3. ASSUME NEW p \in Procs,
             \/ Start(p) \/ Finalize(p) \/ PassGate(p)
             \/ ReadState(p) \/ PostState(p) \/ PostStateFails(p)
      PROVE  InOrder'
  BY <1>2, <1>3
  DEF Start, Finalize, PassGate, ReadState, PostState, PostStateFails, machine, events
<1>4. ASSUME NEW p \in Procs, Exit(p) PROVE InOrder'
  <2>1. CASE p = Watched
    <3>1. /\ tail' = 0 /\ queue' = <<>> /\ batch' = <<>> /\ stored' = 0 /\ again' = FALSE
          /\ logged' = logged
      BY <1>4, <2>1 DEF Exit
    <3>2. logged \in Nat
      BY DEF EventInv, Typed, TypeOK
    <3> QED
      BY <3>1, <3>2 DEF InOrder, Ordered, Rising, Behind
  <2>2. CASE p # Watched
    BY <1>2, <1>4, <2>2 DEF Exit, machine
  <2> QED
    BY <2>1, <2>2
<1>5. ASSUME TailEnds PROVE InOrder'
  <2>1. tail' = 0 /\ UNCHANGED <<host, logged, queue, batch, stored, again>>
    BY <1>5 DEF TailEnds, machine
  <2>2. again' <=> again
    BY <2>1, Zenon
  <2> QED
    BY <2>1, <2>2 DEF EventInv, InOrder, Ordered, Rising, Behind
<1>6. ASSUME Change \/ Managed PROVE InOrder'
  <2>1. UNCHANGED <<host, logged, tail, queue, batch, stored, again>>
    BY <1>6, Zenon DEF Change, Managed, machine, events
  <2> QED
    BY <1>2, <2>1, Zenon
<1>7. ASSUME Log PROVE InOrder'
  <2>1. /\ logged \in Nat /\ stored \in Nat /\ tail \in Nat
        /\ \A i \in 1 .. Len(batch) : batch[i] \in Nat
        /\ \A j \in 1 .. Len(queue) : queue[j] \in Nat
    BY PacketNumbers DEF EventInv, Typed, TypeOK
  <2>2. /\ logged' = logged + 1
        /\ UNCHANGED <<host, tail, queue, batch, stored, again>>
    BY <1>7 DEF Log, machine
  <2> QED
    BY <1>1, <2>1, <2>2 DEF EventInv, InOrder, Ordered, Rising, Behind
<1>8. ASSUME UNCHANGED colvars PROVE InOrder'
  <2>1. UNCHANGED <<host, logged, tail, queue, batch, stored, again>>
    BY <1>8 DEF colvars, machine, events
  <2> QED
    BY <1>2, <2>1, Zenon
<1> QED
  BY <1>1, <1>3, <1>4, <1>5, <1>6, <1>7, <1>8, TakeInOrder, FlushInOrder, LineInOrder,
     TailInOrder
  DEF Next, EventInv

(* On pf a process reports every packet at most once and in the order of the log,
   for any capacity of the queue and the batches, whichever posts and answers are
   lost and however often the tail is started again. *)
THEOREM EventsOnceHolds == Spec => []EventsOnce
<1>1. Init => EventInv
  <2> SUFFICES ASSUME Init PROVE InOrder
    BY TypedInit DEF EventInv
  <2>1. /\ Len(queue) = 0 /\ Len(batch) = 0 /\ ~ again
        /\ stored = 0 /\ logged = 0 /\ tail = 0
    BY EmptySeq DEF Init
  <2> QED
    BY <2>1 DEF InOrder, Ordered, Rising, Behind
<1>2. EventInv => EventsOnce
  BY DEF EventInv, InOrder, EventsOnce
<1> QED
  BY <1>1, <1>2, EventStep, PTL DEF Spec
=============================================================================
