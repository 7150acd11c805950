------------------------------ MODULE Collector ------------------------------
(***************************************************************************)
(* The collectors of fw_collector.go and route_collector.go, which every   *)
(* agent process of a machine starts: a lock file lets one of them work,   *)
(* which then reports the state of the machine and, for the firewall,      *)
(* tails the log of blocked packets into a bounded queue and posts them in *)
(* batches.                                                                *)
(*                                                                         *)
(* Abstracted: the state report is the recorded hash it carries, an event  *)
(* its number; the lock file can be opened.  The controller, the log tool  *)
(* and the network are external; processes start and end at any time.      *)
(***************************************************************************)
EXTENDS Naturals, Sequences

CONSTANTS
  Procs,      \* the agent processes of the machine
  Watched,    \* the one whose events are followed
  Free,       \* nobody holds the lock file
  Roles,      \* the collectors to consider, "fw" and "route"
  Hosts,      \* the machines to consider, "pf" and "linux"
  QueueCap,   \* fwEventBufferCap
  BatchMax,   \* fwEventBatchMax
  MaxChanges, \* bound: changes of the recorded hash
  MaxEvents   \* bound: packets logged

ASSUME CollectorAssumption ==
  /\ Free \notin Procs /\ Watched \in Procs
  /\ Roles \subseteq {"fw", "route"} /\ Hosts \subseteq {"pf", "linux"}
  /\ QueueCap \in Nat \ {0} /\ BatchMax \in Nat \ {0}
  /\ MaxChanges \in Nat /\ MaxEvents \in Nat

VARIABLES
  role, host, \* which collector, on which machine
  flock,      \* the process that holds collector.lock
  proc,       \* off; gate: waits for base_url; active; gone: its loop returned
  base,       \* base_url is known, and for fw the machine is managed
  hash,       \* current.hash
  shown,      \* the hash the controller was told last
  report,     \* the hash each state report in flight carries, or idle
  logged,     \* packets logged so far
  tail,       \* the next packet its tail prints; 0: it is not running
  queue,      \* events
  batch,      \* batch of flushLoop
  stored,     \* the last event the controller got from it
  again       \* history: that was not a later one than those before

machine == <<role, host>>
events == <<logged, tail, queue, batch, stored, again>>
colvars == <<machine, flock, proc, base, hash, shown, report, events>>

Idle == MaxChanges + 1
Active(p) == proc[p] = "active"

-----------------------------------------------------------------------------
TypeOK ==
  /\ role \in Roles /\ host \in Hosts
  /\ flock \in Procs \cup {Free}
  /\ proc \in [Procs -> {"off", "gate", "active", "gone"}]
  /\ base \in BOOLEAN
  /\ hash \in 0 .. MaxChanges /\ shown \in 0 .. MaxChanges
  /\ report \in [Procs -> 0 .. Idle]
  /\ logged \in 0 .. MaxEvents
  /\ tail \in 0 .. MaxEvents + 1
  /\ stored \in 0 .. MaxEvents /\ again \in BOOLEAN
  /\ Len(queue) <= QueueCap /\ Len(batch) <= BatchMax

Init ==
  /\ role \in Roles /\ host \in Hosts
  /\ flock = Free
  /\ proc = [p \in Procs |-> "off"]
  /\ base = FALSE
  /\ hash = 0 /\ shown = 0
  /\ report = [p \in Procs |-> Idle]
  /\ logged = 0
  /\ tail = 0 /\ queue = <<>> /\ batch = <<>>
  /\ stored = 0 /\ again = FALSE

(* A batch reaches the controller. *)
Stored ==
  /\ stored' = batch[Len(batch)]
  /\ again' = \/ again \/ batch[1] <= stored
              \/ \E i \in 1 .. Len(batch) - 1 : batch[i + 1] <= batch[i]

-----------------------------------------------------------------------------
(* Mutated operators. *)

(* A batch that was not acknowledged is kept for the next flush. *)
FlushKeeps ==
  /\ Active(Watched) /\ batch # <<>>
  /\ Stored \/ UNCHANGED <<stored, again>>
  /\ batch' \in {<<>>, batch}
  /\ UNCHANGED <<machine, flock, proc, base, hash, shown, report, logged, tail,
                 queue>>

(* The hash is read once, when the process starts to collect. *)
ReadStateOnce(p) ==
  /\ Active(p) /\ report[p] = Idle
  /\ report' = [report EXCEPT ![p] = 0]
  /\ UNCHANGED <<machine, flock, proc, base, hash, shown, events>>

-----------------------------------------------------------------------------
(* startFirewallCollector, routeCollectorLoop: take the lock, without waiting.
   The loser's loop returns for good. *)
Start(p) ==
  /\ proc[p] = "off"
  /\ \/ /\ flock = Free
        /\ flock' = p
        /\ proc' = [proc EXCEPT ![p] = "gate"]
     \/ /\ flock # Free
        /\ proc' = [proc EXCEPT ![p] = "gone"]
        /\ UNCHANGED flock
  /\ UNCHANGED <<machine, base, hash, shown, report, events>>

(* The firewall collector drops its os.File when acquireLock returns: the
   garbage collector closes the descriptor, and the lock with it.  The route
   collector keeps it in lockFile. *)
Finalize(p) ==
  /\ role = "fw" /\ flock = p
  /\ flock' = Free
  /\ UNCHANGED <<machine, proc, base, hash, shown, report, events>>

(* baseURL, asked again every minute. *)
PassGate(p) ==
  /\ proc[p] = "gate" /\ base
  /\ proc' = [proc EXCEPT ![p] = "active"]
  /\ UNCHANGED <<machine, flock, base, hash, shown, report, events>>

(* The process ends, and with it its lock and all it held. *)
Exit(p) ==
  /\ proc[p] # "off"
  /\ proc' = [proc EXCEPT ![p] = "off"]
  /\ flock' = IF flock = p THEN Free ELSE flock
  /\ report' = [report EXCEPT ![p] = Idle]
  /\ IF p = Watched
     THEN /\ tail' = 0 /\ queue' = <<>> /\ batch' = <<>>
          /\ stored' = 0 /\ again' = FALSE
     ELSE UNCHANGED <<tail, queue, batch, stored, again>>
  /\ UNCHANGED <<machine, base, hash, shown, logged>>

-----------------------------------------------------------------------------
(* reportState: current.hash read, the tables listed, then the post. *)
ReadState(p) ==
  /\ Active(p) /\ report[p] = Idle
  /\ report' = [report EXCEPT ![p] = hash]
  /\ UNCHANGED <<machine, flock, proc, base, hash, shown, events>>

PostState(p) ==
  /\ Active(p) /\ report[p] # Idle /\ base
  /\ shown' = report[p]
  /\ report' = [report EXCEPT ![p] = Idle]
  /\ UNCHANGED <<machine, flock, proc, base, hash, events>>

(* A failed report is only logged; the next tick sends another. *)
PostStateFails(p) ==
  /\ Active(p) /\ report[p] # Idle
  /\ report' = [report EXCEPT ![p] = Idle]
  /\ UNCHANGED <<machine, flock, proc, base, hash, shown, events>>

-----------------------------------------------------------------------------
(* tailOnce: the tool starts at the end of the log on pf; journalctl and dmesg
   print the tail of it again. *)
TailStarts ==
  /\ Active(Watched) /\ role = "fw" /\ tail = 0
  /\ \E next \in 1 .. logged + 1 :
       /\ host = "pf" => next = logged + 1
       /\ tail' = next
  /\ UNCHANGED <<machine, flock, proc, base, hash, shown, report, logged, queue,
                 batch, stored, again>>

(* It ends, or could not start; eventLoop tries again after a pause. *)
TailEnds ==
  /\ tail # 0
  /\ tail' = 0
  /\ UNCHANGED <<machine, flock, proc, base, hash, shown, report, logged, queue,
                 batch, stored, again>>

(* A line that parses goes to the queue, unless that is full. *)
TailLine ==
  /\ tail # 0 /\ tail <= logged
  /\ queue' = IF Len(queue) < QueueCap THEN Append(queue, tail) ELSE queue
  /\ tail' = tail + 1
  /\ UNCHANGED <<machine, flock, proc, base, hash, shown, report, logged, batch,
                 stored, again>>

(* flushLoop *)
Take ==
  /\ queue # <<>> /\ Len(batch) < BatchMax
  /\ batch' = Append(batch, Head(queue))
  /\ queue' = Tail(queue)
  /\ UNCHANGED <<machine, flock, proc, base, hash, shown, report, logged, tail,
                 stored, again>>

(* Every five seconds and when the batch is full.  The post may be lost, and so
   may its answer; the batch is emptied whatever came of it. *)
Flush ==
  /\ Active(Watched) /\ batch # <<>>
  /\ Stored \/ UNCHANGED <<stored, again>>
  /\ batch' = <<>>
  /\ UNCHANGED <<machine, flock, proc, base, hash, shown, report, logged, tail,
                 queue>>

-----------------------------------------------------------------------------
(* The transactions write current.hash and base_url, packets are logged. *)
Change ==
  /\ hash < MaxChanges
  /\ hash' = hash + 1
  /\ UNCHANGED <<machine, flock, proc, base, shown, report, events>>

Managed ==
  /\ ~ base
  /\ base' = TRUE
  /\ UNCHANGED <<machine, flock, proc, hash, shown, report, events>>

Log ==
  /\ role = "fw" /\ logged < MaxEvents
  /\ logged' = logged + 1
  /\ UNCHANGED <<machine, flock, proc, base, hash, shown, report, tail, queue,
                 batch, stored, again>>

-----------------------------------------------------------------------------
Next ==
  \/ \E p \in Procs :
       \/ Start(p) \/ Finalize(p) \/ PassGate(p) \/ Exit(p)
       \/ ReadState(p) \/ PostState(p) \/ PostStateFails(p)
  \/ TailStarts \/ TailEnds \/ TailLine \/ Take \/ Flush
  \/ Change \/ Managed \/ Log

Spec == Init /\ [][Next]_colvars

(* Tickers fire; a network that works again and again carries a report in the
   end. *)
Fairness ==
  /\ \A p \in Procs : WF_colvars(PassGate(p) \/ ReadState(p)) /\ SF_colvars(PostState(p))
  /\ WF_colvars(Take) /\ WF_colvars(Flush)

FairSpec == Spec /\ Fairness

-----------------------------------------------------------------------------
(* "One per machine": otherwise events and state are reported as many times as
   there are instances.  The route collector keeps to it. *)
Collecting == {p \in Procs : proc[p] \in {"gate", "active"}}
OneCollector == \A p, q \in Collecting : p = q
(* On pf a process reports every packet at most once and in the order of the
   log, whichever posts and answers are lost and however often the tail is
   started again. *)
EventsOnce ==
  host = "pf" => ~ again

(* While any process keeps collecting, the machine ends up reporting what it has:
   the hash of the last transaction, although reports of an earlier one, its own
   or another process's, may overtake it. *)
HashReported ==
  \A p \in Procs : (<>[] Active(p)) => <>[] (shown = hash)

=============================================================================
