---------------------------- MODULE ComputeTasks ----------------------------
(***************************************************************************)
(* The generic compute-task executor (compute_tasks.go): one polling loop  *)
(* per session, a single-flight drain shared by the loops of the old and   *)
(* the new session, a one-place wake channel they also share, and a        *)
(* semaphore whose slot is taken before a task is claimed and given back   *)
(* when its result was posted.                                             *)
(*                                                                         *)
(* Abstracted: a task is its identity and a handler is a step; the dock    *)
(* serves a request in one step; time is gone, so a ticker may fire        *)
(* whenever its loop is in the select.                                     *)
(***************************************************************************)
EXTENDS Integers, FiniteSets

CONSTANTS
  Tasks,        \* compute tasks the dock may queue
  NoTask,       \* no task
  MaxParallel,  \* computeMaxParallel, the size of computeSem
  MaxSessions,  \* bound: sessions of one agent process
  MaxFaults     \* bound: HTTP requests that fail while their context is live

ASSUME ComputeAssumption ==
  /\ IsFiniteSet(Tasks)
  /\ NoTask \notin Tasks
  /\ MaxParallel \in Nat /\ MaxParallel > 0
  /\ MaxSessions \in Nat
  /\ MaxFaults \in Nat

(* The loop of a session is named by its number. *)
Loops == 1..MaxSessions

VARIABLES
  connected,  \* the current session's context is live
  session,    \* how many sessions were opened so far
  task,       \* the life of each task, see TaskStates
  pc,         \* where each loop is
  reply,      \* the task in a loop's last claim reply
  wake,       \* computeWakeCh holds a token
  draining,   \* computeDraining
  slots,      \* how many slots of computeSem are taken
  faults      \* history: requests that failed under a live context

vars == <<connected, session, task, pc, reply, wake, draining, slots, faults>>
sessionVars == <<connected, session>>

-----------------------------------------------------------------------------
(* queued by the dock; claimed: dequeued, the reply not yet consumed;
   running: in its handler; reporting: its result is being posted; done: the
   dock has the result; lost: dequeued, and nobody will ever report it. *)
TaskStates ==
  {"new", "queued", "claimed", "running", "reporting", "done", "lost"}

(* entry: at drainCompute; select: in the loop's select; top: in the drain,
   before a slot; claim: holding a slot, request in flight; found and empty:
   the dock has answered. *)
Draining == {"top", "claim", "found", "empty"}
Labels == {"off", "entry", "select", "gone"} \cup Draining

CtxLive(l) == connected /\ l = session

TypeOK ==
  /\ connected \in BOOLEAN
  /\ session \in 0..MaxSessions
  /\ task \in [Tasks -> TaskStates]
  /\ pc \in [Loops -> Labels]
  /\ reply \in [Loops -> Tasks \cup {NoTask}]
  /\ wake \in BOOLEAN
  /\ draining \in BOOLEAN
  /\ slots \in 0..MaxParallel
  /\ faults \in 0..MaxFaults

Init ==
  /\ connected = FALSE
  /\ session = 0
  /\ task = [t \in Tasks |-> "new"]
  /\ pc = [l \in Loops |-> "off"]
  /\ reply = [l \in Loops |-> NoTask]
  /\ wake = FALSE
  /\ draining = FALSE
  /\ slots = 0
  /\ faults = 0

-----------------------------------------------------------------------------
(* Mutated handlers: not part of Next. *)

(* The slot is taken only when a task was claimed, in its goroutine. *)
AcquireLater(l) ==
  /\ pc[l] = "top"
  /\ pc' = [pc EXCEPT ![l] = "claim"]
  /\ slots' = slots + 1
  /\ UNCHANGED <<sessionVars, task, reply, wake, draining, faults>>

(* The drain is entered whether or not one runs. *)
EnterUnchecked(l) ==
  /\ pc[l] = "entry"
  /\ draining' = TRUE
  /\ pc' = [pc EXCEPT ![l] = "top"]
  /\ UNCHANGED <<sessionVars, task, reply, wake, slots, faults>>

(* The result is posted with the context of the session that claimed it. *)
ReportInSession(t) ==
  /\ task[t] = "reporting"
  /\ task' = [task EXCEPT ![t] = IF connected THEN "done" ELSE "lost"]
  /\ slots' = slots - 1
  /\ UNCHANGED <<sessionVars, pc, reply, wake, draining, faults>>

(* A handler hangs on the session that claimed its task. *)
HandlerEndsInSession(t) ==
  /\ task[t] = "running"
  /\ connected
  /\ task' = [task EXCEPT ![t] = "reporting"]
  /\ UNCHANGED <<sessionVars, pc, reply, wake, draining, slots, faults>>

(* A drain that ends on a cancelled context leaves its flag up. *)
LeaveDrainSilently(l) ==
  /\ pc[l] = "top"
  /\ ~CtxLive(l)
  /\ pc' = [pc EXCEPT ![l] = "select"]
  /\ UNCHANGED <<sessionVars, task, reply, wake, draining, slots, faults>>

-----------------------------------------------------------------------------
(* The session and the dock.                                               *)

Connect ==
  /\ ~connected
  /\ session < MaxSessions
  /\ connected' = TRUE
  /\ session' = session + 1
  /\ pc' = [pc EXCEPT ![session + 1] = "entry"]
  /\ UNCHANGED <<task, reply, wake, draining, slots, faults>>

Disconnect ==
  /\ connected
  /\ connected' = FALSE
  /\ UNCHANGED <<session, task, pc, reply, wake, draining, slots, faults>>

Enqueue(t) ==
  /\ task[t] = "new"
  /\ task' = [task EXCEPT ![t] = "queued"]
  /\ UNCHANGED <<sessionVars, pc, reply, wake, draining, slots, faults>>

(* wakeCompute on a task.wake frame: a full channel drops the token. *)
Wake ==
  /\ connected
  /\ ~wake
  /\ wake' = TRUE
  /\ UNCHANGED <<sessionVars, task, pc, reply, draining, slots, faults>>

-----------------------------------------------------------------------------
(* computeTaskLoop: the select takes any case that is ready, so the loop of
   an old session may still take the token or a tick meant for the new one. *)

TakeWake(l) ==
  /\ pc[l] = "select"
  /\ wake
  /\ wake' = FALSE
  /\ pc' = [pc EXCEPT ![l] = "entry"]
  /\ UNCHANGED <<sessionVars, task, reply, draining, slots, faults>>

Tick(l) ==
  /\ pc[l] = "select"
  /\ pc' = [pc EXCEPT ![l] = "entry"]
  /\ UNCHANGED <<sessionVars, task, reply, wake, draining, slots, faults>>

LoopEnds(l) ==
  /\ pc[l] = "select"
  /\ ~CtxLive(l)
  /\ pc' = [pc EXCEPT ![l] = "gone"]
  /\ UNCHANGED <<sessionVars, task, reply, wake, draining, slots, faults>>

-----------------------------------------------------------------------------
(* drainCompute.                                                           *)

(* A drain is running: return at once, and leave nothing behind. *)
EnterBusy(l) ==
  /\ pc[l] = "entry"
  /\ draining
  /\ pc' = [pc EXCEPT ![l] = "select"]
  /\ UNCHANGED <<sessionVars, task, reply, wake, draining, slots, faults>>

EnterDrain(l) ==
  /\ pc[l] = "entry"
  /\ ~draining
  /\ draining' = TRUE
  /\ pc' = [pc EXCEPT ![l] = "top"]
  /\ UNCHANGED <<sessionVars, task, reply, wake, slots, faults>>

(* The context is done, before or while waiting for a slot. *)
LeaveDrain(l) ==
  /\ pc[l] = "top"
  /\ ~CtxLive(l)
  /\ draining' = FALSE
  /\ pc' = [pc EXCEPT ![l] = "select"]
  /\ UNCHANGED <<sessionVars, task, reply, wake, slots, faults>>

(* "Don't claim more than we can run": a slot first, then the claim. *)
Acquire(l) ==
  /\ pc[l] = "top"
  /\ slots < MaxParallel
  /\ slots' = slots + 1
  /\ pc' = [pc EXCEPT ![l] = "claim"]
  /\ UNCHANGED <<sessionVars, task, reply, wake, draining, faults>>

(* The dock serves the claim: it dequeues a task, or answers 204. *)
ServeTask(l, t) ==
  /\ pc[l] = "claim"
  /\ CtxLive(l)
  /\ task[t] = "queued"
  /\ task' = [task EXCEPT ![t] = "claimed"]
  /\ reply' = [reply EXCEPT ![l] = t]
  /\ pc' = [pc EXCEPT ![l] = "found"]
  /\ UNCHANGED <<sessionVars, wake, draining, slots, faults>>

ServeEmpty(l) ==
  /\ pc[l] = "claim"
  /\ CtxLive(l)
  /\ \A t \in Tasks : task[t] # "queued"
  /\ pc' = [pc EXCEPT ![l] = "empty"]
  /\ UNCHANGED <<sessionVars, task, reply, wake, draining, slots, faults>>

(* A live request may fail MaxFaults times; one whose context is done does. *)
Fault(l) ==
  \/ ~CtxLive(l) /\ faults' = faults
  \/ CtxLive(l) /\ faults < MaxFaults /\ faults' = faults + 1

(* The claim failed: give the slot back and leave the drain.  A task the dock
   had dequeued for this reply is lost. *)
ClaimFails(l) ==
  /\ pc[l] \in {"claim", "found", "empty"}
  /\ Fault(l)
  /\ task' = [t \in Tasks |-> IF t = reply[l] THEN "lost" ELSE task[t]]
  /\ reply' = [reply EXCEPT ![l] = NoTask]
  /\ slots' = slots - 1
  /\ draining' = FALSE
  /\ pc' = [pc EXCEPT ![l] = "select"]
  /\ UNCHANGED <<sessionVars, wake>>

(* 204: give the slot back and leave the drain. *)
GotEmpty(l) ==
  /\ pc[l] = "empty"
  /\ slots' = slots - 1
  /\ draining' = FALSE
  /\ pc' = [pc EXCEPT ![l] = "select"]
  /\ UNCHANGED <<sessionVars, task, reply, wake, faults>>

(* The slot goes to the goroutine that runs the task; the drain goes on. *)
StartTask(l) ==
  /\ pc[l] = "found"
  /\ task' = [task EXCEPT ![reply[l]] = "running"]
  /\ reply' = [reply EXCEPT ![l] = NoTask]
  /\ pc' = [pc EXCEPT ![l] = "top"]
  /\ UNCHANGED <<sessionVars, wake, draining, slots, faults>>

-----------------------------------------------------------------------------
(* runComputeTask.                                                         *)

(* The handler returns, fails, panics into safeRunHandler, or is missing. *)
HandlerEnds(t) ==
  /\ task[t] = "running"
  /\ task' = [task EXCEPT ![t] = "reporting"]
  /\ UNCHANGED <<sessionVars, pc, reply, wake, draining, slots, faults>>

(* The result is posted once, with a context of its own, and the goroutine
   ends: its deferred receive frees the slot. *)
Report(t) ==
  /\ task[t] = "reporting"
  /\ \/ task' = [task EXCEPT ![t] = "done"] /\ faults' = faults
     \/ /\ faults < MaxFaults
        /\ faults' = faults + 1
        /\ task' = [task EXCEPT ![t] = "lost"]
  /\ slots' = slots - 1
  /\ UNCHANGED <<sessionVars, pc, reply, wake, draining>>

-----------------------------------------------------------------------------
Next ==
  \/ Connect \/ Disconnect \/ Wake
  \/ \E t \in Tasks : Enqueue(t) \/ HandlerEnds(t) \/ Report(t)
  \/ \E l \in Loops :
       \/ TakeWake(l) \/ Tick(l) \/ LoopEnds(l)
       \/ EnterBusy(l) \/ EnterDrain(l) \/ LeaveDrain(l) \/ Acquire(l)
       \/ ServeEmpty(l) \/ ClaimFails(l) \/ GotEmpty(l) \/ StartTask(l)
  \/ \E l \in Loops, t \in Tasks : ServeTask(l, t)

Spec == Init /\ [][Next]_vars

Serve(l) == ServeEmpty(l) \/ \E t \in Tasks : ServeTask(l, t)

(* Goroutines run, the ticker of a live loop fires, the dock answers, and a
   handler ends.  Nothing obliges a doorbell to ring.  A select takes a random
   ready case, so a dead loop that keeps coming back to it leaves in the end. *)
Fairness ==
  /\ \A l \in Loops :
       /\ WF_vars(CtxLive(l) /\ Tick(l)) /\ SF_vars(LoopEnds(l))
       /\ WF_vars(EnterBusy(l) \/ EnterDrain(l)) /\ WF_vars(LeaveDrain(l))
       /\ WF_vars(Acquire(l))
       /\ WF_vars(Serve(l)) /\ WF_vars(~CtxLive(l) /\ ClaimFails(l))
       /\ WF_vars(GotEmpty(l)) /\ WF_vars(StartTask(l))
  /\ \A t \in Tasks : WF_vars(HandlerEnds(t)) /\ WF_vars(Report(t))

FairSpec == Spec /\ Fairness

-----------------------------------------------------------------------------
(* Properties.                                                             *)

(* The drains of an old and a new session never claim at the same time. *)
SingleDrain ==
  /\ \A l, m \in Loops : pc[l] \in Draining /\ pc[m] \in Draining => l = m
  /\ draining <=> \E l \in Loops : pc[l] \in Draining

(* The tasks whose goroutine has not ended, and the loops past Acquire. *)
Occupants == {t \in Tasks : task[t] \in {"running", "reporting"}}
Claiming == {l \in Loops : pc[l] \in {"claim", "found", "empty"}}

(* No path through claim, failure, 204, handler and report leaks a slot or
   frees one twice, so the agent never claims more than it can run. *)
SlotAccounting == slots = Cardinality(Occupants) + Cardinality(Claiming)

(* What the dock believes this agent runs, what nobody will report any more, and
   the sessions that ended. *)
Backlog == {t \in Tasks : task[t] \in {"claimed", "running", "reporting"}}
Lost == {t \in Tasks : task[t] = "lost"}
Ended == session - (IF connected THEN 1 ELSE 0)

(* "a task isn't marked running while it sits in our local backlog": what the
   dock believes running is bounded by the slots. *)
NoBacklog == Cardinality(Backlog) <= MaxParallel

(* "so a dying session can still deliver": a failed request or the end of a
   session loses at most the one task in its claim reply; a task that reached
   its handler is reported whatever became of the session. *)
LossBound == Cardinality(Lost) <= faults + Ended

(* Drains, sessions, replies and slots put together do what a ledger with
   MaxParallel lines does: a task is taken when a line is free, is worked on once,
   and is answered, or given up for a request that failed or a session that ended,
   and for one of those no second task. *)
Ledger == INSTANCE TaskLedger WITH
  Capacity <- MaxParallel,
  waiting <- {t \in Tasks : task[t] = "queued"},
  out <- Backlog,
  ended <- {t \in Tasks : task[t] = "done"},
  dropped <- Lost,
  outages <- faults + Ended - Cardinality(Lost)
RefinesLedger == Ledger!Spec

(* A queued task is claimed while the agent stays connected: what a busy drain
   or a dead loop does to the wake token, the ticker makes good. *)
QueuedIsClaimed ==
  \A t \in Tasks :
    (task[t] = "queued" /\ connected) ~> (task[t] # "queued" \/ ~connected)

(* A claimed task is not forgotten: it is reported, or its report or its claim
   reply was lost. *)
ClaimedEnds ==
  \A t \in Tasks : task[t] = "claimed" ~> task[t] \in {"done", "lost"}
=============================================================================
