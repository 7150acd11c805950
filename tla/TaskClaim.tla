----------------------------- MODULE TaskClaim -----------------------------
(***************************************************************************)
(* The agent's pull dispatch of research runs (agent_task_claim.go) under  *)
(* the sessions that trigger it (loop.go).  The dock keeps a queue of runs *)
(* and rings a task.wake doorbell over the WebSocket; every doorbell and   *)
(* every connect starts a goroutine running drainClaims, and all of them   *)
(* coalesce on the package variables draining and drainPending.            *)
(*                                                                         *)
(* Abstracted: the envelope of a run is its identity; an HTTP request is   *)
(* served by the dock in one step, and any failure of it (transport,       *)
(* timeout, status >= 400, undecodable body, cancelled context) is         *)
(* ClaimFail, before or after the dock served it.                          *)
(***************************************************************************)
EXTENDS Naturals

CONSTANTS
  Runs,         \* the research runs the dock may dispatch
  Calls,        \* goroutines that run drainClaims (bounds how many overlap)
  NoRun,        \* the reply of a goroutine that holds no run
  MaxSessions,  \* bound: WebSocket sessions of one agent process
  MaxBells,     \* bound: task.wake frames in flight at once
  Faults        \* whether an HTTP request may fail while its context is live

ASSUME ClaimAssumption ==
  /\ NoRun \notin Runs
  /\ MaxSessions \in Nat
  /\ MaxBells \in Nat
  /\ Faults \in BOOLEAN

VARIABLES
  link,      \* the current session: down, open, or closing (stopAll running)
  session,   \* how many sessions were opened so far
  bells,     \* task.wake frames in flight to the read loop
  run,       \* the life of each run, see RunStates
  owner,     \* the session whose context each run's task uses
  pc,        \* where each drainClaims goroutine is
  sess,      \* the session whose context each goroutine uses
  reply,     \* the run in a goroutine's last claim reply
  draining, drainPending,   \* the package variables of drainClaims
  excused    \* history: runs that waited when a claim failed under a live
             \* context, or when a wake joined the drain of an ended session

vars == <<link, session, bells, run, owner, pc, sess, reply,
          draining, drainPending, excused>>
sessionVars == <<link, session, bells>>
flags == <<draining, drainPending>>

-----------------------------------------------------------------------------
(* Types and state predicates.                                             *)

(* new: unknown to the dock; claimed: dequeued by the dock, the reply not  *)
(* yet consumed; running: runResearchTask has it; done: its result reached *)
(* the dock; lost: dequeued, and nobody will ever report it.               *)
RunStates == {"new", "queued", "claimed", "running", "done", "lost"}

(* enter: spawned, before drainMu; pass: at the top of the outer loop;     *)
(* more: at the top of the inner loop after a run; sent: request in        *)
(* flight; found / empty: the dock answered 200 / 204; settle: left the    *)
(* inner loop, before drainMu.                                             *)
Body == {"pass", "more", "sent", "found", "empty", "settle"}
Labels == {"idle", "enter"} \cup Body

Queued == {r \in Runs : run[r] = "queued"}

(* The context of session s: cancelled only after stopAll, when runOneSession
   returns. *)
CtxLive(s) == s = session /\ link # "down"

TypeOK ==
  /\ link \in {"down", "open", "closing"}
  /\ session \in Nat
  /\ bells \in Nat
  /\ run \in [Runs -> RunStates]
  /\ owner \in [Runs -> Nat]
  /\ pc \in [Calls -> Labels]
  /\ sess \in [Calls -> Nat]
  /\ reply \in [Calls -> Runs \cup {NoRun}]
  /\ draining \in BOOLEAN
  /\ drainPending \in BOOLEAN
  /\ excused \subseteq Runs

Init ==
  /\ link = "down"
  /\ session = 0
  /\ bells = 0
  /\ run = [r \in Runs |-> "new"]
  /\ owner = [r \in Runs |-> 0]
  /\ pc = [c \in Calls |-> "idle"]
  /\ sess = [c \in Calls |-> 0]
  /\ reply = [c \in Calls |-> NoRun]
  /\ draining = FALSE
  /\ drainPending = FALSE
  /\ excused = {}

-----------------------------------------------------------------------------
(* Mutated handlers: not part of Next.  Each is a bug the handler it is named
   after could plausibly have, and some property must notice it. *)

(* A wake that finds a drain running returns without a trace. *)
EnterJoinForgets(c) ==
  /\ pc[c] = "enter"
  /\ draining
  /\ pc' = [pc EXCEPT ![c] = "idle"]
  /\ UNCHANGED <<sessionVars, run, owner, sess, reply, flags, excused>>

(* Check and set of draining under two separate locks. *)
EnterDrainUnchecked(c) ==
  /\ pc[c] = "enter"
  /\ draining' = TRUE
  /\ pc' = [pc EXCEPT ![c] = "pass"]
  /\ UNCHANGED <<sessionVars, run, owner, sess, reply, drainPending, excused>>

(* The pending flag is cleared but the drain does not go round again. *)
SettleAgainStops(c) ==
  /\ pc[c] = "settle"
  /\ drainPending
  /\ drainPending' = FALSE
  /\ draining' = FALSE
  /\ pc' = [pc EXCEPT ![c] = "idle"]
  /\ UNCHANGED <<sessionVars, run, owner, sess, reply, excused>>

(* The drain stops without looking at the pending flag. *)
SettleStopBlind(c) ==
  /\ pc[c] = "settle"
  /\ draining' = FALSE
  /\ pc' = [pc EXCEPT ![c] = "idle"]
  /\ UNCHANGED <<sessionVars, run, owner, sess, reply, drainPending, excused>>

-----------------------------------------------------------------------------
(* The session: runOneSession and the dock's side of the WebSocket.        *)

(* go drainClaims(ctx, ...) with the context of session s. *)
Spawn(c, s) ==
  /\ pc[c] = "idle"
  /\ pc' = [pc EXCEPT ![c] = "enter"]
  /\ sess' = [sess EXCEPT ![c] = s]

(* A session opens; the backlog drain starts before the read loop does. *)
Connect(c) ==
  /\ link = "down"
  /\ session < MaxSessions
  /\ link' = "open"
  /\ session' = session + 1
  /\ Spawn(c, session + 1)
  /\ UNCHANGED <<bells, run, owner, reply, flags, excused>>

(* The read loop returns an error: frames in flight are gone, stopAll runs. *)
ReadError ==
  /\ link = "open"
  /\ link' = "closing"
  /\ bells' = 0
  /\ UNCHANGED <<session, run, owner, pc, sess, reply, flags, excused>>

(* stopAll is done and the deferred cancel ends the session's context. *)
CancelSession ==
  /\ link = "closing"
  /\ link' = "down"
  /\ UNCHANGED <<session, bells, run, owner, pc, sess, reply, flags, excused>>

(* The dock queues a run durably and rings when the agent is connected. *)
Enqueue(r) ==
  /\ run[r] = "new"
  /\ run' = [run EXCEPT ![r] = "queued"]
  /\ \/ link = "open" /\ bells < MaxBells /\ bells' = bells + 1
     \/ link # "open" /\ bells' = bells
  /\ UNCHANGED <<link, session, owner, pc, sess, reply, flags, excused>>

(* The same doorbell also announces compute tasks: the queue may be empty. *)
RingForCompute ==
  /\ link = "open"
  /\ bells < MaxBells
  /\ bells' = bells + 1
  /\ UNCHANGED <<link, session, run, owner, pc, sess, reply, flags, excused>>

(* The read loop takes a task.wake frame. *)
Wake(c) ==
  /\ link = "open"
  /\ bells > 0
  /\ bells' = bells - 1
  /\ Spawn(c, session)
  /\ UNCHANGED <<link, session, run, owner, reply, flags, excused>>

(* The read loop takes a research_task frame: the dock pushed the run. *)
PushTask(r) ==
  /\ link = "open"
  /\ run[r] = "new"
  /\ run' = [run EXCEPT ![r] = "running"]
  /\ owner' = [owner EXCEPT ![r] = session]
  /\ UNCHANGED <<sessionVars, pc, sess, reply, flags, excused>>

-----------------------------------------------------------------------------
(* drainClaims and claimTask.                                              *)

(* The single-flight gate: join the running drain, or become it. *)
EnterJoin(c) ==
  /\ pc[c] = "enter"
  /\ draining
  /\ drainPending' = TRUE
  /\ pc' = [pc EXCEPT ![c] = "idle"]
  /\ excused' = IF \E d \in Calls : pc[d] \in Body /\ ~CtxLive(sess[d])
                THEN excused \cup Queued ELSE excused
  /\ UNCHANGED <<sessionVars, run, owner, sess, reply, draining>>

EnterDrain(c) ==
  /\ pc[c] = "enter"
  /\ ~draining
  /\ draining' = TRUE
  /\ pc' = [pc EXCEPT ![c] = "pass"]
  /\ UNCHANGED <<sessionVars, run, owner, sess, reply, drainPending, excused>>

SendClaim(c) ==
  /\ pc[c] \in {"pass", "more"}
  /\ CtxLive(sess[c])
  /\ pc' = [pc EXCEPT ![c] = "sent"]
  /\ UNCHANGED <<sessionVars, run, owner, sess, reply, flags, excused>>

(* The dock serves the claim: it dequeues a run, or answers 204. *)
ServeRun(c, r) ==
  /\ pc[c] = "sent"
  /\ run[r] = "queued"
  /\ run' = [run EXCEPT ![r] = "claimed"]
  /\ reply' = [reply EXCEPT ![c] = r]
  /\ pc' = [pc EXCEPT ![c] = "found"]
  /\ UNCHANGED <<sessionVars, owner, sess, flags, excused>>

ServeEmpty(c) ==
  /\ pc[c] = "sent"
  /\ Queued = {}
  /\ pc' = [pc EXCEPT ![c] = "empty"]
  /\ UNCHANGED <<sessionVars, run, owner, sess, reply, flags, excused>>

(* A claimed envelope runs in its own goroutine; the drain claims again. *)
StartTask(c) ==
  /\ pc[c] = "found"
  /\ run' = [run EXCEPT ![reply[c]] = "running"]
  /\ owner' = [owner EXCEPT ![reply[c]] = sess[c]]
  /\ reply' = [reply EXCEPT ![c] = NoRun]
  /\ pc' = [pc EXCEPT ![c] = "more"]
  /\ UNCHANGED <<sessionVars, sess, flags, excused>>

GotEmpty(c) ==
  /\ pc[c] = "empty"
  /\ pc' = [pc EXCEPT ![c] = "settle"]
  /\ UNCHANGED <<sessionVars, run, owner, sess, reply, flags, excused>>

(* claimTask returns an error: the drain logs it and leaves the inner loop.
   A run the dock had already dequeued for this reply is lost. *)
ClaimFail(c) ==
  /\ pc[c] \in {"pass", "more", "sent", "found", "empty"}
  /\ Faults \/ ~CtxLive(sess[c])
  /\ pc' = [pc EXCEPT ![c] = "settle"]
  /\ run' = IF pc[c] = "found" THEN [run EXCEPT ![reply[c]] = "lost"] ELSE run
  /\ reply' = [reply EXCEPT ![c] = NoRun]
  /\ excused' = IF CtxLive(sess[c]) THEN excused \cup Queued ELSE excused
  /\ UNCHANGED <<sessionVars, owner, sess, flags>>

(* Under drainMu: a wake arrived mid-drain, so loop again; or stop. *)
SettleAgain(c) ==
  /\ pc[c] = "settle"
  /\ drainPending
  /\ drainPending' = FALSE
  /\ pc' = [pc EXCEPT ![c] = "pass"]
  /\ UNCHANGED <<sessionVars, run, owner, sess, reply, draining, excused>>

SettleStop(c) ==
  /\ pc[c] = "settle"
  /\ ~drainPending
  /\ draining' = FALSE
  /\ pc' = [pc EXCEPT ![c] = "idle"]
  /\ UNCHANGED <<sessionVars, run, owner, sess, reply, drainPending, excused>>

(* runResearchTask ends and posts its result once, with the session's
   context: a cancelled context or a failed post leaves no result. *)
FinishTask(r) ==
  /\ run[r] = "running"
  /\ \/ CtxLive(owner[r]) /\ run' = [run EXCEPT ![r] = "done"]
     \/ (Faults \/ ~CtxLive(owner[r])) /\ run' = [run EXCEPT ![r] = "lost"]
  /\ UNCHANGED <<sessionVars, owner, pc, sess, reply, flags, excused>>

-----------------------------------------------------------------------------
Enter(c) == EnterJoin(c) \/ EnterDrain(c)
Settle(c) == SettleAgain(c) \/ SettleStop(c)
Serve(c) == ServeEmpty(c) \/ \E r \in Runs : ServeRun(c, r)

Next ==
  \/ ReadError
  \/ CancelSession
  \/ RingForCompute
  \/ \E c \in Calls :
       \/ Connect(c) \/ Wake(c)
       \/ EnterJoin(c) \/ EnterDrain(c)
       \/ SendClaim(c) \/ ServeEmpty(c)
       \/ StartTask(c) \/ GotEmpty(c) \/ ClaimFail(c)
       \/ SettleAgain(c) \/ SettleStop(c)
  \/ \E r \in Runs : Enqueue(r) \/ PushTask(r) \/ FinishTask(r)
  \/ \E c \in Calls, r \in Runs : ServeRun(c, r)

Spec == Init /\ [][Next]_vars

(* The goroutines, the dock's HTTP handler and the read loop keep running;
   nothing obliges a session to open or to fail, a run to be enqueued, or a
   request to fail while its context is live. *)
Fairness ==
  /\ \A c \in Calls :
       /\ WF_vars(Enter(c)) /\ WF_vars(Settle(c))
       /\ WF_vars(SendClaim(c)) /\ WF_vars(Serve(c))
       /\ WF_vars(StartTask(c)) /\ WF_vars(GotEmpty(c))
       /\ WF_vars(~CtxLive(sess[c]) /\ ClaimFail(c))
  /\ WF_vars(\E c \in Calls : Wake(c))
  /\ \A r \in Runs : WF_vars(FinishTask(r))

FairSpec == Spec /\ Fairness

-----------------------------------------------------------------------------
(* Properties.                                                             *)

(* "drainState single-flights drainClaims: only one drain runs at a time":
   the draining flag is up exactly while one goroutine, whichever session
   spawned it, is in the body of drainClaims, and nobody stops with a pending
   wake left behind for a drain that does not run. *)
SingleFlight ==
  /\ \A c, d \in Calls : pc[c] \in Body /\ pc[d] \in Body => c = d
  /\ draining <=> \E c \in Calls : pc[c] \in Body
  /\ drainPending => draining

(* Something is still going to look at the queue with a context that lives: a
   doorbell on the wire, a goroutine of this session about to enter, or its
   drain, when a flag is pending or the dock has not answered it with 204. *)
Attended ==
  \/ bells > 0
  \/ \E c \in Calls :
       /\ sess[c] = session
       /\ \/ pc[c] \in {"enter", "pass", "more", "sent", "found"}
          \/ drainPending /\ pc[c] \in Body

(* "no lost task between a 204 and a fresh enqueue", and "drains once on every
   (re)connect": while the agent is connected a queued run is attended, whatever
   drains of ended sessions still fail; unless, while it waited, a claim of a
   live session failed, or a wake was left to the drain of an ended one. *)
NoLostWake ==
  link = "open" /\ ~(Queued \subseteq excused) => Attended

(* A run queued while the agent is connected, or before, is claimed, unless the
   link drops first, or it is excused as above. *)
QueuedIsClaimed ==
  \A r \in Runs :
    (run[r] = "queued" /\ link = "open") ~>
      (run[r] # "queued" \/ link # "open" \/ r \in excused)

(* The coalescing implements the abstract doorbell. *)
Bell == INSTANCE Doorbell WITH
  door <- \E c \in Calls : pc[c] = "enter",
  rung <- drainPending \/ \E c \in Calls : pc[c] = "pass",
  busy <- draining
RefinesDoorbell == Bell!Spec
=============================================================================
