---------------------------- MODULE AgentSession ----------------------------
(***************************************************************************)
(* Sessions of the agent and the skill runs they start (loop.go): the      *)
(* WebSocket read loop, the goroutine each skill.start frame spawns, the   *)
(* registry activeRuns that outlives sessions, stopAll on disconnect, and  *)
(* the deferred cancel of the session's context.                           *)
(*                                                                         *)
(* A run is its events channel (open or closed) and what it does when its  *)
(* context is cancelled; how a kind of run closes its channel is in        *)
(* RunStream.  Run ids are chosen by the dock, one per run.                *)
(***************************************************************************)
EXTENDS Naturals

CONSTANTS
  RunIDs,       \* the runs the dock may start
  Kinds,        \* the kinds of skill it may start them with, of AllKinds
  NoRun,        \* no run
  MaxSessions   \* bound: sessions of one agent process

(* process: shell, bundle, proxy and coder, a child started with
   exec.CommandContext or a loop that watches the context;
   adapter: mcp-server and kdp, whose goroutines return on cancel without
   stopping the run, and whose Start does not look at the context;
   socket: vnc, which dials with the context and then only reads its peer;
   tunnel: wireguard, a child while wg-quick comes up, then a kernel tunnel. *)
AllKinds == {"process", "adapter", "socket", "tunnel"}

ASSUME SessionAssumption ==
  /\ Kinds \subseteq AllKinds
  /\ NoRun \notin RunIDs
  /\ MaxSessions \in Nat

VARIABLES
  link,      \* down, open (read loop running) or closing (stopAll running)
  session,   \* how many sessions were opened so far
  pc,        \* the skill.start goroutine of each run
  kind,      \* the skill kind each run was started with
  sess,      \* the session whose context each run has
  up,        \* tunnels whose wg-quick has returned
  stream,    \* the events channel of each run: none, open or closed
  asked,     \* runs whose Stop was called
  byID,      \* activeRuns: the ids registered with a run and its kind
  toStop,    \* what is left of stopAll's snapshot
  stopping,  \* the run whose Stop the session goroutine is blocked in
  late       \* history: runs registered when their session was past stopAll's
             \* snapshot

vars == <<link, session, pc, kind, sess, up, stream, asked, byID, toStop,
          stopping, late>>

-----------------------------------------------------------------------------
CtxLive(s) == s = session /\ link # "down"

Labels == {"none", "starting", "started", "pumping", "ended"}

TypeOK ==
  /\ link \in {"down", "open", "closing"}
  /\ session \in Nat
  /\ pc \in [RunIDs -> Labels]
  /\ kind \in [RunIDs -> AllKinds]
  /\ sess \in [RunIDs -> Nat]
  /\ stream \in [RunIDs -> {"none", "open", "closed"}]
  /\ up \subseteq RunIDs
  /\ asked \subseteq RunIDs
  /\ byID \subseteq RunIDs
  /\ toStop \subseteq RunIDs
  /\ late \subseteq RunIDs
  /\ stopping \in RunIDs \cup {NoRun}

Init ==
  /\ link = "down"
  /\ session = 0
  /\ pc = [i \in RunIDs |-> "none"]
  /\ kind = [i \in RunIDs |-> "process"]
  /\ sess = [i \in RunIDs |-> 0]
  /\ stream = [i \in RunIDs |-> "none"]
  /\ up = {} /\ asked = {} /\ byID = {} /\ toStop = {} /\ late = {}
  /\ stopping = NoRun

(* The read loop is in ReadMessage, able to take the next frame. *)
Reading == link = "open" /\ stopping = NoRun

(* Cancelling the run's context makes it end by itself. *)
DiesWithCtx(i) == kind[i] = "process" \/ (kind[i] = "tunnel" /\ i \notin up)

-----------------------------------------------------------------------------
(* Mutated handlers: not part of Next.  Each is a bug the handler it is named
   after could plausibly have, and some property must notice it. *)

(* The goroutine registers its run and never takes it out again. *)
PumpEndKeepsEntry(i) ==
  /\ pc[i] = "pumping"
  /\ stream[i] = "closed"
  /\ pc' = [pc EXCEPT ![i] = "ended"]
  /\ UNCHANGED <<link, session, kind, sess, up, stream, asked, byID, toStop,
                 stopping, late>>

(* stopAll is not deferred: the context is cancelled straight away. *)
ReadErrorNoSweep ==
  /\ Reading
  /\ link' = "closing"
  /\ toStop' = {}
  /\ UNCHANGED <<session, pc, kind, sess, up, stream, asked, byID, stopping,
                 late>>

(* Stop returns only when the goroutine that pumps the events is gone, and it
   waits for a send to this very session. *)
StopReturnNever(i) == FALSE /\ i = NoRun /\ UNCHANGED vars

-----------------------------------------------------------------------------
(* The session.                                                            *)

(* runAgentLoop: dial, hello, advertise, enter the read loop. *)
Connect ==
  /\ link = "down"
  /\ session < MaxSessions
  /\ link' = "open"
  /\ session' = session + 1
  /\ UNCHANGED <<pc, kind, sess, up, stream, asked, byID, toStop, stopping,
                 late>>

(* ReadMessage fails: runOneSession returns into its deferred calls, the first
   of which is stopAll with a snapshot of the registry. *)
ReadError ==
  /\ Reading
  /\ link' = "closing"
  /\ toStop' = byID
  /\ UNCHANGED <<session, pc, kind, sess, up, stream, asked, byID, stopping,
                 late>>

(* stopAll calls Stop on the next run of its snapshot. *)
StopNext(i) ==
  /\ link = "closing"
  /\ stopping = NoRun
  /\ i \in toStop
  /\ toStop' = toStop \ {i}
  /\ stopping' = i
  /\ asked' = asked \cup {i}
  /\ UNCHANGED <<link, session, pc, kind, sess, up, stream, byID, late>>

(* stopAll has returned and the deferred cancel runs. *)
CancelSession ==
  /\ link = "closing"
  /\ stopping = NoRun
  /\ toStop = {}
  /\ link' = "down"
  /\ UNCHANGED <<session, pc, kind, sess, up, stream, asked, byID, toStop,
                 stopping, late>>

(* skill.start spawns a goroutine.  An unregistered kind is refused without
   one; that is StartFails without the goroutine. *)
StartFrame(i, k) ==
  /\ Reading
  /\ pc[i] = "none"
  /\ pc' = [pc EXCEPT ![i] = "starting"]
  /\ kind' = [kind EXCEPT ![i] = k]
  /\ sess' = [sess EXCEPT ![i] = session]
  /\ UNCHANGED <<link, session, up, stream, asked, byID, toStop, stopping, late>>

(* skill.stop looks the run up and blocks in its Stop. *)
StopFrame(i) ==
  /\ Reading
  /\ i \in byID
  /\ stopping' = i
  /\ asked' = asked \cup {i}
  /\ UNCHANGED <<link, session, pc, kind, sess, up, stream, byID, toStop, late>>

(* Stop returns: when the channel is closed, or at once for the process kinds
   that only signal (coder cancels, bundle signals its process group). *)
StopReturn(i) ==
  /\ stopping = i
  /\ stream[i] = "closed" \/ kind[i] = "process"
  /\ stopping' = NoRun
  /\ UNCHANGED <<link, session, pc, kind, sess, up, stream, asked, byID,
                 toStop, late>>

-----------------------------------------------------------------------------
(* The skill.start goroutine.                                              *)

(* s.Start returns an error: an exit event is sent and the goroutine ends. *)
StartFails(i) ==
  /\ pc[i] = "starting"
  /\ pc' = [pc EXCEPT ![i] = "ended"]
  /\ UNCHANGED <<link, session, kind, sess, up, stream, asked, byID, toStop,
                 stopping, late>>

(* s.Start returns a run.  On a cancelled context it still does for adapters,
   which do not look, and for coder, whose goroutine finds out later. *)
StartOk(i) ==
  /\ pc[i] = "starting"
  /\ CtxLive(sess[i]) \/ kind[i] \in {"adapter", "process"}
  /\ pc' = [pc EXCEPT ![i] = "started"]
  /\ stream' = [stream EXCEPT ![i] = "open"]
  /\ UNCHANGED <<link, session, kind, sess, up, asked, byID, toStop, stopping,
                 late>>

(* activeRuns.putWithKind: from here on skill.stop and stopAll find the run. *)
Register(i) ==
  /\ pc[i] = "started"
  /\ pc' = [pc EXCEPT ![i] = "pumping"]
  /\ byID' = byID \cup {i}
  /\ late' = IF link = "open" /\ sess[i] = session THEN late ELSE late \cup {i}
  /\ UNCHANGED <<link, session, kind, sess, up, stream, asked, toStop, stopping>>

(* The events channel is closed and drained: deferred delete, goroutine ends. *)
PumpEnd(i) ==
  /\ pc[i] = "pumping"
  /\ stream[i] = "closed"
  /\ pc' = [pc EXCEPT ![i] = "ended"]
  /\ byID' = byID \ {i}
  /\ UNCHANGED <<link, session, kind, sess, up, stream, asked, toStop, stopping,
                 late>>

-----------------------------------------------------------------------------
(* The run behind the channel.                                             *)

CloseStream(i) ==
  /\ stream[i] = "open"
  /\ stream' = [stream EXCEPT ![i] = "closed"]
  /\ UNCHANGED <<link, session, pc, kind, sess, up, asked, byID, toStop,
                 stopping, late>>

(* Stop was called: the run signals, waits, sends its exit event and closes. *)
StopCloses(i) == i \in asked /\ CloseStream(i)

(* The context of the session is cancelled. *)
CtxKill(i) == ~CtxLive(sess[i]) /\ DiesWithCtx(i) /\ CloseStream(i)

(* The child exits, the peer closes, an idle or hard-cap timer fires.  A
   tunnel that is up ends only by Stop; the idle timer of an adapter stops
   with its context. *)
EndsByItself(i) ==
  /\ \/ kind[i] \in {"process", "socket"}
     \/ kind[i] = "tunnel" /\ i \notin up
     \/ kind[i] = "adapter" /\ CtxLive(sess[i])
  /\ CloseStream(i)

(* wg-quick up has returned: waiterLoop now waits for stopCh alone. *)
TunnelUp(i) ==
  /\ kind[i] = "tunnel"
  /\ stream[i] = "open"
  /\ i \notin up
  /\ up' = up \cup {i}
  /\ UNCHANGED <<link, session, pc, kind, sess, stream, asked, byID, toStop,
                 stopping, late>>

-----------------------------------------------------------------------------
Next ==
  \/ Connect \/ ReadError \/ CancelSession
  \/ \E i \in RunIDs :
       \/ StopNext(i) \/ StopFrame(i) \/ StopReturn(i)
       \/ StartFails(i) \/ StartOk(i) \/ Register(i) \/ PumpEnd(i)
       \/ StopCloses(i) \/ CtxKill(i) \/ EndsByItself(i) \/ TunnelUp(i)
  \/ \E i \in RunIDs, k \in Kinds : StartFrame(i, k)

Spec == Init /\ [][Next]_vars

(* Goroutines run, Stop does what it was asked to, and a cancelled context
   kills what watches it.  Nothing obliges the link to drop or to come back,
   a run to end by itself, or the dock to send a frame. *)
Fairness ==
  /\ WF_vars(CancelSession)
  /\ \A i \in RunIDs :
       /\ WF_vars(StartFails(i) \/ StartOk(i))
       /\ WF_vars(Register(i)) /\ WF_vars(PumpEnd(i))
       /\ WF_vars(StopNext(i)) /\ WF_vars(StopReturn(i))
       /\ WF_vars(StopCloses(i)) /\ WF_vars(CtxKill(i))

FairSpec == Spec /\ Fairness

-----------------------------------------------------------------------------
(* Properties.                                                             *)

(* The registry holds exactly the runs whose goroutine is pumping events, so
   skill.stop, skill.stdin and the uninstall gate see no run that is gone and
   miss none that was registered. *)
RegistryIsPumping == byID = {i \in RunIDs : pc[i] = "pumping"}

(* "on WS disconnect, stop every in-flight Run": once a session's context is
   cancelled, each of its registered runs was asked to stop, has ended, or
   registered too late for stopAll's snapshot. *)
SweptBeforeCancel ==
  \A i \in byID :
    ~CtxLive(sess[i]) => i \in asked \/ stream[i] = "closed" \/ i \in late

(* A disconnect ends: no Stop keeps the agent from reconnecting. *)
ClosingEnds == link = "closing" ~> link = "down"

(* What the comment on the deferred stopAll says of every run: none outlives
   its session. *)
NoOrphan ==
  \A i \in RunIDs :
    (pc[i] # "none" /\ ~CtxLive(sess[i])) ~> pc[i] = "ended"
=============================================================================
