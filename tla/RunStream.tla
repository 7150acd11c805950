----------------------------- MODULE RunStream ------------------------------
(***************************************************************************)
(* The events channel of one skill run: the goroutines that send on it,    *)
(* the goroutine that tears the run down and closes it, and the pump of    *)
(* loop.go that drains it.  The kinds differ in how they guard a send      *)
(* against the close, in who closes, and in what starts the teardown.      *)
(*                                                                         *)
(* Abstracted: an event is its kind; a child process, a serial port or a   *)
(* TCP peer is proc; times are gone, so a timer may fire whenever it is    *)
(* armed.                                                                  *)
(***************************************************************************)
EXTENDS Naturals, Sequences

CONSTANTS
  Kinds,    \* the kinds of run to consider, of AllKinds
  Sources,  \* the goroutines that read output and send it as events
  Main,     \* the one source of a kind that has just one
  Cap       \* bound: the buffer of the events channel

AllKinds ==
  {"shell", "bundle", "proxy", "wireguard", "vnc", "kdp", "mcp", "coder"}

ASSUME StreamAssumption ==
  /\ Kinds \subseteq AllKinds
  /\ Main \in Sources
  /\ Cap \in Nat /\ Cap > 1

VARIABLES
  kind,    \* the kind of this run
  proc,    \* alive, dead; orphan: the child is gone but left a descendant
           \* that holds its output; up: wg-quick returned, the tunnel is in
           \* the kernel
  ctx,     \* the run's context is live
  src,     \* where each source is
  call,    \* where each caller of the teardown is
  once,    \* stopOnce: the caller in or behind the body, if any
  phase,   \* how far the teardown is
  buf,     \* the buffered events
  closed,  \* the channel is closed
  exit,    \* the exit event: none, sent, or dropped on a full buffer
  pump,    \* what the pump has seen: nothing, open, exit, late (an event
           \* after the exit), ended
  crashed  \* a goroutine panicked, and with it the agent

vars == <<kind, proc, ctx, src, call, once, phase, buf, closed, exit, pump,
          crashed>>

-----------------------------------------------------------------------------
(* The kinds.                                                              *)

(* send swallows the panic of a closed channel with recover. *)
Recovers == {"proxy", "wireguard", "vnc", "kdp", "mcp"}

(* Two log pumps behind a bufio.Scanner, which may hold lines after EOF. *)
Scanners == {"bundle", "proxy", "wireguard"}

(* The goroutines that may start the teardown: Stop, the goroutine that waits
   for the child (coder: execute), the idle watchdog, the reader. *)
Callers == {"stop", "waiter", "watchdog", "reader"}

TearsDown(k) ==
  CASE k = "shell" -> Callers
    [] k = "vnc" -> {"stop", "watchdog", "reader"}
    [] k = "kdp" -> {"stop", "reader"}
    [] k = "mcp" -> {"stop", "watchdog"}
    [] k \in {"proxy", "wireguard"} -> {"stop", "waiter"}
    [] k \in {"bundle", "coder"} -> {"waiter"}

(* Kinds whose child writes to a pipe that Wait copies to its end: Wait returns
   only when every process that inherited the pipe is gone, and nothing bounds
   it (no WaitDelay) or signals those processes once the child is dead.  The
   others read a terminal or a StdoutPipe, which Wait closes. *)
CopiesOutput == {"bundle", "coder"}

(* Kinds whose child dies when the context is cancelled. *)
CtxKinds == {"shell", "bundle", "proxy", "coder"}

Phases == {"idle", "begun", "torn", "exited", "flagged", "done"}

TypeOK ==
  /\ kind \in Kinds
  /\ proc \in {"alive", "orphan", "up", "dead"}
  /\ ctx \in BOOLEAN
  /\ src \in [Sources -> {"reading", "holding", "sending", "ended"}]
  /\ call \in [Callers -> {"none", "called", "returned"}]
  /\ once \in Callers \cup {"nobody"}
  /\ phase \in Phases
  /\ buf \in Seq({"state", "out", "exit"}) /\ Len(buf) <= Cap
  /\ closed \in BOOLEAN
  /\ exit \in {"none", "sent", "dropped"}
  /\ pump \in {"nothing", "open", "exit", "late", "ended"}
  /\ crashed \in BOOLEAN

(* Start has sent the state event and spawned the goroutines. *)
Init ==
  /\ kind \in Kinds
  /\ proc = "alive"
  /\ ctx = TRUE
  /\ src = [s \in Sources |->
              IF kind # "coder" /\ (s = Main \/ kind \in Scanners)
              THEN "reading" ELSE "ended"]
  /\ call = [c \in Callers |-> "none"]
  /\ once = "nobody"
  /\ phase = "idle"
  /\ buf = <<"state">>
  /\ closed = FALSE
  /\ exit = "none"
  /\ pump = "nothing"
  /\ crashed = FALSE

-----------------------------------------------------------------------------
(* Mutated handlers: not part of Next. *)

(* Two callers both run the body of stop. *)
EnterOnceTwice(c) ==
  /\ ~crashed
  /\ c \in TearsDown(kind)
  /\ call[c] = "called"
  /\ once # c
  /\ once' = c
  /\ phase' = "begun"
  /\ UNCHANGED <<kind, proc, ctx, src, call, buf, closed, exit, pump, crashed>>

(* The teardown closes the channel without an exit event. *)
TearDownSilent ==
  /\ ~crashed
  /\ phase = "begun"
  /\ phase' = "flagged"
  /\ UNCHANGED <<kind, proc, ctx, src, call, once, buf, closed, exit, pump,
                 crashed>>

(* The waiter watches only its own context and misses a child that dies. *)
WaiterCallsLate ==
  /\ ~crashed
  /\ proc = "dead"
  /\ ~ctx
  /\ call["waiter"] = "none"
  /\ call' = [call EXCEPT !["waiter"] = "called"]
  /\ UNCHANGED <<kind, proc, ctx, src, once, phase, buf, closed, exit, pump,
                 crashed>>

(* The child is started with exec.Command: cancelling does not reach it. *)
SignalledByStop ==
  \/ kind \in {"shell", "proxy"} /\ phase # "idle"
  \/ kind \in {"bundle", "coder"} /\ call["stop"] # "none"

(* Nothing is signalled by a Stop that tears nothing down. *)
SignalledByCtx ==
  \/ ~ctx /\ kind \in CtxKinds \cup {"wireguard"}
  \/ kind \in {"shell", "proxy"} /\ phase # "idle"

-----------------------------------------------------------------------------
(* The run's process and context.                                          *)

(* The child was told to die: by the context, by the body of stop, or by a
   Stop that only signals. *)
Signalled ==
  \/ ~ctx /\ kind \in CtxKinds \cup {"wireguard"}
  \/ kind \in {"shell", "proxy"} /\ phase # "idle"
  \/ kind \in {"bundle", "coder"} /\ call["stop"] # "none"

(* The child exits, the peer hangs up, the device goes away.  A signal that
   reaches the child only, or a descendant that left its group, may leave the
   output held. *)
ProcEnds ==
  /\ ~crashed
  /\ kind # "mcp"
  /\ proc = "alive"
  /\ proc' \in {"dead"} \cup (IF kind \in CopiesOutput THEN {"orphan"} ELSE {})
  /\ UNCHANGED <<kind, ctx, src, call, once, phase, buf, closed, exit, pump,
                 crashed>>

OrphanEnds ==
  /\ ~crashed
  /\ proc = "orphan"
  /\ proc' = "dead"
  /\ UNCHANGED <<kind, ctx, src, call, once, phase, buf, closed, exit, pump,
                 crashed>>

TunnelUp ==
  /\ ~crashed
  /\ kind = "wireguard"
  /\ proc = "alive"
  /\ proc' = "up"
  /\ UNCHANGED <<kind, ctx, src, call, once, phase, buf, closed, exit, pump,
                 crashed>>

(* The session that started the run is over. *)
CancelSession ==
  /\ ~crashed
  /\ ctx
  /\ ctx' = FALSE
  /\ UNCHANGED <<kind, proc, src, call, once, phase, buf, closed, exit, pump,
                 crashed>>

-----------------------------------------------------------------------------
(* The sources: readerLoop, streamLog, logPump, WriteInput of mcp.         *)

(* No more output: the child is gone or its handle was closed.  A bundle's
   pump sees EOF when the waiter has closed the pipe writers. *)
EOF ==
  \/ phase \notin {"idle", "begun"}
  \/ proc = "dead" /\ kind # "bundle"

(* A chunk or a line arrives.  What a scanner or a reader got before the
   handle closed it still sends. *)
Read(s) ==
  /\ ~crashed
  /\ src[s] = "reading"
  /\ ~EOF \/ kind \in Scanners
  /\ kind = "mcp" => phase = "idle"
  /\ src' = [src EXCEPT ![s] = "holding"]
  /\ UNCHANGED <<kind, proc, ctx, call, once, phase, buf, closed, exit, pump,
                 crashed>>

(* The bundle's pump gives up on a cancelled context and its send looks at
   eventsClosed; the others go straight to the channel. *)
CheckOpen(s) ==
  /\ ~crashed
  /\ src[s] = "holding"
  /\ \/ kind # "bundle" /\ src' = [src EXCEPT ![s] = "sending"]
     \/ kind = "bundle" /\ ~ctx /\ src' = [src EXCEPT ![s] = "ended"]
     \/ kind = "bundle" /\ phase \in {"flagged", "done"}
        /\ src' = [src EXCEPT ![s] = "reading"]
     \/ kind = "bundle" /\ phase \notin {"flagged", "done"}
        /\ src' = [src EXCEPT ![s] = "sending"]
  /\ UNCHANGED <<kind, proc, ctx, call, once, phase, buf, closed, exit, pump,
                 crashed>>

(* The select of send: buffer the event, or drop it when the buffer is full.
   On a closed channel it panics. *)
Emit(s) ==
  /\ ~crashed
  /\ src[s] = "sending"
  /\ src' = [src EXCEPT ![s] = "reading"]
  /\ buf' = IF closed \/ Len(buf) = Cap THEN buf ELSE Append(buf, "out")
  /\ crashed' = (closed /\ kind \notin Recovers)
  /\ UNCHANGED <<kind, proc, ctx, call, once, phase, closed, exit, pump>>

(* The source returns at EOF; the reader of a shell or VNC run calls stop on
   its way out, except after an error on a cancelled context. *)
SourceEnds(s) ==
  /\ ~crashed
  /\ kind # "kdp"
  /\ src[s] = "reading"
  /\ EOF
  /\ src' = [src EXCEPT ![s] = "ended"]
  /\ \/ "reader" \in TearsDown(kind)
        /\ call' = [call EXCEPT !["reader"] = "called"]
     \/ ("reader" \notin TearsDown(kind) \/ ~ctx) /\ call' = call
  /\ UNCHANGED <<kind, proc, ctx, once, phase, buf, closed, exit, pump, crashed>>

(* The serial reader polls its context, and stops the run only on an error
   that finds the run open and the context live. *)
SerialEnds(s) ==
  /\ ~crashed
  /\ kind = "kdp"
  /\ src[s] = "reading"
  /\ EOF \/ ~ctx
  /\ src' = [src EXCEPT ![s] = "ended"]
  /\ call' = IF ctx /\ phase = "idle" THEN [call EXCEPT !["reader"] = "called"]
             ELSE call
  /\ UNCHANGED <<kind, proc, ctx, once, phase, buf, closed, exit, pump, crashed>>

-----------------------------------------------------------------------------
(* The teardown.                                                           *)

(* Stop, from a skill.stop frame or from stopAll. *)
StopCalls ==
  /\ ~crashed
  /\ call["stop"] = "none"
  /\ call' = [call EXCEPT !["stop"] = "called"]
  /\ UNCHANGED <<kind, proc, ctx, src, once, phase, buf, closed, exit, pump,
                 crashed>>

(* cmd.Wait returns, or the runner of coder does. *)
WaiterCalls ==
  /\ ~crashed
  /\ "waiter" \in TearsDown(kind)
  /\ proc = "dead"
  /\ call["waiter"] = "none"
  /\ call' = [call EXCEPT !["waiter"] = "called"]
  /\ UNCHANGED <<kind, proc, ctx, src, once, phase, buf, closed, exit, pump,
                 crashed>>

(* The idle timeout or the hard cap fires, unless the context is cancelled. *)
WatchdogCalls ==
  /\ ~crashed
  /\ "watchdog" \in TearsDown(kind)
  /\ ctx
  /\ phase = "idle"
  /\ call["watchdog"] = "none"
  /\ call' = [call EXCEPT !["watchdog"] = "called"]
  /\ UNCHANGED <<kind, proc, ctx, src, once, phase, buf, closed, exit, pump,
                 crashed>>

(* The first caller enters the body of stopOnce, or the waiter goes on. *)
EnterOnce(c) ==
  /\ ~crashed
  /\ c \in TearsDown(kind)
  /\ call[c] = "called"
  /\ once = "nobody"
  /\ once' = c
  /\ phase' = "begun"
  /\ UNCHANGED <<kind, proc, ctx, src, call, buf, closed, exit, pump, crashed>>

(* Signals, the drain window, and the handle of the run is closed. *)
TearDown ==
  /\ ~crashed
  /\ phase = "begun"
  /\ phase' = "torn"
  /\ UNCHANGED <<kind, proc, ctx, src, call, once, buf, closed, exit, pump,
                 crashed>>

SendExit ==
  /\ ~crashed
  /\ phase = "torn"
  /\ Len(buf) < Cap
  /\ buf' = Append(buf, "exit")
  /\ exit' = "sent"
  /\ phase' = "exited"
  /\ UNCHANGED <<kind, proc, ctx, src, call, once, closed, pump, crashed>>

(* The buffer is full: dropped at once, or after 50 ms by the kinds that
   block briefly for lifecycle events. *)
DropExit ==
  /\ ~crashed
  /\ phase = "torn"
  /\ Len(buf) = Cap
  /\ exit' = "dropped"
  /\ phase' = "exited"
  /\ UNCHANGED <<kind, proc, ctx, src, call, once, buf, closed, pump, crashed>>

(* The run's context is cancelled; bundle raises eventsClosed instead, and
   coder does neither. *)
Flag ==
  /\ ~crashed
  /\ phase = "exited"
  /\ phase' = "flagged"
  /\ ctx' = (ctx /\ kind \in {"bundle", "coder"})
  /\ UNCHANGED <<kind, proc, src, call, once, buf, closed, exit, pump, crashed>>

(* close(events); closing twice panics.  A bundle cancels its context now. *)
CloseEvents ==
  /\ ~crashed
  /\ phase = "flagged"
  /\ phase' = "done"
  /\ closed' = TRUE
  /\ crashed' = closed
  /\ ctx' = (ctx /\ kind # "bundle")
  /\ UNCHANGED <<kind, proc, src, call, once, buf, exit, pump>>

(* A caller returns: with the body, or once the body is over.  The Stop of
   bundle and coder only signals. *)
Return(c) ==
  /\ ~crashed
  /\ call[c] = "called"
  /\ phase = "done" \/ c \notin TearsDown(kind)
  /\ call' = [call EXCEPT ![c] = "returned"]
  /\ UNCHANGED <<kind, proc, ctx, src, once, phase, buf, closed, exit, pump,
                 crashed>>

-----------------------------------------------------------------------------
(* The pump: for ev := range run.Events().                                 *)

Take ==
  /\ ~crashed
  /\ pump # "ended"
  /\ buf # <<>>
  /\ buf' = Tail(buf)
  /\ pump' = CASE pump \in {"exit", "late"} -> "late"
               [] Head(buf) = "exit" -> "exit"
               [] OTHER -> "open"
  /\ UNCHANGED <<kind, proc, ctx, src, call, once, phase, closed, exit, crashed>>

PumpEnds ==
  /\ ~crashed
  /\ pump # "ended"
  /\ closed
  /\ buf = <<>>
  /\ pump' = "ended"
  /\ UNCHANGED <<kind, proc, ctx, src, call, once, phase, buf, closed, exit,
                 crashed>>

-----------------------------------------------------------------------------
Next ==
  \/ ProcEnds \/ OrphanEnds \/ TunnelUp \/ CancelSession
  \/ \E s \in Sources :
       \/ Read(s) \/ CheckOpen(s) \/ Emit(s)
       \/ SourceEnds(s) \/ SerialEnds(s)
  \/ StopCalls \/ WaiterCalls \/ WatchdogCalls
  \/ \E c \in Callers : EnterOnce(c) \/ Return(c)
  \/ TearDown \/ SendExit \/ DropExit \/ Flag \/ CloseEvents
  \/ Take \/ PumpEnds

Spec == Init /\ [][Next]_vars

(* Goroutines run, the kernel delivers signals and the pump drains.  Nothing
   obliges a child to exit unasked, a descendant to let go of a pipe, a timer
   to fire, or output to arrive. *)
Fairness ==
  /\ WF_vars(Signalled /\ ProcEnds)
  /\ \A s \in Sources :
       /\ WF_vars(CheckOpen(s)) /\ WF_vars(Emit(s))
       /\ WF_vars(SourceEnds(s) \/ SerialEnds(s))
  /\ \A c \in Callers :
       WF_vars(EnterOnce(c)) /\ WF_vars(Return(c))
  /\ WF_vars(WaiterCalls)
  /\ WF_vars(TearDown) /\ WF_vars(SendExit \/ DropExit)
  /\ WF_vars(Flag) /\ WF_vars(CloseEvents)
  /\ WF_vars(Take \/ PumpEnds)

FairSpec == Spec /\ Fairness

-----------------------------------------------------------------------------
(* Properties.                                                             *)

(* No send or second close brings the agent down: stopOnce lets one teardown
   close the channel, and the kinds whose sources may still be sending then
   recover from it.  Shell and bundle runs do not, and are not covered. *)
NoPanic == crashed => kind \in {"shell", "bundle"}

(* A run reports its end once: the channel closes after an attempt to send the
   exit event, the stream never holds two, and coder, whose few events fit its
   buffer, never drops it. *)
OneExit ==
  /\ closed => exit # "none"
  /\ \A m, n \in 1..Len(buf) : buf[m] = "exit" /\ buf[n] = "exit" => m = n
  /\ pump \in {"exit", "late"} => \A m \in 1..Len(buf) : buf[m] # "exit"
  /\ kind = "coder" => exit # "dropped"

Over == pump = "ended" \/ crashed

(* After Stop a run ends, unless the child of a bundle or coder run left a
   descendant that holds its output: Wait does not return then, and Stop no
   longer signals anyone. *)
StopEnds == (call["stop"] # "none") ~> (Over \/ proc = "orphan")

(* When the child and whoever holds its output, the peer or the device is gone
   the run ends, unless the context of a VNC or serial run is cancelled: its
   reader returns without a word and its watchdog is gone. *)
DeathEnds == (proc = "dead") ~> (Over \/ (~ctx /\ kind \in {"vnc", "kdp"}))

(* A cancelled context alone ends the kinds that started their child with it,
   again unless a descendant of the child holds the output of a bundle or coder
   run: the cancelled context kills the child alone. *)
CtxEnds == (~ctx /\ kind \in CtxKinds) ~> (Over \/ proc = "orphan")

=============================================================================
