------------------------------ MODULE RunInput ------------------------------
(***************************************************************************)
(* The input of an MCP or a KDP run.  skill.stdin frames cut the byte      *)
(* stream anywhere; WriteInput puts the lines together again.  A line of   *)
(* an MCP run is a JSON-RPC request, and some requests open, use and close *)
(* sessions of an adapter, which the watchdog of the run closes when they  *)
(* have been idle and stop closes with the adapters.  A line of a KDP run  *)
(* is a command of its own or goes to the serial port.                     *)
(*                                                                         *)
(* Abstracted: a byte is its position in the stream and whether it ends a  *)
(* line; what a line asks is chosen when it is dispatched; times are gone, *)
(* a session is idle or not.  Replies are in RunStream.                    *)
(***************************************************************************)
EXTENDS Naturals, SequencesExt

CONSTANTS
  Ids,       \* sessions that may be opened
  Limit,     \* the longest line that is taken as one
  MaxInput   \* bound: the bytes of the stream

InputAssumption == Limit \in Nat \ {0} /\ MaxInput \in Nat

VARIABLES
  serves,   \* mcp or kdp
  got,      \* how many bytes WriteInput has been given
  ends,     \* which of them end a line
  inBuf,    \* the bytes it holds
  todo,     \* the lines it has cut and not dispatched
  log,      \* history: the lines dispatched, and what went through uncut
  closing,  \* sessions mcp.close_session found and is about to close
  sessions, \* unused, active, idle, gone
  listed,   \* sessions the watchdog found idle and is about to close
  stopped,  \* no, closed (the flag), over (its adapters are closed, too)
  asked,    \* history: sessions a request closed
  raced,    \* history: sessions used after the watchdog listed them
  late      \* history: sessions opened after the adapters were closed

stream == <<got, ends, inBuf, todo, log>>
held == <<sessions, closing, listed, stopped, asked, raced, late>>
inputvars == <<serves, stream, held>>

(* A session that is not open yet, used lately, too old, and closed. *)
SessionStates == {"unused", "active", "idle", "gone"}

InputTypeOK ==
  /\ serves \in {"mcp", "kdp"}
  /\ got \in 0 .. MaxInput /\ ends \subseteq 1 .. got
  /\ inBuf \in Seq(1 .. got)
  /\ \A lines \in {todo, log} : lines \in Seq(Seq(1 .. got))
  /\ sessions \in [Ids -> SessionStates]
  /\ closing \cup listed \cup asked \cup raced \cup late \subseteq Ids
  /\ stopped \in {"no", "closed", "over"}

Init ==
  /\ serves \in {"mcp", "kdp"}
  /\ got = 0 /\ ends = {} /\ inBuf = <<>> /\ todo = <<>> /\ log = <<>>
  /\ sessions = [s \in Ids |-> "unused"]
  /\ closing = {} /\ listed = {} /\ asked = {} /\ raced = {} /\ late = {}
  /\ stopped = "no"

(* What ListSessions lists. *)
Open == {s \in Ids : sessions[s] \in {"active", "idle"}}

-----------------------------------------------------------------------------
(* Cutting.                                                                *)

(* The places in b after which a line ends, those behind a longer line than
   the scanner takes left out. *)
Cuts(b, eol) ==
  LET at == {k \in 1 .. Len(b) : b[k] \in eol}
      Long(k) == k - Max({0} \cup {j \in at : j < k}) > Limit
  IN IF serves = "kdp" THEN at
     ELSE {k \in at : \A j \in at : j <= k => ~ Long(j)}

Lines(b, cuts) ==
  LET End(i) == CHOOSE k \in cuts : Cardinality({j \in cuts : j <= k}) = i
  IN [i \in 1 .. Cardinality(cuts) |->
        SubSeq(b, IF i = 1 THEN 1 ELSE End(i - 1) + 1, End(i))]

(* Mutated: what the scanner returned last is taken for a line. *)
TrailerDropped(b, cuts) == <<>>

(* What is left behind the last line. *)
Trailer(b, cuts) == SubSeq(b, Max({0} \cup cuts) + 1, Len(b))

-----------------------------------------------------------------------------
(* The reader of the session: one frame at a time.                         *)

Idle == todo = <<>> /\ closing = {}

(* The n bytes behind the first so many. *)
Bytes(from, n) == [k \in 1 .. n |-> from + k]

(* The next n bytes arrive, newlines among them: the run takes them unless it
   is closed, and cuts off every line they complete.  A KDP run whose buffer is
   too long by then passes it on as it is. *)
WriteInput(n) ==
  /\ Idle /\ stopped = "no"
  /\ got + n <= MaxInput
  /\ got' = got + n
  /\ \E new \in SUBSET (got + 1 .. got + n) : ends' = ends \cup new
  /\ LET b == inBuf \o Bytes(got, n)
         cuts == Cuts(b, ends')
     IN IF serves = "kdp" /\ Len(b) > Limit
        THEN inBuf' = <<>> /\ log' = Append(log, b) /\ todo' = todo
        ELSE inBuf' = Trailer(b, cuts) /\ todo' = Lines(b, cuts) /\ log' = log
  /\ UNCHANGED <<serves, held>>

Dispatch ==
  /\ todo # <<>> /\ closing = {}
  /\ todo' = Tail(todo) /\ log' = Append(log, Head(todo))
  /\ UNCHANGED <<serves, got, ends, inBuf>>

(* A blank line, a notification, a request that keeps no state, one that is
   refused. *)
Plain ==
  /\ serves = "mcp"
  /\ Dispatch
  /\ UNCHANGED held

(* A ? command is answered here, any other line goes to the serial port. *)
Command ==
  /\ serves = "kdp"
  /\ Dispatch
  /\ UNCHANGED held

OpenSession(s) ==
  /\ serves = "mcp" /\ sessions[s] = "unused"
  /\ Dispatch
  /\ sessions' = [sessions EXCEPT ![s] = "active"]
  /\ late' = IF stopped = "over" THEN late \cup {s} ELSE late
  /\ UNCHANGED <<closing, listed, stopped, asked, raced>>

(* A call on a session that is not there is answered with an error. *)
TouchSession(s) ==
  /\ serves = "mcp" /\ s \in Open
  /\ Dispatch
  /\ sessions' = [sessions EXCEPT ![s] = "active"]
  /\ raced' = IF s \in listed THEN raced \cup {s} ELSE raced
  /\ UNCHANGED <<closing, listed, stopped, asked, late>>

Close(s) ==
  sessions' = [sessions EXCEPT ![s] = IF @ = "unused" THEN @ ELSE "gone"]

(* The destroy tool of the adapter. *)
CloseTool(s) ==
  /\ serves = "mcp" /\ sessions[s] # "unused"
  /\ Dispatch
  /\ Close(s)
  /\ asked' = asked \cup {s}
  /\ UNCHANGED <<closing, listed, stopped, raced, late>>

(* mcp.close_session looks for the session in every list, then closes it. *)
MetaFind(s) ==
  /\ serves = "mcp" /\ s \in Open
  /\ Dispatch
  /\ closing' = {s}
  /\ UNCHANGED <<sessions, listed, stopped, asked, raced, late>>

MetaClose(s) ==
  /\ s \in closing
  /\ closing' = {}
  /\ Close(s)
  /\ asked' = asked \cup {s}
  /\ UNCHANGED <<serves, stream, listed, stopped, raced, late>>

-----------------------------------------------------------------------------
(* The watchdog.                                                           *)

(* A session nobody uses gets older than the cutoff. *)
Ages(s) ==
  /\ sessions[s] = "active"
  /\ sessions' = [sessions EXCEPT ![s] = "idle"]
  /\ UNCHANGED <<serves, stream, closing, listed, stopped, asked, raced, late>>

(* Mutated: the comparison with the cutoff is the wrong way round. *)
ReapListsAll ==
  /\ serves = "mcp" /\ stopped = "no" /\ listed = {}
  /\ listed' = Open
  /\ UNCHANGED <<serves, stream, sessions, closing, stopped, asked, raced, late>>

(* reapIdleSessions takes the list of an adapter under its lock, and closes what
   is too old in it one by one. *)
ReapLists ==
  /\ serves = "mcp" /\ stopped = "no" /\ listed = {}
  /\ listed' = {s \in Open : sessions[s] = "idle"}
  /\ UNCHANGED <<serves, stream, sessions, closing, stopped, asked, raced, late>>

Reap(s) ==
  /\ s \in listed
  /\ listed' = listed \ {s} /\ raced' = raced \ {s}
  /\ Close(s)
  /\ UNCHANGED <<serves, stream, closing, stopped, asked, late>>

(* From the reader, between frames, or from the watchdog, between ticks; for a
   KDP run, from whoever sees the port gone: closed is raised, then the adapters
   are closed. *)
Stop ==
  /\ stopped = "no"
  /\ Idle \/ listed = {}
  /\ stopped' = "closed"
  /\ UNCHANGED <<serves, stream, sessions, closing, listed, asked, raced, late>>

CloseAdapters ==
  /\ stopped = "closed"
  /\ stopped' = "over"
  /\ sessions' = [s \in Ids |-> IF sessions[s] = "unused" THEN "unused" ELSE "gone"]
  /\ UNCHANGED <<serves, stream, closing, listed, asked, raced, late>>

-----------------------------------------------------------------------------
Next ==
  \/ \E n \in 1 .. MaxInput : WriteInput(n)
  \/ Plain \/ Command
  \/ \E s \in Ids :
       \/ OpenSession(s) \/ TouchSession(s) \/ CloseTool(s)
       \/ MetaFind(s) \/ MetaClose(s) \/ Ages(s) \/ Reap(s)
  \/ ReapLists \/ Stop \/ CloseAdapters

Spec == Init /\ [][Next]_inputvars

-----------------------------------------------------------------------------
(* However the frames cut the stream, its lines come out as they went in: every
   byte once and in order, a line ends where one ended and nowhere else, and a
   line that is complete waits for nothing.  The exceptions are lines beyond the
   limit: a KDP run passes what it holds on uncut, an MCP run gets no further. *)
LinesExact ==
  LET pieces == log \o todo
      Before(i) == IF i = 1 THEN 0 ELSE Last(pieces[i - 1])
  IN /\ inBuf = Bytes(Before(Len(pieces) + 1), Len(inBuf))
     /\ Before(Len(pieces) + 1) + Len(inBuf) = got
     /\ \A i \in 1 .. Len(pieces) :
          /\ pieces[i] # <<>> /\ pieces[i] = Bytes(Before(i), Len(pieces[i]))
          /\ (serves = "kdp" /\ Len(pieces[i]) > Limit)
               \/ {k \in 1 .. Len(pieces[i]) : pieces[i][k] \in ends} = {Len(pieces[i])}
     /\ \A k \in 1 .. Len(inBuf) :
          inBuf[k] \in ends => serves = "mcp" /\ k > Limit

(* "so the idle watchdog leaves it alone": an active session goes only when a
   request asked for it or the run stops, or when the watchdog had listed it
   before it was last used. *)
ActiveKept ==
  [][\A s \in Ids :
       (sessions[s] = "active" /\ sessions'[s] = "gone")
         => s \in asked' \/ s \in raced \/ stopped = "closed"]_inputvars
=============================================================================
