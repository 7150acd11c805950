----------------------------- MODULE TaskLedger -----------------------------
(***************************************************************************)
(* What an executor of queued tasks promises whoever queues them: it has   *)
(* no more tasks out than it can work on, takes each once and ends it once *)
(* and for all, and gives one up only at the price of an outage that no    *)
(* other task was given up for.                                            *)
(***************************************************************************)
EXTENDS Naturals, FiniteSets

CONSTANTS
  Tasks,    \* tasks that may be queued
  Capacity  \* how many can be worked on at once

VARIABLES
  waiting,  \* queued and not taken
  out,      \* taken and not ended
  ended,    \* answered
  dropped,  \* given up
  outages   \* outages that no task was given up for so far

vars == <<waiting, out, ended, dropped, outages>>

Init ==
  /\ waiting = {} /\ out = {} /\ ended = {} /\ dropped = {}
  /\ outages = 0

Submit(t) ==
  /\ t \notin waiting \cup out \cup ended \cup dropped
  /\ waiting' = waiting \cup {t}
  /\ UNCHANGED <<out, ended, dropped, outages>>

Take(t) ==
  /\ t \in waiting /\ Cardinality(out) < Capacity
  /\ waiting' = waiting \ {t} /\ out' = out \cup {t}
  /\ UNCHANGED <<ended, dropped, outages>>

Answer(t) ==
  /\ t \in out
  /\ out' = out \ {t} /\ ended' = ended \cup {t}
  /\ UNCHANGED <<waiting, dropped, outages>>

Outage ==
  /\ outages' = outages + 1
  /\ UNCHANGED <<waiting, out, ended, dropped>>

(* The outage may have been before, or be what ends the task now. *)
GiveUp(t) ==
  /\ t \in out
  /\ out' = out \ {t} /\ dropped' = dropped \cup {t}
  /\ \E n \in {outages, outages + 1} : n > 0 /\ outages' = n - 1
  /\ UNCHANGED <<waiting, ended>>

Next ==
  \/ Outage
  \/ \E t \in Tasks : Submit(t) \/ Take(t) \/ Answer(t) \/ GiveUp(t)

Spec == Init /\ [][Next]_vars
=============================================================================
