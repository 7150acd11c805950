----------------------------- MODULE MCCollector -----------------------------
(* The background reporters of an agent: the collectors, and the watcher of
   devices in recovery mode.  They share nothing, so instead of their product
   each behaviour follows one of the two while the other rests in its initial
   state, where nothing is due. *)
EXTENDS Collector

CONSTANTS Devices, None, Zero

VARIABLES running, dev, prev, seen, fresh, follows

Rec == INSTANCE RecoveryWatcher

ASSUME Rec!DeviceAssumption

recVars == <<running, dev, prev, seen, fresh>>

ReportersInit ==
  /\ follows \in {"collector", "watcher"}
  /\ Init /\ (follows = "watcher" => role = "fw" /\ host = "pf")
  /\ Rec!Init /\ (follows = "collector" => dev = None)

ReportersNext ==
  /\ UNCHANGED follows
  /\ \/ follows = "collector" /\ Next /\ UNCHANGED recVars
     \/ follows = "watcher" /\ Rec!Next /\ UNCHANGED colvars

ReportersSpec ==
  /\ ReportersInit /\ [][ReportersNext]_<<colvars, recVars, follows>>
  /\ Fairness /\ Rec!Fairness

DeviceKnown == Rec!DeviceKnown
=============================================================================
