--------------------------- MODULE RecoveryWatcher ---------------------------
(***************************************************************************)
(* recoveryLoop of recovery_watcher.go: every few seconds the device in    *)
(* recovery mode on the USB bus is asked for; a device other than the last *)
(* one posted is posted to the dock, where its record lapses when it has   *)
(* been away for long.                                                     *)
(*                                                                         *)
(* Abstracted: a device is its ECID, CPID and BDID.  irecovery and the     *)
(* dock are external and may fail.                                         *)
(***************************************************************************)
CONSTANTS
  Devices,  \* devices that may be plugged in
  None,     \* no device
  Zero      \* the device of an irecovery that answers without its fields

DeviceAssumption == None # Zero /\ {None, Zero} \cap Devices = {}

VARIABLES
  running,  \* the watcher was started
  dev,      \* the device on the bus
  prev,     \* prev, None at first: the zero device is not present
  seen,     \* what the poll under way has found, None between two polls
  fresh     \* the devices of which the dock has a fresh record

rvars == <<running, dev, prev, seen, fresh>>

TypeOK ==
  /\ running \in BOOLEAN
  /\ dev \in Devices \cup {None}
  /\ prev \in Devices \cup {None} /\ seen \in Devices \cup {None, Zero}
  /\ fresh \subseteq Devices

Init ==
  /\ running = FALSE
  /\ dev \in Devices \cup {None}
  /\ prev = None /\ seen = None
  /\ fresh = {}

(* prev equals the zero device as long as there is none. *)
Known(d) == IF d = Zero THEN prev = None ELSE prev = d

-----------------------------------------------------------------------------
(* Mutated operators. *)

(* A device counts as posted although the post failed. *)
PostForgets ==
  /\ seen # None
  /\ \/ fresh' = fresh \cup ({seen} \cap Devices)
     \/ UNCHANGED fresh
  /\ prev' = IF seen = Zero THEN None ELSE seen
  /\ seen' = None
  /\ UNCHANGED <<running, dev>>

-----------------------------------------------------------------------------
Start ==
  /\ ~ running
  /\ running' = TRUE
  /\ UNCHANGED <<dev, prev, seen, fresh>>

(* irecovery -q.  A device that left is forgotten; one that is the last posted
   needs no post. *)
Poll ==
  /\ running /\ seen = None
  /\ \E found \in {dev} \cup {IF dev = None THEN None ELSE Zero} :
       IF found = None
       THEN prev' = None /\ UNCHANGED seen
       ELSE UNCHANGED prev /\ seen' = IF Known(found) THEN None ELSE found
  /\ UNCHANGED <<running, dev, fresh>>

(* irecovery fails or takes too long: the same as no device. *)
PollFails ==
  /\ running /\ seen = None
  /\ prev' = None
  /\ UNCHANGED <<running, dev, seen, fresh>>

(* postRecoveryDevice: the dock takes it, with or without the watcher learning
   of that, or it does not.  Only an answer makes it the last one posted. *)
Post ==
  /\ seen # None
  /\ \/ /\ fresh' = fresh \cup ({seen} \cap Devices)
        /\ prev' \in {prev, IF seen = Zero THEN None ELSE seen}
     \/ UNCHANGED <<fresh, prev>>
  /\ seen' = None
  /\ UNCHANGED <<running, dev>>

(* Devices come and go; a record outlasts the device's leaving for longer than
   the watcher needs to notice it. *)
Plug ==
  /\ dev' \in (Devices \cup {None}) \ {dev}
  /\ UNCHANGED <<running, prev, seen, fresh>>

Lapse ==
  /\ fresh' \in {fresh \ {d} : d \in fresh \ {dev, prev, seen}}
  /\ UNCHANGED <<running, dev, prev, seen>>

-----------------------------------------------------------------------------
Next == Start \/ Poll \/ PollFails \/ Post \/ Plug \/ Lapse

Spec == Init /\ [][Next]_rvars

(* The ticker fires, irecovery answers and posts get through now and then. *)
Taken(d) == seen = d /\ Post /\ d \in fresh'
Fairness ==
  /\ SF_rvars(Poll /\ seen' = dev)
  /\ WF_rvars(Post) /\ \A d \in Devices : SF_rvars(Taken(d))

FairSpec == Spec /\ Fairness

-----------------------------------------------------------------------------
(* A device that stays gets a fresh record at the dock, whichever polls and posts
   fail before, and also when it was there before, went away and came back. *)
DeviceKnown ==
  \A d \in Devices : (<>[] (running /\ dev = d)) => <>[] (d \in fresh)
=============================================================================
