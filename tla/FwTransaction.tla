---------------------------- MODULE FwTransaction ----------------------------
(***************************************************************************)
(* The firewall transactions of fw_task.go: fw_apply and fw_rollback tasks,*)
(* one at a time under fwMu, on pf or on the agent's own nftables table.   *)
(* The backup of a pf transaction is the recorded current.conf; that of an *)
(* nftables transaction is a dump of the table as it is.  When it can not  *)
(* be taken, captureBackup makes do with what the machine had at first.    *)
(*                                                                         *)
(* Abstracted: a ruleset is a value and a file holds one; a backup script  *)
(* is the ruleset that loading it gives.  The controller, the firewall and *)
(* the file system are external and may fail; the agent may crash.         *)
(***************************************************************************)
EXTENDS Naturals

CONSTANTS
  Txns,        \* the transactions, one task each
  Nobody,      \* nobody holds fwMu
  Rulesets,    \* the compiled artifacts the controller may send
  Stock,       \* before the agent: /etc/pf.conf, or no table of its own
  Blank,       \* an empty file, and the pf ruleset it loads
  NoFile,      \* a state file that does not exist
  Backends,    \* the backends to consider, "pf" and "nftables"
  MaxFaults,   \* commands, writes and listings that fail
  MaxOutside,  \* changes made to the rules by others
  MaxCrashes   \* crashes of the agent

Contents == Rulesets \cup {Stock, Blank}

ASSUME FwAssumption ==
  /\ Nobody \notin Txns
  /\ NoFile \notin Contents /\ {Stock, Blank} \cap Rulesets = {}
  /\ Stock # Blank
  /\ Backends \subseteq {"pf", "nftables"}
  /\ MaxFaults \in Nat /\ MaxOutside \in Nat /\ MaxCrashes \in Nat

VARIABLES
  backend,   \* the backend of this machine
  rules,     \* the rules in force
  current,   \* current.conf
  previous,  \* previous.conf
  mu,        \* who holds fwMu
  pc,        \* where each transaction is
  mode,      \* "apply" or "rollback"
  want,      \* the artifact of an apply; previous.conf as a rollback read it
  backup,    \* captureBackup of the holder
  blind,     \* history: the holder's backup is not what it should hold
  window,    \* the holder's confirm window is open
  ctl,       \* the controller's decision on each transaction
  drift,     \* history: the rules need not be those of current.conf
  faults, outside, crashes

files == <<current, previous>>
plan == <<backup, blind>>
bounds == <<faults, outside, crashes>>
vars == <<backend, rules, files, mu, pc, mode, want, plan, window, ctl, drift,
          bounds>>

Working == {"load", "enable", "confirm", "restore", "promote1", "promote2",
            "replay", "swap1", "swap2"}
Results == {"refused", "committed", "reverted", "failed", "stuck", "rolledback"}
Ended == Results \cup {"crashed"}

-----------------------------------------------------------------------------
TypeOK ==
  /\ backend \in Backends
  /\ rules \in Contents
  /\ current \in Contents \cup {NoFile} /\ previous \in Contents \cup {NoFile}
  /\ mu \in Txns \cup {Nobody}
  /\ pc \in [Txns -> {"idle", "waiting"} \cup Working \cup Ended]
  /\ mode \in [Txns -> {"apply", "rollback"}]
  /\ want \in [Txns -> Contents]
  /\ backup \in Contents /\ blind \in BOOLEAN
  /\ window \in BOOLEAN
  /\ ctl \in [Txns -> {"open", "committed", "refused"}]
  /\ drift \in BOOLEAN
  /\ faults \in 0 .. MaxFaults /\ outside \in 0 .. MaxOutside
  /\ crashes \in 0 .. MaxCrashes

Init ==
  /\ backend \in Backends
  /\ rules = Stock
  /\ current = NoFile /\ previous = NoFile
  /\ mu = Nobody
  /\ pc = [t \in Txns |-> "idle"]
  /\ mode = [t \in Txns |-> "apply"]
  /\ want = [t \in Txns |-> Stock]
  /\ backup = Stock /\ blind = FALSE
  /\ window = FALSE
  /\ ctl = [t \in Txns |-> "open"]
  /\ drift = FALSE
  /\ faults = 0 /\ outside = 0 /\ crashes = 0

Goto(t, label) == pc' = [pc EXCEPT ![t] = label]
Fault == faults < MaxFaults /\ faults' = faults + 1

(* Mutated operator: pf dumps what is in force instead of reading what was
   committed. *)
BackupDumps == rules

(* What captureBackup is after: on pf the recorded rules, which before the first
   commit are those of /etc/pf.conf. *)
Backup ==
  CASE backend = "nftables" -> rules
    [] backend = "pf" /\ current # NoFile -> current
    [] backend = "pf" /\ current = NoFile -> Stock

(* The rules after a file was loaded: nft makes nothing of an empty script. *)
Loaded(file) == IF file = Blank /\ backend = "nftables" THEN rules ELSE file

-----------------------------------------------------------------------------
(* Mutated operators. *)

(* A restore that reads previous.conf, the set before the last commit. *)
RestorePrevious(t) ==
  /\ pc[t] = "restore"
  /\ rules' = IF previous = NoFile THEN Loaded(backup) ELSE Loaded(previous)
  /\ drift' = (blind \/ (backend = "nftables" /\ drift))
  /\ Goto(t, "reverted")
  /\ UNCHANGED <<backend, files, mu, mode, want, plan, window, ctl, bounds>>

(* A task that has nothing to roll back to returns with fwMu. *)
UnlockOnSuccess(t) ==
  /\ pc[t] \in {"committed", "reverted", "rolledback"} /\ mu = t
  /\ mu' = Nobody
  /\ backup' = Stock /\ blind' = FALSE /\ window' = FALSE
  /\ UNCHANGED <<backend, rules, files, pc, mode, want, ctl, drift, bounds>>

-----------------------------------------------------------------------------
Claim(t) ==
  /\ pc[t] = "idle"
  /\ Goto(t, "waiting")
  /\ \/ /\ mode' = [mode EXCEPT ![t] = "rollback"]
        /\ UNCHANGED want
     \/ /\ want' \in {[want EXCEPT ![t] = r] : r \in Rulesets}
        /\ UNCHANGED mode
  /\ UNCHANGED <<backend, rules, files, mu, plan, window, ctl, drift, bounds>>

(* fwMu taken, the backup captured and the artifact staged.  An error of nft's
   listing, or of reading current.conf, is not told from there being none. *)
BeginApply(t) ==
  /\ pc[t] = "waiting" /\ mu = Nobody
  /\ mode[t] = "apply"
  /\ mu' = t
  /\ \/ backup' = Backup /\ UNCHANGED faults
     \/ backup' = Stock /\ Fault
  /\ blind' = (backup' # Backup)
  /\ window' = TRUE
  /\ Goto(t, "load")
  /\ UNCHANGED <<backend, rules, files, mode, want, ctl, drift, outside, crashes>>

BeginRollback(t) ==
  /\ pc[t] = "waiting" /\ mu = Nobody
  /\ mode[t] = "rollback" /\ previous # NoFile
  /\ mu' = t
  /\ want' = [want EXCEPT ![t] = previous]
  /\ Goto(t, "replay")
  /\ UNCHANGED <<backend, rules, files, mode, plan, window, ctl, drift, bounds>>

(* No previous.conf, no /etc/pf.conf either, or the staged file could not be
   written. *)
BeginFails(t) ==
  /\ pc[t] = "waiting" /\ mu = Nobody
  /\ \/ mode[t] = "rollback" /\ previous = NoFile /\ UNCHANGED faults
     \/ Fault
  /\ mu' = t
  /\ Goto(t, "refused")
  /\ UNCHANGED <<backend, rules, files, mode, want, plan, window, ctl, drift,
                 outside, crashes>>

(* checkAndApply: check and load, which pf follows by enabling itself. *)
Load(t) ==
  /\ pc[t] = "load"
  /\ rules' = Loaded(want[t])
  /\ Goto(t, IF backend = "pf" THEN "enable" ELSE "confirm")
  /\ UNCHANGED <<backend, files, mu, mode, want, plan, window, ctl, drift, bounds>>

LoadFails(t) ==
  /\ pc[t] = "load"
  /\ Fault
  /\ Goto(t, "failed")
  /\ UNCHANGED <<backend, rules, files, mu, mode, want, plan, window, ctl, drift,
                 outside, crashes>>

Enable(t) ==
  /\ pc[t] = "enable"
  /\ Goto(t, "confirm")
  /\ UNCHANGED <<backend, rules, files, mu, mode, want, plan, window, ctl, drift,
                 bounds>>

(* pfctl -E fails: the task returns, and the rules stay loaded. *)
EnableFails(t) ==
  /\ pc[t] = "enable"
  /\ Fault
  /\ Goto(t, "failed")
  /\ drift' = TRUE
  /\ UNCHANGED <<backend, rules, files, mu, mode, want, plan, window, ctl,
                 outside, crashes>>

-----------------------------------------------------------------------------
DeadlinePasses(t) ==
  /\ pc[t] \in {"load", "enable", "confirm"} /\ window
  /\ window' = FALSE
  /\ UNCHANGED <<backend, rules, files, mu, pc, mode, want, plan, ctl, drift, bounds>>

(* The controller decides, once. *)
Decide(t) ==
  /\ ctl' \in {[ctl EXCEPT ![t] = d] : d \in {"committed", "refused"}}
  /\ ctl[t] # "open" => ctl' = ctl

ConfirmAnswered(t) ==
  /\ pc[t] = "confirm"
  /\ Decide(t)
  /\ Goto(t, IF ctl'[t] = "committed" THEN "promote1" ELSE "restore")
  /\ UNCHANGED <<backend, rules, files, mu, mode, want, plan, window, drift, bounds>>

(* The request or its answer is lost; past the window that ends the wait. *)
ConfirmLost(t) ==
  /\ pc[t] = "confirm"
  /\ ctl' = ctl \/ Decide(t)
  /\ Goto(t, IF window THEN "confirm" ELSE "restore")
  /\ UNCHANGED <<backend, rules, files, mu, mode, want, plan, window, drift, bounds>>

(* restore of the backup.  That of pf, if it was read, is current.conf itself. *)
Restore(t) ==
  /\ pc[t] = "restore"
  /\ rules' = Loaded(backup)
  /\ drift' = (blind \/ (backend = "nftables" /\ drift))
  /\ Goto(t, "reverted")
  /\ UNCHANGED <<backend, files, mu, mode, want, plan, window, ctl, bounds>>

(* rollback.conf could not be written or loaded. *)
RestoreFails(t) ==
  /\ pc[t] \in {"restore", "replay"}
  /\ Fault
  /\ Goto(t, IF pc[t] = "restore" THEN "stuck" ELSE "failed")
  /\ drift' = (drift \/ pc[t] = "restore")
  /\ UNCHANGED <<backend, rules, files, mu, mode, want, plan, window, ctl,
                 outside, crashes>>

-----------------------------------------------------------------------------
(* promote: previous.conf, then current.conf; a failure is only logged. *)
PromotePrevious(t) ==
  /\ pc[t] = "promote1"
  /\ previous' = backup
  /\ Goto(t, "promote2")
  /\ UNCHANGED <<backend, rules, current, mu, mode, want, plan, window, ctl,
                 drift, bounds>>

PromoteCurrent(t) ==
  /\ pc[t] = "promote2"
  /\ current' = want[t]
  /\ drift' = (rules # want[t])
  /\ Goto(t, "committed")
  /\ UNCHANGED <<backend, rules, previous, mu, mode, want, plan, window, ctl, bounds>>

PromoteFails(t) ==
  /\ pc[t] \in {"promote1", "promote2"}
  /\ Fault
  /\ IF pc[t] = "promote1"
     THEN previous' \in {previous, Blank} /\ UNCHANGED current
     ELSE current' \in {current, Blank} /\ UNCHANGED previous
  /\ drift' = TRUE
  /\ Goto(t, "committed")
  /\ UNCHANGED <<backend, rules, mu, mode, want, plan, window, ctl, outside, crashes>>

(* A rollback replays previous.conf, then swaps the state files. *)
Replay(t) ==
  /\ pc[t] = "replay"
  /\ rules' = Loaded(want[t])
  /\ drift' = (drift \/ Loaded(want[t]) # want[t])
  /\ Goto(t, "swap1")
  /\ UNCHANGED <<backend, files, mu, mode, want, plan, window, ctl, bounds>>

(* What current.conf held goes to previous.conf, unless it held nothing or could
   not be read. *)
SwapCurrent(t) ==
  /\ pc[t] = "swap1"
  /\ \/ /\ backup' = IF current = NoFile THEN Blank ELSE current
        /\ current' = want[t]
        /\ drift' = (rules # want[t])
        /\ UNCHANGED faults
     \/ /\ Fault
        /\ backup' = Blank
        /\ current' = want[t]
        /\ drift' = (rules # want[t])
     \/ /\ Fault
        /\ backup' = IF current = NoFile THEN Blank ELSE current
        /\ current' \in {current, Blank}
        /\ drift' = TRUE
  /\ Goto(t, "swap2")
  /\ UNCHANGED <<backend, rules, previous, mu, mode, want, blind, window, ctl,
                 outside, crashes>>

SwapPrevious(t) ==
  /\ pc[t] = "swap2"
  /\ \/ /\ previous' = IF backup = Blank THEN previous ELSE backup
        /\ UNCHANGED faults
     \/ /\ backup # Blank
        /\ Fault
        /\ previous' \in {previous, Blank}
  /\ Goto(t, "rolledback")
  /\ UNCHANGED <<backend, rules, current, mu, mode, want, plan, window, ctl,
                 drift, outside, crashes>>

Unlock(t) ==
  /\ pc[t] \in Results /\ mu = t
  /\ mu' = Nobody
  /\ backup' = Stock /\ blind' = FALSE /\ window' = FALSE
  /\ UNCHANGED <<backend, rules, files, pc, mode, want, ctl, drift, bounds>>

-----------------------------------------------------------------------------
(* Another program, or the operator, loads rules of its own. *)
OutsideWrite ==
  /\ outside < MaxOutside
  /\ outside' = outside + 1
  /\ rules' \in {Loaded(file) : file \in Contents} \ {rules}
  /\ drift' = TRUE
  /\ UNCHANGED <<backend, files, mu, pc, mode, want, plan, window, ctl, faults,
                 crashes>>

(* The agent dies: what it was doing ends where it was, and a state file being
   written may be left empty. *)
Crash ==
  /\ crashes < MaxCrashes
  /\ crashes' = crashes + 1
  /\ pc' = [t \in Txns |-> IF pc[t] \in {"waiting"} \cup Working THEN "crashed"
                           ELSE pc[t]]
  /\ IF \E t \in Txns : pc[t] = "promote1" \/ (pc[t] = "swap2" /\ backup # Blank)
     THEN previous' \in {previous, Blank}
     ELSE UNCHANGED previous
  /\ IF \E t \in Txns : pc[t] \in {"promote2", "swap1"}
     THEN current' \in {current, Blank}
     ELSE UNCHANGED current
  /\ drift' = (drift \/ \E t \in Txns : pc[t] \in Working \ {"load", "replay"})
  /\ mu' = Nobody
  /\ backup' = Stock /\ blind' = FALSE /\ window' = FALSE
  /\ UNCHANGED <<backend, rules, mode, want, ctl, faults, outside>>

-----------------------------------------------------------------------------
Next ==
  \/ \E t \in Txns :
       \/ Claim(t) \/ BeginApply(t) \/ BeginRollback(t) \/ BeginFails(t)
       \/ Load(t) \/ LoadFails(t) \/ Enable(t) \/ EnableFails(t)
       \/ DeadlinePasses(t) \/ ConfirmAnswered(t) \/ ConfirmLost(t)
       \/ Restore(t) \/ RestoreFails(t)
       \/ PromotePrevious(t) \/ PromoteCurrent(t) \/ PromoteFails(t)
       \/ Replay(t) \/ SwapCurrent(t) \/ SwapPrevious(t)
       \/ Unlock(t)
  \/ OutsideWrite
  \/ Crash

Spec == Init /\ [][Next]_vars

(* A handler that can run does, commands and posts time out, and time passes;
   nothing is assumed of the controller. *)
Fairness ==
  \A t \in Txns : /\ WF_vars(BeginApply(t) \/ BeginRollback(t) \/ BeginFails(t))
                  /\ WF_vars(Load(t) \/ Enable(t))
                  /\ WF_vars(DeadlinePasses(t))
                  /\ WF_vars(~ window /\ (ConfirmAnswered(t) \/ ConfirmLost(t)))
                  /\ WF_vars(Restore(t))
                  /\ WF_vars(PromotePrevious(t) \/ PromoteCurrent(t))
                  /\ WF_vars(Replay(t) \/ SwapCurrent(t) \/ SwapPrevious(t))
                  /\ WF_vars(Unlock(t))

FairSpec == Spec /\ Fairness

-----------------------------------------------------------------------------
(* With no transaction under way the rules are those of current.conf, or what
   the machine had at first, unless others changed them or a crash, a failed
   undo, a failed enable or a failed write came between, or a transaction was
   undone whose backup could not be taken; a refused transaction on pf brings
   them back even then.  It is what rollbacks and drift reports rely on. *)
Recorded ==
  (mu = Nobody /\ ~ drift) => rules = IF current = NoFile THEN Stock ELSE current

(* On pf each state file holds what the machine had at first, or a set the
   controller committed, or nothing, whatever was lost, failed or crashed:
   nothing unconfirmed is ever a rollback target.  The nftables backup is a
   dump, which after a crash may hold the unconfirmed set. *)
CommittedSets == {NoFile, Blank, Stock}
  \cup {want[t] : t \in {x \in Txns : mode[x] = "apply" /\ ctl[x] = "committed"}}
RecordedIsCommitted ==
  backend = "pf" => current \in CommittedSets /\ previous \in CommittedSets

(* Every claimed transaction ends, whatever becomes of the controller. *)
EveryTxnEnds == \A t \in Txns : pc[t] = "waiting" ~> pc[t] \in Ended

=============================================================================
