------------------------- MODULE FwTransactionProofs -------------------------
(***************************************************************************)
(* Theorems about FwTransaction, for any number of transactions, rulesets, *)
(* faults, outside changes and crashes.                                    *)
(*                                                                         *)
(* RecordedIsCommitted is not inductive: a promote writes backup and the   *)
(* want of its transaction, a swap the want of a rollback, so these must   *)
(* be committed sets too (PendingIsCommitted), which in turn rests on what *)
(* a transaction may be where it is (Phases): the one that promotes was    *)
(* confirmed, and one that has not begun is nobody's commit.               *)
(*                                                                         *)
(* Recorded says nothing while a transaction is under way.  What carries   *)
(* it across one is in ForceInv: at which steps the rules are already, or  *)
(* still, those of current.conf, and that until a restore the backup holds *)
(* them unless it could not be taken (blind), on nftables only as long as  *)
(* nobody else changed the rules.                                          *)
(***************************************************************************)
EXTENDS FwTransaction, TLAPS

(* Where a transaction is, of what kind it is and what was decided on it. *)
Phases ==
  \A t \in Txns :
    /\ pc[t] = "idle" => mode[t] = "apply" /\ ctl[t] = "open"
    /\ pc[t] \in {"load", "enable", "confirm", "promote1", "promote2"} => mode[t] = "apply"
    /\ pc[t] \in {"promote1", "promote2"} => ctl[t] = "committed"
    /\ pc[t] \in {"replay", "swap1", "swap2"} => mode[t] = "rollback"

(* What the state files may yet become. *)
PendingIsCommitted ==
  backend = "pf" =>
    /\ backup \in CommittedSets
    /\ \A t \in Txns : pc[t] \in {"replay", "swap1"} => want[t] \in CommittedSets

CommitInv == Phases /\ RecordedIsCommitted /\ PendingIsCommitted

-----------------------------------------------------------------------------
(* Types.                                                                  *)

(* The initial state is well typed. *)
LEMMA TypeInit == Init => TypeOK
<1> SUFFICES ASSUME Init PROVE TypeOK
  OBVIOUS
<1>1. Stock \in Contents
  BY DEF Contents
<1>2. faults \in 0 .. MaxFaults /\ outside \in 0 .. MaxOutside /\ crashes \in 0 .. MaxCrashes
  BY FwAssumption DEF FwAssumption, Init
<1>3. /\ pc \in [Txns -> {"idle", "waiting"} \cup Working \cup Ended]
      /\ mode \in [Txns -> {"apply", "rollback"}]
      /\ want \in [Txns -> Contents]
      /\ ctl \in [Txns -> {"open", "committed", "refused"}]
  BY <1>1 DEF Init
<1> QED BY <1>1, <1>2, <1>3 DEF Init, TypeOK

(* Loading a file leaves a ruleset in force, and the backup is a ruleset. *)
LEMMA LoadedType ==
  ASSUME TypeOK, NEW file \in Contents
  PROVE  Loaded(file) \in Contents
BY DEF Loaded, TypeOK

LEMMA BackupType ==
  ASSUME TypeOK
  PROVE  Backup \in Contents
<1>1. backend \in {"pf", "nftables"}
  BY FwAssumption DEF FwAssumption, TypeOK
<1>2. Stock \in Contents
  BY DEF Contents
<1> QED BY <1>1, <1>2 DEF Backup, TypeOK

(* Every step keeps the types. *)
LEMMA TypeStep == TypeOK /\ [Next]_vars => TypeOK'
<1> SUFFICES ASSUME TypeOK, [Next]_vars PROVE TypeOK'
  OBVIOUS
<1>1. Stock \in Contents /\ Blank \in Contents /\ Rulesets \subseteq Contents
  BY DEF Contents
<1>2. MaxFaults \in Nat /\ MaxOutside \in Nat /\ MaxCrashes \in Nat /\ NoFile \notin Contents
  BY FwAssumption DEF FwAssumption
<1>3. Backup \in Contents
  BY BackupType
<1>4. \A f \in Contents : Loaded(f) \in Contents
  BY LoadedType
<1>a. ASSUME NEW t \in Txns, Claim(t) PROVE TypeOK'
  BY <1>1, <1>a DEF Claim, TypeOK, Goto, files, plan, bounds
<1>b. ASSUME NEW t \in Txns, BeginApply(t) PROVE TypeOK'
  BY <1>1, <1>2, <1>3, <1>b DEF BeginApply, Fault, TypeOK, Goto, Working, files
<1>c. ASSUME NEW t \in Txns, BeginRollback(t) PROVE TypeOK'
  BY <1>c DEF BeginRollback, TypeOK, Goto, Working, files, plan, bounds
<1>d. ASSUME NEW t \in Txns, BeginFails(t) PROVE TypeOK'
  BY <1>2, <1>d DEF BeginFails, Fault, TypeOK, Goto, Ended, Results, files, plan
<1>e. ASSUME NEW t \in Txns, Load(t) PROVE TypeOK'
  BY <1>4, <1>e DEF Load, TypeOK, Goto, Working, files, plan, bounds
<1>f. ASSUME NEW t \in Txns, LoadFails(t) PROVE TypeOK'
  BY <1>2, <1>f DEF LoadFails, Fault, TypeOK, Goto, Ended, Results, files, plan
<1>g. ASSUME NEW t \in Txns, Enable(t) PROVE TypeOK'
  BY <1>g DEF Enable, TypeOK, Goto, Working, files, plan, bounds
<1>h. ASSUME NEW t \in Txns, EnableFails(t) PROVE TypeOK'
  BY <1>2, <1>h DEF EnableFails, Fault, TypeOK, Goto, Ended, Results, files, plan
<1>i. ASSUME NEW t \in Txns, DeadlinePasses(t) PROVE TypeOK'
  BY <1>i DEF DeadlinePasses, TypeOK, files, plan, bounds
<1>j. ASSUME NEW t \in Txns, ConfirmAnswered(t) PROVE TypeOK'
  BY <1>j DEF ConfirmAnswered, Decide, TypeOK, Goto, Working, files, plan, bounds
<1>k. ASSUME NEW t \in Txns, ConfirmLost(t) PROVE TypeOK'
  BY <1>k DEF ConfirmLost, Decide, TypeOK, Goto, Working, files, plan, bounds
<1>l. ASSUME NEW t \in Txns, Restore(t) PROVE TypeOK'
  BY <1>4, <1>l DEF Restore, TypeOK, Goto, Ended, Results, files, plan, bounds
<1>m. ASSUME NEW t \in Txns, RestoreFails(t) PROVE TypeOK'
  BY <1>2, <1>m DEF RestoreFails, Fault, TypeOK, Goto, Ended, Results, files, plan
<1>n. ASSUME NEW t \in Txns, PromotePrevious(t) PROVE TypeOK'
  BY <1>n DEF PromotePrevious, TypeOK, Goto, Working, plan, bounds
<1>o. ASSUME NEW t \in Txns, PromoteCurrent(t) PROVE TypeOK'
  BY <1>o DEF PromoteCurrent, TypeOK, Goto, Ended, Results, plan, bounds
<1>p. ASSUME NEW t \in Txns, PromoteFails(t) PROVE TypeOK'
  BY <1>1, <1>2, <1>p DEF PromoteFails, Fault, TypeOK, Goto, Ended, Results, plan
<1>q. ASSUME NEW t \in Txns, Replay(t) PROVE TypeOK'
  BY <1>4, <1>q DEF Replay, TypeOK, Goto, Working, files, plan, bounds
<1>r. ASSUME NEW t \in Txns, SwapCurrent(t) PROVE TypeOK'
  <2>1. /\ backup' \in Contents
        /\ current' \in Contents \cup {NoFile}
        /\ drift' \in BOOLEAN
        /\ faults' \in 0 .. MaxFaults
    <3>1. backup' \in Contents
      BY <1>1, <1>r DEF SwapCurrent, TypeOK
    <3>2. CASE current' = want[t] /\ drift' = (rules # want[t]) /\ UNCHANGED faults
      BY <3>1, <3>2 DEF TypeOK
    <3>3. CASE Fault /\ current' = want[t] /\ drift' = (rules # want[t])
      BY <1>2, <3>1, <3>3 DEF Fault, TypeOK
    <3>4. CASE Fault /\ current' \in {current, Blank} /\ drift' = TRUE
      BY <1>1, <1>2, <3>1, <3>4 DEF Fault, TypeOK
    <3> QED BY <1>r, <3>2, <3>3, <3>4 DEF SwapCurrent
  <2>2. pc' \in [Txns -> {"idle", "waiting"} \cup Working \cup Ended]
    BY <1>r DEF SwapCurrent, TypeOK, Goto, Working
  <2> QED BY <1>r, <2>1, <2>2 DEF SwapCurrent, TypeOK
<1>s. ASSUME NEW t \in Txns, SwapPrevious(t) PROVE TypeOK'
  BY <1>1, <1>2, <1>s DEF SwapPrevious, Fault, TypeOK, Goto, Ended, Results, plan
<1>t. ASSUME NEW t \in Txns, Unlock(t) PROVE TypeOK'
  BY <1>1, <1>t DEF Unlock, TypeOK, files, bounds
<1>u. CASE OutsideWrite
  BY <1>2, <1>4, <1>u DEF OutsideWrite, TypeOK, files, plan
<1>v. CASE Crash
  <2>1. pc' \in [Txns -> {"idle", "waiting"} \cup Working \cup Ended]
    BY <1>v DEF Crash, TypeOK, Ended
  <2>2. /\ current' \in Contents \cup {NoFile}
        /\ previous' \in Contents \cup {NoFile}
    BY <1>1, <1>v DEF Crash, TypeOK
  <2>3. drift' \in BOOLEAN
    BY <1>v DEF Crash
  <2>4. mu' \in Txns \cup {Nobody} /\ crashes' \in 0 .. MaxCrashes
    BY <1>2, <1>v DEF Crash, TypeOK
  <2> QED BY <1>1, <1>v, <2>1, <2>2, <2>3, <2>4 DEF Crash, TypeOK
<1>w. CASE UNCHANGED vars
  BY <1>w DEF vars, TypeOK, files, plan, bounds
<1> QED BY <1>a, <1>b, <1>c, <1>d, <1>e, <1>f, <1>g, <1>h, <1>i, <1>j, <1>k,
           <1>l, <1>m, <1>n, <1>o, <1>p, <1>q, <1>r, <1>s, <1>t, <1>u, <1>v,
           <1>w DEF Next

(* Every variable keeps its type: state files hold a ruleset or are absent,
   whatever a rollback, a promote or a crash wrote. *)
THEOREM TypeCorrect == Spec => []TypeOK
<1>1. Init => TypeOK
  BY TypeInit
<1>2. TypeOK /\ [Next]_vars => TypeOK'
  BY TypeStep
<1> QED BY <1>1, <1>2, PTL DEF Spec

-----------------------------------------------------------------------------
(* Committed sets.                                                         *)

(* Every step keeps the phases. *)
LEMMA PhasesStep == TypeOK /\ Phases /\ [Next]_vars => Phases'
<1> SUFFICES ASSUME TypeOK, Phases, [Next]_vars PROVE Phases'
  OBVIOUS
<1> USE DEF TypeOK, Phases, Goto
<1>a. ASSUME NEW t \in Txns, Claim(t) PROVE Phases'
  BY <1>a DEF Claim
<1>b. ASSUME NEW t \in Txns, BeginApply(t) PROVE Phases'
  BY <1>b DEF BeginApply
<1>c. ASSUME NEW t \in Txns, BeginRollback(t) PROVE Phases'
  BY <1>c DEF BeginRollback
<1>d. ASSUME NEW t \in Txns, BeginFails(t) PROVE Phases'
  BY <1>d DEF BeginFails
<1>e. ASSUME NEW t \in Txns, Load(t) PROVE Phases'
  BY <1>e DEF Load
<1>f. ASSUME NEW t \in Txns, LoadFails(t) PROVE Phases'
  BY <1>f DEF LoadFails
<1>g. ASSUME NEW t \in Txns, Enable(t) PROVE Phases'
  BY <1>g DEF Enable
<1>h. ASSUME NEW t \in Txns, EnableFails(t) PROVE Phases'
  BY <1>h DEF EnableFails
<1>i. ASSUME NEW t \in Txns, DeadlinePasses(t) PROVE Phases'
  BY <1>i DEF DeadlinePasses
<1>j. ASSUME NEW t \in Txns, ConfirmAnswered(t) PROVE Phases'
  BY <1>j DEF ConfirmAnswered, Decide
<1>k. ASSUME NEW t \in Txns, ConfirmLost(t) PROVE Phases'
  BY <1>k DEF ConfirmLost, Decide
<1>l. ASSUME NEW t \in Txns, Restore(t) PROVE Phases'
  BY <1>l DEF Restore
<1>m. ASSUME NEW t \in Txns, RestoreFails(t) PROVE Phases'
  BY <1>m DEF RestoreFails
<1>n. ASSUME NEW t \in Txns, PromotePrevious(t) PROVE Phases'
  BY <1>n DEF PromotePrevious
<1>o. ASSUME NEW t \in Txns, PromoteCurrent(t) PROVE Phases'
  BY <1>o DEF PromoteCurrent
<1>p. ASSUME NEW t \in Txns, PromoteFails(t) PROVE Phases'
  BY <1>p DEF PromoteFails
<1>q. ASSUME NEW t \in Txns, Replay(t) PROVE Phases'
  BY <1>q DEF Replay
<1>r. ASSUME NEW t \in Txns, SwapCurrent(t) PROVE Phases'
  BY <1>r DEF SwapCurrent
<1>s. ASSUME NEW t \in Txns, SwapPrevious(t) PROVE Phases'
  BY <1>s DEF SwapPrevious
<1>t. ASSUME NEW t \in Txns, Unlock(t) PROVE Phases'
  BY <1>t DEF Unlock
<1>u. CASE OutsideWrite
  BY <1>u DEF OutsideWrite
<1>v. CASE Crash
  BY <1>v DEF Crash
<1>w. CASE UNCHANGED vars
  BY <1>w DEF vars
<1> QED BY <1>a, <1>b, <1>c, <1>d, <1>e, <1>f, <1>g, <1>h, <1>i, <1>j, <1>k,
           <1>l, <1>m, <1>n, <1>o, <1>p, <1>q, <1>r, <1>s, <1>t, <1>u, <1>v,
           <1>w DEF Next

(* A committed apply keeps what it asked for: the controller decides once, and
   a task is claimed before it is decided on. *)
LEMMA CommittedGrows ==
  ASSUME TypeOK, Phases, [Next]_vars
  PROVE  CommittedSets \subseteq CommittedSets'
<1> DEFINE Kept == \A u \in Txns : mode[u] = "apply" /\ ctl[u] = "committed" =>
                     /\ mode'[u] = "apply" /\ ctl'[u] = "committed"
                     /\ want'[u] = want[u]
<1>1. ASSUME NEW t \in Txns, Claim(t) PROVE Kept
  BY <1>1 DEF Claim, TypeOK, Phases
<1>2. ASSUME NEW t \in Txns, BeginRollback(t) PROVE Kept
  BY <1>2 DEF BeginRollback, TypeOK
<1>3. ASSUME NEW t \in Txns, ConfirmAnswered(t) \/ ConfirmLost(t) PROVE Kept
  BY <1>3 DEF ConfirmAnswered, ConfirmLost, Decide, TypeOK
<1>4. ASSUME UNCHANGED <<mode, ctl, want>> PROVE Kept
  BY <1>4
<1>5. \/ \E t \in Txns : Claim(t) \/ BeginRollback(t) \/ ConfirmAnswered(t) \/ ConfirmLost(t)
      \/ UNCHANGED <<mode, ctl, want>>
  BY DEF Next, BeginApply, BeginFails, Load, LoadFails, Enable, EnableFails,
         DeadlinePasses, Restore, RestoreFails, PromotePrevious, PromoteCurrent,
         PromoteFails, Replay, SwapCurrent, SwapPrevious, Unlock, OutsideWrite,
         Crash, vars
<1>6. Kept
  BY <1>1, <1>2, <1>3, <1>4, <1>5
<1> QED BY <1>6 DEF CommittedSets

(* Every step keeps the state files, and what they may yet become, committed. *)
LEMMA CommitStep == TypeOK /\ CommitInv /\ [Next]_vars => CommitInv'
<1> SUFFICES ASSUME TypeOK, CommitInv, [Next]_vars PROVE CommitInv'
  OBVIOUS
<1> DEFINE Old == CommittedSets
           New == CommittedSets'
           Safe == /\ current' \in New /\ previous' \in New /\ backup' \in New
                   /\ \A u \in Txns : pc'[u] \in {"replay", "swap1"} => want'[u] \in New
<1>1. Phases'
  BY PhasesStep DEF CommitInv
<1>2. Old \subseteq New
  BY CommittedGrows DEF CommitInv
<1>3. NoFile \in Old /\ Blank \in Old /\ Stock \in Old
  BY DEF CommittedSets
<1>4. backend' = backend
  BY DEF Next, Claim, BeginApply, BeginRollback, BeginFails, Load, LoadFails,
         Enable, EnableFails, DeadlinePasses, ConfirmAnswered, ConfirmLost,
         Restore, RestoreFails, PromotePrevious, PromoteCurrent, PromoteFails,
         Replay, SwapCurrent, SwapPrevious, Unlock, OutsideWrite, Crash, vars
<1>5. ASSUME backend = "pf" PROVE Safe
  <2>1. current \in Old /\ previous \in Old /\ backup \in Old
    BY <1>5 DEF CommitInv, RecordedIsCommitted, PendingIsCommitted
  <2>2. \A u \in Txns : pc[u] \in {"replay", "swap1"} => want[u] \in Old
    BY <1>5 DEF CommitInv, PendingIsCommitted
  <2>3. \A u \in Txns : pc[u] \in {"promote1", "promote2"} => want[u] \in Old
    BY DEF CommitInv, Phases, CommittedSets
  <2> HIDE DEF Old, New
  <2> USE <1>2, <1>3, <2>1, <2>2, <2>3 DEF TypeOK, Goto, files, plan
  <2>a. ASSUME NEW t \in Txns, Claim(t) PROVE Safe
    BY <2>a DEF Claim
  <2>b. ASSUME NEW t \in Txns, BeginApply(t) PROVE Safe
    <3>1. Backup \in Old
      BY <1>5 DEF Backup
    <3> QED BY <2>b, <3>1 DEF BeginApply
  <2>c. ASSUME NEW t \in Txns, BeginRollback(t) PROVE Safe
    BY <2>c DEF BeginRollback
  <2>d. ASSUME NEW t \in Txns, BeginFails(t) PROVE Safe
    BY <2>d DEF BeginFails
  <2>e. ASSUME NEW t \in Txns, Load(t) \/ LoadFails(t) PROVE Safe
    BY <2>e DEF Load, LoadFails
  <2>f. ASSUME NEW t \in Txns, Enable(t) \/ EnableFails(t) PROVE Safe
    BY <2>f DEF Enable, EnableFails
  <2>g. ASSUME NEW t \in Txns, DeadlinePasses(t) PROVE Safe
    BY <2>g DEF DeadlinePasses
  <2>h. ASSUME NEW t \in Txns, ConfirmAnswered(t) \/ ConfirmLost(t) PROVE Safe
    BY <2>h DEF ConfirmAnswered, ConfirmLost
  <2>i. ASSUME NEW t \in Txns, Restore(t) \/ RestoreFails(t) PROVE Safe
    BY <2>i DEF Restore, RestoreFails
  <2>j. ASSUME NEW t \in Txns, PromotePrevious(t) PROVE Safe
    BY <2>j DEF PromotePrevious
  <2>k. ASSUME NEW t \in Txns, PromoteCurrent(t) PROVE Safe
    BY <2>k DEF PromoteCurrent
  <2>l. ASSUME NEW t \in Txns, PromoteFails(t) PROVE Safe
    BY <2>l DEF PromoteFails
  <2>m. ASSUME NEW t \in Txns, Replay(t) PROVE Safe
    BY <2>m DEF Replay
  <2>n. ASSUME NEW t \in Txns, SwapCurrent(t) PROVE Safe
    BY <2>n DEF SwapCurrent
  <2>o. ASSUME NEW t \in Txns, SwapPrevious(t) PROVE Safe
    BY <2>o DEF SwapPrevious
  <2>p. ASSUME NEW t \in Txns, Unlock(t) PROVE Safe
    BY <2>p DEF Unlock
  <2>q. ASSUME OutsideWrite PROVE Safe
    BY <2>q DEF OutsideWrite
  <2>r. ASSUME Crash PROVE Safe
    BY <2>r DEF Crash
  <2>s. ASSUME UNCHANGED vars PROVE Safe
    BY <2>s DEF vars
  <2> QED BY <2>a, <2>b, <2>c, <2>d, <2>e, <2>f, <2>g, <2>h, <2>i, <2>j, <2>k,
             <2>l, <2>m, <2>n, <2>o, <2>p, <2>q, <2>r, <2>s DEF Next
<1> QED BY <1>1, <1>4, <1>5 DEF CommitInv, RecordedIsCommitted, PendingIsCommitted

(* On pf, nothing unconfirmed is ever a rollback target: whatever is lost, fails
   or crashes, each state file holds the stock rules, nothing, or a set whose
   apply the controller committed. *)
THEOREM RecordedIsCommittedHolds == Spec => []RecordedIsCommitted
<1>1. Init => CommitInv
  <2> SUFFICES ASSUME Init PROVE CommitInv
    OBVIOUS
  <2>1. {NoFile, Blank, Stock} \subseteq CommittedSets
    BY DEF CommittedSets
  <2> QED BY <2>1 DEF Init, CommitInv, Phases, RecordedIsCommitted, PendingIsCommitted
<1>2. TypeOK /\ CommitInv /\ [Next]_vars => CommitInv'
  BY CommitStep
<1>3. CommitInv => RecordedIsCommitted
  BY DEF CommitInv
<1> QED BY TypeCorrect, <1>1, <1>2, <1>3, PTL DEF Spec

-----------------------------------------------------------------------------
(* Rules in force.                                                         *)

(* What current.conf says should be in force. *)
InForce == IF current = NoFile THEN Stock ELSE current

(* The transaction under way, if any, is the one that holds fwMu. *)
OneHolder ==
  /\ \A t \in Txns : pc[t] \in Working => mu = t
  /\ mu # Nobody => pc[mu] \in Working \cup Results

(* The steps at which current.conf and the rules agree. *)
Agreeing == Results \cup {"load", "replay", "swap2"}

RulesAgree ==
  ~ drift /\ (mu = Nobody \/ pc[mu] \in Agreeing) => rules = InForce

(* What a restore would load. *)
BackupHolds ==
  \A t \in Txns : pc[t] \in {"load", "enable", "confirm", "restore"} =>
    /\ ~ blind /\ (backend = "pf" \/ ~ drift) => backup = InForce
    /\ backend = "nftables" => backup # Blank

(* nft makes nothing of an empty file, so none is ever in force. *)
NeverBlank == backend = "nftables" => rules # Blank

ForceInv == OneHolder /\ RulesAgree /\ BackupHolds /\ NeverBlank

(* The initial state agrees. *)
LEMMA ForceInit == Init => ForceInv
BY FwAssumption
   DEF FwAssumption, Init, ForceInv, OneHolder, RulesAgree, BackupHolds,
       NeverBlank, InForce, Working

(* Every step keeps them in agreement. *)
LEMMA ForceStep == TypeOK /\ ForceInv /\ [Next]_vars => ForceInv'
<1> SUFFICES ASSUME TypeOK, ForceInv, [Next]_vars PROVE ForceInv'
  OBVIOUS
<1>0. /\ backend \in {"pf", "nftables"} /\ Nobody \notin Txns
      /\ NoFile \notin Contents /\ Stock # Blank
  BY FwAssumption DEF FwAssumption, TypeOK
<1>1. \A f : Loaded(f) = IF f = Blank /\ backend = "nftables" THEN rules ELSE f
  BY DEF Loaded
<1> USE <1>0 DEF TypeOK, ForceInv, OneHolder, RulesAgree, BackupHolds, NeverBlank,
                 InForce, Agreeing, Working, Results, Goto, files, plan, bounds
<1>a. ASSUME NEW t \in Txns, Claim(t) PROVE ForceInv'
  BY <1>a DEF Claim
<1>b. ASSUME NEW t \in Txns, BeginApply(t) PROVE ForceInv'
  BY <1>b DEF BeginApply, Backup
<1>c. ASSUME NEW t \in Txns, BeginRollback(t) PROVE ForceInv'
  BY <1>c DEF BeginRollback
<1>d. ASSUME NEW t \in Txns, BeginFails(t) PROVE ForceInv'
  BY <1>d DEF BeginFails
<1>e. ASSUME NEW t \in Txns, Load(t) PROVE ForceInv'
  BY <1>1, <1>e DEF Load
<1>f. ASSUME NEW t \in Txns, LoadFails(t) PROVE ForceInv'
  BY <1>f DEF LoadFails
<1>g. ASSUME NEW t \in Txns, Enable(t) PROVE ForceInv'
  BY <1>g DEF Enable
<1>h. ASSUME NEW t \in Txns, EnableFails(t) PROVE ForceInv'
  BY <1>h DEF EnableFails
<1>i. ASSUME NEW t \in Txns, DeadlinePasses(t) PROVE ForceInv'
  BY <1>i DEF DeadlinePasses
<1>j. ASSUME NEW t \in Txns, ConfirmAnswered(t) PROVE ForceInv'
  BY <1>j DEF ConfirmAnswered
<1>k. ASSUME NEW t \in Txns, ConfirmLost(t) PROVE ForceInv'
  BY <1>k DEF ConfirmLost
<1>l. ASSUME NEW t \in Txns, Restore(t) PROVE ForceInv'
  BY <1>1, <1>l DEF Restore
<1>m. ASSUME NEW t \in Txns, RestoreFails(t) PROVE ForceInv'
  BY <1>m DEF RestoreFails
<1>n. ASSUME NEW t \in Txns, PromotePrevious(t) PROVE ForceInv'
  BY <1>n DEF PromotePrevious
<1>o. ASSUME NEW t \in Txns, PromoteCurrent(t) PROVE ForceInv'
  BY <1>o DEF PromoteCurrent
<1>p. ASSUME NEW t \in Txns, PromoteFails(t) PROVE ForceInv'
  BY <1>p DEF PromoteFails
<1>q. ASSUME NEW t \in Txns, Replay(t) PROVE ForceInv'
  BY <1>1, <1>q DEF Replay
<1>r. ASSUME NEW t \in Txns, SwapCurrent(t) PROVE ForceInv'
  BY <1>r DEF SwapCurrent
<1>s. ASSUME NEW t \in Txns, SwapPrevious(t) PROVE ForceInv'
  BY <1>s DEF SwapPrevious
<1>t. ASSUME NEW t \in Txns, Unlock(t) PROVE ForceInv'
  BY <1>t DEF Unlock
<1>u. CASE OutsideWrite
  BY <1>1, <1>u DEF OutsideWrite
<1>v. CASE Crash
  BY <1>v DEF Crash
<1>w. CASE UNCHANGED vars
  BY <1>w DEF vars
<1> QED BY <1>a, <1>b, <1>c, <1>d, <1>e, <1>f, <1>g, <1>h, <1>i, <1>j, <1>k,
           <1>l, <1>m, <1>n, <1>o, <1>p, <1>q, <1>r, <1>s, <1>t, <1>u, <1>v,
           <1>w DEF Next

(* On pf and on nftables, between transactions the rules in force are those of
   current.conf, or the stock ones, unless others changed them or a crash or a
   failed step came between: what a rollback and a drift report rely on. *)
THEOREM RecordedHolds == Spec => []Recorded
<1>1. Init => ForceInv
  BY ForceInit
<1>2. TypeOK /\ ForceInv /\ [Next]_vars => ForceInv'
  BY ForceStep
<1>3. ForceInv => Recorded
  BY DEF ForceInv, RulesAgree, InForce, Recorded
<1> QED BY TypeCorrect, <1>1, <1>2, <1>3, PTL DEF Spec
=============================================================================
