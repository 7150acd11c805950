--------------------------- MODULE WorkTreeProofs ---------------------------
(***************************************************************************)
(* TLAPS proofs about WorkTree, for any jobs and any number of commits:    *)
(* what a chat reports as pushed is on the remote whoever committed it, and *)
(* a job that had the directory to itself publishes its item and names no  *)
(* other.                                                                  *)
(***************************************************************************)
EXTENDS WorkTree, TLAPS

(* Every step keeps every variable in its type. *)
LEMMA TypeStep == TypeOK /\ [Next]_vars => TypeOK'
<1> SUFFICES ASSUME TypeOK, [Next]_vars PROVE TypeOK'
  OBVIOUS
<1> USE WorkTreeAssumption
    DEF TypeOK, Positions, Labels, Results, Kinds, repo, regs, history, Goto
<1>1. ASSUME NEW j \in Jobs, Begin(j) PROVE TypeOK'
  BY <1>1 DEF Begin, Enter, Active
<1>2. ASSUME NEW j \in Jobs, Look(j) \/ CloneFails(j) PROVE TypeOK'
  BY <1>2 DEF Look, CloneFails
<1>3. ASSUME NEW j \in Jobs, Fetch(j) PROVE TypeOK'
  <2>1. origin' \in BOOLEAN /\ theirs' \in BOOLEAN
    BY <1>3, Zenon DEF Fetch
  <2> QED
    BY <1>3, <2>1 DEF Fetch, Prepared, HeadRead, Chats
<1>4. ASSUME NEW j \in Jobs, Clone(j) PROVE TypeOK'
  <2>1. origin' \in BOOLEAN /\ theirs' \in BOOLEAN
    BY <1>4, Zenon DEF Clone
  <2> QED
    BY <1>4, <2>1 DEF Clone, Prepared, HeadRead, Chats
<1>5. ASSUME NEW j \in Jobs, InitRepo(j) PROVE TypeOK'
  BY <1>5 DEF InitRepo, Prepared, HeadRead, Chats
<1>6. ASSUME NEW j \in Jobs, Wire(j) PROVE TypeOK'
  <2>1. origin' \in BOOLEAN /\ theirs' \in BOOLEAN
    BY <1>6, Zenon DEF Wire
  <2> QED
    BY <1>6, <2>1 DEF Wire, Prepared, HeadRead, Chats
<1>7. ASSUME NEW j \in Jobs, Write(j) PROVE TypeOK'
  BY <1>7 DEF Write
<1>8. ASSUME NEW j \in Jobs, OwnCommit(j) PROVE TypeOK'
  BY <1>8 DEF OwnCommit, Committed
<1>9. ASSUME NEW j \in Jobs, ToolsEnd(j) \/ LoopFails(j) \/ CoderFails(j) PROVE TypeOK'
  BY <1>9 DEF ToolsEnd, LoopFails, CoderFails
<1>10. ASSUME NEW j \in Jobs, StatusResearch(j) \/ StatusChat(j) PROVE TypeOK'
  BY <1>10 DEF StatusResearch, StatusChat, Answers, Spent, HeadRead
<1>11. ASSUME NEW j \in Jobs, StatusFails(j) \/ AddFails(j) \/ CommitFails(j) \/ HeadFails(j) \/ PushFails(j)
       PROVE TypeOK'
  BY <1>11 DEF StatusFails, AddFails, CommitFails, HeadFails, PushFails, GitFails, Answers, Spent
<1>12. ASSUME NEW j \in Jobs, Add(j) PROVE TypeOK'
  BY <1>12 DEF Add
<1>13. ASSUME NEW j \in Jobs, Commit(j) PROVE TypeOK'
  BY <1>13 DEF Commit, Committed
<1>14. ASSUME NEW j \in Jobs, HeadResearch(j) PROVE TypeOK'
  BY <1>14 DEF HeadResearch, Named, Spent
<1>18. ASSUME NEW j \in Jobs, HeadChat(j) PROVE TypeOK'
  BY <1>18 DEF HeadChat, TellsNothing, Spent
<1>15. ASSUME NEW j \in Jobs, Push(j) PROVE TypeOK'
  BY <1>15 DEF Push, Answers, Spent
<1>16. ASSUME NEW j \in Jobs, Answer(j) \/ Dies(j) \/ Quit(j) \/ TurnFails(j) PROVE TypeOK'
  BY <1>16 DEF Answer, Dies, Quit, TurnFails, Return, Leave, Forget
<1>17. ASSUME NEW j \in Jobs, Prompt(j) PROVE TypeOK'
  BY <1>17 DEF Prompt, Enter, HeadRead, Active
<1>19. CASE UNCHANGED vars
  BY <1>19 DEF vars
<1> QED
  BY <1>1, <1>2, <1>3, <1>4, <1>5, <1>6, <1>7, <1>8, <1>9, <1>10, <1>11, <1>12,
     <1>13, <1>14, <1>15, <1>16, <1>17, <1>18, <1>19
  DEF Next, Preparing, Finishing, Turns

(* Type correctness of the directory and its jobs. *)
THEOREM TypeCorrect == Spec => []TypeOK
<1>1. Init => TypeOK
  <2>1. Init => origin \in BOOLEAN
    BY Zenon DEF Init
  <2> QED
    BY <2>1, WorkTreeAssumption DEF Init, TypeOK, Positions, Labels, Results, Kinds
<1> QED
  BY <1>1, TypeStep, PTL DEF Spec

-----------------------------------------------------------------------------
(* Where a job can be once its tools have begun. *)
Late == {"work", "status", "add", "commit", "head", "push", "answer"}

(* No commit is beyond HEAD; an item that was written is changed, staged, or in a
   commit after the HEAD its job started from; after its own add and commit a job
   has nothing left to stage; and what a chat reports pushed is on the remote. *)
ItemInv ==
  /\ dir = "empty" => head = 0 /\ tree \cup index = {}
  /\ pushed <= head
  /\ \A j \in Jobs :
       /\ at[j] <= head /\ pre[j] <= head
       /\ j \in wrote => /\ pc[j] \in Late
                         /\ j \in tree \cup index \/ pre[j] < at[j]
       /\ pc[j] \in {"commit", "head", "push"} => j \notin tree
       /\ pc[j] \in {"head", "push"} => j \notin index
       /\ res[j] \in {"ok", "none"} => pc[j] = "answer"
       /\ res[j] = "ok" /\ j \in wrote /\ j \in Chats => Published(j)
       /\ res[j] = "none" => j \in Chats \ wrote

(* One step of a job, or of another who pushes to the remote. *)
LEMMA ItemStep == TypeOK /\ ItemInv /\ [Next]_vars => ItemInv'
<1> SUFFICES ASSUME TypeOK, ItemInv, [Next]_vars PROVE ItemInv'
  OBVIOUS
<1> USE WorkTreeAssumption
    DEF TypeOK, Positions, Labels, Kinds, repo, regs, history, Goto,
        ItemInv, Late, Published, Chats
<1>1. ASSUME NEW j \in Jobs, Begin(j) PROVE ItemInv'
  BY <1>1 DEF Begin, Enter
<1>2. ASSUME NEW j \in Jobs, Look(j) \/ CloneFails(j) PROVE ItemInv'
  BY <1>2 DEF Look, CloneFails
<1>3. ASSUME NEW j \in Jobs, Fetch(j) PROVE ItemInv'
  BY <1>3 DEF Fetch, Prepared, HeadRead
<1>4. ASSUME NEW j \in Jobs, Clone(j) PROVE ItemInv'
  BY <1>4 DEF Clone, Prepared, HeadRead
<1>5. ASSUME NEW j \in Jobs, InitRepo(j) PROVE ItemInv'
  BY <1>5 DEF InitRepo, Prepared, HeadRead
<1>6. ASSUME NEW j \in Jobs, Wire(j) PROVE ItemInv'
  BY <1>6 DEF Wire, Prepared, HeadRead
<1>7. ASSUME NEW j \in Jobs, Write(j) PROVE ItemInv'
  BY <1>7 DEF Write
<1>8. ASSUME NEW j \in Jobs, OwnCommit(j) PROVE ItemInv'
  BY <1>8 DEF OwnCommit, Committed
<1>9. ASSUME NEW j \in Jobs, ToolsEnd(j) \/ LoopFails(j) \/ CoderFails(j) PROVE ItemInv'
  BY <1>9 DEF ToolsEnd, LoopFails, CoderFails
<1>10. ASSUME NEW j \in Jobs, StatusResearch(j) \/ StatusChat(j) PROVE ItemInv'
  BY <1>10 DEF StatusResearch, StatusChat, Answers, Spent, HeadRead, Dirty
<1>11. ASSUME NEW j \in Jobs, StatusFails(j) \/ AddFails(j) \/ CommitFails(j) \/ HeadFails(j) \/ PushFails(j) PROVE ItemInv'
  BY <1>11 DEF StatusFails, AddFails, CommitFails, HeadFails, PushFails, GitFails, Answers, Spent
<1>12. ASSUME NEW j \in Jobs, Add(j) PROVE ItemInv'
  BY <1>12 DEF Add
<1>13. ASSUME NEW j \in Jobs, Commit(j) PROVE ItemInv'
  BY <1>13 DEF Commit, Committed
<1>14. ASSUME NEW j \in Jobs, HeadResearch(j) \/ HeadChat(j) PROVE ItemInv'
  BY <1>14 DEF HeadResearch, HeadChat, TellsNothing, Spent
<1>15. ASSUME NEW j \in Jobs, Push(j) PROVE ItemInv'
  BY <1>15 DEF Push, Answers, Spent
<1>16. ASSUME NEW j \in Jobs, Answer(j) \/ Dies(j) \/ Quit(j) \/ TurnFails(j) PROVE ItemInv'
  BY <1>16 DEF Answer, Dies, Quit, TurnFails, Return, Leave, Forget
<1>17. ASSUME NEW j \in Jobs, Prompt(j) PROVE ItemInv'
  BY <1>17 DEF Prompt, Enter, HeadRead
<1>18. CASE UNCHANGED vars
  BY <1>18 DEF vars
<1> QED
  BY <1>1, <1>2, <1>3, <1>4, <1>5, <1>6, <1>7, <1>8, <1>9, <1>10, <1>11, <1>12,
     <1>13, <1>14, <1>15, <1>16, <1>17, <1>18
  DEF Next, Preparing, Finishing, Turns

LEMMA ItemSafe == Spec => [](TypeOK /\ ItemInv)
<1>1. Init => ItemInv
  BY DEF Init, ItemInv, Published
<1>2. TypeOK /\ ItemInv /\ [Next]_vars => (TypeOK /\ ItemInv)'
  BY TypeStep, ItemStep
<1> QED
  BY <1>1, <1>2, TypeCorrect, PTL DEF Spec

(* What a coder wrote for a chat that reports its commits pushed is on the remote,
   whoever committed it, and one that reports nothing to push wrote nothing,
   unless HEAD could not be read. *)
THEOREM ChatPublishedHolds == Spec => []ChatPublished
<1>1. TypeOK /\ ItemInv => ChatPublished
  BY DEF TypeOK, ItemInv, ChatPublished, Chats
<1> QED
  BY <1>1, ItemSafe, PTL

-----------------------------------------------------------------------------
(* The commit of a job that has the directory to itself is the last one, the
   first after the HEAD it started from, and holds its item only. *)
OwnLast(j) ==
  /\ tree \cup index = {}
  /\ at[j] = head
  /\ \A i \in Jobs \ {j} : at[i] < head
  /\ pre[j] # 0 => head = pre[j] + 1

(* A job that has it to itself is the only one at work; until its commit its
   item is the only change and HEAD is where it started; then it has committed
   and lists its own item at most, and when it answers ok it has pushed. *)
AloneInv ==
  /\ \A j \in Jobs : /\ pc[j] = "idle" => pre[j] = 0
                     /\ pc[j] \notin {"push", "answer"} => files[j] = {}
  /\ \A j \in Active \ disturbed :
       /\ Active = {j}
       /\ tree \cup index \subseteq {j}
       /\ pc[j] \in {"work", "status", "add", "commit"} =>
            /\ pre[j] # 0 => pre[j] = head
            /\ j \in wrote => j \in tree \cup index
       /\ j \in wrote /\ j \notin Chats =>
            /\ pc[j] \in {"head", "push"} => OwnLast(j)
            /\ files[j] \subseteq {j}
            /\ res[j] = "ok" => OwnLast(j) /\ pushed = head

(* One step, of the job that is alone or of one that ends its solitude. *)
LEMMA AloneStep == TypeOK /\ ItemInv /\ AloneInv /\ [Next]_vars => AloneInv'
<1> SUFFICES ASSUME TypeOK, ItemInv, AloneInv, [Next]_vars PROVE AloneInv'
  OBVIOUS
<1> USE WorkTreeAssumption
    DEF TypeOK, Positions, Labels, Kinds, repo, regs, history, Goto,
        ItemInv, Late, Chats, Active, Dirty, AloneInv, OwnLast
<1>1. ASSUME NEW j \in Jobs, Begin(j) PROVE AloneInv'
  BY <1>1 DEF Begin, Enter
<1>2. ASSUME NEW j \in Jobs, Look(j) \/ CloneFails(j) PROVE AloneInv'
  BY <1>2 DEF Look, CloneFails
<1>3. ASSUME NEW j \in Jobs, Fetch(j) PROVE AloneInv'
  BY <1>3 DEF Fetch, Prepared, HeadRead
<1>4. ASSUME NEW j \in Jobs, Clone(j) PROVE AloneInv'
  BY <1>4 DEF Clone, Prepared, HeadRead
<1>5. ASSUME NEW j \in Jobs, InitRepo(j) PROVE AloneInv'
  BY <1>5 DEF InitRepo, Prepared, HeadRead
<1>6. ASSUME NEW j \in Jobs, Wire(j) PROVE AloneInv'
  BY <1>6 DEF Wire, Prepared, HeadRead
<1>7. ASSUME NEW j \in Jobs, Write(j) PROVE AloneInv'
  BY <1>7 DEF Write
<1>8. ASSUME NEW j \in Jobs, OwnCommit(j) PROVE AloneInv'
  BY <1>8 DEF OwnCommit, Committed
<1>9. ASSUME NEW j \in Jobs, ToolsEnd(j) \/ LoopFails(j) \/ CoderFails(j) PROVE AloneInv'
  BY <1>9 DEF ToolsEnd, LoopFails, CoderFails
<1>10. ASSUME NEW j \in Jobs, StatusResearch(j) \/ StatusChat(j) PROVE AloneInv'
  BY <1>10 DEF StatusResearch, StatusChat, Answers, Spent, HeadRead
<1>11. ASSUME NEW j \in Jobs, StatusFails(j) \/ AddFails(j) \/ CommitFails(j) \/ HeadFails(j) \/ PushFails(j) PROVE AloneInv'
  BY <1>11 DEF StatusFails, AddFails, CommitFails, HeadFails, PushFails, GitFails, Answers, Spent
<1>12. ASSUME NEW j \in Jobs, Add(j) PROVE AloneInv'
  BY <1>12 DEF Add
<1>13. ASSUME NEW j \in Jobs, Commit(j) PROVE AloneInv'
  BY <1>13 DEF Commit, Committed
<1>14. ASSUME NEW j \in Jobs, HeadResearch(j) PROVE AloneInv'
  <2>1. j \in (Active \ disturbed) \cap wrote => Named(j) \subseteq {j}
    <3> SUFFICES ASSUME j \in Active, j \notin disturbed, j \in wrote PROVE Named(j) \subseteq {j}
      OBVIOUS
    <3>1. OwnLast(j) /\ head \in Nat \ {0} /\ pre[j] \in Nat
      BY <1>14 DEF HeadResearch
    <3>2. \A i \in Jobs \ {j} : at[i] \in Nat /\ at[i] < head
      BY <3>1
    <3> HIDE DEF TypeOK, ItemInv, AloneInv
    <3> QED
      BY <3>1, <3>2 DEF Named
  <2>2. files'[j] \in {Named(j), {}} /\ files' = [files EXCEPT ![j] = files'[j]]
    BY <1>14 DEF HeadResearch
  <2> QED
    BY <1>14, <2>1, <2>2 DEF HeadResearch, Spent
<1>18. ASSUME NEW j \in Jobs, HeadChat(j) PROVE AloneInv'
  BY <1>18 DEF HeadChat, TellsNothing, Spent
<1>15. ASSUME NEW j \in Jobs, Push(j) PROVE AloneInv'
  BY <1>15 DEF Push, Answers, Spent
<1>16. ASSUME NEW j \in Jobs, Answer(j) \/ Dies(j) \/ Quit(j) \/ TurnFails(j) PROVE AloneInv'
  BY <1>16 DEF Answer, Dies, Quit, TurnFails, Return, Leave, Forget
<1>17. ASSUME NEW j \in Jobs, Prompt(j) PROVE AloneInv'
  BY <1>17 DEF Prompt, Enter, HeadRead
<1>19. CASE UNCHANGED vars
  BY <1>19 DEF vars
<1> QED
  BY <1>1, <1>2, <1>3, <1>4, <1>5, <1>6, <1>7, <1>8, <1>9, <1>10, <1>11, <1>12,
     <1>13, <1>14, <1>15, <1>16, <1>17, <1>18, <1>19
  DEF Next, Preparing, Finishing, Turns

LEMMA AloneSafe == Spec => [](TypeOK /\ ItemInv /\ AloneInv)
<1>1. Init => AloneInv
  BY DEF Init, AloneInv, Active
<1>2. TypeOK /\ ItemInv /\ AloneInv /\ [Next]_vars => AloneInv'
  BY AloneStep
<1> QED
  BY <1>1, <1>2, ItemSafe, PTL DEF Spec

(* A task or a turn that had the directory to itself and answers ok has
   published everything, and names no file of another job. *)
THEOREM TaskPublishedHolds == Spec => []TaskPublished
<1>1. TypeOK /\ ItemInv /\ AloneInv => TaskPublished
  <2> SUFFICES ASSUME TypeOK, ItemInv, AloneInv,
                      NEW j \in (Tasks \cup Turns) \cap wrote,
                      pc[j] = "answer", res[j] = "ok", j \notin disturbed
               PROVE  /\ pushed = head /\ ~ Dirty /\ Published(j)
                      /\ files[j] \subseteq {j}
    BY DEF TaskPublished
  <2>1. j \in Jobs /\ j \in Active \ disturbed /\ j \in wrote /\ j \notin Chats
    BY DEF Tasks, Turns, Chats, Active
  <2>2. OwnLast(j) /\ pushed = head /\ files[j] \subseteq {j}
    BY <2>1 DEF AloneInv
  <2>3. pre[j] < at[j] /\ pre[j] \in Nat /\ head \in Nat /\ at[j] \in Nat
    BY <2>1, <2>2, WorkTreeAssumption DEF TypeOK, ItemInv, OwnLast, Positions
  <2> QED
    BY <2>2, <2>3 DEF OwnLast, Dirty, Published
<1> QED
  BY <1>1, AloneSafe, PTL

=============================================================================
