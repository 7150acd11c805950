------------------------------ MODULE WorkTree ------------------------------
(***************************************************************************)
(* A work directory and the jobs that share it: research tasks             *)
(* (runResearchTask), chat messages handed to a coder (loop.go, gitFinalize)*)
(* and the turns of the stdin REPL.  Each prepares a git repository, lets a *)
(* model or a coder write into it, then stages everything, commits and      *)
(* pushes.  Nothing serialises them.                                        *)
(*                                                                         *)
(* Abstracted: an item is the file a job writes, whatever its tools; there  *)
(* is one branch.  History only grows, so a commit is its position, and an  *)
(* item carries the position of the last commit that holds it; the remote   *)
(* has the first `pushed' of them and perhaps commits of others.  git, the  *)
(* remote and the model behind the tool loop are external.                  *)
(***************************************************************************)
EXTENDS Naturals, FiniteSets

CONSTANTS
  Jobs,        \* whoever may use the directory at a time; each has its file
  MaxCommits   \* bound on the commits of the directory

Kinds == {"task", "chat", "turn"}
Positions == 0..MaxCommits

ASSUME WorkTreeAssumption == MaxCommits \in Nat \ {0}

VARIABLES
  dir,       \* the directory: empty, plain files, or a repository
  origin,    \* its remote `origin' is configured
  tree,      \* items changed and not staged
  index,     \* items staged
  at,        \* the position of the last commit that holds an item, 0 if none
  head,      \* the position of HEAD, 0 before the first commit
  pushed,    \* how many of the commits the remote has
  theirs,    \* the remote has had commits from the start that are not here
  pc,        \* where each job is
  kind,      \* what it is
  pre, end,  \* preHEAD and postHEAD of each job
  git,       \* the turns given a git remote, the chats whose gitPrepare succeeded
  files,     \* files_written of each task or turn
  res,       \* what each will answer; failed at once when the tool loop fails
  wrote,     \* history: the jobs that wrote their item
  disturbed  \* history: those that were not alone in the directory, found
             \* changes in it, or whose tools committed by themselves

repo == <<dir, origin, tree, index, at, head, pushed, theirs>>
regs == <<kind, pre, end, git, files, res>>
history == <<wrote, disturbed>>
vars == <<repo, pc, regs, history>>

Labels == {"idle", "look", "fetch", "clone", "init", "wire", "prompt", "work",
           "status", "add", "commit", "head", "push", "answer"}
(* none: no commits, nothing to push; unread: the same words, because HEAD could
   not be read. *)
Results == {"plain", "ok", "none", "unread", "failed"}

-----------------------------------------------------------------------------
TypeOK ==
  /\ dir \in {"empty", "plain", "repo"} /\ origin \in BOOLEAN
  /\ tree \subseteq Jobs /\ index \subseteq Jobs
  /\ at \in [Jobs -> Positions]
  /\ head \in Positions /\ pushed \in Positions /\ theirs \in BOOLEAN
  /\ pc \in [Jobs -> Labels]
  /\ pre \in [Jobs -> Positions] /\ end \in [Jobs -> Positions]
  /\ res \in [Jobs -> Results]
  /\ kind \in [Jobs -> Kinds] /\ git \subseteq Jobs
  /\ files \in [Jobs -> SUBSET Jobs]
  /\ wrote \subseteq Jobs /\ disturbed \subseteq Jobs

(* A directory nobody made a repository of yet; the remote may have commits. *)
Init ==
  /\ dir = "empty" /\ origin = FALSE
  /\ tree = {} /\ index = {}
  /\ at = [i \in Jobs |-> 0]
  /\ head = 0 /\ pushed = 0
  /\ theirs \in BOOLEAN
  /\ pc = [j \in Jobs |-> "idle"]
  /\ pre = [j \in Jobs |-> 0] /\ end = [j \in Jobs |-> 0]
  /\ kind = [j \in Jobs |-> "task"] /\ git = {}
  /\ res = [j \in Jobs |-> "plain"] /\ files = [j \in Jobs |-> {}]
  /\ wrote = {} /\ disturbed = {}

Goto(j, label) == pc' = [pc EXCEPT ![j] = label]
Tasks == {j \in Jobs : kind[j] = "task"}
Chats == {j \in Jobs : kind[j] = "chat"}
Turns == {j \in Jobs : kind[j] = "turn"}
Active == {j \in Jobs : pc[j] \notin {"idle", "prompt"}}
Dirty == tree \cup index # {}

(* A job starts to use the directory: it and the others are no longer alone. *)
Enter(j) ==
  disturbed' = (disturbed \ {j})
                 \cup (IF Active = {} THEN {} ELSE Active \cup {j})
                 \cup (IF Dirty THEN {j} ELSE {})

(* The registers of a job that is over, except those the REPL keeps. *)
Forget(j) ==
  /\ pre' = [pre EXCEPT ![j] = 0] /\ end' = [end EXCEPT ![j] = 0]
  /\ res' = [res EXCEPT ![j] = "plain"] /\ files' = [files EXCEPT ![j] = {}]
  /\ wrote' = wrote \ {j} /\ disturbed' = disturbed \ {j}

Leave(j) ==
  /\ Goto(j, "idle")
  /\ Forget(j)
  /\ kind' = [kind EXCEPT ![j] = "task"]
  /\ git' = git \ {j}

Return(j) ==
  /\ Goto(j, "prompt")
  /\ Forget(j)
  /\ UNCHANGED <<kind, git>>

(* preHEAD is not read any more. *)
Spent(j) == pre' = [pre EXCEPT ![j] = 0]

(* The answer of the git part, joined with the verdict on the tool loop. *)
Answers(j, good) ==
  /\ res' = [res EXCEPT ![j] = IF good /\ res[j] # "failed" THEN "ok" ELSE "failed"]
  /\ Spent(j)
  /\ Goto(j, "answer")

(* A git command of the final part fails, and the error is not swallowed. *)
GitFails(j) ==
  /\ Answers(j, FALSE)
  /\ UNCHANGED <<repo, kind, end, git, files, history>>

(* A chat is told that nothing changed and nothing was pushed. *)
TellsNothing(j, why) ==
  /\ res' = [res EXCEPT ![j] = why]
  /\ Goto(j, "answer")

(* What a commit of the whole index leaves. *)
Committed(items) ==
  /\ head < MaxCommits
  /\ head' = head + 1
  /\ at' = [i \in Jobs |-> IF i \in items THEN head' ELSE at[i]]

-----------------------------------------------------------------------------
(* Mutated operators. *)

(* The chat path with the early return of the research path. *)
HeadChatClean(j) ==
  /\ pc[j] = "head" /\ j \in Chats
  /\ IF pre[j] # 0 THEN TellsNothing(j, "none") ELSE Goto(j, "push") /\ UNCHANGED res
  /\ Spent(j)
  /\ UNCHANGED <<repo, kind, end, git, files, history>>

(* A failed push reported as the warning it is for a chat. *)
PushFailsWarns(j) ==
  /\ pc[j] = "push"
  /\ Answers(j, TRUE)
  /\ UNCHANGED <<repo, kind, end, git, files, history>>

-----------------------------------------------------------------------------
(* gitPrepare *)

Begin(j) ==
  /\ pc[j] = "idle"
  /\ \E k \in Kinds, remote \in BOOLEAN :
       /\ kind' = [kind EXCEPT ![j] = k]
       /\ git' = IF remote /\ k = "turn" THEN git \cup {j} ELSE git
       /\ Goto(j, IF remote THEN "look" ELSE IF k = "turn" THEN "prompt" ELSE "work")
  /\ Enter(j)
  /\ UNCHANGED <<repo, pre, end, files, res, wrote>>

(* isGitRepo, which takes a git that fails for a no, then isDirEmpty *)
Look(j) ==
  /\ pc[j] = "look"
  /\ \/ dir = "repo" /\ Goto(j, "fetch")
     \/ dir \in {"repo", "plain"} /\ Goto(j, "init")
     \/ dir = "empty" /\ Goto(j, "clone")
  /\ UNCHANGED <<repo, regs, history>>

(* What headSHA makes of HEAD: none, when git rev-parse fails. *)
HeadRead(position) == {position, 0}

(* Where a job goes once gitPrepare has returned. *)
Prepared(j, ok, position) ==
  /\ git' = IF ok THEN git \cup ({j} \cap Chats) ELSE git
  /\ \E p \in HeadRead(position) : pre' = [pre EXCEPT ![j] = IF ok THEN p ELSE 0]
  /\ Goto(j, IF j \in Turns THEN "prompt" ELSE "work")

(* ensureRemote, and a fetch nobody looks at. *)
Fetch(j) ==
  /\ pc[j] = "fetch"
  /\ \/ origin' = TRUE /\ Prepared(j, TRUE, head)
     \/ origin' = origin /\ Prepared(j, FALSE, head)
  /\ UNCHANGED <<dir, tree, index, at, head, pushed, theirs, kind, end, files, res, history>>

(* git clones into an empty directory only. *)
Clone(j) ==
  /\ pc[j] = "clone"
  /\ dir = "empty"
  /\ dir' = "repo" /\ origin' = TRUE
  /\ head' = IF theirs THEN 1 ELSE 0
  /\ pushed' = head'
  /\ theirs' = FALSE
  /\ Prepared(j, TRUE, head')
  /\ UNCHANGED <<tree, index, at, kind, end, files, res, history>>

CloneFails(j) ==
  /\ pc[j] = "clone"
  /\ Goto(j, "init")
  /\ UNCHANGED <<repo, regs, history>>

(* git init leaves a repository that is there as it is. *)
InitRepo(j) ==
  /\ pc[j] = "init"
  /\ \/ dir' = "repo" /\ Goto(j, "wire") /\ UNCHANGED <<git, pre>>
     \/ dir' = dir /\ Prepared(j, FALSE, 0)
  /\ UNCHANGED <<origin, tree, index, at, head, pushed, theirs, kind, end, files, res, history>>

(* remote add, an error when another job has added it meanwhile. *)
Wire(j) ==
  /\ pc[j] = "wire"
  /\ \/ ~ origin /\ origin' = TRUE /\ Prepared(j, TRUE, head)
     \/ origin' = origin /\ Prepared(j, FALSE, 0)
  /\ UNCHANGED <<dir, tree, index, at, head, pushed, theirs, kind, end, files, res, history>>

-----------------------------------------------------------------------------
(* The tool loop, the coder *)

(* The REPL takes HEAD anew for each turn. *)
Prompt(j) ==
  /\ pc[j] = "prompt"
  /\ \E p \in HeadRead(head) : pre' = [pre EXCEPT ![j] = IF j \in git THEN p ELSE 0]
  /\ Enter(j)
  /\ Goto(j, "work")
  /\ UNCHANGED <<repo, kind, end, git, files, res, wrote>>

Quit(j) ==
  /\ pc[j] = "prompt"
  /\ Leave(j)
  /\ UNCHANGED repo

Write(j) ==
  /\ pc[j] = "work"
  /\ tree' = tree \cup {j}
  /\ wrote' = wrote \cup {j}
  /\ dir' = IF dir = "empty" THEN "plain" ELSE dir
  /\ UNCHANGED <<origin, index, at, head, pushed, theirs, pc, regs, disturbed>>

(* run_cmd allows git, and a coder may do what it likes. *)
OwnCommit(j) ==
  /\ pc[j] = "work"
  /\ dir = "repo" /\ Dirty
  /\ Committed(tree \cup index)
  /\ tree' = {} /\ index' = {}
  /\ disturbed' = disturbed \cup {j}
  /\ UNCHANGED <<dir, origin, pushed, theirs, pc, regs, wrote>>

(* A research task commits whatever its loop made of it; a turn whose loop
   failed goes back to the prompt; a coder that did not start is an error of its
   own, and one whose repository could not be prepared is left alone. *)
ToolsEnd(j) ==
  /\ pc[j] = "work"
  /\ \/ j \in Tasks /\ Goto(j, "status")
     \/ j \notin Tasks /\ Goto(j, IF j \in git THEN "status" ELSE "answer")
  /\ UNCHANGED <<repo, regs, history>>

LoopFails(j) ==
  /\ pc[j] = "work" /\ j \in Tasks
  /\ res' = [res EXCEPT ![j] = "failed"]
  /\ Goto(j, "status")
  /\ UNCHANGED <<repo, kind, pre, end, git, files, history>>

CoderFails(j) ==
  /\ pc[j] = "work" /\ j \in Chats
  /\ Goto(j, "answer")
  /\ UNCHANGED <<repo, regs, history>>

TurnFails(j) ==
  /\ pc[j] = "work" /\ j \in Turns
  /\ Return(j)
  /\ UNCHANGED repo

-----------------------------------------------------------------------------
(* commitAndPushResearch, gitFinalize *)

StatusResearch(j) ==
  /\ pc[j] = "status" /\ j \notin Chats
  /\ \/ dir # "repo" /\ Answers(j, FALSE) /\ UNCHANGED end
     \/ dir = "repo" /\ Dirty /\ Goto(j, "add") /\ UNCHANGED <<pre, end, res>>
     \/ /\ dir = "repo" /\ ~ Dirty /\ pre[j] # 0
        /\ \E p \in HeadRead(head) : end' = [end EXCEPT ![j] = p]
        /\ Answers(j, TRUE)
     \/ dir = "repo" /\ ~ Dirty /\ pre[j] = 0 /\ Goto(j, "head") /\ UNCHANGED <<pre, end, res>>
  /\ UNCHANGED <<repo, kind, git, files, history>>

StatusChat(j) ==
  /\ pc[j] = "status" /\ j \in Chats
  /\ Goto(j, IF Dirty THEN "add" ELSE "head")
  /\ UNCHANGED <<repo, regs, history>>

StatusFails(j) == pc[j] = "status" /\ GitFails(j)

(* add -A, whoever changed it *)
Add(j) ==
  /\ pc[j] = "add"
  /\ index' = index \cup tree
  /\ tree' = {}
  /\ Goto(j, "commit")
  /\ UNCHANGED <<dir, origin, at, head, pushed, theirs, regs, history>>

AddFails(j) == pc[j] = "add" /\ GitFails(j)

Commit(j) ==
  /\ pc[j] = "commit"
  /\ index # {}
  /\ Committed(index)
  /\ index' = {}
  /\ Goto(j, "head")
  /\ UNCHANGED <<dir, origin, tree, pushed, theirs, regs, history>>

(* One reason: another job committed the index in between. *)
CommitFails(j) == pc[j] = "commit" /\ GitFails(j)

(* files_written of a result: the files of the commits since preHEAD, or of the
   last one when there was none. *)
Named(j) ==
  IF pre[j] = 0 THEN {i \in Jobs : at[i] = head}
                ELSE {i \in Jobs : at[i] \in (pre[j] + 1)..head}

(* postHEAD and the files; none when git cannot list them. *)
HeadResearch(j) ==
  /\ pc[j] = "head" /\ j \notin Chats
  /\ head # 0
  /\ end' = [end EXCEPT ![j] = head] /\ Spent(j)
  /\ \E names \in {Named(j), {}} : files' = [files EXCEPT ![j] = names]
  /\ Goto(j, "push")
  /\ UNCHANGED <<repo, kind, git, res, history>>

(* The commits since preHEAD, the tools' own among them; none, no push.  None
   either when headSHA swallows the failure of git rev-parse. *)
HeadChat(j) ==
  /\ pc[j] = "head" /\ j \in Chats
  /\ \/ TellsNothing(j, "unread")
     \/ head = pre[j] /\ TellsNothing(j, "none")
     \/ head # pre[j] /\ Goto(j, "push") /\ UNCHANGED res
  /\ Spent(j)
  /\ UNCHANGED <<repo, kind, end, git, files, history>>

(* No postHEAD for a task or a turn; git log fails for a chat. *)
HeadFails(j) == pc[j] = "head" /\ GitFails(j)

(* The whole branch; refused when the remote has commits that are not here. *)
Push(j) ==
  /\ pc[j] = "push"
  /\ origin /\ ~ theirs
  /\ pushed' = head
  /\ Answers(j, TRUE)
  /\ UNCHANGED <<dir, origin, tree, index, at, head, theirs, kind, end, git, files, history>>

(* Also when someone else has pushed to the remote meanwhile. *)
PushFails(j) ==
  /\ pc[j] = "push"
  /\ GitFails(j)

(* The result to dock, the chat reply, the line on stdout. *)
Answer(j) ==
  /\ pc[j] = "answer"
  /\ IF j \in Turns THEN Return(j) ELSE Leave(j)
  /\ UNCHANGED repo

-----------------------------------------------------------------------------
(* The job ends where it is: its process stops, or the session's context is
   cancelled, after which no command of it succeeds and its answer is lost. *)
Dies(j) ==
  /\ pc[j] # "idle"
  /\ Leave(j)
  /\ UNCHANGED repo

-----------------------------------------------------------------------------
Preparing(j) ==
  Look(j) \/ Fetch(j) \/ Clone(j) \/ CloneFails(j) \/ InitRepo(j) \/ Wire(j)
Finishing(j) ==
  \/ StatusResearch(j) \/ StatusChat(j) \/ StatusFails(j)
  \/ Add(j) \/ AddFails(j) \/ Commit(j) \/ CommitFails(j)
  \/ HeadResearch(j) \/ HeadChat(j) \/ HeadFails(j) \/ Push(j) \/ PushFails(j) \/ Answer(j)

Next ==
  \/ \E j \in Jobs :
       \/ Begin(j) \/ Preparing(j) \/ Write(j) \/ OwnCommit(j) \/ ToolsEnd(j)
       \/ Finishing(j) \/ Dies(j)
  \/ \E j \in Jobs : LoopFails(j) \/ CoderFails(j)
  \/ \E j \in Turns : Prompt(j) \/ Quit(j) \/ TurnFails(j)

Spec == Init /\ [][Next]_vars

-----------------------------------------------------------------------------
(* On the remote: committed, in a commit the remote has, and not changed since. *)
Published(i) == at[i] \in 1..pushed /\ i \notin tree \cup index

(* What a chat reply says of git: told that its commits were pushed, what the
   coder wrote is on the remote, whether the coder, the agent or another job in
   the same directory committed it; told that there was nothing to push, it wrote
   nothing, unless the agent could not read HEAD.  (That is why gitFinalize lists
   commits and does not ask whether the tree is clean.) *)
ChatPublished ==
  \A j \in Chats \cap wrote :
    pc[j] = "answer" => /\ res[j] = "ok" => Published(j)
                        /\ res[j] # "none"

(* A research task or a turn that had the directory to itself, whose model did
   not commit by itself and wrote something, and that answers ok: the remote has
   everything, what earlier jobs failed to push included; and the answer names
   no file of another job, though none at all when git could not list them. *)
TaskPublished ==
  \A j \in (Tasks \cup Turns) \cap wrote :
    (pc[j] = "answer" /\ res[j] = "ok" /\ j \notin disturbed)
      => /\ pushed = head /\ ~ Dirty /\ Published(j)
         /\ files[j] \subseteq {j}

(* The prompt promises the model that the agent commits and pushes after it
   (research.go:261), and commitAndPushResearch that it pushes and returns
   the new commit: an ok answer names a commit the remote has. *)
OkMeansPushed ==
  \A j \in Tasks :
    (pc[j] = "answer" /\ res[j] = "ok") => end[j] <= pushed
=============================================================================
