# Verification of polar-agent

TLA+ models of `polar-agent` (Go, `src/cmd/polar-agent`), checked with TLC on
small instances, with theorems proved by TLAPS for every instance. All source
paths below are relative to `src/cmd/polar-agent/`.

## The system

The agent is one process on a managed host. It keeps a WebSocket session to the
*dock* (the control plane), reconnects with back-off, and does four kinds of
work: research runs, compute tasks, skill runs, and one-shot commands of its
CLI. Everything that makes it hard happens between goroutines that outlive each
other, between the agent and a dock it may lose at any moment, between tasks
that share a directory, a file or a name of the host, and between the agent and
a host (kernel, files) that keeps what it did after a crash.

| Component | State | Operations | Interacts by | What makes it correct | Modules |
|---|---|---|---|---|---|
| Session and run registry (`loop.go`) | link, session context, `activeRuns` | connect, read loop, `skill.start`/`stop`, `stopAll`, cancel | frames from the dock; context; registry shared by sessions | what a disconnect stops; the registry is exactly the live runs; a disconnect ends | AgentSession |
| Research dispatch (`agent_task_claim.go`, `research.go`) | `draining`, `drainPending` | doorbell, connect drain, claim, run, report | HTTP to the dock, session context | one drain; no doorbell lost; a queued run gets claimed | TaskClaim, Doorbell |
| Compute tasks (`compute_tasks.go`) | wake channel, draining flag, semaphore | wake, tick, claim, handler, complete | HTTP to the dock; handlers | slots are accounted for; every task ends; losses only where a call was lost | ComputeTasks |
| Skill runs (`skills/*.go`) | child or connection, events channel, `sync.Once`, flags | Start, output, Stop, waiter, watchdog | events channel to the pump; Stop from frames, stopAll, watchdog | the channel is closed once and closes when the run is over; nobody sends on it then | RunStream |
| What runs hold (`shell`, `proxy`, `wireguard`, `vnc`, `kdp`) | temporary files, `/etc/wireguard`, tunnels, ports, children | Start's steps, stop | names shared with other runs and the operator | a failed start and an ended run give everything back; the operator's tunnel is left alone | RunHandles |
| Input of runs (`mcp_server.go`, `kdp.go`, `mcp_adapter*.go`) | line buffer, adapter sessions | WriteInput, dispatch, reaping, stop | `skill.stdin` frames; the watchdog | lines come out as they went in; a session in use is not reaped | RunInput |
| Route transactions (`route_task.go`, `routecmd/`) | kernel table, `current.json`, `previous.json`, `routeMu` | `route_apply`, `route_rollback` | confirm handshake with the controller; `ip route` | desired set applied or old one restored; files hold committed sets | RouteDiff, RouteTransaction |
| Firewall transactions (`fw_task.go`) | ruleset, `current.conf`, `previous.conf`, `fwMu` | `fw_apply`, `fw_rollback` | confirm handshake; `pfctl`, `nft` | as above | FwTransaction |
| Bundle store (`skills/installer.go`, `bundle.go`, `bundle_manifest.go`, `signing.go`) | bundle directories, staging, install results | Install, Uninstall, Start | `installMu`, result log, runs | an answer matches the directory; nothing is overwritten; no run loses its files to a late install | BundleStore |
| Image cache (`download.go`, `cloud_vm.go`) | image, `.part`, bundle, marker | download, resume, verify, rename | up to four tasks at once; HTTP, `cp` | polar-vmd gets what the sha256 names | BlobCache |
| SSH keys (`cloud_guest_sshkeys.go`) | `authorized_keys`, its temporary file | read, merge, write, rename | tasks, the user's editor | what was asked for and nothing else | GuestKeys |
| Work directory (`research.go`, `git.go`, `research_repl.go`, chat in `loop.go`) | tree, index, commits, remote | prepare, tool loop, commit, push | several jobs in one directory; model, git | what is answered as done is pushed | WorkTree |
| Collectors (`fw_collector.go`, `route_collector.go`) | lock file, queue, batch, last hash | tail, flush, report | several processes per host; HTTP | events once; the last hash gets through | Collector |
| Recovery watcher (`recovery_watcher.go`) | last posted device | poll, post | `irecovery`, HTTP to the dock | a present device is reported | RecoveryWatcher |
| Identity (`config.go`, `register.go`, `set_agent_id.go`, `main.go`) | `agent.toml` | register, login, set-agent-id, attach | processes that share the file | a token and its ids belong together | AgentConfig |
| Hostinfo, WireGuard peer text, passthrough tools, build/sign/test commands, the `polar-agent-test` harness | none that concurrent actors share | one-shot, sequential | files, child processes | ordinary tests | not modelled |

## The models

Common conventions: an action is one critical section or one step between two
points where another goroutine, the dock or the host can act; a request to the
dock is served in one step of its own and its answer may be lost; a bound
(`MaxSessions`, `MaxFaults`, ...) limits only how often the environment acts.
Variables marked *history* are read by properties only. Definitions headed
*Mutated operator(s)* are wrong variants of the definitions below them. They are
used by no specification: replacing the right one by its variant must break the
property named in PROJECT.json, which shows that the property depends on that
code.

**TaskClaim** — `drainClaims` (agent_task_claim.go:76-112). `pc` follows each
goroutine through the drain; `EnterJoin`/`EnterDrain` are the two branches of
the first critical section, `SettleAgain`/`SettleStop` those of the last one;
`SendClaim`, the dock's `ServeRun`/`ServeEmpty`, `StartTask`, `GotEmpty` and
`ClaimFail` are `claimTask` and its outcomes. `Connect`, `Wake` and `PushTask`
are the frames and the connect of loop.go that start drains and tasks.
`FinishTask` is the end of `runResearchTask`: its report uses the session's
context (research.go:175), so a run whose session is gone is lost.
**Doorbell** is what the coalescing promises: a bell rung while someone attends
is not forgotten, one attempt at a time, and rest only when no bell is pending.

**AgentSession** — the read loop, `activeRuns` and the four ways a skill run
reacts to its context: `process` (shell, bundle, proxy, coder), `adapter`
(mcp-server, kdp), `socket` (vnc), `tunnel` (wireguard). `StartFrame` spawns the
goroutine of loop.go:449-491, `StartOk`/`StartFails` are Start, `Register` is
`putWithKind`, `PumpEnd` the deferred delete. `ReadError` runs the deferred
functions: `stopAll`'s snapshot, then `StopNext`/`StopReturn` one run after the
other, then `CancelSession`.

**RunStream** — the events channel of one run of one kind: its sources of
output, the check and the send of each (`CheckOpen`, `Emit`), the callers of
stop (`Callers`), the `sync.Once` (`EnterOnce`), the tear-down, the exit event
and the close, the pump of loop.go that reads the channel. What differs between
the eight kinds (recover, who closes, whether Stop tears down or only signals,
what watches the context, whose `Wait` copies output and so outlasts the child)
is in the operators at the top.

**RunHandles** — the same runs seen from the host. `Start*` are the validations
of the kinds, `Stat`, `WriteConf`, `Spawn`, `Open` the steps that take something
and `...Fails` what gives it back; `Up` is `wg-quick` finishing, `Down`, `Kill`
and `Release` are stop. The names are shared between runs and with `Operator`,
whose `Configure` may come at any time. `priv` is how `wg-quick` gets root: a
child under sudo does not die of the signal the agent sends it.

**RunInput** — `WriteInput` of the MCP and the KDP runs with their limits, and
what a line asks for: `Plain`, `Command`, or an adapter session opened, used or
closed. `ReapLists` and `Reap` are the two halves of the watchdog's sweep,
`MetaFind` and `MetaClose` those of `mcp.close_session`, `Stop` and
`CloseAdapters` those of the end.

**ComputeTasks** — `computeTaskLoop`, `drainCompute` and `runComputeTask`: slot
first, then claim, then a goroutine that ends with a report on a context of its
own (compute_tasks.go:260). Loops of successive sessions share the wake
channel, the flag and the slots. **TaskLedger** is what the dock is promised: no
more tasks out than slots, each taken once and ended once and for all, and one
given up only for an outage no other was given up for. Drains, replies, sessions
and slots are not in it; `Ledger` in ComputeTasks maps them away.

**RouteDiff** — the pure part: `Diff`, `inverse`, and what the rendered `ip
route` commands do to a Linux table, in which a destination holds one route per
metric. **RouteTransaction** — the two handlers under `routeMu` on top of it:
listing, ops one by one, undo of the ones done after a failure, the confirm
window, promote and swap of the state files, crashes at every step, other
programs writing routes. What a transaction plans from is what it read: a
listing may have lost its IPv6 half (`Lists`, over `Slots6`), a state file that
cannot be read counts as empty (`Reads`). `before` is that listing and `actual`,
*history*, what a whole one would have been; they differ on the `Hidden` slots.

**FwTransaction** — the same handshake for the firewall, which differs where it
matters: the backup is the committed file on pf and a dump on nftables, the load
is atomic but is followed by an enable on pf, rollback replays a file and swaps,
and an empty file is a ruleset to pf and nothing to nft. A backup that cannot be
taken is replaced by what the machine had at first (`Stock`: /etc/pf.conf, or a
script that only deletes the table); `blind`, *history*, marks that.

**BundleStore** — one version of one bundle. An install passes the result log
(`Replay`, which answers what `log` remembers of its id, `Unknown`, `Expired`;
`disk` is `installs.json`, which survives a crash), the directory (`Stat`), then `Unpacking` under
`installMu` (download, staging, rename, venv) and, after the mutex is released,
the signature, manifest and requirement gates (`Gates`), whose failure removes
the directory (`CleanBegin`, `CleanEnd`). A start unpacks in the same way and
runs (`Exec`). An uninstall removes the directory without a lock; its gate never
matches, see below. `sure`, *history*, holds the ids whose remembered answer was
given by an install that had the store to itself, with the directory unchanged
since.

**BlobCache** — two create tasks that want one image. Each attempt opens `.part`
to append or afresh (`have`, `fd`, `append`), copies block after block, verifies
and renames; files are modelled with their open descriptors, so a task may go on
writing into a file another one has renamed or removed. `bundle`, `bpart` and
`done` are the directory variant with its marker.

**GuestKeys** — read, merge, write to `authorized_keys.polar-tmp` in two steps,
rename, with other tasks and the user's editor in between.

**WorkTree** — jobs of three kinds in one repository: research tasks
(`commitAndPushResearch`), chats (`gitPrepare`, `gitFinalize`) and REPL turns.
History only grows, so a commit is its position, and an item carries the
position of the commit that holds it. `Write` and `OwnCommit` are what the model
does through its tools; someone else's push to the remote shows in `PushFails`
only. The git failures the code swallows are alternatives of the steps they
happen in: `HEAD` not read (`HeadRead`, and "unread" in `HeadChat`), the files of
a commit not listed (`HeadResearch`).

**Collector** — processes that start and end, the lock file and its descriptor
(`Finalize` is the garbage collector), the gate, the state report in two steps
(`ReadState`, `PostState`), and for the firewall the log tail with its restart,
the queue and the batch of the process `Watched`. **RecoveryWatcher** — poll,
compare, post.

**AgentConfig** — commands as processes over `agent.toml` as a sequence of
lines: `os.WriteFile` truncates and then writes, and may be cut anywhere.

### Composition

AgentSession and RunStream meet at Stop and at the close of the channel.
RouteTransaction is built on RouteDiff. HostState puts the seven modules of
what tasks and frames do to the host side by side (MCHostState gives it values
for TLC), MCCollector the two background reporters. No handler changes the state
of two of those modules, so their product would only multiply states: each
behaviour follows one of them (`follows`, chosen initially) while the others
keep their initial state. Every property of a module is thus checked over all
behaviours of that module, and the theorem BehaviourOfEach is the other half: a
behaviour of HostState is one of each module's own specification, so what is
proved of a module there holds here.

## What is checked

| Run | Instance | Shows |
|---|---|---|
| claim_dispatch | 2 runs, 2 overlapping callers, 2 sessions, faults; 164,282 states | SingleFlight, NoLostWake; queued runs get claimed (QueuedIsClaimed); RefinesDoorbell |
| session_runs | 2 runs × 4 kinds, 2 sessions; 79,308 states | RegistryIsPumping, SweptBeforeCancel; a disconnect finishes (ClosingEnds) |
| session_orphans | 1 run × 4 kinds, 2 sessions | **violation** of NoOrphan |
| run_stream | each of 8 kinds, 2 sources, channel of 2; 44,448 states | NoPanic, OneExit; StopEnds, DeathEnds, CtxEnds |
| compute_queue | 3 tasks, 2 slots, 2 sessions, 1 fault; 44,810 states | SingleDrain, LossBound, RefinesLedger; QueuedIsClaimed, ClaimedEnds |
| host_state | one of seven modules per behaviour; 1,044,001 states | routes (2 transactions, 2 slots, one of them IPv6, 2 hops, one fault, outside write and crash): Applied, Restored, Recorded, RecordedIsCommitted; bundle (2 installers, a starter, an uninstaller): NoClobber, AloneIsExact, LateInstallsHarmless; image (2 tasks, 2 blocks, 2 attempts): AloneVerified; keys (2 tasks, 1 edit by hand): AloneEdits; handles (2 starts, 2 names, each kind): Released, OperatorKept; input (5 bytes, lines of 2, 2 sessions): LinesExact, ActiveKept; config (3 commands): OneIdentity |
| fw_transactions | 2 transactions, 2 rulesets, pf and nftables, one fault, outside load and crash; 188,911 states | Recorded, RecordedIsCommitted; EveryTxnEnds |
| work_tree | 2 jobs of any kind, 2 commits; 3,256,887 states | ChatPublished, TaskPublished |
| worktree_push | as above | **violation** of OkMeansPushed |
| blob_shared_part | 2 tasks, 2 blocks, 2 attempts | **violation** of ImageVerified |
| collectors | 2 processes, 2 roles, 2 hosts, 2 packets, 1 change; 2 devices; 61,603 states | EventsOnce; HashReported, DeviceKnown |
| collector_lock | 2 processes | **violation** of OneCollector |

Why the bounds are enough for what is asked: every hazard of these components
needs two actors at most (two drains, a run and a disconnect, two transactions
under one mutex, two tasks on one file) plus one session change and one failure;
three tasks on two slots is the first instance in which a task waits for a slot;
two routes are the first instance in which a transaction fails half way. `Cap =
2` lets the channel fill with an exit event still to come. The session bound of
2 is the smallest in which a goroutine of an old session meets a new one. Two
blocks and two attempts are the first in which an image is cut in the middle and
resumed; five bytes with lines of at most two have lines below, at and beyond
the limit in one stream; three commands are a registration, a second one and an
edit or an attach between them. Two installers, a starter and an uninstaller are
one of each with a second install to overlap. In `host_state` every route has
metric 0 (see below).

### What the violations say

1. **session_orphans** — a run whose `Start` returns after `stopAll` took its
   snapshot is registered under a cancelled context (loop.go:485 against 270).
   Kinds that do not end with their context stay for ever, against the comment
   at loop.go:267-269.
2. **worktree_push** — a research task that finds the tree clean answers ok with
   HEAD and pushes nothing (research.go:388-395), although the model's own
   commit, another job's or one whose push failed is not on the remote.
3. **blob_shared_part** — two create tasks of one image share `.part`: one
   truncates or extends it between the other's checksum and rename
   (download.go:50, 63-73, 154).
4. **collector_lock** — the lock's descriptor is kept by nothing once
   `acquireLock` has returned (fw_collector.go:131-140), so its finalizer may
   release the lock while the process collects.

### Other disagreements met while modelling

The models contain these behaviours; the properties are stated so as to except
them, and no run is spent on them.

- `bundleRun.waiter` closes the events channel without waiting for its log
  pumps, against its comment (bundle.go:713-742); a pump between check and send
  then panics, as that `send` has no recover. shell.go has the same shape (496
  against 488). NoPanic excludes the two kinds for that reason.
- The chat reply says that nothing changed and nothing need be pushed
  (git.go:173-175) when `headSHA` could not read HEAD: it turns the error into
  "" (git.go:239-247) and gitFinalize returns without one (git.go:142-148), also
  behind its own commit. ChatPublished names this answer (`unread`).
- A research task whose commit's files cannot be listed answers ok with an empty
  `files_written` (research.go:462-465). TaskPublished says that what it names is
  its own and not that it names it.
- A failing IPv6 listing counts as an empty IPv6 table (route_task.go:146-151),
  an unreadable state file as an empty set (route_task.go:113-119). A managed
  IPv6 route that is no longer wanted then stays, unmanaged; an add takes the
  place of a route that is there, and its undo deletes that route, against
  route_task.go:15-17. Applied, Restored and Recorded except the `Hidden` slots
  to that extent and hold of them otherwise.
- A backup that cannot be taken is replaced: an unreadable current.conf by
  /etc/pf.conf (fw_task.go:153-156), a failing listing of nft by a script that
  only deletes the table (fw_task.go:163-166). A refused apply then leaves those
  rules in force while current.conf records others. Recorded excepts it (`blind`).
- A failing `pip install` is said to leave the bundle installed (bundle.go:499-502);
  install returns it as an error, and Install then removes the directory and
  answers failed (installer.go:196-204). AloneIsExact states what happens; a
  *start* that installs does leave the bundle, and fails.
- An install id known for 24 hours is answered as before when the directory is
  there, whoever made it since (installer.go:170-173): after an uninstall and
  another install or start the answer need not be true. AloneIsExact states when
  it is.
- A failed `pfctl -e` leaves unconfirmed rules loaded (fw_task.go:178, 197-208),
  against the comment at fw_task.go:405. Recorded excepts it (`drift`).
- Routes are compared without their metric (model.go:164-170): with an existing
  default route at a non-zero metric an undo leaves the new route in force,
  against route_task.go:15-17. Restored is checked and proved with one metric.
- A desired route takes over a slot an unmanaged route occupies
  (model.go:170-185), and a later rollback deletes it, against
  route_task.go:14-15.
- The uninstall gate compares kinds of runs with the name of the bundle
  (installer.go:330-334), while runs of bundles are registered under the kind
  `bundle`: it never matches, so an uninstall takes the files of a run.
- `Skill.Validate` is documented to be called before Start (skill.go:57-60); no
  caller exists, each Start validates by itself.
- A stop while `wg-quick up` is still running leaves the tunnel; a partly written
  configuration file stays when its write fails (wireguard.go:230); two starts of
  one interface share the file, which is opened without O_EXCL; a tunnel of the
  operator whose file is elsewhere is brought down. Released and OperatorKept
  name these as their exceptions.
- A line beyond the limit stops an MCP run from dispatching anything more
  (mcp_server.go:222-244); a session used after the watchdog listed it is closed
  all the same, against mcp_adapter.go:141-143; one whose opening was under way
  when the run stopped is never closed.
- Two commands on `agent.toml` at once may leave any mixture; a value cut off in
  the middle is accepted as that value. OneIdentity excepts overlapping commands
  (`tangled`) and takes a cut value for the whole one.

### What holds with conditions

- TaskClaim's QueuedIsClaimed and NoLostWake excuse a run that was queued when a
  claim of a live session failed, which ends the drain, or when a wake was left
  to the drain of an ended session: the connect drain of a new session can join
  a drain whose context is already cancelled, and the backlog then waits for the
  next doorbell (agent_task_claim.go:79), against agent_task_claim.go:20-21.
- ComputeTasks' LossBound and the ledger are the exact form of "every task ends with exactly one
  complete call" (compute_tasks.go:15): lost requests and ended
  sessions cost at most one task each, the one in the claim's answer or in the
  completion call; a task that reached its handler is reported on a context of
  its own.
- AgentSession assumes that a run ends once its Stop was called (`StopCloses` is
  fair). RunStream shows when that is so: for a bundle and for a coder only if no
  descendant of the process holds its output open for ever (`OrphanEnds`). Both
  give `exec.Cmd` writers that are not files (bundle.go:301-302, tools.go:265-268),
  so `Wait` copies until the last holder of the pipe is gone; neither sets
  `WaitDelay`, and killing the child reaches no descendant that outlives it.
  CommandContext kills the child only, so a cancelled session does not help.
- FwTransaction's RecordedIsCommitted is stated for pf. On nftables a crash
  between load and confirmation makes the next backup a dump of unconfirmed
  rules, which a commit then records in previous.conf.
- AloneIsExact, AloneVerified and AloneEdits speak of an actor that nothing
  overlapped; what went before it, crashes included, is arbitrary. A repeated
  answer of an install is held to the directory as well, as long as an install
  alone gave it and nobody changed the directory since (`sure`). What overlap
  does is in the violations above and in LateInstallsHarmless and NoClobber.
- EventsOnce is stated for pf. On Linux a restarted `journalctl -kf` or
  `dmesg -w` prints old lines again (fw_collector.go:415), which are posted again.

### Fairness

Goroutines that can run do (weak fairness of every step of the agent), HTTP
requests and commands end one way or another because the code gives them
timeouts, and time passes (tickers, deadlines). In the modules about tasks and
runs nothing is assumed of the dock, the controller, the link or the host:
sessions need not come back, a doorbell need not ring, a confirmation need not
arrive, a run need not end by itself. Each module states its fairness beside its
specification, with the exceptions. Strong fairness is assumed in three places.
`LoopEnds` of ComputeTasks: a Go `select` with a tick and a cancelled context
both ready chooses at random, so the context is taken sooner or later.
`PostState` of Collector and the successful poll and post of RecoveryWatcher: a
network and a USB bus that work again and again serve an agent that retries for
ever in the end, which is what those retries are for; without it no report need
ever arrive. The violation of NoOrphan is found under AgentSession's fairness.

## What is proved

TLAPS proves these for every value of the constants that satisfies the named
assumption of the module (`ClaimAssumption`, `SessionAssumption`,
`StreamAssumption`, `ComputeAssumption`, `FwAssumption`, `DiffAssumption`,
`TxnAssumption`, `HostAssumption`, `WorkTreeAssumption`, `CollectorAssumption`).
They only say that sentinel values are not members of the sets they stand
beside, that disjoint roles are disjoint, and that bounds are naturals.
`HostAssumption` is the conjunction of the assumptions of the modules HostState
instantiates. TLC evaluates each in a run.

Every invariant and every action property that a run checks is stated by a
theorem; so are the refinements of Doorbell
and TaskLedger. For the components HostState follows
the theorems start from `HostSpec`, that is, from the specification the run
`host_state` checks, and those about routes from RouteTransaction's own.

| Module | Theorems | Argument |
|---|---|---|
| TaskClaimProofs | TypeCorrect, SingleFlightHolds, NoLostWakeHolds, RefinesDoorbellHolds | SingleFlight and NoLostWake are inductive with the types. RefinesDoorbell shows that each step is a step of Doorbell or a stutter under the mapping `Bell`. |
| AgentSessionProofs | TypeCorrect, RegistryHolds, SweptBeforeCancelHolds | RegistryIsPumping is inductive. SweptBeforeCancel is not: `SweepInv` adds that while the link is closing, a registered run of the session is still in stopAll's snapshot unless it was asked, has ended or came late. |
| RunStreamProofs | TypeCorrect, NoPanicHolds, OneExitHolds | `StageInv`: one teardown runs, its stages follow each other, the channel is closed at its end only, and exactly the stages up to the exit event have not sent it yet. `ExitInv`: the exit event is in the buffer at most once, and not once the pump has seen it. NoPanic needs both, as what could panic is a send or a second close behind the close. |
| ComputeTasksProofs | TypeCorrect, SingleDrainHolds, SlotAccountingHolds, NoBacklogHolds, LossBoundHolds, RefinesLedgerHolds | See below. |
| FwTransactionProofs | TypeCorrect, RecordedIsCommittedHolds, RecordedHolds | `Phases` says what kind of transaction may be where, and that one that promotes was confirmed; `PendingIsCommitted` that what a promote or a swap is about to write is already a committed set. CommittedSets only grows (CommittedGrows), because the controller decides once and a task is claimed before it is decided on. Recorded says nothing during a transaction; `ForceInv` carries it across one: at which steps the rules agree with current.conf, and that until a restore the backup holds what current.conf says unless it could not be taken (`blind`), on nftables also unless others changed the rules; a restore from a blind backup is `drift`. |
| WorkTreeProofs | TypeCorrect, ChatPublishedHolds, TaskPublishedHolds | `ItemInv`: an item that was written is changed, staged or in a commit behind the HEAD its job started from, whoever committed it, after its own add and commit a job leaves nothing of its own behind, and no chat that wrote is told there was nothing, unless HEAD was not read; ChatPublished follows. `AloneInv` follows the one job that has the directory to itself: until its commit its item is the only change, then its commit is the last and holds that item (`OwnLast`), and what it lists is that item or nothing. |
| CollectorProofs | TypeCorrect, EventsOnceHolds | `EventInv`: on pf the batch, the queue behind it and the next packet of a tail behind both are in the order of the log, and all of them behind the last event the controller has. A batch that is posted is then news, whatever became of those dropped or sent before; EventsOnce by itself says nothing of what is on its way. |
| HostStateProofs | BehaviourOfEach, TypesCorrect, and for each component those below | One inductive invariant for each component, see below. |

HostStateProofs, component by component:

| Component | Theorems | Argument |
|---|---|---|
| routes | RouteTypesCorrect, RecordedIsCommittedHolds, AppliedHolds, RestoredHolds, RecordedHolds | See below. |
| bundle | NoClobberHolds, LateInstallsHarmlessHolds, AloneIsExactHolds | `StoreInv`. `StoreLock`: whoever is inside install holds `installMu`, and until its rename the name is free, because nobody else makes the directory. `StoreLate`: while a run has its files, an installer that came after it began has found them too and is not behind its look. `StoreAlone` says what the directory is at each step of an install nobody overlapped, `StoreSure` that a remembered answer is true of the directory while its id is in `sure`; AloneIsExact needs both. |
| image | AloneVerifiedHolds | `BlobInv`: what a task alone with the cache verified stays as it was until it has its name, and a marker such a task wrote stands in a whole bundle. The types rest on `BlobFiles`: a descriptor is of a file that is there, and a task that may try again has an attempt left. |
| keys | AloneEditsHolds | The lemma MergeDoes says what the merge yields; `AuthAlone` follows the lines read and the temporary file through the steps of a task that no other edit overlapped. |
| handles | OperatorKeptHolds, ReleasedHolds | `HeldInv`: no run is past the look at a name that is the operator's; where a run of each kind has a temporary file, a handle, a child, a configuration file and a tunnel; and two runs past their look at one name have both been marked as sharing it. |
| input | LinesExactHolds, ActiveKeptHolds | `FedInv`. See below. |
| config | OneIdentityHolds | `ConfInv`. See below. |

Compute queue. The number of slots is the number of goroutines and loops that
hold one, and a claimed task has exactly one loop that found it (`RepliesInv`).
Cardinalities change by one with each step, which the lemmas of
FiniteSetTheorems give; the type of `slots` is a consequence and not an
assumption of the step. NoBacklog follows because every task the dock believes
running has a slot. LossBound is not inductive: `LossInv` leaves room for a task
that is about to be lost, because the end of a session is counted before the one
reply it dooms is dropped. RefinesLedger uses both: `Take` needs a free line of the
ledger, which the slot of the loop that claims is (RoomToTake), and `GiveUp` an
outage that is still unused, which `LossInv` keeps for the doomed reply.

Route transactions. The lemmas on RouteDiff come first: the first route of a
slot exists (a least metric, from the well-foundedness of the naturals), a diff
has an op for every slot that is not as wanted (DiffCovers), the inverse of an
op is an op on its slot that names what was listed there (UndoType), and with
one metric a command leaves its slot listed as it says and the others alone
(ExecLists). `TypeInv` adds to the types that only the holder of `routeMu` works
and that what it planned to change or delete had been listed; without that the
inverse of an op need not be an op. `KernelInv` is the heart. The plan is made
from `before`, which lists a slot as it is (`actual`) or as free (`Shown`). While
ops run, every slot others have not touched is as it was or, once its op ran, as
wanted (`Forward`): that also holds of a hidden slot, as the only op on one is
the add of a wanted route. While they are undone, a slot is as `before` says once
its inverse ran (`Backward`), which is as it was except on a hidden slot that was
wanted. Applied and Restored follow, with these exceptions and no more.
`RecordInv` carries what current.json says across a transaction: it was in force
in the table as it was when the transaction began, so it is in force wherever
nothing ran or everything was undone, and an undone hidden slot is `drift`. AppliedHolds,
RestoredHolds and RecordedHolds assume `OneMetric`; with two metrics Restored is
false, for the reason given above.

Input of runs. LinesExact says that the pieces dispatched, in their order, are
consecutive stretches of the bytes received, each ending where a line ends.
`FedOrder` says this of everything cut so far, done or still to be dispatched,
and that what is held in the buffer is the rest and contains no line. The step
is a call of WriteInput, which cuts an arbitrary number of bytes at once: the
k-th line is the bytes between the (k-1)-th and the k-th line end, counted by
rank. That the rank of a line end grows by one from each to the next and that
every number up to the count is reached (RankGrows; RankReached, as an injection
between finite sets of one size) gives that the lines lie one behind the other
(LinesCut) and that cutting a buffer gives what cutting all at once would
(CutsWhereLinesEnd). No recursion and no induction on sequences is involved,
as lines are defined by rank. ActiveKept needs `FedListed`: a session the watchdog
listed is not active unless it was used after that.

Configuration. What a prefix of a rendered file says is known field by field
(RenderedLines: the i-th line holds the i-th field that is set; PrefixParsed: a
prefix of them says the same of the fields it has and nothing of the others), so
that a file cut off while it is written is of one identity when the whole one
is. `ConfInv` says, as long as no two commands overlapped: a whole file says what was
saved last, what it says and what a command is about to save are of one identity
(`ConfWhole`, `ConfMeant`), and a command that writes has an empty file for
itself (`ConfWriter`).

Only model-checked: the liveness properties (QueuedIsClaimed of both queues,
ClaimedEnds, ClosingEnds, StopEnds, DeathEnds, CtxEnds, EveryTxnEnds,
HashReported, DeviceKnown), which are out of the prover's reach, as is ENABLED;
and nothing else. SlotAccounting, NoBacklog, the types and BehaviourOfEach are
proved and checked by no run of their own: NoBacklog is implied by RefinesLedger,
and the others are what the proofs rest on.
RecoveryWatcher has a liveness property only and no theorem.

## Not modelled

The list of components in PROJECT.json gives the reason for each part left out:
hostinfo, the passthrough tools and the one-shot commands keep no state that two
actors share, and the harness is not part of the agent. Of the modelled
components these details are abstracted: texts (envelopes, rulesets, route
syntax, log lines, JSON-RPC) are values; delays and back-off are left out, only
their end is a step; run ids are unique (a duplicated `skill.start` id is listed
as a hazard); frames to the dock always get written; the BSD and macOS
renderings of route commands; modes and owners of files; the ed25519 arithmetic;
the URL of `origin`, so that `ensureRemote`'s set-url changes nothing. Collector
assumes that the lock file can be opened: the route collector runs without a lock
when it cannot (route_collector.go:90-92), and nothing is claimed of that case.

## Plan

Done: all modules above and the proofs of all their invariants and action
properties. What could follow, most useful first:

1. An abstract atomic commit for the two transactions, implemented by them.
2. AgentSession with duplicated run ids and with writes that block on `writeMu`.
3. KDP's packet framing, and a wireguard run's peers, beside RunInput.
