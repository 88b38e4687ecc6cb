# Vimes, verified

TLA+ models of the Vimes daemon, checked with TLC and, where it matters most,
proved with TLAPS. Vimes drives Claude processes for a human and for an
orchestrator: it spawns and resumes sessions, records everything in an
append-only event log, makes git checkouts for the tasks it dispatches, and lets
browsers reconnect at any time. Everything below refers to the code under
`packages/` (`core`: pure folds and decisions; `daemon`: the process that does
things; `ui`: the browser store).

Contents: [inventory](#1-inventory) · [modules](#2-modules) ·
[runs](#3-runs) · [fairness](#4-fairness) · [proofs](#5-proofs) ·
[disagreements](#6-where-code-and-text-disagree) ·
[not modelled](#7-what-is-not-modelled) · [what is left](#8-what-is-left)

## 1 Inventory

The daemon is one Node.js process. Code between two `await`s is atomic; what
interleaves are requests over WebSocket and HTTP, the callbacks of child
processes (SDK streams, PTYs, git), timers, and the death of the daemon itself.
State is of three kinds: the event log and its snapshots in SQLite (durable),
the disk (git worktrees, hook-settings files, transcripts), and maps in memory
that a restart empties.

| Part | State it keeps | Operations | What is hard | What makes it correct |
|---|---|---|---|---|
| **SessionHost** `daemon/sessionHost.ts`, `core/sessionMachine.ts`, `core/projections/sessions.ts` | live processes, hook secrets, markers of unattended runs, pending permission requests, mirrored sessions; in the log: liveness, custody, attention | spawn, resume, send, adopt, kill, answer a gate, clear attention, discover, start, stop | results, ends of streams and exits arrive after a kill and a resume; crash between any two | one process per session (I11); a running session has a process; a mirrored session is never driven (D10); an unattended run never waits for a human (D48, D50) |
| **SessionTailer** `daemon/tailer.ts`, `discovery.ts`, `core/transcript/mapper.ts` | watched directories with a count, correlation of transcripts with PTY sessions, read offsets | watch, unwatch, mirror, poll, map lines | two readers of one directory; a transcript that is truncated | no watched transcript goes unread; no line is mapped twice |
| **CheckoutCoordinator** `daemon/checkoutCoordinator.ts`, `gitAdapter.ts` | a promise chain per project; on disk worktrees and branches; in the log nodes and removals | create, open, remove, compensate, list orphans | git may fail before or after performing; the bookkeeping may fail after git performed; crash between git and the log; sessions living in the directory | a session attached to its checkout keeps its directory (A7); no unexplained orphan (A8); provenance is what was checked out (A6); no human branch is deleted (A10) |
| **TaskDispatcher** `daemon/taskDispatcher.ts` | tasks in dispatch; attached runs in the log | dispatch, spawn into a checkout, record a plan, a review, a completion | state read before git is awaited and used after; two dispatches of a task; a task that moves under its dispatch | at most one dispatched run drives a task; a report is filed under the run that made it; a dispatch never blocks its task for good |
| **Dispatch decision, stage runner** `core/tasks/*` | none, pure | decideDispatch, shouldDispatchOnTransition, resolveStageRunner | order of the checks; unknown meters | I10: nothing is spawned on an unknown or failed headroom gate |
| **Instances** `daemon/instanceWriter.ts`, `instanceApi.ts`, `core/extensions/proposeMove.ts`, `core/projections/instances.ts` | tasks as a fold of the log | create, propose a move, revise | a refused move must be recorded; the pinned workflow may differ from the installed one | every move in the log is an edge of the workflow |
| **Nodes and projects** `daemon/nodeWriter.ts`, `projectWriter.ts`, `core/projections/nodes.ts`, `projects.ts`, `tree.ts`, `nodeRollup.ts` | tree of projects, nodes, members | create, rename, archive, attach, move | archive while something is in the making | no attachment to what is archived |
| **EventRouter, stores** `core/router.ts`, `daemon/sqliteEventStore.ts`, `core/projections/projection.ts`, `daemon/sqliteSnapshotStore.ts` | the log; subscriptions and their high-water mark; pending broadcasts; snapshots | emit, subscribe, snapshot, boot | emission and subscription from within a callback; a callback that throws; crash between commit and broadcast | no gap, no duplicate, persisted before broadcast (I2, I13); snapshot plus tail equals full replay (I6) |
| **WsHub** `daemon/wsHub.ts` | connections, their subscriptions, terminal tags | subscribe, session operations, terminals | backpressure; re-subscription on one connection | every client sees a gapless stream |
| **Browser store** `ui/stores/vimesStore.ts` | streams it wants, last seq of each, its socket | connect, subscribe, receive, reload | frames lost with a socket; a seq accepted without checking it is the next | it shows each stream event by event and catches up (I2) |
| **TerminalHost, RingBuffer** `daemon/terminalHost.ts`, `core/ringBuffer.ts` | shells, buffers, subscribers; in the hub a tag per shell and connection | open, attach, write, reap, close | a chunk larger than the buffer; exits and re-entries on one connection; sockets lost with what they carry | each subscriber gets each byte once (I9); a tag means one shell; input reaches the shell it was meant for |
| **TaskWatchdog** `daemon/taskWatchdog.ts`, `core/tasks/watchdogDecision.ts` | none of its own; folds the log | check once per interval | it judges by facts that asks, answers, kills, resumes and late streams move | a silence is reported, once, unless an earlier report still stands, and only of a run that waits for nobody |
| **CompactionSteward** `daemon/compactionSteward.ts`, `core/orchestrator/*` | memory of nudges per session, folded from the log | nudge, gate compaction, resume context | restarts and refusals around a nudge; a fill that jumps; a compaction whose event is lost | in each transcript every rung once, in order; the door is announced before it holds (D57, D64) |
| **OrchestratorApi** `daemon/orchestratorApi.ts` | the standing session of a project, in the log | ensure | a start that fails after the session is in the log; restarts | one orchestrator per project (D56), live once ensured |
| **Push** `daemon/pushPipeline.ts`, `pushService.ts` | subscriptions of devices | deliver, drop gone ones | delivery finishes after stop | no push for attention that is over |
| **Meters and usage** `daemon/usageEndpoint.ts`, `meterAlerts.ts`, `core/usageBackoff.ts`, `meterDerivations.ts` | observations, backoff, alert memory | poll, alert | retries | unknown is never shown as a number |
| **Cost ledger** `daemon/costIngest.ts`, `costCorpus.ts`, `sqliteCostStore.ts`, `core/pricing/*` | priced rows, a cursor per file | ingest, read | re-reading a grown file | no row counted twice |
| **Extensions, briefing, acceptance** `daemon/extensionRegistry.ts`, `core/extensions/*`, `briefing*.ts`, `acceptance*.ts` | parsed manifests, enabled flags | load, resolve, check inputs, route an outcome | manifests that change under pinned instances | an outcome moves a task only along a declared route |
| **Lifecycle** `daemon/app.ts`, `main.ts`, `index.ts` | timers, the order of start and stop | start, stop | requests during a shutdown | nothing runs when the database closes |
| **HTTP surfaces, identity, harness** | none or derived | | | out of scope |

How they meet: the hub, the HTTP routes, the dispatcher and the orchestrator call
the session host; the host emits to the router, which appends and then broadcasts
to the hub, to push and to the steward; the dispatcher runs `createCheckout` with
its own spawn as the follow-up inside the lock of the coordinator; the
coordinator births nodes through the node writer and reads projects and sessions
as folds of the log. No component shares mutable state with another except
through the host's maps and the disk.

The hazards, each at its line and with the properties aimed at it, are listed
under `hazards` in `PROJECT.json`.

## 2 Modules

| Module | Models | Notes |
|---|---|---|
| `SessionHost` | process custody: `sessionHost.ts` with its two adapters, `sessionSettings.ts`, the part of `tailer.ts` it drives, the per-session facts of the sessions projection | extends nothing of the project |
| `ProcessLease` | what the registry of processes promises: a process holds one session, from its start until it stops driving, and never comes back | abstract; refined by `SessionHost` through `Lease == INSTANCE ProcessLease WITH ...` |
| `MCSessionHost` | symmetry for TLC | |
| `SessionHostProofs` | type correctness, I11, the refinement, and the promises about running, mirrored, hooked, unattended and watched sessions | |
| `CheckoutCoordinator` | `checkoutCoordinator.ts` for one project, the git commands it runs, `nodeWriter.createCheckoutNode`, `taskDispatcher.spawnIntoCheckout` | two projects share neither lock nor repository nor nodes, so one is enough |
| `MCCheckoutCoordinator` | symmetry for TLC | |
| `CheckoutCoordinatorProofs` | the inductive invariant and the theorems from it | |
| `StreamDelivery` | what a reader of a stream is promised: event n + 1 after event n, once, and nothing the log does not hold | abstract; refined by `EventRouter` and, end to end, by `WsHub` |
| `EventRouter` | `core/router.ts` over an event store | `Delivery == INSTANCE StreamDelivery WITH ...` |
| `MCEventRouter` | symmetry for TLC | |
| `EventRouterProofs` | the inductive invariant of the router and the theorems from it | |
| `WsHub` | the subscriptions of `wsHub.ts`, the sockets, and the socket half of `ui/stores/vimesStore.ts` | extends `EventRouter`, whose subscriptions are here pairs of a connection and a stream (`SubsAssumption`) |
| `MCWsHub` | those pairs for TLC | |
| `WsHubProofs` | the inductive invariant of hub, wire and page, and the theorems from it | extends `EventRouterProofs`, whose invariant it reuses |
| `TaskWorkflow` | the pure half of the task loop: `proposeMove.ts`, `acceptance.ts` with `acceptanceRouting.ts`, the stages of `dispatchDecision.ts` | operators over a workflow that is a constant |
| `TaskBoard` | what the loop promises: moves along declared edges, one dispatched run driving a task | abstract; refined by `TaskDispatcher` |
| `TaskDispatcher` | `taskDispatcher.ts`, `instanceWriter.ts`, `instanceApi.ts`, `core/projections/instances.ts` | extends `TaskWorkflow`; `Board == INSTANCE TaskBoard WITH ...` |
| `MCTaskDispatcher` | the workflow of the shipped `vimes-extension.toml` | |
| `TaskDispatcherProofs` | the inductive invariant of the loop, the theorems from it, the refinement | |
| `RingBuffer` | `core/ringBuffer.ts` as operators on a record | the loop of `evictOverflow` is a recursive function of its turns; extended by `Terminals` |
| `Terminals` | `terminalHost.ts`, the terminal operations and tags of `wsHub.ts`, the terminal of `vimesStore.ts` | three components and the sockets between them |
| `MCTerminals` | symmetry for TLC | |
| `TerminalsProofs` | what a tag means and where input goes; what the ring computes and a subscriber is given | |
| `TaskWatchdog` | `taskWatchdog.ts`, `watchdogDecision.ts`, and every operation that moves what they judge by | |
| `TaskWatchdogProofs` | whom the watchdog reports | |
| `Orchestrator` | `orchestratorApi.ts`, `compactionSteward.ts`, `core/orchestrator/compactionSteward.ts` | one project: projects share neither sessions nor notes |
| `MCOrchestrator` | the ladder, symmetry for TLC | |
| `OrchestratorProofs` | that the ledger is the fold of its stream, the ladder and the door | |

A definition `Foo_Bar` in front of a definition `Foo` is not part of the model: it
is a plausible bug, used to show that a property notices.

### SessionHost

One action per public operation of the class, since each is synchronous up to
its return, and one per callback of a child.

* A process is named by a member of `Proc`, drawn fresh, so that "this entry is
  still my process" (the identity guard in `releaseLiveProcess`) can be said.
  `proc[p]` records what the closures of that process remember: its session,
  whether it was killed, whether it has yielded its result, whether it names a
  settings file. `gone` is a process whose last callback has run.
* `StartProcess` is shared by spawn and resume (`startSdkSession` and
  `startPtySession`); `StartProcessThrows` is the adapter's factory throwing
  after the log already says `session_created` or `resumed`.
* `KillSession` releases the entry at once; `WindDown` and `PtyExit`, the late
  ends, release again, by identity, and drive the session dormant without it.
  That asymmetry is what most properties are about.
* `Start` is recovery, rehydration of mirrors and discovery in the order the code
  runs them; `Stop` kills and clears; `DaemonExits` is both the end of an orderly
  shutdown and a crash, since the only difference is whether `Stop` came before.
* A refused preflight of a spawn changes nothing and is no action; of a resume it
  is one (`ResumeRefusedByPreflight`), because a mirrored session has been adopted
  by then.
* All sessions share one transcript directory, the worst case for its count.

Taken as given about what is outside: children die with the daemon; a killed
stream may still yield a buffered result, but asks no permission any more.

### CheckoutCoordinator

The promise chain is a sequence whose head holds the lock. An operation is one
action per stretch of code between two awaits of git, and `pc` says which await
it is at. Each git command either does what it does, or fails without having done
it, or (only `git worktree add`, whose post-checkout hook runs after the fact)
fails having done it. The operation's name stands for the node id it mints and
for the path and the branch derived from that id.

`RecordCheckout` is the stretch from the end of `git worktree add` to the end of
the operation or of its follow-up: birth of the node, the in-lock spawn and its
attachment, each of which can fail and lead to `Undo`. `Crash` empties the chain
and keeps log and disk. `ScanClaims`/`ScanWorktrees` are the orphan scan, which
takes no lock. `Environment` switches on what happens around the coordinator, so
that each run can have exactly the disturbances it is about. `HumanSpawn`
(`wsHub.handleSpawn` into a directory that happens to be a checkout) is possible
only where the operator lists the worktree root among the allowed project roots,
which the default does not. `tenants` are sessions of the log, which the daemon
never marks `dead`; that is why `InUse` refuses also after the process has ended.

### EventRouter

The router is synchronous, so what interleaves is calls: a callback may emit,
subscribe, unsubscribe and throw. The stack is part of the state: `isDispatching`
for the one drain loop, `replays` for the calls of `subscribe` in their replay
loops, `batch` for the transaction of an emit, `running` for a callback that has
the thread. An action is one turn of a loop or one call.

* `Insert`, `Rollback`, `Commit` are `append`: each inserted event takes the next
  seq of its stream; a failing insert leaves nothing; a commit queues the events
  and enters the drain loop, unless it is on the stack already. `assigned`
  is what `assignedSeqByStream` falls back on the head for.
* `Subscribe`, `Replay`, `Register` are `subscribe`. `deliveredThrough` is the head
  read at its start; the record joins the set only after the replay.
* `TakeNext`, `Deliver`, `Skip`, `DrainDone` are `drainBroadcasts`; `left` is the copy
  of the set that the loop iterates over, in any order. A subscription ended
  meanwhile leaves it, which is what its `active` flag does.
* `ThrowInDispatch` only goes on with the loop: the error is collected and thrown
  to the outermost emitter, who is outside the model. `ThrowInReplay` abandons the
  subscription.
* `sub[s].at` is the subscriber's own knowledge, the last seq it was given. The
  router does not keep it; the properties compare it with the log.
* `MayEmit` excludes one thing: an emit from a callback that is being replayed to
  outside any dispatch. Such an event would be drained before the new
  subscription is registered and never reach it. The two kinds of callbacks that
  are replayed to, the hub's and the test harness's, do not emit.
* Contents of events, `eventId` and `ts` are immaterial here. `afterAppend` is used
  by tests only. `Crash(survivors)` leaves the log it is given: all commits
  in this module, possibly fewer in `WsHub`.

### WsHub

A connection is `open`, `closed` (by the hub, which still holds the record until the
socket's close event) or `free`; the records of one identity may follow each other.
`handling` is the connection whose subscribe message is on the stack, since
`handleSubscribe` ends the old subscription before it makes the new one. `CallBack`
enters `sendEvent` and `Send` or `DropSlow` leaves it. `DropSlow` in the middle of a
replay ends the subscriptions registered so far; the one being made is still
registered afterwards, and the close event ends it. Which amount is over the limit
is open, except that an empty buffer of a socket the page still holds is not.

A socket is two queues. Each end may lose it on its own (`ClientLoses`, `HubError`),
so an old connection can be served while the page is on a new one. The page keeps
`wanted` (`subscribedStreams`) and `lastSeq`, takes any seq above it without checking
that it is the next, and subscribes again from it when a socket opens; `Reload`
forgets both. A message sent without a socket is dropped, as in `sendEnvelope`; the
page never asks to unsubscribe. `manuallyClosed` pages are those that never come
back, which is `Connect` not being taken before the last fault. Acknowledgements,
session operations and search share the socket but touch nothing here; terminals are
`Terminals`. A power loss is `DaemonCrash` with fewer survivors than commits, because
`synchronous = NORMAL` does not sync them (`sqliteEventStore.ts:63-65`).

### TaskWorkflow and TaskDispatcher

`Refusal` keeps the order of the checks of `proposeMove`, `Evaluate` the kinds of
acceptance tables and what makes each of them silent. `by`, `max_traversals` and
`on_exhausted` of an edge are parsed but deliberately not enforced
(`proposeMove.ts:133-138`), so they are absent.

In `TaskDispatcher` everything but the dispatch of an isolated task is one step: the
await of a plain one is a microtask. An isolated one (`call`) is at the await of its
checkout, in whose follow-up the run is spawned and attached, or at that of its
compensation. `inFlight` is `inFlightDispatches`, held from before the first await to
the `finally`. A refused or deferred dispatch leaves at most an event and is no
action; that the gates and the briefing preflight may refuse is the choice not to
take the action. `Move` is a promotion with the dispatch it may trigger;
`FileReport` and `RecordPlan` file first and propose afterwards, from wherever the
task is by then. `filed` merges what the projection keeps as the last review and
the last completion, and the capture of a plan. `live` stands for the registry of
`SessionHost`, of which the dispatcher asks only `isLive`; a process that is killed is
assumed to call no tool any more, and one resumed by hand has none of the report
tools (they are armed at spawn). The properties `OneProcessPerSession` and
`ImplementsLease` say what a live run is one level down.

As in the code: a run is attached at the stage decided before the await although
the task may have moved, and a promotion meanwhile is told `in-flight`, silently; a
run whose attachment could not be appended is invisible to `hasLiveRun`, and so is
one that a failed follow-up left behind without its attachment, so that another may
start beside it.

### RingBuffer and Terminals

A byte is its offset in the output of its shell, the only thing the contract of the
buffer is about. `append`, `evictOverflow` and `replayFrom` are the methods of the class,
on the chunks it keeps; `evictOnce` is one turn of the loop in `evictOverflow`, and since
a turn drops a chunk or is the last, there are no more turns than chunks.

A subscriber is the object `handleTermSubscribe` makes; `heard`, `from` and `at` record
what it was given, for the properties. `tags` are both maps of a connection, which are
each other's inverse. A tag taken for a subscription the host then refuses stays
taken. `onPtyExit` serves exit, close and reap, and `closeAll` the end of the daemon.
`detachAllTerminals` is the close event of a socket, which may come long after the page
has opened the next one; it detaches the one subscriber per shell its map holds, so
that another the connection made by re-entering the shell stays behind, until the shell exits.
On the page, `view` is the one terminal with its tag and offset; `learnt` and `on` say
for which shell and on which connection it learnt the tag, and `meant` in an input
message what the user typed it for. None of the three exists in the code.

As in the code: a terminal entered twice on one connection is delivered twice; the
offset is not set anew after `term_lost`; a shell gone while the page was away is
refused on re-subscription and the page stays `live`; a late `term_opened` takes the view
over; the page never calls `closeTerminal`. The clock of the idle reaper is left out,
so `reapIdle` may strike at any time; sizes and refusals shown to the user are too.

### TaskWatchdog

The clock is unbounded and the code compares differences, so a timestamp is kept as
what it is compared for: `silence` is the age of the last append up to the band,
`boundary` and `correction` whether the newest mapping or correction is not older than
it, for which it matters what else happens in the same millisecond (`mapped`,
`corrected`, emptied by `Tick`). `Heard` is the fold of an append, the rest of the records
that of the other events. `live` and `ghosts` are the registered process and a killed one
whose stream is still read: the loop that reads it does not ask whether its process
was killed, so a late mapping counts too. `told` and `cleared` are history variables;
`told` counts the reports of the present silence, and an append or a clearing starts it anew.

`checkOnce` goes through all sessions; both verdicts are reported and neither acted
on. As in the code: attention is cleared by an answer, whichever request it answers and under
whichever session's name, so a run still waiting on another may be reported
(`ReportsAreWarranted` says this is the only way); `gate` attention left by a killed
process protects the resumed run for ever, and so does a mapping with nothing after
it a run that hangs right after it; a resume with a known Claude id is no boundary;
the late result of a killed process overwrites attention and drives the resumed run
dormant; `correction_delivered` never occurs on an SDK session; a report left standing when the
run appends again mutes the next silence (section 6).

### Orchestrator

`Ensure` is the route, which runs without an `await`: it founds an orchestrator,
resumes the standing one, or leaves it alone. `founded` is what
`orchestratorSessionsFor` finds, oldest first. Nothing in the daemon emits the liveness
`dead`, so every session found is adoptable and no project is ever refounded.

The steward keeps nothing that is not in the log: `ledger` is its cache of the fold
(`Current`, which goes on with `Recall` from where it was), with the seq it goes on from,
and is gone after a restart. `log` has of a stream
only what that fold reads, nudges and compactions. `UsageBlock` is the event with the
evaluation its subscriber makes, including the send, which may resume the session, be
refused, or throw, and the record, which follows an accepted send; the daemon may die
between the two. Token counts are the rungs they reach. Timestamps are compared
(notes against the first nudge), so the clock is kept.

The CLI is outside: it asks before it compacts (`PreCompact`), compacts when the last
answer let it or the relay got none (`Compact`), and the host reads the boundary later
(`CompactionObserved`), or never, if its process ended first. `banked` is a history variable:
the sessions whose notes were written after they were asked to, and are there still
(`LoseNotes` is the file deleted, or its stat failing from then on).

## 3 Runs

| Run | Instance | Shows |
|---|---|---|
| `custody` | 1 session, 3 processes, 1 permission request, both channels, all three modes | OneProcessPerSession, RunningHasProcess, HookChannelStaysWhole, UnattendedNeverAsked |
| `mirrors` | 2 sessions, 3 processes, both channels | TypeOK, MirroredNeverDriven, WatchedDirStaysPolled, and ImplementsLease as a refinement |
| `checkout_safety` | 3 operations of any kind, 1 branch with 2 commits; archiving, moving branches, human spawns, crashes | AttachedKeepsDirectory, OrphansAreExplained, CreatedFromRecordedCommit, RemovalAuditedOnce, HumanBranchesSurvive |
| `checkout_liveness` | 2 operations, archiving, crashes, orphan scans, fair git | EveryOperationSettles, TypeOK |
| `router` | 3 subscriptions, 2 streams of up to 3 events, 2 events per emit | TypeOK, CaughtUp, ImplementsDelivery |
| `page_delivery` | 1 page, 2 sockets, 1 stream of 3 events, 1 frame and 1 subscribe message in flight, 1 fault (lost socket, error, crash or reload) and any number of backpressure drops | HubTypeOK, QuietMeansCurrent, NoSubscriptionLeaks, PageReadsTheStream, EventuallyCurrent |
| `task_loop` | the shipped workflow; 1 task, 2 runs, 2 calls of dispatch, 1 criterion; crashes, resumes by hand, git failing at either await, fair git | TypeOK, ReportsNameTheirRun, DoneIsReviewed, ImplementsBoard as a refinement, DispatchesSettle |
| `terminals` | 2 shells, 2 connections, 2 tags, a window of 2 bytes, 3 bytes of output in chunks of 1 or 3, 2 subscriptions, 1 message of the page in flight | TypeOK, RingsAreWindows, SubscriberConservesBytes, TagsMeanOneShell, KeystrokesReachTheirShell |
| `watchdog` | 1 session, 3 requests, a band of 3 ticks, 2 episodes; kills, resumes, restarts, fair timer and clock | TypeOK, OneReportPerSilence, ReportsAreWarranted, SilenceIsReported |
| `orchestrator` | 2 session ids, 2 rungs and the door above them, 4 nudges or compactions, 3 instants; kills, failed starts, refusals, restarts | TypeOK (with D56, one orchestrator), LadderIsClimbed, NotesLiftTheHold |

Why the bounds are enough. Custody goes wrong between a process, its successor
and a late callback of the first: two processes show that, the third lets the
successor be replaced in its turn. Sessions do not interact except through the
directory count and discovery, hence two sessions only in `mirrors`. In the
coordinator one operation creates, a second removes what it made, a third
competes with either or creates in the slot between them; commits 0 and 1 tell a
pinned commit from a moved one. The liveness run needs two operations: the one
that fails and the one behind it. The constants bound only how many processes,
requests, operations and commits ever exist; no queue or counter is cut off.

In the router the third subscription is made while one callback serves the second
and the first waits; two streams tell an event that is skipped from one that is
missed; three events are one delivered, one queued and one emitted meanwhile. Of
the page there is one, since pages share only the router; two sockets let the old
one linger half-open while the new one is replayed to. With one frame in flight
every frame can be the one over the limit, so backpressure strikes anywhere in a
replay. `MaxSeq`, `MaxFaults` and `MaxRequests` bound the emits, the faults and the
repeated wishes of a page.

Tasks share nothing but the runs of a project's lock (`CheckoutCoordinator`), so one
task is enough; two runs are one that drives and one that must not, or one that
ended and its successor; two calls, one awaiting and one that comes meanwhile; one
criterion passes, fails, goes unmentioned, or is amended in or out. The window of a
terminal is smaller than its output, a chunk of 3 exceeds it, and a reader may come
back at, before and behind the oldest byte kept; two subscriptions are the first and
the one after a re-entry or a reconnection; with two tags for two shells and a tag
lost to a refusal, tags run out. `MaxTotal`, `MaxAsks`, `MaxQueue` and `MaxConn` bound how much ever
happens. Sessions under the watchdog interact only when a request is answered under
another's name, which shows on one session as attention cleared while it waits
(`AnswerGate` takes any request); three requests are one answered and two pending.
`Band` tells the first tick, one in between and the last; `MaxEpisodes` is reached.

The second session id of `orchestrator` is the rival that must not be founded. Two rungs are
the shipped ladder (`V0_COMPACTION_STEWARD_CONFIG`); four entries are both of them, a
compaction, and the first of the next transcript; three instants put the notes
before, at and after a nudge. `MaxLog` and `MaxTime` bound how much ever happens.

Deadlock is checked in every passing run but `terminals`, where all shells may be gone
and all connections used up. Elsewhere sessions can always restart, and a
coordinator with all its operations settled can still crash and restart, which
is a step.

Each property has a mutant in `PROJECT.json`: a definition of the model changed as
a bug would change the code, under which TLC finds the property violated.

## 4 Fairness

`CheckoutCoordinator!FairSpec` has weak fairness on the next step of each
operation, which says that every git command ends and that the code awaiting it
continues. The second half is Node's event loop. The first is an assumption:
`gitAdapter.ts:42` runs git without a timeout, so a command that hangs keeps the
lock of its project for ever, and without the assumption the property is false
by that line. No request has fairness, nor does anything in the surroundings: an
operation must settle even if nobody ever asks for anything again, and although
the daemon may crash at any moment (a crash settles it by emptying the chain).

`WsHub!HubFairSpec`: synchronous code returns (weak fairness on an open transaction
ending, on the loops of the router, on `handleSubscribe` and `sendEvent`); the
event loop gets to every message and every closed socket (strong fairness on
`HandleSubscribe` and `HubClose`, which are enabled only between other tasks); a page
reads its socket, hears that it closed and tries again, which is the reconnection
timer of `vimesStore.ts:1397`. Emits, faults and the wishes of a page have none: a
page catches up even if nothing is ever emitted again. The property has no premise
that backpressure ceases. It needs none, because a fresh socket takes at least one
frame before it is over the limit; with a limit an empty buffer can exceed, TLC
shows a page that never gets on (the mutant of EventuallyCurrent).

`TaskDispatcher!FairSpec`: every git command a dispatch awaits ends, as in
`CheckoutCoordinator`; humans, reports and the ends of processes have no fairness.
`TaskWatchdog!FairSpec`: the interval timer of the daemon (`app.ts:1749-1760`) fires again and again, and
time passes; no process has to append, end or be answered.

## 5 Proofs

Checked by tlapm for all values of the constants; the only assumptions are the
named ASSUMEs of the modules (sentinels are distinct from data, `Session` is
finite, the constants are of their kind).

`SessionHostProofs`

* `TypeCorrect`: TypeOK.
* `OneProcess`: I11. OneProcessPerSession is not inductive: the invariant adds
  that the registry and the processes agree in both directions: an entry is an
  open process of that very session that was not killed, and an open process
  that was not killed is the entry of its session. Starting is then safe because
  `MayResume` reads the entry, and a late end is safe because it can only remove
  its own.
* `HostImplementsLease`: every step of the host is a step of the lease or leaves
  it alone, from the same invariant.

To that invariant the same module adds, one promise at a time:

* `RunsAreDriven` (RunningHasProcess). The strengthening RunningDriven says more: the
  session of a process that has its result, or of none, is not running.
* `MirrorsAreLeftAlone` (MirroredNeverDriven): custody and registry change together.
* `HookChannelsAreWhole` (HookChannelStaysWhole), from SettingsHeld: a process that names
  a settings file is the registered one or one that was killed.
* `UnattendedRunsNeverWait` (UnattendedNeverAsked), from MarkedAlone and AskedWereStarted:
  the mark of an unattended run covers the process it was set for as long as
  that process is open, and who asks was started.
* `WatchedDirIsPolled` (WatchedDirStaysPolled).

`CheckoutCoordinatorProofs` rests on one inductive invariant, TLC-checked first:
`IInv == TypeOK /\ LockInv /\ StageInv /\ BirthInv /\ BranchInv /\ TenantInv /\ AuditInv /\ OrphanInv`.
LockInv: the chain is free of duplicates and holds exactly what is in
progress, only its head beyond `queued`. StageInv: what each `pc` implies about
disk and log. The others carry one property each through the steps of all
operations. From it: `CheckoutTypesCorrect`, `AttachedSessionKeepsDirectory` (A7),
`NoUnexplainedOrphan` (A8), `AuditedAtMostOnce`, `CheckedOutAsRecorded` (A6, with CommitInv:
only the operation whose checkout it is writes a worktree), and
`HumanBranchesNeverDeleted`, an action property.

The argument for A7, the one a reviewer should read: a removal looks at the
tenants inside the lock and removes two awaits later, still inside it; an
attachment of a dispatched session happens inside the lock of the creation of
that checkout; so no attachment falls between a removal's look and its deed, and
the attached node of an operation is a tenant before the lock is released.

`EventRouterProofs` rests on
`RouterInv == TypeOK /\ NothingOwedIsLost /\ WithinLog /\ QueueInOrder /\ BatchContinuesLog /\ StackIsSound`
and proves `RouterTypesCorrect`, `NobodyIsLeftBehind` (CaughtUp) and
`RouterImplementsDelivery`, for any number of streams, subscriptions and events.
NothingOwedIsLost is the heart: the events in the queue and in hand that a
subscriber is still to be given are exactly those of the log beyond what it has
(or, during its replay, beyond `deliveredThrough`). WithinLog: nobody is ahead of the log or of its own
`deliveredThrough` while being replayed to. QueueInOrder: the events
of a stream wait in increasing order, behind the one in hand and within the log;
with NothingOwedIsLost it makes the event delivered the next one of `Advance`. BatchContinuesLog says the same of a
transaction, and StackIsSound which combinations of loops and callbacks exist. It
is where MayEmit is needed: without it a subscriber could be registered with
something owed that is in no queue.

`TaskDispatcherProofs` rests on
`IInv == TypeOK /\ LockInv /\ RunInv /\ RecordInv /\ ReportsNameTheirRun`. LockInv: a call in
progress holds the lock of its task, alone, and until its follow-up runs no
dispatched run of that task drives; it carries the check `hasLiveRun` made before
the await to the spawn after it, and is where the claim in the synchronous prefix is
needed. RunInv: only the last run of a task can drive, which makes the
attempt counted at filing time the number of the run that files. From it: types,
`ReportsAttributable`, `LoopImplementsBoard`, and `ReviewedBeforeDone`, an action property. The latter
holds for any workflow that leaves `done` to rubrics (`FinishAssumption`), which TLC
evaluates on the shipped one.

`TerminalsProofs` rests on `TInv == Shape /\ GivenOut /\ TagsMeanOneShell /\ StaleTag /\ InputsSafe`
and proves `TagsAreUnambiguous` and `KeystrokesArrive` for any number of shells,
connections, tags and messages in flight. GivenOut: a tag that means anything was
given out before, so the next one is new. StaleTag: a page that still has the tag of
an earlier connection has asked for nothing but its terminal in view since, so that
what it types is safe although the tag is old. InputsSafe is the same for input on its
way: its tag means the right shell, or all that is ahead of it is about that shell.

The second half of the module is about the output, for chunks of any size and number
and any window. The library's induction takes its predicate as a parameter, which no
prover here can instantiate; `Induction` states it for a *set* of numbers, from the well-foundedness
of `<` on Nat, and each use names its set. With it, of the operators of `RingBuffer`:
`FlattenHead` and `FlattenOneMore` (what joining chunks gives when one goes or comes),
`TurnKeeps` (a turn of the loop keeps the newest bytes in order and drops no more than is too
much), `LoopFits` (after as many turns as there are chunks the window fits), `AppendKeeps`
(so an append leaves a window on the longer output), `ReplayIsTheRest` (so a replay is the rest of
the output from its offset, or all that is kept if that byte is gone, and says so).
The invariant is `SInv`: each shell has a ring that is a window, and subscribers that
were given the output from where it was owed to them until now; the messages and the page are
of their kind; and WithinAsks, which counts the attachments asked for, those requests under
way to the hub, and the announcements that will make the page ask, so that the counter of
attachments stays within its bound. Theorems: `WindowsHoldTheNewest`,
`OutputIsConserved`, `TerminalsTyped`.

`OrchestratorProofs` rests on `OInv == HostTypes /\ StreamInv`, TLC-checked first. LedgerFollows:
the ledger is the fold of the entries it has read; so a restart that empties it, and a
`Current` that reads on from where it was, agree with the fold of the whole stream
(`Recall` of one more entry, by the same Induction). MemorySays: that fold
remembers the rung said last since the last compaction and an asking time that is set
exactly then. BankedSince: notes that lifted the hold are no older than the asking. From it
`OneOrchestrator` (types, and at most one founding), `RungsInOrder` (LadderIsClimbed: a rung
is the least one above the highest remembered, and what is remembered is the newest
entry), and `BankedPassesTheDoor` (NotesLiftTheHold), an action property.

`TaskWatchdogProofs` rests on `WatchInv`: TypeOK and, of each session, Reported (a report
stands in its attention until taken back), Driven (what runs is driven by an open
process, and only an open process waits) and Asked (who waits has its attention say so, or
it was cleared, or its run has ended). From it: types, `OncePerSilence`, and
`WarrantedReports`, an action property.

`WsHubProofs` proves what a page sees, for any streams, pages, connections and bounds,
under the one premise that a crash is one of the daemon (`~PowerLoss`; with a power
loss PageReadsTheStream is false, see section 6): `HubTypesCorrect`,
`GoneConnectionsAreNotCalled` (NoSubscriptionLeaks), `QuietPagesAreCurrent`
(QuietMeansCurrent) and `PagesReadTheirStreams`, the refinement of `StreamDelivery` from
the store to the page. It has three layers:

1. `HubStepIsARouterStep`: every step of the hub, the wire and the page is a step
   of the router or none, so that RouterInv, proved once, holds under the hub.
2. CallsNest, CallerIsKnown, SubscriptionsAreNamed: how the calls of the daemon's one
   thread nest, so that a subscribe is handled with nothing under it and a running
   callback belongs to a connection that was not torn down. NoSubscriptionLeaks is
   inductive with these.
3. WireInv, about what is in flight. WireHasNoGap: an event on the wire is at most one
   further than what the page has or what precedes it on that wire. SubscriptionsSent:
   what the router gave a subscription was sent or seen, but for the event in the hand
   of its callback. RequestsFromThePast: a page asks from where it is or was, so that a
   new subscription begins inside what it has. WantedIsAskedFor: a wanted stream of
   an open connection has a subscription or a request under way, and nothing else
   has. For QuietMeansCurrent, an empty wire turns SubscriptionsSent into `at <= lastSeq`
   and CaughtUp, the router's theorem, turns `at` into the head of the log.

Only model-checked, because they are liveness under fairness, which is out of reach of
these provers: EveryOperationSettles, EventuallyCurrent, DispatchesSettle,
SilenceIsReported. Every other property of a passing run is a theorem. No proof is about
ENABLED, and no module uses a RECURSIVE operator. Modules that do not
extend one another are proved each from its own side of what they share (see section 8).

## 6 Where code and text disagree

Each of these has a run whose one property TLC finds violated:

| Run | In short |
|---|---|
| `respawn_clobbered` | the exit of a killed PTY drives dormant, and unwatches, the session another process has resumed (`sessionHost.ts:1976-1985`) |
| `offset_mirrors` | the page's offset is to mirror what the shell has put out, but the replay is sent before the tag is announced and dropped by the page (`wsHub.ts:727`, `vimesStore.ts:318`, `1323`) |

These are in the models as the code has them, without a run of their own:

* A process resumed by hand has its question denied as unattended, because the mark
  of its killed predecessor is cleared only when the old stream ends; the comment at
  `sessionHost.ts:1846` calls the mark per live process.
* A spawn accepted after `stop()` registers a process that nobody kills, although
  `app.ts:1797` stops the host first so that everything is quiescent when the database
  closes.
* `open` resolves the branch, records the commit, and checks out whatever the branch
  points to one await later (`checkoutCoordinator.ts:525-532`).
* A checkout whose compensation failed after its node was born is claimed by that
  node, so the orphan scan that is to surface it (`checkoutCoordinator.ts:789`) never does.
* A power loss rolls back events a page has seen already; the page then ignores
  the new events with their seqs (`sqliteEventStore.ts:63-65` against
  `docs/vimes/vimes-design-spec.md:298`).
* A completion filed when the task has left `implementing` for `blocked-external` moves it to
  `review`, since that stage has an edge to it; the comment above `recordCompletion`
  (`taskDispatcher.ts:1144-1147`) expects a rejection from wherever the task has gone.
* The attention of a reported run is said to clear "the moment the run appends again"
  (`taskWatchdog.ts:66-67`, and the title of `taskWatchdog.test.ts:289`, which emits the
  clearing by hand). Nothing clears it but an answer, a human or a newer reason
  (`sessionHost.ts:1595`, `1721` are the only emits), so the next silence of that run is
  taken for the one already reported (`taskWatchdog.ts:227`) and never reported.
  SilenceIsReported excludes exactly this: a silence begun while an earlier report stands.
* An orchestrator whose start threw after `session_created` stays `spawning` without a
  process. Ensure answers `already-live`, which is to mean "a live orchestrator already
  exists" (`orchestratorApi.ts:85`), and starts nothing until a restart or a resume by name.
* The firm rung is to tell of the door before it ever holds
  (`core/src/orchestrator/compactionSteward.ts:339-342`); the door asks only for a first nudge
  (`302`). When the fill jumps past all thresholds at once, the gentle rung is said and the
  door holds unannounced.
* A compaction whose boundary is not read before the process or the daemon ends leaves
  the ledger with the rungs of a transcript that is gone: they are not said to the new
  one, and the door may hold it although it was never asked, against the comment
  at `core/src/orchestrator/compactionSteward.ts:303-305`.
* A usage block still buffered in the stream of a killed orchestrator is evaluated
  as any other; the nudge it sends resumes the session the human has just killed.

Other behaviours of the models that a reader may find surprising, kept as the
code has them and without a run of their own: `windDown` never clears pending
permission requests, so that of an ended process stays answerable until `stop()`;
answering one of two requests clears the attention both raised; a session whose
adapter threw stays `spawning` until it is resumed by name or the daemon
restarts; a resume leaves the attention of the previous run up; a project
archived while git runs makes the node writer refuse and the checkout be
compensated; a follow-up that throws comes after the node was born, so the node
keeps the provenance of a branch that compensation deletes, and a spawn that
throws after `session_created` leaves a session in the log whose directory goes;
a session spawned by hand takes no lock, so a removal under way takes its
directory; the orphan scan reads the claims before it asks git, and reports a
checkout recorded in between although a node claims it by then; a subscription made
in the replay that backpressure cut short stays registered, sending nothing, until
the socket's close event.

## 7 What is not modelled

* In `SessionHost`: transcript lines of a PTY (`watchTranscript` aside), rename and
  markSeen, delivery of a turn to a stream, the cached preflight, and every field
  of the projection neither the host nor the watchdog reads (names, costs). What becomes
  of a message handed to a stream past its result is the SDK's business.
* The tailer's reading, splitting and mapping of transcript lines: text processing.
* Snapshots (`projection.ts`, `sqliteSnapshotStore.ts`): all projections are local to a
  stream (D34), a snapshot records the seqs it covers, and one that is missing or of
  another version is replaced by a replay; a model would restate the fold.
* The headroom gate of a dispatch, the choice of a runner, the briefing preflight:
  pure functions whose answer is left open in `TaskDispatcher`.
* The tree of nodes, members and roll-ups: a fold without interleavings. Only what
  the coordinator does to nodes and projects is modelled.
* Push, meters and usage: delivery to devices, polling an endpoint, one backoff counter.
* A single failing stat of the standing notes that succeeds again with the old time.
* The size of a terminal and the clock of its reaper.
* Hook bodies, manifests and their validation, HTTP, schemas, styles, and the
  simulation harness: parsing and formatting with no state of their own.
* Pricing is decimal arithmetic over tables, better tested than modelled.

## 8 What is left

All modules planned for the core of the daemon are in place. What would come next,
in the order of its worth:

* A composition of `TaskDispatcher` with `CheckoutCoordinator` over one lock; today the
   two meet at `spawnIntoCheckout`, which each models from its side.
