# TLA+ models and proofs for PiCove

PiCove is a desktop shell for coding-agent sessions.  Three programs cooperate:

    React user interface   <-- Tauri IPC -->   Rust shell        <-- JSONL -->   Pi Host (Node)
    apps/desktop/src                           src-tauri/src                     packages/pi-host/src
                                                                                 on the Pi SDK

`packages/protocol` holds the types both ends of the JSON lines share.  The Pi
Host owns everything that matters: the sessions, the agent, the providers and
the files.  The desktop holds a projection of it, rebuilt from an event stream.

This directory holds models of the parts where a mistake would be hard to find
with a test, the TLC configurations that check them on small instances, and TLAPS
proofs that the central invariants hold for every instance.

    tlc -workers 2 -config SessionRuntime.cfg MCSessionRuntime.tla
    tlapm SessionRuntimeProofs.tla      (and GraphLockProofs, ProviderJournalProofs,
                                         HostSupervisorProofs, WorkspacePoolProofs,
                                         OutboundQueueProofs, StreamLemmas,
                                         EventStreamProofs)

## Inventory

| Component | State | Operations | What is hard | What makes it correct |
|---|---|---|---|---|
| Session lifecycle and runtime cache (`session-lifecycle.ts`, `session-runtime-cache.ts`, `agent-controller.ts`, `extension-command-actions.ts`) | the foreground session, its identity and cached snapshot; retained background runtimes; operation locks | create, open, reload, promote, delete, archive, restore, rename, fork; prompt, compact, navigate; settle clean-up | transactions with many awaits under one lock; turns and commands that end meanwhile; roll-back; timers that hold runtime objects | a served session is never disposed of, no busy one is killed, none is lost, one writer per file, the limit holds |
| Host locks (`locks.ts`, `stable-graph-read.ts`, `registered-graph-mutation.ts`, `operation-lifecycle.ts`) | owner and waiters | try, timed and unbounded acquisition, hand-off | a timeout racing a hand-off | mutual exclusion, FIFO, no waiter told twice |
| Outbound writer (`outbound-queue.ts`, `server.ts`) | queue, pendingBytes, coalesce index, last sequence | enqueue event, response, barrier; pump | three pressure policies, two places that allocate numbers | exact accounting, cap, one increasing numbering, responses kept |
| Event stream and recovery (`App.tsx`, `host-client.ts`, `rehydrate.ts`, `epoch-store.ts`, `app-store.ts`) | last sequence, recovery loop, buffer, projection | apply, detect a gap, hello, rehydrate, retry | events and answers crossing, overflow, timeouts | nothing lost or applied twice unnoticed; recovery ends |
| Pending-queue transactions (`queue-state.ts`) | nested depth, revision | begin, observe, finish; `agent.runNow` | early returns, nesting | one revision per change, never silenced |
| Workspace graphs (`workspace-lifecycle.ts`, `workspace-graph-factory.ts`) | current graph, pool of retained graphs | open, retain, reactivate, evict | awaits between decision and store | the pool's limit, no graph served after disposal |
| Providers (`provider-controller.ts`, `provider-journal.ts`, `credential-store.ts`) | two files and a journal | upsert, remove, log in, recover | crash between any two writes | both files or neither |
| Host start and shutdown (`main.ts`, `server.ts`) | phase, deadlines | hello, quiesce, clean up | one deadline over several waits | exit is bounded, clean-up never overlaps a mutation |
| Host supervisor (`src-tauri/src/pi_host.rs`) | child, generation, restart budget | spawn, monitor, restart, shut down | exits racing restarts | at most one child, a stale monitor does nothing |
| Extension UI (`extension-ui-bridge.ts`) | pending dialogs, widgets, panels | ask, answer, cancel, hand over | session switches with open dialogs | each dialog settles once |
| Packages, attachments, git, search, user-resource cache | files and child processes | | mostly I/O | |
| Protocol validation, desktop stores and views, native shell services | | | pure checks, presentation, OS I/O | |

How they interact: requests arrive as lines, `server.ts` dispatches each to a
handler without waiting for the one before, so handlers interleave at every
`await`.  What must not interleave takes the *service-graph lock* (one per
Host) or a session's *operation lock*.  Handlers, SDK callbacks and timers emit
events under the Host's identity (host, workspace, session, each with a
revision); responses and events share one outbound queue.  The desktop applies
events in sequence and asks for an atomic snapshot when a number is missing.

## Modules

| Module | Models | Checked with |
|---|---|---|
| `SessionRuntime` | the live sessions of one workspace graph and their files | `MCSessionRuntime`, four configurations |
| `SessionRuntimeProofs` | its inductive invariants and theorems | `tlapm` |
| `GraphLock` | the service-graph lock, registered mutations, stable reads, clean-ups and the Host's shutdown | `MCGraphLock` |
| `SerialGraph` | what that lock promises: one operation at a time | refined by `GraphLock` |
| `GraphLockProofs` | `GraphLock`'s invariant and the refinement | `tlapm` |
| `WorkspacePool` | the workspace graphs, the switch between them, the pool of retained ones and their providers | `MCWorkspacePool` |
| `WorkspacePoolProofs` | its inductive invariant and theorems | `tlapm` |
| `ProviderJournal` | changes of providers in two files, their journal, crashes and recovery | `MCProviderJournal` |
| `ProviderJournalProofs` | its inductive invariant and theorems | `tlapm` |
| `HostSupervisor` | the native shell's manager of the Host process | `MCHostSupervisor` |
| `HostSupervisorProofs` | its inductive invariant and theorems | `tlapm` |
| `OutboundQueue` | the Host's bounded writer | `MCOutboundQueue` |
| `OutboundQueueProofs` | the account of its bytes, the order of its numbers, its responses | `tlapm` |
| `EventStream` | the writer, the pipe and the desktop's recovery, `EXTENDS OutboundQueue` | `MCEventStream`, three configurations |
| `StreamLemmas` | what the lines on their way are to a reader | `tlapm` |
| `EventStreamProofs` | `EventStream`'s inductive invariant and theorems | `tlapm` |

`PROJECT.json` maps every definition to the lines it translates.  Operators
named `X_Something` and commented "Bug:" are mutations of `X`: each property is
shown to fail when one of them replaces the definition it is named after.

### SessionRuntime

One action is what happens between two awaits.  A session transaction goes
through `stage`: `building` (the SDK makes the candidate), `binding` (its
extensions are bound), then `Commit`, one turn of the event loop that retains a
busy outgoing session and puts the candidate in the foreground, `activating`,
and either `published` and `retiring`, or `rollback`.  The differences between
the code paths are kept: `createSession` captures the outgoing state before the
first await, `openSession` after the last; reload replaces the session on the
same file; a promotion commits and disposes in its first turn and publishes
after the disposal.

`activity[s]` says who holds the operation lock of `s`, with the turn in
progress as one of its values: the SDK's idle flag and the release of the lock
change in adjacent microtasks, which the model joins.  Work is started on the
foreground session while nobody holds the graph lock; it ends at any time,
whatever has become of its session.  That is where the interleavings are.

A settled background session leaves a timer with a *runtime object*; the object
is compared by reference in the code and by a serial number here, so that a
clean-up for an earlier retention of the same session is told apart.  The lock
queue is FIFO with hand-off, as in `TryMutex`.  Clean-ups are the only waiters:
switches and deletions use `tryAcquire` and give up.

The files are `disk` (transcripts), `archive` and `fresh` (names nobody has
used).  `session.archive`, `restore`, `rename`, `delete` and `cleanupArchived`
are the mutations of `fileOp`: under the graph lock they list the files, are
admitted (`FileOpAdmit`, where a deletion disposes of the idle background
runtime of its file) or refused, and after another await move, unlink or extend
the file (`FileOpDone`, `FileOpFail`); the emptying of the archive unlinks what
the system lets it (`CleanupSweep`).  The foreground is renamed through its live
session (`RenameActive`).  `setName` changes the snapshot within one turn, and a
fork writes a new file: the extension's `fork` copies the foreground's file
without the idle check that the comment at `session-lifecycle.ts:1310` says its
callers make, and the idle check of `session.fork` precedes an `await import`
(`session-controller.ts:380`), so `ForkFile` has neither as a guard.

Not in the model: generated titles, `setActiveTools`, `runNow`, timed readers
of the graph lock (they change nothing; see `GraphLock`), attachment drafts,
and switches of the workspace (`WorkspacePool`).  Clean-up after a compaction
starts at once in the code and by a timer here, which allows the immediate one.

| Property | Says |
|---|---|
| `RuntimesLive` | the foreground and every retained session is usable; the only exception is the failed candidate about to be replaced |
| `NoOrphan` | each live session is in somebody's hands |
| `OneWriterPerFile` | two live sessions share a file only while a reload replaces one by the other |
| `SnapshotNamesActive` | identity, foreground session and snapshot agree on session and revision |
| `LiveLimit` | the limit predicted before the build holds after it |
| `LiveFilesExist` | a session that has written its transcript finds it on disk, not in the archive; while a file is moved, unlinked or extended by a mutation no live session appends to it, except the idle foreground being renamed |
| `BusyKept` | no step disposes of a session whose operation lock is held |
| `SettledReleased` | a background runtime whose clean-up is scheduled leaves the background in the end, disposed of or promoted |

Two runs are expected to fail and document differences between code and text:

* `SessionRuntimeIdleLeak`: a session retained only because it held its
  operation lock (a prompt in pre-flight that is then refused, a tree
  navigation, a compaction that fails) becomes idle without anyone scheduling
  its clean-up.  It stays in the map and counts against the limit until it is
  promoted or deleted.
* `SessionRuntimeMixed`: an extension command's `navigateTree` checks that its
  session is in the foreground before an await and publishes under the identity
  it finds after it.

### GraphLock

The lock itself is `owner` and `waiters`; `pc` says where each request stands.
A request is `granted` from the moment `release` makes it the owner until the
microtask in which it goes on, and that is where a timeout or a shutdown could
surprise it.  `MutationBegin` and `MutationBusy` register the operation and try
the lock; `mutatePackage` finishes its registration in a later microtask than
it releases the lock, so a mutation can be `finishing`.  Stable reads wait
under a timer, check again under the lock, and compare the identity after they
run.  `quiesceAndCleanup` waits for the active operation, for the lock and for
its clean-up under one deadline; a clean-up that is `late` keeps the lock.

`SerialGraph` states the promise: operations enter and leave one at a time and
only mutations move the identity, while they are inside.  The refinement maps
`inside` to the requests that are running or late.

The three users of `tryAcquire` that are not registered (`system.rehydrate`,
`agent.setActiveTools`, `session.setName`) hold the lock within one turn and
are left out.  So is the abort of a mutation's signal, which only makes the run
end earlier, and the refusal of new requests during the shutdown, which
operations already dispatched, or started by an extension, do not meet.

| Property | Says |
|---|---|
| `OwnerHolds` | the lock's owner is the one request that behaves as the owner, so none that was refused, timed out or ended owns it |
| `ReadsStable` | the identity never moves under a running read |
| `Serialises` | `GraphLock` implements `SerialGraph` |
| `ShutdownEnds` | the shutdown ends by its deadline whatever everybody else does |
| `CleanupsServed` | if no run goes on for ever, a waiting clean-up gets the lock, unless a late shutdown keeps it |

### OutboundQueue

`OutboundWriter`'s methods run in one turn, so each is an operator from writer
state to writer state; the pump is an action per entry, since it may wait for a
drain after each.  Entries carry a kind, a payload abstracted to version
numbers or chunk numbers, a size, the sequence number once they have one, and
whether they are the value of their key in the coalesce index.  Everything the
code does with `pendingBytes`, the two shedding passes, the burned sequence
number, the attention guard and the barrier's sealing is there: `Drop` is one
pass of shedding with the number it burns, `EnforceHardCap` what follows every
change of `pendingBytes`.

| Property | Says |
|---|---|
| `PressureBounded` | `pendingBytes` is the size of the live entries after any mix of merges, sheds, skips and failures, and above the hard cap only responses remain |
| `SequencesIncrease` | numbers allocated at the write and by barriers form one increasing line, none above the last allocated, and what a barrier sealed comes first |
| `ResponsesKept` | pressure never drops, merges or reorders a response |

### EventStream

The Host side is `OutboundQueue` with the events one session emits: transcript
deltas, snapshots, the pending queue, a widget and attention for it, the frames
of a custom panel.  `host.cached` is the transcript in the cached
`graph.sessionSnapshot`, which is rebuilt only when a turn ends or a setting
changes.  That object is also the payload of the last queued
`session.snapshot`, which is serialised only when it is written:
`publishQueueSnapshot` changes both (`SetPending`) until the cache is rebuilt.

The desktop is one record: its projection (`view`), `lastSeq`, `desync`, the
recovery buffer, and the loop's place (`live`, `hello`, `rehydrate`,
`backoff`), attempt and pending flag.  Requests may be refused, time out, and
be answered late; a late answer is recognised by its number, as in
`HostClient.pending`.  A settings request is answered with a snapshot that is
applied in whatever state the desktop is by then.

A desktop that shows the fatal banner is not held to anything (`Vouched`).

| Property | Says |
|---|---|
| `StreamsContiguous` | every delta after the installed snapshot, and every chunk of a panel, is applied exactly once, in order |
| `AttentionShowsWidget` | attention opens the widget it was raised for |
| `Converged` | having read everything, the desktop shows the Host's widget and panel, the snapshot the Host has cached, and every delta since the position that snapshot stands for: of the transcript it lacks what the cached snapshot lacks in mid-turn, and nothing once the Host has rebuilt it |
| `RecoveryEnds` | events are ignored only while a recovery is under way, and every recovery ends |

Two runs are expected to fail:

* `EventStreamStaleQueue`: a replaced `agent.queueChanged` overtakes a response
  whose snapshot carries the older queue, and the desktop keeps the older one.
* `EventStreamBoundary`: the recovery snapshot is the cached one, so in the
  middle of a turn it holds less than its watermark says.  In that trace the
  desktop catches up and still lacks a delta; `Converged` holds there because
  what is missing is exactly what the cached snapshot lacks, and says that it is
  no more than that and ends with the turn.

Not in the model: a Host that restarts (`host.ready`, retired instances),
identity mismatches, transport repair, the restore of the last session after a
recovery, several sessions, and payloads other than the ones above.  `isIdle`,
`isStreaming` and `tools` of the cached snapshot are not followed.  Requests
are handled in the order they arrive.  Sizes count one per event except in
`OutboundQueue`, where frames have two sizes and one can exceed the limit.

### WorkspacePool

A graph is an object with a directory and some facts about it: whether one of
its sessions runs (`busy`), whether it has background sessions (`bg`), whether
it is subscribed to, has its Extension UI attached, has its providers parked,
whether its files still have the fingerprint taken when it was left, and when
that was.  A switch holds the graph lock through `sw.step`: `comparing` the
fingerprint of a retained graph, `binding` it or `building` a new one,
`activating` its extensions, `undoing` a failed activation, `printing` the
fingerprint of the workspace left, `ending`.  Every one of these awaits may
fail, and the paths back differ: a retained graph that cannot be bound or
activated is rebuilt, a new one that cannot be activated is disposed of while it
is current, and a build that fails makes a graph in state `failed` current.

Turns end meanwhile (`WorkEnds`), files change, and operations of other
components invalidate retained graphs.  A graph's owner is registered in the
shared model runtime exactly when it is `ready` and not `parked`, so the set of
registered owners is derived (`Registered`).

Not in the model: requests that are refused, a switch cancelled by the
shutdown, runs started by an extension during a switch, and what becomes of a
provider id that two registered owners share or that a parked, running
workspace registers late (`main.ts:261` attributes it to the active one).
Waits for the disposal of a graph are joined with the step before, except in
`undoing`.

| Property | Says |
|---|---|
| `ServedIntact` | once a switch is over, however it ended, the workspace the identity names is announced, alive, heard, has its UI attached and its providers registered |
| `PoolSound` | the pool's limit holds; a retained graph is alive, not served, and the only one of its directory; no graph is lost |
| `ProvidersPlaced` | a running workspace keeps its providers; of the idle ones only those served, entered or left have theirs |
| `RunningKept` | a running workspace is not disposed of to make room, nor for a mutation of providers or packages |

Three behaviours are excused in these properties, because the code does them:

* If the fingerprint of the workspace being left cannot be taken after the new
  graph is installed (`workspace-lifecycle.ts:463`), the workspace left is
  disposed of even if it runs, and the switch is answered as failed and never
  announced although it happened; where the build had failed before, the
  workspace stays current but is no longer subscribed to and its UI is detached
  (`unread`).
* A workspace that settles during that await, or whose operation lock is still
  held when `agent_end` is published (`session-runtime-cache.ts:675`), is never
  parked (`late`): its providers stay beside those of the workspace served.  The
  comment at `workspace-lifecycle.ts:577` says an owner never registers while
  the outgoing one is present; `suspendGraphProviders` skips a busy one.
* `setCurrent` to the directory served builds a second graph of it; when it is
  retained, or one of its session files is moved, the older one is disposed of
  even though it runs.

### ProviderJournal

`models` and `auth` are the two files, `entries` the journal's directories and
what of each is on disk.  A mutation with a journal goes `begin` (two copies,
then the record, each synced), `commit` (models.json by a rename),
`credentials`, `reconcile`, `finish`; it may fail at each step, after which it
either returns the error or rolls back.  The roll-back and the recovery at
start-up run the same steps (`replay`).  `Crash` may come between any two.  A
mutation of models.json alone (`setEnabled`, `setBuiltinModels`, a detected
header) has no journal and is rolled back by rewriting the file in place, so
that it can be found truncated.  Two of the
recovery's reads have no error to report.  A list of the journal's directories
that cannot be read counts as empty (`provider-journal.ts:342`): the Host starts
in health with its records unreplayed (`StartHost`, `host.unlisted`).  And
`readRecord` answers `null` for a record that is missing and for one that cannot
be read or parsed alike (`:106`): `NextEntry` then removes the directory.

`ghost` remembers what the user was told, and the accidents after which less can
be promised.  Three of them are `Blind`, since after them files may disagree and
no record say so: a mutation begun on files that disagreed (`mixed`), a roll-back
in place that left models.json empty (`truncated`), a record that could not be
read (`discarded`).

| Property | Says |
|---|---|
| `Detectable` | as long as the two files disagree a recorded directory remains, wherever the process died, unless an accident was `Blind` or a roll-back is rewriting models.json in place |
| `HealthyAgrees` | a Host that claims health, was able to list its records and has not just failed to roll back has files that agree, unless an accident was `Blind` |
| `OutcomeKept` | as long as no accident has happened, the files show the last mutation the user was told of: nothing acknowledged is lost, nothing refused is kept, one cut short is undone or complete |
| `IncompleteUntouched` | in a roll-back as in a recovery, a directory without both copies changes neither file nor journal; a record is lost only in the removal of its directory, and that begins only when its mutation has ended, when both files have been restored from it, or when a recovery failed to read the record |
| `RecoveryCompletes` | a Host that is started comes up, however often recovery is interrupted |

`OutcomeKept` excuses one accident a reader should know of ("refused"):
`commitModelsConfig` of save, remove and log-out (`provider-controller.ts:1533`,
`1642`, `2079`) stands outside the `try` that rolls the journal back.  When it
is refused, the directory stays with its record although the files were not
touched, and the next start of the Host replays it, over a save that was
acknowledged in between.

Unreadable state is treated in two ways.  `docs/operations/development.md:201`
says that "missing, unreadable, malformed, or ambiguous backup state leaves both
live files untouched, keeps the journal, and reports degraded health".  The code
does so for the copies; for the record beside them it does the opposite, and for
the list of directories it reports health.  A crash between the two writes and
one failed read of the record at the next start leave a configuration without
its credential, no journal and a healthy Host.  `Detectable`, `HealthyAgrees`,
`OutcomeKept` and `IncompleteUntouched` each name the case, so that they say all
that is left when it does not occur.

Not in the model: writes of auth.json by a log-in or a token refresh, the
Windows branch of `commitModelsConfig` that removes before it renames, a loss
of power (as opposed to the death of the process), connection tests.
Directories have random names; that they are replayed in the order of the names
is modelled by numbers chosen at random.

### HostSupervisor

`procs` are the Hosts ever spawned, each with its process-group leader, the
rest of its group, the claim to signal that group, its monitor task and the
start that waits for its `host.ready`.  `mgr` is what the mutex protects, `job`
the steps of its holder, `calls` who waits for it.  A start gives the mutex up
while it waits for `host.ready` and takes it again to finish (`Complete`); by
then another restart may have overtaken it.  The monitor claims and kills the
group without the mutex.  Restarts by the user, the automatic one and the app's
exit go through the same steps, `retire` ... `spawn`; the mutex is handed to any
waiter, not to the first, which allows more than the code does.

The model is of Unix: no Job Objects.  The budget is `spent`, which stands for
`restart_count` and `auto_restart_armed`, that change together.  A Host's
descendants are assumed not to leave its group nor to hold its output open.
Framing of lines and the log tail are left out.

| Property | Says |
|---|---|
| `NothingLeft` | of every Host but the last, and of all when the app is gone, neither process nor monitor is left |
| `SignalsOwn` | whoever may signal a group does so before its number is free again |
| `RestartOnce` | one automatic restart is made until the user's next, besides those asked for before his last and still waiting then; and none is asked for but after a crash |
| `HealthyKept` | a healthy Host is not stopped by the failure of a start it overtook, by another generation's monitor or by a probe |
| `CrashAnswered` | a crash ends in a new Host or in an error that is shown |

`RestartOnce` counts restarts as they are made: `ghost.allowed` goes down when an
automatic one takes the mutex, and a manual one sets it to one more than the
requests that wait at that moment.  These should be withdrawn and are not: the
request for the automatic restart carries no generation (`lib.rs:132`,
`pi_host.rs:1531`).  When a manual restart takes the mutex first, the stale
request then stops the healthy new Host; should the Host that replaces it crash,
another automatic restart follows, the second since the user's.  `p0-scope.md:37` has
"one bounded automatic restart after an unexpected exit".  `RestartOnce` allows
just these, and `HealthyKept`, which excuses whoever waits for the mutex, does
too.

## Bounds

| Run | Bounds | Why they are enough |
|---|---|---|
| `SessionRuntime` | 3 session objects, 3 ids, `MaxLive` 2, `MaxRev` 3, symmetric | an outgoing, an incoming and a retained session at once; a limit that is reached; two transactions in sequence, so that what the first leaves behind meets the second |
| `SessionRuntimeLive` | 2 sessions, 2 ids, `MaxLive` 2, `MaxRev` 4, no symmetry | liveness is not checked under symmetry; one session is retained, settles and is promoted or released while the other is served |
| `SessionRuntimeIdleLeak`, `...Mixed` | 3 sessions, 2 ids, no symmetry | the counterexamples need no more |
| `GraphLock` | 2 mutations, 2 reads, 2 clean-ups, 1 shutdown, 2 identities, each request once | a queue of five, two waiters of a kind that overtake each other by timing out, a mutation behind another, an identity that moves and moves back |
| `OutboundQueue` | soft watermark 1, hard cap 3, largest frame 2, wire 1, 5 entries | both passes of shedding, merges below and above the frame limit, two barriers with events between them |
| `EventStream` | soft watermark 1, hard cap 2, buffer 1, 2 attempts, 3 emissions, requests 0 and 1 may fail | a shed event, an overflow and a second recovery fit in one behaviour |
| `WorkspacePool` | 4 graphs, 4 directories, `MaxRetained` 2, `MaxRev` 4, symmetric | a full pool while a fourth workspace is entered, so that one is evicted; a return to a retained one; an activation undone while the pool is full |
| `ProviderJournal` | 2 names, 3 mutations, 2 crashes, 3 faults | two directories on disk at once in either order; a mutation acknowledged after one that left its directory; a crash in the recovery from a crash |
| `HostSupervisor` | automatic restart on, 2 manual restarts | a manual and an automatic restart and the app's exit wait together; a start is overtaken twice |
| expected failures of `EventStream` | 4 emissions | |

`MaxRev` bounds the number of transactions, `MaxQueued` the number of entries or
emissions, `MaxFailing` the requests that may fail or time out, `MaxMutations`,
`MaxCrashes` and `MaxFaults` what their names say, `MaxManual` the restarts the
user asks for.  `MaxLive`, `MaxRetained`, the watermarks, `BufferLimit` and
`MaxAttempts` are limits of the code, made small.

Deadlock is checked for `SessionRuntime`.  The other configurations switch it
off where the system rests: requests that have all been answered; a Host that
has emitted its share with a peer that has read it; a workspace whose revisions
are used up; a Host that has made its mutations and died as often as it may; an
app that has gone.

## Fairness

`SessionRuntime.Fairness`: every await of an operation that owns the graph lock
ends, be it a switch, a clean-up or a mutation of a file (`SwitchStep`,
`CleanupStep`, `FileOpStep`).  Disposal hooks and aborts run under a deadline
(`runDisposalStep`); the SDK, the file system and the extensions a candidate
activates are assumed to return or throw.  An activation may wait for dialogs
that the user answers; that they are answered or cancelled is part of the
assumption.  Timers fire, one weak fairness condition per session.  Users, turns
and commands promise nothing.

`GraphLock.Fairness`: promises that are resolved continue and timers fire.  How
long a mutation, a read, a clean-up or the shutdown's own clean-up runs is left
open: `ShutdownEnds` holds even if they run for ever, and `CleanupsServed`
states its premise in the property.

`EventStream.EsFairSpec`: one weak fairness condition for all the steps of the
event loops: while the pump may write what the stream takes, the desktop may
read, a request may be answered or a back-off timer may fire, one of these is
taken.  Timeouts get no fairness.

`ProviderJournal.PjFairSpec`: the Host is started whenever it is down, and a
start or a replay that has begun goes on (`Start`, `Replay`).  Mutations are
promised nothing.

`HostSupervisor.HsFairSpec`: while the app is up, the shell's runtime runs its
monitors, the holder of the mutex, those who wait for it and its timers; one
condition for all of them.  Nothing is promised of the Host or of the user.

`WorkspacePool` has no liveness property and states no fairness.

## Proofs

`SessionRuntimeProofs` proves, for every set of sessions, every set of files
and every `MaxLive` and `MaxRev`:

| Theorem | Property |
|---|---|
| `Invariance` | `Spec => []Inv` |
| `TypeCorrect` | `TypeOK` |
| `ServedRuntimesAreLive` | `RuntimesLive` |
| `NoSessionIsLost` | `NoOrphan` |
| `SnapshotAgreesWithIdentity` | `SnapshotNamesActive` |
| `SingleWriter` | `OneWriterPerFile` |
| `LiveSessionsKeepTheirFiles` | `LiveFilesExist` |
| `LiveSessionsAreLimited` | `LiveLimit` |
| `BusySessionsAreKept` | `BusyKept` |

The assumptions are those `SessionRuntime` declares: `MaxLive` is positive,
`MaxRev` a natural number, and the two null values are not sessions or
runtimes.

None of the properties is inductive as it stands.  `RuntimesLive` breaks in
`RollbackDone` unless the captured session is known to be live; that is known
only because it was retained if it was busy, and nobody else could dispose of
it if it was idle, which depends on who owns the graph lock and on the outgoing
session not being a key of the map.  `Inv` adds what is needed:

* `LockInv`: the owner of the graph lock is the operation that is under way;
* `NamesInv`: identity, snapshot and captured state name the right files;
* `KeysInv`: the foreground's id is no key of the map, a fresh id is nobody's,
  not in the archive and not what a file mutation is about;
* `BuildInv`: a candidate being built is idle and in nobody's hands, and its
  file is in use only by the idle session a reload replaces;
* `CommitInv`: after the commit the outgoing session is retained under its own
  key if it was busy, and idle and in nobody's hands otherwise;
* `BusyInv`: only sessions the Host serves hold an operation lock.

There is one lemma per action, a step per conjunct of `Inv` that the action can
disturb, and the theorems combine them.  `OneWriterPerFile` and `BusyKept`
follow from `Inv`.  Two more invariants are proved on top of it:

* `FilesInv` is `LiveFilesExist`, that a session with a transcript was built,
  that no candidate is being built on an archived file, that a mutation under
  way owns the graph lock, and that the file of a restore is in the archive.
  Most actions move no file and fall under one lemma (`QuietFiles`).
* `LimitInv` bounds the keys of the map: one less than `MaxLive`, and two less
  until the commit if the outgoing session is busy and will be retained.
  `wouldExceedLiveSessionLimit` is asked before the first await, so the proof
  has to carry the room across them.  The sessions are counted by the keys that hold them.

`GraphLockProofs` proves, for every set of mutations, reads, clean-ups and
identities:

| Theorem | Property |
|---|---|
| `Invariance` | `Spec => []Inv` |
| `TypeCorrect` | `TypeOK` |
| `OwnershipIsExact` | `OwnerHolds` |
| `ReadsAreStable` | `ReadsStable` |
| `Refinement` | `Serialises` |

The assumptions are that the kinds of requests are disjoint, that `Nobody` is
none of them, and that there is an identity.  `TypeOK`, `OwnerHolds` and
`ReadsStable` are inductive together.  The waiters must be known to be waiting,
and to stand in the array once: otherwise the hand-off could make an owner of a
request that runs, and a timer could leave a second copy behind.  Three lemmas
say what taking the lock, releasing it and withdrawing from it preserve; the
actions follow from them, and so does the refinement.

`WorkspacePoolProofs` proves, for every set of graphs and directories and every
limit of the pool:

| Theorem | Property |
|---|---|
| `WpInvCorrect` | `WpSpec => []WpInv` |
| `WpTypeCorrect` | `WpTypeOK` |
| `ServedCorrect` | `ServedIntact` |
| `PoolCorrect` | `PoolSound` |
| `ProvidersCorrect` | `ProvidersPlaced` |
| `RunningCorrect` | `RunningKept` |

The set of graphs is finite and the limit positive.  `SwitchOK` says what each
await of a switch knows of the incoming and the outgoing graph, without which no
roll-back is sound; `ServedOK` and `PoolOK` are the properties while a switch
is under way, `IdentityOK` and `GraphOK` relate the identity and each graph to
it.  `RoomOK` is the interesting part: `canAcceptOutgoingRetention` is asked
before the first await, and that there is room, or an idle graph to evict, must
survive turns that end, graphs that are disposed of and a retained graph that is
rebuilt.  The eviction then needs that a finite set of idle graphs has one that
was left first.

`ProviderJournalProofs` proves, for every set of names and any bounds:

| Theorem | Property |
|---|---|
| `InvCorrect` | `PjSpec => []PjInv` |
| `TypeSafe` | `PjTypeOK` |
| `DetectableCorrect` | `Detectable` |
| `HealthyCorrect` | `HealthyAgrees` |
| `UntouchedCorrect` | `IncompleteUntouched` |
| `OutcomeCorrect` | `OutcomeKept` |

`PjInv` is `TypeInv`, which says at which steps a mutation and a replay can be
together, `Logged` (the directory of a mutation that has begun to write, or of a
replay, has its record; what has been restored so far is what it holds), and,
unless an accident was `Blind`, that the copies in a directory agree with each
other (`CopiesAgree`), what the files hold at each step of a mutation
(`Progress`, `Plain`), and who answers for a disagreement: a record on disk, and
a health that says so or a recovery that is about to find it (`Accounted`).
`IncompleteUntouched` follows step by step from `Logged`: that a directory is
removed only with both files restored from it is what a replay has to carry from
the first copy to the second.

`OutcomeKept` needs more, since it compares the files with what the user was
told.  As long as there was no accident (`OutcomeInv`), there is at most one
record, it belongs to the mutation under way or to a directory the recovery has
yet to do, and its copies hold the outcome (`RecordGood`); `OnTheWay` says how
far each step of a mutation has taken the files from that outcome, `WayBack` how
far a roll-back or the recovery has taken them back.  A death turns the first
into the second, and that is the case the invariant is made for: either the
files still show the outcome, or the one record does.

`OutboundQueueProofs` proves, for every watermark, hard cap, frame limit, stream
capacity and number of entries:

| Theorem | Property |
|---|---|
| `PressureAlways` | `PressureBounded` |
| `SequencesAlways` | `SequencesIncrease` |
| `ResponsesKeptAlways` | `ResponsesKept` |

`PressureBounded` and `SequencesIncrease` are inductive together.  The account
is a sum over a queue of any length, whose entries are appended, merged, shed in
two passes, numbered and taken.  The sum is a recursive function over positions;
the module proves that it exists (`Recursion`) and what appending, removing and
changing a number do to it (`TotalAppend`, `TotalTail`, `TotalChange`,
`TotalPlus`) by induction over positions: a set that holds 0 and with each number
the next one holds them all (`UpTo`), or else it would lack a least one.  The
library's theorem on well-founded relations gives that least one as a plain fact
about sets, so no induction theorem with an operator for a parameter is needed.

Each operator on the writer has a lemma that says it keeps the account and the
pressure bound (`Bounded`), keeps the entries and revives none (`Keeps`) and
numbers nothing (`Unsealed`); the order of the numbers survives whatever numbers
nothing (`UnsealedOrdered`), the barrier (`SealOrdered`) and the pump.
`Responses` is again a recursive function: lines that say the same position by
position say the same (`SaidSame`), more lines say more (`SaidGrows`), and a line
that is no response can be left out (`SaidSkip`).  The assumption is
`WatermarkAssumption`.

`HostSupervisorProofs` proves, for either setting and any number of restarts:

| Theorem | Property |
|---|---|
| `HsInvCorrect` | `HsSpec => []HsInv` |
| `HsTypeCorrect` | `HsTypeOK` |
| `NothingLeftCorrect` | `NothingLeft` |
| `SignalsOwnCorrect` | `SignalsOwn` |
| `RestartOnceCorrect` | `RestartOnce` |
| `HealthyKeptCorrect` | `HealthyKept` |

`HsInv` is the type invariant, `JobOK`, which says what each step of the
mutex's holder knows of the child and of its claim, and `ProcOK` for every Host
ever spawned, which ties its leader, its group, the claim and its monitor
together and says that only the last one may have anything left.  The number of
Hosts is unbounded; a step changes one of them or appends one.  `RestartOnce`
rests on `Allowance`: what is still allowed covers the requests that wait, and
one more while the budget is unspent.

`EventStreamProofs` proves, for any limits of the writer and of the recovery
buffer, any number of attempts, and any number of events, requests and
recoveries:

| Theorem | Property |
|---|---|
| `EsTypes` | `EsTypeOK` |
| `StreamsAlways` | `StreamsContiguous` |
| `AttentionAlways` | `AttentionShowsWidget` |
| `ConvergedAlways` | `Converged` |

The assumptions are `WatermarkAssumption` and `RecoveryAssumption`.  The
properties speak of what the desktop shows; whether they survive the next line
depends on everything that is on its way to it.  `StreamLemmas` therefore looks
at the *flow*, the wire and then the queue as one sequence of lines, and at a
*reader*, someone who has the session up to some number: the desktop, and also
every snapshot that answers a recovery and is still on its way.  Transcript
deltas, panel chunks and widgets are three streams of numbered items.  A stream
follows on what the reader has (`Stream`) when the items on their way are in
order, and every one the reader lacks is either among them or was dropped, and
then a number is missing before whatever follows it (`Missed`), so that the
desktop cannot apply a later item without noticing the gap.

The flow is good (`GoodFlow`) when

* `FlowOK`: its numbers go up, what has none comes after what has, and the
  watermark of a recovery's answer covers every event before it;
* `AllFollow`: the three streams follow on what the desktop has, if it vouches
  for what it shows, and on what each answer in the flow will give it; and each
  of these readers shows the snapshot the Host has cached, or a line that renews
  it is on its way, or a number is missing (`CachesFollow`);
* `Polled`: the recovery loop's requests and answers are in turn, so that an
  answer it still waits for is not overtaken by one it will accept.

`Writing` adds what `Bounded` (of `OutboundQueueProofs`) and `QueueOK` say of
the queue: what may be replaced is the last of its kind and has no number, and
no attention stands behind a widget that may still be replaced.
There are lemmas that the loss of lines (`ThinStream`), an appended line
(`AppendStream`), a merged one (`MergeStream`) and the next line read
(`NextItem`) keep a stream; each operation of the writer is one of these, and so
is each step of the Host, each move of the pump and each line read.  `ClientOK`
says which states the desktop has between its steps.  `EsInv` is all of this.

Two facts came out of the proof and say something of the code.  A recovery
asked for while one is under way is always taken up in the same step
(`client.pending` is `FALSE` between steps).  And with one first-in first-out
pipe, what `RecoveryEventBuffer` holds when the snapshot arrives is never above
its watermark, since the barrier seals the queue before the answer is written:
`finish` then replays nothing (`NothingReplayed`), and the buffer matters for
its overflow only.

Only model-checked: the liveness properties (`SettledReleased`, `ShutdownEnds`,
`CleanupsServed`, `RecoveryEnds`, `RecoveryCompletes`, `CrashAnswered`), which
are out of the prover's reach, and the properties that are expected to fail,
each a counterexample found by TLC.

## Not modelled

* Pending-queue transactions (`queue-state.ts`): a depth, a revision and two
  lists per session; the interesting cases are early returns of `runNow` and
  `setQueue` between `begin` and `finish`.  Planned.
* Extension dialogs across switches of the session, attachments and their
  reference counts.  Planned; both live in a few hundred lines between much I/O.
* Packages and search: the service-graph lock they run under is `GraphLock`,
  what they do inside is the SDK's package manager and reading files.
* Git panel, terminals, windows, settings files: child processes and
  operating-system calls, with no protocol of their own.
* Protocol validation: pure checks of shapes, tested by exhaustive tables.
* The desktop's stores and views, half of the repository: presentation, apart
  from the recovery state, which is in `EventStream`.
* Host start-up in `main.ts` and the order in which the transport stops; the
  recovery of the journal at start-up is in `ProviderJournal`, the shutdown in
  `GraphLock`.

## Plan

In order of importance.

1. `QueueTransaction` (`queue-state.ts`, `agent.runNow`): nesting, suppression,
   restoration of the queue when the abort fails.
2. `EventStream`: a Host that restarts (`host.ready`, retired instances), which
   would compose it with `HostSupervisor`.
3. Extension dialogs that are handed over or cancelled by a switch; attachments.
4. Proofs about what items 1 to 3 add.  Every safety property the passing runs
   check now is a theorem.
