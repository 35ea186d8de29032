---------------------------- MODULE SessionRuntime ----------------------------
(***************************************************************************)
(* The live AgentSessions of one workspace graph in the Pi Host            *)
(* (packages/pi-host/src: session-lifecycle.ts, session-runtime-cache.ts,  *)
(* agent-controller.ts, extension-command-actions.ts).                     *)
(*                                                                         *)
(* One session is in the foreground.  Creating, opening, reloading or      *)
(* promoting another one is a transaction under the service-graph lock     *)
(* with several awaits: build a candidate, retain the outgoing session     *)
(* when it is busy, commit the candidate, activate its extensions,         *)
(* publish, dispose of what was replaced, or roll all of it back.          *)
(* Meanwhile prompts, compactions, tree navigation and extension commands  *)
(* run under per-session operation locks, and a retained session that      *)
(* settles queues its own clean-up for the graph lock.                     *)
(***************************************************************************)
EXTENDS Integers, Sequences, FiniteSets

CONSTANTS
    Sessions,     \* AgentSession objects; each is built at most once
    Files,        \* session ids, each with its JSONL file
    MaxLive,      \* MAX_LIVE_SESSIONS, 5 in the code
    MaxRev,       \* bound on the session revision: no transaction starts there
    NoRuntime,    \* an absent entry of graph.backgroundSessions
    NoSession     \* a null AgentSession

ASSUME MaxLiveAssumption == MaxLive \in Nat \ {0}
ASSUME MaxRevAssumption == MaxRev \in Nat
ASSUME NoSessionAssumption == NoSession \notin Sessions

(***************************************************************************)
(* A BackgroundSessionRuntime object.  JavaScript compares the objects by  *)
(* reference; the serial number tells two retentions of one session apart. *)
(***************************************************************************)
Runtime == [session : Sessions, file : Files, rev : Nat, serial : Nat]

ASSUME NoRuntimeAssumption == NoRuntime \notin Runtime

\* What a SessionSnapshot says: whose content, under which session identity.
Snapshot == [of : Sessions, file : Files, rev : Nat]

\* What holds a session's operation lock; "running" is a turn in progress.
Activity == {"none", "preflight", "running", "compacting", "navigating",
             "command", "commandNavigating"}

\* Where the session transaction that owns the graph lock stands.
Stage == {"none", "building", "binding", "discarding", "activating",
          "rollback", "published", "retiring", "promoting"}

\* The session file mutations, and where one stands.
FileOp == {"delete", "archive", "restore", "rename", "cleanup"}
FileStep == {"none", "listing", "moving", "sweeping"}

VARIABLES
    built,        \* [Sessions -> {"unbuilt", "live", "disposed"}]
    fileOf,       \* [Sessions -> Files], meaningful once built or being built
    activity,     \* [Sessions -> Activity]: operation lock and turn state
    used,         \* sessions whose transcript is not empty
    disk,         \* session files that exist on disk
    archive,      \* session files that were moved to the archive directory
    fresh,        \* ids that no session has had yet
    active,       \* graph.agentSession
    identity,     \* server.identity: [file, rev]
    snapshot,     \* graph.sessionSnapshot
    published,    \* payload of the last session.snapshot event
    background,   \* graph.backgroundSessions: [Files -> Runtime or NoRuntime]
    retentions,   \* number of runtimes made for a session so far
    stage,        \* progress of the transaction
    kind,         \* "create", "open" or "reload" while a candidate exists
    candidate,    \* the session the transaction builds or promotes
    prev,         \* captured outgoing state: [session, file, rev, snapshot]
    retained,     \* runtime made of prev by this transaction, or NoRuntime
    graphLock,    \* kind of owner of server.serviceGraphLock
    lockQueue,    \* settle clean-ups waiting for the graph lock, FIFO
    cleaning,     \* the clean-up that owns the graph lock, or NoRuntime
    disposing,    \* that clean-up is awaiting the disposal
    timers,       \* settle clean-ups whose setTimeout(0) has not fired
    fileOp        \* [what, file, step] of a mutation that owns the graph lock

sessionVars == <<built, fileOf, activity, used, disk, archive, fresh>>
graphVars == <<active, identity, snapshot, published, background, retentions>>
opVars == <<stage, kind, candidate, prev, retained>>
lockVars == <<graphLock, lockQueue, cleaning, disposing, timers, fileOp>>
vars == <<sessionVars, graphVars, opVars, lockVars>>

-----------------------------------------------------------------------------
\* Bug: the operation lock of a prompt still in pre-flight is not looked at.
Busy_TurnOnly(s) == activity[s] = "running"

\* isSessionBusy: a turn is running or the operation lock is held.
Busy(s) == activity[s] # "none"

Background(f) == background[f] # NoRuntime
InBackground(s) == \E f \in Files : Background(f) /\ background[f].session = s

LiveCount == 1 + Cardinality({f \in Files : Background(f)})

\* Bug: a busy foreground session is counted out although it stays alive.
WouldExceedLiveLimit_BusyToo == LiveCount - 1 + 1 > MaxLive

\* wouldExceedLiveSessionLimit: an idle foreground session will be disposed.
WouldExceedLiveLimit ==
    LiveCount - (IF Busy(active) THEN 0 ELSE 1) + 1 > MaxLive

\* buildSessionSnapshot of session s under the live identity.
Project(s) == [of |-> s, file |-> identity.file, rev |-> identity.rev]

\* captureActiveSessionState
Captured == [session |-> active, file |-> identity.file, rev |-> identity.rev,
             snapshot |-> snapshot]

\* Bug: the runtime is made without its revision.
RuntimeOf_NoRev(p) == [session |-> p.session, file |-> p.file]

\* The runtime object that retainBusySession makes of a captured state.
RuntimeOf(p) == [session |-> p.session, file |-> p.file, rev |-> p.rev,
                 serial |-> retentions[p.session]]

\* Bug: the snapshot slot is left out of the commit.
CommitActive_KeepSnapshot(s, f, rev, snap) ==
    /\ active' = s
    /\ identity' = [file |-> f, rev |-> rev]
    /\ UNCHANGED snapshot

\* commitActiveSessionState
CommitActive(s, f, rev, snap) ==
    /\ active' = s
    /\ identity' = [file |-> f, rev |-> rev]
    /\ snapshot' = snap

\* Bug: the runtime is made but not stored in the map.
RetainBusy_NotStored(p, map) ==
    /\ background' = map
    /\ retained' = IF Busy(p.session) THEN RuntimeOf(p) ELSE NoRuntime
    /\ UNCHANGED retentions

\* retainBusySession: a busy outgoing session goes into the map.
RetainBusy(p, map) ==
    IF Busy(p.session)
    THEN /\ background' = [map EXCEPT ![p.file] = RuntimeOf(p)]
         /\ retained' = RuntimeOf(p)
         /\ retentions' = [retentions EXCEPT ![p.session] = @ + 1]
    ELSE /\ background' = map
         /\ retained' = NoRuntime
         /\ UNCHANGED retentions

\* TryMutex.tryAcquire on the graph lock.
AcquireGraph(owner) ==
    /\ graphLock = "free"
    /\ graphLock' = owner

\* TryMutex.release: hand the lock to the longest waiting clean-up, if any.
ReleaseGraph ==
    IF lockQueue = <<>>
    THEN /\ graphLock' = "free"
         /\ cleaning' = NoRuntime
         /\ UNCHANGED lockQueue
    ELSE /\ graphLock' = "settle"
         /\ cleaning' = Head(lockQueue)
         /\ lockQueue' = Tail(lockQueue)

\* The transaction returns: its finally block releases the lock.
FinishOp ==
    /\ stage' = "none"
    /\ candidate' = NoSession
    /\ retained' = NoRuntime
    /\ ReleaseGraph

\* Bug: a retained session may be built a second time from its file.
MayBuild_Retained(f) == f \in disk /\ f # snapshot.file

\* openSession builds a session for a listed file that is neither the
\* foreground's (isCurrentSessionPath) nor retained (findRetainedRuntime).
MayBuild(f) == f \in disk /\ f # snapshot.file /\ ~Background(f)

\* Bug: rolling back forgets the outgoing session in the map.
Unretain_Forgotten == background

\* The map after a rollback has taken the outgoing session out again.
Unretain == IF retained = NoRuntime THEN background
            ELSE [background EXCEPT ![retained.file] = NoRuntime]

\* Bug: the clean-up trusts the runtime it was scheduled for.
StillRetained_Unchecked(rt) == TRUE

\* disposeBackgroundRuntime acts only on the runtime that is in the map.
StillRetained(rt) == background[rt.file] = rt

\* Bug: the clean-up gives up when it does not get the lock at once.
RequestGraph_Try(rt) ==
    /\ IF graphLock = "free" THEN graphLock' = "settle" /\ cleaning' = rt
       ELSE UNCHANGED <<graphLock, cleaning>>
    /\ UNCHANGED lockQueue

\* TryMutex.acquireUnbounded by a clean-up.
RequestGraph(rt) ==
    IF graphLock = "free"
    THEN /\ graphLock' = "settle" /\ cleaning' = rt
         /\ UNCHANGED lockQueue
    ELSE /\ lockQueue' = Append(lockQueue, rt)
         /\ UNCHANGED <<graphLock, cleaning>>

\* getSessionRuntimeInfo finds the foreground or a background runtime.
HasRuntime(f) == f \in {identity.file, snapshot.file} \/ Background(f)

\* Bug: the foreground's file is not excluded.
Admitted_Foreground(what, f) ==
    what = "delete" => (Background(f) => ~Busy(background[f].session))

\* Bug: a background runtime's file is moved when the runtime is idle.
Admitted_IdleMoved(what, f) ==
    /\ what \in {"delete", "archive"} =>
          f # snapshot.file /\ (Background(f) => ~Busy(background[f].session))
    /\ what = "restore" => f \notin disk
    /\ what = "rename" => IF f = snapshot.file THEN ~Busy(active)
                           ELSE ~HasRuntime(f)

\* session.delete disposes of an idle runtime of the file, archive and rename
\* refuse it; only rename accepts the foreground's file, when it is idle.
Admitted(what, f) ==
    /\ what = "delete" =>
          f # snapshot.file /\ (Background(f) => ~Busy(background[f].session))
    /\ what = "archive" => ~HasRuntime(f) /\ f \notin archive
    /\ what = "restore" => f \notin disk
    /\ what = "rename" => IF f = snapshot.file THEN ~Busy(active)
                           ELSE ~HasRuntime(f)

-----------------------------------------------------------------------------
(***************************************************************************)
(* The workspace opens with one idle foreground session: a new one, not    *)
(* yet on disk, or the one it restores from a session file.                *)
(***************************************************************************)
Init ==
    \E s \in Sessions, f \in Files, saved \in SUBSET Files :
        /\ built = [t \in Sessions |-> IF t = s THEN "live" ELSE "unbuilt"]
        /\ fileOf = [t \in Sessions |-> f]
        /\ activity = [t \in Sessions |-> "none"]
        /\ used = IF f \in saved THEN {s} ELSE {}
        /\ disk = saved /\ archive = {}
        /\ fresh = Files \ (saved \cup {f})
        /\ active = s
        /\ identity = [file |-> f, rev |-> 1]
        /\ snapshot = [of |-> s, file |-> f, rev |-> 1]
        /\ published = [of |-> s, file |-> f, rev |-> 1]
        /\ background = [g \in Files |-> NoRuntime]
        /\ retentions = [t \in Sessions |-> 0]
        /\ stage = "none" /\ kind = "open" /\ candidate = NoSession
        /\ prev = [session |-> s, file |-> f, rev |-> 1,
                   snapshot |-> [of |-> s, file |-> f, rev |-> 1]]
        /\ retained = NoRuntime
        /\ graphLock = "free" /\ lockQueue = <<>> /\ cleaning = NoRuntime
        /\ disposing = FALSE /\ timers = {}
        /\ fileOp = [what |-> "delete", file |-> f, step |-> "none"]

-----------------------------------------------------------------------------
(* Session transactions: create, open, reload, promote. *)

\* createSession without a name finds the foreground session idle and empty and
\* reuses it, in one turn of the event loop.
Pristine == activity[active] # "running" /\ active \notin used

CreateReuse ==
    /\ graphLock = "free"
    /\ Pristine
    /\ snapshot' = Project(active)
    /\ UNCHANGED <<sessionVars, active, identity, published, background,
                   retentions, opVars, lockVars>>

\* createSession up to its first await; it captures the outgoing state here.
\* (A named one does not look for a pristine session.)
CreateBegin(s, f) ==
    /\ AcquireGraph("switch")
    /\ built[s] = "unbuilt" /\ f \in fresh
    /\ ~WouldExceedLiveLimit /\ identity.rev < MaxRev
    /\ stage' = "building" /\ kind' = "create" /\ candidate' = s
    /\ prev' = Captured
    /\ fresh' = fresh \ {f}
    /\ fileOf' = [fileOf EXCEPT ![s] = f]
    /\ UNCHANGED <<built, activity, used, disk, archive, graphVars, retained,
                   lockQueue, cleaning, disposing, timers, fileOp>>

\* openSession of a listed file that is neither current nor retained.
OpenBegin(s, f) ==
    /\ AcquireGraph("switch")
    /\ built[s] = "unbuilt" /\ MayBuild(f)
    /\ ~WouldExceedLiveLimit /\ identity.rev < MaxRev
    /\ stage' = "building" /\ kind' = "open" /\ candidate' = s
    /\ fileOf' = [fileOf EXCEPT ![s] = f]
    /\ UNCHANGED <<built, activity, used, disk, archive, fresh, graphVars,
                   prev, retained, lockQueue, cleaning, disposing, timers,
                   fileOp>>

\* openSession with forceReload: only the idle foreground session.
ReloadBegin(s) ==
    /\ AcquireGraph("switch")
    /\ built[s] = "unbuilt" /\ snapshot.file \in disk
    /\ ~Background(snapshot.file) /\ ~Busy(active)
    /\ ~WouldExceedLiveLimit /\ identity.rev < MaxRev
    /\ stage' = "building" /\ kind' = "reload" /\ candidate' = s
    /\ fileOf' = [fileOf EXCEPT ![s] = snapshot.file]
    /\ UNCHANGED <<built, activity, used, disk, archive, fresh, graphVars,
                   prev, retained, lockQueue, cleaning, disposing, timers,
                   fileOp>>

\* createHostAgentSession returns the candidate, or something before it throws.
BuildOk ==
    /\ stage = "building"
    /\ stage' = "binding"
    /\ built' = [built EXCEPT ![candidate] = "live"]
    /\ used' = IF fileOf[candidate] \in disk THEN used \cup {candidate}
               ELSE used
    /\ UNCHANGED <<fileOf, activity, disk, archive, fresh, graphVars, kind,
                   candidate, prev, retained, lockVars>>

BuildFail ==
    /\ stage = "building"
    /\ FinishOp
    /\ UNCHANGED <<sessionVars, graphVars, kind, prev, disposing, timers,
                   fileOp>>

\* The extension bind throws or the operation was aborted: discard the candidate.
BindFail ==
    /\ stage = "binding"
    /\ stage' = "discarding"
    /\ built' = [built EXCEPT ![candidate] = "disposed"]
    /\ UNCHANGED <<fileOf, activity, used, disk, archive, fresh, graphVars,
                   kind, candidate, prev, retained, lockVars>>

DiscardDone ==
    /\ stage = "discarding"
    /\ FinishOp
    /\ UNCHANGED <<sessionVars, graphVars, kind, prev, disposing, timers,
                   fileOp>>

\* Retain a busy outgoing session and commit the candidate, in one turn of
\* the event loop; openSession captures the outgoing state only now.
Commit ==
    LET outgoing == IF kind = "create" THEN prev ELSE Captured
        rev == identity.rev + 1
        f == fileOf[candidate]
    IN  /\ stage = "binding"
        /\ stage' = "activating"
        /\ prev' = outgoing
        /\ RetainBusy(outgoing, background)
        /\ CommitActive(candidate, f, rev,
                        [of |-> candidate, file |-> f, rev |-> rev])
        /\ UNCHANGED <<sessionVars, published, kind, candidate, lockVars>>

\* Extension activation succeeds: the candidate is published.
ActivateOk ==
    /\ stage = "activating"
    /\ stage' = "published"
    /\ published' = [of |-> candidate, file |-> identity.file,
                     rev |-> identity.rev]
    /\ UNCHANGED <<sessionVars, active, identity, snapshot, background,
                   retentions, kind, candidate, prev, retained, lockVars>>

\* Activation fails: un-retain the outgoing session, dispose of the candidate.
ActivateFail ==
    /\ stage = "activating"
    /\ stage' = "rollback"
    /\ background' = Unretain
    /\ built' = [built EXCEPT ![candidate] = "disposed"]
    /\ UNCHANGED <<fileOf, activity, used, disk, archive, fresh, active,
                   identity, snapshot, published, retentions, kind, candidate,
                   prev, retained, lockVars>>

\* The candidate is gone: the captured state becomes the foreground again.
RollbackDone ==
    /\ stage = "rollback"
    /\ CommitActive(prev.session, prev.file, prev.rev, prev.snapshot)
    /\ FinishOp
    /\ UNCHANGED <<sessionVars, published, background, retentions, kind, prev,
                   disposing, timers, fileOp>>

\* Past the drafts clean-up: dispose of the replaced session unless retained.
RetirePrev ==
    /\ stage = "published" /\ retained = NoRuntime
    /\ stage' = "retiring"
    /\ built' = [built EXCEPT ![prev.session] = "disposed"]
    /\ UNCHANGED <<fileOf, activity, used, disk, archive, fresh, graphVars,
                   kind, candidate, prev, retained, lockVars>>

SwitchDone ==
    /\ \/ stage = "retiring"
       \/ stage = "published" /\ retained # NoRuntime
    /\ FinishOp
    /\ UNCHANGED <<sessionVars, graphVars, kind, prev, disposing, timers,
                   fileOp>>

(***************************************************************************)
(* promoteBackgroundRuntime.  Everything up to the disposal of an idle     *)
(* outgoing session is one turn of the event loop; the snapshot is         *)
(* published after that disposal.                                          *)
(***************************************************************************)
OpenPromote(f) ==
    LET runtime == background[f]
        rev == identity.rev + 1
    IN  /\ AcquireGraph("switch")
        /\ Background(f) /\ f # snapshot.file
        /\ identity.rev < MaxRev
        /\ stage' = "promoting" /\ kind' = "open"
        /\ candidate' = runtime.session
        /\ prev' = Captured
        /\ RetainBusy(Captured, [background EXCEPT ![f] = NoRuntime])
        /\ CommitActive(runtime.session, f, rev,
                        [of |-> runtime.session, file |-> f, rev |-> rev])
        /\ built' = IF Busy(active) THEN built
                    ELSE [built EXCEPT ![active] = "disposed"]
        /\ UNCHANGED <<fileOf, activity, used, disk, archive, fresh, published,
                       lockQueue, cleaning, disposing, timers, fileOp>>

PromoteDone ==
    /\ stage = "promoting"
    /\ published' = [of |-> candidate, file |-> identity.file,
                     rev |-> identity.rev]
    /\ FinishOp
    /\ UNCHANGED <<sessionVars, active, identity, snapshot, background,
                   retentions, kind, prev, disposing, timers, fileOp>>

-----------------------------------------------------------------------------
(* Work on sessions, under their operation locks. *)

Hold(s, from, to) ==
    /\ activity[s] = from
    /\ activity' = [activity EXCEPT ![s] = to]

\* agent.prompt, agent.compact and agent.navigateTree take the operation lock
\* of the foreground session, only while nobody holds the graph lock.
StartWork(what) ==
    /\ graphLock = "free"
    /\ Hold(active, "none", what)
    /\ UNCHANGED <<built, fileOf, used, disk, archive, fresh, graphVars,
                   opVars, lockVars>>

PromptAccept == StartWork("preflight")
CompactStart == StartWork("compacting")
NavigateStart == StartWork("navigating")

\* The credential or attachment check refuses the prompt: lock released.
PreflightFail(s) ==
    /\ Hold(s, "preflight", "none")
    /\ UNCHANGED <<built, fileOf, used, disk, archive, fresh, graphVars,
                   opVars, lockVars>>

\* startDetachedPrompt: a turn, which persists the session, ...
TurnStart(s) ==
    /\ Hold(s, "preflight", "running")
    /\ used' = used \cup {s}
    /\ disk' = disk \cup {fileOf[s]}
    /\ UNCHANGED <<built, fileOf, archive, fresh, graphVars, opVars, lockVars>>

\* ... or an extension command.
CommandStart(s) ==
    /\ Hold(s, "preflight", "command")
    /\ UNCHANGED <<built, fileOf, used, disk, archive, fresh, graphVars,
                   opVars, lockVars>>

\* A background session schedules the clean-up of the runtime that holds it.
ScheduleCleanup(s) ==
    timers' = timers \cup {background[f] : f \in
                 {g \in Files : Background(g) /\ background[g].session = s}}

\* agent_settled: the foreground snapshot is rebuilt and published under the
\* identity it already carries; a background runtime schedules its clean-up; a
\* session that is neither (its switch is rolling back) is ignored.
TurnSettle(s) ==
    /\ Hold(s, "running", "none")
    /\ ScheduleCleanup(s)
    /\ IF s = active
       THEN /\ snapshot' = [snapshot EXCEPT !.of = s]
            /\ published' = [snapshot EXCEPT !.of = s]
       ELSE UNCHANGED <<snapshot, published>>
    /\ UNCHANGED <<built, fileOf, used, disk, archive, fresh, active, identity,
                   background, retentions, opVars, graphLock, lockQueue,
                   cleaning, disposing, fileOp>>

\* The extension command returns; in the background the runtime is cleaned up.
CommandEnd(s) ==
    /\ Hold(s, "command", "none")
    /\ ScheduleCleanup(s)
    /\ UNCHANGED <<built, fileOf, used, disk, archive, fresh, graphVars,
                   opVars, graphLock, lockQueue, cleaning, disposing, fileOp>>

\* agent.compact returns: projectPinnedSessionSnapshot writes the snapshot of
\* whichever holder the session has now, and a background one is cleaned up
\* (at once, which is the case of a timer that fires before anything else).
CompactDone(s) ==
    /\ Hold(s, "compacting", "none")
    /\ ScheduleCleanup(s)
    /\ snapshot' = IF s = active THEN Project(s) ELSE snapshot
    /\ UNCHANGED <<built, fileOf, used, disk, archive, fresh, active, identity,
                   published, background, retentions, opVars, graphLock,
                   lockQueue, cleaning, disposing, fileOp>>

\* agent.compact throws: only the finally block runs.
CompactFail(s) ==
    /\ Hold(s, "compacting", "none")
    /\ UNCHANGED <<built, fileOf, used, disk, archive, fresh, graphVars,
                   opVars, lockVars>>

\* agent.navigateTree returns: it reads the graph again and projects whatever
\* session is in the foreground by then.
NavigateDone(s) ==
    /\ Hold(s, "navigating", "none")
    /\ snapshot' = Project(active)
    /\ UNCHANGED <<built, fileOf, used, disk, archive, fresh, active, identity,
                   published, background, retentions, opVars, lockVars>>

\* The extension command's ctx.navigateTree: the foreground check is made ...
CommandNavigate(s) ==
    /\ s = active
    /\ Hold(s, "command", "commandNavigating")
    /\ UNCHANGED <<built, fileOf, used, disk, archive, fresh, graphVars,
                   opVars, lockVars>>

\* ... before the await; after it, the session is projected and published under
\* the identity the Host has by then.
CommandNavigateDone(s) ==
    /\ Hold(s, "commandNavigating", "command")
    /\ snapshot' = Project(s)
    /\ published' = Project(s)
    /\ UNCHANGED <<built, fileOf, used, disk, archive, fresh, active, identity,
                   background, retentions, opVars, lockVars>>

-----------------------------------------------------------------------------
(* Clean-up of settled background runtimes: disposeSettledBackgroundRuntime. *)

\* The timer fires: an idle runtime asks for the graph lock without a deadline.
SettleTimer(rt) ==
    /\ rt \in timers
    /\ timers' = timers \ {rt}
    /\ IF Busy(rt.session) THEN UNCHANGED <<graphLock, lockQueue, cleaning>>
       ELSE RequestGraph(rt)
    /\ UNCHANGED <<sessionVars, graphVars, opVars, disposing, fileOp>>

\* Lock obtained, but the runtime is busy or no longer the one in the map.
SettleSkip ==
    /\ graphLock = "settle" /\ ~disposing
    /\ Busy(cleaning.session) \/ ~StillRetained(cleaning)
    /\ ReleaseGraph
    /\ UNCHANGED <<sessionVars, graphVars, opVars, disposing, timers, fileOp>>

SettleDispose ==
    /\ graphLock = "settle" /\ ~disposing
    /\ ~Busy(cleaning.session) /\ StillRetained(cleaning)
    /\ background' = [background EXCEPT ![cleaning.file] = NoRuntime]
    /\ built' = [built EXCEPT ![cleaning.session] = "disposed"]
    /\ disposing' = TRUE
    /\ UNCHANGED <<fileOf, activity, used, disk, archive, fresh, active,
                   identity, snapshot, published, retentions, opVars,
                   graphLock, lockQueue, cleaning, timers, fileOp>>

SettleDone ==
    /\ graphLock = "settle" /\ disposing
    /\ disposing' = FALSE
    /\ ReleaseGraph
    /\ UNCHANGED <<sessionVars, graphVars, opVars, timers, fileOp>>

-----------------------------------------------------------------------------
(***************************************************************************)
(* session.delete, archive, restore, rename and cleanupArchived, under the *)
(* graph lock (withSessionFileMutation): the files are listed, the         *)
(* mutation is admitted or refused, and after another await the file is    *)
(* changed.                                                                *)
(***************************************************************************)
FileOpBegin(what, f) ==
    /\ AcquireGraph("file")
    /\ IF what = "restore" THEN f \in archive
       ELSE f \in disk \/ (what # "archive" /\ f \in archive)
    /\ fileOp' = [what |-> what, file |-> f, step |-> "listing"]
    /\ UNCHANGED <<sessionVars, graphVars, opVars, lockQueue, cleaning,
                   disposing, timers>>

\* The mutation returns (what an ended one was about means nothing).
EndFileOp ==
    /\ fileOp' = [what |-> "delete", file |-> identity.file, step |-> "none"]
    /\ ReleaseGraph
    /\ UNCHANGED <<opVars, disposing, timers>>

FileOpRefuse ==
    /\ graphLock = "file" /\ fileOp.step = "listing"
    /\ ~Admitted(fileOp.what, fileOp.file)
    /\ EndFileOp
    /\ UNCHANGED <<sessionVars, graphVars>>

\* session.delete first disposes of an idle background runtime.
FileOpAdmit ==
    LET f == fileOp.file
        dispose == fileOp.what = "delete" /\ Background(f)
    IN  /\ graphLock = "file" /\ fileOp.step = "listing"
        /\ Admitted(fileOp.what, f)
        /\ background' = IF dispose THEN [background EXCEPT ![f] = NoRuntime]
                         ELSE background
        /\ built' = IF dispose
                    THEN [built EXCEPT ![background[f].session] = "disposed"]
                    ELSE built
        /\ fileOp' = [fileOp EXCEPT !.step = "moving"]
        /\ UNCHANGED <<fileOf, activity, used, disk, archive, fresh, active,
                       identity, snapshot, published, retentions, opVars,
                       graphLock, lockQueue, cleaning, disposing, timers>>

\* The unlink, the move, or the name appended to a file nobody has open.
FileOpDone ==
    LET f == fileOp.file
        what == fileOp.what
    IN  /\ graphLock = "file" /\ fileOp.step = "moving"
        /\ what = "rename" => f # snapshot.file
        /\ disk' = CASE what \in {"delete", "archive"} -> disk \ {f}
                     [] what = "restore" -> disk \cup {f}
                     [] OTHER -> disk
        /\ archive' = CASE what \in {"delete", "restore"} -> archive \ {f}
                        [] what = "archive" -> archive \cup {f}
                        [] OTHER -> archive
        /\ EndFileOp
        /\ UNCHANGED <<built, fileOf, activity, used, fresh, graphVars>>

\* setSessionRuntimeName: the foreground's snapshot is rebuilt and published.
SetActiveName ==
    /\ snapshot' = Project(active)
    /\ published' = Project(active)
    /\ UNCHANGED <<sessionVars, active, identity, background, retentions>>

RenameActive ==
    /\ graphLock = "file" /\ fileOp.step = "moving"
    /\ fileOp.what = "rename" /\ fileOp.file = snapshot.file
    /\ SetActiveName
    /\ EndFileOp

\* The file system refuses, or the conversation is not the one a title was
\* generated for.
FileOpFail ==
    /\ graphLock = "file" /\ fileOp.step = "moving"
    /\ EndFileOp
    /\ UNCHANGED <<sessionVars, graphVars>>

\* session.cleanupArchived unlinks what it finds in the archive directory, ...
CleanupBegin ==
    /\ AcquireGraph("file")
    /\ fileOp' = [what |-> "cleanup", file |-> identity.file,
                  step |-> "sweeping"]
    /\ UNCHANGED <<sessionVars, graphVars, opVars, lockQueue, cleaning,
                   disposing, timers>>

\* ... save the files that the system refuses to unlink.
CleanupSweep ==
    /\ graphLock = "file" /\ fileOp.step = "sweeping"
    /\ archive' \in SUBSET archive
    /\ EndFileOp
    /\ UNCHANGED <<built, fileOf, activity, used, disk, fresh, graphVars>>

\* session.setName takes the lock and releases it in one turn.
SetName ==
    /\ graphLock = "free" /\ ~Busy(active)
    /\ SetActiveName
    /\ UNCHANGED <<opVars, lockVars>>

\* prepareForkFile: the foreground's saved conversation is copied to a new file,
\* which openSession is asked to open next.  The idle check of session.fork is
\* before an await and the extension's fork makes none, so none is made here.
ForkFile(f) ==
    /\ f \in fresh /\ fileOf[active] \in disk
    /\ disk' = disk \cup {f}
    /\ fresh' = fresh \ {f}
    /\ UNCHANGED <<built, fileOf, activity, used, archive, graphVars, opVars,
                   lockVars>>

-----------------------------------------------------------------------------
\* The steps a transaction that owns the graph lock takes by itself.
SwitchStep ==
    \/ BuildOk \/ BuildFail \/ BindFail \/ DiscardDone \/ Commit
    \/ ActivateOk \/ ActivateFail \/ RollbackDone \/ RetirePrev
    \/ SwitchDone \/ PromoteDone

UserSwitch ==
    \/ CreateReuse
    \/ \E s \in Sessions, f \in Files : CreateBegin(s, f) \/ OpenBegin(s, f)
    \/ \E s \in Sessions : ReloadBegin(s)
    \/ \E f \in Files : OpenPromote(f) \/ ForkFile(f)
    \/ SetName \/ CleanupBegin
    \/ \E what \in FileOp \ {"cleanup"}, f \in Files : FileOpBegin(what, f)

Work ==
    \/ PromptAccept \/ CompactStart \/ NavigateStart
    \/ \E s \in Sessions :
          \/ PreflightFail(s) \/ TurnStart(s) \/ CommandStart(s)
          \/ TurnSettle(s) \/ CommandEnd(s)
          \/ CompactDone(s) \/ CompactFail(s) \/ NavigateDone(s)
          \/ CommandNavigate(s) \/ CommandNavigateDone(s)

CleanupStep == SettleSkip \/ SettleDispose \/ SettleDone
FileOpStep ==
    \/ FileOpRefuse \/ FileOpAdmit \/ FileOpDone \/ RenameActive
    \/ FileOpFail \/ CleanupSweep

Next ==
    \/ UserSwitch \/ SwitchStep \/ Work \/ CleanupStep \/ FileOpStep
    \/ \E rt \in timers : SettleTimer(rt)

Spec == Init /\ [][Next]_vars

(***************************************************************************)
(* Every await of an operation that owns the graph lock ends: disposal     *)
(* hooks and aborts run under a deadline (runDisposalStep), the SDK and    *)
(* the extensions a candidate activates are assumed to return or throw.    *)
(* Timers fire.  Users, turns and commands promise nothing.                *)
(***************************************************************************)
Fairness ==
    /\ WF_vars(SwitchStep) /\ WF_vars(CleanupStep) /\ WF_vars(FileOpStep)
    /\ \A s \in Sessions :
          WF_vars(\E rt \in timers : rt.session = s /\ SettleTimer(rt))

FairSpec == Spec /\ Fairness

-----------------------------------------------------------------------------
(* Properties *)

\* Every variable has its shape; the captured and projected records are whole.
TypeOK ==
    /\ built \in [Sessions -> {"unbuilt", "live", "disposed"}]
    /\ fileOf \in [Sessions -> Files]
    /\ activity \in [Sessions -> Activity]
    /\ used \subseteq Sessions
    /\ disk \subseteq Files /\ archive \subseteq Files /\ fresh \subseteq Files
    /\ active \in Sessions
    /\ identity \in [file : Files, rev : Nat]
    /\ snapshot \in Snapshot /\ published \in Snapshot
    /\ background \in [Files -> Runtime \cup {NoRuntime}]
    /\ retentions \in [Sessions -> Nat]
    /\ stage \in Stage /\ kind \in {"create", "open", "reload"}
    /\ candidate \in Sessions \cup {NoSession}
    /\ prev \in [session : Sessions, file : Files, rev : Nat,
                 snapshot : Snapshot]
    /\ retained \in Runtime \cup {NoRuntime}
    /\ graphLock \in {"free", "switch", "settle", "file"}
    /\ lockQueue \in Seq(Runtime)
    /\ cleaning \in Runtime \cup {NoRuntime}
    /\ disposing \in BOOLEAN
    /\ timers \subseteq Runtime
    /\ fileOp \in [what : FileOp, file : Files, step : FileStep]

Live(s) == built[s] = "live"

\* The foreground session and every retained runtime are usable: no clean-up,
\* roll-back or deletion has disposed of a session the Host still serves.  The
\* only disposed foreground is the failed candidate that a roll-back is about
\* to replace, while the graph lock keeps everyone else away.
RuntimesLive ==
    /\ Live(active) \/ (stage = "rollback" /\ active = candidate)
    /\ \A f \in Files : Background(f) =>
          /\ Live(background[f].session)
          /\ background[f].session # active
          /\ background[f].file = f /\ fileOf[background[f].session] = f

\* Two live sessions never append to one session file, except while a reload
\* holds both the new session and the one it replaces.
OneWriterPerFile ==
    \A s, t \in Sessions :
        Live(s) /\ Live(t) /\ s # t /\ fileOf[s] = fileOf[t]
        => kind = "reload" /\ stage # "none" /\ candidate \in {s, t}

\* No live session is lost: each one is in the foreground, in the map, the
\* candidate of a transaction, or the outgoing session it may still restore.
NoOrphan ==
    \A s \in Sessions : Live(s) =>
        \/ s = active \/ InBackground(s)
        \/ stage \in {"binding", "activating"} /\ s = candidate
        \/ stage \in {"activating", "rollback", "published"} /\ s = prev.session

\* At most MaxLive sessions stay alive; a transaction adds one for its duration.
LiveLimit ==
    Cardinality({s \in Sessions : Live(s)})
        <= MaxLive + (IF stage = "none" THEN 0 ELSE 1)

\* A session with a transcript never outlives its file: it is not unlinked, nor
\* moved to the archive, nor rewritten by a rename, while a live session appends
\* to it; only the foreground is renamed alive, through the session itself.  And
\* a file is in one of the two directories only.
LiveFilesExist ==
    /\ \A s \in used : Live(s) => fileOf[s] \in disk
    /\ fileOp.step = "moving" =>
          \A s \in Sessions : Live(s) /\ fileOf[s] = fileOp.file =>
              fileOp.what = "rename" /\ s = active /\ ~Busy(s)
    /\ disk \cap archive = {}
    /\ \A s \in Sessions : Live(s) => fileOf[s] \notin archive

\* Between transactions the foreground snapshot carries the Host's identity,
\* and that identity is the foreground session's, even after a roll-back.
SnapshotNamesActive ==
    stage = "none" =>
        /\ snapshot.file = identity.file /\ snapshot.rev = identity.rev
        /\ fileOf[active] = identity.file

\* No step disposes of a session whose operation lock is held.
BusyKept ==
    [][\A s \in Sessions : Live(s) /\ built'[s] = "disposed"
                               => activity[s] = "none"]_vars

\* A background runtime that settled is disposed of or promoted in the end.
SettledReleased ==
    \A f \in Files :
        (Background(f) /\ background[f] \in timers) ~> ~Background(f)

\* chat-runtime.md, "idle Sessions are disposed": a background session that is
\* not busy leaves the background.
IdleBackgroundReleased ==
    \A f \in Files :
        (Background(f) /\ ~Busy(background[f].session)) ~> ~Background(f)

\* extension-command-actions.ts, "navigating a retained/background session
\* through it would mix the two": between transactions the foreground snapshot
\* shows the content of the foreground session.
SnapshotShowsActive == stage = "none" => snapshot.of = active
=============================================================================
