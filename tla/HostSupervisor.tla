--------------------------- MODULE HostSupervisor ---------------------------
(***************************************************************************)
(* How the desktop's native shell runs the Pi Host (pi_host.rs, lib.rs).   *)
(*                                                                         *)
(* One manager behind one mutex starts, stops and reaps the Host; a        *)
(* monitor task per Host reads its output without the mutex and may ask    *)
(* for one automatic restart; commands of the user, automatic restarts and *)
(* the app's exit wait for the mutex, and a start gives it up while it     *)
(* waits for host.ready.  On Unix a Host leads a process group: its number *)
(* may be signalled only until the leader is reaped.                       *)
(***************************************************************************)
EXTENDS Integers, Sequences

CONSTANTS
    AutoRestartOnce,    \* the setting autoRestartHostOnce
    MaxManual           \* bound: restarts the user asks for

ASSUME SupervisorAssumption ==
    AutoRestartOnce \in BOOLEAN /\ MaxManual \in Nat

VARIABLES
    procs,      \* the Hosts ever spawned, in order, see NewProc
    mgr,        \* PiHostManager: [child, current, shutting, spent]
    calls,      \* who waits for the mutex: [manual, auto, exit], and manual calls ever made
    job,        \* what the holder of the mutex does: [kind, step]
    app,        \* "up" or "gone"
    ghost       \* [allowed, crashed, told], for the properties only

hsVars == <<procs, mgr, calls, job, app, ghost>>

(***************************************************************************)
(* A child's generation is the number of its process: mgr.current is the   *)
(* process whose generation is the latest, 0 when the counter has moved    *)
(* on.  restart_count and auto_restart_armed change together: spent.       *)
(* ghost: the automatic restarts that may be made until the user's next    *)
(* restart - one, and those asked for before his last that waited then;    *)
(* whether the last Host was lost; whether an error is shown.              *)
(***************************************************************************)

\* leader and kin are the group, cleanup the right to signal it, start the
\* call of start_unlocked that spawned the Host and waits for host.ready.
NewProc == [leader |-> "running", kin |-> TRUE, cleanup |-> "unclaimed",
            monitor |-> "reading", start |-> "waiting"]

NoJob == [kind |-> "none", step |-> "free"]
Free == job = NoJob

\* What is sent on the oneshot of a start reaches it while it waits.
Answer(h, outcome) == IF h.start = "waiting" THEN [h EXCEPT !.start = outcome] ELSE h

\* The sender goes with the monitor: the start finds its channel closed.
Ended(h) == [Answer(h, "failed") EXCEPT !.monitor = "ended"]

\* The final signal has been sent to the group, and that is published.
Signalled(h) == [h EXCEPT !.leader = IF @ = "running" THEN "exited" ELSE @,
                          !.kin = FALSE, !.cleanup = "signaled"]

\* Bug: a claim of the group is enough for a reaper.
MayReap_Claimed(h) == h.cleanup # "unclaimed"

MayReap(h) == h.cleanup = "signaled"

Reaped(h) == [h EXCEPT !.leader = "reaped"]

\* Bug: a child found dead retires its monitor.
Forget_Retired(m) == [m EXCEPT !.child = 0, !.current = 0]

\* Bug: a child that was reaped is kept.
Forget_Kept(m) == m

Forget(m) == [m EXCEPT !.child = 0]

-----------------------------------------------------------------------------
(* The Host, its output and its monitor. *)

\* Bug: whether the child is being stopped is not asked.
Unexpected_Any(p) == TRUE

\* The generation is current and nobody is stopping the child.
Unexpected(p) == mgr.current = p /\ ~mgr.shutting

Lost(p) == ghost' = [ghost EXCEPT !.crashed = @ \/ (mgr.current = p /\ ~mgr.shutting)]

\* A line, host.ready among them: a monitor of an older generation stops here.
HostSpeaks(p) ==
    /\ procs[p].leader = "running" /\ procs[p].monitor = "reading"
    /\ procs' = [procs EXCEPT ![p] =
                    IF mgr.current = p THEN Answer(@, "ready") ELSE Ended(@)]
    /\ UNCHANGED <<mgr, calls, job, app, ghost>>

HostDies(p) ==
    /\ procs[p].leader = "running"
    /\ procs' = [procs EXCEPT ![p].leader = "exited"]
    /\ Lost(p)
    /\ UNCHANGED <<mgr, calls, job, app>>

\* What follows the loop of the monitor.
LeaveLoop(p) ==
    procs' = [procs EXCEPT ![p] =
                 IF Unexpected(p) THEN [@ EXCEPT !.monitor = "checked"] ELSE Ended(@)]

\* The Host's output ends with it.
MonitorEof(p) ==
    /\ procs[p].monitor = "reading" /\ procs[p].leader # "running"
    /\ LeaveLoop(p)
    /\ UNCHANGED <<mgr, calls, job, app, ghost>>

\* The pipe cannot be read although the Host runs.
ReadFails(p) ==
    /\ procs[p].monitor = "reading" /\ procs[p].leader = "running"
    /\ LeaveLoop(p)
    /\ Lost(p)
    /\ UNCHANGED <<mgr, calls, job, app>>

MonitorClaim(p) ==
    /\ procs[p].monitor = "checked"
    /\ procs' = [procs EXCEPT ![p] =
          IF @.cleanup = "unclaimed"
          THEN [@ EXCEPT !.cleanup = "claimed", !.monitor = "killing"]
          ELSE [@ EXCEPT !.monitor = "reporting"]]
    /\ UNCHANGED <<mgr, calls, job, app, ghost>>

MonitorKill(p) ==
    /\ procs[p].monitor = "killing"
    /\ procs' = [procs EXCEPT ![p] = [Signalled(@) EXCEPT !.monitor = "reporting"]]
    /\ UNCHANGED <<mgr, calls, job, app, ghost>>

\* Bug: the restart already made in this epoch is not counted.
MayRestart_Again == AutoRestartOnce

MayRestart == AutoRestartOnce /\ ~mgr.spent

\* The start that waits is told, on_unexpected_exit spends the budget, host.fatal
\* and perhaps pi-host-auto-restart are emitted: a task of lib.rs queues for it.
MonitorReport(p) ==
    /\ procs[p].monitor = "reporting"
    /\ procs' = [procs EXCEPT ![p] = Ended(@)]
    /\ IF MayRestart
       THEN /\ mgr' = [mgr EXCEPT !.spent = TRUE]
            /\ calls' = [calls EXCEPT !.auto = @ + 1]
            /\ UNCHANGED ghost
       ELSE /\ ghost' = [ghost EXCEPT !.told = TRUE]
            /\ UNCHANGED <<mgr, calls>>
    /\ UNCHANGED <<job, app>>

-----------------------------------------------------------------------------
(* The calls that wait for the manager. *)

\* pi_host_restart.
RequestRestart ==
    /\ calls.ever < MaxManual
    /\ calls' = [calls EXCEPT !.manual = @ + 1, !.ever = @ + 1]
    /\ UNCHANGED <<procs, mgr, job, app, ghost>>

\* RunEvent::Exit.
RequestExit ==
    /\ calls.exit = 0 /\ job.kind # "exit"
    /\ calls' = [calls EXCEPT !.exit = 1]
    /\ UNCHANGED <<procs, mgr, job, app, ghost>>

\* The mutex is had: begin_manual_restart, begin_auto_restart_after_crash,
\* shutdown_for_app_exit.  An automatic restart does not ask whether the Host it
\* was asked for is still the one that runs.
Acquire(kind) ==
    /\ Free /\ calls[kind] > 0
    /\ calls' = [calls EXCEPT ![kind] = @ - 1]
    /\ job' = [kind |-> kind, step |-> "retire"]
    /\ ghost' = [ghost EXCEPT !.allowed = IF kind = "auto" THEN @ - 1 ELSE @]
    /\ UNCHANGED <<procs, mgr, app>>

\* wait_ready gives up.
StartTimeout(p) ==
    /\ procs[p].start = "waiting"
    /\ procs' = [procs EXCEPT ![p] = Answer(@, "failed")]
    /\ UNCHANGED <<mgr, calls, job, app, ghost>>

\* Bug: a start that was overtaken commits all the same.
Superseded_Never(p) == FALSE

Superseded(p) == mgr.current # p

\* complete_start: a start that failed cleans up after itself.
Complete(p) ==
    /\ Free /\ procs[p].start \in {"ready", "failed"}
    /\ IF procs[p].start = "ready" \/ Superseded(p)
       THEN procs' = [procs EXCEPT ![p].start = "over"] /\ UNCHANGED job
       ELSE /\ procs' = [procs EXCEPT ![p].start = "undone"]
            /\ job' = [kind |-> "failed", step |-> "retire"]
    /\ UNCHANGED <<mgr, calls, app, ghost>>

\* A dead child is reaped; the group goes first, unless somebody is at it.
ReapDead ==
    LET c == mgr.child
    IN  /\ c # 0 /\ procs[c].leader = "exited" /\ procs[c].cleanup # "claimed"
        /\ procs' = [procs EXCEPT ![c] = Reaped(Signalled(@))]
        /\ mgr' = Forget(mgr)

\* pi_host_send and pi_host_status: send_line and is_running look at the child.
Probe ==
    /\ Free /\ ReapDead
    /\ UNCHANGED <<calls, job, app, ghost>>

-----------------------------------------------------------------------------
(* What the holder of the mutex does: shutdown_with_grace (manual, exit) or *)
(* cleanup_dead_child (auto, failed), then begin_start.                     *)

Step(s) == job' = [job EXCEPT !.step = s]

\* From here the monitor is retired.
JobRetire ==
    /\ job.step = "retire"
    /\ mgr' = [mgr EXCEPT !.shutting = TRUE, !.current = 0]
    /\ Step(IF job.kind \in {"manual", "exit"} THEN "farewell" ELSE "claim")
    /\ UNCHANGED <<procs, calls, app, ghost>>

\* send_line of system.shutdown, unless stdin was given up before.
JobFarewell ==
    /\ job.step = "farewell"
    /\ Step("claim")
    /\ ReapDead \/ UNCHANGED <<procs, mgr>>
    /\ UNCHANGED <<calls, app, ghost>>

\* claim_cleanup; its holder may signal the group until it publishes the end.
JobClaim ==
    LET c == mgr.child
    IN  /\ job.step = "claim"
        /\ IF c # 0 /\ procs[c].cleanup = "unclaimed"
           THEN /\ procs' = [procs EXCEPT ![c].cleanup = "claimed"]
                /\ Step("terminate")
           ELSE Step(IF c = 0 THEN "join" ELSE "reap") /\ UNCHANGED procs
        /\ UNCHANGED <<mgr, calls, app, ghost>>

\* The grace for the request is over, or the child has gone.
JobTerminate ==
    /\ job.step = "terminate"
    /\ procs' = [procs EXCEPT ![mgr.child] = Signalled(@)]
    /\ Step("reap")
    /\ UNCHANGED <<mgr, calls, app, ghost>>

\* wait_until_cleanup_signaled, kill and wait.
JobReap ==
    /\ job.step = "reap" /\ MayReap(procs[mgr.child])
    /\ procs' = [procs EXCEPT ![mgr.child] = Reaped(@)]
    /\ mgr' = Forget(mgr)
    /\ Step("join")
    /\ UNCHANGED <<calls, app, ghost>>

\* Bug: a monitor that does not end in time is left to itself.
Joined_Detached(h) == h

\* finish_monitor_task: waited for, or aborted at an await.
Joined(h) == Ended(h)

\* finish_monitor_task, then: on_manual_restart begins a new epoch, a failed
\* start returns its error, the app ends.
JobJoin ==
    LET p == Len(procs)
    IN  /\ job.step = "join"
        /\ p > 0 => procs[p].monitor \in {"ended", "reading", "reporting"}
        /\ procs' = [q \in DOMAIN procs |-> IF q = p THEN Joined(procs[q]) ELSE procs[q]]
        /\ job' = IF job.kind = "failed" THEN NoJob ELSE [job EXCEPT !.step = "spawn"]
        /\ mgr' = [mgr EXCEPT !.spent = @ /\ job.kind # "manual"]
        /\ app' = IF job.kind = "exit" THEN "gone" ELSE app
        /\ ghost' = [ghost EXCEPT !.allowed = IF job.kind = "manual" THEN 1 + calls.auto ELSE @,
                                  !.told = @ \/ job.kind = "failed"]
        /\ UNCHANGED calls

\* The rest of begin_start: a new generation and, if all goes well, its child.
JobSpawn ==
    LET p == Len(procs) + 1
    IN  /\ job.step = "spawn"
        /\ job' = NoJob
        /\ \/ /\ procs' = Append(procs, NewProc)
              /\ mgr' = [mgr EXCEPT !.child = p, !.current = p, !.shutting = FALSE]
              /\ ghost' = [ghost EXCEPT !.crashed = FALSE, !.told = FALSE]
           \/ /\ mgr' = [mgr EXCEPT !.current = 0, !.shutting = FALSE]
              /\ ghost' = [ghost EXCEPT !.told = TRUE]
              /\ UNCHANGED procs
        /\ UNCHANGED <<calls, app>>

-----------------------------------------------------------------------------
\* lib.rs begins the first start while it sets the app up.
HsInit ==
    /\ procs = <<>>
    /\ mgr = [child |-> 0, current |-> 0, shutting |-> FALSE, spent |-> FALSE]
    /\ calls = [manual |-> 0, auto |-> 0, exit |-> 0, ever |-> 0]
    /\ job = [kind |-> "fresh", step |-> "spawn"]
    /\ app = "up"
    /\ ghost = [allowed |-> 1, crashed |-> FALSE, told |-> FALSE]

Monitor == \E p \in DOMAIN procs :
    MonitorEof(p) \/ MonitorClaim(p) \/ MonitorKill(p) \/ MonitorReport(p)

Callers == {"manual", "auto", "exit"}

Start == \/ \E kind \in Callers : Acquire(kind)
         \/ \E p \in DOMAIN procs : StartTimeout(p) \/ Complete(p)

Job == \/ JobRetire \/ JobFarewell \/ JobClaim \/ JobTerminate \/ JobReap
       \/ JobJoin \/ JobSpawn

Host == \E p \in DOMAIN procs : HostSpeaks(p) \/ HostDies(p) \/ ReadFails(p)

User == RequestRestart \/ RequestExit \/ Probe

\* With the app its tasks are gone.
HsNext == app = "up" /\ (Monitor \/ Start \/ Job \/ Host \/ User)

HsSpec == HsInit /\ [][HsNext]_hsVars

\* The shell's runtime runs its tasks and its timers; nothing is promised of
\* the Host or of the user.
HsFairSpec == HsSpec /\ WF_hsVars(app = "up" /\ (Monitor \/ Start \/ Job))

-----------------------------------------------------------------------------
(* Properties *)

ProcType == [leader : {"running", "exited", "reaped"}, kin : BOOLEAN,
             cleanup : {"unclaimed", "claimed", "signaled"},
             monitor : {"reading", "checked", "killing", "reporting", "ended"},
             start : {"waiting", "ready", "failed", "undone", "over"}]

Kinds == {"none", "fresh", "failed"} \union Callers

Steps == {"free", "retire", "farewell", "claim", "terminate", "reap", "join", "spawn"}

\* Shapes of processes, manager and calls; a child the manager holds is one
\* that can still be waited for.
HsTypeOK ==
    /\ procs \in Seq(ProcType)
    /\ mgr \in [child : {0, Len(procs)}, current : {0, Len(procs)},
                shutting : BOOLEAN, spent : BOOLEAN]
    /\ calls \in [manual : Nat, auto : Nat, exit : Nat, ever : Nat]
    /\ job \in [kind : Kinds, step : Steps]
    /\ app \in {"up", "gone"}
    /\ ghost \in [allowed : Int, crashed : BOOLEAN, told : BOOLEAN]
    /\ mgr.child # 0 => procs[mgr.child].leader # "reaped"

Left(p) == procs[p].leader # "reaped" \/ procs[p].kin \/ procs[p].monitor # "ended"

\* Of every Host but the last nothing is left, neither a process of its group
\* nor a monitor that could report, restart or spend the new epoch's budget;
\* and when the app has gone, of none.
NothingLeft == \A p \in DOMAIN procs : p < Len(procs) \/ app = "gone" => ~Left(p)

\* Whoever may signal a group may do so: its number is not free for another
\* process, since the leader is not reaped ("A successful claim is not enough
\* for a reaper", pi_host.rs).
SignalsOwn == \A p \in DOMAIN procs : procs[p].cleanup = "claimed" => procs[p].leader # "reaped"

\* "one bounded automatic restart after an unexpected exit" (p0-scope.md): one is
\* made until the user restarts the Host, and none is asked for after a stop that
\* was meant.  The code keeps to it but for requests that the user's restart has
\* overtaken: they are not withdrawn, so each of them is made after it as well.
RestartOnce ==
    [][/\ calls'.auto < calls.auto => ghost.allowed > 0
       /\ calls'.auto > calls.auto => ghost.crashed]_hsVars

\* It runs, is listened to, and its start is not waited for nor has it failed.
Healthy(p) ==
    /\ mgr.current = p /\ procs[p].leader = "running"
    /\ procs[p].monitor = "reading" /\ procs[p].start \in {"ready", "over"}

\* A Host that is well is stopped by the user, the app's exit, and - see the
\* README - an automatic restart that an earlier Host's crash asked for; not by
\* the failure of an overtaken start, a monitor of another generation or a probe.
HealthyKept ==
    [][\A p \in DOMAIN procs : Healthy(p) /\ mgr'.current # p => job.kind \in Callers]_hsVars

\* A crash of the Host is answered: another one is spawned, or the user is
\* told that none is.
CrashAnswered == ghost.crashed ~> (~ghost.crashed \/ ghost.told \/ app = "gone")
=============================================================================
