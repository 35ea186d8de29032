------------------------------ MODULE GraphLock ------------------------------
(***************************************************************************)
(* The Pi Host's service-graph lock and the operations that take it        *)
(* (packages/pi-host/src: locks.ts, stable-graph-read.ts,                  *)
(* registered-graph-mutation.ts, operation-lifecycle.ts, and the shutdown  *)
(* of server.ts).                                                          *)
(*                                                                         *)
(* Mutations register as the active operation and try the lock; stable     *)
(* reads wait for it under a time limit and check the identity before and  *)
(* after they run; clean-ups wait without a limit; the shutdown waits for  *)
(* the active operation, then for the lock, then for its clean-up, all     *)
(* under one deadline.  A promise resolved by release() continues in a     *)
(* later microtask: the new owner is "granted" before it runs.             *)
(*                                                                         *)
(* Each request runs once: its id is never used again.  dispatch refuses   *)
(* requests that arrive during the shutdown; operations that are already   *)
(* dispatched, or that an extension starts, may still begin, so the model  *)
(* lets any of them.                                                       *)
(***************************************************************************)
EXTENDS Integers, Sequences

CONSTANTS
    Mutations,      \* requests of registered operations
    Reads,          \* requests of stable reads
    Cleanups,       \* settle clean-ups of background sessions
    Shutdown,       \* the shutdown's request
    Identities,     \* workspace, session and package revisions taken together
    Nobody          \* no owner, no active operation

Requests == Mutations \cup Reads \cup Cleanups \cup {Shutdown}

ASSUME DistinctAssumption ==
    /\ Mutations \cap Reads = {} /\ Mutations \cap Cleanups = {}
    /\ Reads \cap Cleanups = {}
    /\ Shutdown \notin Mutations \cup Reads \cup Cleanups
    /\ Nobody \notin Requests
ASSUME IdentityAssumption == Identities # {}

\* Where a request stands; "quiescing" and "late" only for the shutdown:
\* waiting for the active operation, and cleaning up after the deadline.
Place == {"idle", "quiescing", "waiting", "granted", "running", "late",
          "finishing", "done", "refused", "stale"}

VARIABLES
    pc,         \* [Requests -> Place]
    owner,      \* TryMutex.owner
    waiters,    \* TryMutex.waiters
    active,     \* GraphOperationRegistry.active
    awaited,    \* the operation whose completion the shutdown waits for
    identity,   \* IdentityState
    seen        \* [Reads -> Identities], captured by a read that runs

lockVars == <<owner, waiters>>
vars == <<pc, lockVars, active, awaited, identity, seen>>

-----------------------------------------------------------------------------
(* TryMutex *)

\* Bug: a second owner is let in.
Free_Always == TRUE

\* tryAcquire succeeds.
Free == owner = Nobody

\* acquire and acquireUnbounded: take the lock or join the waiters.
Acquire(r) ==
    \/ /\ Free
       /\ owner' = r
       /\ pc' = [pc EXCEPT ![r] = "granted"]
       /\ UNCHANGED waiters
    \/ /\ ~Free
       /\ waiters' = Append(waiters, r)
       /\ pc' = [pc EXCEPT ![r] = "waiting"]
       /\ UNCHANGED owner

\* Bug: the lock is freed, and those who wait are left waiting.
Release_NoHandOff(r, next) ==
    /\ owner' = Nobody
    /\ pc' = [pc EXCEPT ![r] = next]
    /\ UNCHANGED waiters

\* release by the owner: the first waiter becomes the owner at once.
Release(r, next) ==
    IF waiters = <<>>
    THEN /\ owner' = Nobody
         /\ pc' = [pc EXCEPT ![r] = next]
         /\ UNCHANGED waiters
    ELSE /\ owner' = Head(waiters)
         /\ waiters' = Tail(waiters)
         /\ pc' = [pc EXCEPT ![r] = next, ![Head(waiters)] = "granted"]

\* Bug: the timer answers the waiter but leaves it in the array.
Withdraw_Left(r) == pc' = [pc EXCEPT ![r] = "refused"] /\ UNCHANGED waiters

\* The waiter's timer fires: it is spliced out and told false.
Withdraw(r) ==
    \E k \in DOMAIN waiters :
        /\ waiters[k] = r
        /\ waiters' = [i \in 1..Len(waiters) - 1 |->
                          IF i < k THEN waiters[i] ELSE waiters[i + 1]]
        /\ pc' = [pc EXCEPT ![r] = "refused"]

-----------------------------------------------------------------------------
Init ==
    /\ pc = [r \in Requests |-> "idle"]
    /\ owner = Nobody /\ waiters = <<>>
    /\ active = Nobody /\ awaited = Nobody
    /\ identity \in Identities
    /\ seen \in [Reads -> {identity}]

(* Registered mutations. *)

\* begin and tryAcquire in one turn; operation.signal.throwIfAborted and the
\* abort itself only end the run earlier.
MutationBegin(m) ==
    /\ pc[m] = "idle" /\ active = Nobody /\ Free
    /\ active' = m /\ owner' = m
    /\ pc' = [pc EXCEPT ![m] = "running"]
    /\ UNCHANGED <<waiters, awaited, identity, seen>>

\* Busy: refused at once, or registered and then finished in a later microtask
\* (mutatePackage, whose finally is a promise's).
MutationBusy(m) ==
    /\ pc[m] = "idle" /\ ~(active = Nobody /\ Free)
    /\ \/ pc' = [pc EXCEPT ![m] = "refused"] /\ UNCHANGED active
       \/ /\ active = Nobody
          /\ active' = m
          /\ pc' = [pc EXCEPT ![m] = "finishing"]
    /\ UNCHANGED <<lockVars, awaited, identity, seen>>

\* The run commits, or rolls back, workspace, session or package revisions.
MutationWrite(m) ==
    /\ pc[m] = "running"
    /\ identity' \in Identities
    /\ UNCHANGED <<pc, lockVars, active, awaited, seen>>

\* The finally block: release, then finish, in the same turn or in a later one.
MutationEnd(m) ==
    /\ pc[m] = "running"
    /\ \/ Release(m, "done") /\ active' = Nobody
       \/ Release(m, "finishing") /\ UNCHANGED active
    /\ UNCHANGED <<awaited, identity, seen>>

\* operation.finish
MutationFinish(m) ==
    /\ pc[m] = "finishing"
    /\ pc' = [pc EXCEPT ![m] = "done"]
    /\ active' = Nobody
    /\ UNCHANGED <<lockVars, awaited, identity, seen>>

-----------------------------------------------------------------------------
(* Stable reads and clean-ups. *)

WaitBegin(r) ==
    /\ pc[r] = "idle"
    /\ Acquire(r)
    /\ UNCHANGED <<active, awaited, identity, seen>>

\* 250 ms, or 2 s behind another read.
ReadTimeout(r) ==
    /\ pc[r] = "waiting"
    /\ Withdraw(r)
    /\ UNCHANGED <<owner, active, awaited, identity, seen>>

\* Under the lock the precheck is repeated and the identity captured.
ReadEnter(r) ==
    /\ pc[r] = "granted"
    /\ \/ /\ pc' = [pc EXCEPT ![r] = "running"]
          /\ seen' = [seen EXCEPT ![r] = identity]
          /\ UNCHANGED lockVars
       \/ Release(r, "refused") /\ UNCHANGED seen
    /\ UNCHANGED <<active, awaited, identity>>

\* The read returns, and is thrown away if the identity has moved.
ReadEnd(r) ==
    /\ pc[r] = "running"
    /\ Release(r, IF seen[r] = identity THEN "done" ELSE "stale")
    /\ UNCHANGED <<active, awaited, identity, seen>>

CleanupEnter(c) ==
    /\ pc[c] = "granted"
    /\ pc' = [pc EXCEPT ![c] = "running"]
    /\ UNCHANGED <<lockVars, active, awaited, identity, seen>>

CleanupEnd(c) ==
    /\ pc[c] = "running"
    /\ Release(c, "done")
    /\ UNCHANGED <<active, awaited, identity, seen>>

-----------------------------------------------------------------------------
(* quiesceAndCleanup, which runs once (cleanupPromise). *)

\* Cancel the active operation and wait for it; without one, go for the lock.
ShutdownBegin ==
    /\ pc[Shutdown] = "idle"
    /\ IF active = Nobody
       THEN Acquire(Shutdown) /\ UNCHANGED awaited
       ELSE /\ awaited' = active
            /\ pc' = [pc EXCEPT ![Shutdown] = "quiescing"]
            /\ UNCHANGED lockVars
    /\ UNCHANGED <<active, identity, seen>>

\* The operation has finished.  With no time left the lock is only tried.
ShutdownProceed ==
    /\ pc[Shutdown] = "quiescing" /\ pc[awaited] = "done"
    /\ \/ Acquire(Shutdown)
       \/ ~Free /\ pc' = [pc EXCEPT ![Shutdown] = "refused"] /\ UNCHANGED lockVars
    /\ UNCHANGED <<active, awaited, identity, seen>>

ShutdownEnter ==
    /\ pc[Shutdown] = "granted"
    /\ pc' = [pc EXCEPT ![Shutdown] = "running"]
    /\ UNCHANGED <<lockVars, active, awaited, identity, seen>>

\* onShutdown has returned or thrown in time.
ShutdownDone ==
    /\ pc[Shutdown] = "running"
    /\ Release(Shutdown, "done")
    /\ UNCHANGED <<active, awaited, identity, seen>>

\* Bug: the lock is released although the clean-up is still running.
Late_Released ==
    /\ owner' = Nobody
    /\ pc' = [pc EXCEPT ![Shutdown] = "late"]
    /\ UNCHANGED waiters

\* releaseGraphLock = false: the clean-up runs on, and keeps the lock.
Late == pc' = [pc EXCEPT ![Shutdown] = "late"] /\ UNCHANGED lockVars

\* Bug: the wait for the lock has no limit.
LockDeadline_None == FALSE

\* The deadline passes while the shutdown waits for the lock.
LockDeadline == pc[Shutdown] = "waiting" /\ Withdraw(Shutdown) /\ UNCHANGED owner

\* HOST_SHUTDOWN_QUIESCE_TIMEOUT_MS is over.
ShutdownDeadline ==
    /\ \/ /\ pc[Shutdown] = "quiescing"
          /\ pc' = [pc EXCEPT ![Shutdown] = "refused"]
          /\ UNCHANGED lockVars
       \/ LockDeadline
       \/ pc[Shutdown] = "running" /\ Late
    /\ UNCHANGED <<active, awaited, identity, seen>>

-----------------------------------------------------------------------------
MutationStep(m) ==
    MutationBegin(m) \/ MutationBusy(m) \/ MutationWrite(m)
        \/ MutationEnd(m) \/ MutationFinish(m)
ReadStep(r) == WaitBegin(r) \/ ReadTimeout(r) \/ ReadEnter(r) \/ ReadEnd(r)
CleanupStep(c) == WaitBegin(c) \/ CleanupEnter(c) \/ CleanupEnd(c)
ShutdownStep ==
    ShutdownBegin \/ ShutdownProceed \/ ShutdownEnter \/ ShutdownDone \/ ShutdownDeadline

Next ==
    \/ \E m \in Mutations : MutationStep(m)
    \/ \E r \in Reads : ReadStep(r)
    \/ \E c \in Cleanups : CleanupStep(c)
    \/ ShutdownStep

Spec == Init /\ [][Next]_vars

(***************************************************************************)
(* Promises resolve and timers fire.  Nothing is assumed of how long an    *)
(* operation, a read or the shutdown's clean-up runs.                      *)
(***************************************************************************)
Fairness ==
    /\ \A r \in Reads : WF_vars(ReadEnter(r)) /\ WF_vars(ReadTimeout(r))
    /\ \A c \in Cleanups : WF_vars(CleanupEnter(c))
    /\ \A m \in Mutations : WF_vars(MutationFinish(m))
    /\ WF_vars(ShutdownEnter) /\ WF_vars(ShutdownDeadline)

FairSpec == Spec /\ Fairness

-----------------------------------------------------------------------------
(* Properties *)

\* Shapes; whoever is in the array is waiting, and waits there once.
TypeOK ==
    /\ pc \in [Requests -> Place]
    /\ owner \in Requests \cup {Nobody}
    /\ waiters \in Seq(Requests)
    /\ active \in Mutations \cup {Nobody} /\ awaited \in Mutations \cup {Nobody}
    /\ identity \in Identities /\ seen \in [Reads -> Identities]
    /\ \A i \in DOMAIN waiters : pc[waiters[i]] = "waiting"
    /\ \A i, j \in DOMAIN waiters : waiters[i] = waiters[j] => i = j

Holds(r) == pc[r] \in {"granted", "running", "late"}

\* The lock's owner and the request that behaves as the owner are the same, at
\* every moment: no request that has been answered "busy", has timed out or has
\* ended owns the lock, and no two run together.  In particular a shutdown whose
\* deadline has passed in its clean-up keeps everyone else out.
OwnerHolds == \A r \in Requests : Holds(r) <=> owner = r

\* stable-graph-read.ts: a read runs under one identity, so that the check after
\* its await never has to throw the result away.
ReadsStable == \A r \in Reads : pc[r] = "running" => seen[r] = identity

\* What runs under the lock, for the abstract specification: a request that has
\* been granted the lock has not begun.
Inside == {r \in Requests : pc[r] \in {"running", "late"}}

Serial == INSTANCE SerialGraph
    WITH Operations <- Requests, Writers <- Mutations, inside <- Inside

\* The lock serialises the operations.
Serialises == Serial!SerialSpec

\* The shutdown ends by its deadline, whatever the active operation, the owner
\* of the lock and the clean-up do.
ShutdownEnds ==
    pc[Shutdown] # "idle" ~> pc[Shutdown] \in {"done", "refused", "late"}

\* If no run goes on for ever, a clean-up that waits gets the lock, unless a
\* shutdown that was late keeps it.
CleanupsServed ==
    (\A r \in Requests : []<>(pc[r] # "running")) =>
        \A c \in Cleanups :
            pc[c] = "waiting" ~> (pc[c] # "waiting" \/ pc[Shutdown] = "late")
=============================================================================
