--------------------------- MODULE GraphLockProofs ---------------------------
(***************************************************************************)
(* Proofs about GraphLock, for any sets of mutations, reads, clean-ups and *)
(* identities.                                                             *)
(***************************************************************************)
EXTENDS GraphLock, TLAPS

\* What a lock operation may disturb: the conjuncts of TypeOK that speak of the
\* lock, and who holds it.
LockInv ==
    /\ pc \in [Requests -> Place]
    /\ owner \in Requests \cup {Nobody}
    /\ waiters \in Seq(Requests)
    /\ \A i \in DOMAIN waiters : pc[waiters[i]] = "waiting"
    /\ \A i, j \in DOMAIN waiters : waiters[i] = waiters[j] => i = j
    /\ OwnerHolds

\* The rest of the type invariant.
RestInv ==
    /\ active \in Mutations \cup {Nobody} /\ awaited \in Mutations \cup {Nobody}
    /\ identity \in Identities /\ seen \in [Reads -> Identities]

Inv == TypeOK /\ OwnerHolds /\ ReadsStable

\* Inv in two halves.
LEMMA Halves == /\ Inv <=> LockInv /\ RestInv /\ ReadsStable
                /\ Inv' <=> LockInv' /\ RestInv' /\ ReadsStable'
BY DEF Inv, TypeOK, LockInv, RestInv

\* Nobody is a request; each request is of one kind.
LEMMA Kinds ==
    /\ Nobody \notin Requests /\ Shutdown \in Requests
    /\ Mutations \subseteq Requests /\ Reads \subseteq Requests
    /\ Cleanups \subseteq Requests
    /\ Mutations \cap Reads = {} /\ Reads \cap Cleanups = {}
    /\ Shutdown \notin Reads /\ Shutdown \notin Mutations
BY DistinctAssumption DEF Requests

-----------------------------------------------------------------------------
\* TryMutex.acquire by somebody who neither holds the lock nor waits for it.
LEMMA AcquireStep ==
    ASSUME NEW r \in Requests, LockInv, pc[r] \in {"idle", "quiescing"}, Acquire(r)
    PROVE  /\ LockInv'
           /\ \A x \in Requests : pc'[x] = pc[x] \/ x = r
           /\ pc'[r] \in {"granted", "waiting"}
<1>1. CASE /\ Free /\ owner' = r /\ pc' = [pc EXCEPT ![r] = "granted"]
           /\ UNCHANGED waiters
  BY <1>1, Kinds DEF LockInv, OwnerHolds, Holds, Free, Place
<1>2. CASE /\ ~Free /\ waiters' = Append(waiters, r)
           /\ pc' = [pc EXCEPT ![r] = "waiting"] /\ UNCHANGED owner
  <2>1. /\ waiters' \in Seq(Requests) /\ Len(waiters') = Len(waiters) + 1
        /\ DOMAIN waiters = 1..Len(waiters) /\ DOMAIN waiters' = 1..Len(waiters) + 1
        /\ Len(waiters) \in Nat
        /\ \A i \in DOMAIN waiters : waiters'[i] = waiters[i]
        /\ waiters'[Len(waiters) + 1] = r
    BY <1>2 DEF LockInv
  <2>2. \A i \in DOMAIN waiters : waiters[i] # r /\ waiters[i] \in Requests
    BY <2>1 DEF LockInv
  <2>3. \A i \in DOMAIN waiters' : pc'[waiters'[i]] = "waiting"
    BY <1>2, <2>1, <2>2 DEF LockInv
  <2>4. \A i, j \in DOMAIN waiters' : waiters'[i] = waiters'[j] => i = j
    BY <2>1, <2>2 DEF LockInv
  <2>5. OwnerHolds'
    BY <1>2 DEF LockInv, OwnerHolds, Holds
  <2> QED BY <1>2, <2>1, <2>3, <2>4, <2>5 DEF LockInv, Place
<1> QED BY <1>1, <1>2 DEF Acquire

\* TryMutex.release by the owner: the lock passes to the first waiter, or is free.
LEMMA ReleaseStep ==
    ASSUME NEW r \in Requests, NEW next \in {"done", "finishing", "refused", "stale"},
           LockInv, Holds(r), Release(r, next)
    PROVE  /\ LockInv'
           /\ pc'[r] = next
           /\ \A x \in Requests \ {r} :
                  pc'[x] = pc[x] \/ (pc[x] = "waiting" /\ pc'[x] = "granted")
<1>1. CASE waiters = <<>>
  BY <1>1, Kinds DEF LockInv, OwnerHolds, Holds, Release, Place
<1>2. CASE waiters # <<>>
  <2> DEFINE h == Head(waiters)
  <2>1. /\ owner' = h /\ waiters' = Tail(waiters)
        /\ pc' = [pc EXCEPT ![r] = next, ![h] = "granted"]
    BY <1>2 DEF Release
  <2>2. /\ Len(waiters) \in Nat \ {0} /\ h = waiters[1]
        /\ DOMAIN waiters = 1..Len(waiters) /\ DOMAIN waiters' = 1..Len(waiters) - 1
        /\ waiters' \in Seq(Requests)
        /\ \A i \in DOMAIN waiters' : waiters'[i] = waiters[i + 1]
    BY <1>2, <2>1 DEF LockInv
  <2>3. 1 \in DOMAIN waiters /\ \A i \in DOMAIN waiters' : i + 1 \in DOMAIN waiters /\ i + 1 # 1
    BY <2>2
  <2>4. h \in Requests /\ pc[h] = "waiting" /\ h # r
    BY <2>2, <2>3 DEF LockInv, Holds
  <2>5. \A i \in DOMAIN waiters' :
            /\ waiters'[i] \in Requests /\ pc[waiters'[i]] = "waiting"
            /\ waiters'[i] # h /\ waiters'[i] # r
    BY <2>2, <2>3 DEF LockInv, Holds
  <2>6. \A i \in DOMAIN waiters' : pc'[waiters'[i]] = "waiting"
    BY <2>1, <2>5 DEF LockInv
  <2>7. \A i, j \in DOMAIN waiters' : waiters'[i] = waiters'[j] => i = j
    BY <2>2, <2>3 DEF LockInv
  <2>8. \A x \in Requests : pc'[x] = IF x = r THEN next ELSE IF x = h THEN "granted" ELSE pc[x]
    BY <2>1, <2>4 DEF LockInv
  <2>9. OwnerHolds'
    BY <2>1, <2>4, <2>8 DEF LockInv, OwnerHolds, Holds
  <2> QED BY <2>1, <2>2, <2>4, <2>6, <2>7, <2>8, <2>9 DEF LockInv, Place
<1> QED BY <1>1, <1>2

\* A waiter whose timer fires leaves the array and owns nothing.
LEMMA WithdrawStep ==
    ASSUME NEW r \in Requests, LockInv, Withdraw(r), UNCHANGED owner
    PROVE  /\ LockInv'
           /\ pc'[r] = "refused"
           /\ \A x \in Requests \ {r} : pc'[x] = pc[x]
<1>1. PICK k \in DOMAIN waiters :
          /\ waiters[k] = r
          /\ waiters' = [i \in 1..Len(waiters) - 1 |->
                            IF i < k THEN waiters[i] ELSE waiters[i + 1]]
          /\ pc' = [pc EXCEPT ![r] = "refused"]
  BY DEF Withdraw
<1> DEFINE old(i) == IF i < k THEN i ELSE i + 1
<1>2. Len(waiters) \in Nat /\ DOMAIN waiters = 1..Len(waiters) /\ k \in 1..Len(waiters)
  BY DEF LockInv
<1>3. \A i \in 1..Len(waiters) - 1 :
          old(i) \in DOMAIN waiters /\ old(i) # k /\ waiters'[i] = waiters[old(i)]
  BY <1>1, <1>2
<1>4. \A i, j \in 1..Len(waiters) - 1 : old(i) = old(j) => i = j
  BY <1>2
<1>5. DOMAIN waiters' = 1..Len(waiters) - 1
  BY <1>1
<1>6. waiters' \in Seq(Requests)
  <2>1. Len(waiters) - 1 \in Nat
    BY <1>2
  <2>2. \A i \in 1..Len(waiters) - 1 : waiters'[i] \in Requests
    BY <1>3 DEF LockInv
  <2>3. waiters' = [i \in 1..Len(waiters) - 1 |-> waiters'[i]]
    BY <1>1
  <2> HIDE DEF old
  <2> QED BY <2>1, <2>2, <2>3
<1>7. \A i \in DOMAIN waiters' : pc'[waiters'[i]] = "waiting"
  BY <1>1, <1>2, <1>3, <1>5 DEF LockInv
<1>8. \A i, j \in DOMAIN waiters' : waiters'[i] = waiters'[j] => i = j
  BY <1>3, <1>4, <1>5 DEF LockInv
<1>9. OwnerHolds'
  BY <1>1, <1>2 DEF LockInv, OwnerHolds, Holds
<1> QED BY <1>1, <1>6, <1>7, <1>8, <1>9 DEF LockInv, Place

-----------------------------------------------------------------------------
\* A step that begins no read, leaves the identity and what reads have seen
\* alone and keeps the lock and the registry well formed preserves Inv.
LEMMA QuietStep ==
    ASSUME Inv, LockInv', UNCHANGED <<identity, seen>>,
           active' \in Mutations \cup {Nobody}, awaited' \in Mutations \cup {Nobody},
           \A x \in Reads : pc'[x] = "running" => pc[x] = "running"
    PROVE  Inv'
<1>1. LockInv /\ RestInv /\ ReadsStable
  BY Halves
<1>2. RestInv' /\ ReadsStable'
  BY <1>1 DEF RestInv, ReadsStable
<1> QED BY <1>2, Halves

\* The steps of a registered mutation preserve the invariant.
LEMMA MutationInv ==
    ASSUME NEW m \in Mutations, Inv, MutationStep(m)
    PROVE  Inv'
<1>1. LockInv /\ RestInv /\ ReadsStable
  BY Halves
<1>2. m \in Requests /\ m \notin Reads /\ m # Nobody
  BY Kinds
<1>3. CASE MutationBegin(m)
  <2>1. LockInv'
    BY <1>1, <1>2, <1>3, Kinds
       DEF LockInv, OwnerHolds, Holds, Free, Place, MutationBegin
  <2>2. \A x \in Reads : pc'[x] = "running" => pc[x] = "running"
    BY <1>1, <1>2, <1>3, Kinds DEF LockInv, MutationBegin
  <2> QED BY <1>1, <1>3, <2>1, <2>2, QuietStep DEF RestInv, MutationBegin
<1>4. CASE MutationBusy(m)
  <2>1. UNCHANGED lockVars /\ UNCHANGED <<awaited, identity, seen>>
        /\ pc[m] = "idle" /\ active' \in {active, m}
        /\ (pc' = [pc EXCEPT ![m] = "refused"] \/ pc' = [pc EXCEPT ![m] = "finishing"])
    BY <1>4 DEF MutationBusy
  <2>2. LockInv'
    BY <1>1, <1>2, <2>1 DEF LockInv, OwnerHolds, Holds, Place, lockVars
  <2>3. \A x \in Reads : pc'[x] = "running" => pc[x] = "running"
    BY <1>1, <1>2, <2>1, Kinds DEF LockInv
  <2> QED BY <1>1, <2>1, <2>2, <2>3, QuietStep DEF RestInv
<1>5. CASE MutationWrite(m)
  <2>1. LockInv' /\ RestInv'
    BY <1>1, <1>5 DEF LockInv, OwnerHolds, Holds, RestInv, MutationWrite, lockVars
  <2>2. \A x \in Reads : pc[x] # "running"
    BY <1>1, <1>2, <1>5, Kinds DEF LockInv, OwnerHolds, Holds, MutationWrite
  <2>3. ReadsStable'
    BY <1>5, <2>2 DEF ReadsStable, MutationWrite
  <2> QED BY <2>1, <2>3, Halves
<1>6. CASE MutationEnd(m)
  <2>1. /\ Release(m, "done") \/ Release(m, "finishing")
        /\ active' \in {active, Nobody} /\ UNCHANGED <<awaited, identity, seen>>
        /\ Holds(m)
    BY <1>6 DEF MutationEnd, Holds
  <2>2. /\ LockInv' /\ pc'[m] # "running"
        /\ \A x \in Requests \ {m} :
               pc'[x] = pc[x] \/ (pc[x] = "waiting" /\ pc'[x] = "granted")
    BY <1>1, <1>2, <2>1, ReleaseStep
  <2>3. \A x \in Reads : pc'[x] = "running" => pc[x] = "running"
    BY <1>2, <2>2, Kinds
  <2> QED BY <1>1, <2>1, <2>2, <2>3, QuietStep DEF RestInv
<1>7. CASE MutationFinish(m)
  <2>1. LockInv'
    BY <1>1, <1>2, <1>7 DEF LockInv, OwnerHolds, Holds, Place, MutationFinish, lockVars
  <2>2. \A x \in Reads : pc'[x] = "running" => pc[x] = "running"
    BY <1>1, <1>2, <1>7, Kinds DEF LockInv, MutationFinish
  <2> QED BY <1>1, <1>7, <2>1, <2>2, QuietStep DEF RestInv, MutationFinish
<1> QED BY <1>3, <1>4, <1>5, <1>6, <1>7 DEF MutationStep

\* Taking the lock or joining its waiters preserves the invariant.
LEMMA WaitBeginInv ==
    ASSUME NEW r \in Requests, Inv, WaitBegin(r)
    PROVE  Inv'
<1>1. LockInv /\ RestInv
  BY Halves
<1>2. /\ LockInv' /\ pc'[r] # "running"
      /\ \A x \in Requests : pc'[x] = pc[x] \/ x = r
  BY <1>1, AcquireStep DEF WaitBegin
<1>3. \A x \in Reads : pc'[x] = "running" => pc[x] = "running"
  BY <1>2, Kinds
<1> QED BY <1>1, <1>2, <1>3, QuietStep DEF WaitBegin, RestInv

\* The steps of a stable read preserve the invariant.
LEMMA ReadInv ==
    ASSUME NEW r \in Reads, Inv, ReadStep(r)
    PROVE  Inv'
<1>1. LockInv /\ RestInv /\ ReadsStable /\ r \in Requests
  BY Halves, Kinds
<1>2. CASE WaitBegin(r)
  BY <1>1, <1>2, WaitBeginInv
<1>3. CASE ReadTimeout(r)
  <2>1. /\ LockInv' /\ pc'[r] = "refused"
        /\ \A x \in Requests \ {r} : pc'[x] = pc[x]
    BY <1>1, <1>3, WithdrawStep DEF ReadTimeout
  <2>2. \A x \in Reads : pc'[x] = "running" => pc[x] = "running"
    BY <2>1, Kinds
  <2> QED BY <1>1, <1>3, <2>1, <2>2, QuietStep DEF ReadTimeout, RestInv
<1>4. CASE ReadEnter(r) /\ pc' = [pc EXCEPT ![r] = "running"]
           /\ seen' = [seen EXCEPT ![r] = identity] /\ UNCHANGED lockVars
  <2>1. LockInv'
    BY <1>1, <1>4 DEF LockInv, OwnerHolds, Holds, Place, ReadEnter, lockVars
  <2>2. RestInv'
    BY <1>1, <1>4 DEF RestInv, ReadEnter
  <2>3. ReadsStable'
    BY <1>1, <1>4, Kinds DEF ReadsStable, ReadEnter, LockInv, RestInv
  <2> QED BY <2>1, <2>2, <2>3, Halves
<1>5. CASE ReadEnter(r) /\ Release(r, "refused") /\ UNCHANGED seen
  <2>1. /\ LockInv' /\ pc'[r] = "refused"
        /\ \A x \in Requests \ {r} :
               pc'[x] = pc[x] \/ (pc[x] = "waiting" /\ pc'[x] = "granted")
    BY <1>1, <1>5, ReleaseStep DEF ReadEnter, Holds
  <2>2. \A x \in Reads : pc'[x] = "running" => pc[x] = "running"
    BY <2>1, Kinds
  <2> QED BY <1>1, <1>5, <2>1, <2>2, QuietStep DEF ReadEnter, RestInv
<1>6. CASE ReadEnd(r)
  <2> DEFINE next == IF seen[r] = identity THEN "done" ELSE "stale"
  <2>1. Release(r, next) /\ Holds(r) /\ next \in {"done", "stale"}
    BY <1>6 DEF ReadEnd, Holds
  <2> HIDE DEF next
  <2>2. /\ LockInv' /\ pc'[r] # "running"
        /\ \A x \in Requests \ {r} :
               pc'[x] = pc[x] \/ (pc[x] = "waiting" /\ pc'[x] = "granted")
    BY <1>1, <2>1, ReleaseStep
  <2>3. \A x \in Reads : pc'[x] = "running" => pc[x] = "running"
    BY <2>2, Kinds
  <2> QED BY <1>1, <1>6, <2>2, <2>3, QuietStep DEF ReadEnd, RestInv
<1> QED BY <1>2, <1>3, <1>4, <1>5, <1>6 DEF ReadStep, ReadEnter

\* The steps of a clean-up preserve the invariant.
LEMMA CleanupInv ==
    ASSUME NEW c \in Cleanups, Inv, CleanupStep(c)
    PROVE  Inv'
<1>1. LockInv /\ RestInv /\ c \in Requests /\ c \notin Reads
  BY Halves, Kinds
<1>2. CASE WaitBegin(c)
  BY <1>1, <1>2, WaitBeginInv
<1>3. CASE CleanupEnter(c)
  <2>1. LockInv'
    BY <1>1, <1>3 DEF LockInv, OwnerHolds, Holds, Place, CleanupEnter, lockVars
  <2>2. \A x \in Reads : pc'[x] = "running" => pc[x] = "running"
    BY <1>1, <1>3, Kinds DEF LockInv, CleanupEnter
  <2> QED BY <1>1, <1>3, <2>1, <2>2, QuietStep DEF RestInv, CleanupEnter
<1>4. CASE CleanupEnd(c)
  <2>1. /\ LockInv' /\ pc'[c] = "done"
        /\ \A x \in Requests \ {c} :
               pc'[x] = pc[x] \/ (pc[x] = "waiting" /\ pc'[x] = "granted")
    BY <1>1, <1>4, ReleaseStep DEF CleanupEnd, Holds
  <2>2. \A x \in Reads : pc'[x] = "running" => pc[x] = "running"
    BY <1>1, <2>1, Kinds
  <2> QED BY <1>1, <1>4, <2>1, <2>2, QuietStep DEF CleanupEnd, RestInv
<1> QED BY <1>2, <1>3, <1>4 DEF CleanupStep

\* The steps of the shutdown preserve the invariant.
LEMMA ShutdownInv ==
    ASSUME Inv, ShutdownStep
    PROVE  Inv'
<1>1. LockInv /\ RestInv /\ Shutdown \in Requests /\ Shutdown \notin Reads
  BY Halves, Kinds
<1> DEFINE Moved(p) == UNCHANGED lockVars /\ pc' = [pc EXCEPT ![Shutdown] = p]
           Calm == /\ active' \in Mutations \cup {Nobody}
                   /\ awaited' \in Mutations \cup {Nobody}
                   /\ UNCHANGED <<identity, seen>>
<1>2. ASSUME NEW p \in {"quiescing", "refused", "running", "late"},
             Moved(p), pc[Shutdown] \in {"idle", "quiescing", "granted", "running"},
             Holds(Shutdown) <=> p \in {"running", "late"}, Calm
      PROVE  Inv'
  <2>1. /\ pc' \in [Requests -> Place]
        /\ \A x \in Requests : pc'[x] = IF x = Shutdown THEN p ELSE pc[x]
    BY <1>1, <1>2 DEF LockInv, Place
  <2>2. OwnerHolds'
    BY <1>1, <1>2, <2>1 DEF LockInv, OwnerHolds, Holds, lockVars
  <2>3. \A i \in DOMAIN waiters : waiters[i] \in Requests /\ waiters[i] # Shutdown
    BY <1>1, <1>2 DEF LockInv
  <2>4. LockInv'
    BY <1>1, <1>2, <2>1, <2>2, <2>3 DEF LockInv, lockVars
  <2>5. \A x \in Reads : pc'[x] = "running" => pc[x] = "running"
    BY <1>1, <2>1, Kinds
  <2> QED BY <1>2, <2>4, <2>5, QuietStep
<1>3. Calm
  BY <1>1 DEF ShutdownStep, ShutdownBegin, ShutdownProceed, ShutdownEnter,
     ShutdownDone, ShutdownDeadline, RestInv
<1>4. CASE Acquire(Shutdown) /\ pc[Shutdown] \in {"idle", "quiescing"}
  <2>1. /\ LockInv' /\ pc'[Shutdown] # "running"
        /\ \A x \in Requests : pc'[x] = pc[x] \/ x = Shutdown
    BY <1>1, <1>4, AcquireStep
  <2>2. \A x \in Reads : pc'[x] = "running" => pc[x] = "running"
    BY <1>1, <2>1, Kinds
  <2> QED BY <1>3, <2>1, <2>2, QuietStep
<1>5. CASE Release(Shutdown, "done") /\ pc[Shutdown] = "running"
  <2>1. /\ LockInv'
        /\ \A x \in Requests \ {Shutdown} :
               pc'[x] = pc[x] \/ (pc[x] = "waiting" /\ pc'[x] = "granted")
    BY <1>1, <1>5, ReleaseStep DEF Holds
  <2>2. \A x \in Reads : pc'[x] = "running" => pc[x] = "running"
    BY <1>1, <2>1, Kinds
  <2> QED BY <1>3, <2>1, <2>2, QuietStep
<1>6. CASE LockDeadline
  <2>1. LockInv' /\ \A x \in Requests \ {Shutdown} : pc'[x] = pc[x]
    BY <1>1, <1>6, WithdrawStep DEF LockDeadline
  <2>2. \A x \in Reads : pc'[x] = "running" => pc[x] = "running"
    BY <1>1, <2>1, Kinds
  <2> QED BY <1>3, <2>1, <2>2, QuietStep
<1>7. CASE ShutdownBegin
  BY <1>2, <1>3, <1>4, <1>7 DEF ShutdownBegin, Holds
<1>8. CASE ShutdownProceed
  BY <1>2, <1>3, <1>4, <1>8 DEF ShutdownProceed, Holds
<1>9. CASE ShutdownEnter
  BY <1>2, <1>3, <1>9 DEF ShutdownEnter, Holds, lockVars
<1>10. CASE ShutdownDone
  BY <1>5, <1>10 DEF ShutdownDone
<1>11. CASE ShutdownDeadline
  BY <1>2, <1>3, <1>6, <1>11 DEF ShutdownDeadline, Late, Holds
<1> QED BY <1>7, <1>8, <1>9, <1>10, <1>11 DEF ShutdownStep

-----------------------------------------------------------------------------
\* The inductive invariant: TypeOK, OwnerHolds and ReadsStable together, in every
\* reachable state of the lock and the requests that take it.
THEOREM Invariance == Spec => []Inv
<1>1. Init => Inv
  BY IdentityAssumption, Kinds
     DEF Init, Inv, TypeOK, OwnerHolds, ReadsStable, Holds, Place
<1>2. Inv /\ [Next]_vars => Inv'
  <2> SUFFICES ASSUME Inv, [Next]_vars PROVE Inv'
    OBVIOUS
  <2>1. CASE Next
    BY <2>1, MutationInv, ReadInv, CleanupInv, ShutdownInv DEF Next
  <2>2. CASE UNCHANGED vars
    BY <2>2 DEF vars, lockVars, Inv, TypeOK, OwnerHolds, ReadsStable, Holds
  <2> QED BY <2>1, <2>2
<1> QED BY <1>1, <1>2, PTL DEF Spec

\* Every reachable state is well-typed, and no request stands twice among the
\* waiters of the lock.
THEOREM TypeCorrect == Spec => []TypeOK
<1>1. Inv => TypeOK
  BY DEF Inv
<1> QED BY <1>1, Invariance, PTL

\* The request the lock names as its owner is the one that behaves as the owner,
\* for any number of requests: mutual exclusion, and no owner among the refused.
THEOREM OwnershipIsExact == Spec => []OwnerHolds
<1>1. Inv => OwnerHolds
  BY DEF Inv
<1> QED BY <1>1, Invariance, PTL

\* No identity moves under a running stable read.
THEOREM ReadsAreStable == Spec => []ReadsStable
<1>1. Inv => ReadsStable
  BY DEF Inv
<1> QED BY <1>1, Invariance, PTL

-----------------------------------------------------------------------------
\* Who is inside, from who owns the lock.
LEMMA InsideOf ==
    ASSUME Inv
    PROVE  /\ \A r \in Requests : pc[r] \in {"running", "late"} => Inside = {r}
           /\ \A r \in Requests : pc[r] = "granted" => Inside = {}
           /\ Free => Inside = {}
BY Kinds DEF Inv, TypeOK, OwnerHolds, Holds, Inside, Free

\* A request that begins enters.
LEMMA EnterStep ==
    ASSUME NEW r \in Requests, pc \in [Requests -> Place], Inside = {},
           pc' = [pc EXCEPT ![r] = "running"], UNCHANGED identity
    PROVE  Serial!Enter(r)
BY DEF Serial!Enter, Inside

\* A step after which the same requests run, under the same identity, stutters.
LEMMA StutterStep ==
    ASSUME UNCHANGED identity,
           \A x \in Requests :
               pc'[x] \in {"running", "late"} <=> pc[x] \in {"running", "late"}
    PROVE  UNCHANGED Serial!serialVars
BY DEF Serial!serialVars, Inside

\* Releasing the lock leaves, or stutters for a request that never began.
LEMMA LeaveStep ==
    ASSUME NEW r \in Requests, NEW next \in {"done", "finishing", "refused", "stale"},
           Inv, Release(r, next), pc[r] \in {"granted", "running"}, UNCHANGED identity
    PROVE  Serial!Leave(r) \/ UNCHANGED Serial!serialVars
<1>1. /\ pc'[r] = next
      /\ \A x \in Requests \ {r} :
             pc'[x] = pc[x] \/ (pc[x] = "waiting" /\ pc'[x] = "granted")
  BY Halves, ReleaseStep DEF Holds
<1>2. CASE pc[r] = "granted"
  BY <1>1, <1>2, StutterStep
<1>3. CASE pc[r] = "running"
  <2>1. Inside = {r}
    BY <1>3, InsideOf
  <2>2. Inside' = {}
    BY <1>1, <2>1 DEF Inside
  <2> QED BY <2>1, <2>2 DEF Serial!Leave
<1> QED BY <1>2, <1>3

\* Taking the lock, joining the waiters or leaving them begins nothing.
LEMMA WaitStutters ==
    ASSUME NEW r \in Requests, Inv, UNCHANGED identity,
           \/ pc[r] \in {"idle", "quiescing"} /\ Acquire(r)
           \/ Withdraw(r) /\ UNCHANGED owner
    PROVE  UNCHANGED Serial!serialVars
<1>1. LockInv
  BY Halves
<1>2. CASE pc[r] \in {"idle", "quiescing"} /\ Acquire(r)
  <2>1. /\ pc'[r] \in {"granted", "waiting"}
        /\ \A x \in Requests : pc'[x] = pc[x] \/ x = r
    BY <1>1, <1>2, AcquireStep
  <2> QED BY <1>2, <2>1, StutterStep
<1>3. CASE Withdraw(r) /\ UNCHANGED owner
  <2>1. pc'[r] = "refused" /\ \A x \in Requests \ {r} : pc'[x] = pc[x]
    BY <1>1, <1>3, WithdrawStep
  <2>2. pc[r] = "waiting"
    BY <1>1, <1>3 DEF LockInv, Withdraw
  <2> QED BY <2>1, <2>2, StutterStep
<1> QED BY <1>2, <1>3

\* Every step is a step of the serial specification, or a stutter.
LEMMA SerialStep ==
    ASSUME Inv, Next
    PROVE  [Serial!SerialNext]_(Serial!serialVars)
<1> DEFINE Entered == \E r \in Requests : Serial!Enter(r)
           Left == \E r \in Requests : Serial!Leave(r)
           Wrote == \E m \in Mutations : Serial!Write(m)
           Stutter == UNCHANGED Serial!serialVars
           Goal == Entered \/ Left \/ Wrote \/ Stutter
<1>1. pc \in [Requests -> Place]
  BY DEF Inv, TypeOK
<1>2. ASSUME NEW m \in Mutations, MutationStep(m) PROVE Goal
  <2>1. m \in Requests
    BY Kinds
  <2>2. CASE MutationBegin(m)
    BY <1>1, <2>1, <2>2, InsideOf, EnterStep DEF MutationBegin
  <2>3. CASE MutationBusy(m)
    <3>1. /\ UNCHANGED identity /\ pc[m] = "idle"
          /\ (pc' = [pc EXCEPT ![m] = "refused"] \/ pc' = [pc EXCEPT ![m] = "finishing"])
      BY <2>3 DEF MutationBusy
    <3> QED BY <1>1, <2>1, <3>1, StutterStep
  <2>4. CASE MutationWrite(m)
    <3>1. Inside = {m} /\ Inside' = Inside
      BY <2>1, <2>4, InsideOf DEF MutationWrite, Inside
    <3> QED BY <2>4, <3>1 DEF MutationWrite, Serial!Write
  <2>5. CASE MutationEnd(m)
    BY <2>1, <2>5, LeaveStep DEF MutationEnd
  <2>6. CASE MutationFinish(m)
    BY <1>1, <2>1, <2>6, StutterStep DEF MutationFinish
  <2> QED BY <1>2, <2>2, <2>3, <2>4, <2>5, <2>6 DEF MutationStep
<1>3. ASSUME NEW r \in Requests, WaitBegin(r) PROVE Stutter
  BY <1>3, WaitStutters DEF WaitBegin
<1>4. ASSUME NEW r \in Reads, ReadStep(r) PROVE Goal
  <2>1. r \in Requests
    BY Kinds
  <2>2. CASE WaitBegin(r)
    BY <1>3, <2>1, <2>2
  <2>3. CASE ReadTimeout(r)
    BY <2>1, <2>3, WaitStutters DEF ReadTimeout
  <2>4. CASE ReadEnter(r)
    BY <1>1, <2>1, <2>4, InsideOf, EnterStep, LeaveStep DEF ReadEnter
  <2>5. CASE ReadEnd(r)
    BY <2>1, <2>5, LeaveStep DEF ReadEnd
  <2> QED BY <1>4, <2>2, <2>3, <2>4, <2>5 DEF ReadStep
<1>5. ASSUME NEW c \in Cleanups, CleanupStep(c) PROVE Goal
  <2>1. c \in Requests
    BY Kinds
  <2>2. CASE WaitBegin(c)
    BY <1>3, <2>1, <2>2
  <2>3. CASE CleanupEnter(c)
    BY <1>1, <2>1, <2>3, InsideOf, EnterStep DEF CleanupEnter
  <2>4. CASE CleanupEnd(c)
    BY <2>1, <2>4, LeaveStep DEF CleanupEnd
  <2> QED BY <1>5, <2>2, <2>3, <2>4 DEF CleanupStep
<1>6. ASSUME ShutdownStep PROVE Goal
  <2>1. Shutdown \in Requests
    BY Kinds
  <2>2. ASSUME NEW p \in {"quiescing", "refused"}, pc[Shutdown] \in {"idle", "quiescing"},
               pc' = [pc EXCEPT ![Shutdown] = p], UNCHANGED identity
        PROVE  Stutter
    BY <1>1, <2>1, <2>2, StutterStep
  <2>3. CASE ShutdownBegin
    BY <2>1, <2>2, <2>3, WaitStutters DEF ShutdownBegin
  <2>4. CASE ShutdownProceed
    BY <2>1, <2>2, <2>4, WaitStutters DEF ShutdownProceed
  <2>5. CASE ShutdownEnter
    BY <1>1, <2>1, <2>5, InsideOf, EnterStep DEF ShutdownEnter
  <2>6. CASE ShutdownDone
    BY <2>1, <2>6, LeaveStep DEF ShutdownDone
  <2>7. CASE ShutdownDeadline
    <3>1. CASE pc[Shutdown] = "quiescing" /\ pc' = [pc EXCEPT ![Shutdown] = "refused"]
      BY <2>2, <2>7, <3>1 DEF ShutdownDeadline
    <3>2. CASE LockDeadline
      BY <2>1, <2>7, <3>2, WaitStutters DEF LockDeadline, ShutdownDeadline
    <3>3. CASE pc[Shutdown] = "running" /\ Late
      BY <1>1, <2>1, <2>7, <3>3, StutterStep DEF Late, ShutdownDeadline
    <3> QED BY <2>7, <3>1, <3>2, <3>3 DEF ShutdownDeadline
  <2> QED BY <1>6, <2>3, <2>4, <2>5, <2>6, <2>7 DEF ShutdownStep
<1>7. Goal
  BY <1>2, <1>4, <1>5, <1>6 DEF Next
<1> QED BY <1>7, Kinds DEF Serial!SerialNext

\* The lock implements the serial specification: the operations run one at a
\* time, and the identity moves only while a mutation is the one that runs.
THEOREM Refinement == Spec => Serialises
<1>1. Init => Serial!SerialInit
  BY DEF Init, Inside, Serial!SerialInit
<1>2. Inv /\ [Next]_vars => [Serial!SerialNext]_(Serial!serialVars)
  <2>1. CASE UNCHANGED vars
    BY <2>1 DEF vars, lockVars, Serial!serialVars, Inside
  <2> QED BY <2>1, SerialStep
<1> QED BY <1>1, <1>2, Invariance, PTL DEF Spec, Serialises, Serial!SerialSpec
=============================================================================
