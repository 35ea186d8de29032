------------------------ MODULE SessionRuntimeProofs ------------------------
(***************************************************************************)
(* Proofs about SessionRuntime, for every pool of sessions, every set of   *)
(* files and every limit.                                                  *)
(***************************************************************************)
EXTENDS SessionRuntime, FiniteSetTheorems, TLAPS

\* Who owns the graph lock agrees with what each operation is doing.
LockInv ==
    /\ graphLock = "switch" <=> stage # "none"
    /\ graphLock = "settle" <=> cleaning # NoRuntime

\* The identity, the snapshots and the captured state name the right files.
NamesInv ==
    /\ built[active] # "unbuilt" /\ fileOf[active] = identity.file
    /\ snapshot.file = identity.file /\ snapshot.rev = identity.rev
    /\ built[prev.session] # "unbuilt" /\ fileOf[prev.session] = prev.file
    /\ prev.snapshot.file = prev.file /\ prev.snapshot.rev = prev.rev
    /\ stage \in {"promoting", "retiring"} => candidate = active

\* Ids: the foreground's is not a key of the map, a fresh one belongs to nobody.
KeysInv ==
    /\ ~Background(identity.file)
    /\ \A s \in Sessions : built[s] # "unbuilt" => fileOf[s] \notin fresh
    /\ disk \cap fresh = {} /\ archive \cap fresh = {}
    /\ fileOp.file \notin fresh

\* A candidate under construction is idle, is nobody else's session, and its
\* file is not in use, except by the idle session that a reload replaces.
BuildInv ==
    stage \in {"building", "binding"} =>
        /\ candidate \in Sessions /\ activity[candidate] = "none"
        /\ candidate # active
        /\ built[candidate] = IF stage = "building" THEN "unbuilt" ELSE "live"
        /\ ~Background(fileOf[candidate])
        /\ IF kind = "reload"
           THEN fileOf[candidate] = identity.file /\ ~Busy(active)
           ELSE fileOf[candidate] # identity.file
        /\ kind = "create" => prev.session = active /\ prev.file = identity.file
        /\ fileOf[candidate] \notin fresh

\* Once the candidate is committed, the outgoing session is intact: retained
\* under its own key if it was busy, idle and in nobody's hands otherwise.
CommitInv ==
    stage \in {"activating", "published", "rollback"} =>
        /\ stage # "published" => activity[active] = "none"
        /\ candidate = active
        /\ built[active] = IF stage = "rollback" THEN "disposed" ELSE "live"
        /\ Live(prev.session) /\ prev.session # active
        /\ kind # "reload" => prev.file # identity.file
        /\ kind = "reload" => retained = NoRuntime
        /\ IF stage = "rollback" \/ retained = NoRuntime
           THEN ~Background(prev.file)
           ELSE /\ background[prev.file] = retained
                /\ retained.session = prev.session /\ retained.file = prev.file
        /\ stage # "rollback" /\ retained = NoRuntime => ~Busy(prev.session)

\* Only sessions the Host serves hold an operation lock.
BusyInv ==
    \A s \in Sessions : Busy(s) =>
        /\ Live(s)
        /\ \/ s = active \/ InBackground(s)
           \/ stage = "rollback" /\ s = prev.session

Inv ==
    /\ TypeOK /\ LockInv /\ NamesInv /\ KeysInv
    /\ RuntimesLive /\ BuildInv /\ CommitInv /\ BusyInv /\ NoOrphan

-----------------------------------------------------------------------------
\* TryMutex.release leaves the lock well formed: its new owner is nobody or the
\* clean-up at the head of the queue.
LEMMA ReleaseTyped ==
    ASSUME TypeOK, ReleaseGraph
    PROVE  /\ graphLock' \in {"free", "settle"}
           /\ lockQueue' \in Seq(Runtime)
           /\ cleaning' \in Runtime \cup {NoRuntime}
           /\ graphLock' = "settle" <=> cleaning' # NoRuntime
<1>1. CASE lockQueue = <<>>
  BY <1>1 DEF TypeOK, ReleaseGraph
<1>2. CASE lockQueue # <<>>
  <2>1. lockQueue \in Seq(Runtime)
    BY DEF TypeOK
  <2>2. Head(lockQueue) \in Runtime /\ Tail(lockQueue) \in Seq(Runtime)
    BY <1>2, <2>1
  <2> QED BY <1>2, <2>2, NoRuntimeAssumption DEF ReleaseGraph
<1> QED BY <1>1, <1>2

\* createSession reusing the pristine foreground session preserves the invariant.
LEMMA CreateReuseStep ==
    ASSUME Inv, CreateReuse
    PROVE  Inv'
<1>1. TypeOK'
  BY DEF Inv, Activity, Snapshot, Runtime, Stage, Background, Live, Busy,
     InBackground, TypeOK, CreateReuse, Pristine, Project, sessionVars,
     opVars, lockVars
<1>2. LockInv' /\ NamesInv' /\ KeysInv'
  BY DEF Inv, Activity, Snapshot, Runtime, Stage, Background, Live, Busy,
     InBackground, TypeOK, LockInv, NamesInv, KeysInv, CreateReuse, Pristine,
     Project, sessionVars, opVars, lockVars
<1>3. RuntimesLive' /\ BuildInv' /\ CommitInv'
  BY DEF Inv, Activity, Snapshot, Runtime, Stage, Background, Live, Busy,
     InBackground, TypeOK, RuntimesLive, BuildInv, CommitInv, CreateReuse,
     Pristine, Project, sessionVars, opVars, lockVars
<1>4. BusyInv' /\ NoOrphan'
  BY DEF Inv, Activity, Snapshot, Runtime, Stage, Background, Live, Busy,
     InBackground, TypeOK, BusyInv, NoOrphan, CreateReuse, Pristine, Project,
     sessionVars, opVars, lockVars
<1> QED BY <1>1, <1>2, <1>3, <1>4 DEF Inv

\* The synchronous start of createSession preserves the invariant.
LEMMA CreateBeginStep ==
    ASSUME NEW s \in Sessions, NEW f \in Files, Inv, CreateBegin(s, f)
    PROVE  Inv'
<1>1. TypeOK'
  BY DEF Inv, Activity, Snapshot, Runtime, Stage, Background, Live, Busy,
     InBackground, TypeOK, CreateBegin, AcquireGraph, WouldExceedLiveLimit,
     Captured, graphVars, LiveCount
<1>2. LockInv' /\ NamesInv' /\ KeysInv'
  BY DEF Inv, Activity, Snapshot, Runtime, Stage, Background, Live, Busy,
     InBackground, TypeOK, LockInv, NamesInv, KeysInv, CreateBegin,
     AcquireGraph, WouldExceedLiveLimit, Captured, graphVars, LiveCount
<1>3. RuntimesLive' /\ BuildInv' /\ CommitInv'
  BY DEF Inv, Activity, Snapshot, Runtime, Stage, Background, Live, Busy,
     InBackground, TypeOK, RuntimesLive, BuildInv, CommitInv, LockInv,
     NamesInv, KeysInv, BusyInv, NoOrphan, CreateBegin, AcquireGraph,
     WouldExceedLiveLimit, Captured, graphVars, LiveCount
<1>4. BusyInv' /\ NoOrphan'
  BY DEF Inv, Activity, Snapshot, Runtime, Stage, Background, Live, Busy,
     InBackground, TypeOK, BusyInv, NoOrphan, LockInv, BuildInv, CommitInv,
     CreateBegin, AcquireGraph, WouldExceedLiveLimit, Captured, graphVars,
     LiveCount
<1> QED BY <1>1, <1>2, <1>3, <1>4 DEF Inv

\* The start of openSession of a listed file preserves the invariant.
LEMMA OpenBeginStep ==
    ASSUME NEW s \in Sessions, NEW f \in Files, Inv, OpenBegin(s, f)
    PROVE  Inv'
<1>1. TypeOK'
  BY DEF Inv, Activity, Snapshot, Runtime, Stage, Background, Live, Busy,
     InBackground, TypeOK, OpenBegin, AcquireGraph, MayBuild,
     WouldExceedLiveLimit, graphVars, LiveCount
<1>2. LockInv' /\ NamesInv' /\ KeysInv'
  BY DEF Inv, Activity, Snapshot, Runtime, Stage, Background, Live, Busy,
     InBackground, TypeOK, LockInv, NamesInv, KeysInv, OpenBegin,
     AcquireGraph, MayBuild, WouldExceedLiveLimit, graphVars, LiveCount
<1>3. RuntimesLive' /\ BuildInv' /\ CommitInv'
  BY DEF Inv, Activity, Snapshot, Runtime, Stage, Background, Live, Busy,
     InBackground, TypeOK, RuntimesLive, BuildInv, CommitInv, LockInv,
     NamesInv, KeysInv, BusyInv, NoOrphan, OpenBegin, AcquireGraph, MayBuild,
     WouldExceedLiveLimit, graphVars, LiveCount
<1>4. BusyInv' /\ NoOrphan'
  BY DEF Inv, Activity, Snapshot, Runtime, Stage, Background, Live, Busy,
     InBackground, TypeOK, BusyInv, NoOrphan, LockInv, BuildInv, CommitInv,
     OpenBegin, AcquireGraph, MayBuild, WouldExceedLiveLimit, graphVars,
     LiveCount
<1> QED BY <1>1, <1>2, <1>3, <1>4 DEF Inv

\* The start of reloadSession preserves the invariant.
LEMMA ReloadBeginStep ==
    ASSUME NEW s \in Sessions, Inv, ReloadBegin(s)
    PROVE  Inv'
<1>1. TypeOK'
  BY DEF Inv, Activity, Snapshot, Runtime, Stage, Background, Live, Busy,
     InBackground, TypeOK, ReloadBegin, AcquireGraph, WouldExceedLiveLimit,
     graphVars, LiveCount
<1>2. LockInv' /\ NamesInv' /\ KeysInv'
  BY DEF Inv, Activity, Snapshot, Runtime, Stage, Background, Live, Busy,
     InBackground, TypeOK, LockInv, NamesInv, KeysInv, ReloadBegin,
     AcquireGraph, WouldExceedLiveLimit, graphVars, LiveCount
<1>3. RuntimesLive' /\ BuildInv' /\ CommitInv'
  BY DEF Inv, Activity, Snapshot, Runtime, Stage, Background, Live, Busy,
     InBackground, TypeOK, RuntimesLive, BuildInv, CommitInv, LockInv,
     NamesInv, KeysInv, BusyInv, NoOrphan, ReloadBegin, AcquireGraph,
     WouldExceedLiveLimit, graphVars, LiveCount
<1>4. BusyInv' /\ NoOrphan'
  BY DEF Inv, Activity, Snapshot, Runtime, Stage, Background, Live, Busy,
     InBackground, TypeOK, BusyInv, NoOrphan, LockInv, BuildInv, CommitInv,
     ReloadBegin, AcquireGraph, WouldExceedLiveLimit, graphVars, LiveCount
<1> QED BY <1>1, <1>2, <1>3, <1>4 DEF Inv

\* The candidate's construction preserves the invariant.
LEMMA BuildOkStep ==
    ASSUME Inv, BuildOk
    PROVE  Inv'
<1>1. TypeOK'
  BY DEF Inv, Activity, Snapshot, Runtime, Stage, Background, Live, Busy,
     InBackground, TypeOK, BuildInv, CommitInv, NamesInv, BuildOk, graphVars,
     lockVars
<1>2. LockInv' /\ NamesInv' /\ KeysInv'
  BY DEF Inv, Activity, Snapshot, Runtime, Stage, Background, Live, Busy,
     InBackground, TypeOK, LockInv, NamesInv, KeysInv, BuildInv, CommitInv,
     BuildOk, graphVars, lockVars
<1>3. RuntimesLive' /\ BuildInv' /\ CommitInv'
  BY DEF Inv, Activity, Snapshot, Runtime, Stage, Background, Live, Busy,
     InBackground, TypeOK, RuntimesLive, BuildInv, CommitInv, BuildOk,
     graphVars, lockVars
<1>4. BusyInv' /\ NoOrphan'
  BY DEF Inv, Activity, Snapshot, Runtime, Stage, Background, Live, Busy,
     InBackground, TypeOK, BusyInv, NoOrphan, BuildOk, graphVars, lockVars
<1> QED BY <1>1, <1>2, <1>3, <1>4 DEF Inv

\* A construction that throws preserves the invariant.
LEMMA BuildFailStep ==
    ASSUME Inv, BuildFail
    PROVE  Inv'
<1>1. TypeOK'
  BY ReleaseTyped DEF Inv, Activity, Snapshot, Stage, Background, Live, Busy,
     InBackground, TypeOK, BuildFail, FinishOp, sessionVars, graphVars
<1>2. LockInv' /\ NamesInv' /\ KeysInv'
  BY ReleaseTyped DEF Inv, Activity, Snapshot, Stage, Background, Live, Busy,
     InBackground, TypeOK, LockInv, NamesInv, KeysInv, BuildFail, FinishOp,
     sessionVars, graphVars
<1>3. RuntimesLive' /\ BuildInv' /\ CommitInv'
  BY ReleaseTyped DEF Inv, Activity, Snapshot, Stage, Background, Live, Busy,
     InBackground, TypeOK, RuntimesLive, BuildInv, CommitInv, BuildFail,
     FinishOp, sessionVars, graphVars
<1>4. BusyInv' /\ NoOrphan'
  BY ReleaseTyped DEF Inv, Activity, Snapshot, Stage, Background, Live, Busy,
     InBackground, TypeOK, BusyInv, NoOrphan, BuildFail, FinishOp,
     sessionVars, graphVars
<1> QED BY <1>1, <1>2, <1>3, <1>4 DEF Inv

\* Discarding a candidate whose bind failed preserves the invariant.
LEMMA BindFailStep ==
    ASSUME Inv, BindFail
    PROVE  Inv'
<1>1. TypeOK'
  BY DEF Inv, Activity, Snapshot, Runtime, Stage, Background, Live, Busy,
     InBackground, TypeOK, BindFail, graphVars, lockVars
<1>2. LockInv' /\ NamesInv' /\ KeysInv'
  BY DEF Inv, Activity, Snapshot, Runtime, Stage, Background, Live, Busy,
     InBackground, TypeOK, LockInv, NamesInv, KeysInv, BuildInv, CommitInv,
     BindFail, graphVars, lockVars
<1>3. RuntimesLive' /\ BuildInv' /\ CommitInv'
  BY DEF Inv, Activity, Snapshot, Runtime, Stage, Background, Live, Busy,
     InBackground, TypeOK, RuntimesLive, BuildInv, CommitInv, BindFail,
     graphVars, lockVars
<1>4. BusyInv' /\ NoOrphan'
  BY DEF Inv, Activity, Snapshot, Runtime, Stage, Background, Live, Busy,
     InBackground, TypeOK, BusyInv, NoOrphan, LockInv, BuildInv, CommitInv,
     BindFail, graphVars, lockVars
<1> QED BY <1>1, <1>2, <1>3, <1>4 DEF Inv

\* Returning after that preserves the invariant.
LEMMA DiscardDoneStep ==
    ASSUME Inv, DiscardDone
    PROVE  Inv'
<1>1. TypeOK'
  BY ReleaseTyped DEF Inv, Activity, Snapshot, Stage, Background, Live, Busy,
     InBackground, TypeOK, DiscardDone, FinishOp, sessionVars, graphVars
<1>2. LockInv' /\ NamesInv' /\ KeysInv'
  BY ReleaseTyped DEF Inv, Activity, Snapshot, Stage, Background, Live, Busy,
     InBackground, TypeOK, LockInv, NamesInv, KeysInv, DiscardDone, FinishOp,
     sessionVars, graphVars
<1>3. RuntimesLive' /\ BuildInv' /\ CommitInv'
  BY ReleaseTyped DEF Inv, Activity, Snapshot, Stage, Background, Live, Busy,
     InBackground, TypeOK, RuntimesLive, BuildInv, CommitInv, DiscardDone,
     FinishOp, sessionVars, graphVars
<1>4. BusyInv' /\ NoOrphan'
  BY ReleaseTyped DEF Inv, Activity, Snapshot, Stage, Background, Live, Busy,
     InBackground, TypeOK, BusyInv, NoOrphan, DiscardDone, FinishOp,
     sessionVars, graphVars
<1> QED BY <1>1, <1>2, <1>3, <1>4 DEF Inv

\* Retaining the outgoing session and committing the candidate preserves the
\* invariant: the one step where all of its parts move together.
LEMMA CommitStep ==
    ASSUME Inv, Commit
    PROVE  Inv'
<1>1. /\ prev' \in [session : Sessions, file : Files, rev : Nat, snapshot : Snapshot]
      /\ prev'.session = active /\ prev'.file = identity.file
      /\ prev'.snapshot.file = prev'.file /\ prev'.snapshot.rev = prev'.rev
  BY DEF Inv, TypeOK, NamesInv, BuildInv, Commit, Captured
<1>2. /\ RetainBusy(prev', background)
      /\ CommitActive(candidate, fileOf[candidate], identity.rev + 1,
            [of |-> candidate, file |-> fileOf[candidate], rev |-> identity.rev + 1])
      /\ stage = "binding" /\ stage' = "activating"
      /\ UNCHANGED <<sessionVars, published, kind, candidate, lockVars>>
  BY DEF Commit
<1>3. /\ RuntimeOf(prev') \in Runtime
      /\ RuntimeOf(prev').session = active /\ RuntimeOf(prev').file = identity.file
      /\ RuntimeOf(prev') # NoRuntime
  BY <1>1, NoRuntimeAssumption DEF RuntimeOf, Runtime, Inv, TypeOK
<1>4. /\ candidate \in Sessions /\ candidate # active /\ Live(candidate)
      /\ fileOf[candidate] \in Files /\ identity.file \in Files
      /\ active \in Sessions /\ identity.rev + 1 \in Nat
      /\ Live(active) /\ fileOf[active] = identity.file
      /\ ~Background(identity.file) /\ ~Background(fileOf[candidate])
  BY <1>2 DEF Inv, TypeOK, BuildInv, NamesInv, KeysInv, RuntimesLive, Live
<1>5. /\ active' = candidate /\ identity' = [file |-> fileOf[candidate], rev |-> identity.rev + 1]
      /\ snapshot' = [of |-> candidate, file |-> fileOf[candidate], rev |-> identity.rev + 1]
  BY <1>2 DEF CommitActive
<1>6. IF Busy(active)
      THEN /\ background' = [background EXCEPT ![identity.file] = RuntimeOf(prev')]
           /\ retained' = RuntimeOf(prev')
           /\ retentions' = [retentions EXCEPT ![active] = @ + 1]
      ELSE background' = background /\ retained' = NoRuntime /\ retentions' = retentions
  BY <1>1, <1>2 DEF RetainBusy
<1>7. TypeOK'
  <2>1. /\ background' \in [Files -> Runtime \cup {NoRuntime}]
        /\ retained' \in Runtime \cup {NoRuntime} /\ retentions' \in [Sessions -> Nat]
    <3> background \in [Files -> Runtime \cup {NoRuntime}] /\ retentions \in [Sessions -> Nat]
      BY DEF Inv, TypeOK
    <3>1. CASE Busy(active)
      BY <3>1, <1>3, <1>4, <1>6
    <3>2. CASE ~Busy(active)
      BY <3>2, <1>6
    <3> QED BY <3>1, <3>2
  <2>2. /\ active' \in Sessions /\ identity' \in [file : Files, rev : Nat]
        /\ snapshot' \in Snapshot
    BY <1>4, <1>5 DEF Snapshot
  <2> QED BY <1>1, <1>2, <2>1, <2>2 DEF Inv, TypeOK, Stage, sessionVars, lockVars
<1>8. LockInv' /\ NamesInv' /\ BuildInv'
  BY <1>1, <1>2, <1>4, <1>5 DEF Inv, LockInv, NamesInv, BuildInv, Live, sessionVars, lockVars
<1>9. Busy(active) => kind # "reload" /\ fileOf[candidate] # identity.file
  BY <1>2 DEF Inv, BuildInv
<1>10. \A f \in Files : background'[f] =
          IF f = identity.file /\ Busy(active) THEN RuntimeOf(prev') ELSE background[f]
  BY <1>4, <1>6 DEF Inv, TypeOK
<1>11. KeysInv'
  BY <1>2, <1>4, <1>5, <1>9, <1>10 DEF Inv, KeysInv, Background, sessionVars, lockVars
<1>12. RuntimesLive'
  BY <1>2, <1>3, <1>4, <1>5, <1>10 DEF Inv, RuntimesLive, Background, Live, sessionVars
<1>13. CommitInv'
  <2>1. activity[candidate] = "none" /\ (kind # "reload" => fileOf[candidate] # identity.file)
    BY <1>2 DEF Inv, BuildInv
  <2>2. CASE Busy(active)
    BY <2>1, <2>2, <1>1, <1>2, <1>3, <1>4, <1>5, <1>6, <1>9, <1>10
    DEF CommitInv, Live, sessionVars, Background
  <2>3. CASE ~Busy(active)
    BY <2>1, <2>3, <1>1, <1>2, <1>4, <1>5, <1>6 DEF CommitInv, Live, sessionVars, Background, Busy
  <2> QED BY <2>2, <2>3
<1>14. \A s \in Sessions : InBackground(s) \/ (s = active /\ Busy(active)) => InBackground(s)'
  <2> SUFFICES ASSUME NEW s \in Sessions, InBackground(s) \/ (s = active /\ Busy(active))
               PROVE  InBackground(s)'
    OBVIOUS
  <2>1. CASE InBackground(s)
    BY <2>1, <1>4, <1>10 DEF InBackground, Background
  <2>2. CASE s = active /\ Busy(active)
    BY <2>2, <1>3, <1>4, <1>10 DEF InBackground, Background
  <2> QED BY <2>1, <2>2
<1>15. BusyInv'
  BY <1>2, <1>5, <1>14 DEF Inv, BusyInv, Busy, Live, sessionVars
<1>16. NoOrphan'
  BY <1>1, <1>2, <1>5, <1>14 DEF Inv, NoOrphan, Live, sessionVars
<1> QED BY <1>7, <1>8, <1>11, <1>12, <1>13, <1>15, <1>16 DEF Inv

\* Publishing the activated candidate preserves the invariant.
LEMMA ActivateOkStep ==
    ASSUME Inv, ActivateOk
    PROVE  Inv'
<1>1. TypeOK'
  BY DEF Inv, Activity, Snapshot, Runtime, Stage, Background, Live, Busy,
     InBackground, TypeOK, BuildInv, CommitInv, NamesInv, ActivateOk,
     sessionVars, lockVars
<1>2. LockInv' /\ NamesInv' /\ KeysInv'
  BY DEF Inv, Activity, Snapshot, Runtime, Stage, Background, Live, Busy,
     InBackground, TypeOK, LockInv, NamesInv, KeysInv, ActivateOk,
     sessionVars, lockVars
<1>3. RuntimesLive' /\ BuildInv' /\ CommitInv'
  BY DEF Inv, Activity, Snapshot, Runtime, Stage, Background, Live, Busy,
     InBackground, TypeOK, RuntimesLive, BuildInv, CommitInv, ActivateOk,
     sessionVars, lockVars
<1>4. BusyInv' /\ NoOrphan'
  BY DEF Inv, Activity, Snapshot, Runtime, Stage, Background, Live, Busy,
     InBackground, TypeOK, BusyInv, NoOrphan, LockInv, BuildInv, CommitInv,
     ActivateOk, sessionVars, lockVars
<1> QED BY <1>1, <1>2, <1>3, <1>4 DEF Inv

\* Un-retaining the outgoing session when activation fails preserves it.
LEMMA ActivateFailStep ==
    ASSUME Inv, ActivateFail
    PROVE  Inv'
<1>1. TypeOK'
  BY DEF Inv, Activity, Snapshot, Runtime, Stage, Background, Live, Busy,
     InBackground, TypeOK, ActivateFail, Unretain, lockVars
<1>2. LockInv' /\ NamesInv' /\ KeysInv'
  BY DEF Inv, Activity, Snapshot, Runtime, Stage, Background, Live, Busy,
     InBackground, TypeOK, LockInv, NamesInv, KeysInv, BuildInv, CommitInv,
     ActivateFail, Unretain, lockVars
<1>3. RuntimesLive' /\ BuildInv' /\ CommitInv'
  BY DEF Inv, Activity, Snapshot, Runtime, Stage, Background, Live, Busy,
     InBackground, TypeOK, RuntimesLive, BuildInv, CommitInv, ActivateFail,
     Unretain, lockVars
<1>4. BusyInv' /\ NoOrphan'
  BY DEF Inv, Activity, Snapshot, Runtime, Stage, Background, Live, Busy,
     InBackground, TypeOK, BusyInv, NoOrphan, LockInv, BuildInv, CommitInv,
     ActivateFail, Unretain, lockVars
<1> QED BY <1>1, <1>2, <1>3, <1>4 DEF Inv

\* Putting the captured state back preserves the invariant.
LEMMA RollbackDoneStep ==
    ASSUME Inv, RollbackDone
    PROVE  Inv'
<1>1. /\ stage = "rollback" /\ stage' = "none" /\ retained' = NoRuntime /\ candidate' = NoSession
      /\ active' = prev.session /\ identity' = [file |-> prev.file, rev |-> prev.rev]
      /\ snapshot' = prev.snapshot /\ ReleaseGraph
      /\ UNCHANGED <<sessionVars, published, background, retentions, kind, prev,
                      disposing, timers, fileOp>>
  BY DEF RollbackDone, CommitActive, FinishOp
<1>2. /\ active = candidate /\ activity[active] = "none" /\ built[active] = "disposed"
      /\ Live(prev.session) /\ ~Background(prev.file)
  BY <1>1 DEF Inv, CommitInv
<1>3. TypeOK'
  BY <1>1, ReleaseTyped DEF Inv, TypeOK, Stage, sessionVars
<1>4. LockInv' /\ NamesInv' /\ KeysInv'
  BY <1>1, <1>2, ReleaseTyped DEF Inv, TypeOK, LockInv, NamesInv, KeysInv, Background, sessionVars
<1>5. RuntimesLive' /\ BuildInv' /\ CommitInv'
  BY <1>1, <1>2 DEF Inv, NamesInv, RuntimesLive, BuildInv, CommitInv, Background, Live, sessionVars
<1>6. \A s \in Sessions : InBackground(s)' <=> InBackground(s)
  BY <1>1 DEF InBackground, Background
<1>7. BusyInv'
  BY <1>1, <1>2, <1>6 DEF Inv, BusyInv, Busy, Live, sessionVars
<1>8. NoOrphan'
  BY <1>1, <1>2, <1>6 DEF Inv, NoOrphan, Live, sessionVars
<1> QED BY <1>3, <1>4, <1>5, <1>7, <1>8 DEF Inv

\* Disposing of the replaced session preserves the invariant.
LEMMA RetirePrevStep ==
    ASSUME Inv, RetirePrev
    PROVE  Inv'
<1>1. TypeOK'
  BY DEF Inv, Activity, Snapshot, Runtime, Stage, Background, Live, Busy,
     InBackground, TypeOK, RetirePrev, graphVars, lockVars
<1>2. LockInv' /\ NamesInv' /\ KeysInv'
  BY DEF Inv, Activity, Snapshot, Runtime, Stage, Background, Live, Busy,
     InBackground, TypeOK, LockInv, NamesInv, KeysInv, BuildInv, CommitInv,
     RetirePrev, graphVars, lockVars
<1>3. RuntimesLive' /\ BuildInv' /\ CommitInv'
  BY DEF Inv, Activity, Snapshot, Runtime, Stage, Background, Live, Busy,
     InBackground, TypeOK, RuntimesLive, BuildInv, CommitInv, LockInv,
     NamesInv, KeysInv, RetirePrev, graphVars, lockVars
<1>4. BusyInv' /\ NoOrphan'
  BY DEF Inv, Activity, Snapshot, Runtime, Stage, Background, Live, Busy,
     InBackground, TypeOK, BusyInv, NoOrphan, LockInv, BuildInv, CommitInv,
     RetirePrev, graphVars, lockVars
<1> QED BY <1>1, <1>2, <1>3, <1>4 DEF Inv

\* The end of a transaction preserves the invariant.
LEMMA SwitchDoneStep ==
    ASSUME Inv, SwitchDone
    PROVE  Inv'
<1>1. TypeOK'
  BY ReleaseTyped DEF Inv, Activity, Snapshot, Stage, Background, Live, Busy,
     InBackground, TypeOK, SwitchDone, FinishOp, sessionVars, graphVars
<1>2. LockInv' /\ NamesInv' /\ KeysInv'
  BY ReleaseTyped DEF Inv, Activity, Snapshot, Stage, Background, Live, Busy,
     InBackground, TypeOK, LockInv, NamesInv, KeysInv, SwitchDone, FinishOp,
     sessionVars, graphVars
<1>3. RuntimesLive' /\ BuildInv' /\ CommitInv'
  BY ReleaseTyped DEF Inv, Activity, Snapshot, Stage, Background, Live, Busy,
     InBackground, TypeOK, RuntimesLive, BuildInv, CommitInv, SwitchDone,
     FinishOp, sessionVars, graphVars
<1>4. BusyInv' /\ NoOrphan'
  BY ReleaseTyped DEF Inv, Activity, Snapshot, Stage, Background, Live, Busy,
     InBackground, TypeOK, BusyInv, NoOrphan, LockInv, BuildInv, CommitInv,
     SwitchDone, FinishOp, sessionVars, graphVars
<1> QED BY <1>1, <1>2, <1>3, <1>4 DEF Inv

\* promoteBackgroundRuntime preserves the invariant: the promoted runtime leaves
\* the map in the step that puts the busy outgoing session into it.
LEMMA OpenPromoteStep ==
    ASSUME NEW f \in Files, Inv, OpenPromote(f)
    PROVE  Inv'
<1> DEFINE runtime == background[f]
           rev == identity.rev + 1
           without == [background EXCEPT ![f] = NoRuntime]
<1>1. /\ graphLock = "free" /\ graphLock' = "switch"
      /\ Background(f) /\ stage' = "promoting"
      /\ candidate' = runtime.session /\ prev' = Captured
      /\ RetainBusy(Captured, without)
      /\ active' = runtime.session /\ identity' = [file |-> f, rev |-> rev]
      /\ snapshot' = [of |-> runtime.session, file |-> f, rev |-> rev]
      /\ built' = IF Busy(active) THEN built ELSE [built EXCEPT ![active] = "disposed"]
      /\ kind' = "open"
      /\ UNCHANGED <<fileOf, activity, used, disk, archive, fresh, published,
                       lockQueue, cleaning, disposing, timers, fileOp>>
  BY DEF OpenPromote, AcquireGraph, CommitActive
<1>2. /\ runtime \in Runtime /\ runtime.session # active /\ Live(runtime.session)
      /\ fileOf[runtime.session] = f /\ runtime.session \in Sessions
      /\ stage = "none" /\ Live(active) /\ active \in Sessions
      /\ fileOf[active] = identity.file /\ identity.file \in Files
      /\ f # identity.file /\ rev \in Nat
  BY <1>1 DEF Inv, TypeOK, LockInv, NamesInv, KeysInv, RuntimesLive, Background, Runtime, Live
<1>3. /\ Captured \in [session : Sessions, file : Files, rev : Nat, snapshot : Snapshot]
      /\ Captured.session = active /\ Captured.file = identity.file
      /\ Captured.snapshot = snapshot /\ Captured.rev = identity.rev
  BY DEF Inv, TypeOK, Captured
<1>4. /\ RuntimeOf(Captured) \in Runtime /\ RuntimeOf(Captured) # NoRuntime
      /\ RuntimeOf(Captured).session = active /\ RuntimeOf(Captured).file = identity.file
  BY <1>3, NoRuntimeAssumption DEF RuntimeOf, Runtime, Inv, TypeOK
<1>5. IF Busy(active)
      THEN /\ background' = [without EXCEPT ![identity.file] = RuntimeOf(Captured)]
           /\ retained' = RuntimeOf(Captured)
           /\ retentions' = [retentions EXCEPT ![active] = @ + 1]
      ELSE background' = without /\ retained' = NoRuntime /\ retentions' = retentions
  BY <1>1, <1>3 DEF RetainBusy
<1>6. \A g \in Files : background'[g] =
          IF g = f THEN NoRuntime
          ELSE IF g = identity.file /\ Busy(active) THEN RuntimeOf(Captured)
          ELSE background[g]
  BY <1>2, <1>5 DEF Inv, TypeOK
<1>7. TypeOK'
  <2>1. /\ background' \in [Files -> Runtime \cup {NoRuntime}]
        /\ retained' \in Runtime \cup {NoRuntime} /\ retentions' \in [Sessions -> Nat]
    <3> background \in [Files -> Runtime \cup {NoRuntime}] /\ retentions \in [Sessions -> Nat]
      BY DEF Inv, TypeOK
    <3>1. CASE Busy(active)
      BY <3>1, <1>2, <1>4, <1>5
    <3>2. CASE ~Busy(active)
      BY <3>2, <1>5
    <3> QED BY <3>1, <3>2
  <2>2. /\ active' \in Sessions /\ identity' \in [file : Files, rev : Nat]
        /\ snapshot' \in Snapshot /\ built' \in [Sessions -> {"unbuilt", "live", "disposed"}]
    BY <1>1, <1>2 DEF Snapshot, Inv, TypeOK, Busy
  <2> QED BY <1>1, <1>2, <1>3, <2>1, <2>2 DEF Inv, TypeOK, Stage
<1>8. LockInv' /\ NamesInv' /\ BuildInv' /\ CommitInv'
  BY <1>1, <1>2, <1>3 DEF Inv, TypeOK, LockInv, NamesInv, BuildInv, CommitInv, Live
<1>9. KeysInv'
  BY <1>1, <1>2, <1>6 DEF Inv, TypeOK, KeysInv, Background, Live
<1>10. RuntimesLive'
  <2>1. Live(active)'
    BY <1>1, <1>2 DEF Inv, TypeOK, Live
  <2> SUFFICES ASSUME NEW g \in Files, Background(g)'
               PROVE  /\ Live(background[g].session)' /\ background'[g].session # active'
                      /\ background'[g].file = g /\ fileOf'[background'[g].session] = g
    BY <2>1, Zenon DEF RuntimesLive
  <2>2. CASE g = identity.file /\ Busy(active)
    BY <2>2, <1>1, <1>2, <1>4, <1>6 DEF Live
  <2>3. CASE ~(g = identity.file /\ Busy(active))
    <3>1. background'[g] = background[g] /\ Background(g) /\ g # f
      BY <2>3, <1>6 DEF Background
    <3>2. /\ Live(background[g].session) /\ background[g].session # active
          /\ background[g].file = g /\ fileOf[background[g].session] = g
      BY <3>1 DEF Inv, RuntimesLive
    <3> QED BY <3>1, <3>2, <1>1, <1>2 DEF Live, Inv, TypeOK
  <2> QED BY <2>2, <2>3
<1>11. \A s \in Sessions :
          (InBackground(s) /\ s # runtime.session) \/ (s = active /\ Busy(s)) => InBackground(s)'
  <2> SUFFICES ASSUME NEW s \in Sessions,
                      (InBackground(s) /\ s # runtime.session) \/ (s = active /\ Busy(s))
               PROVE  InBackground(s)'
    OBVIOUS
  <2>1. CASE InBackground(s) /\ s # runtime.session
    <3>1. PICK g \in Files : Background(g) /\ background[g].session = s
      BY <2>1 DEF InBackground
    <3>2. g # f /\ g # identity.file
      BY <2>1, <3>1 DEF Inv, KeysInv
    <3> QED BY <3>1, <3>2, <1>6 DEF InBackground, Background
  <2>2. CASE s = active /\ Busy(s)
    BY <2>2, <1>2, <1>4, <1>6 DEF InBackground, Background
  <2> QED BY <2>1, <2>2
<1>13. BusyInv'
  BY <1>1, <1>2, <1>11 DEF Inv, TypeOK, BusyInv, Busy, Live
<1>14. NoOrphan'
  BY <1>1, <1>2, <1>11 DEF Inv, TypeOK, NoOrphan, Live
<1> QED BY <1>7, <1>8, <1>9, <1>10, <1>13, <1>14 DEF Inv

\* Publishing the promoted session preserves the invariant.
LEMMA PromoteDoneStep ==
    ASSUME Inv, PromoteDone
    PROVE  Inv'
<1>1. TypeOK'
  BY ReleaseTyped DEF Inv, Activity, Snapshot, Stage, Background, Live, Busy,
     InBackground, TypeOK, BuildInv, CommitInv, NamesInv, PromoteDone,
     FinishOp, sessionVars
<1>2. LockInv' /\ NamesInv' /\ KeysInv'
  BY ReleaseTyped DEF Inv, Activity, Snapshot, Stage, Background, Live, Busy,
     InBackground, TypeOK, LockInv, NamesInv, KeysInv, PromoteDone, FinishOp,
     sessionVars
<1>3. RuntimesLive' /\ BuildInv' /\ CommitInv'
  BY ReleaseTyped DEF Inv, Activity, Snapshot, Stage, Background, Live, Busy,
     InBackground, TypeOK, RuntimesLive, BuildInv, CommitInv, PromoteDone,
     FinishOp, sessionVars
<1>4. BusyInv' /\ NoOrphan'
  BY ReleaseTyped DEF Inv, Activity, Snapshot, Stage, Background, Live, Busy,
     InBackground, TypeOK, BusyInv, NoOrphan, PromoteDone, FinishOp,
     sessionVars
<1> QED BY <1>1, <1>2, <1>3, <1>4 DEF Inv

\* Taking the operation lock of the foreground session preserves the invariant.
LEMMA StartWorkStep ==
    ASSUME NEW what \in {"preflight", "compacting", "navigating"}, Inv, StartWork(what)
    PROVE  Inv'
<1>1. TypeOK'
  BY SMTT(30) DEF Inv, Activity, Snapshot, Runtime, Stage, Background, Live, Busy,
     InBackground, TypeOK, StartWork, Hold, graphVars, opVars, lockVars
<1>2. LockInv' /\ NamesInv' /\ KeysInv'
  BY DEF Inv, Activity, Snapshot, Runtime, Stage, Background, Live, Busy,
     InBackground, TypeOK, LockInv, NamesInv, KeysInv, StartWork, Hold,
     graphVars, opVars, lockVars
<1>3. RuntimesLive' /\ BuildInv' /\ CommitInv'
  BY DEF Inv, Activity, Snapshot, Runtime, Stage, Background, Live, Busy,
     InBackground, TypeOK, RuntimesLive, BuildInv, CommitInv, LockInv,
     NamesInv, KeysInv, StartWork, Hold, graphVars, opVars, lockVars
<1>4. BusyInv' /\ NoOrphan'
  BY DEF Inv, Activity, Snapshot, Runtime, Stage, Background, Live, Busy,
     InBackground, TypeOK, BusyInv, NoOrphan, LockInv, NamesInv, KeysInv,
     RuntimesLive, BuildInv, CommitInv, StartWork, Hold, graphVars, opVars,
     lockVars
<1> QED BY <1>1, <1>2, <1>3, <1>4 DEF Inv

\* A refused prompt preserves the invariant.
LEMMA PreflightFailStep ==
    ASSUME NEW s \in Sessions, Inv, PreflightFail(s)
    PROVE  Inv'
<1>1. TypeOK'
  BY DEF Inv, Activity, Snapshot, Runtime, Stage, Background, Live, Busy,
     InBackground, TypeOK, BuildInv, CommitInv, NamesInv, PreflightFail, Hold,
     graphVars, opVars, lockVars
<1>2. LockInv' /\ NamesInv' /\ KeysInv'
  BY DEF Inv, Activity, Snapshot, Runtime, Stage, Background, Live, Busy,
     InBackground, TypeOK, LockInv, NamesInv, KeysInv, PreflightFail, Hold,
     graphVars, opVars, lockVars
<1>3. RuntimesLive' /\ BuildInv' /\ CommitInv'
  BY DEF Inv, Activity, Snapshot, Runtime, Stage, Background, Live, Busy,
     InBackground, TypeOK, RuntimesLive, BuildInv, CommitInv, PreflightFail,
     Hold, graphVars, opVars, lockVars
<1>4. BusyInv' /\ NoOrphan'
  BY DEF Inv, Activity, Snapshot, Runtime, Stage, Background, Live, Busy,
     InBackground, TypeOK, BusyInv, NoOrphan, PreflightFail, Hold, graphVars,
     opVars, lockVars
<1> QED BY <1>1, <1>2, <1>3, <1>4 DEF Inv

\* The start of a turn preserves the invariant.
LEMMA TurnStartStep ==
    ASSUME NEW s \in Sessions, Inv, TurnStart(s)
    PROVE  Inv'
<1>1. TypeOK'
  BY DEF Inv, Activity, Snapshot, Runtime, Stage, Background, Live, Busy,
     InBackground, TypeOK, BuildInv, CommitInv, NamesInv, TurnStart, Hold,
     graphVars, opVars, lockVars
<1>2. LockInv' /\ NamesInv' /\ KeysInv'
  BY DEF Inv, Activity, Snapshot, Runtime, Stage, Background, Live, Busy,
     InBackground, TypeOK, LockInv, NamesInv, KeysInv, RuntimesLive, BuildInv,
     CommitInv, BusyInv, NoOrphan, TurnStart, Hold, graphVars, opVars,
     lockVars
<1>3. RuntimesLive' /\ BuildInv' /\ CommitInv'
  BY DEF Inv, Activity, Snapshot, Runtime, Stage, Background, Live, Busy,
     InBackground, TypeOK, RuntimesLive, BuildInv, CommitInv, TurnStart, Hold,
     graphVars, opVars, lockVars
<1>4. BusyInv' /\ NoOrphan'
  BY DEF Inv, Activity, Snapshot, Runtime, Stage, Background, Live, Busy,
     InBackground, TypeOK, BusyInv, NoOrphan, TurnStart, Hold, graphVars,
     opVars, lockVars
<1> QED BY <1>1, <1>2, <1>3, <1>4 DEF Inv

\* The start of an extension command preserves the invariant.
LEMMA CommandStartStep ==
    ASSUME NEW s \in Sessions, Inv, CommandStart(s)
    PROVE  Inv'
<1>1. TypeOK'
  BY DEF Inv, Activity, Snapshot, Runtime, Stage, Background, Live, Busy,
     InBackground, TypeOK, BuildInv, CommitInv, NamesInv, CommandStart, Hold,
     graphVars, opVars, lockVars
<1>2. LockInv' /\ NamesInv' /\ KeysInv'
  BY DEF Inv, Activity, Snapshot, Runtime, Stage, Background, Live, Busy,
     InBackground, TypeOK, LockInv, NamesInv, KeysInv, CommandStart, Hold,
     graphVars, opVars, lockVars
<1>3. RuntimesLive' /\ BuildInv' /\ CommitInv'
  BY DEF Inv, Activity, Snapshot, Runtime, Stage, Background, Live, Busy,
     InBackground, TypeOK, RuntimesLive, BuildInv, CommitInv, CommandStart,
     Hold, graphVars, opVars, lockVars
<1>4. BusyInv' /\ NoOrphan'
  BY DEF Inv, Activity, Snapshot, Runtime, Stage, Background, Live, Busy,
     InBackground, TypeOK, BusyInv, NoOrphan, CommandStart, Hold, graphVars,
     opVars, lockVars
<1> QED BY <1>1, <1>2, <1>3, <1>4 DEF Inv

\* The end of a turn preserves the invariant, whoever holds its session by then.
LEMMA TurnSettleStep ==
    ASSUME NEW s \in Sessions, Inv, TurnSettle(s)
    PROVE  Inv'
<1>1. TypeOK'
  <2>1. timers' \subseteq Runtime
    BY DEF Inv, TypeOK, TurnSettle, ScheduleCleanup, Background
  <2>2. snapshot' \in Snapshot /\ published' \in Snapshot
    <3> [snapshot EXCEPT !.of = s] \in Snapshot
      BY DEF Inv, TypeOK, Snapshot
    <3> QED BY DEF Inv, TypeOK, TurnSettle
  <2>3. activity' \in [Sessions -> Activity]
    BY DEF Inv, TypeOK, TurnSettle, Hold, Activity
  <2> QED BY <2>1, <2>2, <2>3 DEF Inv, TypeOK, TurnSettle, opVars
<1>2. LockInv' /\ NamesInv' /\ KeysInv'
  BY DEF Inv, TypeOK, Snapshot, LockInv, NamesInv, KeysInv, TurnSettle, Background,
     opVars
<1>3. RuntimesLive' /\ BuildInv' /\ CommitInv'
  BY DEF Inv, TypeOK, RuntimesLive, BuildInv, CommitInv, Background, Live, Busy,
     TurnSettle, Hold, Activity, opVars
<1>4. BusyInv' /\ NoOrphan'
  BY DEF Inv, TypeOK, BusyInv, NoOrphan, InBackground, Background, Live, Busy,
     TurnSettle, Hold, Activity, opVars
<1> QED BY <1>1, <1>2, <1>3, <1>4 DEF Inv

\* The end of an extension command preserves the invariant.
LEMMA CommandEndStep ==
    ASSUME NEW s \in Sessions, Inv, CommandEnd(s)
    PROVE  Inv'
<1>1. TypeOK'
  BY SMTT(30) DEF Inv, Activity, Snapshot, Runtime, Stage, Background, Live, Busy,
     InBackground, TypeOK, BuildInv, CommitInv, NamesInv, CommandEnd, Hold,
     ScheduleCleanup, graphVars, opVars
<1>2. LockInv' /\ NamesInv' /\ KeysInv'
  BY DEF Inv, Activity, Snapshot, Runtime, Stage, Background, Live, Busy,
     InBackground, TypeOK, LockInv, NamesInv, KeysInv, CommandEnd, Hold,
     ScheduleCleanup, graphVars, opVars
<1>3. RuntimesLive' /\ BuildInv' /\ CommitInv'
  BY DEF Inv, Activity, Snapshot, Runtime, Stage, Background, Live, Busy,
     InBackground, TypeOK, RuntimesLive, BuildInv, CommitInv, CommandEnd,
     Hold, ScheduleCleanup, graphVars, opVars
<1>4. BusyInv' /\ NoOrphan'
  BY DEF Inv, Activity, Snapshot, Runtime, Stage, Background, Live, Busy,
     InBackground, TypeOK, BusyInv, NoOrphan, CommandEnd, Hold,
     ScheduleCleanup, graphVars, opVars
<1> QED BY <1>1, <1>2, <1>3, <1>4 DEF Inv

\* The end of a compaction preserves the invariant.
LEMMA CompactDoneStep ==
    ASSUME NEW s \in Sessions, Inv, CompactDone(s)
    PROVE  Inv'
<1>1. TypeOK'
  BY SMTT(30) DEF Inv, Activity, Snapshot, Runtime, Stage, Background, Live, Busy,
     InBackground, TypeOK, BuildInv, CommitInv, NamesInv, CompactDone, Hold,
     ScheduleCleanup, Project, opVars
<1>2. LockInv' /\ NamesInv' /\ KeysInv'
  BY DEF Inv, Activity, Snapshot, Runtime, Stage, Background, Live, Busy,
     InBackground, TypeOK, LockInv, NamesInv, KeysInv, CompactDone, Hold,
     ScheduleCleanup, Project, opVars
<1>3. RuntimesLive' /\ BuildInv' /\ CommitInv'
  BY DEF Inv, Activity, Snapshot, Runtime, Stage, Background, Live, Busy,
     InBackground, TypeOK, RuntimesLive, BuildInv, CommitInv, CompactDone,
     Hold, ScheduleCleanup, Project, opVars
<1>4. BusyInv' /\ NoOrphan'
  BY DEF Inv, Activity, Snapshot, Runtime, Stage, Background, Live, Busy,
     InBackground, TypeOK, BusyInv, NoOrphan, CompactDone, Hold,
     ScheduleCleanup, Project, opVars
<1> QED BY <1>1, <1>2, <1>3, <1>4 DEF Inv

\* A failed compaction preserves the invariant.
LEMMA CompactFailStep ==
    ASSUME NEW s \in Sessions, Inv, CompactFail(s)
    PROVE  Inv'
<1>1. TypeOK'
  BY DEF Inv, Activity, Snapshot, Runtime, Stage, Background, Live, Busy,
     InBackground, TypeOK, BuildInv, CommitInv, NamesInv, CompactFail, Hold,
     graphVars, opVars, lockVars
<1>2. LockInv' /\ NamesInv' /\ KeysInv'
  BY DEF Inv, Activity, Snapshot, Runtime, Stage, Background, Live, Busy,
     InBackground, TypeOK, LockInv, NamesInv, KeysInv, CompactFail, Hold,
     graphVars, opVars, lockVars
<1>3. RuntimesLive' /\ BuildInv' /\ CommitInv'
  BY DEF Inv, Activity, Snapshot, Runtime, Stage, Background, Live, Busy,
     InBackground, TypeOK, RuntimesLive, BuildInv, CommitInv, CompactFail,
     Hold, graphVars, opVars, lockVars
<1>4. BusyInv' /\ NoOrphan'
  BY DEF Inv, Activity, Snapshot, Runtime, Stage, Background, Live, Busy,
     InBackground, TypeOK, BusyInv, NoOrphan, CompactFail, Hold, graphVars,
     opVars, lockVars
<1> QED BY <1>1, <1>2, <1>3, <1>4 DEF Inv

\* The end of agent.navigateTree preserves the invariant.
LEMMA NavigateDoneStep ==
    ASSUME NEW s \in Sessions, Inv, NavigateDone(s)
    PROVE  Inv'
<1>1. TypeOK'
  BY DEF Inv, Activity, Snapshot, Runtime, Stage, Background, Live, Busy,
     InBackground, TypeOK, BuildInv, CommitInv, NamesInv, NavigateDone, Hold,
     Project, opVars, lockVars
<1>2. LockInv' /\ NamesInv' /\ KeysInv'
  BY DEF Inv, Activity, Snapshot, Runtime, Stage, Background, Live, Busy,
     InBackground, TypeOK, LockInv, NamesInv, KeysInv, NavigateDone, Hold,
     Project, opVars, lockVars
<1>3. RuntimesLive' /\ BuildInv' /\ CommitInv'
  BY DEF Inv, Activity, Snapshot, Runtime, Stage, Background, Live, Busy,
     InBackground, TypeOK, RuntimesLive, BuildInv, CommitInv, NavigateDone,
     Hold, Project, opVars, lockVars
<1>4. BusyInv' /\ NoOrphan'
  BY DEF Inv, Activity, Snapshot, Runtime, Stage, Background, Live, Busy,
     InBackground, TypeOK, BusyInv, NoOrphan, NavigateDone, Hold, Project,
     opVars, lockVars
<1> QED BY <1>1, <1>2, <1>3, <1>4 DEF Inv

\* An extension's navigateTree preserves the invariant, at its check ...
LEMMA CommandNavigateStep ==
    ASSUME NEW s \in Sessions, Inv, CommandNavigate(s)
    PROVE  Inv'
<1>1. TypeOK'
  BY SMTT(30) DEF Inv, Activity, Snapshot, Runtime, Stage, Background, Live, Busy,
     InBackground, TypeOK, BuildInv, CommitInv, NamesInv, CommandNavigate,
     Hold, graphVars, opVars, lockVars
<1>2. LockInv' /\ NamesInv' /\ KeysInv'
  BY DEF Inv, Activity, Snapshot, Runtime, Stage, Background, Live, Busy,
     InBackground, TypeOK, LockInv, NamesInv, KeysInv, CommandNavigate, Hold,
     graphVars, opVars, lockVars
<1>3. RuntimesLive' /\ BuildInv' /\ CommitInv'
  BY DEF Inv, Activity, Snapshot, Runtime, Stage, Background, Live, Busy,
     InBackground, TypeOK, RuntimesLive, BuildInv, CommitInv, CommandNavigate,
     Hold, graphVars, opVars, lockVars
<1>4. BusyInv' /\ NoOrphan'
  BY DEF Inv, Activity, Snapshot, Runtime, Stage, Background, Live, Busy,
     InBackground, TypeOK, BusyInv, NoOrphan, CommandNavigate, Hold,
     graphVars, opVars, lockVars
<1> QED BY <1>1, <1>2, <1>3, <1>4 DEF Inv

\* ... and after its await.
LEMMA CommandNavigateDoneStep ==
    ASSUME NEW s \in Sessions, Inv, CommandNavigateDone(s)
    PROVE  Inv'
<1>1. TypeOK'
  BY SMTT(30) DEF Inv, Activity, Snapshot, Runtime, Stage, Background, Live, Busy,
     InBackground, TypeOK, BuildInv, CommitInv, NamesInv, CommandNavigateDone,
     Hold, Project, opVars, lockVars
<1>2. LockInv' /\ NamesInv' /\ KeysInv'
  BY DEF Inv, Activity, Snapshot, Runtime, Stage, Background, Live, Busy,
     InBackground, TypeOK, LockInv, NamesInv, KeysInv, CommandNavigateDone,
     Hold, Project, opVars, lockVars
<1>3. RuntimesLive' /\ BuildInv' /\ CommitInv'
  BY DEF Inv, Activity, Snapshot, Runtime, Stage, Background, Live, Busy,
     InBackground, TypeOK, RuntimesLive, BuildInv, CommitInv,
     CommandNavigateDone, Hold, Project, opVars, lockVars
<1>4. BusyInv' /\ NoOrphan'
  BY DEF Inv, Activity, Snapshot, Runtime, Stage, Background, Live, Busy,
     InBackground, TypeOK, BusyInv, NoOrphan, CommandNavigateDone, Hold,
     Project, opVars, lockVars
<1> QED BY <1>1, <1>2, <1>3, <1>4 DEF Inv

\* A clean-up asking for the graph lock preserves the invariant.
LEMMA SettleTimerStep ==
    ASSUME NEW rt \in timers, Inv, SettleTimer(rt)
    PROVE  Inv'
<1>1. /\ rt \in Runtime /\ timers' = timers \ {rt}
      /\ UNCHANGED <<sessionVars, graphVars, opVars, disposing, fileOp>>
  BY DEF Inv, TypeOK, SettleTimer
<1>2. /\ graphLock' \in {"free", "switch", "settle", "file"}
      /\ lockQueue' \in Seq(Runtime) /\ cleaning' \in Runtime \cup {NoRuntime}
      /\ (graphLock' = "switch") <=> (graphLock = "switch")
      /\ (graphLock' = "settle") <=> (cleaning' # NoRuntime)
  <2> /\ lockQueue \in Seq(Runtime) /\ cleaning \in Runtime \cup {NoRuntime}
      /\ graphLock \in {"free", "switch", "settle", "file"}
      /\ (graphLock = "settle") <=> (cleaning # NoRuntime)
    BY DEF Inv, TypeOK, LockInv
  <2>1. CASE UNCHANGED <<graphLock, lockQueue, cleaning>>
    BY <2>1
  <2>2. CASE RequestGraph(rt)
    <3>1. CASE graphLock = "free"
      BY <1>1, <2>2, <3>1, NoRuntimeAssumption DEF RequestGraph
    <3>2. CASE graphLock # "free"
      <4>1. /\ lockQueue' = Append(lockQueue, rt)
            /\ UNCHANGED <<graphLock, cleaning>>
        BY <2>2, <3>2 DEF RequestGraph
      <4>2. Append(lockQueue, rt) \in Seq(Runtime)
        BY <1>1
      <4> QED BY <4>1, <4>2
    <3> QED BY <3>1, <3>2
  <2> QED BY <2>1, <2>2 DEF SettleTimer
<1>3. TypeOK'
  BY <1>1, <1>2 DEF Inv, TypeOK, sessionVars, graphVars, opVars
<1>4. LockInv' /\ NamesInv' /\ KeysInv'
  BY <1>1, <1>2 DEF Inv, LockInv, NamesInv, KeysInv, Background, sessionVars,
     graphVars, opVars
<1>5. RuntimesLive' /\ BuildInv' /\ CommitInv'
  BY <1>1 DEF Inv, RuntimesLive, BuildInv, CommitInv, Background, Live, Busy,
     sessionVars, graphVars, opVars
<1>6. BusyInv' /\ NoOrphan'
  BY <1>1 DEF Inv, BusyInv, NoOrphan, InBackground, Background, Live, Busy,
     sessionVars, graphVars, opVars
<1> QED BY <1>3, <1>4, <1>5, <1>6 DEF Inv

\* A clean-up with nothing to do preserves the invariant.
LEMMA SettleSkipStep ==
    ASSUME Inv, SettleSkip
    PROVE  Inv'
<1>1. TypeOK'
  BY ReleaseTyped DEF Inv, Activity, Snapshot, Stage, Background, Live, Busy,
     InBackground, TypeOK, SettleSkip, StillRetained, sessionVars, graphVars,
     opVars
<1>2. LockInv' /\ NamesInv' /\ KeysInv'
  BY ReleaseTyped DEF Inv, Activity, Snapshot, Stage, Background, Live, Busy,
     InBackground, TypeOK, LockInv, NamesInv, KeysInv, SettleSkip,
     StillRetained, sessionVars, graphVars, opVars
<1>3. RuntimesLive' /\ BuildInv' /\ CommitInv'
  BY ReleaseTyped DEF Inv, Activity, Snapshot, Stage, Background, Live, Busy,
     InBackground, TypeOK, RuntimesLive, BuildInv, CommitInv, SettleSkip,
     StillRetained, sessionVars, graphVars, opVars
<1>4. BusyInv' /\ NoOrphan'
  BY ReleaseTyped DEF Inv, Activity, Snapshot, Stage, Background, Live, Busy,
     InBackground, TypeOK, BusyInv, NoOrphan, SettleSkip, StillRetained,
     sessionVars, graphVars, opVars
<1> QED BY <1>1, <1>2, <1>3, <1>4 DEF Inv

\* A clean-up disposing of its runtime preserves the invariant.
LEMMA SettleDisposeStep ==
    ASSUME Inv, SettleDispose
    PROVE  Inv'
<1>1. TypeOK'
  BY DEF Inv, Activity, Snapshot, Runtime, Stage, Background, Live, Busy,
     InBackground, TypeOK, SettleDispose, StillRetained, opVars
<1>2. LockInv' /\ NamesInv' /\ KeysInv'
  BY DEF Inv, Activity, Snapshot, Runtime, Stage, Background, Live, Busy,
     InBackground, TypeOK, LockInv, NamesInv, KeysInv, RuntimesLive, BuildInv,
     CommitInv, BusyInv, NoOrphan, SettleDispose, StillRetained, opVars
<1>3. RuntimesLive' /\ BuildInv' /\ CommitInv'
  BY DEF Inv, Activity, Snapshot, Runtime, Stage, Background, Live, Busy,
     InBackground, TypeOK, RuntimesLive, BuildInv, CommitInv, LockInv,
     NamesInv, KeysInv, SettleDispose, StillRetained, opVars
<1>4. BusyInv' /\ NoOrphan'
  BY DEF Inv, Activity, Snapshot, Runtime, Stage, Background, Live, Busy,
     InBackground, TypeOK, BusyInv, NoOrphan, SettleDispose, StillRetained,
     opVars
<1> QED BY <1>1, <1>2, <1>3, <1>4 DEF Inv

\* A clean-up releasing the graph lock preserves the invariant.
LEMMA SettleDoneStep ==
    ASSUME Inv, SettleDone
    PROVE  Inv'
<1>1. TypeOK'
  BY ReleaseTyped DEF Inv, Activity, Snapshot, Stage, Background, Live, Busy,
     InBackground, TypeOK, SettleDone, sessionVars, graphVars, opVars
<1>2. LockInv' /\ NamesInv' /\ KeysInv'
  BY ReleaseTyped DEF Inv, Activity, Snapshot, Stage, Background, Live, Busy,
     InBackground, TypeOK, LockInv, NamesInv, KeysInv, SettleDone,
     sessionVars, graphVars, opVars
<1>3. RuntimesLive' /\ BuildInv' /\ CommitInv'
  BY ReleaseTyped DEF Inv, Activity, Snapshot, Stage, Background, Live, Busy,
     InBackground, TypeOK, RuntimesLive, BuildInv, CommitInv, SettleDone,
     sessionVars, graphVars, opVars
<1>4. BusyInv' /\ NoOrphan'
  BY ReleaseTyped DEF Inv, Activity, Snapshot, Stage, Background, Live, Busy,
     InBackground, TypeOK, BusyInv, NoOrphan, SettleDone, sessionVars,
     graphVars, opVars
<1> QED BY <1>1, <1>2, <1>3, <1>4 DEF Inv

\* The start of a session file mutation preserves the invariant.
LEMMA FileOpBeginStep ==
    ASSUME NEW what \in FileOp, NEW f \in Files, Inv, FileOpBegin(what, f)
    PROVE  Inv'
<1>1. TypeOK'
  BY SMTT(30) DEF Inv, Activity, Snapshot, Stage, Background, Live, Busy, InBackground,
     TypeOK, Runtime, FileOp, FileStep, FileOpBegin, AcquireGraph, sessionVars,
     graphVars, opVars
<1>2. LockInv' /\ NamesInv' /\ KeysInv'
  BY DEF Inv, Activity, Snapshot, Stage, Background, Live, Busy, InBackground,
     TypeOK, Runtime, LockInv, NamesInv, KeysInv, FileOpBegin, AcquireGraph,
     sessionVars, graphVars, opVars
<1>3. RuntimesLive' /\ BuildInv' /\ CommitInv'
  BY DEF Inv, Activity, Snapshot, Stage, Background, Live, Busy, InBackground,
     TypeOK, Runtime, RuntimesLive, BuildInv, CommitInv, FileOpBegin,
     AcquireGraph, sessionVars, graphVars, opVars
<1>4. BusyInv' /\ NoOrphan'
  BY DEF Inv, Activity, Snapshot, Stage, Background, Live, Busy, InBackground,
     TypeOK, Runtime, BusyInv, NoOrphan, FileOpBegin, AcquireGraph, sessionVars,
     graphVars, opVars
<1> QED BY <1>1, <1>2, <1>3, <1>4 DEF Inv

\* The start of session.cleanupArchived preserves the invariant.
LEMMA CleanupBeginStep ==
    ASSUME Inv, CleanupBegin
    PROVE  Inv'
<1>1. TypeOK'
  BY DEF Inv, Activity, Snapshot, Stage, Background, Live, Busy, InBackground,
     TypeOK, Runtime, FileOp, FileStep, CleanupBegin, AcquireGraph, sessionVars,
     graphVars, opVars
<1>2. LockInv' /\ NamesInv' /\ KeysInv'
  BY DEF Inv, Activity, Snapshot, Stage, Background, Live, Busy, InBackground,
     TypeOK, Runtime, LockInv, NamesInv, KeysInv, CleanupBegin, AcquireGraph,
     sessionVars, graphVars, opVars
<1>3. RuntimesLive' /\ BuildInv' /\ CommitInv'
  BY DEF Inv, Activity, Snapshot, Stage, Background, Live, Busy, InBackground,
     TypeOK, Runtime, RuntimesLive, BuildInv, CommitInv, CleanupBegin,
     AcquireGraph, sessionVars, graphVars, opVars
<1>4. BusyInv' /\ NoOrphan'
  BY DEF Inv, Activity, Snapshot, Stage, Background, Live, Busy, InBackground,
     TypeOK, Runtime, BusyInv, NoOrphan, CleanupBegin, AcquireGraph, sessionVars,
     graphVars, opVars
<1> QED BY <1>1, <1>2, <1>3, <1>4 DEF Inv

\* A refused mutation preserves the invariant.
LEMMA FileOpRefuseStep ==
    ASSUME Inv, FileOpRefuse
    PROVE  Inv'
<1>1. TypeOK'
  BY SMTT(30), ReleaseTyped DEF Inv, Activity, Snapshot, Stage, Background, Live, Busy,
     InBackground, TypeOK, FileOp, FileStep, FileOpRefuse, EndFileOp,
     sessionVars, graphVars, opVars
<1>2. LockInv' /\ NamesInv' /\ KeysInv'
  BY ReleaseTyped DEF Inv, Activity, Snapshot, Stage, Background, Live, Busy,
     InBackground, TypeOK, LockInv, NamesInv, KeysInv, FileOpRefuse, EndFileOp,
     sessionVars, graphVars, opVars
<1>3. RuntimesLive' /\ BuildInv' /\ CommitInv'
  BY ReleaseTyped DEF Inv, Activity, Snapshot, Stage, Background, Live, Busy,
     InBackground, TypeOK, RuntimesLive, BuildInv, CommitInv, FileOpRefuse,
     EndFileOp, sessionVars, graphVars, opVars
<1>4. BusyInv' /\ NoOrphan'
  BY ReleaseTyped DEF Inv, Activity, Snapshot, Stage, Background, Live, Busy,
     InBackground, TypeOK, BusyInv, NoOrphan, FileOpRefuse, EndFileOp,
     sessionVars, graphVars, opVars
<1> QED BY <1>1, <1>2, <1>3, <1>4 DEF Inv

\* An admitted mutation preserves the invariant: session.delete disposes of an
\* idle background runtime only.
LEMMA FileOpAdmitStep ==
    ASSUME Inv, FileOpAdmit
    PROVE  Inv'
<1>1. TypeOK'
  <2>1. fileOp' \in [what : FileOp, file : Files, step : FileStep]
    <3> fileOp \in [what : FileOp, file : Files, step : FileStep]
      BY DEF Inv, TypeOK
    <3>1. fileOp' = [fileOp EXCEPT !.step = "moving"]
      BY DEF FileOpAdmit
    <3> QED BY <3>1 DEF FileStep
  <2>2. /\ background' \in [Files -> Runtime \cup {NoRuntime}]
        /\ built' \in [Sessions -> {"unbuilt", "live", "disposed"}]
    BY DEF Inv, TypeOK, FileOpAdmit
  <2> QED BY <2>1, <2>2 DEF Inv, TypeOK, FileOpAdmit, opVars
<1>2. LockInv' /\ NamesInv' /\ KeysInv'
  BY DEF Inv, Activity, Snapshot, Stage, Background, Live, Busy, InBackground,
     TypeOK, Runtime, LockInv, NamesInv, KeysInv, RuntimesLive, BuildInv,
     CommitInv, BusyInv, NoOrphan, FileOpAdmit, Admitted, opVars
<1>3. RuntimesLive' /\ BuildInv' /\ CommitInv'
  BY DEF Inv, Activity, Snapshot, Stage, Background, Live, Busy, InBackground,
     TypeOK, Runtime, RuntimesLive, BuildInv, CommitInv, LockInv, NamesInv,
     KeysInv, FileOpAdmit, Admitted, opVars
<1>4. BusyInv' /\ NoOrphan'
  BY DEF Inv, Activity, Snapshot, Stage, Background, Live, Busy, InBackground,
     TypeOK, Runtime, BusyInv, NoOrphan, FileOpAdmit, Admitted, opVars
<1> QED BY <1>1, <1>2, <1>3, <1>4 DEF Inv

\* The unlink or the move preserves the invariant.
LEMMA FileOpDoneStep ==
    ASSUME Inv, FileOpDone
    PROVE  Inv'
<1>1. TypeOK'
  BY ReleaseTyped DEF Inv, Activity, Snapshot, Stage, Background, Live, Busy,
     InBackground, TypeOK, FileOp, FileStep, FileOpDone, EndFileOp, graphVars,
     opVars
<1>2. LockInv' /\ NamesInv' /\ KeysInv'
  BY ReleaseTyped DEF Inv, Activity, Snapshot, Stage, Background, Live, Busy,
     InBackground, TypeOK, LockInv, NamesInv, KeysInv, FileOpDone, EndFileOp,
     graphVars, opVars
<1>3. RuntimesLive' /\ BuildInv' /\ CommitInv'
  BY ReleaseTyped DEF Inv, Activity, Snapshot, Stage, Background, Live, Busy,
     InBackground, TypeOK, RuntimesLive, BuildInv, CommitInv, FileOpDone,
     EndFileOp, graphVars, opVars
<1>4. BusyInv' /\ NoOrphan'
  BY ReleaseTyped DEF Inv, Activity, Snapshot, Stage, Background, Live, Busy,
     InBackground, TypeOK, BusyInv, NoOrphan, FileOpDone, EndFileOp, graphVars,
     opVars
<1> QED BY <1>1, <1>2, <1>3, <1>4 DEF Inv

\* Renaming the foreground session preserves the invariant.
LEMMA RenameActiveStep ==
    ASSUME Inv, RenameActive
    PROVE  Inv'
<1>1. TypeOK'
  BY SMTT(30), ReleaseTyped DEF Inv, Activity, Snapshot, Stage, Background, Live, Busy,
     InBackground, TypeOK, FileOp, FileStep, RenameActive, SetActiveName,
     Project, EndFileOp, sessionVars, opVars
<1>2. LockInv' /\ NamesInv' /\ KeysInv'
  BY ReleaseTyped DEF Inv, Activity, Snapshot, Stage, Background, Live, Busy,
     InBackground, TypeOK, LockInv, NamesInv, KeysInv, RenameActive,
     SetActiveName, Project, EndFileOp, sessionVars, opVars
<1>3. RuntimesLive' /\ BuildInv' /\ CommitInv'
  BY ReleaseTyped DEF Inv, Activity, Snapshot, Stage, Background, Live, Busy,
     InBackground, TypeOK, RuntimesLive, BuildInv, CommitInv, RenameActive,
     SetActiveName, Project, EndFileOp, sessionVars, opVars
<1>4. BusyInv' /\ NoOrphan'
  BY ReleaseTyped DEF Inv, Activity, Snapshot, Stage, Background, Live, Busy,
     InBackground, TypeOK, BusyInv, NoOrphan, RenameActive, SetActiveName,
     Project, EndFileOp, sessionVars, opVars
<1> QED BY <1>1, <1>2, <1>3, <1>4 DEF Inv

\* A mutation that fails preserves the invariant.
LEMMA FileOpFailStep ==
    ASSUME Inv, FileOpFail
    PROVE  Inv'
<1>1. TypeOK'
  BY ReleaseTyped DEF Inv, Activity, Snapshot, Stage, Background, Live, Busy,
     InBackground, TypeOK, FileOp, FileStep, FileOpFail, EndFileOp, sessionVars,
     graphVars, opVars
<1>2. LockInv' /\ NamesInv' /\ KeysInv'
  BY ReleaseTyped DEF Inv, Activity, Snapshot, Stage, Background, Live, Busy,
     InBackground, TypeOK, LockInv, NamesInv, KeysInv, FileOpFail, EndFileOp,
     sessionVars, graphVars, opVars
<1>3. RuntimesLive' /\ BuildInv' /\ CommitInv'
  BY ReleaseTyped DEF Inv, Activity, Snapshot, Stage, Background, Live, Busy,
     InBackground, TypeOK, RuntimesLive, BuildInv, CommitInv, FileOpFail,
     EndFileOp, sessionVars, graphVars, opVars
<1>4. BusyInv' /\ NoOrphan'
  BY ReleaseTyped DEF Inv, Activity, Snapshot, Stage, Background, Live, Busy,
     InBackground, TypeOK, BusyInv, NoOrphan, FileOpFail, EndFileOp, sessionVars,
     graphVars, opVars
<1> QED BY <1>1, <1>2, <1>3, <1>4 DEF Inv

\* Emptying the archive preserves the invariant.
LEMMA CleanupSweepStep ==
    ASSUME Inv, CleanupSweep
    PROVE  Inv'
<1>1. TypeOK'
  BY ReleaseTyped DEF Inv, Activity, Snapshot, Stage, Background, Live, Busy,
     InBackground, TypeOK, FileOp, FileStep, CleanupSweep, EndFileOp, graphVars,
     opVars
<1>2. LockInv' /\ NamesInv' /\ KeysInv'
  BY ReleaseTyped DEF Inv, Activity, Snapshot, Stage, Background, Live, Busy,
     InBackground, TypeOK, LockInv, NamesInv, KeysInv, CleanupSweep, EndFileOp,
     graphVars, opVars
<1>3. RuntimesLive' /\ BuildInv' /\ CommitInv'
  BY ReleaseTyped DEF Inv, Activity, Snapshot, Stage, Background, Live, Busy,
     InBackground, TypeOK, RuntimesLive, BuildInv, CommitInv, CleanupSweep,
     EndFileOp, graphVars, opVars
<1>4. BusyInv' /\ NoOrphan'
  BY ReleaseTyped DEF Inv, Activity, Snapshot, Stage, Background, Live, Busy,
     InBackground, TypeOK, BusyInv, NoOrphan, CleanupSweep, EndFileOp, graphVars,
     opVars
<1> QED BY <1>1, <1>2, <1>3, <1>4 DEF Inv

\* session.setName preserves the invariant.
LEMMA SetNameStep ==
    ASSUME Inv, SetName
    PROVE  Inv'
<1>1. TypeOK'
  BY SMTT(30) DEF Inv, Activity, Snapshot, Stage, Background, Live, Busy, InBackground,
     TypeOK, Runtime, FileOp, FileStep, SetName, SetActiveName, Project,
     sessionVars, opVars, lockVars
<1>2. LockInv' /\ NamesInv' /\ KeysInv'
  BY DEF Inv, Activity, Snapshot, Stage, Background, Live, Busy, InBackground,
     TypeOK, Runtime, LockInv, NamesInv, KeysInv, SetName, SetActiveName,
     Project, sessionVars, opVars, lockVars
<1>3. RuntimesLive' /\ BuildInv' /\ CommitInv'
  BY DEF Inv, Activity, Snapshot, Stage, Background, Live, Busy, InBackground,
     TypeOK, Runtime, RuntimesLive, BuildInv, CommitInv, SetName, SetActiveName,
     Project, sessionVars, opVars, lockVars
<1>4. BusyInv' /\ NoOrphan'
  BY DEF Inv, Activity, Snapshot, Stage, Background, Live, Busy, InBackground,
     TypeOK, Runtime, BusyInv, NoOrphan, SetName, SetActiveName, Project,
     sessionVars, opVars, lockVars
<1> QED BY <1>1, <1>2, <1>3, <1>4 DEF Inv

\* Copying a conversation to a new file preserves the invariant.
LEMMA ForkFileStep ==
    ASSUME NEW f \in Files, Inv, ForkFile(f)
    PROVE  Inv'
<1>1. TypeOK'
  BY SMTT(30) DEF Inv, Activity, Snapshot, Stage, Background, Live, Busy, InBackground,
     TypeOK, Runtime, FileOp, FileStep, ForkFile, graphVars, opVars, lockVars
<1>2. LockInv' /\ NamesInv' /\ KeysInv'
  BY DEF Inv, Activity, Snapshot, Stage, Background, Live, Busy, InBackground,
     TypeOK, Runtime, LockInv, NamesInv, KeysInv, ForkFile, graphVars, opVars,
     lockVars
<1>3. RuntimesLive' /\ BuildInv' /\ CommitInv'
  BY DEF Inv, Activity, Snapshot, Stage, Background, Live, Busy, InBackground,
     TypeOK, Runtime, RuntimesLive, BuildInv, CommitInv, ForkFile, graphVars,
     opVars, lockVars
<1>4. BusyInv' /\ NoOrphan'
  BY DEF Inv, Activity, Snapshot, Stage, Background, Live, Busy, InBackground,
     TypeOK, Runtime, BusyInv, NoOrphan, ForkFile, graphVars, opVars, lockVars
<1> QED BY <1>1, <1>2, <1>3, <1>4 DEF Inv

-----------------------------------------------------------------------------
\* Every initial state satisfies the invariant.
LEMMA InitInv == Init => Inv
<1> SUFFICES ASSUME Init PROVE Inv
  OBVIOUS
<1> PICK s \in Sessions, f \in Files, saved \in SUBSET Files :
        /\ built = [t \in Sessions |-> IF t = s THEN "live" ELSE "unbuilt"]
        /\ fileOf = [t \in Sessions |-> f]
        /\ activity = [t \in Sessions |-> "none"]
        /\ used = IF f \in saved THEN {s} ELSE {}
        /\ disk = saved /\ archive = {}
        /\ fresh = Files \ (saved \cup {f})
        /\ active = s
        /\ identity = [file |-> f, rev |-> 1]
        /\ snapshot = [of |-> s, file |-> f, rev |-> 1]
        /\ published = [of |-> s, file |-> f, rev |-> 1]
        /\ background = [g \in Files |-> NoRuntime]
        /\ retentions = [t \in Sessions |-> 0]
        /\ stage = "none" /\ kind = "open" /\ candidate = NoSession
        /\ prev = [session |-> s, file |-> f, rev |-> 1,
                   snapshot |-> [of |-> s, file |-> f, rev |-> 1]]
        /\ retained = NoRuntime
        /\ graphLock = "free" /\ lockQueue = <<>> /\ cleaning = NoRuntime
        /\ disposing = FALSE /\ timers = {}
        /\ fileOp = [what |-> "delete", file |-> f, step |-> "none"]
  BY DEF Init
<1>1. TypeOK
  <2>1. /\ snapshot \in Snapshot /\ published \in Snapshot /\ fresh \subseteq Files
        /\ prev \in [session : Sessions, file : Files, rev : Nat, snapshot : Snapshot]
    BY DEF Snapshot
  <2>2. lockQueue \in Seq(Runtime) /\ background \in [Files -> Runtime \cup {NoRuntime}]
    OBVIOUS
  <2>3. used \subseteq Sessions /\ disk \subseteq Files
    OBVIOUS
  <2> QED BY <2>1, <2>2, <2>3 DEF TypeOK, Activity, Stage, FileOp, FileStep
<1>2. LockInv /\ NamesInv /\ KeysInv /\ RuntimesLive
  BY DEF LockInv, NamesInv, KeysInv, RuntimesLive, Background, Live
<1>3. BuildInv /\ CommitInv /\ BusyInv /\ NoOrphan
  BY DEF BuildInv, CommitInv, BusyInv, NoOrphan, Busy, Live
<1> QED BY <1>1, <1>2, <1>3 DEF Inv

\* Every step of the Host, or a stutter, preserves the invariant.
LEMMA NextInv == Inv /\ [Next]_vars => Inv'
<1> SUFFICES ASSUME Inv, [Next]_vars PROVE Inv'
  OBVIOUS
<1>1. CASE UserSwitch
  BY <1>1, CreateReuseStep, CreateBeginStep, OpenBeginStep, ReloadBeginStep,
     OpenPromoteStep, ForkFileStep, SetNameStep, CleanupBeginStep,
     FileOpBeginStep DEF UserSwitch
<1>2. CASE SwitchStep
  BY <1>2, BuildOkStep, BuildFailStep, BindFailStep, DiscardDoneStep, CommitStep,
     ActivateOkStep, ActivateFailStep, RollbackDoneStep, RetirePrevStep,
     SwitchDoneStep, PromoteDoneStep DEF SwitchStep
<1>3. CASE Work
  <2>1. CASE PromptAccept \/ CompactStart \/ NavigateStart
    BY <2>1, StartWorkStep DEF PromptAccept, CompactStart, NavigateStart
  <2>2. ASSUME NEW s \in Sessions,
               \/ PreflightFail(s) \/ TurnStart(s) \/ CommandStart(s)
               \/ TurnSettle(s) \/ CommandEnd(s)
               \/ CompactDone(s) \/ CompactFail(s) \/ NavigateDone(s)
               \/ CommandNavigate(s) \/ CommandNavigateDone(s)
        PROVE  Inv'
    BY <2>2, PreflightFailStep, TurnStartStep, CommandStartStep, TurnSettleStep,
       CommandEndStep, CompactDoneStep, CompactFailStep, NavigateDoneStep,
       CommandNavigateStep, CommandNavigateDoneStep
  <2> QED BY <1>3, <2>1, <2>2 DEF Work
<1>4. CASE CleanupStep
  BY <1>4, SettleSkipStep, SettleDisposeStep, SettleDoneStep DEF CleanupStep
<1>5. CASE FileOpStep
  BY <1>5, FileOpRefuseStep, FileOpAdmitStep, FileOpDoneStep, RenameActiveStep,
     FileOpFailStep, CleanupSweepStep DEF FileOpStep
<1>6. CASE \E rt \in timers : SettleTimer(rt)
  BY <1>6, SettleTimerStep
<1>7. CASE UNCHANGED vars
  <2> USE <1>7 DEF vars, sessionVars, graphVars, opVars, lockVars
  <2>1. TypeOK' /\ LockInv'
    BY DEF Inv, TypeOK, LockInv
  <2>2. NamesInv' /\ KeysInv' /\ RuntimesLive'
    BY DEF Inv, NamesInv, KeysInv, RuntimesLive, Background, Live
  <2>3. BuildInv' /\ CommitInv'
    BY DEF Inv, BuildInv, CommitInv, Background, Live, Busy
  <2>4. BusyInv' /\ NoOrphan'
    BY DEF Inv, BusyInv, NoOrphan, InBackground, Background, Live, Busy
  <2> QED BY <2>1, <2>2, <2>3, <2>4 DEF Inv
<1> QED BY <1>1, <1>2, <1>3, <1>4, <1>5, <1>6, <1>7 DEF Next

\* The invariant holds in every reachable state.
THEOREM Invariance == Spec => []Inv
  BY InitInv, NextInv, PTL DEF Spec

\* Type correctness of the session runtime cache and its transactions.
THEOREM TypeCorrect == Spec => []TypeOK
<1>1. Inv => TypeOK
  BY DEF Inv
<1> QED BY <1>1, Invariance, PTL

\* Whatever clean-ups, roll-backs and deletions do, the foreground session and
\* the retained runtimes are never disposed of under the Host's feet.
THEOREM ServedRuntimesAreLive == Spec => []RuntimesLive
<1>1. Inv => RuntimesLive
  BY DEF Inv
<1> QED BY <1>1, Invariance, PTL

\* No failure path of a session transaction leaks a live session.
THEOREM NoSessionIsLost == Spec => []NoOrphan
<1>1. Inv => NoOrphan
  BY DEF Inv
<1> QED BY <1>1, Invariance, PTL

\* A roll-back restores an identity and a snapshot that agree.
THEOREM SnapshotAgreesWithIdentity == Spec => []SnapshotNamesActive
<1>1. Inv => SnapshotNamesActive
  BY DEF Inv, NamesInv, SnapshotNamesActive
<1> QED BY <1>1, Invariance, PTL

-----------------------------------------------------------------------------
\* What is known of the files: no built session has its file in the archive, a
\* session with a transcript was built, and while a mutation is under way it
\* owns the graph lock.
FilesInv ==
    /\ LiveFilesExist
    /\ \A s \in used : built[s] # "unbuilt"
    /\ stage = "building" => fileOf[candidate] \notin archive
    /\ fileOp.step # "none" => graphLock = "file"
    /\ fileOp.step = "listing" => fileOp.what # "cleanup"
    /\ fileOp.step \in {"listing", "moving"} /\ fileOp.what = "restore"
          => fileOp.file \in archive

\* A step that moves no file, begins no session on an archived file and leaves
\* the mutation that owns the lock and the foreground alone preserves it.
LEMMA QuietFiles ==
    ASSUME Inv, FilesInv,
           UNCHANGED <<used, disk, archive, fileOp>>,
           \A s \in Sessions : built'[s] = "live" =>
              Live(s) /\ fileOf'[s] = fileOf[s],
           \A s \in Sessions : built[s] # "unbuilt" => built'[s] # "unbuilt",
           stage' = "building" => fileOf'[candidate'] \notin archive,
           graphLock = "file" =>
              /\ graphLock' = "file" /\ active' = active
              /\ activity[active] = "none" => activity'[active] = "none"
    PROVE  FilesInv'
<1>1. used \subseteq Sessions /\ active \in Sessions
  BY DEF Inv, TypeOK
<1>2. LiveFilesExist'
  BY <1>1 DEF FilesInv, LiveFilesExist, Live, Busy
<1> QED BY <1>1, <1>2 DEF FilesInv

\* Between transactions a live session is the foreground's or the one retained
\* under its file.
LEMMA LiveHolder ==
    ASSUME Inv, stage = "none", NEW s \in Sessions, Live(s)
    PROVE  \/ s = active /\ fileOf[s] = identity.file /\ fileOf[s] = snapshot.file
           \/ Background(fileOf[s]) /\ background[fileOf[s]].session = s
<1>1. s = active \/ InBackground(s)
  BY DEF Inv, NoOrphan
<1>2. CASE s = active
  BY <1>2 DEF Inv, NamesInv
<1>3. CASE InBackground(s)
  BY <1>3 DEF Inv, RuntimesLive, InBackground
<1> QED BY <1>1, <1>2, <1>3

\* Transactions, work and clean-ups preserve FilesInv.
LEMMA SwitchFiles ==
    ASSUME Inv, FilesInv, SwitchStep \/ UserSwitch \/ CleanupStep
    PROVE  FilesInv'
<1> USE DEF Live
<1>1. /\ graphLock = "switch" <=> stage # "none"
      /\ \A f \in disk : f \notin archive
      /\ \A f \in fresh : f \notin archive
      /\ active \in Sessions /\ used \subseteq Sessions
      /\ built \in [Sessions -> {"unbuilt", "live", "disposed"}]
      /\ fileOf \in [Sessions -> Files]
  BY DEF Inv, LockInv, KeysInv, TypeOK, FilesInv, LiveFilesExist
<1>2. CASE CreateReuse
  BY <1>2, QuietFiles DEF CreateReuse, sessionVars, opVars, lockVars, FilesInv
<1>3. ASSUME NEW s \in Sessions, NEW f \in Files, CreateBegin(s, f)
      PROVE  FilesInv'
  BY <1>1, <1>3, QuietFiles DEF CreateBegin, AcquireGraph, graphVars
<1>4. ASSUME NEW s \in Sessions, NEW f \in Files, OpenBegin(s, f)
      PROVE  FilesInv'
  BY <1>1, <1>4, QuietFiles DEF OpenBegin, MayBuild, AcquireGraph, graphVars
<1>5. ASSUME NEW s \in Sessions, ReloadBegin(s)
      PROVE  FilesInv'
  BY <1>1, <1>5, QuietFiles DEF ReloadBegin, AcquireGraph, graphVars
<1>6. ASSUME NEW f \in Files, OpenPromote(f)
      PROVE  FilesInv'
  BY <1>1, <1>6, QuietFiles DEF OpenPromote, AcquireGraph
<1>7. ASSUME NEW f \in Files, ForkFile(f)
      PROVE  FilesInv'
  <2>1. LiveFilesExist'
    BY <1>1, <1>7 DEF ForkFile, FilesInv, LiveFilesExist, graphVars, opVars,
       lockVars, Busy
  <2> QED BY <2>1, <1>7 DEF ForkFile, FilesInv, graphVars, opVars, lockVars
<1>8. CASE SetName
  BY <1>1, <1>8, QuietFiles DEF SetName, SetActiveName, sessionVars, opVars,
     lockVars, FilesInv
<1>9. ASSUME NEW what \in FileOp \ {"cleanup"}, NEW f \in Files,
             FileOpBegin(what, f)
      PROVE  FilesInv'
  <2>1. LiveFilesExist'
    BY <1>9 DEF FileOpBegin, FilesInv, LiveFilesExist, sessionVars, graphVars,
       Busy
  <2> QED BY <2>1, <1>9 DEF FileOpBegin, AcquireGraph, FilesInv, sessionVars,
          graphVars, opVars
<1>10. CASE CleanupBegin
  <2>1. LiveFilesExist'
    BY <1>10 DEF CleanupBegin, FilesInv, LiveFilesExist, sessionVars, graphVars,
       Busy
  <2> QED BY <2>1, <1>10 DEF CleanupBegin, AcquireGraph, FilesInv, sessionVars,
          graphVars, opVars
<1>11. CASE BuildOk
  <2>1. /\ stage = "building" /\ graphLock = "switch" /\ fileOp.step = "none"
        /\ candidate \in Sessions /\ built[candidate] = "unbuilt"
        /\ fileOf[candidate] \notin archive /\ candidate \notin used
    BY <1>1, <1>11 DEF BuildOk, FilesInv, Inv, BuildInv
  <2>2. built' = [built EXCEPT ![candidate] = "live"]
    BY <1>11 DEF BuildOk
  <2>3. used' = IF fileOf[candidate] \in disk THEN used \cup {candidate} ELSE used
    BY <1>11 DEF BuildOk
  <2>4. UNCHANGED <<fileOf, disk, archive, candidate, graphLock, fileOp>>
        /\ stage' = "binding"
    BY <1>11 DEF BuildOk, lockVars
  <2>5. LiveFilesExist'
    BY <1>1, <2>1, <2>2, <2>3, <2>4 DEF FilesInv, LiveFilesExist
  <2> QED BY <1>1, <2>1, <2>2, <2>3, <2>4, <2>5 DEF FilesInv
<1>12. CASE BuildFail \/ DiscardDone \/ SwitchDone
  BY <1>1, <1>12, QuietFiles DEF BuildFail, DiscardDone, SwitchDone, FinishOp,
     sessionVars, graphVars
<1>13. CASE RollbackDone \/ PromoteDone
  BY <1>1, <1>13, QuietFiles DEF RollbackDone, PromoteDone, FinishOp, sessionVars
<1>14. CASE BindFail \/ RetirePrev
  BY <1>1, <1>14, QuietFiles DEF BindFail, RetirePrev, graphVars, lockVars
<1>15. CASE Commit
  BY <1>1, <1>15, QuietFiles DEF Commit, sessionVars, lockVars
<1>16. CASE ActivateOk \/ ActivateFail
  BY <1>1, <1>16, QuietFiles DEF ActivateOk, ActivateFail, sessionVars, lockVars
<1>17. CASE SettleSkip \/ SettleDone
  BY <1>1, <1>17, QuietFiles DEF SettleSkip, SettleDone, sessionVars, graphVars,
     opVars, FilesInv
<1>18. CASE SettleDispose
  BY <1>1, <1>18, QuietFiles DEF SettleDispose, opVars, FilesInv
<1> QED
  BY <1>2, <1>3, <1>4, <1>5, <1>6, <1>7, <1>8, <1>9, <1>10, <1>11, <1>12,
     <1>13, <1>14, <1>15, <1>16, <1>17, <1>18
  DEF SwitchStep, UserSwitch, CleanupStep

\* Work on sessions preserves FilesInv: only a turn of a session that is served,
\* and so not archived, makes a file.
LEMMA WorkFiles ==
    ASSUME Inv, FilesInv, Work \/ (\E rt \in timers : SettleTimer(rt))
    PROVE  FilesInv'
<1> USE DEF Live
<1>1. /\ active \in Sessions /\ used \subseteq Sessions
      /\ activity \in [Sessions -> Activity]
  BY DEF Inv, TypeOK
<1>2. CASE PromptAccept \/ CompactStart \/ NavigateStart
  BY <1>1, <1>2, QuietFiles DEF PromptAccept, CompactStart, NavigateStart,
     StartWork, Hold, graphVars, opVars, lockVars, FilesInv
<1>3. ASSUME NEW s \in Sessions,
             \/ PreflightFail(s) \/ CommandStart(s) \/ CompactFail(s)
             \/ CommandNavigate(s)
      PROVE  FilesInv'
  BY <1>1, <1>3, QuietFiles DEF PreflightFail, CommandStart, CompactFail,
     CommandNavigate, Hold, graphVars, opVars, lockVars, FilesInv
<1>4. ASSUME NEW s \in Sessions, TurnSettle(s) \/ CommandEnd(s) \/ CompactDone(s)
      PROVE  FilesInv'
  BY <1>1, <1>4, QuietFiles DEF TurnSettle, CommandEnd, CompactDone, Hold,
     graphVars, opVars, FilesInv
<1>5. ASSUME NEW s \in Sessions, NavigateDone(s) \/ CommandNavigateDone(s)
      PROVE  FilesInv'
  BY <1>1, <1>5, QuietFiles DEF NavigateDone, CommandNavigateDone, Hold,
     opVars, lockVars, FilesInv
<1>6. ASSUME NEW s \in Sessions, TurnStart(s)
      PROVE  FilesInv'
  <2>1. /\ activity[s] = "preflight" /\ activity' = [activity EXCEPT ![s] = "running"]
        /\ used' = used \cup {s} /\ disk' = disk \cup {fileOf[s]}
        /\ UNCHANGED <<built, fileOf, archive, active, stage, candidate,
                       graphLock, fileOp>>
    BY <1>6 DEF TurnStart, Hold, graphVars, opVars, lockVars
  <2>2. Live(s) /\ fileOf[s] \notin archive
    BY <2>1 DEF Inv, BusyInv, Busy, FilesInv, LiveFilesExist
  <2>3. LiveFilesExist'
    BY <1>1, <2>1, <2>2 DEF FilesInv, LiveFilesExist, Busy
  <2> QED BY <2>1, <2>2, <2>3 DEF FilesInv
<1>7. ASSUME NEW rt \in timers, SettleTimer(rt)
      PROVE  FilesInv'
  BY <1>1, <1>7, QuietFiles DEF SettleTimer, RequestGraph, sessionVars,
     graphVars, opVars, FilesInv
<1> QED BY <1>2, <1>3, <1>4, <1>5, <1>6, <1>7 DEF Work

\* The mutations preserve FilesInv: what is admitted leaves no live session on
\* the file, except the idle foreground that is to be renamed.
LEMMA MutationFiles ==
    ASSUME Inv, FilesInv, FileOpStep
    PROVE  FilesInv'
<1> USE DEF Live
<1>1. /\ active \in Sessions /\ used \subseteq Sessions
      /\ fileOp \in [what : FileOp, file : Files, step : FileStep]
      /\ built \in [Sessions -> {"unbuilt", "live", "disposed"}]
      /\ identity.file = snapshot.file /\ ~Background(identity.file)
  BY DEF Inv, TypeOK, NamesInv, KeysInv
<1>2. graphLock = "file" => stage = "none"
  BY DEF Inv, LockInv
<1>3. ASSUME fileOp' = [what |-> "delete", file |-> identity.file, step |-> "none"],
             UNCHANGED <<used, built, fileOf, stage, candidate>>,
             stage = "none",
             \A s \in Sessions : Live(s) => fileOf[s] \notin archive',
             \A s \in used : Live(s) => fileOf[s] \in disk',
             disk' \cap archive' = {}
      PROVE  FilesInv'
  <2>1. LiveFilesExist'
    BY <1>1, <1>3 DEF LiveFilesExist
  <2> QED BY <1>3, <2>1 DEF FilesInv
<1>4. CASE FileOpRefuse \/ RenameActive \/ FileOpFail
  BY <1>2, <1>3, <1>4 DEF FileOpRefuse, RenameActive, FileOpFail, SetActiveName,
     EndFileOp, sessionVars, opVars, FilesInv, LiveFilesExist
<1>5. CASE CleanupSweep
  BY <1>2, <1>3, <1>5 DEF CleanupSweep, EndFileOp, opVars, FilesInv, LiveFilesExist
<1>6. CASE FileOpDone
  <2>1. \A s \in Sessions : Live(s) /\ fileOf[s] = fileOp.file =>
           fileOp.what = "rename"
    BY <1>6 DEF FileOpDone, FilesInv, LiveFilesExist
  <2>2. /\ disk' = CASE fileOp.what \in {"delete", "archive"} -> disk \ {fileOp.file}
                     [] fileOp.what = "restore" -> disk \cup {fileOp.file}
                     [] OTHER -> disk
        /\ archive' = CASE fileOp.what \in {"delete", "restore"} -> archive \ {fileOp.file}
                        [] fileOp.what = "archive" -> archive \cup {fileOp.file}
                        [] OTHER -> archive
    BY <1>6 DEF FileOpDone
  <2>3. \A s \in Sessions : Live(s) => fileOf[s] \notin archive'
    BY <2>1, <2>2 DEF FilesInv, LiveFilesExist
  <2>4. \A s \in used : Live(s) => fileOf[s] \in disk'
    BY <1>1, <2>1, <2>2 DEF FilesInv, LiveFilesExist
  <2>5. disk' \cap archive' = {}
    BY <2>2 DEF FilesInv, LiveFilesExist
  <2> QED BY <1>2, <1>3, <1>6, <2>3, <2>4, <2>5 DEF FileOpDone, EndFileOp, opVars
<1>7. CASE FileOpAdmit
  <2>1. /\ graphLock = "file" /\ stage = "none" /\ fileOp.step = "listing"
        /\ Admitted(fileOp.what, fileOp.file)
        /\ fileOp' = [fileOp EXCEPT !.step = "moving"]
        /\ UNCHANGED <<fileOf, activity, used, disk, archive, active, stage,
                       candidate, graphLock>>
    BY <1>2, <1>7 DEF FileOpAdmit, opVars
  <2>2. /\ fileOp'.what = fileOp.what /\ fileOp'.file = fileOp.file
        /\ fileOp'.step = "moving"
    BY <1>1, <2>1
  <2>3. built' = IF fileOp.what = "delete" /\ Background(fileOp.file)
                 THEN [built EXCEPT ![background[fileOp.file].session] = "disposed"]
                 ELSE built
    BY <1>7 DEF FileOpAdmit
  <2>4. \A s \in Sessions : /\ built'[s] = "live" => Live(s)
                            /\ built[s] # "unbuilt" => built'[s] # "unbuilt"
    BY <1>1, <2>3
  <2>5. ASSUME NEW s \in Sessions, built'[s] = "live", fileOf[s] = fileOp.file
        PROVE  fileOp.what = "rename" /\ s = active /\ ~Busy(s)
    <3>1. Live(s) /\ fileOf[s] \notin archive
      BY <2>4, <2>5 DEF FilesInv, LiveFilesExist
    <3>2. \/ s = active /\ fileOp.file = identity.file
          \/ Background(fileOp.file) /\ background[fileOp.file].session = s
      BY <2>1, <2>5, <3>1, LiveHolder
    <3>3. fileOp.what # "restore" /\ fileOp.what # "cleanup"
      BY <2>1, <2>5, <3>1 DEF FilesInv
    <3>4. fileOp.what # "archive"
      BY <1>1, <2>1, <3>2 DEF Admitted, HasRuntime
    <3>5. fileOp.what # "delete"
      <4>1. SUFFICES ASSUME fileOp.what = "delete" PROVE FALSE
        OBVIOUS
      <4>2. Background(fileOp.file) /\ background[fileOp.file].session = s
        BY <1>1, <2>1, <3>2, <4>1 DEF Admitted
      <4>3. built' = [built EXCEPT ![s] = "disposed"]
        BY <2>3, <4>1, <4>2
      <4> QED BY <1>1, <2>5, <4>3
    <3>6. fileOp.what = "rename"
      BY <1>1, <3>3, <3>4, <3>5 DEF FileOp
    <3>7. fileOp.file = snapshot.file /\ ~Busy(active)
      BY <1>1, <2>1, <3>2, <3>6 DEF Admitted, HasRuntime
    <3> QED BY <1>1, <3>2, <3>6, <3>7
  <2>6. LiveFilesExist'
    BY <1>1, <2>1, <2>2, <2>4, <2>5 DEF FilesInv, LiveFilesExist, Busy
  <2> QED BY <1>1, <2>1, <2>2, <2>4, <2>6 DEF FilesInv
<1> QED BY <1>4, <1>5, <1>6, <1>7 DEF FileOpStep

\* No mutation of the session files takes a file from under a live session,
\* and no file is in both directories.
THEOREM LiveSessionsKeepTheirFiles == Spec => []LiveFilesExist
<1>1. Init => FilesInv
  BY DEF Init, FilesInv, LiveFilesExist, Live
<1>2. Inv /\ FilesInv /\ [Next]_vars => FilesInv'
  <2>1. ASSUME Inv, FilesInv, UNCHANGED vars PROVE FilesInv'
    BY <2>1, QuietFiles DEF vars, sessionVars, graphVars, opVars, lockVars,
       Live, FilesInv
  <2> QED BY <2>1, SwitchFiles, WorkFiles, MutationFiles DEF Next
<1>3. FilesInv => LiveFilesExist
  BY DEF FilesInv
<1> QED BY <1>1, <1>2, <1>3, Invariance, PTL DEF Spec

-----------------------------------------------------------------------------
\* The keys of the map, and the sessions it holds.
Keys == {f \in Files : Background(f)}
Held == {s \in Sessions : InBackground(s)}

\* The map never holds more than the limit allows beside the foreground, and
\* until the commit there is room for the outgoing session if it is busy.
LimitInv ==
    /\ IsFiniteSet(Keys)
    /\ Cardinality(Keys) + 1 <= MaxLive
    /\ stage \in {"building", "binding"} /\ Busy(active)
          => Cardinality(Keys) + 2 <= MaxLive

\* Adding an element to a finite set adds at most one to its size.
LEMMA OneMore ==
    ASSUME NEW S, NEW x, IsFiniteSet(S)
    PROVE  /\ IsFiniteSet(S \cup {x})
           /\ Cardinality(S) \in Nat /\ Cardinality(S \cup {x}) \in Nat
           /\ Cardinality(S \cup {x}) <= Cardinality(S) + 1
<1>1. IsFiniteSet(S \cup {x})
  BY FS_AddElement
<1>2. Cardinality(S \cup {x}) = IF x \in S THEN Cardinality(S)
                               ELSE Cardinality(S) + 1
  BY FS_AddElement
<1>3. Cardinality(S) \in Nat /\ Cardinality(S \cup {x}) \in Nat
  BY <1>1, FS_CardinalityType
<1> QED BY <1>1, <1>2, <1>3

\* A step that adds no key, and starts no candidate, keeps the map in bounds.
LEMMA FewerKeys ==
    ASSUME LimitInv,
           \A f \in Files : Background(f)' => Background(f),
           stage' \in {"building", "binding"} /\ Busy(active)'
              => stage \in {"building", "binding"} /\ Busy(active)
    PROVE  LimitInv'
<1>1. Keys' \subseteq Keys
  BY DEF Keys
<1>2. /\ IsFiniteSet(Keys') /\ Cardinality(Keys') <= Cardinality(Keys)
      /\ Cardinality(Keys') \in Nat /\ Cardinality(Keys) \in Nat
  BY <1>1, FS_Subset, FS_CardinalityType DEF LimitInv
<1>3. MaxLive \in Nat
  BY MaxLiveAssumption
<1> QED BY <1>2, <1>3 DEF LimitInv

\* The limit check at the start of a transaction leaves room for a busy
\* outgoing session.
LEMMA RoomAtStart ==
    ASSUME LimitInv, ~WouldExceedLiveLimit, UNCHANGED <<background, active, activity>>
    PROVE  LimitInv'
<1>1. LiveCount = 1 + Cardinality(Keys)
  BY DEF LiveCount, Keys
<1>2. Cardinality(Keys) \in Nat /\ MaxLive \in Nat
  BY FS_CardinalityType, MaxLiveAssumption DEF LimitInv
<1>3. Busy(active) => Cardinality(Keys) + 2 <= MaxLive
  BY <1>1, <1>2 DEF WouldExceedLiveLimit
<1>4. Keys' = Keys /\ Busy(active)' = Busy(active)
  BY DEF Keys, Background, Busy
<1> QED BY <1>3, <1>4 DEF LimitInv

\* The transactions keep the map in bounds: what the start has predicted holds
\* at the commit, and a promotion gives back the key it takes.
LEMMA SwitchLimit ==
    ASSUME Inv, LimitInv, SwitchStep \/ UserSwitch
    PROVE  LimitInv'
<1>1. /\ Cardinality(Keys) \in Nat /\ MaxLive \in Nat /\ IsFiniteSet(Keys)
      /\ background \in [Files -> Runtime \cup {NoRuntime}]
      /\ identity.file \in Files
  BY FS_CardinalityType, MaxLiveAssumption DEF LimitInv, Inv, TypeOK
<1>2. CASE CreateReuse \/ SetName
  BY <1>2, FewerKeys DEF CreateReuse, SetName, SetActiveName, sessionVars,
     opVars, Background, Busy
<1>3. ASSUME NEW s \in Sessions, NEW f \in Files,
             CreateBegin(s, f) \/ OpenBegin(s, f)
      PROVE  LimitInv'
  BY <1>3, RoomAtStart DEF CreateBegin, OpenBegin, graphVars
<1>4. ASSUME NEW f \in Files, OpenPromote(f)
      PROVE  LimitInv'
  <2>1. /\ RetainBusy(Captured, [background EXCEPT ![f] = NoRuntime])
        /\ f \in Keys /\ stage' = "promoting"
    BY <1>4 DEF OpenPromote, Keys
  <2>2. \A g \in Files : background'[g] # NoRuntime =>
           g \in Keys \ {f} \/ g = identity.file
    <3>1. Captured.file = identity.file
      BY DEF Captured
    <3>2. CASE Busy(Captured.session)
      BY <1>1, <2>1, <3>1, <3>2 DEF RetainBusy, Keys, Background
    <3>3. CASE ~Busy(Captured.session)
      BY <1>1, <2>1, <3>3 DEF RetainBusy, Keys, Background
    <3> QED BY <3>2, <3>3
  <2>3. Keys' \subseteq (Keys \ {f}) \cup {identity.file}
    BY <2>2 DEF Keys, Background
  <2>4. /\ IsFiniteSet(Keys \ {f})
        /\ Cardinality(Keys \ {f}) = Cardinality(Keys) - 1
    BY <1>1, <2>1, FS_RemoveElement
  <2>5. /\ IsFiniteSet((Keys \ {f}) \cup {identity.file})
        /\ Cardinality((Keys \ {f}) \cup {identity.file}) <= Cardinality(Keys)
    <3> DEFINE Rest == Keys \ {f}
    <3>1. /\ IsFiniteSet(Rest \cup {identity.file}) /\ Cardinality(Rest) \in Nat
          /\ Cardinality(Rest \cup {identity.file}) <= Cardinality(Rest) + 1
          /\ Cardinality(Rest \cup {identity.file}) \in Nat
      BY <2>4, OneMore
    <3>2. Cardinality(Rest) = Cardinality(Keys) - 1
      BY <2>4
    <3> HIDE DEF Rest
    <3>3. Cardinality(Rest \cup {identity.file}) <= Cardinality(Keys)
      BY <1>1, <3>1, <3>2
    <3> QED BY <3>1, <3>3 DEF Rest
  <2>6. /\ IsFiniteSet(Keys') /\ Cardinality(Keys') <= Cardinality(Keys)
        /\ Cardinality(Keys') \in Nat
    BY <1>1, <2>3, <2>5, FS_Subset, FS_CardinalityType
  <2> QED BY <1>1, <2>1, <2>6 DEF LimitInv
<1>5. ASSUME NEW f \in Files, ForkFile(f)
      PROVE  LimitInv'
  BY <1>5, FewerKeys DEF ForkFile, graphVars, opVars, Background, Busy
<1>6. ASSUME NEW what \in FileOp, NEW f \in Files, FileOpBegin(what, f)
      PROVE  LimitInv'
  BY <1>6, FewerKeys DEF FileOpBegin, sessionVars, graphVars, opVars,
     Background, Busy
<1>7. CASE CleanupBegin
  BY <1>7, FewerKeys DEF CleanupBegin, sessionVars, graphVars, opVars,
     Background, Busy
<1>8. CASE BuildOk \/ BuildFail \/ BindFail \/ DiscardDone
  BY <1>8, FewerKeys DEF BuildOk, BuildFail, BindFail, DiscardDone, FinishOp,
     sessionVars, graphVars, Background, Busy
<1>9. CASE Commit
  <2>1. /\ stage = "binding" /\ stage' = "activating"
        /\ RetainBusy(IF kind = "create" THEN prev ELSE Captured, background)
    BY <1>9 DEF Commit
  <2>2. LET outgoing == IF kind = "create" THEN prev ELSE Captured
        IN  outgoing.session = active /\ outgoing.file = identity.file
    BY <2>1 DEF Inv, BuildInv, Captured
  <2>3. CASE Busy(active)
    <3>1. \A g \in Files : background'[g] # NoRuntime =>
             g \in Keys \/ g = identity.file
      BY <1>1, <2>1, <2>2, <2>3 DEF RetainBusy, Keys, Background
    <3>2. Keys' \subseteq Keys \cup {identity.file}
      BY <3>1 DEF Keys, Background
    <3>3. /\ IsFiniteSet(Keys \cup {identity.file})
          /\ Cardinality(Keys \cup {identity.file}) <= Cardinality(Keys) + 1
      BY <1>1, OneMore
    <3>4. /\ IsFiniteSet(Keys') /\ Cardinality(Keys') \in Nat
          /\ Cardinality(Keys') <= Cardinality(Keys \cup {identity.file})
          /\ Cardinality(Keys \cup {identity.file}) \in Nat
      BY <3>2, <3>3, FS_Subset, FS_CardinalityType
    <3>5. Cardinality(Keys) + 2 <= MaxLive
      BY <2>1, <2>3 DEF LimitInv
    <3> QED BY <1>1, <2>1, <3>3, <3>4, <3>5 DEF LimitInv
  <2>4. CASE ~Busy(active)
    BY <2>1, <2>2, <2>4, FewerKeys DEF RetainBusy, Background
  <2> QED BY <2>3, <2>4
<1>10. CASE ActivateOk \/ RetirePrev \/ SwitchDone \/ PromoteDone \/ RollbackDone
  BY <1>10, FewerKeys DEF ActivateOk, RetirePrev, SwitchDone, PromoteDone,
     RollbackDone, FinishOp, graphVars, Background
<1>11. CASE ActivateFail
  <2>1. \A f \in Files : background'[f] # NoRuntime => background[f] # NoRuntime
    BY <1>1, <1>11 DEF ActivateFail, Unretain
  <2> QED BY <1>11, <2>1, FewerKeys DEF ActivateFail, Background
<1>12. ASSUME NEW s \in Sessions, ReloadBegin(s)
       PROVE  LimitInv'
  BY <1>12, RoomAtStart DEF ReloadBegin, graphVars
<1> QED
  BY <1>2, <1>3, <1>4, <1>5, <1>6, <1>7, <1>8, <1>9, <1>10, <1>11,
     <1>12
  DEF SwitchStep, UserSwitch

\* Work, clean-ups and mutations keep the map in bounds: none adds a key, and
\* no work starts while a candidate is being made.
LEMMA WorkLimit ==
    ASSUME Inv, LimitInv,
           \/ Work \/ CleanupStep \/ FileOpStep
           \/ \E rt \in timers : SettleTimer(rt)
    PROVE  LimitInv'
<1>1. /\ background \in [Files -> Runtime \cup {NoRuntime}]
      /\ activity \in [Sessions -> Activity] /\ active \in Sessions
      /\ graphLock = "switch" <=> stage # "none"
  BY DEF Inv, TypeOK, LockInv
<1>2. CASE PromptAccept \/ CompactStart \/ NavigateStart
  BY <1>1, <1>2, FewerKeys DEF PromptAccept, CompactStart, NavigateStart,
     StartWork, graphVars, opVars, Background
<1>3. ASSUME NEW s \in Sessions,
             \/ PreflightFail(s) \/ TurnStart(s) \/ CommandStart(s)
             \/ CommandEnd(s) \/ CompactFail(s) \/ CommandNavigate(s)
      PROVE  LimitInv'
  BY <1>1, <1>3, FewerKeys DEF PreflightFail, TurnStart, CommandStart,
     CommandEnd, CompactFail, CommandNavigate, Hold, graphVars, opVars,
     Background, Busy
<1>4. ASSUME NEW s \in Sessions,
             \/ TurnSettle(s) \/ CompactDone(s) \/ NavigateDone(s)
             \/ CommandNavigateDone(s)
      PROVE  LimitInv'
  BY <1>1, <1>4, FewerKeys DEF TurnSettle, CompactDone, NavigateDone,
     CommandNavigateDone, Hold, opVars, Background, Busy
<1>5. CASE SettleSkip \/ SettleDone \/ (\E rt \in timers : SettleTimer(rt))
  BY <1>1, <1>5, FewerKeys DEF SettleSkip, SettleDone, SettleTimer, sessionVars,
     graphVars, opVars, Background, Busy
<1>6. CASE SettleDispose
  <2>1. \A f \in Files : background'[f] # NoRuntime => background[f] # NoRuntime
    BY <1>1, <1>6 DEF SettleDispose
  <2> QED BY <1>6, <2>1, FewerKeys DEF SettleDispose, opVars, Background, Busy
<1>7. CASE FileOpAdmit
  <2>1. \A f \in Files : background'[f] # NoRuntime => background[f] # NoRuntime
    BY <1>1, <1>7 DEF FileOpAdmit
  <2> QED BY <1>7, <2>1, FewerKeys DEF FileOpAdmit, opVars, Background, Busy
<1>8. CASE FileOpRefuse \/ FileOpFail \/ RenameActive
  BY <1>8, FewerKeys DEF FileOpRefuse, FileOpFail, RenameActive, SetActiveName,
     EndFileOp, sessionVars, graphVars, opVars, Background, Busy
<1>9. CASE FileOpDone \/ CleanupSweep
  BY <1>9, FewerKeys DEF FileOpDone, CleanupSweep, EndFileOp, graphVars, opVars,
     Background, Busy
<1> QED
  BY <1>2, <1>3, <1>4, <1>5, <1>6, <1>7, <1>8, <1>9
  DEF Work, CleanupStep, FileOpStep

\* Every live session is the foreground, held by the map, or the one session
\* that a transaction adds.
LEMMA LiveAreBounded ==
    ASSUME Inv, LimitInv
    PROVE  LiveLimit
<1> DEFINE Alive == {s \in Sessions : Live(s)}
           key == [f \in Keys |-> background[f].session]
           extra == IF stage \in {"building", "binding", "discarding"}
                    THEN candidate ELSE prev.session
<1>1. /\ IsFiniteSet(Keys) /\ Cardinality(Keys) \in Nat /\ MaxLive \in Nat
      /\ Cardinality(Keys) + 1 <= MaxLive
  BY FS_CardinalityType, MaxLiveAssumption DEF LimitInv
<1>2. key \in Surjection(Keys, Held)
  <2>1. \A f \in Keys : background[f] \in Runtime
    BY DEF Keys, Background, Inv, TypeOK
  <2>2. \A f \in Keys : background[f].session \in Held
    BY <2>1 DEF Keys, Held, InBackground, Runtime
  <2>3. \A s \in Held : \E f \in Keys : background[f].session = s
    BY DEF Keys, Held, InBackground
  <2> QED BY <2>2, <2>3 DEF Surjection
<1>3. IsFiniteSet(Held) /\ Cardinality(Held) <= Cardinality(Keys)
  BY <1>1, <1>2, FS_Surjection
<1> DEFINE Served == Held \cup {active}
           All == Served \cup {extra}
<1>4. /\ IsFiniteSet(Served)
      /\ Cardinality(Served) <= Cardinality(Keys) + 1
      /\ Cardinality(Served) \in Nat
  <2>1. /\ IsFiniteSet(Served)
        /\ Cardinality(Held) \in Nat /\ Cardinality(Served) \in Nat
        /\ Cardinality(Served) <= Cardinality(Held) + 1
    BY <1>3, OneMore
  <2> HIDE DEF Served
  <2> QED BY <1>1, <1>3, <2>1
<1>5. /\ IsFiniteSet(All)
      /\ Cardinality(All) <= Cardinality(Keys) + 2
      /\ Cardinality(All) \in Nat
  <2> HIDE DEF Served, extra
  <2>1. /\ IsFiniteSet(All) /\ Cardinality(All) \in Nat
        /\ Cardinality(All) <= Cardinality(Served) + 1
    BY <1>4, OneMore
  <2> HIDE DEF All
  <2> QED BY <1>1, <1>4, <2>1
<1>6. CASE stage = "none"
  <2>1. Alive \subseteq Served
    BY <1>6 DEF Inv, NoOrphan, Held
  <2>2. Cardinality(Alive) <= Cardinality(Served) /\ Cardinality(Alive) \in Nat
    BY <1>4, <2>1, FS_Subset, FS_CardinalityType
  <2> QED BY <1>1, <1>4, <1>6, <2>2 DEF LiveLimit
<1>7. CASE stage # "none"
  <2>1. Alive \subseteq All
    BY <1>7 DEF Inv, NoOrphan, Held, CommitInv
  <2>2. Cardinality(Alive) <= Cardinality(All) /\ Cardinality(Alive) \in Nat
    BY <1>5, <2>1, FS_Subset, FS_CardinalityType
  <2> QED BY <1>1, <1>5, <1>7, <2>2 DEF LiveLimit
<1> QED BY <1>6, <1>7

\* The limit that is predicted before a candidate is built holds ever after,
\* whichever sessions turn idle and whatever fails meanwhile.
THEOREM LiveSessionsAreLimited == Spec => []LiveLimit
<1>1. Init => LimitInv
  <2>1. Init => Keys = {} /\ stage = "none"
    BY DEF Init, Keys, Background
  <2>2. MaxLive \in Nat \ {0}
    BY MaxLiveAssumption
  <2> QED BY <2>1, <2>2, FS_EmptySet DEF LimitInv
<1>2. Inv /\ LimitInv /\ [Next]_vars => LimitInv'
  <2>1. ASSUME LimitInv, UNCHANGED vars PROVE LimitInv'
    BY <2>1, FewerKeys DEF vars, sessionVars, graphVars, opVars, Background, Busy
  <2> QED BY <2>1, SwitchLimit, WorkLimit DEF Next
<1>3. Inv /\ LimitInv => LiveLimit
  BY LiveAreBounded
<1> QED BY <1>1, <1>2, <1>3, Invariance, PTL DEF Spec

\* One writer per session file: two live sessions of one file would have to be
\* the two ends of a reload.
THEOREM SingleWriter == Spec => []OneWriterPerFile
<1>1. Inv => OneWriterPerFile
  <2> SUFFICES ASSUME Inv, NEW s \in Sessions, NEW t \in Sessions,
                      Live(s), Live(t), s # t, fileOf[s] = fileOf[t]
               PROVE  kind = "reload" /\ stage # "none" /\ candidate \in {s, t}
    BY DEF OneWriterPerFile
  <2> DEFINE Holder(u) ==
        \/ u = active \/ InBackground(u)
        \/ stage = "binding" /\ u = candidate
        \/ stage \in {"activating", "rollback", "published"} /\ u = prev.session
  <2>1. Holder(s) /\ Holder(t)
    BY DEF Inv, NoOrphan, CommitInv
  <2>2. \A u \in Sessions : InBackground(u) =>
           Background(fileOf[u]) /\ background[fileOf[u]].session = u
    BY DEF Inv, RuntimesLive, InBackground
  <2>3. fileOf[active] = identity.file /\ ~Background(identity.file)
    BY DEF Inv, NamesInv, KeysInv
  <2>4. CASE stage = "binding"
    <3>1. /\ ~Background(fileOf[candidate])
          /\ kind # "reload" => fileOf[candidate] # identity.file
      BY <2>4 DEF Inv, BuildInv
    <3> QED BY <2>1, <2>2, <2>3, <2>4, <3>1
  <2>5. CASE stage \in {"activating", "rollback", "published"}
    <3>1. /\ candidate = active /\ fileOf[prev.session] = prev.file
          /\ kind # "reload" => prev.file # identity.file
      BY <2>5 DEF Inv, CommitInv, NamesInv
    <3>2. Background(prev.file) => background[prev.file].session = prev.session
      BY <2>5 DEF Inv, CommitInv
    <3> QED BY <2>1, <2>2, <2>3, <2>5, <3>1, <3>2
  <2>6. CASE stage \notin {"binding", "activating", "rollback", "published"}
    BY <2>1, <2>2, <2>3, <2>6
  <2> QED BY <2>4, <2>5, <2>6
<1> QED BY <1>1, Invariance, PTL

\* No step disposes of a session while a prompt, a compaction, a navigation or
\* a command holds its operation lock.
THEOREM BusySessionsAreKept == Spec => BusyKept
<1> DEFINE Kept == \A s \in Sessions :
                     Live(s) /\ built'[s] = "disposed" => activity[s] = "none"
<1>1. Inv /\ [Next]_vars => [Kept]_vars
  <2> SUFFICES ASSUME Inv, Next, NEW s \in Sessions, Live(s), built'[s] = "disposed"
               PROVE  activity[s] = "none"
    OBVIOUS
  <2> USE DEF Live
  <2>1. CASE built' = built
    BY <2>1
  <2>2. CASE BuildOk \/ BindFail \/ ActivateFail \/ RetirePrev
    BY <2>2 DEF Inv, TypeOK, BuildInv, CommitInv, Busy, BuildOk, BindFail,
       ActivateFail, RetirePrev
  <2>3. CASE \E f \in Files : OpenPromote(f)
    BY <2>3 DEF Inv, TypeOK, Busy, OpenPromote
  <2>4. CASE SettleDispose
    BY <2>4 DEF Inv, TypeOK, Busy, SettleDispose
  <2>5. CASE FileOpAdmit
    BY <2>5 DEF Inv, TypeOK, Busy, FileOpAdmit, Admitted
  <2>6. \/ built' = built
        \/ BuildOk \/ BindFail \/ ActivateFail \/ RetirePrev
        \/ \E f \in Files : OpenPromote(f)
        \/ SettleDispose \/ FileOpAdmit
    BY DEF Next, UserSwitch, SwitchStep, Work, CleanupStep, FileOpStep,
       CreateReuse, CreateBegin, OpenBegin, ReloadBegin, BuildFail, DiscardDone,
       Commit, ActivateOk, RollbackDone, SwitchDone, PromoteDone, PromptAccept,
       CompactStart, NavigateStart, StartWork, PreflightFail, TurnStart,
       CommandStart, TurnSettle, CommandEnd, CompactDone, CompactFail,
       NavigateDone, CommandNavigate, CommandNavigateDone, SettleTimer,
       SettleSkip, SettleDone, FileOpBegin, CleanupBegin, FileOpRefuse,
       FileOpDone, RenameActive, FileOpFail, CleanupSweep, SetName,
       SetActiveName, ForkFile, sessionVars
  <2> QED BY <2>1, <2>2, <2>3, <2>4, <2>5, <2>6
<1> QED BY <1>1, Invariance, PTL DEF Spec, BusyKept
=============================================================================
