------------------------ MODULE HostSupervisorProofs ------------------------
(***************************************************************************)
(* What HostSupervisor keeps for any number of restarts, crashes and Hosts. *)
(***************************************************************************)
EXTENDS HostSupervisor, SequenceTheorems, TLAPS

-----------------------------------------------------------------------------
(* The inductive invariant. *)

\* What is left of a Host, and who may still signal or report it.
ProcOK(p) ==
    /\ procs[p].cleanup = "signaled" <=> ~procs[p].kin
    /\ procs[p].leader = "reaped" => procs[p].cleanup = "signaled"
    /\ procs[p].monitor = "killing" => procs[p].cleanup = "claimed"
    /\ procs[p].cleanup = "claimed" =>
          procs[p].monitor = "killing" \/ (job.step = "terminate" /\ mgr.child = p)
    /\ p < Len(procs) => procs[p].leader = "reaped" /\ procs[p].monitor = "ended"
    /\ mgr.child # p => procs[p].leader = "reaped"
    /\ procs[p].monitor \in {"checked", "killing", "reporting"} => ghost.crashed
    /\ mgr.current = p /\ procs[p].monitor = "reading" /\ procs[p].leader # "running" =>
          ghost.crashed
    /\ job.step = "spawn" => procs[p].monitor = "ended"

\* How far the holder of the mutex has got with the child.
JobOK ==
    /\ job.step = "free" <=> job.kind = "none"
    /\ job.kind = "fresh" => job.step = "spawn"
    /\ job.kind = "failed" => job.step \notin {"farewell", "spawn"}
    /\ mgr.current # 0 => ~mgr.shutting /\ job.step \in {"free", "retire"}
    /\ job.step \in {"terminate", "reap"} => mgr.child # 0
    /\ job.step \in {"join", "spawn"} => mgr.child = 0
    /\ job.step = "terminate" =>
          procs[mgr.child].cleanup = "claimed" /\ procs[mgr.child].monitor # "killing"
    /\ job.step = "reap" => procs[mgr.child].cleanup # "unclaimed"
    /\ job.kind = "failed" /\ job.step = "retire" /\ mgr.current # 0 =>
          procs[mgr.current].start = "undone"
    /\ app = "gone" => job.step = "spawn"

HsInv == HsTypeOK /\ JobOK /\ \A p \in DOMAIN procs : ProcOK(p)

THEOREM HsInitInv == HsInit => HsInv
  <1> SUFFICES ASSUME HsInit PROVE HsInv
    OBVIOUS
  <1>1. procs = <<>> /\ Len(procs) = 0 /\ procs \in Seq(ProcType) /\ DOMAIN procs = {}
    BY EmptySeq DEF HsInit
  <1>2. HsTypeOK
    BY <1>1 DEF HsInit, HsTypeOK, Kinds, Callers, Steps
  <1> QED BY <1>1, <1>2 DEF HsInit, HsInv, JobOK

-----------------------------------------------------------------------------
(* What the changes of one process are. *)

\* The sender's message, or the end of the sender, reaches a start that waits.
LEMMA AnswerShape ==
    ASSUME NEW h \in ProcType, NEW o \in {"ready", "failed"}
    PROVE  /\ Answer(h, o) \in ProcType
           /\ Answer(h, o).leader = h.leader /\ Answer(h, o).kin = h.kin
           /\ Answer(h, o).cleanup = h.cleanup /\ Answer(h, o).monitor = h.monitor
           /\ h.start = "undone" => Answer(h, o).start = "undone"
  BY DEF Answer, ProcType

\* A monitor ends and leaves the processes alone.
LEMMA EndedShape ==
    ASSUME NEW h \in ProcType
    PROVE  /\ Ended(h) \in ProcType /\ Ended(h).monitor = "ended"
           /\ Ended(h).leader = h.leader /\ Ended(h).kin = h.kin
           /\ Ended(h).cleanup = h.cleanup
           /\ h.start = "undone" => Ended(h).start = "undone"
  <1> DEFINE a == Answer(h, "failed")
  <1>1. a \in ProcType /\ a.leader = h.leader /\ a.kin = h.kin /\ a.cleanup = h.cleanup
        /\ (h.start = "undone" => a.start = "undone")
    BY AnswerShape
  <1>2. Ended(h) = [a EXCEPT !.monitor = "ended"]
    BY DEF Ended
  <1> HIDE DEF a
  <1> QED BY <1>1, <1>2 DEF ProcType

\* After the final signal nobody of the group runs.
LEMMA SignalledShape ==
    ASSUME NEW h \in ProcType
    PROVE  /\ Signalled(h) \in ProcType /\ Signalled(h).cleanup = "signaled"
           /\ Signalled(h).kin = FALSE /\ Signalled(h).leader # "running"
           /\ Signalled(h).leader = "reaped" <=> h.leader = "reaped"
           /\ Signalled(h).monitor = h.monitor /\ Signalled(h).start = h.start
  BY DEF Signalled, ProcType

\* A change of one process leaves the others as they are.
LEMMA OneChanges ==
    ASSUME HsTypeOK, NEW p \in DOMAIN procs, NEW v \in ProcType,
           procs' = [procs EXCEPT ![p] = v]
    PROVE  /\ procs' \in Seq(ProcType) /\ Len(procs') = Len(procs)
           /\ DOMAIN procs' = DOMAIN procs
           /\ procs'[p] = v /\ \A q \in DOMAIN procs : q # p => procs'[q] = procs[q]
  <1>1. procs \in Seq(ProcType) /\ DOMAIN procs = 1..Len(procs)
    BY DEF HsTypeOK
  <1>2. procs' \in Seq(ProcType) /\ Len(procs') = Len(procs)
        /\ \A q \in 1..Len(procs) : procs'[q] = IF q = p THEN v ELSE procs[q]
    BY <1>1, ExceptSeq
  <1>3. DOMAIN procs' = 1..Len(procs')
    BY <1>2
  <1> QED BY <1>1, <1>2, <1>3

\* The numbers of the processes, and that each is one.
LEMMA Numbers ==
    ASSUME HsTypeOK
    PROVE  /\ DOMAIN procs = 1..Len(procs) /\ Len(procs) \in Nat
           /\ \A p \in DOMAIN procs : procs[p] \in ProcType
           /\ mgr.child \in {0, Len(procs)} /\ mgr.current \in {0, Len(procs)}
           /\ mgr.child # 0 => mgr.child \in DOMAIN procs
           /\ mgr.current # 0 => mgr.current \in DOMAIN procs
  <1>1. procs \in Seq(ProcType) /\ DOMAIN procs = 1..Len(procs) /\ Len(procs) \in Nat
    BY DEF HsTypeOK
  <1>2. \A p \in DOMAIN procs : procs[p] \in ProcType
    BY <1>1, ElementOfSeq
  <1> QED BY <1>1, <1>2 DEF HsTypeOK

-----------------------------------------------------------------------------
(* The Host and its monitor: steps that change one process.                *)

\* What such a step must show of the process it changes.
LEMMA QuietStep ==
    ASSUME HsInv, NEW p \in DOMAIN procs, NEW v \in ProcType,
           procs' = [procs EXCEPT ![p] = v], UNCHANGED <<job, app>>,
           mgr' \in [child : {mgr.child}, current : {mgr.current},
                     shutting : {mgr.shutting}, spent : BOOLEAN],
           calls' \in [manual : Nat, auto : Nat, exit : Nat, ever : Nat],
           ghost' \in [allowed : Int, crashed : BOOLEAN, told : BOOLEAN],
           ghost.crashed => ghost'.crashed,
           v.cleanup = "signaled" <=> ~v.kin,
           v.leader = "reaped" <=> procs[p].leader = "reaped",
           procs[p].leader = "reaped" => v.cleanup = "signaled",
           v.cleanup = "claimed" => v.monitor = "killing" \/ procs[p].cleanup = "claimed",
           procs[p].cleanup = "claimed" /\ procs[p].monitor # "killing" =>
               v.cleanup = "claimed" /\ v.monitor # "killing",
           v.monitor = "killing" => v.cleanup = "claimed",
           procs[p].monitor = "killing" /\ v.cleanup = "claimed" => v.monitor = "killing",
           v.cleanup = "unclaimed" => procs[p].cleanup = "unclaimed",
           procs[p].monitor = "ended" => v.monitor = "ended",
           v.monitor \in {"checked", "killing", "reporting"} => ghost'.crashed,
           mgr.current = p /\ v.monitor = "reading" /\ v.leader # "running" => ghost'.crashed,
           procs[p].start = "undone" => v.start = "undone"
    PROVE  HsInv'
  <1>1. /\ procs' \in Seq(ProcType) /\ Len(procs') = Len(procs)
        /\ DOMAIN procs' = DOMAIN procs
        /\ procs'[p] = v /\ \A q \in DOMAIN procs : q # p => procs'[q] = procs[q]
    BY OneChanges DEF HsInv
  <1>2. /\ DOMAIN procs = 1..Len(procs) /\ Len(procs) \in Nat
        /\ mgr.child # 0 => mgr.child \in DOMAIN procs
        /\ mgr.current # 0 => mgr.current \in DOMAIN procs
    BY Numbers DEF HsInv
  <1>3. /\ mgr'.child = mgr.child /\ mgr'.current = mgr.current /\ mgr'.shutting = mgr.shutting
    OBVIOUS
  <1>4. HsTypeOK'
    BY <1>1, <1>2, <1>3 DEF HsInv, HsTypeOK
  <1>5. JobOK'
    BY <1>1, <1>2, <1>3 DEF HsInv, JobOK
  <1>6. ASSUME NEW q \in DOMAIN procs PROVE ProcOK(q)'
    <2>1. CASE q = p
      BY <1>1, <1>2, <1>3, <2>1 DEF HsInv, ProcOK
    <2>2. CASE q # p
      BY <1>1, <1>2, <1>3, <2>2 DEF HsInv, ProcOK
    <2> QED BY <2>1, <2>2
  <1> QED BY <1>1, <1>4, <1>5, <1>6 DEF HsInv

LEMMA HostInv ==
    ASSUME HsInv, Host PROVE HsInv'
  <1> SUFFICES ASSUME NEW p \in DOMAIN procs, HostSpeaks(p) \/ HostDies(p) \/ ReadFails(p)
               PROVE  HsInv'
    BY DEF Host
  <1>1. procs[p] \in ProcType
    BY Numbers DEF HsInv
  <1>2. ProcOK(p) /\ JobOK /\ HsTypeOK
    BY DEF HsInv
  <1>3. ghost' \in [allowed : Int, crashed : BOOLEAN, told : BOOLEAN]
        /\ (ghost.crashed => ghost'.crashed)
    BY <1>2 DEF HostSpeaks, HostDies, ReadFails, Lost, HsTypeOK
  <1>4. CASE HostSpeaks(p)
    <2>0. /\ UNCHANGED <<mgr, calls, job, app, ghost>>
          /\ procs[p].leader = "running" /\ procs[p].monitor = "reading"
      BY <1>4 DEF HostSpeaks
    <2>1. CASE mgr.current = p
      <3> DEFINE v == Answer(procs[p], "ready")
      <3>1. /\ v \in ProcType /\ v.leader = procs[p].leader /\ v.kin = procs[p].kin
            /\ v.cleanup = procs[p].cleanup /\ v.monitor = procs[p].monitor
            /\ procs[p].start = "undone" => v.start = "undone"
        BY <1>1, AnswerShape
      <3>2. procs' = [procs EXCEPT ![p] = v]
        BY <1>4, <2>1 DEF HostSpeaks
      <3> HIDE DEF v
      <3> QED BY <1>2, <1>3, <2>0, <3>1, <3>2, QuietStep DEF HsTypeOK, ProcOK, JobOK
    <2>2. CASE mgr.current # p
      <3> DEFINE v == Ended(procs[p])
      <3>1. /\ v \in ProcType /\ v.leader = procs[p].leader /\ v.kin = procs[p].kin
            /\ v.cleanup = procs[p].cleanup /\ v.monitor = "ended"
            /\ procs[p].start = "undone" => v.start = "undone"
        BY <1>1, EndedShape
      <3>2. procs' = [procs EXCEPT ![p] = v]
        BY <1>4, <2>2 DEF HostSpeaks
      <3> HIDE DEF v
      <3> QED BY <1>2, <1>3, <2>0, <3>1, <3>2, QuietStep DEF HsTypeOK, ProcOK, JobOK
    <2> QED BY <2>1, <2>2
  <1>5. CASE HostDies(p)
    <2> DEFINE v == [procs[p] EXCEPT !.leader = "exited"]
    <2>1. /\ v \in ProcType /\ v.leader = "exited" /\ v.kin = procs[p].kin
          /\ v.cleanup = procs[p].cleanup /\ v.monitor = procs[p].monitor
          /\ v.start = procs[p].start /\ procs[p].leader = "running"
      BY <1>1, <1>5 DEF ProcType, HostDies
    <2>2. procs' = [procs EXCEPT ![p] = v]
      BY <1>5 DEF HostDies
    <2>3. mgr.current = p => ghost'.crashed
      <3>1. p # 0
        BY Numbers DEF HsInv
      <3>2. mgr.current = p => ~mgr.shutting
        BY <1>2, <3>1 DEF JobOK
      <3> QED BY <1>2, <1>5, <3>2 DEF HostDies, Lost, HsTypeOK
    <2>4. UNCHANGED <<mgr, calls, job, app>>
      BY <1>5 DEF HostDies
    <2> HIDE DEF v
    <2> QED BY ZenonT(60), <1>2, <1>3, <2>1, <2>2, <2>3, <2>4, QuietStep DEF HsTypeOK, ProcOK, JobOK
  <1>6. CASE ReadFails(p)
    <2>1. CASE Unexpected(p)
      <3> DEFINE v == [procs[p] EXCEPT !.monitor = "checked"]
      <3>1. /\ v \in ProcType /\ v.leader = procs[p].leader /\ v.kin = procs[p].kin
            /\ v.cleanup = procs[p].cleanup /\ v.monitor = "checked"
            /\ v.start = procs[p].start /\ procs[p].monitor = "reading"
        BY <1>1, <1>6 DEF ProcType, ReadFails
      <3>2. procs' = [procs EXCEPT ![p] = v] /\ ghost'.crashed
        BY <1>2, <1>6, <2>1 DEF ReadFails, LeaveLoop, Lost, Unexpected, HsTypeOK
      <3> HIDE DEF v
      <3> QED BY ZenonT(60), <1>2, <1>3, <1>6, <3>1, <3>2, QuietStep DEF ReadFails, HsTypeOK, ProcOK, JobOK
    <2>2. CASE ~Unexpected(p)
      <3> DEFINE v == Ended(procs[p])
      <3>1. /\ v \in ProcType /\ v.leader = procs[p].leader /\ v.kin = procs[p].kin
            /\ v.cleanup = procs[p].cleanup /\ v.monitor = "ended"
            /\ procs[p].start = "undone" => v.start = "undone"
        BY <1>1, EndedShape
      <3>2. procs' = [procs EXCEPT ![p] = v]
        BY <1>6, <2>2 DEF ReadFails, LeaveLoop
      <3>3. procs[p].monitor = "reading"
        BY <1>6 DEF ReadFails
      <3> HIDE DEF v
      <3> QED BY <1>2, <1>3, <1>6, <3>1, <3>2, <3>3, QuietStep DEF ReadFails, HsTypeOK, ProcOK, JobOK
    <2> QED BY <2>1, <2>2
  <1> QED BY <1>4, <1>5, <1>6

LEMMA MonitorInv ==
    ASSUME HsInv, Monitor PROVE HsInv'
  <1> SUFFICES ASSUME NEW p \in DOMAIN procs,
                      MonitorEof(p) \/ MonitorClaim(p) \/ MonitorKill(p) \/ MonitorReport(p)
               PROVE  HsInv'
    BY DEF Monitor
  <1>1. procs[p] \in ProcType
    BY Numbers DEF HsInv
  <1>2. ProcOK(p) /\ JobOK /\ HsTypeOK
    BY DEF HsInv
  <1>3. CASE MonitorEof(p)
    <2>0. UNCHANGED <<mgr, calls, job, app, ghost>> /\ procs[p].monitor = "reading"
          /\ procs[p].leader # "running"
      BY <1>3 DEF MonitorEof
    <2>1. CASE Unexpected(p)
      <3> DEFINE v == [procs[p] EXCEPT !.monitor = "checked"]
      <3>1. /\ v \in ProcType /\ v.leader = procs[p].leader /\ v.kin = procs[p].kin
            /\ v.cleanup = procs[p].cleanup /\ v.monitor = "checked" /\ v.start = procs[p].start
        BY <1>1 DEF ProcType
      <3>2. procs' = [procs EXCEPT ![p] = v]
        BY <1>3, <2>1 DEF MonitorEof, LeaveLoop
      <3>3. ghost.crashed
        BY <1>2, <2>0, <2>1 DEF ProcOK, Unexpected
      <3> HIDE DEF v
      <3> QED BY ZenonT(60), <1>2, <2>0, <3>1, <3>2, <3>3, QuietStep DEF HsTypeOK, ProcOK, JobOK
    <2>2. CASE ~Unexpected(p)
      <3> DEFINE v == Ended(procs[p])
      <3>1. /\ v \in ProcType /\ v.leader = procs[p].leader /\ v.kin = procs[p].kin
            /\ v.cleanup = procs[p].cleanup /\ v.monitor = "ended"
            /\ procs[p].start = "undone" => v.start = "undone"
        BY <1>1, EndedShape
      <3>2. procs' = [procs EXCEPT ![p] = v]
        BY <1>3, <2>2 DEF MonitorEof, LeaveLoop
      <3> HIDE DEF v
      <3> QED BY <1>2, <2>0, <3>1, <3>2, QuietStep DEF HsTypeOK, ProcOK, JobOK
    <2> QED BY <2>1, <2>2
  <1>4. CASE MonitorClaim(p)
    <2>0. UNCHANGED <<mgr, calls, job, app, ghost>> /\ procs[p].monitor = "checked"
      BY <1>4 DEF MonitorClaim
    <2>1. CASE procs[p].cleanup = "unclaimed"
      <3> DEFINE v == [procs[p] EXCEPT !.cleanup = "claimed", !.monitor = "killing"]
      <3>1. /\ v \in ProcType /\ v.leader = procs[p].leader /\ v.kin = procs[p].kin
            /\ v.cleanup = "claimed" /\ v.monitor = "killing" /\ v.start = procs[p].start
        BY <1>1 DEF ProcType
      <3>2. procs' = [procs EXCEPT ![p] = v]
        BY <1>4, <2>1 DEF MonitorClaim
      <3> HIDE DEF v
      <3> QED BY <1>2, <2>0, <2>1, <3>1, <3>2, QuietStep DEF HsTypeOK, ProcOK, JobOK
    <2>2. CASE procs[p].cleanup # "unclaimed"
      <3> DEFINE v == [procs[p] EXCEPT !.monitor = "reporting"]
      <3>1. /\ v \in ProcType /\ v.leader = procs[p].leader /\ v.kin = procs[p].kin
            /\ v.cleanup = procs[p].cleanup /\ v.monitor = "reporting" /\ v.start = procs[p].start
        BY <1>1 DEF ProcType
      <3>2. procs' = [procs EXCEPT ![p] = v]
        BY <1>4, <2>2 DEF MonitorClaim
      <3> HIDE DEF v
      <3> QED BY ZenonT(60), <1>2, <2>0, <3>1, <3>2, QuietStep DEF HsTypeOK, ProcOK, JobOK
    <2> QED BY <2>1, <2>2
  <1>5. CASE MonitorKill(p)
    <2>0. UNCHANGED <<mgr, calls, job, app, ghost>> /\ procs[p].monitor = "killing"
      BY <1>5 DEF MonitorKill
    <2> DEFINE g == Signalled(procs[p])
               v == [g EXCEPT !.monitor = "reporting"]
    <2>1. /\ g \in ProcType /\ g.cleanup = "signaled" /\ g.kin = FALSE /\ g.leader # "running"
          /\ g.leader = "reaped" <=> procs[p].leader = "reaped"
          /\ g.start = procs[p].start
      BY <1>1, SignalledShape
    <2>2. procs' = [procs EXCEPT ![p] = v]
      BY <1>5 DEF MonitorKill
    <2> HIDE DEF g
    <2>3. /\ v \in ProcType /\ v.cleanup = "signaled" /\ v.kin = FALSE /\ v.leader # "running"
          /\ v.leader = "reaped" <=> procs[p].leader = "reaped"
          /\ v.start = procs[p].start /\ v.monitor = "reporting"
      BY <2>1 DEF ProcType
    <2> HIDE DEF v
    <2> QED BY <1>2, <2>0, <2>2, <2>3, QuietStep DEF HsTypeOK, ProcOK, JobOK
  <1>6. CASE MonitorReport(p)
    <2> DEFINE v == Ended(procs[p])
    <2>0. UNCHANGED <<job, app>> /\ procs[p].monitor = "reporting"
          /\ procs' = [procs EXCEPT ![p] = v]
      BY <1>6 DEF MonitorReport
    <2>1. /\ v \in ProcType /\ v.leader = procs[p].leader /\ v.kin = procs[p].kin
          /\ v.cleanup = procs[p].cleanup /\ v.monitor = "ended"
          /\ procs[p].start = "undone" => v.start = "undone"
      BY <1>1, EndedShape
    <2>2. /\ mgr' \in [child : {mgr.child}, current : {mgr.current},
                       shutting : {mgr.shutting}, spent : BOOLEAN]
          /\ calls' \in [manual : Nat, auto : Nat, exit : Nat, ever : Nat]
          /\ ghost' \in [allowed : Int, crashed : BOOLEAN, told : BOOLEAN]
          /\ ghost.crashed => ghost'.crashed
      <3>1. CASE MayRestart
        <4>1. /\ mgr' = [mgr EXCEPT !.spent = TRUE] /\ calls' = [calls EXCEPT !.auto = @ + 1]
              /\ UNCHANGED ghost
          BY <1>6, <3>1 DEF MonitorReport
        <4>2. mgr' \in [child : {mgr.child}, current : {mgr.current},
                         shutting : {mgr.shutting}, spent : BOOLEAN] /\ mgr'.spent = TRUE
          BY <1>2, <4>1 DEF HsTypeOK
        <4>3. calls' \in [manual : Nat, auto : Nat, exit : Nat, ever : Nat]
          BY SMTT(30), <1>2, <4>1 DEF HsTypeOK
        <4>4. ghost' \in [allowed : Int, crashed : BOOLEAN, told : BOOLEAN]
              /\ ghost'.crashed = ghost.crashed
          BY <1>2, <4>1 DEF HsTypeOK
        <4> QED BY <4>2, <4>3, <4>4
      <3>2. CASE ~MayRestart
        <4>1. /\ mgr' = mgr /\ calls' = calls /\ ghost' = [ghost EXCEPT !.told = TRUE]
          BY <1>6, <3>2 DEF MonitorReport
        <4> QED BY <1>2, <4>1 DEF HsTypeOK, JobOK
      <3> QED BY <3>1, <3>2
    <2> HIDE DEF v
    <2> QED BY ZenonT(60), <1>2, <2>0, <2>1, <2>2, QuietStep DEF HsTypeOK, ProcOK, JobOK
  <1> QED BY <1>3, <1>4, <1>5, <1>6

-----------------------------------------------------------------------------
(* The calls: they wait, get the mutex, hear of the Host. *)

LEMMA StartInv ==
    ASSUME HsInv, Start, app = "up" PROVE HsInv'
  <1>0. JobOK /\ HsTypeOK
    BY DEF HsInv
  <1>1. JobOK /\ HsTypeOK /\ \A p \in DOMAIN procs : ProcOK(p) /\ procs[p] \in ProcType
    BY Numbers DEF HsInv
  <1>2. ASSUME NEW kind \in Callers, Acquire(kind) PROVE HsInv'
    <2>1. /\ UNCHANGED <<procs, mgr, app>> /\ job.step = "free"
          /\ ghost' \in [allowed : Int, crashed : {ghost.crashed}, told : {ghost.told}]
          /\ job' = [kind |-> kind, step |-> "retire"]
          /\ calls' \in [manual : Nat, auto : Nat, exit : Nat, ever : Nat]
      BY <1>1, <1>2 DEF Acquire, Free, NoJob, Callers, HsTypeOK
    <2>2. HsTypeOK'
      BY <1>1, <2>1 DEF HsTypeOK, Kinds, Steps
    <2>3. JobOK'
      BY <1>1, <2>1 DEF JobOK, Callers
    <2>4. ASSUME NEW p \in DOMAIN procs PROVE ProcOK(p)'
      BY <1>1, <2>1 DEF ProcOK
    <2> QED BY <2>1, <2>2, <2>3, <2>4 DEF HsInv
  <1>3. ASSUME NEW p \in DOMAIN procs, StartTimeout(p) PROVE HsInv'
    <2> DEFINE v == Answer(procs[p], "failed")
    <2>1. /\ v \in ProcType /\ v.leader = procs[p].leader /\ v.kin = procs[p].kin
          /\ v.cleanup = procs[p].cleanup /\ v.monitor = procs[p].monitor
          /\ procs[p].start = "undone" => v.start = "undone"
      BY <1>1, AnswerShape
    <2>2. procs' = [procs EXCEPT ![p] = v] /\ UNCHANGED <<mgr, calls, job, app, ghost>>
      BY <1>3 DEF StartTimeout
    <2>3. ProcOK(p)
      BY <1>1
    <2> HIDE DEF v
    <2> QED BY ZenonT(60), <1>0, <2>1, <2>2, <2>3, QuietStep DEF HsTypeOK, ProcOK, JobOK
  <1>4. ASSUME NEW p \in DOMAIN procs, Complete(p) PROVE HsInv'
    <2>0. /\ UNCHANGED <<mgr, calls, app, ghost>> /\ job.step = "free" /\ job.kind = "none"
          /\ procs[p].start \in {"ready", "failed"} /\ ProcOK(p)
      BY <1>1, <1>4 DEF Complete, Free, NoJob
    <2>1. CASE procs[p].start = "ready" \/ Superseded(p)
      <3> DEFINE v == [procs[p] EXCEPT !.start = "over"]
      <3>1. /\ v \in ProcType /\ v.leader = procs[p].leader /\ v.kin = procs[p].kin
            /\ v.cleanup = procs[p].cleanup /\ v.monitor = procs[p].monitor
        BY <1>1 DEF ProcType
      <3>2. procs' = [procs EXCEPT ![p] = v] /\ UNCHANGED job
        BY <1>4, <2>1 DEF Complete
      <3> HIDE DEF v
      <3> QED BY ZenonT(60), <1>0, <2>0, <3>1, <3>2, QuietStep DEF HsTypeOK, ProcOK, JobOK
    <2>2. CASE ~(procs[p].start = "ready" \/ Superseded(p))
      <3> DEFINE v == [procs[p] EXCEPT !.start = "undone"]
      <3>1. /\ v \in ProcType /\ v.leader = procs[p].leader /\ v.kin = procs[p].kin
            /\ v.cleanup = procs[p].cleanup /\ v.monitor = procs[p].monitor /\ v.start = "undone"
        BY <1>1 DEF ProcType
      <3>2. /\ procs' = [procs EXCEPT ![p] = v]
            /\ job' = [kind |-> "failed", step |-> "retire"] /\ mgr.current = p
        BY <1>4, <2>2 DEF Complete, Superseded
      <3> HIDE DEF v
      <3>3. /\ procs' \in Seq(ProcType) /\ Len(procs') = Len(procs)
            /\ DOMAIN procs' = DOMAIN procs
            /\ procs'[p] = v /\ \A q \in DOMAIN procs : q # p => procs'[q] = procs[q]
        BY <1>1, <3>1, <3>2, OneChanges
      <3>4. mgr.child # 0 => mgr.child \in DOMAIN procs
        BY <1>1, Numbers
      <3>5. HsTypeOK'
        BY <1>1, <2>0, <3>1, <3>2, <3>3, <3>4 DEF HsTypeOK, Kinds, Steps
      <3>6. JobOK'
        BY <1>1, <2>0, <3>1, <3>2, <3>3 DEF JobOK
      <3>7. ASSUME NEW q \in DOMAIN procs PROVE ProcOK(q)'
        <4>1. ProcOK(q) /\ (q = p \/ procs'[q] = procs[q])
          BY <1>1, <3>3
        <4> QED BY <2>0, <3>1, <3>2, <3>3, <4>1 DEF ProcOK
      <3> QED BY <3>3, <3>5, <3>6, <3>7 DEF HsInv
    <2> QED BY <2>1, <2>2
  <1> QED BY <1>2, <1>3, <1>4 DEF Start

\* What reaping the child leaves of it, whether it was dead or is killed now.
LEMMA ReapedInv ==
    ASSUME HsInv, mgr.child # 0,
           NEW g \in ProcType, g.cleanup = "signaled", g.kin = FALSE,
           g.monitor = procs[mgr.child].monitor, g.monitor # "killing",
           g.start = procs[mgr.child].start,
           g.monitor = "reading" /\ mgr.current = mgr.child => ghost.crashed,
           procs' = [procs EXCEPT ![mgr.child] = Reaped(g)],
           mgr' = Forget(mgr), UNCHANGED <<calls, app, ghost>>,
           \/ job.step = "free" /\ job' = job
           \/ job.step = "farewell" /\ job' = [job EXCEPT !.step = "claim"]
           \/ job.step = "reap" /\ job' = [job EXCEPT !.step = "join"]
    PROVE  HsInv'
  <1> DEFINE c == mgr.child
             v == Reaped(g)
  <1>0. JobOK /\ HsTypeOK /\ \A p \in DOMAIN procs : ProcOK(p)
    BY DEF HsInv
  <1>1. v \in ProcType /\ v.cleanup = "signaled" /\ v.kin = FALSE /\ v.leader = "reaped"
        /\ v.monitor = procs[c].monitor /\ v.start = procs[c].start
    BY DEF Reaped, ProcType
  <1>2. c \in DOMAIN procs /\ c = Len(procs) /\ DOMAIN procs = 1..Len(procs) /\ Len(procs) \in Nat
    BY <1>0, Numbers
  <1> HIDE DEF v
  <1>3. /\ procs' \in Seq(ProcType) /\ Len(procs') = Len(procs)
        /\ DOMAIN procs' = DOMAIN procs
        /\ procs'[c] = v /\ \A q \in DOMAIN procs : q # c => procs'[q] = procs[q]
    BY <1>0, <1>1, <1>2, OneChanges DEF v
  <1>4. /\ mgr'.child = 0 /\ mgr'.current = mgr.current /\ mgr'.shutting = mgr.shutting
        /\ mgr'.spent = mgr.spent
        /\ mgr' \in [child : {0}, current : {mgr.current}, shutting : BOOLEAN, spent : BOOLEAN]
    BY <1>0 DEF Forget, HsTypeOK
  <1>5. /\ job' \in [kind : Kinds, step : Steps] /\ job'.kind = job.kind
        /\ job'.step \in {"free", "join", "claim"}
        /\ job'.step = "free" <=> job.step = "free"
    BY <1>0 DEF HsTypeOK, Steps
  <1>6. HsTypeOK'
    BY <1>0, <1>3, <1>4, <1>5 DEF HsTypeOK
  <1>7. JobOK'
    BY <1>0, <1>1, <1>2, <1>3, <1>4, <1>5 DEF JobOK
  <1>8. ASSUME NEW q \in DOMAIN procs PROVE ProcOK(q)'
    <2>1. ProcOK(q)
      BY <1>0
    <2>2. CASE q = c
      BY <1>1, <1>2, <1>3, <1>4, <1>5, <2>1, <2>2 DEF ProcOK
    <2>3. CASE q # c
      BY <1>0, <1>2, <1>3, <1>4, <1>5, <2>1, <2>3 DEF ProcOK, JobOK
    <2> QED BY <2>2, <2>3
  <1> QED BY <1>3, <1>6, <1>7, <1>8 DEF HsInv

\* A child found dead is reaped without harm to its monitor's report.
LEMMA ReapDeadInv ==
    ASSUME HsInv, ReapDead, UNCHANGED <<calls, app, ghost>>,
           \/ job.step = "free" /\ job' = job
           \/ job.step = "farewell" /\ job' = [job EXCEPT !.step = "claim"]
    PROVE  HsInv'
  <1> DEFINE c == mgr.child
             g == Signalled(procs[c])
  <1>0. c # 0 /\ c \in DOMAIN procs /\ procs[c] \in ProcType /\ ProcOK(c)
        /\ procs[c].leader = "exited" /\ procs[c].cleanup # "claimed"
    BY Numbers DEF HsInv, ReapDead
  <1>1. g \in ProcType /\ g.cleanup = "signaled" /\ g.kin = FALSE
        /\ g.monitor = procs[c].monitor /\ g.start = procs[c].start
    BY <1>0, SignalledShape
  <1>2. procs' = [procs EXCEPT ![c] = Reaped(g)] /\ mgr' = Forget(mgr)
    BY DEF ReapDead
  <1> HIDE DEF g
  <1>3. g.monitor # "killing" /\ (g.monitor = "reading" /\ mgr.current = c => ghost.crashed)
    BY <1>0, <1>1 DEF ProcOK
  <1> QED BY <1>0, <1>1, <1>2, <1>3, ReapedInv

LEMMA UserInv ==
    ASSUME HsInv, User PROVE HsInv'
  <1>1. JobOK /\ HsTypeOK /\ \A p \in DOMAIN procs : ProcOK(p)
    BY DEF HsInv
  <1>2. CASE RequestRestart \/ RequestExit
    <2>1. /\ UNCHANGED <<procs, mgr, job, app, ghost>>
          /\ calls' \in [manual : Nat, auto : Nat, exit : Nat, ever : Nat]
      <3>1. calls \in [manual : Nat, auto : Nat, exit : Nat, ever : Nat]
        BY <1>1 DEF HsTypeOK
      <3>2. CASE RequestRestart
        <4>1. calls' = [calls EXCEPT !.manual = calls.manual + 1, !.ever = calls.ever + 1]
              /\ UNCHANGED <<procs, mgr, job, app, ghost>>
          BY <3>2 DEF RequestRestart
        <4>2. calls.manual + 1 \in Nat /\ calls.ever + 1 \in Nat
          BY <3>1
        <4> DEFINE a == calls.manual + 1
                   b == calls.ever + 1
        <4>3. calls' = [calls EXCEPT !.manual = a, !.ever = b] /\ a \in Nat /\ b \in Nat
          BY <4>1, <4>2
        <4> HIDE DEF a, b
        <4>4. calls' \in [manual : Nat, auto : Nat, exit : Nat, ever : Nat]
          BY <3>1, <4>3
        <4> QED BY <4>1, <4>4
      <3>3. CASE RequestExit
        BY <3>1, <3>3 DEF RequestExit
      <3> QED BY <1>2, <3>2, <3>3
    <2>2. ASSUME NEW p \in DOMAIN procs PROVE ProcOK(p)'
      BY <1>1, <2>1 DEF ProcOK
    <2> QED BY <1>1, <2>1, <2>2 DEF HsInv, HsTypeOK, JobOK
  <1>3. CASE Probe
    <2>1. /\ ReapDead /\ UNCHANGED <<calls, job, app, ghost>> /\ job.step = "free"
          /\ job.kind = "none"
      BY <1>3 DEF Probe, Free, NoJob
    <2> QED BY <2>1, ReapDeadInv
  <1> QED BY <1>2, <1>3 DEF User

-----------------------------------------------------------------------------
(* What the holder of the mutex does. *)

\* A monitor is waited for: after this none is left to spend the next budget.
LEMMA JoinInv ==
    ASSUME HsInv, JobJoin, app = "up" PROVE HsInv'
  <1> DEFINE n == Len(procs)
  <1>0. JobOK /\ HsTypeOK
    BY DEF HsInv
  <1>1. \A p \in DOMAIN procs : ProcOK(p) /\ procs[p] \in ProcType
    BY Numbers DEF HsInv
  <1>2. DOMAIN procs = 1..n /\ n \in Nat /\ mgr.child = 0 /\ mgr.current = 0
    BY <1>0, Numbers DEF JobJoin, JobOK
  <1>3. /\ job.step = "join" /\ UNCHANGED calls
        /\ job' = IF job.kind = "failed" THEN NoJob ELSE [job EXCEPT !.step = "spawn"]
        /\ mgr' = [mgr EXCEPT !.spent = mgr.spent /\ job.kind # "manual"]
        /\ app' = IF job.kind = "exit" THEN "gone" ELSE app
        /\ ghost' = [ghost EXCEPT !.allowed = IF job.kind = "manual" THEN 1 + calls.auto ELSE ghost.allowed,
                                  !.told = ghost.told \/ job.kind = "failed"]
        /\ procs' = [q \in DOMAIN procs |-> IF q = n THEN Ended(procs[q]) ELSE procs[q]]
    BY DEF JobJoin, Step, Joined
  <1>4. /\ DOMAIN procs' = DOMAIN procs /\ procs' \in Seq(ProcType) /\ Len(procs') = n
        /\ \A q \in DOMAIN procs : procs'[q] = IF q = n THEN Ended(procs[q]) ELSE procs[q]
    <2>1. \A q \in 1..n : (IF q = n THEN Ended(procs[q]) ELSE procs[q]) \in ProcType
      BY <1>1, <1>2, EndedShape
    <2> DEFINE f == [q \in 1..n |-> IF q = n THEN Ended(procs[q]) ELSE procs[q]]
    <2>2. f \in Seq(ProcType) /\ Len(f) = n
      <3>1. f \in [1..n -> ProcType]
        BY <2>1
      <3> HIDE DEF f
      <3>2. DOMAIN f = 1..n /\ f \in Seq(ProcType)
        BY <1>2, <3>1, SeqDef
      <3> QED BY <1>2, <3>2, LenProperties
    <2> QED BY <1>2, <1>3, <2>2
  <1>5. /\ mgr' \in [child : {0}, current : {0}, shutting : BOOLEAN, spent : BOOLEAN]
        /\ mgr'.spent = (mgr.spent /\ job.kind # "manual")
    BY <1>0, <1>2, <1>3 DEF HsTypeOK
  <1>6. /\ ghost' \in [allowed : Int, crashed : BOOLEAN, told : BOOLEAN]
        /\ ghost'.crashed = ghost.crashed
    <2>1. ghost \in [allowed : Int, crashed : BOOLEAN, told : BOOLEAN] /\ calls.auto \in Int
      BY <1>0 DEF HsTypeOK
    <2>2. 1 + calls.auto \in Int
      BY <2>1
    <2> DEFINE now == IF job.kind = "manual" THEN 1 + calls.auto ELSE ghost.allowed
    <2>3. now \in Int
      BY <2>1, <2>2
    <2>4. (ghost.told \/ job.kind = "failed") \in BOOLEAN
      BY <2>1
    <2>5. ghost' = [ghost EXCEPT !.allowed = now, !.told = ghost.told \/ job.kind = "failed"]
      BY <1>3
    <2> QED BY <2>1, <2>3, <2>4, <2>5
  <1>7. /\ job' \in [kind : Kinds, step : Steps] /\ job'.step \in {"free", "spawn"}
        /\ job'.step = "free" => job.kind = "failed" /\ job'.kind = "none"
        /\ job'.step = "spawn" => job.kind # "failed" /\ job'.kind = job.kind /\ job'.kind # "none"
    BY <1>0, <1>3 DEF HsTypeOK, NoJob, Kinds, Steps, JobOK
  <1>8. HsTypeOK'
    BY <1>0, <1>3, <1>4, <1>5, <1>6, <1>7 DEF HsTypeOK
  <1>9. JobOK'
    BY <1>0, <1>3, <1>5, <1>6, <1>7 DEF JobOK
  <1>10. ASSUME NEW q \in DOMAIN procs PROVE ProcOK(q)'
    <2>1. ProcOK(q) /\ procs[q] \in ProcType
      BY <1>1
    <2>2. /\ procs'[q].leader = procs[q].leader /\ procs'[q].kin = procs[q].kin
          /\ procs'[q].cleanup = procs[q].cleanup
          /\ procs'[q].monitor = IF q = n THEN "ended" ELSE procs[q].monitor
      BY <1>4, <2>1, EndedShape
    <2>3. procs[q].leader = "reaped" /\ procs[q].cleanup = "signaled"
      BY <1>2, <2>1 DEF ProcOK
    <2> QED BY <1>2, <1>3, <1>4, <1>5, <1>6, <1>7, <2>1, <2>2, <2>3 DEF ProcOK
  <1> QED BY <1>4, <1>8, <1>9, <1>10 DEF HsInv

\* A Host is spawned when nothing is left of the ones before.
LEMMA SpawnInv ==
    ASSUME HsInv, JobSpawn, app = "up" PROVE HsInv'
  <1> DEFINE p == Len(procs) + 1
  <1>0. JobOK /\ HsTypeOK
    BY DEF HsInv
  <1>1. \A q \in DOMAIN procs : ProcOK(q) /\ procs[q] \in ProcType
    BY Numbers DEF HsInv
  <1>2. /\ DOMAIN procs = 1..Len(procs) /\ Len(procs) \in Nat /\ mgr.child = 0
        /\ job.step = "spawn" /\ job' = NoJob /\ UNCHANGED <<calls, app>>
    BY <1>0, Numbers DEF JobSpawn, JobOK
  <1>3. \A q \in DOMAIN procs : procs[q].leader = "reaped" /\ procs[q].monitor = "ended"
    BY <1>1, <1>2 DEF ProcOK
  <1>4. CASE /\ procs' = Append(procs, NewProc)
             /\ mgr' = [mgr EXCEPT !.child = p, !.current = p, !.shutting = FALSE]
             /\ ghost' = [ghost EXCEPT !.crashed = FALSE, !.told = FALSE]
    <2>1. NewProc \in ProcType
      BY DEF NewProc, ProcType
    <2>2. /\ procs' \in Seq(ProcType) /\ Len(procs') = p /\ procs'[p] = NewProc
          /\ DOMAIN procs' = 1..p /\ \A q \in DOMAIN procs : procs'[q] = procs[q]
      <3>1. procs \in Seq(ProcType)
        BY <1>0 DEF HsTypeOK
      <3>2. /\ procs' \in Seq(ProcType) /\ Len(procs') = p /\ procs'[p] = NewProc
            /\ \A q \in 1..Len(procs) : procs'[q] = procs[q]
        BY <1>4, <2>1, <3>1, AppendProperties
      <3> QED BY <1>2, <3>2
    <2>3. /\ mgr' \in [child : {p}, current : {p}, shutting : {FALSE}, spent : BOOLEAN]
          /\ mgr'.spent = mgr.spent
      BY <1>0, <1>4 DEF HsTypeOK
    <2>4. ghost' \in [allowed : Int, crashed : {FALSE}, told : BOOLEAN]
      BY <1>0, <1>4 DEF HsTypeOK
    <2>5. HsTypeOK'
      <3>1. job' \in [kind : Kinds, step : Steps]
        BY <1>2 DEF NoJob, Kinds, Steps
      <3>2. mgr' \in [child : {0, Len(procs')}, current : {0, Len(procs')},
                     shutting : BOOLEAN, spent : BOOLEAN]
        BY <2>2, <2>3
      <3>3. mgr'.child = p /\ procs'[p].leader = "running"
        BY <2>2, <2>3 DEF NewProc
      <3>4. calls' \in [manual : Nat, auto : Nat, exit : Nat, ever : Nat]
            /\ app' \in {"up", "gone"}
            /\ ghost' \in [allowed : Int, crashed : BOOLEAN, told : BOOLEAN]
        BY <1>0, <1>2, <2>4 DEF HsTypeOK
      <3> QED BY <2>2, <3>1, <3>2, <3>3, <3>4 DEF HsTypeOK
    <2>6. JobOK'
      BY <1>0, <1>2, <2>3, <2>4 DEF JobOK, NoJob
    <2>7. ASSUME NEW q \in 1..p PROVE ProcOK(q)'
      <3>1. CASE q = p
        BY <1>2, <2>2, <2>3, <2>4, <3>1 DEF ProcOK, NewProc, NoJob
      <3>2. CASE q # p
        <4>1. q \in DOMAIN procs
          BY <1>2, <3>2
        <4>2. ProcOK(q) /\ procs'[q] = procs[q] /\ procs[q].leader = "reaped"
              /\ procs[q].monitor = "ended"
          BY <1>1, <1>3, <2>2, <4>1
        <4> QED BY <1>2, <2>2, <2>3, <2>4, <4>2 DEF ProcOK, NoJob
      <3> QED BY <3>1, <3>2
    <2> QED BY <2>2, <2>5, <2>6, <2>7 DEF HsInv
  <1>5. CASE /\ mgr' = [mgr EXCEPT !.current = 0, !.shutting = FALSE]
             /\ ghost' = [ghost EXCEPT !.told = TRUE]
             /\ UNCHANGED procs
    <2>1. /\ mgr' \in [child : {0}, current : {0}, shutting : {FALSE}, spent : BOOLEAN]
          /\ mgr'.spent = mgr.spent
      BY <1>0, <1>2, <1>5 DEF HsTypeOK
    <2>2. /\ ghost' \in [allowed : Int, crashed : BOOLEAN, told : BOOLEAN]
          /\ ghost'.crashed = ghost.crashed
      BY <1>0, <1>5 DEF HsTypeOK
    <2>3. HsTypeOK'
      BY <1>0, <1>2, <1>5, <2>1, <2>2 DEF HsTypeOK, NoJob, Kinds, Steps
    <2>4. JobOK'
      BY <1>0, <1>2, <2>1, <2>2 DEF JobOK, NoJob
    <2>5. ASSUME NEW q \in DOMAIN procs PROVE ProcOK(q)'
      BY <1>1, <1>2, <1>3, <1>5, <2>1, <2>2 DEF ProcOK, NoJob
    <2> QED BY <1>5, <2>3, <2>4, <2>5 DEF HsInv
  <1> QED BY <1>4, <1>5 DEF JobSpawn

LEMMA JobInv ==
    ASSUME HsInv, Job, app = "up" PROVE HsInv'
  <1> DEFINE c == mgr.child
  <1>0. JobOK /\ HsTypeOK
    BY DEF HsInv
  <1>1. \A p \in DOMAIN procs : ProcOK(p) /\ procs[p] \in ProcType
    BY Numbers DEF HsInv
  <1>2. /\ DOMAIN procs = 1..Len(procs) /\ Len(procs) \in Nat
        /\ c # 0 => c \in DOMAIN procs /\ c = Len(procs)
        /\ job.kind \in Kinds
    BY <1>0, Numbers DEF HsTypeOK
  <1>3. CASE JobRetire
    <2>1. /\ UNCHANGED <<procs, calls, app, ghost>> /\ job.step = "retire"
          /\ mgr' = [mgr EXCEPT !.shutting = TRUE, !.current = 0]
          /\ job' = [job EXCEPT !.step = IF job.kind \in {"manual", "exit"}
                                          THEN "farewell" ELSE "claim"]
      BY <1>3 DEF JobRetire, Step
    <2>2. HsTypeOK'
      BY <1>0, <2>1 DEF HsTypeOK, Steps
    <2>3. JobOK'
      BY <1>0, <2>1 DEF JobOK, HsTypeOK
    <2>4. ASSUME NEW p \in DOMAIN procs PROVE ProcOK(p)'
      BY <1>0, <1>1, <1>2, <2>1 DEF ProcOK, HsTypeOK
    <2> QED BY <2>1, <2>2, <2>3, <2>4 DEF HsInv
  <1>4. CASE JobFarewell
    <2>1. /\ UNCHANGED <<calls, app, ghost>> /\ job.step = "farewell"
          /\ job' = [job EXCEPT !.step = "claim"]
      BY <1>4 DEF JobFarewell, Step
    <2>2. CASE ReapDead
      BY <2>1, <2>2, ReapDeadInv
    <2>3. CASE UNCHANGED <<procs, mgr>>
      <3>1. HsTypeOK' /\ JobOK'
        BY <1>0, <2>1, <2>3 DEF HsTypeOK, JobOK, Steps
      <3>2. ASSUME NEW p \in DOMAIN procs PROVE ProcOK(p)'
        BY <1>0, <1>1, <2>1, <2>3 DEF ProcOK, HsTypeOK
      <3> QED BY <2>3, <3>1, <3>2 DEF HsInv
    <2> QED BY <1>4, <2>2, <2>3 DEF JobFarewell
  <1>5. CASE JobClaim
    <2>0. job.step = "claim" /\ UNCHANGED <<mgr, calls, app, ghost>>
      BY <1>5 DEF JobClaim
    <2>1. CASE c # 0 /\ procs[c].cleanup = "unclaimed"
      <3> DEFINE v == [procs[c] EXCEPT !.cleanup = "claimed"]
      <3>1. /\ v \in ProcType /\ v.leader = procs[c].leader /\ v.kin = procs[c].kin
            /\ v.cleanup = "claimed" /\ v.monitor = procs[c].monitor
        BY <1>1, <1>2, <2>1 DEF ProcType
      <3>2. procs' = [procs EXCEPT ![c] = v] /\ job' = [job EXCEPT !.step = "terminate"]
        BY <1>5, <2>1 DEF JobClaim, Step
      <3> HIDE DEF v
      <3>3. /\ procs' \in Seq(ProcType) /\ Len(procs') = Len(procs)
            /\ DOMAIN procs' = DOMAIN procs
            /\ procs'[c] = v /\ \A q \in DOMAIN procs : q # c => procs'[q] = procs[q]
        BY <1>0, <1>2, <2>1, <3>1, <3>2, OneChanges
      <3>4. ProcOK(c)
        BY <1>1, <1>2, <2>1
      <3>5. HsTypeOK'
        BY <1>0, <2>0, <2>1, <3>1, <3>2, <3>3 DEF HsTypeOK, Steps
      <3>6. JobOK'
        BY <1>0, <2>0, <2>1, <3>1, <3>2, <3>3, <3>4 DEF JobOK, HsTypeOK, ProcOK
      <3>7. ASSUME NEW q \in DOMAIN procs PROVE ProcOK(q)'
        <4>1. ProcOK(q) /\ (q = c \/ procs'[q] = procs[q])
          BY <1>1, <3>3
        <4> QED BY <1>0, <1>2, <2>0, <2>1, <3>1, <3>2, <3>3, <4>1 DEF ProcOK, HsTypeOK
      <3> QED BY <3>3, <3>5, <3>6, <3>7 DEF HsInv
    <2>2. CASE ~(c # 0 /\ procs[c].cleanup = "unclaimed")
      <3>1. UNCHANGED procs /\ job' = [job EXCEPT !.step = IF c = 0 THEN "join" ELSE "reap"]
        BY <1>5, <2>2 DEF JobClaim, Step
      <3>2. HsTypeOK' /\ JobOK'
        BY <1>0, <2>0, <2>2, <3>1 DEF HsTypeOK, JobOK, Steps
      <3>3. ASSUME NEW p \in DOMAIN procs PROVE ProcOK(p)'
        BY <1>0, <1>1, <2>0, <3>1 DEF ProcOK, HsTypeOK
      <3> QED BY <3>1, <3>2, <3>3 DEF HsInv
    <2> QED BY <2>1, <2>2
  <1>6. CASE JobTerminate
    <2> DEFINE v == Signalled(procs[c])
    <2>0. /\ job.step = "terminate" /\ UNCHANGED <<mgr, calls, app, ghost>>
          /\ procs' = [procs EXCEPT ![c] = v] /\ job' = [job EXCEPT !.step = "reap"]
      BY <1>6 DEF JobTerminate, Step
    <2>1. /\ c # 0 /\ procs[c].cleanup = "claimed" /\ procs[c].monitor # "killing"
          /\ mgr.current = 0
      BY <1>0, <2>0 DEF JobOK
    <2>2. /\ v \in ProcType /\ v.cleanup = "signaled" /\ v.kin = FALSE
          /\ v.leader = "reaped" <=> procs[c].leader = "reaped"
          /\ v.monitor = procs[c].monitor
      BY <1>1, <1>2, <2>1, SignalledShape
    <2> HIDE DEF v
    <2>3. /\ procs' \in Seq(ProcType) /\ Len(procs') = Len(procs)
          /\ DOMAIN procs' = DOMAIN procs
          /\ procs'[c] = v /\ \A q \in DOMAIN procs : q # c => procs'[q] = procs[q]
      BY <1>0, <1>2, <2>0, <2>1, <2>2, OneChanges
    <2>4. HsTypeOK' /\ JobOK'
      BY <1>0, <2>0, <2>1, <2>2, <2>3 DEF HsTypeOK, JobOK, Steps
    <2>5. ASSUME NEW q \in DOMAIN procs PROVE ProcOK(q)'
      <3>1. ProcOK(q) /\ (q = c \/ procs'[q] = procs[q])
        BY <1>1, <2>3
      <3> QED BY <1>0, <1>2, <2>0, <2>1, <2>2, <2>3, <3>1 DEF ProcOK, HsTypeOK
    <2> QED BY <2>3, <2>4, <2>5 DEF HsInv
  <1>7. CASE JobReap
    <2>0. /\ job.step = "reap" /\ procs[c].cleanup = "signaled" /\ mgr' = Forget(mgr)
          /\ UNCHANGED <<calls, app, ghost>> /\ job' = [job EXCEPT !.step = "join"]
          /\ procs' = [procs EXCEPT ![c] = Reaped(procs[c])]
      BY <1>7 DEF JobReap, Step, MayReap
    <2>1. c # 0 /\ mgr.current = 0 /\ ProcOK(c) /\ procs[c] \in ProcType
      BY <1>0, <1>1, <1>2, <2>0 DEF JobOK
    <2>2. procs[c].kin = FALSE /\ procs[c].monitor # "killing"
      BY <2>0, <2>1 DEF ProcOK, ProcType
    <2> QED BY <2>0, <2>1, <2>2, ReapedInv
  <1> QED BY <1>3, <1>4, <1>5, <1>6, <1>7, JoinInv, SpawnInv DEF Job

-----------------------------------------------------------------------------
(* The theorems. *)

\* Every step of the shell, its monitors, the Host and the user keeps the
\* invariant (pi_host.rs and lib.rs as a whole).
THEOREM HsInvCorrect == HsSpec => []HsInv
  <1>1. HsInit => HsInv
    BY HsInitInv
  <1>2. HsInv /\ [HsNext]_hsVars => HsInv'
    <2> SUFFICES ASSUME HsInv, [HsNext]_hsVars PROVE HsInv'
      OBVIOUS
    <2>1. CASE UNCHANGED hsVars
      BY <2>1 DEF HsInv, HsTypeOK, JobOK, ProcOK, hsVars
    <2>2. CASE app = "up" /\ Monitor
      BY <2>2, MonitorInv
    <2>3. CASE app = "up" /\ Start
      BY <2>3, StartInv
    <2>4. CASE app = "up" /\ Job
      BY <2>4, JobInv
    <2>5. CASE app = "up" /\ Host
      BY <2>5, HostInv
    <2>6. CASE app = "up" /\ User
      BY <2>6, UserInv
    <2> QED BY <2>1, <2>2, <2>3, <2>4, <2>5, <2>6 DEF HsNext
  <1> QED BY <1>1, <1>2, PTL DEF HsSpec

\* Processes, manager and calls keep their shapes, and the child the manager
\* holds has never been waited for (PiHostManager, pi_host.rs).
THEOREM HsTypeCorrect == HsSpec => []HsTypeOK
  <1>1. HsInv => HsTypeOK
    BY DEF HsInv
  <1> QED BY <1>1, HsInvCorrect, PTL

\* When the next Host is spawned, and when the app has gone, neither a process
\* nor a monitor of an earlier Host is left (shutdown_with_grace,
\* cleanup_dead_child, join_monitor_tasks).
THEOREM NothingLeftCorrect == HsSpec => []NothingLeft
  <1>1. HsInv => NothingLeft
    <2> SUFFICES ASSUME HsInv, NEW p \in DOMAIN procs, p < Len(procs) \/ app = "gone"
                 PROVE  ~Left(p)
      BY DEF NothingLeft
    <2>1. ProcOK(p) /\ procs[p] \in ProcType /\ JobOK
      BY Numbers DEF HsInv
    <2>2. procs[p].leader = "reaped" /\ procs[p].monitor = "ended"
      <3>1. CASE p < Len(procs)
        BY <2>1, <3>1 DEF ProcOK
      <3>2. CASE app = "gone"
        <4>1. p # 0
          BY Numbers DEF HsInv
        <4>2. job.step = "spawn" /\ mgr.child # p
          BY <2>1, <3>2, <4>1 DEF JobOK
        <4> QED BY <2>1, <4>2 DEF ProcOK
      <3> QED BY <3>1, <3>2
    <2>3. procs[p].kin = FALSE
      BY <2>1, <2>2 DEF ProcOK, ProcType
    <2> QED BY <2>2, <2>3 DEF Left
  <1> QED BY <1>1, HsInvCorrect, PTL

\* Nobody signals a group whose leader was reaped: claim_cleanup and
\* wait_until_cleanup_signaled keep the reaper back.
THEOREM SignalsOwnCorrect == HsSpec => []SignalsOwn
  <1>1. HsInv => SignalsOwn
    BY DEF HsInv, ProcOK, SignalsOwn
  <1> QED BY <1>1, HsInvCorrect, PTL

\* The automatic restarts that wait, and the one the epoch may still ask for,
\* are allowed.
Allowance == calls.auto + (IF mgr.spent THEN 0 ELSE 1) <= ghost.allowed

\* Which step changes how many automatic restarts wait, may be asked for or are
\* allowed: on_unexpected_exit, begin_auto_restart_after_crash, on_manual_restart.
LEMMA RestartSteps ==
    ASSUME HsInv, [HsNext]_hsVars
    PROVE  \/ calls'.auto = calls.auto /\ mgr'.spent = mgr.spent /\ ghost'.allowed = ghost.allowed
           \/ \E p \in DOMAIN procs :
                 /\ procs[p].monitor = "reporting" /\ ~mgr.spent /\ mgr'.spent
                 /\ calls'.auto = calls.auto + 1 /\ ghost'.allowed = ghost.allowed
           \/ /\ calls.auto > 0 /\ calls'.auto = calls.auto - 1
              /\ ghost'.allowed = ghost.allowed - 1 /\ mgr'.spent = mgr.spent
           \/ /\ calls'.auto = calls.auto
              /\ ghost'.allowed = 1 + calls.auto
  <1>0. /\ ghost \in [allowed : Int, crashed : BOOLEAN, told : BOOLEAN]
        /\ calls \in [manual : Nat, auto : Nat, exit : Nat, ever : Nat]
        /\ mgr \in [child : {0, Len(procs)}, current : {0, Len(procs)},
                    shutting : BOOLEAN, spent : BOOLEAN]
    BY DEF HsInv, HsTypeOK
  <1>1. CASE UNCHANGED hsVars
    BY <1>1 DEF hsVars
  <1>2. CASE Monitor
    <2>1. PICK p \in DOMAIN procs :
             MonitorEof(p) \/ MonitorClaim(p) \/ MonitorKill(p) \/ MonitorReport(p)
      BY <1>2 DEF Monitor
    <2>2. CASE MonitorReport(p) /\ MayRestart
      <3>1. /\ procs[p].monitor = "reporting" /\ ~mgr.spent
            /\ mgr' = [mgr EXCEPT !.spent = TRUE] /\ UNCHANGED ghost
            /\ calls' = [calls EXCEPT !.auto = calls.auto + 1]
        BY <2>2 DEF MonitorReport, MayRestart
      <3>2. mgr'.spent
        BY <1>0, <3>1
      <3>3. calls'.auto = calls.auto + 1
        BY <1>0, <3>1
      <3> QED BY <3>1, <3>2, <3>3
    <2>3. CASE MonitorReport(p) /\ ~MayRestart
      BY <1>0, <2>3 DEF MonitorReport
    <2>4. CASE MonitorEof(p) \/ MonitorClaim(p) \/ MonitorKill(p)
      BY <2>4 DEF MonitorEof, MonitorClaim, MonitorKill
    <2> QED BY <2>1, <2>2, <2>3, <2>4
  <1>3. CASE Start
    <2>1. ASSUME NEW kind \in Callers, Acquire(kind)
          PROVE  IF kind = "auto"
                 THEN /\ calls.auto > 0 /\ calls'.auto = calls.auto - 1
                      /\ ghost'.allowed = ghost.allowed - 1 /\ mgr' = mgr
                 ELSE calls'.auto = calls.auto /\ ghost'.allowed = ghost.allowed /\ mgr' = mgr
      <3>1. /\ calls[kind] > 0 /\ mgr' = mgr
            /\ calls' = [calls EXCEPT ![kind] = calls[kind] - 1]
            /\ ghost' = [ghost EXCEPT !.allowed = IF kind = "auto" THEN ghost.allowed - 1
                                                  ELSE ghost.allowed]
        BY <2>1 DEF Acquire
      <3>2. CASE kind = "auto"
        BY <1>0, <3>1, <3>2
      <3>3. CASE kind # "auto"
        BY <1>0, <3>1, <3>3
      <3> QED BY <3>2, <3>3
    <2>2. ASSUME NEW p \in DOMAIN procs, StartTimeout(p) \/ Complete(p)
          PROVE  UNCHANGED <<calls, mgr, ghost>>
      BY <2>2 DEF StartTimeout, Complete
    <2> QED BY <1>3, <2>1, <2>2 DEF Start
  <1>4. CASE Host
    BY <1>0, <1>4 DEF Host, HostSpeaks, HostDies, ReadFails, Lost
  <1>5. ReapDead => mgr'.spent = mgr.spent
    BY <1>0 DEF ReapDead, Forget
  <1>6. CASE User
    BY <1>0, <1>5, <1>6 DEF User, RequestRestart, RequestExit, Probe
  <1>7. CASE JobJoin
    <2>1. /\ UNCHANGED calls
          /\ mgr' = [mgr EXCEPT !.spent = mgr.spent /\ job.kind # "manual"]
          /\ ghost' = [ghost EXCEPT !.allowed = IF job.kind = "manual" THEN 1 + calls.auto
                                                ELSE ghost.allowed,
                                    !.told = ghost.told \/ job.kind = "failed"]
      BY <1>7 DEF JobJoin
    <2>2. ghost'.allowed = IF job.kind = "manual" THEN 1 + calls.auto ELSE ghost.allowed
      BY <1>0, <2>1
    <2>3. job.kind # "manual" => mgr'.spent = mgr.spent
      BY <1>0, <2>1
    <2> QED BY <2>1, <2>2, <2>3
  <1>8. CASE JobSpawn
    BY <1>0, <1>8 DEF JobSpawn
  <1>9. CASE JobRetire \/ JobFarewell \/ JobClaim \/ JobTerminate \/ JobReap
    BY <1>0, <1>5, <1>9 DEF JobRetire, JobFarewell, JobClaim, JobTerminate, JobReap, Forget
  <1> QED BY <1>1, <1>2, <1>3, <1>4, <1>6, <1>7, <1>8, <1>9 DEF HsNext, Job

\* One automatic restart is made until the user's next, besides those asked for
\* before his last that he overtook, and none is asked for but after a crash
\* (AutoRestartEpoch, pi_host.rs).
THEOREM RestartOnceCorrect == HsSpec => RestartOnce
  <1>0. HsInv => /\ ghost.allowed \in Int /\ calls.auto \in Nat
                 /\ \A p \in DOMAIN procs : procs[p].monitor = "reporting" => ghost.crashed
    BY DEF HsInv, HsTypeOK, ProcOK
  <1>1. HsInit => Allowance
    BY DEF HsInit, Allowance
  <1>2. HsInv /\ Allowance /\ [HsNext]_hsVars => Allowance'
    <2> SUFFICES ASSUME HsInv, Allowance, [HsNext]_hsVars PROVE Allowance'
      OBVIOUS
    <2>1. CASE calls'.auto = calls.auto /\ mgr'.spent = mgr.spent /\ ghost'.allowed = ghost.allowed
      BY <2>1 DEF Allowance
    <2>2. CASE ~mgr.spent /\ mgr'.spent /\ calls'.auto = calls.auto + 1
               /\ ghost'.allowed = ghost.allowed
      BY <1>0, <2>2 DEF Allowance
    <2>3. CASE calls'.auto = calls.auto - 1 /\ ghost'.allowed = ghost.allowed - 1
               /\ mgr'.spent = mgr.spent
      BY <1>0, <2>3 DEF Allowance
    <2>4. CASE calls'.auto = calls.auto /\ ghost'.allowed = 1 + calls.auto
      BY <1>0, <2>4 DEF Allowance
    <2> QED BY <2>1, <2>2, <2>3, <2>4, RestartSteps
  <1>3. HsInv /\ Allowance /\ [HsNext]_hsVars =>
           [/\ calls'.auto < calls.auto => ghost.allowed > 0
            /\ calls'.auto > calls.auto => ghost.crashed]_hsVars
    <2> SUFFICES ASSUME HsInv, Allowance, [HsNext]_hsVars
                 PROVE  /\ calls'.auto < calls.auto => ghost.allowed > 0
                        /\ calls'.auto > calls.auto => ghost.crashed
      OBVIOUS
    <2>1. calls'.auto < calls.auto => calls.auto > 0
      BY <1>0, RestartSteps
    <2>2. calls.auto > 0 => ghost.allowed > 0
      BY <1>0 DEF Allowance
    <2>3. calls'.auto > calls.auto => ghost.crashed
      BY <1>0, RestartSteps
    <2> QED BY <2>1, <2>2, <2>3
  <1> QED BY <1>1, <1>2, <1>3, HsInvCorrect, PTL DEF HsSpec, RestartOnce

\* The generation moves on in two steps only.
LEMMA OnlyRetires ==
    ASSUME HsInv, [HsNext]_hsVars, mgr'.current # mgr.current
    PROVE  JobRetire \/ JobSpawn
  <1>0. mgr \in [child : {0, Len(procs)}, current : {0, Len(procs)},
                 shutting : BOOLEAN, spent : BOOLEAN]
    BY DEF HsInv, HsTypeOK
  <1>1. CASE UNCHANGED hsVars
    BY <1>1 DEF hsVars
  <1>2. CASE Monitor
    BY <1>0, <1>2 DEF Monitor, MonitorEof, MonitorClaim, MonitorKill, MonitorReport
  <1>3. CASE Start
    BY <1>3 DEF Start, Acquire, StartTimeout, Complete
  <1>4. CASE Host
    BY <1>4 DEF Host, HostSpeaks, HostDies, ReadFails
  <1>5. ReapDead => mgr'.current = mgr.current
    BY <1>0 DEF ReapDead, Forget
  <1>6. CASE User
    BY <1>5, <1>6 DEF User, RequestRestart, RequestExit, Probe
  <1>7. CASE JobFarewell \/ JobClaim \/ JobTerminate
    BY <1>5, <1>7 DEF JobFarewell, JobClaim, JobTerminate
  <1>8. CASE JobReap \/ JobJoin
    BY <1>0, <1>8 DEF JobReap, JobJoin, Forget
  <1> QED BY <1>1, <1>2, <1>3, <1>4, <1>6, <1>7, <1>8 DEF HsNext, Job

\* A Host that is well is stopped for a caller of the manager only: neither by
\* a start that was overtaken (complete_start), nor by a monitor of an earlier
\* generation, nor by a probe.
THEOREM HealthyKeptCorrect == HsSpec => HealthyKept
  <1> DEFINE Kept == \A p \in DOMAIN procs :
                        Healthy(p) /\ mgr'.current # p => job.kind \in Callers
  <1>1. HsInv /\ [HsNext]_hsVars => [Kept]_hsVars
    <2> SUFFICES ASSUME HsInv, [HsNext]_hsVars, NEW p \in DOMAIN procs,
                        Healthy(p), mgr'.current # p
                 PROVE  job.kind \in Callers
      OBVIOUS
    <2>1. mgr.current = p /\ p # 0 /\ procs[p].start # "undone"
      BY Numbers DEF HsInv, Healthy
    <2>2. JobOK /\ job.kind \in Kinds
      BY DEF HsInv, HsTypeOK
    <2>3. CASE JobRetire
      <3>1. job.step = "retire"
        BY <2>3 DEF JobRetire
      <3>2. job.kind # "failed"
        BY <2>1, <2>2, <3>1 DEF JobOK
      <3>3. job.kind # "none" /\ job.kind # "fresh"
        BY <2>2, <3>1 DEF JobOK
      <3> QED BY <2>2, <3>2, <3>3 DEF Kinds
    <2>4. CASE JobSpawn
      BY <2>1, <2>2, <2>4 DEF JobOK, JobSpawn
    <2> QED BY <2>1, <2>3, <2>4, OnlyRetires
  <1> QED BY <1>1, HsInvCorrect, PTL DEF HsSpec, HealthyKept
=============================================================================
