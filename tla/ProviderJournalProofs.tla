------------------------ MODULE ProviderJournalProofs ------------------------
(***************************************************************************)
(* What ProviderJournal keeps for any number of mutations, deaths, faults  *)
(* and directories.                                                        *)
(***************************************************************************)
EXTENDS ProviderJournal, TLAPS

-----------------------------------------------------------------------------
(* Who is at work: at most one of a mutation, its roll-back, the recovery. *)

Phases ==
    /\ ~Up => op.kind = "none"
    /\ host.phase # "recovering" => host.todo = {}
    /\ host.phase = "down" => replay.step = "none"
    /\ op.kind = "none" => op.step = "none"
    /\ Up /\ op.kind = "none" => replay.step = "none"
    /\ op.kind = "plain" =>
          op.step \in {"commit", "refresh", "rewrite"} /\ replay.step = "none"
    /\ op.kind = "journaled" =>
          \/ op.step \in {"begin", "commit", "credentials", "reconcile"} /\ replay.step = "none"
          \/ op.step \in {"finish", "rollback"} /\ replay.step # "none" /\ replay.name = op.name
    /\ op.step = "finish" => replay.step = "remove"
    /\ replay.step # "none" => replay.name \notin host.todo

TypeInv == PjTypeOK /\ Phases

THEOREM TypeInit == PjInit => TypeInv
  BY JournalAssumption DEF PjInit, TypeInv, PjTypeOK, Phases, ModelsFile, Nothing, EntryType,
     NoOp, NoReplay, HostDown, Up, Steps, Accidents

LEMMA TypeBegin ==
    ASSUME TypeInv, NEW n \in Names, Begin(n) PROVE TypeInv'
  <1>1. n \in Nat
    BY JournalAssumption
  <1>2. Copies \in EntryType
    BY DEF TypeInv, PjTypeOK, Copies, EntryType
  <1>3. entries' \in [DOMAIN entries' -> EntryType] /\ DOMAIN entries' = DOMAIN entries \union {n}
    BY <1>2 DEF Begin, TypeInv, PjTypeOK
  <1>4. PjTypeOK'
    BY <1>1, <1>3 DEF Begin, TypeInv, PjTypeOK, Phases, files, Accident, Accidents, Steps, Idle, Up, NoOp
  <1>5. Phases'
    BY DEF Begin, TypeInv, PjTypeOK, Phases, Idle, Up, NoOp
  <1> QED BY <1>4, <1>5 DEF TypeInv

LEMMA TypePart ==
    ASSUME TypeInv, JournalPart PROVE TypeInv'
  <1> DEFINE n == op.name
             written == entries[n].has \union {NextPart(entries[n].has)}
  <1>1. n \in DOMAIN entries /\ op.kind = "journaled" /\ replay.step = "none"
    BY DEF JournalPart, TypeInv, PjTypeOK, Phases
  <1>2. written \in SUBSET (Backups \union {Record})
    BY <1>1 DEF TypeInv, PjTypeOK, EntryType, NextPart, Backups
  <1>3. entries' \in [DOMAIN entries' -> EntryType] /\ DOMAIN entries' = DOMAIN entries
    BY <1>1, <1>2 DEF JournalPart, TypeInv, PjTypeOK, EntryType
  <1>4. op' \in [kind : {"none", "journaled", "plain"}, step : Steps, id : Nat,
               name : Nat, before : ModelsFile]
        /\ op'.kind = op.kind /\ op'.name = op.name /\ op'.step \in {"begin", "commit"}
    BY DEF JournalPart, TypeInv, PjTypeOK, Steps
  <1> QED BY <1>1, <1>3, <1>4 DEF JournalPart, TypeInv, PjTypeOK, Phases, files, NoFault, Up

LEMMA TypeEnd ==
    ASSUME TypeInv, NEW restored \in BOOLEAN, EndReplay(restored), replay.step # "none",
           entries' \in [DOMAIN entries' -> EntryType],
           DOMAIN entries' \subseteq DOMAIN entries,
           DOMAIN entries \ {replay.name} \subseteq DOMAIN entries',
           models' \in ModelsFile, auth' \in Nat,
           used' \in [mutations : Nat, crashes : Nat, faults : Nat]
    PROVE  TypeInv'
  <1>1. host' \in [phase : {"recovering", "up"}, todo : SUBSET DOMAIN entries',
                   degraded : BOOLEAN, incomplete : BOOLEAN, unlisted : BOOLEAN]
        /\ host'.phase = host.phase /\ host'.todo = host.todo
    BY DEF TypeInv, PjTypeOK, Phases, EndReplay, StillDegraded
  <1>2. ghost' \in [prov : SUBSET Nat, extra : SUBSET Nat, past : SUBSET Accidents]
    BY DEF TypeInv, PjTypeOK, EndReplay, Settle, Accident, Accidents
  <1>3. op' = NoOp /\ replay' = NoReplay
    BY DEF EndReplay
  <1> QED BY <1>1, <1>2, <1>3 DEF TypeInv, PjTypeOK, Phases, NoOp, NoReplay, Nothing, ModelsFile,
        Steps, Up

LEMMA TypeReplay ==
    ASSUME TypeInv, Replay PROVE TypeInv'
  <1> USE DEF NoFault, Fault, files
  <1>1. CASE ReadBackups
    <2>1. CASE EndReplay(FALSE)
      <3>1. used' \in [mutations : Nat, crashes : Nat, faults : Nat]
        <4>1. used' = used \/ used' = [used EXCEPT !.faults = used.faults + 1]
          BY <1>1 DEF ReadBackups
        <4> QED BY <4>1 DEF TypeInv, PjTypeOK
      <3>2. replay.step # "none" /\ entries' = entries /\ models' = models /\ auth' = auth
        BY <1>1 DEF ReadBackups
      <3> QED BY <2>1, <3>1, <3>2, TypeEnd DEF TypeInv, PjTypeOK
    <2>2. CASE replay' = [replay EXCEPT !.step = "models"] /\ UNCHANGED <<host, op, ghost, used>>
      BY <1>1, <2>2 DEF ReadBackups, TypeInv, PjTypeOK, Phases, Up
    <2> QED BY <1>1, <2>1, <2>2 DEF ReadBackups
  <1>2. CASE RestoreModels
    <2>1. replay' \in [step : {"auth"}, name : Nat, ok : BOOLEAN] /\ replay'.name = replay.name
      BY <1>2 DEF RestoreModels, TypeInv, PjTypeOK
    <2>2. models' \in ModelsFile
      BY <1>2 DEF RestoreModels, TypeInv, PjTypeOK, EntryType
    <2>3. used' \in [mutations : Nat, crashes : Nat, faults : Nat]
      BY <1>2 DEF RestoreModels, TypeInv, PjTypeOK
    <2> QED BY <1>2, <2>1, <2>2, <2>3 DEF RestoreModels, TypeInv, PjTypeOK, Phases, Up
  <1>3. CASE RestoreAuth
    <2>0. replay.name \in DOMAIN entries /\ entries[replay.name].auth \in Nat
      BY <1>3 DEF RestoreAuth, TypeInv, PjTypeOK, EntryType
    <2>4. auth' \in {auth, entries[replay.name].auth}
          /\ (used' = used \/ used' = [used EXCEPT !.faults = used.faults + 1])
      BY <1>3 DEF RestoreAuth
    <2>1. auth' \in Nat /\ used' \in [mutations : Nat, crashes : Nat, faults : Nat]
      BY <2>0, <2>4 DEF TypeInv, PjTypeOK
    <2>2. CASE EndReplay(FALSE)
      BY <1>3, <2>1, <2>2, TypeEnd DEF RestoreAuth, TypeInv, PjTypeOK
    <2>3. CASE replay' = [replay EXCEPT !.step = "remove"] /\ UNCHANGED <<host, op, ghost>>
      BY <1>3, <2>1, <2>3 DEF RestoreAuth, TypeInv, PjTypeOK, Phases, Up
    <2> QED BY <1>3, <2>2, <2>3 DEF RestoreAuth
  <1>4. CASE RemovePart
    <2>1. entries' \in [DOMAIN entries' -> EntryType] /\ DOMAIN entries' = DOMAIN entries
      BY <1>4 DEF RemovePart, TypeInv, PjTypeOK, EntryType
    <2> QED BY <1>4, <2>1 DEF RemovePart, TypeInv, PjTypeOK, Phases, Up
  <1>5. CASE RemoveDirectory
    <2>1. entries' \in [DOMAIN entries' -> EntryType]
          /\ DOMAIN entries' = DOMAIN entries \ {replay.name}
      BY <1>5 DEF RemoveDirectory, TypeInv, PjTypeOK
    <2> QED BY <1>5, <2>1, TypeEnd DEF RemoveDirectory, TypeInv, PjTypeOK
  <1>6. CASE RemoveFails
    <2>1. used' \in [mutations : Nat, crashes : Nat, faults : Nat]
      BY <1>6 DEF RemoveFails, TypeInv, PjTypeOK
    <2>2. /\ replay.step # "none" /\ entries' = entries /\ models' = models /\ auth' = auth
          /\ EndReplay(TRUE)
      BY <1>6 DEF RemoveFails
    <2> QED BY <2>1, <2>2, TypeEnd DEF TypeInv, PjTypeOK
  <1> QED BY <1>1, <1>2, <1>3, <1>4, <1>5, <1>6 DEF Replay

LEMMA TypeMutate ==
    ASSUME TypeInv, Mutate PROVE TypeInv'
  <1> USE DEF NoFault, Fault, files, Steps, Accident, Accidents
  <1>1. CASE \E n \in Names : Begin(n)
    BY <1>1, TypeBegin
  <1>2. CASE JournalPart
    BY <1>2, TypePart
  <1>3. CASE FailEarly
    BY <1>3 DEF FailEarly, TypeInv, PjTypeOK, Phases, Up, Settle, NoOp, Nothing, ModelsFile
  <1>4. CASE CommitModels
    BY <1>4 DEF CommitModels, TypeInv, PjTypeOK, Phases, Up, ModelsFile
  <1>5. CASE WriteCredentials
    BY <1>5 DEF WriteCredentials, TypeInv, PjTypeOK, Phases, Up
  <1>6. CASE Reconcile
    BY <1>6 DEF Reconcile, TypeInv, PjTypeOK, Phases, Up
  <1>7. CASE FailLate
    BY <1>7 DEF FailLate, TypeInv, PjTypeOK, Phases, Up
  <1>8. CASE BeginPlain
    BY <1>8 DEF BeginPlain, TypeInv, PjTypeOK, Phases, Up, Idle, NoOp
  <1>9. CASE CommitPlain
    BY <1>9 DEF CommitPlain, TypeInv, PjTypeOK, Phases, Up, Settle, NoOp, Nothing, ModelsFile
  <1>10. CASE RefreshPlain
    BY <1>10 DEF RefreshPlain, TypeInv, PjTypeOK, Phases, Up, Settle, NoOp, Nothing, ModelsFile
  <1>11. CASE TruncatePlain
    BY <1>11 DEF TruncatePlain, TypeInv, PjTypeOK, Phases, Up, Nothing, ModelsFile
  <1>12. CASE RewritePlain
    BY <1>12 DEF RewritePlain, TypeInv, PjTypeOK, Phases, Up, Settle, NoOp, Nothing, ModelsFile
  <1> QED BY <1>1, <1>2, <1>3, <1>4, <1>5, <1>6, <1>7, <1>8, <1>9, <1>10, <1>11, <1>12 DEF Mutate

LEMMA TypeStart ==
    ASSUME TypeInv, Start \/ Crash PROVE TypeInv'
  <1> USE DEF files, Accident, Accidents, Steps
  <1>1. CASE StartHost
    <2>1. /\ host'.phase = "recovering" /\ host'.todo \in SUBSET DOMAIN entries
          /\ host' \in [phase : {"recovering"}, todo : SUBSET DOMAIN entries, degraded : BOOLEAN,
                        incomplete : BOOLEAN, unlisted : BOOLEAN]
      BY <1>1 DEF StartHost, TypeInv, PjTypeOK
    <2>2. /\ used' \in [mutations : Nat, crashes : Nat, faults : Nat]
          /\ ghost' \in [prov : SUBSET Nat, extra : SUBSET Nat, past : SUBSET Accidents]
      BY <1>1 DEF StartHost, NoFault, Fault, TypeInv, PjTypeOK
    <2> QED BY <1>1, <2>1, <2>2 DEF StartHost, TypeInv, PjTypeOK, Phases, Up
  <1>2. CASE NextEntry
    <2>1. PICK n \in host.todo :
             /\ host' = [host EXCEPT !.todo = host.todo \ {n}]
             /\ \E next \in {"read", "remove"} :
                   replay' = [step |-> next, name |-> n, ok |-> TRUE]
      BY <1>2 DEF NextEntry, Remaining
    <2>2. n \in DOMAIN entries /\ n \in Nat
      BY JournalAssumption DEF TypeInv, PjTypeOK
    <2>3. replay' \in [step : {"read", "remove"}, name : Nat, ok : BOOLEAN] /\ replay'.name = n
      BY <2>1, <2>2
    <2>4. /\ used' \in [mutations : Nat, crashes : Nat, faults : Nat]
          /\ ghost' \in [prov : SUBSET Nat, extra : SUBSET Nat, past : SUBSET Accidents]
      BY <1>2 DEF NextEntry, NoFault, Fault, TypeInv, PjTypeOK
    <2> QED BY <1>2, <2>1, <2>2, <2>3, <2>4 DEF NextEntry, TypeInv, PjTypeOK, Phases, Up
  <1>3. CASE HostReady
    BY <1>3 DEF HostReady, TypeInv, PjTypeOK, Phases, Up, NoReplay, ModelsFile
  <1>4. CASE Crash
    BY <1>4 DEF Crash, HostDown, TypeInv, PjTypeOK, Phases, Up, NoReplay, NoOp, Nothing, ModelsFile,
        OpenOutcome
  <1> QED BY <1>1, <1>2, <1>3, <1>4 DEF Start

\* Files, journal and process keep their shapes, and one of them works at a time.
THEOREM TypeCorrect == PjSpec => []TypeInv
  <1>1. TypeInv /\ [PjNext]_pjVars => TypeInv'
    <2> SUFFICES ASSUME TypeInv, [PjNext]_pjVars PROVE TypeInv'
      OBVIOUS
    <2>1. CASE UNCHANGED pjVars
      BY <2>1 DEF pjVars, files, TypeInv, PjTypeOK, Phases, Up
    <2> QED BY <2>1, TypeMutate, TypeReplay, TypeStart DEF PjNext
  <1> QED BY <1>1, TypeInit, PTL DEF PjSpec

-----------------------------------------------------------------------------
(* The files and the journal.  Unless one of the accidents has happened,   *)
(* the two halves of the provider agree whenever no record says otherwise. *)

\* From its record to its removal a directory can be found by a restart, and
\* what has been restored of it so far is what it holds.
Logged ==
    /\ op.kind = "journaled" /\ op.step \in {"commit", "credentials", "reconcile"} =>
          HasRecord(op.name)
    /\ replay.step \in {"read", "models", "auth"} => HasRecord(replay.name)
    /\ replay.step \in {"models", "auth"} => Replayable(replay.name)
    /\ replay.step = "auth" /\ replay.ok => models = entries[replay.name].models

\* The copies were taken of files that agreed.
CopiesAgree == \A n \in DOMAIN entries : entries[n].models.prov = entries[n].auth

\* How far a mutation, a roll-back or a recovery has got with the files.
Progress ==
    /\ op.kind = "journaled" /\ op.step \in {"begin", "commit"} => Agree
    /\ op.step = "credentials" => models.prov = op.id
    /\ op.step \in {"reconcile", "finish"} => Agree
    /\ op.step = "rollback" /\ replay.step = "remove" => Agree
    /\ replay.step = "remove" /\ HasRecord(replay.name) => Agree

Known == host.degraded \/ host.incomplete \/ host.unlisted

\* A mutation of models.json alone can be taken back to a state as good.
Plain ==
    op.kind = "plain" =>
        /\ op.before.prov = auth \/ (Known /\ Recorded # {})
        /\ op.step # "rewrite" => models.prov = op.before.prov

\* What a starting Host has found out.
Told == host.degraded \/ host.unlisted

\* A disagreement that nobody works on is known, or about to be found.
Accounted ==
    /\ Agree \/ Recorded # {} \/ op.step = "rewrite"
    /\ Up /\ op.kind = "none" => Agree \/ Known
    /\ host.phase = "recovering" =>
          \/ Agree \/ Told \/ replay.step \in {"read", "models", "auth"}
          \/ \E n \in host.todo : HasRecord(n)

FilesInv == Logged /\ (Blind \/ (CopiesAgree /\ Progress /\ Plain /\ Accounted))

PjInv == TypeInv /\ FilesInv

LEMMA FilesInit == PjInit => FilesInv
  BY DEF PjInit, HostDown, FilesInv, Logged, CopiesAgree, Progress, Plain, Accounted, Told, Agree, Nothing, NoOp,
     NoReplay, Up

LEMMA FilesBegin ==
    ASSUME PjInv, NEW n \in Names, Begin(n) PROVE FilesInv'
  <1>1. DOMAIN entries' = DOMAIN entries \union {n} /\ entries'[n] = Copies
        /\ (\A e \in DOMAIN entries : entries'[e] = entries[e]) /\ n \notin DOMAIN entries
    BY DEF Begin
  <1>2. op.kind = "none" /\ op.step = "none" /\ replay.step = "none" /\ Up
    BY DEF Begin, Idle, NoOp, PjInv, TypeInv, Phases
  <1>3. /\ op'.kind = "journaled" /\ op'.step = "begin"
        /\ UNCHANGED <<models, auth, host, replay>>
        /\ ghost'.past = ghost.past \union (IF ~Agree THEN {"mixed"} ELSE {})
    BY DEF Begin, files, Accident, PjInv, TypeInv, PjTypeOK
  <1>4. Logged'
    BY <1>2, <1>3 DEF Logged
  <1>5. CASE Blind \/ ~Agree
    BY <1>3, <1>4, <1>5 DEF Blind, FilesInv
  <1>6. CASE ~Blind /\ Agree
    <2>1. CopiesAgree'
      BY <1>1, <1>6 DEF CopiesAgree, Copies, Agree, PjInv, FilesInv
    <2>2. Progress' /\ Plain' /\ Accounted'
      BY <1>2, <1>3, <1>6 DEF Progress, Plain, Accounted, Told, Agree, Up
    <2> QED BY <1>4, <2>1, <2>2 DEF FilesInv
  <1> QED BY <1>5, <1>6

LEMMA FilesPart ==
    ASSUME PjInv, JournalPart PROVE FilesInv'
  <1> DEFINE n == op.name
             written == entries[n].has \union {NextPart(entries[n].has)}
  <1>1. n \in DOMAIN entries /\ op.kind = "journaled" /\ op.step = "begin" /\ replay.step = "none"
        /\ host.phase = "up"
    BY DEF JournalPart, PjInv, TypeInv, PjTypeOK, Phases, Up
  <1>2. /\ DOMAIN entries' = DOMAIN entries
        /\ entries'[n].has = written
        /\ \A e \in DOMAIN entries : /\ entries'[e].models = entries[e].models
                                     /\ entries'[e].auth = entries[e].auth
                                     /\ entries[e].has \subseteq entries'[e].has
    BY <1>1 DEF JournalPart, PjInv, TypeInv, PjTypeOK, EntryType
  <1>3. /\ op'.kind = "journaled" /\ op'.name = n
        /\ op'.step = IF Record \in written THEN "commit" ELSE "begin"
        /\ UNCHANGED <<models, auth, host, replay, ghost>>
    BY <1>1 DEF JournalPart, files, PjInv, TypeInv, PjTypeOK
  <1>4. Logged'
    BY <1>1, <1>2, <1>3 DEF Logged, HasRecord
  <1>5. CASE Blind
    BY <1>3, <1>4, <1>5 DEF Blind, FilesInv
  <1>6. CASE ~Blind
    <2>1. Agree
      BY <1>1, <1>6 DEF PjInv, FilesInv, Progress
    <2> QED BY <1>1, <1>2, <1>3, <1>4, <1>6, <2>1
          DEF PjInv, FilesInv, CopiesAgree, Progress, Plain, Accounted, Told, Agree, Up
  <1> QED BY <1>5, <1>6

\* The end of a replay: what is not restored is known from now on.
LEMMA FilesEnd ==
    ASSUME PjInv, NEW restored \in BOOLEAN, EndReplay(restored),
           Blind \/ CopiesAgree',
           Blind \/ Agree' \/ Recorded' # {},
           \/ Blind \/ ~restored \/ Agree'
           \/ host.phase = "recovering" /\ (Told \/ \E n \in host.todo : HasRecord(n)')
    PROVE  FilesInv'
  <1>1. /\ op'.kind = "none" /\ op'.step = "none" /\ replay'.step = "none"
        /\ host'.phase = host.phase /\ host'.todo = host.todo /\ host'.unlisted = host.unlisted
        /\ host.phase = "recovering" => host'.degraded = (host.degraded \/ ~restored)
        /\ host.phase # "recovering" => host'.incomplete = (host.incomplete \/ ~restored)
        /\ ghost.past \subseteq ghost'.past
    BY DEF EndReplay, NoOp, NoReplay, StillDegraded, Settle, Accident, PjInv, TypeInv, PjTypeOK
  <1>2. Logged' /\ Progress' /\ Plain'
    BY <1>1 DEF Logged, Progress, Plain
  <1>3. Blind => Blind'
    BY <1>1 DEF Blind
  <1>4. Blind \/ Accounted'
    BY <1>1 DEF Accounted, Known, Told, Up
  <1> QED BY <1>2, <1>3, <1>4 DEF FilesInv

LEMMA FilesReplay ==
    ASSUME PjInv, Replay PROVE FilesInv'
  <1> DEFINE n == replay.name
  <1> USE DEF NoFault, Fault, files
  <1>0. n \in DOMAIN entries
    BY DEF Replay, ReadBackups, RestoreModels, RestoreAuth, RemovePart, RemoveDirectory,
           RemoveFails, PjInv, TypeInv, PjTypeOK
  <1>1. CASE ReadBackups
    <2>1. HasRecord(n) /\ UNCHANGED <<models, auth, entries>>
      BY <1>1 DEF ReadBackups, PjInv, FilesInv, Logged
    <2>2. CASE EndReplay(FALSE)
      BY <2>1, <2>2, <1>0, FilesEnd DEF PjInv, FilesInv, CopiesAgree, Recorded, HasRecord
    <2>3. CASE /\ Replayable(n)
               /\ replay' = [replay EXCEPT !.step = "models"] /\ UNCHANGED <<host, op, ghost>>
      <3>1. replay'.step = "models" /\ replay'.name = n /\ replay.step = "read"
        BY <1>1, <2>3 DEF ReadBackups, PjInv, TypeInv, PjTypeOK
      <3>2. Logged'
        BY <2>1, <2>3, <3>1 DEF PjInv, TypeInv, Phases, Up, FilesInv, Logged, HasRecord, Replayable
      <3> QED BY <2>1, <2>3, <3>1, <3>2 DEF PjInv, TypeInv, Phases, FilesInv, Logged, Blind,
               CopiesAgree, Progress, Plain, Accounted, Told, Known, Agree, Recorded, HasRecord, Up
    <2> QED BY <1>1, <2>2, <2>3 DEF ReadBackups
  <1>2. CASE RestoreModels
    <2>1. /\ replay.step = "models" /\ HasRecord(n) /\ UNCHANGED <<auth, entries, host, op, ghost>>
          /\ replay'.step = "auth" /\ replay'.name = n
          /\ replay'.ok => models' = entries[n].models
      BY <1>2 DEF RestoreModels, PjInv, TypeInv, PjTypeOK, FilesInv, Logged
    <2>2. op.kind # "plain" /\ op.step \in {"none", "rollback"} /\ (op.kind = "none" => ~Up)
      BY <2>1 DEF PjInv, TypeInv, PjTypeOK, Phases
    <2>3. Recorded' # {}
      BY <2>1, <1>0 DEF Recorded, HasRecord
    <2>4. Logged'
      BY <2>1, <2>2 DEF PjInv, FilesInv, Logged, HasRecord, Replayable
    <2> QED BY <2>1, <2>2, <2>3, <2>4 DEF PjInv, FilesInv, Blind, CopiesAgree,
             Progress, Plain, Accounted, Told, Known, Agree, HasRecord, Up
  <1>3. CASE RestoreAuth
    <2>1. /\ replay.step = "auth" /\ HasRecord(n) /\ UNCHANGED <<models, entries>>
          /\ auth' \in {auth, entries[n].auth}
      BY <1>3 DEF RestoreAuth, PjInv, FilesInv, Logged
    <2>2. Recorded' # {}
      BY <2>1, <1>0 DEF Recorded, HasRecord
    <2>3. CASE EndReplay(FALSE)
      BY <2>1, <2>2, <2>3, FilesEnd DEF PjInv, FilesInv, CopiesAgree
    <2>4. CASE /\ replay' = [replay EXCEPT !.step = "remove"] /\ UNCHANGED <<host, op, ghost>>
               /\ replay.ok /\ auth' = entries[n].auth
      <3>1. replay'.step = "remove" /\ replay'.name = n
        BY <2>4 DEF PjInv, TypeInv, PjTypeOK
      <3>2. op.kind # "plain" /\ op.step \in {"none", "rollback"} /\ (op.kind = "none" => ~Up)
        BY <2>1 DEF PjInv, TypeInv, PjTypeOK, Phases
      <3>3. Blind \/ Agree'
        BY <1>0, <2>1, <2>4 DEF PjInv, FilesInv, Logged, CopiesAgree, Agree
      <3> QED BY <2>1, <2>2, <2>4, <3>1, <3>2, <3>3 DEF PjInv, FilesInv, Logged, Blind, CopiesAgree,
               Progress, Plain, Accounted, Told, Known, Agree, HasRecord, Up
    <2> QED BY <1>3, <2>3, <2>4 DEF RestoreAuth, RestoredBoth
  <1>4. CASE RemovePart
    <2>1. PICK p \in entries[n].has : entries' = [entries EXCEPT ![n].has = @ \ {p}]
      BY <1>4 DEF RemovePart
    <2>2. /\ replay.step = "remove" /\ UNCHANGED <<models, auth, host, op, replay, ghost>>
          /\ DOMAIN entries' = DOMAIN entries
          /\ \A e \in DOMAIN entries : /\ entries'[e].models = entries[e].models
                                       /\ entries'[e].auth = entries[e].auth
                                       /\ HasRecord(e)' => HasRecord(e)
                                       /\ e # n => (HasRecord(e)' <=> HasRecord(e))
                                       /\ ~HasRecord(n) => (HasRecord(e)' <=> HasRecord(e))
      BY <1>4, <2>1, <1>0 DEF RemovePart, HasRecord, PjInv, TypeInv, PjTypeOK, EntryType
    <2>3. op.kind # "plain" /\ op.step \in {"none", "rollback", "finish"} /\ (op.kind = "none" => ~Up)
          /\ n \notin host.todo /\ host.todo \subseteq DOMAIN entries
      BY <2>2 DEF PjInv, TypeInv, PjTypeOK, Phases
    <2>4. Blind \/ Agree' \/ Recorded' # {}
      <3>1. CASE ~HasRecord(n)
        BY <2>2, <2>3, <3>1 DEF PjInv, FilesInv, Accounted, Told, Agree, Recorded
      <3>2. CASE HasRecord(n)
        BY <2>2, <3>2 DEF PjInv, FilesInv, Progress, Agree
      <3> QED BY <3>1, <3>2
    <2> QED BY <1>0, <2>2, <2>3, <2>4 DEF PjInv, FilesInv, Logged, Blind, CopiesAgree,
             Progress, Plain, Accounted, Told, Known, Agree, Up
  <1>5. CASE RemoveDirectory
    <2>1. /\ replay.step = "remove" /\ UNCHANGED <<models, auth>> /\ EndReplay(TRUE) /\ ~HasRecord(n)
          /\ DOMAIN entries' = DOMAIN entries \ {n}
          /\ \A e \in DOMAIN entries' : entries'[e] = entries[e]
      BY <1>5 DEF RemoveDirectory, HasRecord
    <2>2. Recorded' = Recorded
      BY <1>0, <2>1 DEF Recorded, HasRecord
    <2>3. CopiesAgree => CopiesAgree'
      BY <2>1 DEF CopiesAgree
    <2>4. op.kind # "plain" /\ op.step \in {"none", "rollback", "finish"} /\ (op.kind = "none" => ~Up)
          /\ n \notin host.todo /\ host.todo \subseteq DOMAIN entries
          /\ (op.kind = "none" => op.step = "none") /\ host.phase \in {"up", "recovering"}
          /\ (op.step = "none" => op.kind = "none")
      BY <2>1 DEF PjInv, TypeInv, PjTypeOK, Phases, Up
    <2>5. \A e \in host.todo : HasRecord(e) => HasRecord(e)'
      BY <2>1, <2>4 DEF HasRecord
    <2>6. \/ Blind \/ Agree'
          \/ host.phase = "recovering" /\ (Told \/ \E e \in host.todo : HasRecord(e)')
      BY <2>1, <2>4, <2>5 DEF PjInv, FilesInv, Progress, Accounted, Told, Agree, Up
    <2>7. Blind \/ Agree' \/ Recorded' # {}
      BY <2>1, <2>2, <2>4 DEF PjInv, FilesInv, Accounted, Told, Agree
    <2> QED BY <2>1, <2>3, <2>6, <2>7, FilesEnd DEF PjInv, FilesInv
  <1>6. CASE RemoveFails
    <2>1. replay.step = "remove" /\ UNCHANGED <<models, auth, entries>> /\ EndReplay(TRUE)
      BY <1>6 DEF RemoveFails
    <2>2. op.kind # "plain" /\ op.step \in {"none", "rollback", "finish"} /\ (op.kind = "none" => ~Up)
          /\ (op.step = "none" => op.kind = "none") /\ host.phase \in {"up", "recovering"}
      BY <2>1 DEF PjInv, TypeInv, PjTypeOK, Phases, Up
    <2>3. \/ Blind \/ Agree'
          \/ host.phase = "recovering" /\ (Told \/ \E e \in host.todo : HasRecord(e)')
      BY <2>1, <2>2 DEF PjInv, FilesInv, Progress, Accounted, Told, Agree, Up, HasRecord
    <2>4. Blind \/ Agree' \/ Recorded' # {}
      BY <2>1, <2>2 DEF PjInv, FilesInv, Accounted, Told, Agree, Recorded, HasRecord
    <2>5. CopiesAgree => CopiesAgree'
      BY <2>1 DEF CopiesAgree
    <2> QED BY <2>1, <2>3, <2>4, <2>5, FilesEnd DEF PjInv, FilesInv
  <1> QED BY <1>1, <1>2, <1>3, <1>4, <1>5, <1>6 DEF Replay

LEMMA FilesMutate ==
    ASSUME PjInv, Mutate PROVE FilesInv'
  <1> USE DEF NoFault, Fault, files
  <1>1. CASE \E n \in Names : Begin(n)
    BY <1>1, FilesBegin
  <1>2. CASE JournalPart
    BY <1>2, FilesPart
  <1>3. CASE FailEarly
    <2>1. /\ UNCHANGED <<models, auth, entries, host, replay>> /\ op'.kind = "none" /\ op'.step = "none"
          /\ ghost.past \subseteq ghost'.past /\ replay.step = "none" /\ Up
      BY <1>3 DEF FailEarly, Settle, Accident, NoOp, PjInv, TypeInv, PjTypeOK, Phases
    <2>2. Blind \/ Agree
      BY <1>3 DEF FailEarly, PjInv, FilesInv, Progress
    <2> QED BY <2>1, <2>2 DEF PjInv, FilesInv, Logged, Blind, CopiesAgree, Progress, Plain,
             Accounted, Told, Agree, Up, HasRecord
  <1>4. CASE CommitModels
    <2>1. /\ op.kind = "journaled" /\ op.step = "commit" /\ UNCHANGED <<auth, entries, host, replay, ghost>>
          /\ models'.prov = op.id /\ op'.kind = "journaled" /\ op'.step = "credentials"
          /\ op'.id = op.id /\ op'.name = op.name /\ replay.step = "none" /\ Up
          /\ op.name \in DOMAIN entries
      BY <1>4 DEF CommitModels, PjInv, TypeInv, PjTypeOK, Phases, ModelsFile
    <2>2. HasRecord(op.name) /\ Recorded' # {}
      BY <2>1 DEF PjInv, FilesInv, Logged, Recorded, HasRecord
    <2> QED BY <2>1, <2>2 DEF PjInv, FilesInv, Logged, Blind, CopiesAgree, Progress, Plain,
             Accounted, Told, Agree, Up, HasRecord
  <1>5. CASE WriteCredentials
    <2>1. /\ op.kind = "journaled" /\ op.step = "credentials" /\ UNCHANGED <<models, entries, host, replay, ghost>>
          /\ auth' = op.id /\ op'.kind = "journaled" /\ op'.step = "reconcile"
          /\ op'.name = op.name /\ replay.step = "none" /\ Up
      BY <1>5 DEF WriteCredentials, PjInv, TypeInv, PjTypeOK, Phases
    <2> QED BY <2>1 DEF PjInv, FilesInv, Logged, Blind, CopiesAgree, Progress, Plain,
             Accounted, Told, Agree, Up, HasRecord
  <1>6. CASE Reconcile
    <2>1. /\ op.kind = "journaled" /\ op.step = "reconcile" /\ UNCHANGED <<models, auth, entries, host, ghost>>
          /\ op'.kind = "journaled" /\ op'.step = "finish" /\ op'.name = op.name
          /\ replay'.step = "remove" /\ replay'.name = op.name /\ Up
      BY <1>6 DEF Reconcile, PjInv, TypeInv, PjTypeOK, Phases
    <2> QED BY <2>1 DEF PjInv, FilesInv, Logged, Blind, CopiesAgree, Progress, Plain,
             Accounted, Told, Agree, Up, HasRecord
  <1>7. CASE FailLate
    <2>1. /\ op.kind = "journaled" /\ op.step \in {"credentials", "reconcile"}
          /\ UNCHANGED <<models, entries, host, ghost>>
          /\ op'.kind = "journaled" /\ op'.step = "rollback" /\ op'.name = op.name
          /\ replay'.step = "read" /\ replay'.name = op.name /\ Up
          /\ op.name \in DOMAIN entries
      BY <1>7 DEF FailLate, PjInv, TypeInv, PjTypeOK, Phases
    <2>2. HasRecord(op.name) /\ Recorded' # {}
      BY <2>1 DEF PjInv, FilesInv, Logged, Recorded, HasRecord
    <2> QED BY <2>1, <2>2 DEF PjInv, FilesInv, Logged, Blind, CopiesAgree, Progress, Plain,
             Accounted, Told, Agree, Up, HasRecord
  <1>8. CASE BeginPlain
    <2>1. /\ op.kind = "none" /\ op.step = "none" /\ UNCHANGED <<models, auth, entries, host, replay, ghost>>
          /\ op'.kind = "plain" /\ op'.step = "commit" /\ op'.before = models /\ replay.step = "none" /\ Up
      BY <1>8 DEF BeginPlain, Idle, NoOp, PjInv, TypeInv, Phases
    <2> QED BY <2>1 DEF PjInv, FilesInv, Logged, Blind, CopiesAgree, Progress, Plain,
             Accounted, Told, Known, Agree, Up, HasRecord, Recorded
  <1>9. CASE CommitPlain
    <2>1. /\ op.kind = "plain" /\ op.step = "commit" /\ UNCHANGED <<auth, entries, host, replay>>
          /\ models'.prov = models.prov /\ ghost'.past = ghost.past /\ replay.step = "none" /\ Up
          /\ \/ op'.kind = "plain" /\ op'.step = "refresh" /\ op'.before = op.before
             \/ op'.kind = "none" /\ op'.step = "none"
      BY <1>9 DEF CommitPlain, Settle, NoOp, PjInv, TypeInv, PjTypeOK, Phases, ModelsFile
    <2> QED BY <2>1 DEF PjInv, FilesInv, Logged, Blind, CopiesAgree, Progress, Plain,
             Accounted, Told, Known, Agree, Up, HasRecord, Recorded
  <1>10. CASE RefreshPlain
    <2>1. /\ op.kind = "plain" /\ op.step = "refresh" /\ UNCHANGED <<models, auth, entries, host, replay>>
          /\ op'.kind = "none" /\ op'.step = "none" /\ ghost'.past = ghost.past /\ replay.step = "none" /\ Up
      BY <1>10 DEF RefreshPlain, Settle, NoOp, PjInv, TypeInv, PjTypeOK, Phases
    <2> QED BY <2>1 DEF PjInv, FilesInv, Logged, Blind, CopiesAgree, Progress, Plain,
             Accounted, Told, Known, Agree, Up, HasRecord, Recorded
  <1>11. CASE TruncatePlain
    <2>1. /\ op.kind = "plain" /\ op.step = "refresh" /\ UNCHANGED <<auth, entries, host, replay, ghost>>
          /\ op'.kind = "plain" /\ op'.step = "rewrite" /\ op'.before = op.before /\ replay.step = "none" /\ Up
      BY <1>11 DEF TruncatePlain, PjInv, TypeInv, PjTypeOK, Phases
    <2> QED BY <2>1 DEF PjInv, FilesInv, Logged, Blind, CopiesAgree, Progress, Plain,
             Accounted, Told, Known, Agree, Up, HasRecord, Recorded
  <1>12. CASE RewritePlain
    <2>1. /\ op.kind = "plain" /\ op.step = "rewrite" /\ UNCHANGED <<auth, entries, host, replay>>
          /\ op'.kind = "none" /\ op'.step = "none" /\ replay.step = "none" /\ Up
          /\ \/ models' = op.before /\ ghost'.past = ghost.past
             \/ "truncated" \in ghost'.past
      BY <1>12 DEF RewritePlain, Settle, Accident, NoOp, PjInv, TypeInv, PjTypeOK, Phases
    <2>2. Logged'
      BY <2>1 DEF Logged
    <2>3. CASE "truncated" \in ghost'.past
      BY <2>2, <2>3 DEF FilesInv, Blind
    <2>4. CASE models' = op.before /\ ghost'.past = ghost.past
      BY <2>1, <2>4 DEF PjInv, FilesInv, Logged, Blind, CopiesAgree, Progress, Plain,
             Accounted, Told, Known, Agree, Up, HasRecord, Recorded
    <2> QED BY <2>1, <2>3, <2>4
  <1> QED BY <1>1, <1>2, <1>3, <1>4, <1>5, <1>6, <1>7, <1>8, <1>9, <1>10, <1>11, <1>12 DEF Mutate

\* Starting forgets no accident.
LEMMA StartPast ==
    ASSUME TypeInv, StartHost \/ NextEntry PROVE ghost.past \subseteq ghost'.past
  <1>1. ghost \in [prov : SUBSET Nat, extra : SUBSET Nat, past : SUBSET Accidents]
    BY DEF TypeInv, PjTypeOK
  <1>2. \/ ghost' = ghost
        \/ \E what \in Accidents, b \in BOOLEAN :
              ghost' = [ghost EXCEPT !.past = Accident(what, b)]
    BY DEF StartHost, NextEntry, Accidents
  <1> QED BY <1>1, <1>2 DEF Accident

LEMMA FilesStart ==
    ASSUME PjInv, Start \/ Crash PROVE FilesInv'
  <1> USE DEF files
  <1>1. CASE StartHost
    <2>1. /\ host.phase = "down" /\ host'.phase = "recovering"
          /\ UNCHANGED <<models, auth, entries, op, replay>>
          /\ op.kind = "none" /\ op.step = "none" /\ replay.step = "none"
      BY <1>1 DEF StartHost, PjInv, TypeInv, PjTypeOK, Phases, Up
    <2>2. ghost.past \subseteq ghost'.past
      BY <1>1, StartPast DEF PjInv
    <2>3. host'.todo = DOMAIN entries \/ (Recorded # {} => host'.unlisted)
      BY <1>1 DEF StartHost, PjInv, TypeInv, PjTypeOK
    <2> QED BY <2>1, <2>2, <2>3 DEF PjInv, FilesInv, Logged, Blind, CopiesAgree, Progress, Plain,
             Accounted, Told, Agree, Up, HasRecord, Recorded
  <1>2. CASE NextEntry
    <2>1. PICK n \in host.todo :
             /\ host' = [host EXCEPT !.todo = host.todo \ {n}]
             /\ \/ /\ replay' = [step |-> IF HasRecord(n) THEN "read" ELSE "remove",
                                 name |-> n, ok |-> TRUE]
                   /\ UNCHANGED ghost
                \/ /\ replay' = [step |-> "remove", name |-> n, ok |-> TRUE]
                   /\ ghost' = [ghost EXCEPT !.past = Accident("discarded", TRUE)]
      BY <1>2 DEF NextEntry, Remaining
    <2>2. /\ host.phase = "recovering" /\ host'.phase = "recovering" /\ host'.todo = host.todo \ {n}
          /\ host'.degraded = host.degraded /\ host'.unlisted = host.unlisted
          /\ UNCHANGED <<models, auth, entries, op>>
          /\ op.kind = "none" /\ op.step = "none" /\ replay.step = "none"
      BY <1>2, <2>1 DEF NextEntry, NoReplay, PjInv, TypeInv, PjTypeOK, Phases, Up
    <2>3. CASE /\ replay' = [step |-> IF HasRecord(n) THEN "read" ELSE "remove",
                             name |-> n, ok |-> TRUE]
               /\ UNCHANGED ghost
      BY <2>2, <2>3 DEF PjInv, FilesInv, Logged, Blind, CopiesAgree, Progress, Plain,
             Accounted, Told, Agree, Up, HasRecord, Recorded
    <2>4. CASE /\ replay' = [step |-> "remove", name |-> n, ok |-> TRUE]
               /\ ghost' = [ghost EXCEPT !.past = Accident("discarded", TRUE)]
      BY <2>2, <2>4 DEF Accident, PjInv, TypeInv, PjTypeOK, FilesInv, Logged, Blind
    <2> QED BY <2>1, <2>3, <2>4
  <1>3. CASE HostReady
    <2>1. /\ host.phase = "recovering" /\ host'.phase = "up" /\ host.todo = {} /\ host'.degraded = host.degraded
          /\ host'.unlisted = host.unlisted
          /\ ghost'.past = ghost.past
          /\ UNCHANGED <<models, auth, entries, op, replay>>
          /\ op.kind = "none" /\ op.step = "none" /\ replay.step = "none"
      BY <1>3 DEF HostReady, NoReplay, PjInv, TypeInv, PjTypeOK, Phases, Up
    <2> QED BY <2>1 DEF PjInv, FilesInv, Logged, Blind, CopiesAgree, Progress, Plain,
             Accounted, Told, Known, Agree, Up, HasRecord, Recorded
  <1>4. CASE Crash
    <2>1. /\ host'.phase = "down" /\ op'.kind = "none" /\ op'.step = "none" /\ replay'.step = "none"
          /\ UNCHANGED <<models, auth, entries>>
          /\ ghost.past \subseteq ghost'.past
          /\ op.step = "rewrite" => "truncated" \in ghost'.past
      BY <1>4 DEF Crash, HostDown, Accident, NoReplay, NoOp, PjInv, TypeInv, PjTypeOK
    <2> QED BY <2>1 DEF PjInv, FilesInv, Logged, Blind, CopiesAgree, Progress, Plain,
             Accounted, Told, Agree, Up, HasRecord, Recorded
  <1> QED BY <1>1, <1>2, <1>3, <1>4 DEF Start

THEOREM InvCorrect == PjSpec => []PjInv
  <1>1. PjInit => PjInv
    BY TypeInit, FilesInit DEF PjInv
  <1>2. PjInv /\ [PjNext]_pjVars => PjInv'
    <2> SUFFICES ASSUME PjInv, [PjNext]_pjVars PROVE PjInv'
      OBVIOUS
    <2>1. CASE UNCHANGED pjVars
      BY <2>1 DEF pjVars, files, PjInv, TypeInv, PjTypeOK, Phases, Up, FilesInv, Logged, Blind,
         CopiesAgree, Progress, Plain, Accounted, Told, Known, Agree, HasRecord, Recorded, Replayable
    <2>2. CASE PjNext
      <3>1. TypeInv'
        BY <2>2, TypeMutate, TypeReplay, TypeStart DEF PjNext, PjInv
      <3>2. FilesInv'
        BY <2>2, FilesMutate, FilesReplay, FilesStart DEF PjNext
      <3> QED BY <3>1, <3>2 DEF PjInv
    <2> QED BY <2>1, <2>2
  <1> QED BY <1>1, <1>2, PTL DEF PjSpec

\* Files, journal and process keep their shapes.
THEOREM TypeSafe == PjSpec => []PjTypeOK
  BY InvCorrect, PTL DEF PjInv, TypeInv

\* Whatever step is interrupted, for any number of mutations, deaths and
\* faults, configuration and credential disagree only while a record tells so,
\* or after one of the accidents named in Blind.
THEOREM DetectableCorrect == PjSpec => []Detectable
  <1>1. PjInv => Detectable
    BY DEF PjInv, FilesInv, Accounted, Detectable
  <1> QED BY <1>1, InvCorrect, PTL

\* A Host that claims health, has restored what it had to and could list its
\* records serves files that agree, unless no record tells (Blind).
THEOREM HealthyCorrect == PjSpec => []HealthyAgrees
  <1>1. PjInv => HealthyAgrees
    BY DEF PjInv, FilesInv, Accounted, HealthyAgrees, Idle, Known, NoOp
  <1> QED BY <1>1, InvCorrect, PTL

\* A directory that lacks a copy changes neither file and is kept; a record is
\* given up for a mutation that has ended, for files restored from it, or because
\* a recovery could not read it.
THEOREM UntouchedCorrect == PjSpec => IncompleteUntouched
  <1> DEFINE Kept(n) ==
          /\ /\ replay.step \in {"read", "models", "auth"} /\ replay.name = n
             /\ ~(Backups \subseteq entries[n].has)
             => UNCHANGED <<files, entries>>
          /\ ~Outlives(n) => replay.step = "remove" /\ replay.name = n
          /\ Disposed(n) =>
                \/ op.step = "reconcile"
                \/ RestoredFrom(n)
                \/ host.phase = "recovering" /\ replay = NoReplay /\ ~NoFault
  <1>1. ASSUME PjInv, PjNext, NEW n \in Recorded PROVE Kept(n)
    <2> USE DEF files
    <2>0. n \in DOMAIN entries /\ HasRecord(n) /\ TypeInv /\ Phases /\ Logged
      BY <1>1 DEF PjInv, TypeInv, FilesInv, Recorded
    <2>1. ASSUME UNCHANGED entries PROVE Outlives(n)
      BY <2>0, <2>1 DEF Outlives, HasRecord
    <2>2. CASE Mutate
      <3>0. \/ op.kind = "none" /\ Up
            \/ op.step \in {"begin", "commit", "credentials", "reconcile", "refresh", "rewrite"}
        <4>1. CASE (\E m \in Names : Begin(m)) \/ BeginPlain
          <5>1. Up /\ op = NoOp
            BY <4>1 DEF Begin, BeginPlain, Idle
          <5> QED BY <5>1 DEF NoOp
        <4>2. CASE JournalPart \/ FailEarly \/ CommitModels \/ WriteCredentials
          BY <4>2 DEF JournalPart, FailEarly, CommitModels, WriteCredentials
        <4>3. CASE Reconcile \/ FailLate \/ CommitPlain
          BY <4>3 DEF Reconcile, FailLate, CommitPlain
        <4>4. CASE RefreshPlain \/ TruncatePlain \/ RewritePlain
          BY <4>4 DEF RefreshPlain, TruncatePlain, RewritePlain
        <4> QED BY <2>2, <4>1, <4>2, <4>3, <4>4 DEF Mutate
      <3>1. replay.step = "none"
        BY <2>0, <3>0 DEF Phases, TypeInv, PjTypeOK
      <3>2. Outlives(n)
        <4>1. CASE \E m \in Names : Begin(m)
          BY <2>0, <4>1 DEF Begin, Outlives, HasRecord
        <4>2. CASE JournalPart
          <5>1. op.name \in DOMAIN entries
            BY <2>0, <4>2 DEF JournalPart, TypeInv, PjTypeOK, Phases
          <5> QED BY <2>0, <4>2, <5>1 DEF JournalPart, Outlives, HasRecord, TypeInv, PjTypeOK, EntryType
        <4> QED BY <2>1, <2>2, <4>1, <4>2 DEF Mutate, FailEarly, CommitModels, WriteCredentials,
               Reconcile, FailLate, BeginPlain, CommitPlain, RefreshPlain, TruncatePlain,
               RewritePlain
      <3>3. Disposed(n) => op.step = "reconcile"
        <4>1. CASE FailLate
          BY <4>1 DEF FailLate, Disposed
        <4>2. CASE Reconcile
          BY <4>2 DEF Reconcile
        <4> QED BY <2>2, <3>1, <4>1, <4>2 DEF Disposed, Mutate, Begin, JournalPart, FailEarly,
               CommitModels, WriteCredentials, BeginPlain, CommitPlain, RefreshPlain,
               TruncatePlain, RewritePlain
      <3> QED BY <3>1, <3>2, <3>3
    <2>3. CASE Replay
      <3>1. CASE ReadBackups
        <4>1. UNCHANGED <<models, auth, entries>>
          BY <3>1 DEF ReadBackups
        <4>2. replay' = [replay EXCEPT !.step = "models"] \/ replay' = NoReplay
          BY <3>1 DEF ReadBackups, EndReplay
        <4>3. replay'.step # "remove"
          BY <2>0, <4>2 DEF NoReplay, TypeInv, PjTypeOK
        <4> QED BY <2>1, <4>1, <4>3 DEF Disposed
      <3>2. CASE RestoreModels
        <4>1. replay.step = "models" /\ UNCHANGED entries /\ replay'.step = "auth"
              /\ (replay.name = n => Backups \subseteq entries[n].has)
          BY <2>0, <3>2 DEF RestoreModels, Logged, Replayable, TypeInv, PjTypeOK
        <4> QED BY <2>1, <4>1 DEF Disposed
      <3>3. CASE RestoreAuth
        <4>1. replay.step = "auth" /\ UNCHANGED <<models, entries>>
              /\ (replay.name = n => Backups \subseteq entries[n].has)
          BY <2>0, <3>3 DEF RestoreAuth, Logged, Replayable
        <4>2. Disposed(n) => RestoredFrom(n)
          <5>1. CASE EndReplay(FALSE)
            BY <5>1 DEF EndReplay, NoReplay, Disposed
          <5>2. CASE /\ replay' = [replay EXCEPT !.step = "remove"]
                     /\ replay.ok /\ auth' = entries[replay.name].auth
            <6>1. replay'.name = replay.name
              BY <2>0, <5>2 DEF TypeInv, PjTypeOK
            <6> QED BY <2>0, <4>1, <5>2, <6>1 DEF Disposed, RestoredFrom, Logged
          <5> QED BY <3>3, <5>1, <5>2 DEF RestoreAuth, RestoredBoth
        <4> QED BY <2>1, <4>1, <4>2
      <3>4. CASE RemovePart \/ RemoveDirectory \/ RemoveFails
        <4>1. replay.step = "remove"
          BY <3>4 DEF RemovePart, RemoveDirectory, RemoveFails
        <4>2. replay.name = n \/ Outlives(n)
          <5>1. CASE RemovePart
            <6>1. PICK p \in entries[replay.name].has :
                     entries' = [entries EXCEPT ![replay.name].has = @ \ {p}]
              BY <5>1 DEF RemovePart
            <6> QED BY <2>0, <6>1 DEF Outlives, HasRecord, TypeInv, PjTypeOK
          <5>2. CASE RemoveDirectory
            BY <2>0, <5>2 DEF RemoveDirectory, Outlives, HasRecord
          <5>3. CASE RemoveFails
            BY <2>1, <5>3 DEF RemoveFails
          <5> QED BY <3>4, <5>1, <5>2, <5>3
        <4> QED BY <4>1, <4>2 DEF Disposed
      <3> QED BY <2>3, <3>1, <3>2, <3>3, <3>4 DEF Replay
    <2>4. CASE Start \/ Crash
      <3>1. UNCHANGED <<models, auth, entries>>
        BY <2>4 DEF Start, StartHost, NextEntry, HostReady, Crash
      <3>2. Disposed(n) => host.phase = "recovering" /\ replay = NoReplay /\ ~NoFault
        <4>1. CASE NextEntry
          <5>1. PICK m \in host.todo :
                   \/ replay' = [step |-> IF HasRecord(m) THEN "read" ELSE "remove",
                                 name |-> m, ok |-> TRUE]
                   \/ Fault /\ replay' = [step |-> "remove", name |-> m, ok |-> TRUE]
            BY <4>1 DEF NextEntry
          <5>2. Fault => ~NoFault
            BY <2>0 DEF Fault, NoFault, TypeInv, PjTypeOK
          <5> QED BY <2>0, <4>1, <5>1, <5>2 DEF NextEntry, Disposed
        <4> QED BY <2>4, <4>1 DEF Start, StartHost, HostReady, Crash, Disposed, NoReplay
      <3> QED BY <2>1, <3>1, <3>2
    <2> QED BY <1>1, <2>2, <2>3, <2>4 DEF PjNext
  <1>2. PjInv /\ [PjNext]_pjVars => [\A n \in Recorded : Kept(n)]_pjVars
    BY <1>1
  <1> QED BY <1>2, InvCorrect, PTL DEF PjSpec, IncompleteUntouched
-----------------------------------------------------------------------------
(* The outcome the user was told of, as long as there was no accident:     *)
(* either the files show it, or the one record there is holds it, and      *)
(* whoever is at work is on the way from one to the other.                 *)

\* A configuration and a credential that show the outcome.
Good(m, a) == m.prov \in ghost.prov /\ a = m.prov /\ m.extra \in ghost.extra

FilesGood == Good(models, auth)

\* The record is the mutation's, or of a directory the recovery is yet to do.
Placed(n) ==
    /\ Up => op.kind = "journaled" /\ n = op.name
    /\ host.phase = "recovering" =>
          n \in host.todo \/ (replay.step # "none" /\ n = replay.name)

\* There is at most one record; it is where it belongs and holds the outcome.
RecordGood ==
    \A n \in DOMAIN entries : HasRecord(n) =>
        /\ Good(entries[n].models, entries[n].auth) /\ Placed(n)
        /\ \A m \in DOMAIN entries : HasRecord(m) => m = n

\* How far a mutation has taken the files from the outcome.
OnTheWay ==
    /\ Up /\ op.step \in {"none", "begin", "commit"} => FilesGood
    /\ op.step = "begin" =>
          /\ ~HasRecord(op.name)
          /\ entries[op.name].models = models /\ entries[op.name].auth = auth
    /\ op.kind = "journaled" /\ op.step \in {"commit", "credentials", "reconcile"} =>
          HasRecord(op.name)
    /\ op.step \in {"credentials", "reconcile", "finish"} =>
          models.prov = op.id /\ models.extra \in ghost.extra
    /\ op.step \in {"reconcile", "finish"} => auth = op.id
    /\ op.kind = "plain" /\ op.step = "commit" => op.before = models
    /\ op.step = "refresh" => models.extra = op.id /\ auth = models.prov
    /\ op.step \in {"refresh", "rewrite"} => Good(op.before, auth)
    /\ op.step = "refresh" => op.before.prov = models.prov

\* How far a roll-back or a recovery has taken them back.
WayBack ==
    /\ ~Up /\ replay.step = "none" => FilesGood \/ Recorded # {}
    /\ replay.step \in {"read", "models", "auth"} => HasRecord(replay.name)
    /\ replay.step = "auth" /\ replay.ok => models = entries[replay.name].models
    /\ replay.step = "remove" /\ op.step # "finish" =>
          FilesGood \/ (~Up /\ ~HasRecord(replay.name) /\ Recorded # {})

OutcomeInv == ghost.past = {} => RecordGood /\ OnTheWay /\ WayBack

OutInv == PjInv /\ OutcomeInv

\* Accidents are not forgotten.
LEMMA PastGrows ==
    ASSUME PjInv, PjNext PROVE ghost.past \subseteq ghost'.past
  <1>1. ghost \in [prov : SUBSET Nat, extra : SUBSET Nat, past : SUBSET Accidents]
    BY DEF PjInv, TypeInv, PjTypeOK
  <1> USE <1>1 DEF files
  <1>2. ASSUME NEW n \in Names, Begin(n) PROVE ghost.past \subseteq ghost'.past
    BY <1>2 DEF Begin, Accident
  <1>3. CASE FailEarly
    BY <1>3 DEF FailEarly, Settle, Accident
  <1>4. CASE JournalPart \/ CommitModels \/ WriteCredentials \/ Reconcile \/ FailLate
    BY <1>4 DEF JournalPart, CommitModels, WriteCredentials, Reconcile, FailLate
  <1>5. CASE BeginPlain \/ TruncatePlain
    BY <1>5 DEF BeginPlain, TruncatePlain
  <1>6. CASE CommitPlain \/ RefreshPlain
    BY <1>6 DEF CommitPlain, RefreshPlain, Settle
  <1>7. CASE RewritePlain
    BY <1>7 DEF RewritePlain, Settle, Accident
  <1>8. ASSUME NEW restored, EndReplay(restored) PROVE ghost.past \subseteq ghost'.past
    BY <1>8 DEF EndReplay, Settle, Accident
  <1>9. CASE ReadBackups \/ RestoreModels \/ RestoreAuth
    BY <1>8, <1>9 DEF ReadBackups, RestoreModels, RestoreAuth
  <1>10. CASE RemovePart \/ RemoveDirectory \/ RemoveFails
    BY <1>8, <1>10 DEF RemovePart, RemoveDirectory, RemoveFails
  <1>11. CASE Start
    BY <1>11, StartPast DEF Start, HostReady, PjInv
  <1>12. CASE Crash
    BY <1>12 DEF Crash, Accident, HostDown
  <1> QED BY <1>2, <1>3, <1>4, <1>5, <1>6, <1>7, <1>9, <1>10, <1>11, <1>12
          DEF PjNext, Mutate, Replay

\* The steps of a mutation that has a journal.
LEMMA OutcomeJournaled ==
    ASSUME OutInv, ghost.past = {}, ghost'.past = {},
           \/ \E n \in Names : Begin(n)
           \/ JournalPart \/ FailEarly \/ CommitModels \/ WriteCredentials
           \/ Reconcile \/ FailLate
    PROVE  RecordGood' /\ OnTheWay' /\ WayBack'
  <1> USE DEF files
  <1>1. /\ RecordGood /\ OnTheWay /\ WayBack
        /\ models \in ModelsFile /\ ghost \in [prov : SUBSET Nat, extra : SUBSET Nat, past : SUBSET Accidents]
    BY DEF OutInv, OutcomeInv, PjInv, TypeInv, PjTypeOK
  <1>2. CASE \E n \in Names : Begin(n)
    <2>1. PICK n \in Names : Begin(n)
      BY <1>2
    <2>2. /\ op.kind = "none" /\ op.step = "none" /\ op'.kind = "journaled" /\ op'.step = "begin" /\ op'.name = n
          /\ entries'[n].models = models /\ entries'[n].auth = auth /\ entries'[n].has = {}
          /\ DOMAIN entries' = DOMAIN entries \union {n} /\ n \notin DOMAIN entries
          /\ \A m \in DOMAIN entries : m # n /\ entries'[m] = entries[m]
          /\ UNCHANGED <<models, auth, host, replay>> /\ replay.step = "none" /\ Up
          /\ ghost'.prov = ghost.prov /\ ghost'.extra = ghost.extra
      BY <1>1, <2>1 DEF Begin, Copies, Idle, NoOp, OutInv, PjInv, TypeInv, PjTypeOK, Phases
    <2>3. \A m \in DOMAIN entries' : ~(Record \in entries'[m].has)
      BY <1>1, <2>2 DEF RecordGood, Placed, HasRecord
    <2> QED BY <1>1, <2>2, <2>3 DEF RecordGood, OnTheWay, WayBack, Placed, FilesGood, Good, HasRecord, Up
  <1>3. CASE JournalPart
    <2> DEFINE n == op.name
               w == entries[n].has \union {NextPart(entries[n].has)}
    <2>1. /\ n \in DOMAIN entries /\ op.kind = "journaled" /\ replay.step = "none" /\ Up /\ op.step = "begin"
          /\ UNCHANGED <<models, auth, host, replay, ghost>>
      BY <1>3 DEF JournalPart, OutInv, PjInv, TypeInv, PjTypeOK, Phases
    <2>2. /\ DOMAIN entries' = DOMAIN entries
          /\ \A m \in DOMAIN entries : m # n => entries'[m] = entries[m]
          /\ entries'[n].models = entries[n].models /\ entries'[n].auth = entries[n].auth
          /\ entries'[n].has = w
      BY <1>3, <2>1 DEF JournalPart, OutInv, PjInv, TypeInv, PjTypeOK, EntryType
    <2>3. /\ op'.kind = "journaled" /\ op'.name = n
          /\ op'.step = IF Record \in w THEN "commit" ELSE "begin"
      BY <1>3, <2>1 DEF JournalPart, OutInv, PjInv, TypeInv, PjTypeOK
    <2> HIDE DEF w
    <2>4. \A m \in DOMAIN entries : ~HasRecord(m)
      BY <1>1, <2>1 DEF RecordGood, Placed, OnTheWay
    <2>5. Good(entries[n].models, entries[n].auth) /\ FilesGood
      BY <1>1, <2>1 DEF OnTheWay, FilesGood
    <2> QED BY <2>1, <2>2, <2>3, <2>4, <2>5, <1>1
            DEF RecordGood, OnTheWay, WayBack, Placed, FilesGood, Good, HasRecord, Up
  <1>4. CASE FailEarly
    <2>1. /\ op.kind = "journaled" /\ op.step \in {"begin", "commit"} /\ replay.step = "none" /\ Up
          /\ op.name \in DOMAIN entries
          /\ op'.kind = "none" /\ op'.step = "none"
          /\ UNCHANGED <<models, auth, entries, host, replay>>
          /\ ghost'.prov = ghost.prov /\ ghost'.extra = ghost.extra
          /\ ~Outlives(op.name)
      BY <1>4 DEF FailEarly, Settle, Accident, NoOp, OutInv, PjInv, TypeInv, PjTypeOK, Phases
    <2>2. ~HasRecord(op.name)
      BY <2>1 DEF Outlives, HasRecord
    <2>3. \A m \in DOMAIN entries : ~HasRecord(m)
      BY <1>1, <2>1, <2>2 DEF RecordGood, Placed
    <2> QED BY <1>1, <2>1, <2>3
            DEF RecordGood, OnTheWay, WayBack, Placed, FilesGood, Good, HasRecord, Up
  <1>5. CASE CommitModels
    <2>1. /\ op.kind = "journaled" /\ op.step = "commit" /\ replay.step = "none" /\ Up
          /\ op'.kind = "journaled" /\ op'.step = "credentials" /\ op'.name = op.name /\ op'.id = op.id
          /\ models'.prov = op.id /\ models'.extra = models.extra
          /\ UNCHANGED <<auth, entries, host, replay, ghost>>
      BY <1>1, <1>5 DEF CommitModels, OutInv, PjInv, TypeInv, PjTypeOK, Phases, Steps, ModelsFile
    <2> QED BY <1>1, <2>1
            DEF RecordGood, OnTheWay, WayBack, Placed, FilesGood, Good, HasRecord, Up
  <1>6. CASE WriteCredentials
    <2>1. /\ op.kind = "journaled" /\ op.step = "credentials" /\ replay.step = "none" /\ Up
          /\ op'.kind = "journaled" /\ op'.step = "reconcile" /\ op'.name = op.name /\ op'.id = op.id
          /\ auth' = op.id
          /\ UNCHANGED <<models, entries, host, replay, ghost>>
      BY <1>6 DEF WriteCredentials, OutInv, PjInv, TypeInv, PjTypeOK, Phases, Steps
    <2> QED BY <1>1, <2>1
            DEF RecordGood, OnTheWay, WayBack, Placed, FilesGood, Good, HasRecord, Up
  <1>7. CASE Reconcile
    <2>1. /\ op.kind = "journaled" /\ op.step = "reconcile" /\ replay.step = "none" /\ Up
          /\ op'.kind = "journaled" /\ op'.step = "finish" /\ op'.name = op.name /\ op'.id = op.id
          /\ replay'.step = "remove" /\ replay'.name = op.name
          /\ UNCHANGED <<models, auth, entries, host, ghost>>
      BY <1>7 DEF Reconcile, OutInv, PjInv, TypeInv, PjTypeOK, Phases, Steps
    <2> QED BY <1>1, <2>1
            DEF RecordGood, OnTheWay, WayBack, Placed, FilesGood, Good, HasRecord, Up
  <1>8. CASE FailLate
    <2>1. /\ op.kind = "journaled" /\ op.step \in {"credentials", "reconcile"} /\ replay.step = "none" /\ Up
          /\ op'.kind = "journaled" /\ op'.step = "rollback" /\ op'.name = op.name
          /\ replay'.step = "read" /\ replay'.name = op.name
          /\ UNCHANGED <<models, entries, host, ghost>>
      BY <1>8 DEF FailLate, OutInv, PjInv, TypeInv, PjTypeOK, Phases, Steps
    <2>2. HasRecord(op.name)
      BY <1>1, <2>1 DEF OnTheWay
    <2>3. RecordGood'
      BY <1>1, <2>1 DEF RecordGood, Placed, Good, HasRecord, Up
    <2>4. OnTheWay' /\ WayBack'
      BY <2>1, <2>2 DEF OnTheWay, WayBack, HasRecord, Up
    <2> QED BY <2>3, <2>4
  <1> QED BY <1>2, <1>3, <1>4, <1>5, <1>6, <1>7, <1>8

\* The steps of a mutation of models.json alone: there is no record meanwhile.
LEMMA OutcomePlain ==
    ASSUME OutInv, ghost.past = {}, ghost'.past = {},
           BeginPlain \/ CommitPlain \/ RefreshPlain \/ TruncatePlain \/ RewritePlain
    PROVE  RecordGood' /\ OnTheWay' /\ WayBack'
  <1> USE DEF files
  <1>1. /\ RecordGood /\ OnTheWay /\ WayBack
        /\ models \in ModelsFile
        /\ ghost \in [prov : SUBSET Nat, extra : SUBSET Nat, past : SUBSET Accidents]
    BY DEF OutInv, OutcomeInv, PjInv, TypeInv, PjTypeOK
  <1>2. /\ Up /\ Up' /\ replay.step = "none" /\ op.kind \in {"none", "plain"}
        /\ UNCHANGED <<auth, entries, host, replay>>
    <2>1. Up /\ replay.step = "none" /\ op.kind \in {"none", "plain"}
      <3>1. Phases /\ op.kind \in {"none", "journaled", "plain"}
        BY DEF OutInv, PjInv, TypeInv, PjTypeOK
      <3>2. CASE BeginPlain
        BY <3>1, <3>2 DEF BeginPlain, Idle, NoOp, Phases
      <3>3. CASE \/ op.kind = "plain" /\ op.step = "commit"
                 \/ op.step \in {"refresh", "rewrite"}
        BY <3>1, <3>3 DEF Phases
      <3> QED BY <3>2, <3>3 DEF CommitPlain, RefreshPlain, TruncatePlain, RewritePlain
    <2>2. UNCHANGED <<auth, entries, host, replay>>
      BY DEF BeginPlain, CommitPlain, RefreshPlain, TruncatePlain, RewritePlain
    <2> QED BY <2>1, <2>2 DEF Up
  <1>3. RecordGood'
    <2>1. \A n \in DOMAIN entries : ~HasRecord(n)
      BY <1>1, <1>2 DEF RecordGood, Placed
    <2> QED BY <1>2, <2>1 DEF RecordGood, HasRecord
  <1>4. WayBack'
    BY <1>2 DEF WayBack, Up
  <1>5. CASE BeginPlain
    <2>1. /\ op.step = "none" /\ op'.step = "commit" /\ op'.kind = "plain"
          /\ op'.before = models /\ UNCHANGED <<models, ghost>>
      BY <1>5 DEF BeginPlain, Idle, NoOp
    <2> QED BY <1>1, <1>2, <1>3, <1>4, <2>1 DEF OnTheWay, FilesGood, Good, Up
  <1>6. CASE CommitPlain
    <2>1. op.kind = "plain" /\ op.step = "commit" /\ FilesGood
      BY <1>1, <1>2, <1>6 DEF CommitPlain, OnTheWay
    <2>2. CASE op' = NoOp
      <3>1. /\ op'.kind = "none" /\ op'.step = "none" /\ models' = models
            /\ ghost'.prov = ghost.prov /\ ghost'.extra = ghost.extra
        BY <1>6, <2>1, <2>2 DEF CommitPlain, NoOp, Settle, OutInv, PjInv, TypeInv, PjTypeOK
      <3> QED BY <1>1, <1>2, <1>3, <1>4, <2>1, <3>1 DEF OnTheWay, FilesGood, Good, Up
    <2>3. CASE op' # NoOp
      <3>1. /\ op'.kind = "plain" /\ op'.step = "refresh" /\ op'.id = op.id /\ op'.before = op.before
            /\ models'.extra = op.id /\ models'.prov = models.prov /\ ghost' = ghost
        BY <1>1, <1>6, <2>1, <2>3 DEF CommitPlain, OutInv, PjInv, TypeInv, PjTypeOK, Steps, ModelsFile
      <3>2. op.before = models
        BY <1>1, <2>1 DEF OnTheWay
      <3> QED BY <1>1, <1>2, <1>3, <1>4, <2>1, <3>1, <3>2 DEF OnTheWay, FilesGood, Good, Up
    <2> QED BY <2>2, <2>3
  <1>7. CASE RefreshPlain
    <2>1. /\ op.kind = "plain" /\ op.step = "refresh" /\ op'.kind = "none" /\ op'.step = "none"
          /\ models' = models /\ ghost'.prov = ghost.prov /\ ghost'.extra = {op.id}
      BY <1>2, <1>7 DEF RefreshPlain, NoOp, Settle, OutInv, PjInv, TypeInv, PjTypeOK, Phases
    <2> QED BY <1>1, <1>2, <1>3, <1>4, <2>1 DEF OnTheWay, FilesGood, Good, Up
  <1>8. CASE TruncatePlain
    <2>1. /\ op.kind = "plain" /\ op.step = "refresh" /\ op'.kind = "plain" /\ op'.step = "rewrite"
          /\ op'.before = op.before /\ ghost' = ghost
      BY <1>2, <1>8 DEF TruncatePlain, OutInv, PjInv, TypeInv, PjTypeOK, Phases
    <2> QED BY <1>1, <1>2, <1>3, <1>4, <2>1 DEF OnTheWay, FilesGood, Good, Up
  <1>9. CASE RewritePlain
    <2>1. /\ op.kind = "plain" /\ op.step = "rewrite" /\ op'.kind = "none" /\ op'.step = "none"
          /\ models' = op.before /\ ghost'.prov = ghost.prov /\ ghost'.extra = ghost.extra
      BY <1>2, <1>9 DEF RewritePlain, NoOp, Settle, Accident, OutInv, PjInv, TypeInv, PjTypeOK, Phases
    <2> QED BY <1>1, <1>2, <1>3, <1>4, <2>1 DEF OnTheWay, FilesGood, Good, Up
  <1> QED BY <1>5, <1>6, <1>7, <1>8, <1>9

\* The end of a roll-back or of the replay of a directory.
LEMMA OutcomeEnd ==
    ASSUME OutInv, ghost.past = {}, ghost'.past = {}, replay.step # "none",
           NEW restored \in BOOLEAN, EndReplay(restored), models' = models, auth' = auth,
           HasRecord(replay.name) => FilesGood,
           ~restored => entries' = entries /\ HasRecord(replay.name),
           restored => /\ replay.step = "remove"
                       /\ \/ entries' = entries
                          \/ /\ ~HasRecord(replay.name)
                             /\ DOMAIN entries' = DOMAIN entries \ {replay.name}
                             /\ \A n \in DOMAIN entries' : entries'[n] = entries[n]
    PROVE  RecordGood' /\ OnTheWay' /\ WayBack'
  <1>1. /\ RecordGood /\ OnTheWay /\ WayBack /\ TypeInv /\ Phases
        /\ ghost \in [prov : SUBSET Nat, extra : SUBSET Nat, past : SUBSET Accidents]
        /\ replay.name \in DOMAIN entries
    BY DEF OutInv, OutcomeInv, PjInv, TypeInv, PjTypeOK
  <1>2. ~Outlives(replay.name)
    BY <1>1 DEF EndReplay, Settle, Accident
  <1>3. restored /\ replay.step = "remove" /\ ~HasRecord(replay.name)
    BY <1>1, <1>2 DEF Outlives, HasRecord
  <1>4. /\ op'.kind = "none" /\ op'.step = "none" /\ replay'.step = "none"
        /\ host'.phase = host.phase /\ host'.todo = host.todo
        /\ ghost'.prov = IF op.step = "finish" /\ op.kind = "journaled" THEN {op.id} ELSE ghost.prov
        /\ ghost'.extra = IF op.step = "finish" /\ op.kind = "plain" THEN {op.id} ELSE ghost.extra
    BY <1>1 DEF EndReplay, Settle, NoOp, NoReplay, TypeInv, PjTypeOK
  <1>5. /\ DOMAIN entries' \subseteq DOMAIN entries
        /\ \A n \in DOMAIN entries' : entries'[n] = entries[n]
        /\ \A n \in DOMAIN entries : HasRecord(n) => n \in DOMAIN entries'
    BY <1>3
  <1>6. CASE Up
    <2>1. op.kind = "journaled" /\ replay.name = op.name
      BY <1>1, <1>6 DEF Phases, TypeInv, PjTypeOK
    <2>2. \A n \in DOMAIN entries : ~HasRecord(n)
      BY <1>1, <1>3, <1>6, <2>1 DEF RecordGood, Placed
    <2>3. FilesGood'
      <3>1. CASE op.step = "finish"
        BY <1>1, <1>4, <2>1, <3>1 DEF OnTheWay, FilesGood, Good
      <3>2. CASE op.step # "finish"
        BY <1>1, <1>3, <1>4, <1>6, <3>2 DEF WayBack, FilesGood, Good
      <3> QED BY <3>1, <3>2
    <2>4. Up'
      BY <1>4, <1>6 DEF Up
    <2> QED BY <1>4, <1>5, <2>2, <2>3, <2>4 DEF RecordGood, OnTheWay, WayBack, HasRecord
  <1>7. CASE ~Up
    <2>1. op.kind = "none" /\ op.step = "none" /\ host.phase = "recovering" /\ ~Up'
      BY <1>1, <1>4, <1>7 DEF Phases, TypeInv, PjTypeOK, Up
    <2>2. ghost'.prov = ghost.prov /\ ghost'.extra = ghost.extra
      BY <1>4, <2>1
    <2>3. RecordGood'
      BY <1>1, <1>3, <1>4, <1>5, <1>7, <2>1, <2>2
         DEF RecordGood, Placed, HasRecord, Good, Up
    <2>4. FilesGood' \/ Recorded' # {}
      <3>1. FilesGood \/ Recorded # {}
        BY <1>1, <1>3, <2>1 DEF WayBack
      <3> QED BY <1>5, <2>2, <3>1 DEF FilesGood, Good, Recorded, HasRecord
    <2> QED BY <1>4, <2>1, <2>3, <2>4 DEF OnTheWay, WayBack
  <1> QED BY <1>6, <1>7

\* The steps of a roll-back or of the replay of a directory.
LEMMA OutcomeReplay ==
    ASSUME OutInv, ghost.past = {}, ghost'.past = {}, Replay
    PROVE  RecordGood' /\ OnTheWay' /\ WayBack'
  <1> USE DEF files
  <1> DEFINE n == replay.name
  <1>1. /\ RecordGood /\ OnTheWay /\ WayBack /\ TypeInv /\ Phases
        /\ ghost \in [prov : SUBSET Nat, extra : SUBSET Nat, past : SUBSET Accidents]
        /\ replay.step # "none" /\ n \in DOMAIN entries
    BY DEF OutInv, OutcomeInv, PjInv, TypeInv, PjTypeOK, Replay, ReadBackups, RestoreModels,
           RestoreAuth, RemovePart, RemoveDirectory, RemoveFails
  <1>2. ASSUME replay.step \in {"read", "models", "auth"}, EndReplay(FALSE), entries' = entries
        PROVE  FALSE
    <2>1. ~Outlives(n)
      BY <1>1, <1>2 DEF EndReplay, Settle, Accident
    <2> QED BY <1>1, <1>2, <2>1 DEF Outlives, WayBack, HasRecord
  <1>3. CASE ReadBackups
    <2>1. /\ replay.step = "read" /\ replay'.step = "models" /\ replay'.name = n
          /\ UNCHANGED <<models, auth, entries, host, op, ghost>>
      BY <1>1, <1>2, <1>3 DEF ReadBackups, TypeInv, PjTypeOK
    <2> QED BY <1>1, <2>1 DEF RecordGood, OnTheWay, WayBack, Placed, FilesGood, Good, HasRecord, Up
  <1>4. CASE RestoreModels
    <2>1. /\ replay.step = "models" /\ replay'.step = "auth" /\ replay'.name = n
          /\ replay'.ok => models' = entries[n].models
          /\ UNCHANGED <<auth, entries, host, op, ghost>>
      BY <1>1, <1>4 DEF RestoreModels, TypeInv, PjTypeOK
    <2>2. op.step \in {"none", "rollback"} /\ (Up => op.step = "rollback")
      BY <1>1, <2>1 DEF TypeInv, PjTypeOK, Phases
    <2> QED BY <1>1, <2>1, <2>2
            DEF RecordGood, OnTheWay, WayBack, Placed, Good, HasRecord, Up
  <1>5. CASE RestoreAuth
    <2>1. /\ replay.step = "auth" /\ replay'.step = "remove" /\ replay'.name = n /\ replay.ok
          /\ auth' = entries[n].auth
          /\ UNCHANGED <<models, entries, host, op, ghost>>
      BY <1>1, <1>2, <1>5 DEF RestoreAuth, RestoredBoth, TypeInv, PjTypeOK
    <2>2. op.step \in {"none", "rollback"} /\ (Up => op.step = "rollback")
      BY <1>1, <2>1 DEF TypeInv, PjTypeOK, Phases
    <2>3. FilesGood'
      BY <1>1, <2>1 DEF WayBack, RecordGood, FilesGood, Good
    <2> QED BY <1>1, <2>1, <2>2, <2>3
            DEF RecordGood, OnTheWay, WayBack, Placed, Good, HasRecord, Up
  <1>6. CASE RemovePart
    <2>1. PICK p \in entries[n].has : entries' = [entries EXCEPT ![n].has = @ \ {p}]
      BY <1>6 DEF RemovePart
    <2>2. /\ replay.step = "remove"
          /\ UNCHANGED <<models, auth, host, op, replay, ghost>>
      BY <1>6 DEF RemovePart
    <2>3. /\ DOMAIN entries' = DOMAIN entries
          /\ \A m \in DOMAIN entries : m # n => entries'[m] = entries[m]
          /\ entries'[n].models = entries[n].models /\ entries'[n].auth = entries[n].auth
          /\ entries'[n].has \subseteq entries[n].has
      BY <1>1, <2>1 DEF TypeInv, PjTypeOK, EntryType
    <2>4. op.step \in {"none", "rollback", "finish"} /\ (Up => op.step # "none")
      BY <1>1, <2>2 DEF TypeInv, PjTypeOK, Phases
    <2>5. RecordGood'
      BY <1>1, <2>2, <2>3 DEF RecordGood, Placed, Good, HasRecord, Up
    <2>6. OnTheWay'
      BY <1>1, <2>2, <2>4 DEF OnTheWay, Good, Up, Phases
    <2>7. WayBack'
      <3>1. SUFFICES ASSUME op.step # "finish"
                     PROVE  FilesGood \/ (~Up /\ ~HasRecord(n)' /\ Recorded' # {})
        BY <2>2 DEF WayBack, FilesGood, Good, Up
      <3>2. CASE ~FilesGood
        <4>1. ~Up /\ ~HasRecord(n) /\ Recorded # {}
          BY <1>1, <2>2, <3>1, <3>2 DEF WayBack
        <4> QED BY <2>2, <2>3, <4>1 DEF Recorded, HasRecord
      <3> QED BY <3>2
    <2> QED BY <2>5, <2>6, <2>7
  <1>7. CASE RemoveDirectory
    <2> DEFINE b == TRUE
    <2>1. /\ b \in BOOLEAN /\ b /\ EndReplay(b) /\ models' = models /\ auth' = auth
          /\ replay.step = "remove" /\ ~HasRecord(n)
          /\ DOMAIN entries' = DOMAIN entries \ {n}
          /\ \A m \in DOMAIN entries' : entries'[m] = entries[m]
      BY <1>7 DEF RemoveDirectory, HasRecord
    <2> HIDE DEF b
    <2> QED BY <1>1, <2>1, OutcomeEnd
  <1>8. CASE RemoveFails
    <2> DEFINE b == TRUE
    <2>1. /\ b \in BOOLEAN /\ b /\ EndReplay(b) /\ models' = models /\ auth' = auth
          /\ replay.step = "remove" /\ entries' = entries
      BY <1>8 DEF RemoveFails
    <2>2. HasRecord(n) => FALSE
      BY <1>1, <2>1 DEF EndReplay, Settle, Accident, Outlives, HasRecord
    <2> HIDE DEF b
    <2> QED BY <1>1, <2>1, <2>2, OutcomeEnd
  <1> QED BY <1>3, <1>4, <1>5, <1>6, <1>7, <1>8 DEF Replay

\* The Host dies, starts, and goes through the directories.
LEMMA OutcomeStart ==
    ASSUME OutInv, ghost.past = {}, ghost'.past = {}, Start \/ Crash
    PROVE  RecordGood' /\ OnTheWay' /\ WayBack'
  <1> USE DEF files
  <1>1. /\ RecordGood /\ OnTheWay /\ WayBack /\ TypeInv /\ Phases
        /\ ghost \in [prov : SUBSET Nat, extra : SUBSET Nat, past : SUBSET Accidents]
    BY DEF OutInv, OutcomeInv, PjInv, TypeInv, PjTypeOK
  <1>2. CASE StartHost
    <2>1. /\ host.phase = "down" /\ host'.phase = "recovering"
          /\ host'.todo = DOMAIN entries \/ Recorded = {}
          /\ UNCHANGED <<models, auth, entries, op, replay, ghost>>
          /\ op.kind = "none" /\ op.step = "none" /\ replay.step = "none"
      <3>1. CASE UNCHANGED ghost /\ host'.todo = DOMAIN entries
        BY <1>1, <1>2, <3>1 DEF StartHost, TypeInv, PjTypeOK, Phases, Up
      <3>2. CASE ghost' = [ghost EXCEPT !.past = Accident("unlisted", Recorded # {})]
        <4>1. Accident("unlisted", Recorded # {}) = {}
          BY <1>1, <3>2
        <4>2. Recorded = {} /\ ghost' = ghost
          BY <1>1, <3>2, <4>1 DEF Accident
        <4> QED BY <1>1, <1>2, <4>2 DEF StartHost, TypeInv, PjTypeOK, Phases, Up
      <3> QED BY <1>1, <1>2, <3>1, <3>2 DEF StartHost, TypeInv, PjTypeOK
    <2> QED BY <1>1, <2>1 DEF RecordGood, OnTheWay, WayBack, Placed, FilesGood, Good, HasRecord,
            Recorded, Up
  <1>3. CASE NextEntry
    <2>1. PICK n \in host.todo :
             /\ host' = [host EXCEPT !.todo = host.todo \ {n}]
             /\ replay' = [step |-> IF HasRecord(n) THEN "read" ELSE "remove",
                           name |-> n, ok |-> TRUE]
             /\ UNCHANGED ghost
      <3>1. ghost' = [ghost EXCEPT !.past = Accident("discarded", TRUE)] => FALSE
        BY <1>1 DEF Accident
      <3> QED BY <1>3, <3>1 DEF NextEntry, Remaining
    <2>2. /\ host.phase = "recovering" /\ host'.phase = "recovering" /\ host'.todo = host.todo \ {n}
          /\ replay'.step = IF HasRecord(n) THEN "read" ELSE "remove"
          /\ replay'.name = n
          /\ UNCHANGED <<models, auth, entries, op, ghost>>
          /\ op.kind = "none" /\ op.step = "none" /\ replay.step = "none"
      BY <1>1, <1>3, <2>1 DEF NextEntry, NoReplay, TypeInv, PjTypeOK, Phases, Up
    <2>3. RecordGood'
      BY <1>1, <2>2 DEF RecordGood, Placed, Good, HasRecord, Up
    <2>4. OnTheWay'
      BY <2>2 DEF OnTheWay, Up
    <2>5. WayBack'
      BY <1>1, <2>2 DEF WayBack, FilesGood, Good, HasRecord, Recorded, Up
    <2> QED BY <2>3, <2>4, <2>5
  <1>4. CASE HostReady
    <2>1. /\ host.phase = "recovering" /\ host'.phase = "up" /\ host.todo = {}
          /\ ghost'.prov = IF models.prov \in ghost.prov THEN {models.prov} ELSE ghost.prov
          /\ ghost'.extra = IF models.extra \in ghost.extra THEN {models.extra} ELSE ghost.extra
          /\ UNCHANGED <<models, auth, entries, op, replay>>
          /\ op.kind = "none" /\ op.step = "none" /\ replay.step = "none"
      BY <1>1, <1>4 DEF HostReady, NoReplay, TypeInv, PjTypeOK, Phases, Up
    <2>2. \A n \in DOMAIN entries : ~HasRecord(n)
      BY <1>1, <2>1 DEF RecordGood, Placed
    <2>3. FilesGood
      BY <1>1, <2>1, <2>2 DEF WayBack, Recorded, Up
    <2> QED BY <2>1, <2>2, <2>3 DEF RecordGood, OnTheWay, WayBack, FilesGood, Good, HasRecord, Up
  <1>5. CASE Crash
    <2>1. /\ host'.phase = "down" /\ op'.kind = "none" /\ op'.step = "none" /\ replay'.step = "none"
          /\ UNCHANGED <<models, auth, entries>>
          /\ op.step # "rewrite"
          /\ ghost.prov \subseteq ghost'.prov /\ ghost.extra \subseteq ghost'.extra
          /\ op.kind = "journaled" /\ op.step = "finish" => op.id \in ghost'.prov
          /\ op.kind = "plain" /\ op.step = "refresh" => op.id \in ghost'.extra
      BY <1>1, <1>5 DEF Crash, HostDown, Accident, NoReplay, NoOp, OpenOutcome
    <2>2. RecordGood'
      BY <1>1, <2>1 DEF RecordGood, Placed, Good, HasRecord, Up
    <2>3. OnTheWay'
      BY <2>1 DEF OnTheWay, Up
    <2>4. FilesGood' \/ Recorded # {}
      <3>1. CASE FilesGood
        BY <2>1, <3>1 DEF FilesGood, Good
      <3>2. CASE ~Up
        <4>1. replay.step \in {"none", "remove", "read", "models", "auth"} /\ op.step = "none"
          BY <1>1, <3>2 DEF TypeInv, PjTypeOK, Phases
        <4>2. replay.step \in {"read", "models", "auth"} => replay.name \in DOMAIN entries
          BY <1>1 DEF TypeInv, PjTypeOK
        <4> QED BY <1>1, <3>1, <3>2, <4>1, <4>2 DEF WayBack, Recorded
      <3>3. CASE Up /\ op.kind = "journaled"
        <4>1. op.name \in DOMAIN entries
          BY <1>1, <3>3 DEF TypeInv, PjTypeOK
        <4>2. CASE op.step \in {"begin", "commit"}
          BY <1>1, <3>1, <3>3, <4>2 DEF OnTheWay
        <4>3. CASE op.step \in {"credentials", "reconcile"}
          BY <1>1, <3>3, <4>1, <4>3 DEF OnTheWay, Recorded
        <4>4. CASE op.step = "finish"
          BY <1>1, <2>1, <3>3, <4>4 DEF OnTheWay, FilesGood, Good
        <4>5. CASE op.step = "rollback"
          <5>1. replay.step \in {"read", "models", "auth", "remove"} /\ replay.name = op.name
            BY <1>1, <3>3, <4>5 DEF TypeInv, PjTypeOK, Phases
          <5> QED BY <1>1, <3>1, <3>3, <4>1, <4>5, <5>1 DEF WayBack, Recorded
        <4> QED BY <1>1, <3>3, <4>2, <4>3, <4>4, <4>5 DEF Phases
      <3>4. CASE Up /\ op.kind # "journaled"
        <4>1. op.step \in {"none", "commit", "refresh", "rewrite"}
              /\ (op.step = "refresh" => op.kind = "plain")
          BY <1>1, <3>4 DEF TypeInv, PjTypeOK, Phases
        <4>2. CASE op.step = "refresh"
          BY <1>1, <2>1, <4>1, <4>2 DEF OnTheWay, FilesGood, Good
        <4> QED BY <1>1, <2>1, <3>1, <3>4, <4>1, <4>2 DEF OnTheWay
      <3> QED BY <3>2, <3>3, <3>4
    <2>5. WayBack'
      BY <2>1, <2>4 DEF WayBack, Recorded, HasRecord
    <2> QED BY <2>2, <2>3, <2>5
  <1> QED BY <1>2, <1>3, <1>4, <1>5 DEF Start

\* Whatever dies or fails when, for any number of mutations: without an accident
\* nothing acknowledged is lost, nothing refused is kept, and a mutation that was
\* cut short is undone or complete in both files.
THEOREM OutcomeCorrect == PjSpec => []OutcomeKept
  <1>1. PjInit => OutcomeInv
    BY DEF PjInit, OutcomeInv, RecordGood, OnTheWay, WayBack, FilesGood, Good, Nothing, NoOp,
           NoReplay, Up
  <1>2. PjInv /\ OutcomeInv /\ [PjNext]_pjVars => OutcomeInv'
    <2> SUFFICES ASSUME OutInv, [PjNext]_pjVars PROVE OutcomeInv'
      BY DEF OutInv
    <2>1. CASE UNCHANGED pjVars
      BY <2>1 DEF pjVars, files, OutInv, OutcomeInv, RecordGood, OnTheWay, WayBack, Placed,
         FilesGood, Good, HasRecord, Recorded, Up
    <2>2. CASE PjNext
      <3>1. SUFFICES ASSUME ghost'.past = {} PROVE RecordGood' /\ OnTheWay' /\ WayBack'
        BY DEF OutcomeInv
      <3>2. ghost.past = {}
        BY <2>2, <3>1, PastGrows DEF OutInv
      <3> QED BY <2>2, <3>1, <3>2, OutcomeJournaled, OutcomePlain, OutcomeReplay, OutcomeStart
              DEF PjNext, Mutate
    <2> QED BY <2>1, <2>2
  <1>3. OutcomeInv => OutcomeKept
    BY DEF OutcomeInv, OnTheWay, FilesGood, Good, OutcomeKept, Idle, NoOp
  <1> QED BY <1>1, <1>2, <1>3, InvCorrect, PTL DEF PjSpec
=============================================================================
