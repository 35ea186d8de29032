--------------------------- MODULE ProviderJournal ---------------------------
(***************************************************************************)
(* Changes of a provider, and the journal that makes them survive a crash. *)
(*                                                                         *)
(* provider-controller.ts writes two files no rename can cover together:   *)
(* models.json (the configuration) and auth.json (the credential).  Before *)
(* it touches them, provider-journal.ts copies both into a directory and   *)
(* publishes a record there; the next start of the Host replays the        *)
(* directories that still have one.  A step below is what lies between two *)
(* awaits, so that the process may die between any two of them.            *)
(***************************************************************************)
EXTENDS Integers, FiniteSets

CONSTANTS
    Names,          \* names of journal directories (random UUIDs), as numbers
    MaxMutations,   \* bound: mutations begun
    MaxCrashes,     \* bound: deaths of the Host, orderly exits included
    MaxFaults       \* bound: operations on files or on the registry that fail

ASSUME JournalAssumption ==
    /\ Names \subseteq Nat /\ IsFiniteSet(Names)
    /\ {MaxMutations, MaxCrashes, MaxFaults} \subseteq Nat

VARIABLES
    models,     \* models.json: [prov, extra]
    auth,       \* auth.json: a version
    entries,    \* the journal: name -> [models, auth, has]
    host,       \* [phase, todo, degraded, incomplete, unlisted]
    op,         \* the mutation that holds the graph lock, or NoOp
    replay,     \* the directory being restored from or removed, or NoReplay
    used,       \* [mutations, crashes, faults]: what the bounds count
    ghost       \* [prov, extra, past]: what the user may expect, see Settle

files == <<models, auth>>
pjVars == <<models, auth, entries, host, op, replay, used, ghost>>

(***************************************************************************)
(* A mutation is named by its number; a file holds the number of the last  *)
(* one that wrote it.  models.prov and auth are the two halves of a        *)
(* provider (0: none); models.extra is what setEnabled, setBuiltinModels   *)
(* and a detected auth header change, which have no half in auth.json.  An *)
(* entry remembers both files as they were; "has" is what of it is on disk.*)
(***************************************************************************)
Backups == {"models", "auth"}
Record == "record"

Nothing == [prov |-> 0, extra |-> 0]
NoOp == [kind |-> "none", step |-> "none", id |-> 0, name |-> 0, before |-> Nothing]
NoReplay == [step |-> "none", name |-> 0, ok |-> TRUE]
HostDown == [phase |-> "down", todo |-> {}, degraded |-> FALSE, incomplete |-> FALSE,
             unlisted |-> FALSE]

Up == host.phase = "up"
Idle == Up /\ op = NoOp
Agree == models.prov = auth

HasRecord(n) == Record \in entries[n].has
Recorded == {n \in DOMAIN entries : HasRecord(n)}

Fault == /\ used.faults < MaxFaults
         /\ used' = [used EXCEPT !.faults = @ + 1]
NoFault == UNCHANGED used

-----------------------------------------------------------------------------
(* What the user may expect.  ghost.prov and ghost.extra are the mutations *)
(* whose outcome the files may show: the last acknowledged, and one that a *)
(* crash left open.  ghost.past remembers accidents: directories that have *)
(* outlived a mutation "refused" early, a roll-back or recovery that got   *)
(* "halfway", or a finished one, "unremoved"; a mutation begun on files    *)
(* that were "mixed"; models.json "truncated" by a roll-back in place; a   *)
(* directory "discarded" because its record could not be read, and records *)
(* passed over, "unlisted", because the list of them could not be read.    *)

Accident(what, happened) ==
    ghost.past \union (IF happened THEN {what} ELSE {})

\* The directory stays, with its record.
Outlives(n) == n \in DOMAIN entries' /\ Record \in entries'[n].has

\* An acknowledgement settles the mutation; an error leaves things as they were.
Settle(acknowledged, past) ==
    ghost' = [prov  |-> IF acknowledged /\ op.kind = "journaled" THEN {op.id} ELSE ghost.prov,
              extra |-> IF acknowledged /\ op.kind = "plain" THEN {op.id} ELSE ghost.extra,
              past  |-> past]

-----------------------------------------------------------------------------
(* provider.save, provider.remove and provider.logout. *)

\* Bug: only the providers are copied, not the other keys of the file.
Copies_ProvidersOnly ==
    [models |-> [prov |-> models.prov, extra |-> 0], auth |-> auth, has |-> {}]

\* What the directory is to hold: the files before the mutation, whole.
Copies == [models |-> models, auth |-> auth, has |-> {}]

\* readModelsConfig, then ProviderMutationJournal.begin makes its directory.  The
\* graph lock admits one mutation; a degraded Host refuses none.
Begin(n) ==
    /\ Idle /\ used.mutations < MaxMutations /\ n \notin DOMAIN entries
    /\ used' = [used EXCEPT !.mutations = @ + 1]
    /\ op' = [kind |-> "journaled", step |-> "begin", id |-> used.mutations + 1,
              name |-> n, before |-> models]
    /\ entries' = [e \in DOMAIN entries \union {n} |->
                      IF e = n THEN Copies ELSE entries[e]]
    /\ ghost' = [ghost EXCEPT !.past = Accident("mixed", ~Agree)]
    /\ UNCHANGED <<files, host, replay>>

\* The copies are synced, models.json's first, then the record is published.
NextPart(has) ==
    IF has = {} THEN "models" ELSE IF has = {"models"} THEN "auth" ELSE Record

JournalPart ==
    LET n == op.name
        written == entries[n].has \union {NextPart(entries[n].has)}
    IN  /\ op.step = "begin"
        /\ entries' = [entries EXCEPT ![n].has = written]
        /\ op' = IF Record \in written THEN [op EXCEPT !.step = "commit"] ELSE op
        /\ NoFault
        /\ UNCHANGED <<files, host, replay, ghost>>

\* begin throws, or commitModelsConfig does (the SDK refuses the candidate, the
\* rename fails): both stand outside the try that rolls back.  The error is
\* returned and the directory stays as it is.
FailEarly ==
    /\ op.kind = "journaled" /\ op.step \in {"begin", "commit"}
    /\ Fault
    /\ op' = NoOp
    /\ UNCHANGED <<files, entries, host, replay>>
    /\ Settle(FALSE, Accident("refused", Outlives(op.name)))

\* commitModelsConfig: one rename puts the candidate in place.
CommitModels ==
    /\ op.kind = "journaled" /\ op.step = "commit"
    /\ models' = [models EXCEPT !.prov = op.id]
    /\ op' = [op EXCEPT !.step = "credentials"]
    /\ NoFault
    /\ UNCHANGED <<auth, entries, host, replay, ghost>>

\* credentialStore.modify and delete.
WriteCredentials ==
    /\ op.step = "credentials"
    /\ auth' = op.id
    /\ op' = [op EXCEPT !.step = "reconcile"]
    /\ NoFault
    /\ UNCHANGED <<models, entries, host, replay, ghost>>

\* markCommitted, refreshRegistry, reconcileIdleActiveSessionModel.
Reconcile ==
    /\ op.step = "reconcile"
    /\ op' = [op EXCEPT !.step = "finish"]
    /\ replay' = [step |-> "remove", name |-> op.name, ok |-> TRUE]
    /\ NoFault
    /\ UNCHANGED <<files, entries, host, ghost>>

\* One of these throws: the lock on auth.json cannot be had or was lost, one
\* of two credential writes fails, the registry does not refresh.
FailLate ==
    /\ op.step \in {"credentials", "reconcile"}
    /\ Fault
    /\ auth' \in (IF op.step = "credentials" THEN {auth, op.id} ELSE {auth})
    /\ op' = [op EXCEPT !.step = "rollback"]
    /\ replay' = [step |-> "read", name |-> op.name, ok |-> TRUE]
    /\ UNCHANGED <<models, entries, host, ghost>>

-----------------------------------------------------------------------------
(* Restoring from a directory, and removing it: restoreFromEntry and rm,   *)
(* for the roll-back of a mutation and for the recovery at startup.        *)

\* Bug: the health is that of the last directory.
StillDegraded_Last(restored) == ~restored

StillDegraded(restored) == host.degraded \/ ~restored

\* The mutation is acknowledged or refused; a recovery goes on to the next
\* directory.  That a directory could not be removed is only logged.
EndReplay(restored) ==
    /\ replay' = NoReplay
    /\ op' = NoOp
    /\ host' = IF host.phase = "recovering"
               THEN [host EXCEPT !.degraded = StillDegraded(restored)]
               ELSE [host EXCEPT !.incomplete = @ \/ ~restored]
    /\ Settle(op.step = "finish",
              Accident(IF restored THEN "unremoved" ELSE "halfway",
                       Outlives(replay.name)))

\* Bug: a copy that is missing does not stop the other from being restored.
Replayable_Either(n) == Backups \intersect entries[n].has # {}

\* Both copies can be read.
Replayable(n) == Backups \subseteq entries[n].has

\* An incomplete entry is no authority to touch either file.
ReadBackups ==
    /\ replay.step = "read"
    /\ UNCHANGED <<files, entries>>
    /\ \/ /\ Replayable(replay.name) /\ NoFault
          /\ replay' = [replay EXCEPT !.step = "models"]
          /\ UNCHANGED <<host, op, ghost>>
       \/ /\ \/ ~Replayable(replay.name) /\ NoFault
             \/ Replayable(replay.name) /\ Fault
          /\ EndReplay(FALSE)

RestoreModels ==
    /\ replay.step = "models"
    /\ \/ /\ NoFault
          /\ models' = entries[replay.name].models
          /\ replay' = [replay EXCEPT !.step = "auth"]
       \/ /\ Fault
          /\ replay' = [replay EXCEPT !.step = "auth", !.ok = FALSE]
          /\ UNCHANGED models
    /\ UNCHANGED <<auth, entries, host, op, ghost>>

\* Bug: the directory is removed although models.json was not restored.
RestoredBoth_AuthOnly(ok) == TRUE

RestoredBoth(ok) == ok

\* credentialStore.restore; it may throw after its rename (a lock it lost).
\* Only with both files restored is the directory given up.
RestoreAuth ==
    LET n == replay.name
        done == /\ replay' = [replay EXCEPT !.step = "remove"]
                /\ UNCHANGED <<host, op, ghost>>
    IN  /\ replay.step = "auth"
        /\ UNCHANGED <<models, entries>>
        /\ \/ /\ NoFault
              /\ auth' = entries[n].auth
              /\ IF RestoredBoth(replay.ok) THEN done ELSE EndReplay(FALSE)
           \/ /\ Fault
              /\ auth' \in {auth, entries[n].auth}
              /\ EndReplay(FALSE)

\* rm of a directory takes its files in no particular order.
RemovePart ==
    LET n == replay.name
    IN  /\ replay.step = "remove"
        /\ \E p \in entries[n].has : entries' = [entries EXCEPT ![n].has = @ \ {p}]
        /\ NoFault
        /\ UNCHANGED <<files, host, op, replay, ghost>>

RemoveDirectory ==
    /\ replay.step = "remove" /\ entries[replay.name].has = {}
    /\ entries' = [e \in DOMAIN entries \ {replay.name} |-> entries[e]]
    /\ EndReplay(TRUE)
    /\ NoFault
    /\ UNCHANGED files

RemoveFails ==
    /\ replay.step = "remove"
    /\ Fault
    /\ UNCHANGED <<files, entries>>
    /\ EndReplay(TRUE)

-----------------------------------------------------------------------------
(* provider.setEnabled, provider.setBuiltinModels, persistDetectedAuthHeader: *)
(* models.json alone, without a journal.                                      *)

BeginPlain ==
    /\ Idle /\ used.mutations < MaxMutations
    /\ used' = [used EXCEPT !.mutations = @ + 1]
    /\ op' = [kind |-> "plain", step |-> "commit", id |-> used.mutations + 1,
              name |-> 0, before |-> models]
    /\ UNCHANGED <<files, entries, host, replay, ghost>>

CommitPlain ==
    /\ op.kind = "plain" /\ op.step = "commit"
    /\ UNCHANGED <<auth, entries, host, replay>>
    /\ \/ /\ NoFault
          /\ models' = [models EXCEPT !.extra = op.id]
          /\ op' = [op EXCEPT !.step = "refresh"]
          /\ UNCHANGED ghost
       \/ /\ Fault
          /\ op' = NoOp
          /\ Settle(FALSE, ghost.past)
          /\ UNCHANGED models

RefreshPlain ==
    /\ op.step = "refresh"
    /\ NoFault
    /\ op' = NoOp
    /\ UNCHANGED <<files, entries, host, replay>>
    /\ Settle(TRUE, ghost.past)

\* restoreModelsConfig writes in place: the file is empty first, and an empty
\* one reads as no provider at all.
TruncatePlain ==
    /\ op.step = "refresh"
    /\ Fault
    /\ models' = Nothing
    /\ op' = [op EXCEPT !.step = "rewrite"]
    /\ UNCHANGED <<auth, entries, host, replay, ghost>>

RewritePlain ==
    /\ op.step = "rewrite"
    /\ op' = NoOp
    /\ UNCHANGED <<auth, entries, host, replay>>
    /\ \/ /\ NoFault
          /\ models' = op.before
          /\ Settle(FALSE, ghost.past)
       \/ /\ Fault
          /\ ghost' = [ghost EXCEPT !.past = Accident("truncated", TRUE)]
          /\ UNCHANGED models

-----------------------------------------------------------------------------
(* The Host dies and starts again. *)

\* What is acknowledged only after this step may have happened or not.
OpenOutcome == {op.id : k \in {"finish", "refresh"} \intersect {op.step}}

Crash ==
    /\ host.phase # "down" /\ used.crashes < MaxCrashes
    /\ used' = [used EXCEPT !.crashes = @ + 1]
    /\ host' = HostDown
    /\ op' = NoOp
    /\ replay' = NoReplay
    /\ ghost' = [prov  |-> IF op.kind = "journaled" THEN ghost.prov \union OpenOutcome
                           ELSE ghost.prov,
                 extra |-> IF op.kind = "plain" THEN ghost.extra \union OpenOutcome
                           ELSE ghost.extra,
                 past  |-> Accident("truncated", op.step = "rewrite")]
    /\ UNCHANGED <<files, entries>>

\* main.ts: recoverProviderJournals lists the directories.  A list that cannot be
\* read is taken for an empty one: the Host starts, in health, on what there is.
StartHost ==
    /\ host.phase = "down"
    /\ \/ /\ NoFault
          /\ host' = [host EXCEPT !.phase = "recovering", !.todo = DOMAIN entries]
          /\ UNCHANGED ghost
       \/ /\ Fault
          /\ host' = [host EXCEPT !.phase = "recovering", !.unlisted = Recorded # {}]
          /\ ghost' = [ghost EXCEPT !.past = Accident("unlisted", Recorded # {})]
    /\ UNCHANGED <<files, entries, op, replay>>

\* Bug: a directory without a record is looked at again.
Remaining_NoRecord(n) == IF HasRecord(n) THEN host.todo \ {n} ELSE host.todo

\* Bug: a directory that is read and cannot be replayed is tried again.
Remaining_Unresolved(n) ==
    IF replay'.step = "read" /\ ~Replayable(n) THEN host.todo ELSE host.todo \ {n}

Remaining(n) == host.todo \ {n}

\* The next directory by name.  readRecord answers null for a record that is not
\* there and for one that cannot be read or parsed: the directory is removed.
NextEntry ==
    /\ host.phase = "recovering" /\ replay = NoReplay
    /\ \E n \in host.todo :
          /\ \A m \in host.todo : n <= m
          /\ \/ /\ NoFault
                /\ replay' = [step |-> IF HasRecord(n) THEN "read" ELSE "remove",
                              name |-> n, ok |-> TRUE]
                /\ UNCHANGED ghost
             \/ /\ HasRecord(n) /\ Fault
                /\ replay' = [step |-> "remove", name |-> n, ok |-> TRUE]
                /\ ghost' = [ghost EXCEPT !.past = Accident("discarded", TRUE)]
          /\ host' = [host EXCEPT !.todo = Remaining(n)]
    /\ UNCHANGED <<files, entries, op>>

\* The runtime reads the files and the Host reports its health.  An outcome a
\* crash left open is settled by what the user now sees.
HostReady ==
    /\ host.phase = "recovering" /\ replay = NoReplay /\ host.todo = {}
    /\ host' = [host EXCEPT !.phase = "up"]
    /\ ghost' = [ghost EXCEPT
                    !.prov = IF models.prov \in @ THEN {models.prov} ELSE @,
                    !.extra = IF models.extra \in @ THEN {models.extra} ELSE @]
    /\ UNCHANGED <<files, entries, op, replay, used>>

-----------------------------------------------------------------------------
PjInit ==
    /\ models = Nothing /\ auth = 0
    /\ entries = [n \in {} |-> 0]
    /\ host = HostDown
    /\ op = NoOp /\ replay = NoReplay
    /\ used = [mutations |-> 0, crashes |-> 0, faults |-> 0]
    /\ ghost = [prov |-> {0}, extra |-> {0}, past |-> {}]

Mutate ==
    \/ \E n \in Names : Begin(n)
    \/ JournalPart \/ FailEarly \/ CommitModels \/ WriteCredentials
    \/ Reconcile \/ FailLate
    \/ BeginPlain \/ CommitPlain \/ RefreshPlain \/ TruncatePlain \/ RewritePlain

Replay ==
    \/ ReadBackups \/ RestoreModels \/ RestoreAuth
    \/ RemovePart \/ RemoveDirectory \/ RemoveFails

Start == StartHost \/ NextEntry \/ HostReady

PjNext == Mutate \/ Replay \/ Start \/ Crash

PjSpec == PjInit /\ [][PjNext]_pjVars

\* The Host is started whenever it is down and its startup does not stall; the
\* user's mutations and its deaths are promised nothing.
PjFairSpec == PjSpec /\ WF_pjVars(Replay) /\ WF_pjVars(Start)

-----------------------------------------------------------------------------
(* Properties *)

ModelsFile == [prov : Nat, extra : Nat]
EntryType == [models : ModelsFile, auth : Nat, has : SUBSET (Backups \union {Record})]
Steps == {"none", "begin", "commit", "credentials", "reconcile", "finish", "rollback",
          "refresh", "rewrite"}

Accidents == {"refused", "halfway", "unremoved", "mixed", "truncated", "discarded",
              "unlisted"}

\* Shapes of the files, the journal and the process.
PjTypeOK ==
    /\ models \in ModelsFile /\ auth \in Nat
    /\ DOMAIN entries \subseteq Names
    /\ entries \in [DOMAIN entries -> EntryType]
    /\ host \in [phase : {"down", "recovering", "up"}, todo : SUBSET DOMAIN entries,
                 degraded : BOOLEAN, incomplete : BOOLEAN, unlisted : BOOLEAN]
    /\ op \in [kind : {"none", "journaled", "plain"}, step : Steps, id : Nat,
               name : Nat, before : ModelsFile]
    /\ replay \in [step : {"none", "read", "models", "auth", "remove"}, name : Nat,
                   ok : BOOLEAN]
    /\ used \in [mutations : Nat, crashes : Nat, faults : Nat]
    /\ ghost \in [prov : SUBSET Nat, extra : SUBSET Nat,
                  past : SUBSET Accidents]
    /\ op.kind = "journaled" => op.name \in DOMAIN entries
    /\ replay.step # "none" => replay.name \in DOMAIN entries

\* After these the files may disagree and no record say so.
Blind == ghost.past \intersect {"mixed", "truncated", "discarded"} # {}

\* "The journal makes that state detectable" (provider-journal.ts): whenever
\* configuration and credential disagree, in whatever state the process or its
\* death has left them, a record is on disk - unless a mutation was begun on
\* files that disagreed already, models.json is truncated by a roll-back in
\* place, or a recovery could not read a record and has thrown it away.
Detectable ==
    ~Agree => Recorded # {} \/ Blind \/ op.step = "rewrite"

\* A Host that serves, claims health and has not just failed to roll back has
\* a configuration and credentials that agree - unless it could not list the
\* records at its start, or files that disagree are told by no record.
HealthyAgrees ==
    /\ Idle /\ ~host.degraded /\ ~host.incomplete /\ ~host.unlisted
    /\ ~Blind
    => Agree

\* Both files show the last mutation the user was told of: nothing acknowledged
\* is lost, nothing refused is kept, and one a crash cut short is undone unless
\* all of it was done - as long as none of the accidents has happened: no
\* directory has outlived its mutation, no record was passed over or lost.
OutcomeKept ==
    Idle /\ ghost.past = {} =>
        models.prov \in ghost.prov /\ auth = models.prov /\ models.extra \in ghost.extra

\* From here on a directory and its record are being removed.
Disposed(n) == replay'.step = "remove" /\ replay'.name = n /\ replay.step # "remove"

\* Both files are what the copies in the directory say.
RestoredFrom(n) ==
    Backups \subseteq entries[n].has /\ models' = entries[n].models /\ auth' = entries[n].auth

\* "Missing, unreadable, malformed, or ambiguous backup state leaves both live
\* files untouched, keeps the journal" (docs/operations/development.md): in a
\* roll-back as in a recovery, a directory that lacks a copy changes nothing; a
\* record is lost only in a removal, and a removal follows the mutation's end or
\* the restoring of both files.  One case is not as the document has it: a record
\* that a recovery fails to read is removed, with its directory.
IncompleteUntouched ==
    [][\A n \in Recorded :
          /\ /\ replay.step \in {"read", "models", "auth"} /\ replay.name = n
             /\ ~(Backups \subseteq entries[n].has)
             => UNCHANGED <<files, entries>>
          /\ ~Outlives(n) => replay.step = "remove" /\ replay.name = n
          /\ Disposed(n) =>
                \/ op.step = "reconcile"
                \/ RestoredFrom(n)
                \/ host.phase = "recovering" /\ replay = NoReplay /\ ~NoFault]_pjVars

\* However often it is interrupted, a Host that is started comes up.
RecoveryCompletes == host.phase = "down" ~> Up
=============================================================================
