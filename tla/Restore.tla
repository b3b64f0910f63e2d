------------------------------ MODULE Restore ------------------------------
(***************************************************************************)
(* Restoring a portable backup over the workspace in place, and what the   *)
(* next server start makes of an interrupted restore                       *)
(* (apps/server/src/backups/restore-service.ts).                           *)
(*                                                                         *)
(* A restore renames whole database files, rewrites the journal and the    *)
(* operating system's keyring one await at a time; between any two of      *)
(* them the process may crash, and each of them may fail.  A database is   *)
(* the key that opens it and the restore that put it there.  The journal's *)
(* phase is left out: nothing reads it.  The command is documented as      *)
(* offline, so the server and the command do not run at the same time.     *)
(***************************************************************************)
EXTENDS Naturals

CONSTANTS
    Key,               \* database keys
    NoKey,             \* the key provider has none
    NoFile,            \* no file of that name
    NoJournal,         \* restore-journal.json is not there
    MaxRestores,       \* bound: restore commands
    MaxCrashes,        \* bound: crashes
    MaxErrors          \* bound: steps that fail

ASSUME RestoreAssumption ==
    /\ Key # {} /\ NoKey \notin Key
    /\ MaxRestores \in Nat /\ MaxCrashes \in Nat /\ MaxErrors \in Nat

VARIABLES
    disk,     \* what survives a crash: the data directory's files, the journal
              \* and the DatabaseKeyProvider
    op,       \* the process: where it is and its local variables
    owned,    \* history: the workspace last in service
    backups,  \* history: the databases a pre_restore safety backup exists of
    tally,    \* commands, crashes and errors so far, for the bounds
    orderly   \* history: has there been no fault but those the code recovers
              \* from?  These are crashes, each followed by a server start
              \* before the next restore, or steps that fail, but not the last
              \* step and none of the undoing of a failed restore.

vars == <<disk, op, owned, backups, tally, orderly>>

Attempt == 1..MaxRestores            \* the operationId of each command
Live == <<"database", 0>>            \* options.databasePath
Staging(n) == <<"staging", n>>
Rollback(n) == <<"rollback", n>>
Interrupted(n) == <<"interrupted", n>>
Path == {Live} \cup {"staging", "rollback", "interrupted"} \X Attempt

Database == [from : 0..MaxRestores, key : Key]
Journal == [rollback : Path \cup {NoFile}, interrupted : Path]
Disk == [files : [Path -> Database \cup {NoFile}],
         journal : Journal \cup {NoJournal},
         kind : {"keyring", "secret-file"}, key : Key \cup {NoKey}]

TryStage == {"verify", "finish-key", "finish-files", "finish-journal", "extract",
             "guard", "safety", "journal", "displace", "install", "key",
             "migrate", "clean", "commit"}
UndoStage == {"undo-aside", "undo-back", "undo-key", "undo-journal"}
StartStage == {"start-back", "start-journal", "start-open"}
Stage == TryStage \cup UndoStage \cup StartStage \cup {"idle"}
Process == [at : Stage, n : 0..MaxRestores, key : Key \cup {NoKey}, replace : BOOLEAN,
            existing : BOOLEAN, previous : Key \cup {NoKey}]

ASSUME NamesAssumption ==
    /\ NoFile \notin Path \cup Database
    /\ NoJournal \notin Journal

Idle == [at |-> "idle", n |-> 0, key |-> NoKey, replace |-> FALSE,
         existing |-> FALSE, previous |-> NoKey]

LiveFile == disk.files[Live]
Exists(p) == p # NoFile /\ disk.files[p] # NoFile
CanOpen(p, k) == Exists(p) /\ disk.files[p].key = k
Opens == CanOpen(Live, disk.key)

Init ==
    \E kind \in {"keyring", "secret-file"}, k \in Key, found \in BOOLEAN :
        /\ owned = IF found THEN [from |-> 0, key |-> k] ELSE NoFile
        /\ disk = [files |-> [p \in Path |-> IF p = Live THEN owned ELSE NoFile],
                   journal |-> NoJournal, kind |-> kind,
                   key |-> IF found \/ kind = "secret-file" THEN k ELSE NoKey]
        /\ op = Idle
        /\ backups = {}
        /\ tally = [restores |-> 0, crashes |-> 0, errors |-> 0]
        /\ orderly = TRUE

-----------------------------------------------------------------------------
At(stage) == op.at = stage
Goto(stage) == op' = [op EXCEPT !.at = stage]
Throws == Goto("undo-aside")             \* into the catch block
SameDisk == UNCHANGED disk
SameHistory == UNCHANGED <<owned, backups, tally, orderly>>

Move(p, q) == disk' = [disk EXCEPT !.files[q] = disk.files[p], !.files[p] = NoFile]
Remove(p) == disk' = IF p = NoFile THEN disk ELSE [disk EXCEPT !.files[p] = NoFile]

\* The journal and, in the finally block, the staged file are removed.
Ends ==
    /\ disk' = [disk EXCEPT !.journal = NoJournal, !.files[Staging(op.n)] = NoFile]
    /\ op' = Idle

\* What recoverInterruptedRestore makes of a journal.
Finalizes == disk.journal # NoJournal /\ Opens
RollsBack ==
    /\ disk.journal # NoJournal /\ ~Opens
    /\ CanOpen(disk.journal.rollback, disk.key)
Refuses == disk.journal # NoJournal /\ ~Finalizes /\ ~RollsBack

\* restorePortableBackup of a backup made under key k, whose recovery material
\* has been unwrapped; replace stands for --replace-existing together with the
\* matching --confirm-workspace.
Begin(k, replace) ==
    /\ At("idle") /\ tally.restores < MaxRestores
    /\ op' = [Idle EXCEPT !.at = "verify", !.n = tally.restores + 1, !.key = k,
                          !.replace = replace]
    /\ tally' = [tally EXCEPT !.restores = @ + 1]
    /\ orderly' = (orderly /\ (disk.journal = NoJournal \/ Refuses))
    /\ UNCHANGED <<disk, owned, backups>>

\* Free space, container and manifest; then the journal of an earlier restore,
\* whose database the backup's key may already open.
Verify ==
    /\ At("verify")
    /\ IF disk.journal # NoJournal /\ CanOpen(Live, op.key)
       THEN Goto("finish-key") ELSE Goto("extract")
    /\ SameDisk /\ SameHistory

\* The keyring is given the backup's key; a secret file must already hold it.
SaveKey(stage, next) ==
    /\ At(stage)
    /\ IF disk.kind = "secret-file" /\ disk.key # op.key THEN Throws ELSE Goto(next)
    /\ disk' = [disk EXCEPT !.key = IF disk.kind = "secret-file" THEN @ ELSE op.key]
    /\ SameHistory

FinishFiles ==
    /\ At("finish-files") /\ Goto("finish-journal")
    /\ Remove(disk.journal.rollback) /\ SameHistory

Extract ==
    /\ At("extract") /\ Goto("guard")
    /\ disk' = [disk EXCEPT !.files[Staging(op.n)] = [from |-> op.n, key |-> op.key]]
    /\ SameHistory

\* An existing workspace is only replaced when asked for, and when the current
\* key opens it.
Guard ==
    /\ At("guard")
    /\ LET existing == Exists(Live)
       IN op' = [op EXCEPT !.existing = existing,
                     !.previous = IF existing /\ op.replace THEN disk.key ELSE NoKey,
                     !.at = IF existing /\ ~(op.replace /\ Opens) THEN "undo-aside"
                            ELSE IF existing THEN "safety" ELSE "journal"]
    /\ SameDisk /\ SameHistory

FaultySafety ==          \* fault: skips the pre_restore backup
    At("safety") /\ Goto("journal") /\ SameDisk /\ SameHistory

Safety ==
    /\ At("safety") /\ Goto("journal")
    /\ backups' = backups \cup {LiveFile}
    /\ UNCHANGED <<disk, owned, tally, orderly>>

FaultyWriteJournal ==    \* fault: no journal before the renames
    /\ At("journal") /\ Goto(IF op.existing THEN "displace" ELSE "install")
    /\ SameDisk /\ SameHistory

WriteJournal ==
    /\ At("journal") /\ Goto(IF op.existing THEN "displace" ELSE "install")
    /\ disk' = [disk EXCEPT !.journal =
                   [rollback |-> IF op.existing THEN Rollback(op.n) ELSE NoFile,
                    interrupted |-> Interrupted(op.n)]]
    /\ SameHistory

Displace ==
    At("displace") /\ Goto("install") /\ Move(Live, Rollback(op.n)) /\ SameHistory

Install ==
    At("install") /\ Goto("key") /\ Move(Staging(op.n), Live) /\ SameHistory

\* The restored database is opened with the provider's key and migrated.
Migrate ==
    /\ At("migrate")
    /\ IF Opens THEN Goto("clean") ELSE Throws
    /\ SameDisk /\ SameHistory

Clean ==
    At("clean") /\ Goto("commit") /\ Remove(Rollback(op.n)) /\ SameHistory

\* The last step, of a restore and of the finishing of an earlier one.
Commit ==
    /\ op.at \in {"commit", "finish-journal"}
    /\ Ends
    /\ owned' = LiveFile
    /\ UNCHANGED <<backups, tally, orderly>>

\* The catch block: rollbackRestore, whose own failures are swallowed, then the
\* removal of the journal.
UndoAside ==
    /\ At("undo-aside")
    /\ IF op.existing /\ Exists(Rollback(op.n))
       THEN Goto("undo-back") /\ IF Exists(Live) THEN Move(Live, Interrupted(op.n))
                                                 ELSE SameDisk
       ELSE Goto("undo-key") /\ SameDisk
    /\ SameHistory

UndoBack ==
    At("undo-back") /\ Goto("undo-key") /\ Move(Rollback(op.n), Live) /\ SameHistory

UndoKey ==
    /\ At("undo-key") /\ Goto("undo-journal")
    /\ disk' = [disk EXCEPT !.key = IF op.previous = NoKey \/ disk.kind = "secret-file"
                                    THEN @ ELSE op.previous]
    /\ SameHistory

UndoJournal == At("undo-journal") /\ Ends /\ SameHistory

-----------------------------------------------------------------------------
\* The server starts: recoverInterruptedRestore, then the database is opened.
\* When it refuses, or the key does not open the database, the process exits.
StartFinalizes ==
    /\ At("idle") /\ Finalizes /\ Goto("start-journal")
    /\ Remove(disk.journal.rollback)
    /\ owned' = LiveFile
    /\ UNCHANGED <<backups, tally, orderly>>

FaultyStartRollsBack ==  \* fault: only moves the interrupted database aside
    /\ At("idle") /\ RollsBack /\ Goto("start-journal")
    /\ IF Exists(Live) THEN Move(Live, disk.journal.interrupted) ELSE SameDisk
    /\ SameHistory

StartRollsBack ==
    /\ At("idle") /\ RollsBack /\ Goto("start-back")
    /\ IF Exists(Live) THEN Move(Live, disk.journal.interrupted) ELSE SameDisk
    /\ SameHistory

StartMovesBack ==
    /\ At("start-back") /\ Goto("start-journal")
    /\ Move(disk.journal.rollback, Live) /\ SameHistory

StartRemovesJournal ==
    /\ At("start-journal") /\ Goto("start-open")
    /\ disk' = [disk EXCEPT !.journal = NoJournal]
    /\ SameHistory

StartOpens ==
    /\ At("start-open") \/ (At("idle") /\ disk.journal = NoJournal)
    /\ Opens
    /\ owned' = LiveFile
    /\ op' = Idle
    /\ UNCHANGED <<disk, backups, tally, orderly>>

-----------------------------------------------------------------------------
\* A step fails: a full disk, a locked file, a keyring that does not answer, a
\* migration or an integrity check.  In the try block it throws (at "commit"
\* this also covers the rollback's -wal file failing after its main file is
\* gone); the steps of rollbackRestore drop the error and go on.
StepFails ==
    /\ tally.errors < MaxErrors
    /\ \/ op.at \in TryStage /\ Throws
       \/ At("undo-aside") /\ op.existing /\ Exists(Rollback(op.n)) /\ Goto("undo-back")
       \/ At("undo-back") /\ Goto("undo-key")
       \/ At("undo-key") /\ Goto("undo-journal")
    /\ tally' = [tally EXCEPT !.errors = @ + 1]
    /\ orderly' = (orderly /\ tally.crashes = 0 /\ op.at \in TryStage \ {"commit"})
    /\ UNCHANGED <<disk, owned, backups>>

\* The process dies: what it had in memory is gone.
Crash ==
    /\ ~At("idle") /\ tally.crashes < MaxCrashes
    /\ op' = Idle
    /\ tally' = [tally EXCEPT !.crashes = @ + 1]
    /\ orderly' = (orderly /\ tally.errors = 0)
    /\ UNCHANGED <<disk, owned, backups>>

Command ==
    \/ \E k \in Key, replace \in BOOLEAN : Begin(k, replace)
    \/ Verify \/ SaveKey("finish-key", "finish-files") \/ FinishFiles
    \/ Extract \/ Guard \/ Safety \/ WriteJournal \/ Displace \/ Install
    \/ SaveKey("key", "migrate") \/ Migrate \/ Clean \/ Commit
    \/ UndoAside \/ UndoBack \/ UndoKey \/ UndoJournal

ServerStart ==
    \/ StartFinalizes \/ StartRollsBack \/ StartMovesBack
    \/ StartRemovesJournal \/ StartOpens

Next == Command \/ ServerStart \/ StepFails \/ Crash

Spec == Init /\ [][Next]_vars

-----------------------------------------------------------------------------
\* The variables have the shapes the code gives them.
TypeOK ==
    /\ disk \in Disk
    /\ op \in Process
    /\ owned \in Database \cup {NoFile}
    /\ backups \subseteq Database
    /\ tally \in [restores : 0..MaxRestores, crashes : 0..MaxCrashes,
                  errors : 0..MaxErrors]
    /\ orderly \in BOOLEAN

\* The workspace that was in service stays within reach of the code: under its
\* own name, or under the name the journal will roll back to, unless a restored
\* one that opens has taken its place.
WorkspaceWithinReach ==
    orderly /\ owned # NoFile =>
        \/ LiveFile = owned
        \/ Opens
        \/ /\ disk.journal # NoJournal
           /\ Exists(disk.journal.rollback)
           /\ disk.files[disk.journal.rollback] = owned

\* A machine that had a workspace has one its server can open, whatever step a
\* restore crashed or failed at: the start finalizes the restore or rolls it
\* back, and is not refused.
StartsAfterAFault ==
    orderly /\ At("idle") /\ owned # NoFile =>
        IF disk.journal = NoJournal THEN Opens ELSE ~Refuses

\* The workspace in service is in none of the files any more only once a
\* pre_restore safety backup of it exists.
SafetyBackupFirst ==
    owned # NoFile =>
        (\E p \in Path : disk.files[p] = owned) \/ owned \in backups

\* recoverInterruptedRestore can only go back to what the journal names, so the
\* journal of an interrupted restore stays until the database in place opens.
JournalKeptUntilOpen ==
    [][owned # NoFile /\ disk.journal # NoJournal /\ disk'.journal = NoJournal
         => Opens]_vars
=============================================================================
