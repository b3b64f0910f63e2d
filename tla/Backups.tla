------------------------------ MODULE Backups ------------------------------
(***************************************************************************)
(* Portable backups: the daily scheduler, manual backups, retention and    *)
(* the backup an upgrade makes before it migrates                          *)
(* (apps/server/src/backups/backup-service.ts, backup-scheduler.ts and     *)
(* backup-routes.ts, SecurityService.create).                              *)
(*                                                                         *)
(* backup_records says which containers there are; the containers are      *)
(* files.  The two change in different steps, each of which may fail, and  *)
(* between which the process may crash.  A backup is its number in the     *)
(* order of creation.  The maintenance coordinator lets one backup run at  *)
(* a time; it is described in Maintenance.                                 *)
(***************************************************************************)
EXTENDS Integers, FiniteSets

CONSTANTS
    Daily, Weekly, Monthly,    \* BACKUP_RETENTION
    DaysPerWeek, DaysPerMonth, \* the calendar
    Slots,                     \* ticks of the clock in a day; the first ends at 02:00
    UtcAhead,                  \* ticks by which UTC is ahead of the workspace's timezone
    MaxTime,                   \* bound: the clock
    MaxManual,                 \* bound: manual backups
    MaxFaults,                 \* bound: failing steps and crashes
    MaxRelease                 \* bound: the newest release installed

ASSUME BackupsAssumption ==
    /\ {Daily, Weekly, Monthly, DaysPerWeek, DaysPerMonth, Slots, MaxRelease} \subseteq Nat \ {0}
    /\ {UtcAhead, MaxTime, MaxManual, MaxFaults} \subseteq Nat

VARIABLES
    now,       \* the clock
    boot,      \* how far the server start has come; "up" in service
    records,   \* backup_records: a function on the backups that have a row
    files,     \* backups whose container is under storagePath
    temps,     \* backups whose payload or validation files are there
    job,       \* the backup that holds the maintenance coordinator, or NoJob
    tick,      \* the scheduler: #running, and what retention has still to remove
    sending,   \* manual backups whose download is read, or removed but not yet noted
    release,   \* the installed release
    schema,    \* the release the database was last migrated by
    upgrades,  \* schemas with a container in safety-backups made before an upgrade
    past,      \* history: every valid scheduled backup since the rows were new
    strays,    \* history: files that a crash, a shutdown or a restore lost track of
    stuck,     \* history: backups whose files a failing step has left behind
    totals      \* manual backups, backups and faults so far

service == <<records, files, temps, job, tick, sending>>
install == <<release, schema, upgrades>>
backupsVars == <<now, boot, service, install, past, strays, stuck, totals>>

NoJob == [at |-> "none", kind |-> "none", id |-> 0]
IdleTick == [at |-> "idle", doomed |-> {}]
\* The scheduler and retention read created_at of scheduled backups only.
NewRow(kind) == [kind |-> kind, created |-> IF kind = "scheduled" THEN now ELSE 0,
                 validation |-> "pending", stored |-> TRUE]

LocalDate(t) == t \div Slots
UtcDay(t) == (t + UtcAhead) \div Slots
Week(t) == UtcDay(t) \div DaysPerWeek
Month(t) == UtcDay(t) \div DaysPerMonth

BackupsInit ==
    /\ now = 0 /\ boot = "up"
    /\ records = <<>> /\ files = {} /\ temps = {} /\ job = NoJob /\ tick = IdleTick /\ sending = {}
    /\ release = 1 /\ schema = 1 /\ upgrades = {}
    /\ past = <<>> /\ strays = {} /\ stuck = {}
    /\ totals = [manual |-> 0, made |-> 0, faults |-> 0]

-----------------------------------------------------------------------------
(* The retention rule over a function from backups to their creation.      *)

\* The newest backup of each group, in the newest n groups.
NewestPer(group, n) ==
    {b \in DOMAIN group :
        LET newer == {group[c] : c \in {d \in DOMAIN group : d > b}}
        IN group[b] \notin newer /\ Cardinality(newer) < n}

Age(t) == UtcDay(now) - UtcDay(t)

FaultyRetained(backups) ==  \* fault: a gap of one day between daily and weekly
    LET young == {b \in DOMAIN backups : Age(backups[b]) < Daily}
        old == {b \in DOMAIN backups : Age(backups[b]) > Daily}
    IN NewestPer([b \in young |-> UtcDay(backups[b])], Cardinality(young) + 1)
       \cup NewestPer([b \in old |-> Week(backups[b])], Weekly)
       \cup NewestPer([b \in DOMAIN backups |-> Month(backups[b])], Monthly)

Retained(backups) ==
    LET young == {b \in DOMAIN backups : Age(backups[b]) < Daily}
        old == {b \in DOMAIN backups : Age(backups[b]) >= Daily}
    IN NewestPer([b \in young |-> UtcDay(backups[b])], Cardinality(young) + 1)
       \cup NewestPer([b \in old |-> Week(backups[b])], Weekly)
       \cup NewestPer([b \in DOMAIN backups |-> Month(backups[b])], Monthly)

\* What applyRetention selects.
ValidScheduled ==
    LET kept == {b \in DOMAIN records : /\ records[b].kind = "scheduled"
                                        /\ records[b].validation = "valid"
                                        /\ records[b].stored}
    IN [b \in kept |-> records[b].created]

-----------------------------------------------------------------------------
(* The clock and the scheduler.                                            *)

FaultyLastScheduled ==  \* fault: a failed backup counts as today's
    {records[b].created : b \in {c \in DOMAIN records : records[c].kind = "scheduled"}}

LastScheduled ==
    {records[b].created : b \in {c \in DOMAIN records :
        records[c].kind = "scheduled" /\ records[c].validation = "valid"}}

FaultyDoneToday ==  \* fault: compares the UTC day of a backup with the local date
    \E t \in LastScheduled :
        UtcDay(t) = LocalDate(now) /\ \A u \in LastScheduled : u <= t

\* No scheduled backup is newer than one of today: latestScheduledAt is today's.
DoneToday == \E t \in LastScheduled :
    LocalDate(t) = LocalDate(now) /\ \A u \in LastScheduled : u <= t

Due == boot = "up" /\ tick.at = "idle" /\ now % Slots # 0 /\ ~DoneToday

\* A tick of the clock is hours, the interval a minute and a backup minutes: it
\* ends within the tick, or is overtaken by midnight before its row is made.
TimePasses ==
    /\ now < MaxTime /\ now' = now + 1
    /\ ~Due /\ sending = {}
    /\ \/ job = NoJob /\ tick = IdleTick
       \/ job.at = "locked" /\ job.kind = "scheduled" /\ LocalDate(now') # LocalDate(now)
    /\ UNCHANGED <<boot, service, install, past, strays, stuck, totals>>

\* The coordinator is free; otherwise the tick ends with an error.
Tick ==
    /\ Due /\ job = NoJob
    /\ tick' = [IdleTick EXCEPT !.at = "backing"]
    /\ job' = [at |-> "locked", kind |-> "scheduled", id |-> 0]
    /\ UNCHANGED <<now, boot, records, files, temps, sending, install, past, strays, stuck, totals>>

ManualBackup ==
    /\ boot = "up" /\ job = NoJob /\ totals.manual < MaxManual
    /\ job' = [at |-> "locked", kind |-> "manual", id |-> 0]
    /\ totals' = [totals EXCEPT !.manual = @ + 1]
    /\ UNCHANGED <<now, boot, records, files, temps, tick, sending, install, past, strays, stuck>>

-----------------------------------------------------------------------------
(* #createLocked.                                                          *)

InsertRecord ==
    /\ job.at = "locked"
    /\ LET b == totals.made + 1 IN
        /\ records' = [c \in DOMAIN records \cup {b} |->
                          IF c = b THEN NewRow(job.kind) ELSE records[c]]
        /\ job' = [job EXCEPT !.at = "writing", !.id = b]
        /\ totals' = [totals EXCEPT !.made = b]
    /\ UNCHANGED <<now, boot, files, temps, tick, sending, install, past, strays, stuck>>

\* The payload, a snapshot without sessions, jobs, caches and backup history.
TakeSnapshot ==
    /\ job.at = "writing"
    /\ temps' = temps \cup {job.id}
    /\ job' = [job EXCEPT !.at = "copied"]
    /\ UNCHANGED <<now, boot, records, files, tick, sending, install, past, strays, stuck, totals>>

\* The container gets its name when it is complete.
WriteContainer ==
    /\ job.at = "copied"
    /\ files' = files \cup {job.id}
    /\ job' = [job EXCEPT !.at = "validating"]
    /\ UNCHANGED <<now, boot, records, temps, tick, sending, install, past, strays, stuck, totals>>

\* The container is read back, extracted, opened and compared.
Validate ==
    /\ job.at = "validating" /\ job' = [job EXCEPT !.at = "validated"]
    /\ UNCHANGED <<now, boot, records, files, temps, tick, sending, install, past, strays, stuck, totals>>

Completed ==
    /\ job.at = "validated"
    /\ records' = [records EXCEPT ![job.id].validation = "valid"]
    /\ past' = IF job.kind # "scheduled" THEN past
               ELSE [b \in DOMAIN past \cup {job.id} |->
                        IF b = job.id THEN records[b].created ELSE past[b]]
    /\ job' = [job EXCEPT !.at = "cleaning"]
    /\ UNCHANGED <<now, boot, files, temps, tick, sending, install, strays, stuck, totals>>

Fault == totals.faults < MaxFaults /\ totals' = [totals EXCEPT !.faults = @ + 1]

\* The tick ends with the backup it was making.
EndedTick == IF job.kind = "scheduled" THEN IdleTick ELSE tick

\* No workspace, no directory or no space: there is no row yet.
BackupRefused ==
    /\ job.at = "locked" /\ Fault
    /\ job' = NoJob /\ tick' = EndedTick
    /\ UNCHANGED <<now, boot, records, files, temps, sending, install, past, strays, stuck>>

\* The catch block: the record, then the file; if the record cannot be written
\* the container stays.
BackupFails ==
    /\ job.at \in {"writing", "copied", "validating", "validated"} /\ Fault
    /\ \/ /\ records' = [records EXCEPT ![job.id].validation = "failed"]
          /\ job' = [job EXCEPT !.at = "failing"]
          /\ UNCHANGED stuck
       \/ /\ job' = [job EXCEPT !.at = "cleaning"]
          /\ stuck' = stuck \cup {job.id}
          /\ UNCHANGED records
    /\ UNCHANGED <<now, boot, files, temps, tick, sending, install, past, strays>>

FaultyRemoveFailed ==  \* fault: leaves the container
    /\ job.at = "failing" /\ job' = [job EXCEPT !.at = "cleaning"]
    /\ UNCHANGED <<now, boot, records, files, temps, tick, sending, install, past, strays, stuck, totals>>

RemoveFailed ==
    /\ job.at = "failing" /\ job' = [job EXCEPT !.at = "cleaning"]
    /\ files' = files \ {job.id}
    /\ UNCHANGED <<now, boot, records, temps, tick, sending, install, past, strays, stuck, totals>>

\* rm throws, as what made the backup fail may make it: the container stays, with a
\* row that says the backup failed.
RemovalFails ==
    /\ job.at = "failing" /\ job' = [job EXCEPT !.at = "cleaning"]
    /\ stuck' = stuck \cup {job.id}
    /\ UNCHANGED <<now, boot, records, files, temps, tick, sending, install, past, strays, totals>>

\* The finally block.  A valid scheduled backup goes on with retention, a valid
\* manual one with its download.
CleanUp ==
    /\ job.at = "cleaning" /\ job' = NoJob
    /\ temps' = temps \ {job.id}
    /\ LET valid == records[job.id].validation = "valid" IN
        /\ tick' = IF job.kind = "scheduled" /\ valid THEN [tick EXCEPT !.at = "selecting"]
                   ELSE EndedTick
        /\ sending' = IF job.kind = "manual" /\ valid THEN sending \cup {job.id} ELSE sending
    /\ UNCHANGED <<now, boot, records, files, install, past, strays, stuck, totals>>

\* rm throws in the finally block: create rejects, be the backup valid or not.
\* There is no retention this time, or no download.
CleanUpFails ==
    /\ job.at = "cleaning" /\ Fault
    /\ job' = NoJob /\ tick' = EndedTick
    /\ stuck' = stuck \cup {job.id}
    /\ UNCHANGED <<now, boot, records, files, temps, sending, install, past, strays>>

-----------------------------------------------------------------------------
(* applyRetention, newest first, and consumeManual: the file, then the row. *)

SelectDoomed ==
    /\ tick.at = "selecting"
    /\ tick' = [at |-> "pruning",
                doomed |-> DOMAIN ValidScheduled \ Retained(ValidScheduled)]
    /\ UNCHANGED <<now, boot, records, files, temps, job, sending, install, past, strays, stuck, totals>>

NextDoomed == CHOOSE b \in tick.doomed : \A c \in tick.doomed : c <= b

RemoveDoomed ==
    /\ tick.at = "pruning" /\ tick.doomed # {}
    /\ files' = files \ {NextDoomed}
    /\ tick' = [tick EXCEPT !.at = "removed"]
    /\ UNCHANGED <<now, boot, records, temps, job, sending, install, past, strays, stuck, totals>>

DeleteRecord ==
    /\ tick.at = "removed"
    /\ records' = [b \in DOMAIN records \ {NextDoomed} |-> records[b]]
    /\ tick' = [at |-> "pruning", doomed |-> tick.doomed \ {NextDoomed}]
    /\ UNCHANGED <<now, boot, files, temps, job, sending, install, past, strays, stuck, totals>>

TickEnds ==
    /\ tick.at = "pruning" /\ tick.doomed = {}
    /\ tick' = IdleTick
    /\ UNCHANGED <<now, boot, records, files, temps, job, sending, install, past, strays, stuck, totals>>

\* The file or the row cannot be removed: retention is over, and tries again after
\* the next scheduled backup.
RetentionFails ==
    /\ \/ tick.at = "pruning" /\ tick.doomed # {}
       \/ tick.at = "removed"
    /\ Fault
    /\ tick' = IdleTick
    /\ UNCHANGED <<now, boot, records, files, temps, job, sending, install, past, strays, stuck>>

\* The response has been read; consumeManual removes the file.
RemoveSent(b) ==
    /\ b \in sending /\ b \in files
    /\ files' = files \ {b}
    /\ UNCHANGED <<now, boot, records, temps, job, tick, sending, install, past, strays, stuck, totals>>

ForgetSent(b) ==
    /\ b \in sending /\ b \notin files
    /\ records' = [records EXCEPT ![b].stored = FALSE]
    /\ sending' = sending \ {b}
    /\ UNCHANGED <<now, boot, files, temps, job, tick, install, past, strays, stuck, totals>>

\* The container cannot be read or removed, or its row not be written: the request
\* fails, and nobody tries again.
SendingFails(b) ==
    /\ b \in sending /\ Fault
    /\ sending' = sending \ {b}
    /\ stuck' = stuck \cup {b}
    /\ UNCHANGED <<now, boot, records, files, temps, job, tick, install, past, strays>>

-----------------------------------------------------------------------------
(* Crashes, restores and server starts.                                    *)

\* A crash, or a shutdown, which closes the database under a running backup.
Halt ==
    /\ boot # "down" /\ Fault
    /\ boot' = "down"
    /\ job' = NoJob /\ tick' = IdleTick /\ sending' = {}
    /\ strays' = strays \cup ((sending \cup {job.id}) \cap (files \cup temps))
    /\ UNCHANGED <<now, records, files, temps, install, past, stuck>>

\* The restored database is a snapshot whose backup_records were scrubbed.
HistoryScrubbed ==
    /\ boot = "down" /\ records # <<>>
    /\ records' = <<>> /\ past' = <<>> /\ strays' = strays \cup files
    /\ UNCHANGED <<now, boot, files, temps, job, tick, sending, install, stuck, totals>>

Upgrade ==
    /\ boot = "down" /\ release < MaxRelease
    /\ release' = release + 1
    /\ UNCHANGED <<now, boot, service, schema, upgrades, past, strays, stuck, totals>>

\* SecurityService.create: with migrations pending, beforeMigrate comes first.
Start ==
    /\ boot = "down"
    /\ boot' = IF schema = release THEN "up" ELSE "opened"
    /\ UNCHANGED <<now, service, install, past, strays, stuck, totals>>

SaveBeforeMigration ==
    /\ boot = "opened" /\ boot' = "saved"
    /\ upgrades' = upgrades \cup {schema}
    /\ UNCHANGED <<now, service, release, schema, past, strays, stuck, totals>>

FaultyMigrate ==  \* fault: migrates without DATABASE_SAFETY_BACKUP_REQUIRED
    /\ boot \in {"opened", "saved"} /\ boot' = "migrated"
    /\ schema' = release
    /\ UNCHANGED <<now, service, release, upgrades, past, strays, stuck, totals>>

\* All pending migrations are one transaction.
MigrateSchema ==
    /\ boot = "saved" /\ boot' = "migrated"
    /\ schema' = release
    /\ UNCHANGED <<now, service, release, upgrades, past, strays, stuck, totals>>

\* A valid pre_upgrade row, release_state and the audit entry.
RecordUpgrade ==
    /\ boot = "migrated" /\ boot' = "up"
    /\ LET b == totals.made + 1
           row == [NewRow("pre_upgrade") EXCEPT !.validation = "valid"] IN
        /\ records' = [c \in DOMAIN records \cup {b} |-> IF c = b THEN row ELSE records[c]]
        /\ totals' = [totals EXCEPT !.made = b]
    /\ UNCHANGED <<now, files, temps, job, tick, sending, install, past, strays, stuck>>

-----------------------------------------------------------------------------
Creates == InsertRecord \/ TakeSnapshot \/ WriteContainer \/ Validate \/ Completed
           \/ RemoveFailed \/ CleanUp
Prunes == SelectDoomed \/ RemoveDoomed \/ DeleteRecord \/ TickEnds
Fails == BackupRefused \/ BackupFails \/ RemovalFails \/ CleanUpFails \/ RetentionFails
Boots == Start \/ SaveBeforeMigration \/ MigrateSchema \/ RecordUpgrade
Sends(b) == RemoveSent(b) \/ ForgetSent(b)

BackupsNext ==
    \/ TimePasses \/ Tick \/ ManualBackup \/ Halt \/ HistoryScrubbed \/ Upgrade
    \/ Creates \/ Prunes \/ Boots \/ Fails
    \/ \E b \in sending : Sends(b) \/ SendingFails(b)

\* The server is restarted, its interval goes on, and file operations end.
\* The clock, requests and faults need not go on.
Fairness == /\ WF_backupsVars(Tick) /\ WF_backupsVars(Creates) /\ WF_backupsVars(Prunes) /\ WF_backupsVars(Boots)
            /\ WF_backupsVars(\E b \in sending : Sends(b))

BackupsSpec == BackupsInit /\ [][BackupsNext]_backupsVars
BackupsLiveSpec == BackupsSpec /\ Fairness

-----------------------------------------------------------------------------
\* Retention forgets nothing that it would keep: what the rule selects of all
\* the scheduled backups ever made is still on disk with its row, whenever
\* retention ran, was cut short by a crash or skipped by failed backups.  The
\* rule is applied to what earlier applications have left
\* (backup-service.ts:270-287 and 414-455), so a backup on its way from the
\* daily to the weekly and the monthly class must not fall between them.  And
\* at most one scheduled backup of a local date becomes valid: the one the tick
\* asks for is the newest (backup-scheduler.ts:40-43), and one that is made over
\* midnight counts for the day it was created on.
ScheduledBackupsKept ==
    /\ \A b \in Retained(past) : b \in DOMAIN ValidScheduled /\ b \in files
    /\ \A b, c \in DOMAIN past : LocalDate(past[b]) = LocalDate(past[c]) => b = c

\* A container is there for a reason, and its row names it: it is a valid scheduled
\* backup, is being made, taken back, sent or removed, or a step that failed has left
\* it behind: the mark or the removal of a failed backup, the cleaning up, or the
\* reading, the removal or the note of one that is sent.  Payload and validation
\* files outlive their backup only where cleaning up failed.  Crashes and restores
\* leave others, for ever (backup-service.ts:188-231, 254-287, backup-routes.ts:28-31).
FilesAccountedFor ==
    /\ \A b \in files \ strays :
          /\ b \in DOMAIN records /\ records[b].stored
          /\ b \in DOMAIN ValidScheduled \cup sending \cup {job.id} \cup stuck
    /\ temps \subseteq strays \cup stuck \cup {job.id}

\* A database is migrated only when a container of the schema it leaves behind
\* is complete, whichever releases were skipped and wherever an earlier attempt
\* ended (security-service.ts:99-114).
WayBack == [][schema' # schema => schema \in upgrades]_backupsVars

\* While a day with no scheduled backup lasts, one is made after all, through
\* failures, crashes and manual backups (backup-scheduler.ts:31-49).
DueBackupIsMade ==
    \A d \in 0..LocalDate(MaxTime) :
        (LocalDate(now) = d /\ now % Slots # 0) ~>
            (LocalDate(now) # d \/ \E b \in DOMAIN past : LocalDate(past[b]) >= d)
=============================================================================
