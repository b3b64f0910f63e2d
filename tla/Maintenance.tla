---------------------------- MODULE Maintenance ----------------------------
(***************************************************************************)
(* MaintenanceCoordinator.run (apps/server/src/backups/                    *)
(* maintenance-coordinator.ts): a flag per process and a lock file keep    *)
(* backup, restore, rekey and upgrade apart, and the server's job worker   *)
(* is stopped and drained while one of them runs (the guard of index.ts,   *)
(* the start, stop and polling loop of job-worker.ts).                     *)
(*                                                                         *)
(* Opening, writing, reading and removing the lock file are separate       *)
(* awaits, so the calls of one process interleave between them like those  *)
(* of two processes do.  The file is the inode of the call that created    *)
(* it: a call keeps writing to its own even after another call removed it. *)
(***************************************************************************)
EXTENDS Naturals

CONSTANTS
    Call,               \* calls of run
    Process,            \* processes, each with a pid of its own
    Host,               \* Host[c] is the process call c is made in
    Server,             \* the process with the job worker
    NoLock              \* there is no lock file

ASSUME MaintenanceAssumption ==
    /\ Host \in [Call -> Process] /\ Server \in Process
    /\ NoLock \notin [by : Call, written : BOOLEAN]

VARIABLES
    at,        \* where each call is
    retry,     \* whether the call is in its second attempt at the file
    lock,      \* the lock file: who created it, and whether it has its record
    active,    \* #active of each process's coordinator
    alive,     \* the running processes
    started,   \* #started of the job worker
    timers,    \* its pending timers
    runs,      \* its runs in flight
    stopping,  \* shuttingDown of index.ts
    overlapped \* history: have two calls ever been between the check of the
               \* flag and the start of the task at the same time?

worker == <<started, timers, runs>>
maintenanceVars == <<at, retry, lock, active, alive, worker, stopping, overlapped>>

Acquiring == {"open", "write", "read", "unlink"}
Holding == {"draining", "task"}
Ended == {"done", "refused", "failed", "killed"}

Lock == [by : Call, written : BOOLEAN]

MaintenanceInit ==
    /\ at = [c \in Call |-> "new"]
    /\ retry = [c \in Call |-> FALSE]
    /\ lock = NoLock
    /\ active = [p \in Process |-> FALSE]
    /\ alive = Process
    /\ started = TRUE /\ timers = 1 /\ runs = 0
    /\ stopping = FALSE
    /\ overlapped = FALSE

-----------------------------------------------------------------------------
At(c, stage) == at[c] = stage /\ Host[c] \in alive
Goto(c, stage) == at' = [at EXCEPT ![c] = stage]
OnlyFlow == UNCHANGED <<active, alive, worker, stopping, overlapped>>

\* stop clears the one timer it knows of; start is a no-op when started.
Stop ==
    /\ started' = FALSE /\ timers' = IF timers = 0 THEN 0 ELSE timers - 1
    /\ UNCHANGED runs
Start ==
    /\ started' = TRUE /\ timers' = IF started THEN timers ELSE timers + 1
    /\ UNCHANGED runs

\* The check of #active at the head of run.
Enter(c) ==
    /\ At(c, "new")
    /\ Goto(c, IF active[Host[c]] THEN "refused" ELSE "open")
    /\ overlapped' = (overlapped \/ \E d \in Call, s \in Acquiring : At(d, s))
    /\ UNCHANGED <<retry, lock, active, alive, worker, stopping>>

\* open(lockPath, "wx") creates the file or fails with EEXIST.
Open(c) ==
    /\ At(c, "open")
    /\ IF lock = NoLock
       THEN lock' = [by |-> c, written |-> FALSE] /\ Goto(c, "write")
       ELSE Goto(c, "read") /\ UNCHANGED lock
    /\ UNCHANGED retry /\ OnlyFlow

\* The file of c, if it still has the lock's name, has the whole record or not.
Recorded(c) ==
    IF lock # NoLock /\ lock.by = c THEN [by |-> c, written |-> TRUE] ELSE lock

FaultyWrite(c) ==     \* fault: does not wait for the run in flight
    /\ At(c, "write")
    /\ lock' = Recorded(c)
    /\ active' = [active EXCEPT ![Host[c]] = TRUE]
    /\ IF Host[c] = Server THEN Stop ELSE UNCHANGED worker
    /\ Goto(c, "task")
    /\ UNCHANGED <<retry, alive, stopping, overlapped>>

\* The record is written and synced; the flag is set and the guards paused: the
\* worker is stopped, and the call waits for the run in flight, if there is one.
Write(c) ==
    /\ At(c, "write")
    /\ lock' = Recorded(c)
    /\ active' = [active EXCEPT ![Host[c]] = TRUE]
    /\ IF Host[c] = Server THEN Stop ELSE UNCHANGED worker
    /\ Goto(c, IF Host[c] = Server /\ runs > 0 THEN "draining" ELSE "task")
    /\ UNCHANGED <<retry, alive, stopping, overlapped>>

\* The record cannot be written, or not be synced: the error leaves run, and the
\* file stays.
WriteFails(c) ==
    /\ At(c, "write") /\ Goto(c, "failed")
    /\ lock' \in {lock, Recorded(c)}
    /\ UNCHANGED retry /\ OnlyFlow

FaultyReadStale(c) == \* fault: takes the file of a living process for stale
    /\ At(c, "read")
    /\ Goto(c, IF lock # NoLock /\ lock.written /\ Host[lock.by] \notin alive
               THEN "refused" ELSE "unlink")
    /\ UNCHANGED <<retry, lock>> /\ OnlyFlow

\* readLock: a file that is gone or has no record yet has no holder.
Read(c) ==
    /\ At(c, "read")
    /\ Goto(c, IF lock # NoLock /\ lock.written /\ Host[lock.by] \in alive
               THEN "refused" ELSE "unlink")
    /\ UNCHANGED <<retry, lock>> /\ OnlyFlow

\* rm(lockPath, force), whatever file has that name by now.
Unlink(c) ==
    /\ At(c, "unlink")
    /\ lock' = NoLock
    /\ Goto(c, IF retry[c] THEN "refused" ELSE "open")
    /\ retry' = [retry EXCEPT ![c] = TRUE]
    /\ OnlyFlow

FaultyTaskEnds(c, ok) ==   \* fault: cleans up after a successful task only
    /\ At(c, "task")
    /\ active' = [active EXCEPT ![Host[c]] = ~ok]
    /\ IF ok /\ Host[c] = Server /\ ~stopping THEN Start ELSE UNCHANGED worker
    /\ Goto(c, IF ok THEN "release" ELSE "done")
    /\ UNCHANGED <<retry, lock, alive, stopping, overlapped>>

\* The task returns or throws: the finally block clears the flag and resumes the
\* guards, then removes the lock file.
TaskEnds(c, ok) ==
    /\ At(c, "task")
    /\ active' = [active EXCEPT ![Host[c]] = FALSE]
    /\ IF Host[c] = Server /\ ~stopping THEN Start ELSE UNCHANGED worker
    /\ Goto(c, "release")
    /\ UNCHANGED <<retry, lock, alive, stopping, overlapped>>

Release(c) ==
    /\ At(c, "release")
    /\ \/ lock' = NoLock /\ Goto(c, "done")
       \/ UNCHANGED lock /\ Goto(c, "failed")
    /\ UNCHANGED retry /\ OnlyFlow

Step(c) ==
    \/ Enter(c) \/ Open(c) \/ Write(c) \/ WriteFails(c) \/ Read(c) \/ Unlink(c)
    \/ \E ok \in BOOLEAN : TaskEnds(c, ok)
    \/ Release(c)

-----------------------------------------------------------------------------
\* The worker's loop: a timer fires and a run starts; when the run ends the next
\* timer is set unless the worker was stopped, and who waited for it goes on.
RunStarts ==
    /\ Server \in alive /\ timers > 0
    /\ timers' = timers - 1 /\ runs' = runs + 1
    /\ UNCHANGED <<started, at, retry, lock, active, alive, stopping, overlapped>>

RunEnds ==
    /\ Server \in alive /\ runs > 0
    /\ runs' = runs - 1 /\ timers' = IF started THEN timers + 1 ELSE timers
    /\ at' = [c \in Call |-> IF at[c] = "draining" THEN "task" ELSE at[c]]
    /\ UNCHANGED <<started, retry, lock, active, alive, stopping, overlapped>>

\* SIGTERM: the worker is stopped for good.
Shutdown ==
    /\ Server \in alive /\ ~stopping
    /\ stopping' = TRUE
    /\ Stop
    /\ UNCHANGED <<at, retry, lock, active, alive, overlapped>>

\* A process dies with the calls in it; its lock file stays.
ProcessDies(p) ==
    /\ p \in alive
    /\ alive' = alive \ {p}
    /\ at' = [c \in Call |-> IF Host[c] = p /\ at[c] \notin Ended THEN "killed" ELSE at[c]]
    /\ UNCHANGED <<retry, lock, active, worker, stopping, overlapped>>

MaintenanceNext ==
    \/ \E c \in Call : Step(c)
    \/ RunStarts \/ RunEnds \/ Shutdown
    \/ \E p \in Process : ProcessDies(p)

MaintenanceSpec == MaintenanceInit /\ [][MaintenanceNext]_maintenanceVars

\* File operations, tasks and runs end; a call need not be made.
MaintenanceLiveSpec ==
    /\ MaintenanceSpec
    /\ \A c \in Call : WF_maintenanceVars(Step(c) /\ at[c] # "new")
    /\ WF_maintenanceVars(RunEnds)

-----------------------------------------------------------------------------
\* The variables have the shapes the code gives them.  The coordinator's flag
\* is only set while a call of its process has the file lock.
MaintenanceTypeOK ==
    /\ at \in [Call -> {"new", "release"} \cup Acquiring \cup Holding \cup Ended]
    /\ retry \in [Call -> BOOLEAN]
    /\ lock \in Lock \cup {NoLock}
    /\ active \in [Process -> BOOLEAN]
    /\ alive \subseteq Process
    /\ started \in BOOLEAN /\ timers \in Nat /\ runs \in Nat
    /\ stopping \in BOOLEAN
    /\ overlapped \in BOOLEAN

\* "Another SpendLens maintenance operation is already running": no two tasks
\* run at the same time.
MutualExclusion ==
    \A c, d \in Call : c # d => ~(at[c] = "task" /\ at[d] = "task")

\* No two tasks run at the same time as long as no two calls take the lock at the
\* same time, whichever calls, in whichever process, failed or died before.
SerialMutualExclusion == ~overlapped => MutualExclusion

\* While the task of a server call runs no job does, and no timer is pending that
\* would start one.  (Of two overlapping calls the first to end resumes the
\* worker under the task of the other.)
WorkerPaused ==
    \A c \in Call : ~overlapped /\ At(c, "task") /\ Host[c] = Server =>
        runs = 0 /\ timers = 0

\* The calls on whose account a lock file may name a living process: those that
\* are still to remove it, and those whose file operations failed.
MayHold(c) == Host[c] \in alive /\ at[c] \in Holding \cup {"release", "failed"}

\* A lock file with the pid of a living process belongs to a call that is still
\* to remove it, or failed to: otherwise every later operation would be refused.
NoOrphanLock ==
    lock # NoLock /\ lock.written /\ Host[lock.by] \in alive => MayHold(lock.by)

\* The worker is stopped for one operation and comes back after it, however the
\* task ended and whichever calls came in between.
WorkerResumes ==
    ~started ~> started \/ stopping \/ Server \notin alive
=============================================================================
