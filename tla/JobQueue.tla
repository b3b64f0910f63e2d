------------------------------ MODULE JobQueue ------------------------------
(***************************************************************************)
(* The SQLite job table and the class JobQueue that owns it                *)
(* (packages/db/src/job-queue.ts).  Every method is one synchronous        *)
(* statement or transaction, hence one action; who calls it, and when, is  *)
(* left open here (JobWorker supplies the callers the server has).         *)
(*                                                                         *)
(* Times are relative: available_at is kept as the ticks left until a      *)
(* queued job may be claimed, lease_expires_at as the ticks left of a      *)
(* running job's lease, so that the table needs no absolute clock.         *)
(***************************************************************************)
EXTENDS Integers

CONSTANTS
    Job,             \* primary keys (random UUIDs in the code)
    JobType,         \* job_type values
    ExclusiveType,   \* the types whose callers use enqueueExclusive
    Key,             \* idempotency keys
    WorkerId,        \* lease owners
    NoWorker,        \* SQL NULL in lease_owner
    MaxAttempts,     \* max_attempts of the enqueued jobs
    LeaseDuration,   \* leaseDurationMs, in ticks
    MaxRetryDelay,   \* the longest retry delay, in ticks
    Horizon          \* waits longer than this many ticks are not told apart

ASSUME JobQueueAssumption ==
    /\ ExclusiveType \subseteq JobType
    /\ NoWorker \notin WorkerId
    /\ MaxAttempts \in Nat \ {0}
    /\ LeaseDuration \in Nat \ {0}
    /\ MaxRetryDelay \in Nat
    /\ Horizon \in Nat
    /\ JobType # {} /\ Key # {}

VARIABLE jobs        \* the table: jobs[j] is the row with primary key j

Active == {"queued", "running"}
Terminal == {"succeeded", "failed", "cancelled"}
Status == {"absent"} \cup Active \cup Terminal

Row == [status : Status, type : JobType, key : Key, attempts : 0..MaxAttempts,
        availableIn : -Horizon..MaxRetryDelay, owner : WorkerId \cup {NoWorker},
        leaseLeft : 0..LeaseDuration]

\* Inserting, and updating the columns that describe the work on a job.
NewRow(t, k, status) ==
    [status |-> status, type |-> t, key |-> k, attempts |-> 0,
     availableIn |-> 0, owner |-> NoWorker, leaseLeft |-> 0]

Updated(row, status, attempts, availableIn, owner, leaseLeft) ==
    [status |-> status, type |-> row.type, key |-> row.key, attempts |-> attempts,
     availableIn |-> availableIn, owner |-> owner, leaseLeft |-> leaseLeft]

NoRow == NewRow(CHOOSE t \in JobType : TRUE, CHOOSE k \in Key : TRUE, "absent")

IsActive(j) == jobs[j].status \in Active
IsTerminal(j) == jobs[j].status \in Terminal

\* isActiveLease, and the WHERE clause heartbeat, updateProgress, complete and
\* fail share: running, owned by w, lease_expires_at > now.
HoldsLease(j, w) ==
    /\ jobs[j].status = "running"
    /\ jobs[j].owner = w
    /\ jobs[j].leaseLeft > 0

LeaseExpired(j) == jobs[j].status = "running" /\ jobs[j].leaseLeft = 0

Requeued(row, delay) == Updated(row, "queued", row.attempts, delay, NoWorker, 0)

Finished(row, outcome) == Updated(row, outcome, row.attempts, 0, NoWorker, 0)

Claimed(row, w) == Updated(row, "running", row.attempts + 1, 0, w, LeaseDuration)

-----------------------------------------------------------------------------
QueueInit == jobs = [j \in Job |-> NoRow]

\* enqueue: the unique index on (workspace, type, key) turns a repeated request
\* into a read of the existing row, which changes nothing.
KeyTaken(t, k) ==
    \E j \in Job : jobs[j].status # "absent" /\ jobs[j].type = t /\ jobs[j].key = k

Enqueue(j, t, k) ==
    /\ jobs[j].status = "absent"
    /\ ~KeyTaken(t, k)
    /\ jobs' = [jobs EXCEPT ![j] = NewRow(t, k, "queued")]

\* enqueueExclusive: getActive finds a queued or running job of the type and
\* returns it; only without one is a row inserted.
NoneActive(t) == ~\E j \in Job : IsActive(j) /\ jobs[j].type = t

EnqueueExclusive(j, t, k) == NoneActive(t) /\ Enqueue(j, t, k)

\* recoverAbandoned: every running job whose lease has run out goes back to the
\* queue, or fails when its attempts are used up.
Recovered(row) ==
    IF row.attempts < MaxAttempts THEN Requeued(row, 0) ELSE Finished(row, "failed")

FaultyRecoverLive ==     \* fault: recovers live leases too
    jobs' = [j \in Job |->
               IF jobs[j].status = "running" THEN Recovered(jobs[j]) ELSE jobs[j]]

FaultyRecoverRetryOnly ==   \* fault: leaves exhausted jobs running
    jobs' = [j \in Job |->
               IF LeaseExpired(j) /\ jobs[j].attempts < MaxAttempts
               THEN Requeued(jobs[j], 0) ELSE jobs[j]]

RecoverAbandoned ==
    jobs' = [j \in Job |-> IF LeaseExpired(j) THEN Recovered(jobs[j]) ELSE jobs[j]]

\* claim: the claimable job with the earliest available_at.  Equal times are
\* ordered by created_at and the random id, here by free choice.
Claimable(j) ==
    /\ jobs[j].status = "queued"
    /\ jobs[j].availableIn <= 0
    /\ jobs[j].attempts < MaxAttempts

NextToClaim(j) ==
    /\ Claimable(j)
    /\ \A i \in Job : Claimable(i) => jobs[j].availableIn <= jobs[i].availableIn

Claim(j, w) ==
    /\ NextToClaim(j)
    /\ jobs' = [jobs EXCEPT ![j] = Claimed(@, w)]

Heartbeat(j, w) ==
    /\ HoldsLease(j, w)
    /\ jobs' = [jobs EXCEPT ![j].leaseLeft = LeaseDuration]

FaultyComplete(j, w) ==     \* fault: does not compare the owner
    /\ jobs[j].status = "running" /\ jobs[j].leaseLeft > 0
    /\ jobs' = [jobs EXCEPT ![j] = Finished(@, "succeeded")]

Complete(j, w) ==
    /\ HoldsLease(j, w)
    /\ jobs' = [jobs EXCEPT ![j] = Finished(@, "succeeded")]

\* The worker's retryDelayMs, doubling from one tick up to the cap.
RetryDelay(attempt) ==
    IF 2 ^ (attempt - 1) \in 0..MaxRetryDelay THEN 2 ^ (attempt - 1) ELSE MaxRetryDelay

Fail(j, w, retryable) ==
    /\ HoldsLease(j, w)
    /\ jobs' = [jobs EXCEPT ![j] =
                  IF retryable /\ @.attempts < MaxAttempts
                  THEN Requeued(@, RetryDelay(@.attempts))
                  ELSE Finished(@, "failed")]

FaultyCancel(j) ==          \* fault: cancels finished jobs too
    /\ jobs[j].status # "absent"
    /\ jobs' = [jobs EXCEPT ![j] = Finished(@, "cancelled")]

Cancel(j) ==
    /\ IsActive(j)
    /\ jobs' = [jobs EXCEPT ![j] = Finished(@, "cancelled")]

\* One tick of Date.now(), as the rows see it.
Later(row) ==
    CASE row.status = "queued" /\ row.availableIn > -Horizon ->
             [row EXCEPT !.availableIn = @ - 1]
      [] row.status = "running" /\ row.leaseLeft > 0 ->
             [row EXCEPT !.leaseLeft = @ - 1]
      [] OTHER -> row

TimePasses == jobs' = [j \in Job |-> Later(jobs[j])]

-----------------------------------------------------------------------------
\* The requests the API makes of the table.
Request ==
    \/ \E j \in Job, t \in JobType \ ExclusiveType, k \in Key : Enqueue(j, t, k)
    \/ \E j \in Job, t \in ExclusiveType, k \in Key : EnqueueExclusive(j, t, k)
    \/ \E j \in Job : Cancel(j)

QueueNext ==
    \/ Request
    \/ RecoverAbandoned
    \/ TimePasses
    \/ \E j \in Job, w \in WorkerId :
          \/ Claim(j, w)
          \/ Heartbeat(j, w)
          \/ Complete(j, w)
          \/ \E retryable \in BOOLEAN : Fail(j, w, retryable)

QueueSpec == QueueInit /\ [][QueueNext]_jobs

-----------------------------------------------------------------------------
\* The rows have the column types of the jobs table.
JobsTypeOK == jobs \in [Job -> Row]

\* A row has a lease exactly while it is running (the CHECK constraint of
\* the jobs table, which turns a violation into a failing statement).
LeaseIffRunning ==
    \A j \in Job : (jobs[j].status = "running") <=> (jobs[j].owner # NoWorker)

\* A job that waits in the queue still has an attempt left, and a running one
\* has used one: claim skips jobs with no attempt left, so such a job would
\* wait for ever.
QueuedHasAttemptLeft ==
    \A j \in Job :
        /\ jobs[j].status = "queued" => jobs[j].attempts < MaxAttempts
        /\ jobs[j].status = "running" => jobs[j].attempts > 0

\* Of a type that is only enqueued through enqueueExclusive, at most one job is
\* queued or running, whatever retries and recoveries happen in between.
OneActivePerExclusiveType ==
    \A i, j \in Job :
        /\ i # j /\ jobs[i].type = jobs[j].type
        /\ jobs[i].type \in ExclusiveType
        => ~(IsActive(i) /\ IsActive(j))

\* The inductive invariant: the row-by-row facts, and the one about pairs of rows.
RowInv == JobsTypeOK /\ LeaseIffRunning /\ QueuedHasAttemptLeft

QueueInv == RowInv /\ OneActivePerExclusiveType

\* A job that is over stays as it is: no late answer, heartbeat, cancellation or
\* repeated request changes its row.
TerminalIsFinal ==
    [][\A j \in Job : IsTerminal(j) => jobs'[j] = jobs[j]]_jobs

\* Each state of the table is a state of the abstract lifecycle.
Lifecycle == INSTANCE JobLifecycle WITH
                 phase <- [j \in Job |-> jobs[j].status],
                 tries <- [j \in Job |-> jobs[j].attempts]

ImplementsLifecycle == Lifecycle!Spec
=============================================================================
