----------------------------- MODULE JobWorker -----------------------------
(***************************************************************************)
(* The polling loops of class JobWorker (apps/server/src/jobs/             *)
(* job-worker.ts) over the job table of JobQueue, together with the API    *)
(* requests that enqueue and cancel jobs.                                  *)
(*                                                                         *)
(* A JavaScript segment between two awaits is one action, except that the  *)
(* transactions of one segment are separate actions where another process  *)
(* or a crash can come between their commits.  A process that dies, or     *)
(* loses its database handle, forgets its run and leaves its rows alone.   *)
(***************************************************************************)
EXTENDS JobQueue

CONSTANTS
    HandledType,        \* the job types a handler is registered for
    HeartbeatInterval,  \* ticks between two heartbeats of a running handler
    NoJob

ASSUME JobWorkerAssumption ==
    /\ HandledType \subseteq JobType
    /\ HeartbeatInterval \in Nat \ {0}
    /\ HeartbeatInterval < LeaseDuration
    /\ NoJob \notin Job

VARIABLE run            \* run[w]: what the loop of worker w is doing

vars == <<jobs, run>>

\* step     where #runOnceInternal stands; "lost" is a handler whose next
\*          checkpoint will throw JobLeaseLostError
\* job      the claimed row, attempt its attempts column as claim returned it
\* beatIn   ticks until the heartbeat interval fires, -1 once it is cleared
\* late     history: has the event loop stalled past a due timer, or a heartbeat
\*          of the interval thrown, in this run?
Run == [step : {"idle", "recovered", "claimed", "handling"},
        job : Job \cup {NoJob}, attempt : 0..MaxAttempts,
        beatIn : -1..HeartbeatInterval, late : BOOLEAN]

Idle == [step |-> "idle", job |-> NoJob, attempt |-> 0, beatIn |-> -1, late |-> FALSE]

Handling(w) == run[w].step = "handling"

\* The job w works on, and whether w still owns it.
OwnsItsJob(w) == HoldsLease(run[w].job, w)

Init == QueueInit /\ run = [w \in WorkerId |-> Idle]

\* runOnce begins by recovering the expired leases of every worker...
Recover(w) ==
    /\ run[w] = Idle
    /\ RecoverAbandoned
    /\ run' = [run EXCEPT ![w].step = "recovered"]

\* The run of a job, as claim returns its row.
Begun(j) == [step |-> "claimed", job |-> j, attempt |-> jobs[j].attempts + 1,
             beatIn |-> -1, late |-> FALSE]

\* ...and claims one job, if there is one.
ClaimNext(w) ==
    /\ run[w].step = "recovered"
    /\ \E j \in Job :
          /\ Claim(j, w)
          /\ run' = [run EXCEPT ![w] = Begun(j)]

NothingToClaim(w) ==
    /\ run[w].step = "recovered"
    /\ \A j \in Job : ~Claimable(j)
    /\ run' = [run EXCEPT ![w] = Idle]
    /\ UNCHANGED jobs

StartHandler(w) ==
    /\ run[w].step = "claimed"
    /\ jobs[run[w].job].type \in HandledType
    /\ run' = [run EXCEPT ![w] = [step |-> "handling", job |-> run[w].job,
                                  attempt |-> run[w].attempt, beatIn |-> HeartbeatInterval,
                                  late |-> run[w].late]]
    /\ UNCHANGED jobs

\* A queue method that finds the lease gone changes no row.
OrLost(w, Method) == Method \/ (~OwnsItsJob(w) /\ UNCHANGED jobs)

HandlerMissing(w) ==
    /\ run[w].step = "claimed"
    /\ jobs[run[w].job].type \notin HandledType
    /\ OrLost(w, Fail(run[w].job, w, FALSE))
    /\ run' = [run EXCEPT ![w] = Idle]

\* The interval renews the lease until a renewal is refused, or throws (a busy or
\* full database), then clears itself; the handler goes on.
HeartbeatTimer(w) ==
    /\ Handling(w)
    /\ run[w].beatIn = 0
    /\ \/ /\ Heartbeat(run[w].job, w)
          /\ run' = [run EXCEPT ![w].beatIn = HeartbeatInterval]
       \/ /\ ~OwnsItsJob(w)
          /\ run' = [run EXCEPT ![w].beatIn = -1]
          /\ UNCHANGED jobs
       \/ /\ run' = [run EXCEPT ![w].beatIn = -1, ![w].late = TRUE]
          /\ UNCHANGED jobs

\* assertActive and reportProgress throw JobLeaseLostError into a handler whose
\* lease is gone; the run then ends without touching the row.
CheckpointLost(w) ==
    /\ Handling(w)
    /\ ~OwnsItsJob(w)
    /\ run' = [run EXCEPT ![w] = Idle]
    /\ UNCHANGED jobs

\* context.heartbeat(): a handler may renew its lease itself.
HandlerHeartbeat(w) ==
    /\ Handling(w)
    /\ Heartbeat(run[w].job, w)
    /\ UNCHANGED run

HandlerReturns(w) ==
    /\ Handling(w)
    /\ OrLost(w, Complete(run[w].job, w))
    /\ run' = [run EXCEPT ![w] = Idle]

HandlerThrows(w) ==
    /\ Handling(w)
    /\ \E retryable \in BOOLEAN : OrLost(w, Fail(run[w].job, w, retryable))
    /\ run' = [run EXCEPT ![w] = Idle]

Die(w) ==
    /\ run[w] # Idle
    /\ run' = [run EXCEPT ![w] = Idle]
    /\ UNCHANGED jobs

\* An event loop that is not stalled runs a due timer, and ends a begun segment,
\* before the clock moves on.
Punctual(r) == r.beatIn # 0 /\ r.step \in {"idle", "handling"}

Aged(r) == [step |-> r.step, job |-> r.job, attempt |-> r.attempt,
            beatIn |-> IF r.beatIn > 0 THEN r.beatIn - 1 ELSE r.beatIn,
            late |-> r.late \/ (r.job # NoJob /\ ~Punctual(r))]

\* Time passes whether the event loops are served or not.
Tick == TimePasses /\ run' = [w \in WorkerId |-> Aged(run[w])]

Api == Request /\ UNCHANGED run

WorkerStep(w) ==
    \/ Recover(w)
    \/ ClaimNext(w)
    \/ NothingToClaim(w)
    \/ StartHandler(w)
    \/ HandlerMissing(w)
    \/ HeartbeatTimer(w)
    \/ CheckpointLost(w)
    \/ HandlerHeartbeat(w)
    \/ HandlerReturns(w)
    \/ HandlerThrows(w)
    \/ Die(w)

Next == Api \/ Tick \/ \E w \in WorkerId : WorkerStep(w)

Spec == Init /\ [][Next]_vars

(***************************************************************************)
(* The loops are rescheduled after every run (setTimeout), an open handler *)
(* ends in the end (every provider call has a timeout) and time passes.    *)
(* Requests, crashes and heartbeats are not fair.  Strong fairness of      *)
(* ClaimNext only excludes a process that dies again and again, each time  *)
(* between its recovery and its claim.                                     *)
(***************************************************************************)
Proceed(w) ==
    \/ Recover(w) \/ NothingToClaim(w) \/ StartHandler(w) \/ HandlerMissing(w)
    \/ HandlerReturns(w) \/ HandlerThrows(w) \/ CheckpointLost(w)

LiveSpec ==
    /\ Spec
    /\ WF_vars(Tick)
    /\ \A w \in WorkerId : WF_vars(Proceed(w)) /\ SF_vars(ClaimNext(w))

-----------------------------------------------------------------------------
TypeOK == JobsTypeOK /\ run \in [WorkerId -> Run]

\* While a worker holds the lease of the job it works on, the row still counts
\* the attempt this run was started as: nobody has claimed the job since.
LeaseFencesAttempt ==
    \A w \in WorkerId :
        run[w].job # NoJob /\ OwnsItsJob(w) => jobs[run[w].job].attempts = run[w].attempt

\* A run has a job exactly from the claim to its end.
RunHasJob ==
    \A w \in WorkerId : run[w].step \in {"claimed", "handling"} <=> run[w].job # NoJob

WorkerInv == QueueInv /\ TypeOK /\ RunHasJob /\ LeaseFencesAttempt

\* A job ends as succeeded only through the run of its latest attempt, while
\* that run's lease is alive: the late answer of a worker whose job was
\* recovered, reclaimed, cancelled or failed in the meantime is dropped.
OnlyCurrentAttemptSucceeds ==
    [][\A j \in Job :
          jobs[j].status # "succeeded" /\ jobs'[j].status = "succeeded" =>
              \E w \in WorkerId :
                  /\ run[w].step = "handling" /\ run[w].job = j
                  /\ run[w].attempt = jobs[j].attempts
                  /\ HoldsLease(j, w)]_vars

\* An expired lease stays expired: its job leaves the expired state only by
\* recovery or cancellation, never by a late heartbeat of the slow worker.
NoLeaseRevival ==
    [][\A j \in Job :
          LeaseExpired(j) /\ jobs'[j].status = "running" => LeaseExpired(j)']_vars

\* A handler whose own event loop serves the timers in time, and whose heartbeats
\* do not throw, keeps its job, however the others stall: only a cancellation takes
\* the job away, never a recovery.
ServedHandlerKeepsJob ==
    \A w \in WorkerId :
        Handling(w) /\ ~run[w].late =>
            OwnsItsJob(w) \/ jobs[run[w].job].status = "cancelled"

\* Every queued job is over some day, whatever crashes and stalls its workers
\* suffer: failed attempts, expired leases and retries do not starve it.
EveryJobSettles ==
    \A j \in Job : jobs[j].status = "queued" ~> IsTerminal(j)
=============================================================================
