\* Two workers whose event loops may stall past their lease, two jobs, under the
\* fairness of the polling loops.
CONSTANTS
    j1 = j1
    j2 = j2
    w1 = w1
    w2 = w2
    NoWorker = NoWorker
    NoJob = NoJob
    Job = {j1, j2}
    WorkerId = {w1, w2}
    JobType = {"ai", "removed"}
    ExclusiveType = {"ai"}
    HandledType = {"ai"}
    Key = {1, 2}
    MaxAttempts = 2
    LeaseDuration = 2
    HeartbeatInterval = 1
    MaxRetryDelay = 1
    Horizon = 0
SPECIFICATION LiveSpec
INVARIANT
    ServedHandlerKeepsJob
PROPERTIES
    ImplementsLifecycle
    OnlyCurrentAttemptSucceeds
    EveryJobSettles
