---------------------------- MODULE JobLifecycle ----------------------------
(***************************************************************************)
(* What the background job queue promises to the rest of the server,       *)
(* without leases, workers or clocks: a job is tried at most MaxAttempts   *)
(* times, it is either waiting, being worked on, or over, and once it is   *)
(* over nothing changes it again.  JobQueue implements this module.        *)
(***************************************************************************)
EXTENDS Naturals

CONSTANTS
    Job,            \* the identities jobs may get
    MaxAttempts     \* how often the handler of one job may be started

VARIABLES
    phase,          \* phase[j]: "absent", "queued", "running" or an outcome
    tries           \* tries[j]: how often j has been started

vars == <<phase, tries>>

Outcome == {"succeeded", "failed", "cancelled"}

Init ==
    /\ phase = [j \in Job |-> "absent"]
    /\ tries = [j \in Job |-> 0]

Submit(j) ==
    /\ phase[j] = "absent"
    /\ phase'[j] = "queued"
    /\ tries'[j] = 0

Start(j) ==
    /\ phase[j] = "queued"
    /\ tries[j] < MaxAttempts
    /\ phase'[j] = "running"
    /\ tries'[j] = tries[j] + 1

GiveBack(j) ==
    /\ phase[j] = "running"
    /\ tries[j] < MaxAttempts
    /\ phase'[j] = "queued"
    /\ tries'[j] = tries[j]

End(j) ==
    /\ \/ phase[j] = "running" /\ phase'[j] \in Outcome
       \/ phase[j] = "queued" /\ phase'[j] = "cancelled"
    /\ tries'[j] = tries[j]

Keep(j) == phase'[j] = phase[j] /\ tries'[j] = tries[j]

\* One database transaction may move several jobs (recovery of expired leases).
Next ==
    /\ phase' \in [Job -> {"absent", "queued", "running"} \cup Outcome]
    /\ tries' \in [Job -> 0..MaxAttempts]
    /\ \A j \in Job : Submit(j) \/ Start(j) \/ GiveBack(j) \/ End(j) \/ Keep(j)

Spec == Init /\ [][Next]_vars
=============================================================================
