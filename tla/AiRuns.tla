------------------------------- MODULE AiRuns -------------------------------
(***************************************************************************)
(* Classification by an AI provider (apps/server/src/ai/*, packages/db/    *)
(* src/ai-provider-store.ts, the AI part of classification-review.ts): the *)
(* provider's settings and its key in the operating system's keyring, the  *)
(* handler of a classification job, the suggestions it stores and what the *)
(* review shows of them.                                                   *)
(*                                                                         *)
(* The job is a job of JobLifecycle, the promise that JobWorker is proved  *)
(* to keep; there is one worker, and one AI job at a time.  The handler    *)
(* awaits nothing but the provider's answers: from one request to the next *)
(* is one action.  Storing the answers and completing the job follow each  *)
(* other without an await, so that only the clock (the lease runs out) or  *)
(* a crash comes between them.  A change of a transaction is a new version *)
(* of it (updated_at).                                                     *)
(***************************************************************************)
EXTENDS Naturals, Sequences, FiniteSets

CONSTANTS
    Job, MaxAttempts,
    Transaction,
    Local, Remote,      \* endpoints on this machine, and others
    Secret,             \* API keys
    Form,               \* the settings the user may ask for: endpoint, enabled
    Selection,          \* the sets of transactions the user may select for a job
    MaxChanges,         \* bound: changes of transactions and of the provider
    MaxSaves,           \* bound: changes of the provider
    MaxRuns,            \* bound: recorded runs
    MaxFaults,          \* bound: crashes, lapses of the lease, keyring failures
    None

Endpoint == Local \cup Remote

Setting == [endpoint : Endpoint, enabled : BOOLEAN, has : BOOLEAN]

\* What the handler and the review see of a transaction: when it changed last,
\* which change classified it, its text, and whether it is decided on.
Row == [version : Nat, class : Nat, text : Nat, resolved : BOOLEAN]

\* A handler between two awaits, with what it has read at its start.
Attempt ==
    [job : Job, id : Nat, step : {"asking", "stored"}, asking : Transaction,
     full : BOOLEAN, endpoint : Endpoint, key : Secret \cup {None},
     todo : SUBSET Transaction, found : SUBSET Transaction,
     read : UNION {[ts -> Row] : ts \in SUBSET Transaction}]

ASSUME AiAssumption ==
    /\ Local \cap Remote = {}
    /\ Selection \subseteq (SUBSET Transaction) \ {{}}
    /\ Form \subseteq [endpoint : Endpoint, enabled : BOOLEAN]
    /\ None \notin Job \cup Transaction \cup Endpoint \cup Secret
    /\ None \notin Nat /\ None \notin Setting /\ None \notin Row /\ None \notin Attempt
    /\ MaxAttempts \in Nat \ {0}

VARIABLES
    provider,   \* the row of ai_provider_settings, or None
    keyring,    \* the entry of that setting in the keyring, or None
    phase, tries, picked,   \* jobs: status, attempts, and the payload's transactions
    held,       \* is the lease of the running job still valid?
    run,        \* the open handler, or None
    runs,       \* ai_classification_runs, oldest first
    suggestions,    \* ai_classification_suggestions
    txn,        \* transactions, None once deleted
    decision,   \* the latest review decision that is not undone, or None
    changes, saves, faults,
    agreed,     \* history: the endpoints with the keys the user saved for them
    torn,       \* history: did the keyring fail in an accepted change of settings?
    killed,     \* history: the runs whose handler died
    lapsed,     \* history: the runs whose lease ran out while they were stored
    annotated   \* history: the suggestions re-dated after an edit of the text

jobVars == <<phase, tries, picked, held>>
runVars == <<run, runs, suggestions, killed, lapsed>>
providerVars == <<provider, keyring, saves, agreed, torn>>
txnVars == <<txn, decision, changes, annotated>>
vars == <<jobVars, runVars, providerVars, txnVars, faults>>

Jobs == INSTANCE JobLifecycle

\* The process is in the segment that stores the answers and completes the job.
Storing == run # None /\ run.step = "stored"

Fault == faults < MaxFaults /\ faults' = faults + 1

\* A model is local if its endpoint is, and is then sent everything
\* (AiProviderInputSchema).
IsLocal(row) == row.endpoint \in Local

Saved(form, has) == [endpoint |-> form.endpoint, enabled |-> form.enabled, has |-> has]

Allowed(form, has) == form.enabled /\ ~IsLocal(form) => has

Init ==
    /\ provider = None /\ keyring = None /\ agreed = {}
    /\ phase = [j \in Job |-> "absent"] /\ tries = [j \in Job |-> 0]
    /\ picked = [j \in Job |-> {}] /\ held = FALSE
    /\ run = None /\ runs = <<>> /\ suggestions = {}
    /\ txn = [t \in Transaction |-> [version |-> 0, class |-> 0, text |-> 0, resolved |-> FALSE]]
    /\ decision = None
    /\ changes = 0 /\ saves = 0 /\ faults = 0
    /\ torn = FALSE /\ killed = {} /\ lapsed = {} /\ annotated = {}

-----------------------------------------------------------------------------
(* The settings of the provider.                                               *)
Active(j) == phase[j] \in {"queued", "running"}

\* Bound: settings are saved while there is a job to use them, or for the first one.
Save ==
    /\ ~Storing
    /\ provider = None \/ \E j \in Job : Active(j)
    /\ saves < MaxSaves /\ changes + saves < MaxChanges
    /\ saves' = saves + 1

Agree(form, key) == agreed' = agreed \cup {<<form.endpoint, key>>}

\* create: the row, then the key; a key that cannot be saved takes the row back.
CreateProvider(form, key) ==
    /\ Save
    /\ provider = None
    /\ Allowed(form, key # None)
    /\ \/ /\ provider' = Saved(form, key # None)
          /\ keyring' = key
          /\ Agree(form, key)
          /\ UNCHANGED faults
       \/ key # None /\ Fault /\ UNCHANGED <<provider, keyring, agreed>>
    /\ UNCHANGED <<torn, jobVars, runVars, txnVars>>

\* update: the row first, then the key is removed or replaced.  If that fails the
\* row stays changed.  key is the replacement, "keep" or "clear".
UpdateProvider(form, key) ==
    /\ Save
    /\ provider # None
    /\ LET has == CASE key = "keep" -> provider.has [] key = "clear" -> FALSE [] OTHER -> TRUE
           touches == key \in Secret \/ (key = "clear" /\ provider.has)
           next == CASE key = "keep" -> keyring [] key = "clear" -> None [] OTHER -> key
       IN /\ Allowed(form, has)
          /\ \/ /\ provider' = Saved(form, has)
                /\ keyring' = next
                /\ Agree(form, next)
                /\ UNCHANGED <<torn, faults>>
             \/ /\ touches /\ Fault
                /\ provider' = Saved(form, provider.has)
                /\ torn' = TRUE
                /\ UNCHANGED <<keyring, agreed>>
    /\ UNCHANGED <<jobVars, runVars, txnVars>>

\* delete: the key first, then the row.
DeleteProvider ==
    /\ Save
    /\ provider # None
    /\ \/ provider' = None /\ keyring' = None /\ UNCHANGED faults
       \/ provider.has /\ Fault /\ UNCHANGED <<provider, keyring>>
    /\ UNCHANGED <<agreed, torn, jobVars, runVars, txnVars>>

\* credential
Credential == IF provider.has THEN keyring ELSE None

-----------------------------------------------------------------------------
(* Transactions and their review.                                              *)
Touched(row) == [row EXCEPT !.version = @ + 1]

\* Bound: transactions change while there is a job or a suggestion about one.
Change(t) ==
    /\ ~Storing
    /\ suggestions # {} \/ \E j \in Job : Active(j)
    /\ txn[t] # None
    /\ changes + saves < MaxChanges
    /\ changes' = changes + 1

\* An edit of the note: in the payload, but not among the classified columns.
Annotate(t) ==
    /\ Change(t)
    /\ txn' = [txn EXCEPT ![t] = [Touched(@) EXCEPT !.text = txn[t].text + 1]]
    /\ UNCHANGED <<decision, annotated, jobVars, runVars, providerVars, faults>>

\* A new classification by a rule; one by the user is a decision never undone.
Reclassify(t) ==
    /\ Change(t)
    /\ ~txn[t].resolved
    /\ txn' = [txn EXCEPT ![t] = [Touched(@) EXCEPT !.class = txn[t].version + 1]]
    /\ UNCHANGED <<decision, annotated, jobVars, runVars, providerVars, faults>>

\* The suggestions about t as it is now, and the one that the review shows.
Current(t) == {s \in suggestions : s.of = t /\ s.version = txn[t].version}
Shown(t) == CHOOSE s \in Current(t) : \A r \in Current(t) : r.run <= s.run

\* applyDecision on t, with its snapshot.
Decide(t) ==
    /\ Change(t)
    /\ ~txn[t].resolved
    /\ decision' = [of |-> t, class |-> txn[t].class, text |-> txn[t].text,
                    suggestion |-> IF Current(t) = {} THEN None ELSE Shown(t).run]
    /\ txn' = [txn EXCEPT ![t] = [Touched(@) EXCEPT !.class = txn[t].version + 1, !.resolved = TRUE]]
    /\ UNCHANGED <<annotated, jobVars, runVars, providerVars, faults>>

\* #restoreSnapshot makes the suggestion it was decided on current again.
Redated(t) ==
    {IF s.of = t /\ s.run = decision.suggestion THEN [s EXCEPT !.version = txn[t].version + 1] ELSE s :
        s \in suggestions}

\* undoDecision
Undo ==
    /\ decision # None
    /\ LET t == decision.of IN
       /\ Change(t)
       /\ txn' = [txn EXCEPT ![t] = [Touched(@) EXCEPT !.class = decision.class, !.resolved = FALSE]]
       /\ suggestions' = Redated(t)
       /\ annotated' = IF txn[t].text = decision.text THEN annotated
                       ELSE annotated \cup {<<t, decision.suggestion>>}
    /\ decision' = None
    /\ UNCHANGED <<run, runs, killed, lapsed, jobVars, providerVars, faults>>

\* The import of t is deleted, and the suggestions about t with it.
Delete(t) ==
    /\ Change(t)
    /\ txn' = [txn EXCEPT ![t] = None]
    /\ suggestions' = {s \in suggestions : s.of # t}
    /\ decision' = IF decision # None /\ decision.of = t THEN None ELSE decision
    /\ UNCHANGED <<annotated, run, runs, killed, lapsed, jobVars, providerVars, faults>>

-----------------------------------------------------------------------------
(* The job.                                                                    *)
\* POST /api/ai/classification-jobs, with enqueueExclusive.
Enqueue(j, ts) ==
    /\ ~Storing
    /\ provider # None /\ provider.enabled
    /\ \A i \in Job : ~Active(i)
    /\ phase' = [phase EXCEPT ![j] = "queued"]
    /\ tries' = tries
    /\ Jobs!Submit(j)
    /\ picked' = [picked EXCEPT ![j] = ts]
    /\ UNCHANGED <<held, runVars, providerVars, txnVars, faults>>

\* POST /api/jobs/{id}/cancel
Cancel(j) ==
    /\ ~Storing
    /\ Active(j)
    /\ phase' = [phase EXCEPT ![j] = "cancelled"]
    /\ tries' = tries
    /\ Jobs!End(j)
    /\ held' = FALSE
    /\ UNCHANGED <<picked, runVars, providerVars, txnVars, faults>>

\* An attempt that failed or was lost: the job is tried again or is over.
GiveUp(j, retryable) ==
    /\ phase' = [phase EXCEPT ![j] = IF retryable /\ tries[j] < MaxAttempts THEN "queued"
                                                                          ELSE "failed"]
    /\ tries' = tries
    /\ Jobs!GiveBack(j) \/ Jobs!End(j)
    /\ held' = FALSE
    /\ UNCHANGED picked

\* recoverAbandoned, once the handler in flight has ended.
Recover(j) ==
    /\ run = None
    /\ phase[j] = "running" /\ ~held
    /\ GiveUp(j, TRUE)
    /\ UNCHANGED <<runVars, providerVars, txnVars, faults>>

\* The lease expires: the event loop stalls, or the clock jumps.
LeaseLapses ==
    /\ held
    /\ Fault
    /\ held' = FALSE
    /\ lapsed' = IF Storing THEN lapsed \cup {run.id} ELSE lapsed
    /\ UNCHANGED <<phase, tries, picked, run, runs, suggestions, killed, providerVars, txnVars>>

\* The process dies; a new one cannot renew the lease of the old one.
Crash ==
    /\ run # None
    /\ Fault
    /\ run' = None
    /\ killed' = killed \cup {run.id}
    /\ held' = FALSE
    /\ UNCHANGED <<phase, tries, picked, runs, suggestions, lapsed, providerVars, txnVars>>

-----------------------------------------------------------------------------
(* The handler: runClassificationJob.                                          *)
Selected(j) == {t \in picked[j] : txn[t] # None /\ ~txn[t].resolved}

\* #requiredSetting, #credential, #selectedTransactions: why an attempt fails
\* before its run is recorded, for good.
Refused(j) ==
    \/ provider = None
    \/ provider # None /\ ~provider.enabled
    \/ provider # None /\ ~IsLocal(provider) /\ Credential = None
    \/ \E t \in picked[j] : txn[t] = None
    \/ Selected(j) = {}

Claim(j) ==
    /\ run = None
    /\ phase[j] = "queued"

StartRefused(j) ==
    /\ Claim(j)
    /\ Refused(j)
    /\ phase' = [phase EXCEPT ![j] = "failed"]
    /\ tries' = [tries EXCEPT ![j] = @ + 1]
    /\ UNCHANGED <<picked, held, runVars, providerVars, txnVars, faults>>

\* The keyring does not answer: AI_PROVIDER_CREDENTIAL_UNAVAILABLE is retried.
StartUnavailable(j) ==
    /\ Claim(j)
    /\ provider # None /\ provider.enabled /\ provider.has
    /\ Fault
    /\ tries' = [tries EXCEPT ![j] = @ + 1]
    /\ phase' = [phase EXCEPT ![j] = IF tries'[j] < MaxAttempts THEN "queued" ELSE "failed"]
    /\ UNCHANGED <<picked, held, runVars, providerVars, txnVars>>

\* The settings, the key, the payloads and the versions are read once, the run is
\* recorded, and the first transaction is sent.
Start(j) ==
    /\ Claim(j)
    /\ Len(runs) < MaxRuns
    /\ ~Refused(j)
    /\ phase' = [phase EXCEPT ![j] = "running"]
    /\ tries' = [tries EXCEPT ![j] = @ + 1]
    /\ Jobs!Start(j)
    /\ held' = TRUE
    /\ runs' = Append(runs, [job |-> j, status |-> "running"])
    /\ \E t \in Selected(j) :
           run' = [job |-> j, id |-> Len(runs) + 1, step |-> "asking", asking |-> t,
                   full |-> IsLocal(provider), endpoint |-> provider.endpoint,
                   key |-> Credential,
                   todo |-> Selected(j) \ {t}, read |-> [u \in Selected(j) |-> txn[u]],
                   found |-> {}]
    /\ UNCHANGED <<picked, suggestions, killed, lapsed, providerVars, txnVars, faults>>

\* assertActive
StillActive == held /\ phase[run.job] = "running"

Asking == run # None /\ run.step = "asking"

FaultyRequest(r, t) ==
    [r EXCEPT !.asking = t, !.todo = @ \ {t},
              !.endpoint = IF provider = None THEN @ ELSE provider.endpoint]

\* The request of the next transaction: everything but the transaction is what
\* Start read.
Request(r, t) == [r EXCEPT !.asking = t, !.todo = @ \ {t}]

Ended(status) == [runs EXCEPT ![run.id].status = status]

FaultySuggested(found) ==
    {[run |-> run.id, of |-> t, version |-> txn[t].version,
      class |-> run.read[t].class, text |-> run.read[t].text] : t \in found}

Suggested(found) ==
    {[run |-> run.id, of |-> t, version |-> run.read[t].version,
      class |-> run.read[t].class, text |-> run.read[t].text] : t \in found}

\* #resolveSuggestion: an answer names a category of the workspace, or is skipped.
Found(known) == IF known THEN run.found \cup {run.asking} ELSE run.found

\* After an answer comes the next transaction; after the last one the answers are
\* stored (#persistResults).
Answer(known) ==
    /\ Asking
    /\ StillActive
    /\ LET found == Found(known) IN
       \/ /\ run.todo # {}
          /\ \E t \in run.todo : run' = Request([run EXCEPT !.found = found], t)
          /\ UNCHANGED <<runs, suggestions>>
       \/ /\ run.todo = {}
          /\ \A t \in found : txn[t] # None
          /\ suggestions' = suggestions \cup Suggested(found)
          /\ runs' = Ended("succeeded")
          /\ run' = [run EXCEPT !.step = "stored", !.found = found]
    /\ UNCHANGED <<killed, lapsed, jobVars, providerVars, txnVars, faults>>

\* The lease is gone when the answer comes.
AnswerLost ==
    /\ Asking
    /\ ~StillActive
    /\ runs' = Ended("cancelled")
    /\ run' = None
    /\ UNCHANGED <<suggestions, killed, lapsed, jobVars, providerVars, txnVars, faults>>

\* The catch block, and the worker's.  queue.fail ignores a worker without a lease.
Throw(retryable) ==
    /\ runs' = Ended("failed")
    /\ run' = None
    /\ IF StillActive THEN GiveUp(run.job, retryable) ELSE UNCHANGED jobVars
    /\ UNCHANGED <<suggestions, killed, lapsed, providerVars, txnVars, faults>>

\* The provider fails after its retries, or its answer is malformed.
ProviderFails(retryable) ==
    /\ Asking
    /\ Throw(retryable)

FaultyStoreFails ==
    /\ Asking
    /\ StillActive
    /\ run.todo = {}
    /\ \E t \in run.found \cup {run.asking} : txn[t] = None
    /\ suggestions' = suggestions \cup Suggested({t \in run.found : txn[t] # None})
    /\ runs' = Ended("failed")
    /\ run' = None
    /\ GiveUp(run.job, TRUE)
    /\ UNCHANGED <<killed, lapsed, providerVars, txnVars, faults>>

\* A transaction was deleted meanwhile: the foreign key refuses its suggestion,
\* and with it all suggestions of the run.
StoreFails ==
    /\ Asking
    /\ StillActive
    /\ run.todo = {}
    /\ \E t \in run.found \cup {run.asking} : txn[t] = None
    /\ Throw(TRUE)

\* reportProgress, return, and complete.
Complete ==
    /\ Storing
    /\ run' = None
    /\ IF held
       THEN /\ phase' = [phase EXCEPT ![run.job] = "succeeded"]
            /\ tries' = tries
            /\ Jobs!End(run.job)
            /\ held' = FALSE
            /\ UNCHANGED <<picked, runs>>
       ELSE /\ \/ runs' = Ended("cancelled")    \* found out by reportProgress
               \/ runs' = runs                  \* found out by complete
            /\ UNCHANGED jobVars
    /\ UNCHANGED <<suggestions, killed, lapsed, providerVars, txnVars, faults>>

-----------------------------------------------------------------------------
Settings ==
    \/ \E form \in Form :
          \/ \E key \in Secret \cup {None} : CreateProvider(form, key)
          \/ \E key \in Secret \cup {"keep", "clear"} : UpdateProvider(form, key)
    \/ DeleteProvider

Edits ==
    \/ \E t \in Transaction :
          Annotate(t) \/ Reclassify(t) \/ Decide(t) \/ Delete(t)
    \/ Undo

Queue ==
    \E j \in Job :
        \/ \E ts \in Selection : Enqueue(j, ts)
        \/ Cancel(j) \/ Recover(j) \/ StartRefused(j) \/ StartUnavailable(j) \/ Start(j)

Handler ==
    \/ \E known \in BOOLEAN : Answer(known)
    \/ \E retryable \in BOOLEAN : ProviderFails(retryable)
    \/ AnswerLost \/ StoreFails \/ Complete

Next == Settings \/ Edits \/ Queue \/ Handler \/ LeaseLapses \/ Crash

Spec == Init /\ [][Next]_vars

-----------------------------------------------------------------------------
\* What leaves the process is what the user saved together, also when the settings
\* change while a job runs: everything known of a transaction only goes to an
\* endpoint on this machine, and a key only to an endpoint it was saved for,
\* unless the keyring failed while settings were replaced
\* (buildAiTransactionPayload, AiProviderInputSchema, AiProviderStore.update).
RequestAsSaved ==
    Asking => /\ run.full => run.endpoint \in Local
              /\ torn \/ <<run.endpoint, run.key>> \in agreed

\* A suggestion that the review shows was made of the transaction as it is: no
\* edit, decision, undoing or slow answer makes an old one current.  Undoing a
\* decision does where the note was edited since the decision.
ShownIsCurrent ==
    \A t \in {u \in Transaction : txn[u] # None} : \A s \in Current(t) :
        /\ s.class = txn[t].class
        /\ s.text = txn[t].text \/ <<t, s.run>> \in annotated

Suggests(i) == {s.of : s \in {r \in suggestions : r.run = i}}

\* The recorded runs say what happened, and a job suggests once: a run is running
\* as long as its handler (or for ever, if that died), has stored suggestions only
\* if it succeeded, and no later attempt of its job stores any again, unless the
\* handler died or lost its lease between storing the answers and completing the job.
RunsAccountedFor ==
    /\ \A i \in DOMAIN runs :
        /\ runs[i].status = "running" => i \in killed \/ (Asking /\ run.id = i)
        /\ Suggests(i) # {} => runs[i].status = "succeeded" \/ i \in lapsed
    /\ \A i, k \in DOMAIN runs :
        i < k /\ runs[i].job = runs[k].job /\ i \notin killed \cup lapsed
            => Suggests(i) \cap Suggests(k) = {}
=============================================================================
