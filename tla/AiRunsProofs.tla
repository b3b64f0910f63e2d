---------------------------- MODULE AiRunsProofs ----------------------------
(* Proofs about AI runs: for any jobs, transactions, settings, runs and faults. *)
EXTENDS AiRuns, FiniteSetTheorems, WellFoundedInduction, TLAPS

RunRecord == [job : Job, status : {"running", "succeeded", "failed", "cancelled"}]

Suggestion == [run : Nat, of : Transaction, version : Nat, class : Nat, text : Nat]

DecisionRow == [of : Transaction, class : Nat, text : Nat, suggestion : Nat \cup {None}]

SettingsType ==
    /\ provider \in Setting \cup {None} /\ keyring \in Secret \cup {None} /\ torn \in BOOLEAN

JobType ==
    /\ phase \in [Job -> {"absent", "queued", "running"} \cup Jobs!Outcome]
    /\ tries \in [Job -> Nat] /\ picked \in [Job -> SUBSET Transaction]
    /\ held \in BOOLEAN /\ lapsed \subseteq Nat

RunType ==
    /\ run \in Attempt \cup {None} /\ killed \subseteq Nat
    /\ runs \in Seq(RunRecord)

LedgerType ==
    /\ suggestions \subseteq Suggestion
    /\ txn \in [Transaction -> Row \cup {None}]
    /\ decision # None => decision \in DecisionRow

TypeOK == SettingsType /\ JobType /\ RunType /\ LedgerType

\* The handler is that of the last run, and asks about what it has read.
HandlerInv ==
    run # None =>
        /\ run.id = Len(runs) /\ Len(runs) > 0 /\ runs[run.id].job = run.job
        /\ run.asking \in DOMAIN run.read
        /\ run.todo \subseteq DOMAIN run.read /\ run.found \subseteq DOMAIN run.read

\* Unless the keyring failed, the row and the keyring hold what was saved together.
SettingsInv ==
    provider # None /\ ~torn =>
        /\ provider.has <=> keyring # None
        /\ <<provider.endpoint, keyring>> \in agreed

RequestInv ==
    run # None =>
        /\ run.full => run.endpoint \in Local
        /\ torn \/ <<run.endpoint, run.key>> \in agreed

\* What has the version of a transaction was made of it as it is.
AsItIs(row, t) ==
    /\ row.version <= txn[t].version
    /\ row.version = txn[t].version => row.class = txn[t].class

ReadInv ==
    run # None =>
        \A t \in DOMAIN run.read : txn[t] # None =>
            /\ AsItIs(run.read[t], t)
            /\ run.read[t].version = txn[t].version => run.read[t].text = txn[t].text

SuggestionInv ==
    /\ \A s \in suggestions :
        /\ s.run \in DOMAIN runs
        /\ txn[s.of] # None /\ AsItIs(s, s.of)
        /\ s.version = txn[s.of].version => s.text = txn[s.of].text \/ <<s.of, s.run>> \in annotated
    /\ \A s, r \in suggestions : s.run = r.run /\ s.of = r.of => s = r

\* The suggestion a decision was made on can be shown again after its undoing.
DecisionInv ==
    decision # None =>
        /\ txn[decision.of] # None
        /\ decision.suggestion # None => decision.suggestion \in DOMAIN runs
        /\ Asking => decision.suggestion # run.id
        /\ \A s \in suggestions : s.of = decision.of /\ s.run = decision.suggestion =>
              /\ s.class = decision.class
              /\ s.text = decision.text \/ <<s.of, s.run>> \in annotated

\* Nothing is stored before the last answer.  Who has stored has succeeded or is
\* about to, or has died or lost its lease in between.
OutcomeInv ==
    /\ Asking => Suggests(run.id) = {}
    /\ Storing => IF held THEN phase[run.job] = "running" ELSE run.id \in lapsed
    /\ \A i \in DOMAIN runs :
        Suggests(i) # {} => \/ i \in killed \cup lapsed
                            \/ Storing /\ run.id = i
                            \/ phase[runs[i].job] = "succeeded"

AiInv ==
    /\ TypeOK /\ HandlerInv /\ SettingsInv /\ RequestInv /\ ReadInv /\ SuggestionInv
    /\ DecisionInv /\ OutcomeInv /\ RunsAccountedFor

-----------------------------------------------------------------------------
(* The latest of some suggestions exists: finite induction, from the library's *)
(* well-foundedness of strict inclusion.                                       *)

LEMMA NonemptyHasMinimal ==
    ASSUME NEW S, IsFiniteSet(S), NEW F, \A T \in F : T \subseteq S, F # {}
    PROVE  \E T \in F : \A U \in F : ~(U \subseteq T /\ U # T)
<1>1. F \subseteq FiniteSubsetsOf(S)
  BY FS_Subset DEF FiniteSubsetsOf
<1>2. PICK T \in F : \A U \in F : <<U, T>> \notin StrictSubsetOrdering(S)
  BY <1>1, FS_StrictSubsetOrderingWellFounded, WFMin
<1>3. QED
  BY <1>2 DEF StrictSubsetOrdering

HasMax(T) == \E m \in T : \A i \in T : i <= m

LEMMA HasMaximum ==
    ASSUME NEW S, S \subseteq Nat, IsFiniteSet(S), S # {}
    PROVE  HasMax(S)
<1> SUFFICES ASSUME ~HasMax(S) PROVE FALSE
  OBVIOUS
<1>1. PICK F : F = {T \in SUBSET S : T # {} /\ ~HasMax(T)}
  OBVIOUS
<1>2. F # {}
  BY <1>1
<1>3. PICK T \in F : \A U \in F : ~(U \subseteq T /\ U # T)
  <2>1. \A T \in F : T \subseteq S
    BY <1>1
  <2>2. QED
    BY <2>1, <1>2, NonemptyHasMinimal
<1>4. T \subseteq S /\ T # {} /\ ~HasMax(T)
  BY <1>1
<1>5. PICK x \in T : TRUE
  BY <1>4
<1>6. T \ {x} = {} \/ HasMax(T \ {x})
  BY <1>1, <1>3, <1>4
<1>7. CASE T \ {x} = {}
  <2>1. \A i \in T : i <= x
    BY <1>4, <1>7
  <2>2. QED BY <2>1, <1>4 DEF HasMax
<1>8. CASE HasMax(T \ {x})
  <2>1. PICK m \in T \ {x} : \A i \in T \ {x} : i <= m
    BY <1>8 DEF HasMax
  <2>2. m \in Nat /\ x \in Nat
    BY <1>4
  <2>3. QED BY <2>1, <2>2, <1>4 DEF HasMax
<1>9. QED
  BY <1>6, <1>7, <1>8
-----------------------------------------------------------------------------
(* The actions, in groups by what they change.                                 *)

SettingsStep ==
    \/ \E form \in Form, key \in Secret \cup {None} : CreateProvider(form, key)
    \/ \E form \in Form, key \in Secret \cup {"keep", "clear"} : UpdateProvider(form, key)
    \/ DeleteProvider

EditStep ==
    \/ \E t \in Transaction : Annotate(t) \/ Reclassify(t) \/ Decide(t) \/ Delete(t)
    \/ Undo

QueueStep ==
    \/ \E j \in Job :
          \/ \E ts \in Selection : Enqueue(j, ts)
          \/ Cancel(j) \/ Recover(j) \/ StartRefused(j) \/ StartUnavailable(j)
    \/ LeaseLapses

HandlerStep ==
    \/ \E known \in BOOLEAN : Answer(known)
    \/ \E retryable \in BOOLEAN : ProviderFails(retryable)
    \/ AnswerLost \/ StoreFails \/ Complete \/ Crash

LEMMA NextSteps ==
    ASSUME [Next]_vars
    PROVE  \/ SettingsStep \/ EditStep \/ QueueStep \/ HandlerStep
           \/ \E j \in Job : Start(j)
           \/ UNCHANGED vars
BY DEF Next, Settings, Edits, Queue, Handler, SettingsStep, EditStep, QueueStep, HandlerStep

LEMMA SettingsChange ==
    ASSUME SettingsStep
    PROVE  UNCHANGED <<jobVars, runVars, txnVars>>
BY DEF SettingsStep, CreateProvider, UpdateProvider, DeleteProvider

LEMMA EditChange ==
    ASSUME EditStep
    PROVE  UNCHANGED <<jobVars, run, runs, killed, lapsed, providerVars, faults>> /\ ~Storing
BY DEF EditStep, Annotate, Reclassify, Decide, Delete, Undo, Change, runVars

LEMMA QueueChange ==
    ASSUME QueueStep
    PROVE  UNCHANGED <<run, runs, suggestions, killed, providerVars, txnVars>>
BY DEF QueueStep, Enqueue, Cancel, Recover, StartRefused, StartUnavailable, LeaseLapses, runVars

LEMMA HandlerChange ==
    ASSUME HandlerStep
    PROVE  run # None /\ UNCHANGED <<providerVars, txnVars>>
BY DEF HandlerStep, Answer, ProviderFails, AnswerLost, StoreFails, Complete, Crash, Throw,
       Asking, Storing

\* How a step of the handler leaves the run and the records of runs.
LEMMA HandlerRuns ==
    ASSUME HandlerStep
    PROVE  \/ /\ run' = None
              /\ suggestions' = suggestions
              /\ \/ runs' = runs
                 \/ \E status \in {"cancelled", "failed"} : runs' = Ended(status)
           \/ /\ Asking /\ StillActive
              /\ \E found \in {run.found, run.found \cup {run.asking}} :
                 \/ /\ \E t \in run.todo :
                          run' = Request([run EXCEPT !.found = found], t)
                    /\ UNCHANGED <<runs, suggestions>>
                 \/ /\ run' = [run EXCEPT !.step = "stored", !.found = found]
                    /\ \A t \in found : txn[t] # None
                    /\ suggestions' = suggestions \cup Suggested(found)
                    /\ runs' = Ended("succeeded")
              /\ UNCHANGED <<killed, lapsed, jobVars, providerVars, txnVars, faults>>
<1>1. ASSUME NEW known \in BOOLEAN, Answer(known)
      PROVE  /\ Asking /\ StillActive
             /\ \E found \in {run.found, run.found \cup {run.asking}} :
                 \/ /\ \E t \in run.todo :
                          run' = Request([run EXCEPT !.found = found], t)
                    /\ UNCHANGED <<runs, suggestions>>
                 \/ /\ run' = [run EXCEPT !.step = "stored", !.found = found]
                    /\ \A t \in found : txn[t] # None
                    /\ suggestions' = suggestions \cup Suggested(found)
                    /\ runs' = Ended("succeeded")
             /\ UNCHANGED <<killed, lapsed, jobVars, providerVars, txnVars, faults>>
  <2>1. Found(known) \in {run.found, run.found \cup {run.asking}}
    BY DEF Found
  <2>2. QED
    BY <1>1, <2>1 DEF Answer
<1>2. CASE ~\E known \in BOOLEAN : Answer(known)
  BY <1>2 DEF HandlerStep, ProviderFails, AnswerLost, StoreFails, Complete, Crash, Throw
<1>3. QED
  BY <1>1, <1>2

-----------------------------------------------------------------------------
(* Types.                                                                      *)

LEMMA TypeInit == Init => TypeOK
<1> SUFFICES ASSUME Init PROVE TypeOK
  OBVIOUS
<1>1. LedgerType
  BY DEF Init, Row, LedgerType
<1>2. RunType
  BY DEF Init, RunType
<1>3. JobType
  BY DEF Init, JobType
<1>4. QED
  BY <1>1, <1>2, <1>3 DEF Init, TypeOK, SettingsType

LEMMA TypeKept ==
    /\ SettingsType /\ UNCHANGED providerVars => SettingsType'
    /\ JobType /\ UNCHANGED <<jobVars, lapsed>> => JobType'
    /\ RunType /\ UNCHANGED <<run, runs, killed>> => RunType'
    /\ LedgerType /\ UNCHANGED <<txn, decision, suggestions>> => LedgerType'
BY DEF SettingsType, JobType, RunType, LedgerType, providerVars, jobVars

LEMMA TypeSettings ==
    ASSUME TypeOK, SettingsStep
    PROVE  TypeOK'
<1>1. UNCHANGED <<jobVars, runVars, txnVars>>
  BY SettingsChange
<1>2. \A form \in Form, has \in BOOLEAN : Saved(form, has) \in Setting
  BY AiAssumption DEF Saved, Setting
<1>3. ASSUME NEW form \in Form, NEW key \in Secret \cup {None}, CreateProvider(form, key)
      PROVE  SettingsType'
  BY <1>2, <1>3 DEF CreateProvider, TypeOK, SettingsType
<1>4. ASSUME NEW form \in Form, NEW key \in Secret \cup {"keep", "clear"},
             UpdateProvider(form, key)
      PROVE  SettingsType'
  BY <1>2, <1>4 DEF UpdateProvider, TypeOK, SettingsType, Setting
<1>5. ASSUME DeleteProvider PROVE SettingsType'
  BY <1>5 DEF DeleteProvider, TypeOK, SettingsType
<1>6. SettingsType'
  BY <1>3, <1>4, <1>5 DEF SettingsStep
<1>7. QED
  BY <1>1, <1>6, TypeKept DEF TypeOK, runVars, txnVars

\* The suggestion shown about a transaction is one about it as it is, the latest.
LEMMA ShownIsLatest ==
    ASSUME TypeOK, \A s \in suggestions : s.run \in DOMAIN runs,
           NEW t \in Transaction, Current(t) # {}
    PROVE  Shown(t) \in Current(t)
<1>1. PICK n \in Nat : n = Len(runs) /\ DOMAIN runs = 1..n
  BY DEF TypeOK, RunType
<1>2. PICK R : R = {s.run : s \in Current(t)}
  OBVIOUS
<1>3. R # {} /\ R \subseteq 1..n /\ R \subseteq Nat
  BY <1>1, <1>2 DEF Current
<1>4. IsFiniteSet(R)
  <2>1. IsFiniteSet(1..n)
    BY FS_Interval
  <2>2. QED
    BY <1>3, <2>1, FS_Subset
<1>5. HasMax(R)
  BY <1>3, <1>4, HasMaximum
<1>6. \E s \in Current(t) : \A r \in Current(t) : r.run <= s.run
  BY <1>2, <1>5 DEF HasMax
<1>7. QED
  BY <1>6 DEF Shown

\* A change makes a transaction a new version.
LEMMA ChangedRow ==
    ASSUME NEW row \in Row, NEW n \in Nat
    PROVE  /\ [Touched(row) EXCEPT !.text = n] \in Row
           /\ [Touched(row) EXCEPT !.class = n] \in Row
           /\ [Touched(row) EXCEPT !.class = n, !.resolved = TRUE] \in Row
           /\ [Touched(row) EXCEPT !.class = n, !.resolved = FALSE] \in Row
<1>1. Touched(row) \in Row
  <2>1. row.version + 1 \in Nat
    BY DEF Row
  <2>2. QED
    BY <2>1 DEF Touched, Row
<1>2. \A next \in Row :
         /\ [next EXCEPT !.class = n] \in Row /\ [next EXCEPT !.text = n] \in Row
         /\ [next EXCEPT !.class = n, !.resolved = TRUE] \in Row
         /\ [next EXCEPT !.class = n, !.resolved = FALSE] \in Row
  BY DEF Row
<1>3. QED
  BY <1>1, <1>2

LEMMA RowFacts ==
    ASSUME TypeOK, NEW t \in Transaction, txn[t] # None
    PROVE  /\ txn[t] \in Row /\ txn[t].version \in Nat /\ txn[t].class \in Nat
           /\ txn[t].text \in Nat /\ txn[t].text + 1 \in Nat /\ txn[t].version + 1 \in Nat
BY DEF TypeOK, LedgerType, Row

LEMMA TypeEdit ==
    ASSUME TypeOK, EditStep, \A s \in suggestions : s.run \in DOMAIN runs
    PROVE  TypeOK'
<1>1. UNCHANGED <<jobVars, run, runs, killed, lapsed, providerVars>>
  BY EditChange
<1>2. ASSUME NEW t \in Transaction, NEW row \in Row, txn' = [txn EXCEPT ![t] = row]
      PROVE  txn' \in [Transaction -> Row \cup {None}]
  BY <1>2 DEF TypeOK, LedgerType
<1>3. ASSUME NEW t \in Transaction, Annotate(t) \/ Reclassify(t) PROVE LedgerType'
  <2>1. UNCHANGED <<suggestions, decision>> /\ txn[t] # None
    BY <1>3 DEF Annotate, Reclassify, Change, runVars
  <2>2. /\ [Touched(txn[t]) EXCEPT !.text = txn[t].text + 1] \in Row
        /\ [Touched(txn[t]) EXCEPT !.class = txn[t].version + 1] \in Row
    BY <2>1, RowFacts, ChangedRow
  <2>3. txn' \in [Transaction -> Row \cup {None}]
    BY <1>2, <1>3, <2>2 DEF Annotate, Reclassify
  <2>4. QED
    BY <2>1, <2>3 DEF TypeOK, LedgerType
<1>4. ASSUME NEW t \in Transaction, Decide(t) PROVE LedgerType'
  <2>1. txn[t] # None /\ suggestions' = suggestions
    BY <1>4 DEF Decide, Change, runVars
  <2>2. [Touched(txn[t]) EXCEPT !.class = txn[t].version + 1, !.resolved = TRUE] \in Row
    BY <2>1, RowFacts, ChangedRow
  <2>3. txn' \in [Transaction -> Row \cup {None}]
    BY <1>2, <1>4, <2>2 DEF Decide
  <2>4. Current(t) # {} => Shown(t).run \in Nat
    BY ShownIsLatest DEF Current, TypeOK, LedgerType, Suggestion
  <2>5. decision' \in DecisionRow
    BY <1>4, <2>1, <2>4, RowFacts DEF Decide, DecisionRow
  <2>6. QED
    BY <2>1, <2>3, <2>5 DEF TypeOK, LedgerType
<1>5. ASSUME Undo PROVE LedgerType'
  <2>1. decision \in DecisionRow /\ decision.of \in Transaction /\ decision.class \in Nat
        /\ txn[decision.of] # None /\ decision' = None
    BY <1>5 DEF Undo, Change, TypeOK, LedgerType, DecisionRow
  <2>2. [Touched(txn[decision.of]) EXCEPT !.class = decision.class, !.resolved = FALSE] \in Row
    BY <2>1, RowFacts, ChangedRow
  <2>3. txn' \in [Transaction -> Row \cup {None}]
    BY <1>2, <1>5, <2>1, <2>2 DEF Undo
  <2>4. PICK n \in Nat : n = txn[decision.of].version + 1
    BY <2>1, RowFacts
  <2>5. \A s \in suggestions : [s EXCEPT !.version = n] \in Suggestion
    BY DEF TypeOK, LedgerType, Suggestion
  <2>6. suggestions' \subseteq Suggestion
    BY <1>5, <2>4, <2>5 DEF Undo, Redated, TypeOK, LedgerType
  <2>7. QED
    BY <2>1, <2>3, <2>6 DEF LedgerType
<1>6. ASSUME NEW t \in Transaction, Delete(t) PROVE LedgerType'
  BY <1>6 DEF Delete, TypeOK, LedgerType
<1>7. LedgerType'
  BY <1>3, <1>4, <1>5, <1>6 DEF EditStep
<1>8. QED
  BY <1>1, <1>7, TypeKept DEF TypeOK

LEMMA TypeQueue ==
    ASSUME TypeOK, QueueStep
    PROVE  TypeOK'
<1>1. UNCHANGED <<run, runs, suggestions, killed, providerVars, txnVars>>
  BY QueueChange
<1>2. ASSUME NEW j \in Job, NEW ts \in Selection, Enqueue(j, ts) PROVE JobType'
  <2>1. ts \subseteq Transaction
    BY AiAssumption
  <2>2. QED
    BY <1>2, <2>1 DEF Enqueue, TypeOK, JobType, runVars
<1>3. ASSUME NEW j \in Job, Cancel(j) \/ Recover(j) \/ StartRefused(j) \/ StartUnavailable(j)
      PROVE  JobType'
  <2>1. \E p \in {"queued"} \cup Jobs!Outcome : phase' = [phase EXCEPT ![j] = p]
    BY <1>3 DEF Cancel, Recover, GiveUp, StartRefused, StartUnavailable, Jobs!Outcome
  <2>2. tries' \in [Job -> Nat]
    BY <1>3 DEF Cancel, Recover, GiveUp, StartRefused, StartUnavailable, TypeOK, JobType
  <2>3. UNCHANGED <<picked, lapsed>> /\ held' \in BOOLEAN
    BY <1>3 DEF Cancel, Recover, GiveUp, StartRefused, StartUnavailable, TypeOK, JobType, runVars
  <2>4. QED
    BY <2>1, <2>2, <2>3 DEF TypeOK, JobType
<1>4. ASSUME LeaseLapses PROVE JobType'
  <2>1. Storing => run.id \in Nat
    BY DEF Storing, TypeOK, RunType, Attempt
  <2>2. QED
    BY <1>4, <2>1 DEF LeaseLapses, TypeOK, JobType
<1>5. JobType'
  BY <1>2, <1>3, <1>4 DEF QueueStep
<1>6. QED
  BY <1>1, <1>5, TypeKept DEF TypeOK, txnVars

\* The record a handler begins with.
LEMMA StartedRun ==
    ASSUME TypeOK, NEW j \in Job, Start(j)
    PROVE  /\ run = None /\ run' \in Attempt /\ run' # None
           /\ run'.job = j /\ run'.id = Len(runs) + 1 /\ run'.step = "asking"
           /\ run'.full = IsLocal(provider) /\ run'.endpoint = provider.endpoint
           /\ run'.key = Credential /\ provider # None
           /\ DOMAIN run'.read = Selected(j) /\ run'.asking \in Selected(j)
           /\ run'.todo \subseteq Selected(j) /\ run'.found = {}
           /\ \A t \in Selected(j) : txn[t] # None /\ run'.read[t] = txn[t]
           /\ runs' = Append(runs, [job |-> j, status |-> "running"])
<1>1. provider # None /\ provider \in Setting
  BY DEF Start, Refused, TypeOK, SettingsType
<1>2. Selected(j) \subseteq Transaction /\ \A t \in Selected(j) : txn[t] \in Row
  BY DEF Selected, TypeOK, LedgerType, JobType
<1>3. [u \in Selected(j) |-> txn[u]] \in UNION {[ts -> Row] : ts \in SUBSET Transaction}
  <2>1. [u \in Selected(j) |-> txn[u]] \in [Selected(j) -> Row]
    BY <1>2
  <2>2. QED
    BY <1>2, <2>1
<1>4. Len(runs) + 1 \in Nat
  BY DEF TypeOK, RunType
<1>5. Credential \in Secret \cup {None}
  BY DEF Credential, TypeOK, SettingsType
<1>6. PICK t \in Selected(j) :
         run' = [job |-> j, id |-> Len(runs) + 1, step |-> "asking", asking |-> t,
                 full |-> IsLocal(provider), endpoint |-> provider.endpoint,
                 key |-> Credential,
                 todo |-> Selected(j) \ {t}, read |-> [u \in Selected(j) |-> txn[u]],
                 found |-> {}]
  BY DEF Start
<1>7. run' \in Attempt
  BY <1>1, <1>2, <1>3, <1>4, <1>5, <1>6 DEF Attempt, Setting, IsLocal
<1>8. run' # None
  BY <1>7, AiAssumption
<1>9. QED
  BY <1>1, <1>2, <1>6, <1>7, <1>8 DEF Start, Claim, Selected

LEMMA TypeStart ==
    ASSUME TypeOK, NEW j \in Job, Start(j)
    PROVE  TypeOK'
<1>1. run' \in Attempt /\ killed' = killed
  BY StartedRun DEF Start
<1>2. runs' \in Seq(RunRecord)
  <2>1. PICK r \in RunRecord :
           r = [job |-> j, status |-> "running"]
    BY DEF RunRecord
  <2>2. runs' = Append(runs, r)
    BY <2>1, StartedRun
  <2>3. QED
    BY <2>2 DEF TypeOK, RunType
<1>3. JobType'
  BY DEF Start, TypeOK, JobType
<1>4. UNCHANGED <<txn, decision, suggestions, providerVars>>
  BY DEF Start, txnVars
<1>5. QED
  BY <1>1, <1>2, <1>3, <1>4, TypeKept DEF TypeOK, RunType

LEMMA AttemptFacts ==
    ASSUME TypeOK, run # None
    PROVE  /\ run \in Attempt /\ run.id \in Nat /\ run.job \in Job /\ run.step \in {"asking", "stored"}
           /\ run.asking \in Transaction /\ run.todo \subseteq Transaction
           /\ run.found \subseteq Transaction /\ DOMAIN run.read \subseteq Transaction
           /\ \A t \in DOMAIN run.read :
                 /\ run.read[t].version \in Nat /\ run.read[t].class \in Nat
                 /\ run.read[t].text \in Nat
<1>1. run \in Attempt
  BY DEF TypeOK, RunType
<1>2. run.read \in UNION {[ts -> Row] : ts \in SUBSET Transaction}
  BY <1>1 DEF Attempt
<1>3. PICK ts \in SUBSET Transaction : run.read \in [ts -> Row]
  BY <1>2
<1>4. \A t \in DOMAIN run.read : run.read[t] \in Row
  BY <1>3
<1>5. QED
  BY <1>1, <1>3, <1>4 DEF Attempt, Row

\* What the handler has found are transactions, and so is what it asks about next.
LEMMA AttemptGoesOn ==
    ASSUME TypeOK, run # None, NEW found \in SUBSET Transaction, NEW t \in Transaction
    PROVE  /\ Request([run EXCEPT !.found = found], t) \in Attempt
           /\ [run EXCEPT !.step = "stored", !.found = found] \in Attempt
<1>1. run \in Attempt /\ run.todo \ {t} \subseteq Transaction
  BY AttemptFacts
<1>2. QED
  BY <1>1 DEF Attempt, Request

LEMMA TypeHandler ==
    ASSUME TypeOK, HandlerInv, HandlerStep
    PROVE  TypeOK'
<1>1. run # None /\ UNCHANGED <<txn, decision, providerVars>>
  BY HandlerChange DEF txnVars
<1>2. \A status \in {"succeeded", "cancelled", "failed"} :
          Ended(status) \in Seq(RunRecord)
  <2>1. run.id \in DOMAIN runs /\ runs \in Seq(RunRecord)
    BY <1>1, AttemptFacts DEF HandlerInv, TypeOK, RunType
  <2>2. \A r \in RunRecord : [runs EXCEPT ![run.id] = r] \in Seq(RunRecord)
    BY <2>1
  <2>3. runs[run.id] \in RunRecord
    BY <2>1
  <2>4. \A status \in {"succeeded", "cancelled", "failed"} :
           [runs[run.id] EXCEPT !.status = status] \in RunRecord
    BY <2>3 DEF RunRecord
  <2>5. QED
    BY <2>2, <2>4 DEF Ended
<1>3. runs' \in Seq(RunRecord)
  BY <1>2, HandlerRuns DEF TypeOK, RunType
<1>4. run' \in Attempt \cup {None}
  <2>1. \A found \in {run.found, run.found \cup {run.asking}} : found \in SUBSET Transaction
    BY <1>1, AttemptFacts
  <2>2. \A found \in {run.found, run.found \cup {run.asking}}, t \in run.todo :
           /\ Request([run EXCEPT !.found = found], t) \in Attempt
           /\ [run EXCEPT !.step = "stored", !.found = found] \in Attempt
    BY <1>1, <2>1, AttemptGoesOn, AttemptFacts
  <2>3. \A found \in {run.found, run.found \cup {run.asking}} :
           [run EXCEPT !.step = "stored", !.found = found] \in Attempt
    BY <1>1, <2>1, AttemptGoesOn, AttemptFacts
  <2>4. QED
    BY <2>2, <2>3, HandlerRuns
<1>5. suggestions' \subseteq Suggestion
  <2>1. \A found \in {run.found, run.found \cup {run.asking}} : Suggested(found) \subseteq Suggestion
    BY <1>1, AttemptFacts DEF Suggested, Suggestion, HandlerInv
  <2>2. QED
    BY <2>1, HandlerRuns DEF TypeOK, LedgerType
<1>6. killed' \subseteq Nat
  <2>1. killed' = killed \/ killed' = killed \cup {run.id}
    BY DEF HandlerStep, Answer, ProviderFails, AnswerLost, StoreFails, Complete, Crash, Throw
  <2>2. run.id \in Nat
    BY <1>1, AttemptFacts
  <2>3. QED
    BY <2>1, <2>2 DEF TypeOK, RunType
<1>7. JobType'
  <2>1. \/ UNCHANGED phase
        \/ \E p \in {"queued"} \cup Jobs!Outcome : phase' = [phase EXCEPT ![run.job] = p]
    BY DEF HandlerStep, Answer, ProviderFails, AnswerLost, StoreFails, Complete, Crash, Throw,
       GiveUp, jobVars, Jobs!Outcome
  <2>2. UNCHANGED <<tries, picked, lapsed>> /\ held' \in BOOLEAN
    BY DEF HandlerStep, Answer, ProviderFails, AnswerLost, StoreFails, Complete, Crash, Throw,
       GiveUp, jobVars, TypeOK, JobType
  <2>3. QED
    BY <2>1, <2>2 DEF TypeOK, JobType
<1>8. QED
  BY <1>1, <1>3, <1>4, <1>5, <1>6, <1>7, TypeKept DEF TypeOK, RunType, LedgerType

-----------------------------------------------------------------------------
(* The settings and what is sent.                                              *)

LEMMA SettingsKept ==
    ASSUME AiInv, [Next]_vars
    PROVE  SettingsInv'
<1>1. SettingsInv
  BY DEF AiInv
<1>2. ASSUME NEW form \in Form, NEW key \in Secret \cup {None}, CreateProvider(form, key)
      PROVE  SettingsInv'
  <2>1. PICK has \in BOOLEAN : has <=> key # None
    OBVIOUS
  <2>2. CASE provider' = Saved(form, key # None) /\ keyring' = key /\ Agree(form, key)
    <3>1. provider'.endpoint = form.endpoint /\ (provider'.has <=> key # None)
      BY <2>2 DEF Saved
    <3>2. QED
      BY <2>2, <3>1 DEF SettingsInv, Agree
  <2>3. CASE UNCHANGED <<provider, keyring, agreed>>
    BY <1>1, <1>2, <2>3 DEF SettingsInv, CreateProvider
  <2>4. QED
    BY <1>2, <2>2, <2>3 DEF CreateProvider
<1>3. ASSUME NEW form \in Form, NEW key \in Secret \cup {"keep", "clear"}, UpdateProvider(form, key)
      PROVE  SettingsInv'
  <2>1. key # "keep" /\ key # "clear" => key # None
    BY AiAssumption
  <2>2. CASE torn'
    BY <2>2 DEF SettingsInv
  <2>3. CASE ~torn' /\ key = "keep"
    BY <1>1, <1>3, <2>3 DEF SettingsInv, UpdateProvider, Saved, Agree
  <2>4. CASE ~torn' /\ key = "clear"
    BY <1>3, <2>4 DEF SettingsInv, UpdateProvider, Saved, Agree
  <2>5. CASE ~torn' /\ key # "keep" /\ key # "clear"
    <3>1. CASE torn' = torn
      <4>1. provider' = Saved(form, TRUE) /\ keyring' = key /\ Agree(form, key)
        BY <1>3, <2>5, <3>1 DEF UpdateProvider
      <4>2. QED
        BY <2>1, <2>5, <4>1 DEF SettingsInv, Saved, Agree
    <3>2. CASE torn' = TRUE
      BY <2>5, <3>2
    <3>3. QED
      BY <1>3, <3>1, <3>2 DEF UpdateProvider
  <2>6. QED
    BY <2>2, <2>3, <2>4, <2>5
<1>4. ASSUME DeleteProvider PROVE SettingsInv'
  BY <1>1, <1>4 DEF SettingsInv, DeleteProvider
<1>5. ASSUME UNCHANGED providerVars PROVE SettingsInv'
  BY <1>1, <1>5 DEF SettingsInv, providerVars
<1>6. ASSUME NEW j \in Job, Start(j) PROVE UNCHANGED providerVars
  BY <1>6 DEF Start
<1>7. UNCHANGED vars => UNCHANGED providerVars
  BY DEF vars
<1>8. EditStep \/ QueueStep \/ HandlerStep => UNCHANGED providerVars
  BY EditChange, QueueChange, HandlerChange
<1>9. QED
  BY NextSteps, <1>2, <1>3, <1>4, <1>5, <1>6, <1>7, <1>8 DEF SettingsStep

\* What was saved together stays so, and a failure of the keyring is remembered.
LEMMA AgreedGrows ==
    ASSUME [Next]_vars
    PROVE  agreed \subseteq agreed' /\ (torn => torn')
<1>1. SettingsStep => agreed \subseteq agreed' /\ (torn => torn')
  <2>1. SettingsStep => agreed \subseteq agreed'
    BY DEF SettingsStep, CreateProvider, UpdateProvider, DeleteProvider, Agree
  <2>2. SettingsStep => torn' = torn \/ torn' = TRUE
    BY DEF SettingsStep, CreateProvider, UpdateProvider, DeleteProvider
  <2>3. QED
    BY <2>1, <2>2
<1>2. UNCHANGED providerVars => agreed \subseteq agreed' /\ (torn => torn')
  BY DEF providerVars
<1>3. ASSUME NEW j \in Job, Start(j) PROVE UNCHANGED providerVars
  BY <1>3 DEF Start
<1>4. UNCHANGED vars => UNCHANGED providerVars
  BY DEF vars
<1>5. QED
  BY NextSteps, EditChange, QueueChange, HandlerChange, <1>1, <1>2, <1>3, <1>4

\* Where a request goes, and with what, does not change while a handler runs.
SameRequest(r) ==
    /\ r.full = run.full /\ r.endpoint = run.endpoint /\ r.key = run.key
    /\ r.id = run.id /\ r.job = run.job /\ r.read = run.read

LEMMA RequestSteps ==
    ASSUME TypeOK, [Next]_vars, \A j \in Job : ~Start(j)
    PROVE  run' = None \/ (run # None /\ SameRequest(run'))
<1>1. CASE HandlerStep
  <2>1. run # None /\ run \in Attempt
    BY <1>1, HandlerChange, AttemptFacts
  <2>2. \A f, t : SameRequest(Request([run EXCEPT !.found = f], t))
    BY <2>1 DEF Request, Attempt, SameRequest
  <2>3. \A f : SameRequest([run EXCEPT !.step = "stored", !.found = f])
    BY <2>1 DEF Attempt, SameRequest
  <2>4. \/ run' = None
        \/ \E f, t : run' = Request([run EXCEPT !.found = f], t)
        \/ \E f : run' = [run EXCEPT !.step = "stored", !.found = f]
    BY <1>1, HandlerRuns
  <2>5. QED
    BY <2>1, <2>2, <2>3, <2>4
<1>2. CASE ~HandlerStep
  BY <1>2, NextSteps, SettingsChange, EditChange, QueueChange DEF vars, runVars, SameRequest
<1>3. QED
  BY <1>1, <1>2

LEMMA RequestKept ==
    ASSUME AiInv, [Next]_vars
    PROVE  RequestInv'
<1>1. TypeOK /\ SettingsInv /\ RequestInv
  BY DEF AiInv
<1>2. CASE \A j \in Job : ~Start(j)
  BY <1>1, <1>2, RequestSteps, AgreedGrows DEF RequestInv, SameRequest
<1>3. ASSUME NEW j \in Job, Start(j) PROVE RequestInv'
  <2>1. /\ provider # None /\ run'.full = IsLocal(provider)
        /\ run'.endpoint = provider.endpoint /\ run'.key = Credential
    BY <1>1, <1>3, StartedRun
  <2>2. UNCHANGED providerVars
    BY <1>3 DEF Start
  <2>3. ~torn => Credential = keyring
    BY <1>1, <2>1 DEF SettingsInv, Credential
  <2>4. QED
    BY <1>1, <2>1, <2>2, <2>3 DEF RequestInv, SettingsInv, IsLocal, providerVars
<1>4. QED
  BY <1>2, <1>3

-----------------------------------------------------------------------------
(* What each kind of step does to the records of runs, the handler, the        *)
(* transactions, and the suggestions.                                          *)

LEMMA EndedFacts ==
    ASSUME TypeOK, HandlerInv, run # None, NEW status
    PROVE  /\ Len(Ended(status)) = Len(runs) /\ DOMAIN Ended(status) = DOMAIN runs
           /\ run.id \in DOMAIN runs /\ Ended(status)[run.id].status = status
           /\ \A i \in DOMAIN runs :
                 /\ Ended(status)[i].job = runs[i].job
                 /\ i # run.id => Ended(status)[i] = runs[i]
<1>1. runs \in Seq(RunRecord) /\ run.id \in DOMAIN runs /\ Len(runs) \in Nat
      /\ DOMAIN runs = 1..Len(runs)
  BY AttemptFacts DEF HandlerInv, TypeOK, RunType
<1>2. \A i \in DOMAIN runs : runs[i] \in RunRecord
  BY <1>1
<1>3. DOMAIN Ended(status) = DOMAIN runs /\ Len(Ended(status)) = Len(runs)
  BY <1>1 DEF Ended
<1>4. \A i \in DOMAIN runs : i # run.id => Ended(status)[i] = runs[i]
  BY <1>1 DEF Ended
<1>5. Ended(status)[run.id] = [runs[run.id] EXCEPT !.status = status]
  BY <1>1 DEF Ended
<1>6. /\ [runs[run.id] EXCEPT !.status = status].status = status
      /\ [runs[run.id] EXCEPT !.status = status].job = runs[run.id].job
  BY <1>1, <1>2 DEF RunRecord
<1>7. QED
  BY <1>1, <1>3, <1>4, <1>5, <1>6

LEMMA StartedRuns ==
    ASSUME TypeOK, NEW j \in Job, Start(j)
    PROVE  /\ Len(runs) \in Nat /\ Len(runs') = Len(runs) + 1 /\ run'.id = Len(runs')
           /\ DOMAIN runs = 1..Len(runs) /\ DOMAIN runs' = DOMAIN runs \cup {run'.id}
           /\ run'.id \notin DOMAIN runs /\ runs'[run'.id].job = j
           /\ \A i \in DOMAIN runs : runs'[i] = runs[i]
<1>1. PICK r : r = [job |-> j, status |-> "running"]
  OBVIOUS
<1>2. runs \in Seq(RunRecord) /\ runs' = Append(runs, r) /\ run'.id = Len(runs) + 1 /\ r \in RunRecord
  BY <1>1, StartedRun DEF TypeOK, RunType, RunRecord
<1>3. /\ Len(runs) \in Nat /\ Len(runs') = Len(runs) + 1
      /\ DOMAIN runs = 1..Len(runs) /\ DOMAIN runs' = 1..(Len(runs) + 1)
      /\ runs'[Len(runs) + 1] = r
      /\ \A i \in 1..Len(runs) : runs'[i] = runs[i]
  BY <1>2
<1>4. QED
  BY <1>1, <1>2, <1>3

\* Runs are recorded for good, each for its job.
LEMMA RunsGrow ==
    ASSUME TypeOK, HandlerInv, [Next]_vars
    PROVE  /\ DOMAIN runs \subseteq DOMAIN runs'
           /\ \A i \in DOMAIN runs : runs'[i].job = runs[i].job
<1>1. CASE HandlerStep
  <2>1. run # None
    BY <1>1, HandlerChange
  <2>2. runs' = runs \/ \E status : runs' = Ended(status)
    BY <1>1, HandlerRuns
  <2>3. QED
    BY <2>1, <2>2, EndedFacts
<1>2. ASSUME NEW j \in Job, Start(j)
      PROVE  /\ DOMAIN runs \subseteq DOMAIN runs'
             /\ \A i \in DOMAIN runs : runs'[i].job = runs[i].job
  BY <1>2, StartedRuns
<1>3. UNCHANGED runs \/ HandlerStep \/ \E j \in Job : Start(j)
  BY NextSteps, SettingsChange, EditChange, QueueChange DEF vars, runVars
<1>4. QED
  BY <1>1, <1>2, <1>3

LEMMA HandlerKept ==
    ASSUME TypeOK, HandlerInv, [Next]_vars
    PROVE  HandlerInv'
<1>1. CASE HandlerStep
  <2>1. run # None /\ run \in Attempt /\ run.id \in DOMAIN runs
    BY <1>1, HandlerChange, AttemptFacts, EndedFacts
  <2>2. CASE run' = None
    BY <2>2 DEF HandlerInv
  <2>3. ASSUME NEW found \in {run.found, run.found \cup {run.asking}}, NEW t \in run.todo,
               run' = Request([run EXCEPT !.found = found], t), UNCHANGED runs
        PROVE  HandlerInv'
    <3>1. /\ run'.id = run.id /\ run'.job = run.job /\ run'.read = run.read
          /\ run'.asking = t /\ run'.todo = run.todo \ {t} /\ run'.found = found
      BY <2>1, <2>3 DEF Request, Attempt
    <3>2. QED
      BY <2>1, <2>3, <3>1 DEF HandlerInv
  <2>4. ASSUME NEW found \in {run.found, run.found \cup {run.asking}},
               run' = [run EXCEPT !.step = "stored", !.found = found],
               runs' = Ended("succeeded")
        PROVE  HandlerInv'
    <3>1. /\ run'.id = run.id /\ run'.job = run.job /\ run'.read = run.read
          /\ run'.asking = run.asking /\ run'.todo = run.todo /\ run'.found = found
      BY <2>1, <2>4 DEF Attempt
    <3>2. Len(runs') = Len(runs) /\ runs'[run.id].job = runs[run.id].job
      BY <2>1, <2>4, EndedFacts
    <3>3. QED
      BY <2>1, <2>4, <3>1, <3>2 DEF HandlerInv
  <2>5. QED
    BY <1>1, <2>2, <2>3, <2>4, HandlerRuns
<1>2. ASSUME NEW j \in Job, Start(j) PROVE HandlerInv'
  <2>1. /\ run'.id = Len(runs') /\ Len(runs') > 0 /\ runs'[run'.id].job = run'.job
    <3>1. Len(runs) \in Nat /\ Len(runs') = Len(runs) + 1 /\ run'.id = Len(runs')
          /\ runs'[run'.id].job = j
      BY <1>2, StartedRuns
    <3>2. run'.job = j
      BY <1>2, StartedRun
    <3>3. QED
      BY <3>1, <3>2
  <2>2. /\ run'.asking \in DOMAIN run'.read
        /\ run'.todo \subseteq DOMAIN run'.read /\ run'.found \subseteq DOMAIN run'.read
    BY <1>2, StartedRun
  <2>3. QED
    BY <2>1, <2>2 DEF HandlerInv
<1>3. UNCHANGED <<run, runs>> \/ HandlerStep \/ \E j \in Job : Start(j)
  BY NextSteps, SettingsChange, EditChange, QueueChange DEF vars, runVars
<1>4. UNCHANGED <<run, runs>> => HandlerInv'
  BY DEF HandlerInv
<1>5. QED
  BY <1>1, <1>2, <1>3, <1>4

\* A transaction that changes is a new version.
LEMMA EditedRow ==
    ASSUME TypeOK, EditStep, NEW t \in Transaction, txn'[t] # None
    PROVE  /\ txn[t] # None
           /\ txn'[t] = txn[t] \/ txn'[t].version = txn[t].version + 1
<1>1. txn \in [Transaction -> Row \cup {None}]
  BY DEF TypeOK, LedgerType
<1>2. ASSUME NEW row \in Row, NEW n, NEW b
      PROVE  /\ [Touched(row) EXCEPT !.text = n].version = row.version + 1
             /\ [Touched(row) EXCEPT !.class = n].version = row.version + 1
             /\ [Touched(row) EXCEPT !.class = n, !.resolved = b].version = row.version + 1
  BY DEF Row, Touched
<1>3. ASSUME NEW u \in Transaction, Annotate(u) \/ Reclassify(u) \/ Decide(u)
      PROVE  /\ txn[u] \in Row
             /\ \E row : txn' = [txn EXCEPT ![u] = row] /\ row.version = txn[u].version + 1
  <2>1. txn[u] \in Row
    BY <1>1, <1>3 DEF Annotate, Reclassify, Decide, Change
  <2>2. PICK row : /\ txn' = [txn EXCEPT ![u] = row]
                   /\ \/ row = [Touched(txn[u]) EXCEPT !.text = txn[u].text + 1]
                      \/ row = [Touched(txn[u]) EXCEPT !.class = txn[u].version + 1]
                      \/ row = [Touched(txn[u]) EXCEPT !.class = txn[u].version + 1, !.resolved = TRUE]
    BY <1>1, <1>3 DEF Annotate, Reclassify, Decide
  <2>3. row.version = txn[u].version + 1
    BY <2>1, <2>2 DEF Row, Touched
  <2>4. QED
    BY <2>1, <2>2, <2>3
<1>4. ASSUME Undo
      PROVE  \E u \in Transaction :
                /\ txn[u] \in Row
                /\ \E row : txn' = [txn EXCEPT ![u] = row] /\ row.version = txn[u].version + 1
  <2>1. PICK u \in Transaction : u = decision.of
    BY <1>4 DEF Undo, TypeOK, LedgerType, DecisionRow
  <2>2. txn[u] \in Row
    BY <1>1, <1>4, <2>1 DEF Undo, Change
  <2>3. txn' = [txn EXCEPT ![u] = [Touched(txn[u]) EXCEPT !.class = decision.class,
                                                        !.resolved = FALSE]]
    BY <1>1, <1>4, <2>1 DEF Undo
  <2>4. PICK row : row = [Touched(txn[u]) EXCEPT !.class = decision.class, !.resolved = FALSE]
    OBVIOUS
  <2>5. row.version = txn[u].version + 1
    BY <1>2, <2>2, <2>4
  <2>6. QED
    BY <2>2, <2>3, <2>4, <2>5
<1>5. ASSUME NEW u \in Transaction, Delete(u)
      PROVE  txn' = [txn EXCEPT ![u] = None]
  BY <1>5 DEF Delete
<1>6. None \notin Row
  BY AiAssumption
<1>7. QED
  BY <1>1, <1>3, <1>4, <1>5, <1>6 DEF EditStep

\* Only the storing of answers adds a suggestion of a run about a transaction.
Stores == \E found \in {run.found, run.found \cup {run.asking}} :
              /\ run' = [run EXCEPT !.step = "stored", !.found = found]
              /\ \A t \in found : txn[t] # None
              /\ suggestions' = suggestions \cup Suggested(found)
              /\ runs' = Ended("succeeded")

LEMMA SuggestionsStep ==
    ASSUME TypeOK, [Next]_vars
    PROVE  \/ \A s \in suggestions' : \E r \in suggestions : s.run = r.run /\ s.of = r.of
           \/ /\ HandlerStep /\ Stores /\ Asking /\ StillActive
              /\ UNCHANGED <<killed, lapsed, jobVars, providerVars, txnVars, faults>>
<1>1. CASE HandlerStep
  BY <1>1, HandlerRuns DEF Stores
<1>2. CASE EditStep
  <2>1. ASSUME Undo, NEW s \in suggestions' PROVE \E r \in suggestions : s.run = r.run /\ s.of = r.of
    <3>1. PICK n : \E r \in suggestions : s = r \/ s = [r EXCEPT !.version = n]
      BY <2>1 DEF Undo, Redated
    <3>2. PICK r \in suggestions : s = r \/ s = [r EXCEPT !.version = n]
      BY <3>1
    <3>3. r \in Suggestion
      BY DEF TypeOK, LedgerType
    <3>4. [r EXCEPT !.version = n].run = r.run /\ [r EXCEPT !.version = n].of = r.of
      BY <3>3 DEF Suggestion
    <3>5. QED
      BY <3>2, <3>4
  <2>2. ~Undo => suggestions' \subseteq suggestions
    BY <1>2 DEF EditStep, Annotate, Reclassify, Decide, Delete, runVars
  <2>3. QED
    BY <2>1, <2>2
<1>3. CASE ~HandlerStep /\ ~EditStep
  <2>1. \A j \in Job : Start(j) => UNCHANGED suggestions
    BY DEF Start
  <2>2. UNCHANGED suggestions
    BY <1>3, <2>1, NextSteps, SettingsChange, QueueChange DEF vars, runVars
  <2>3. QED
    BY <2>2
<1>4. QED
  BY <1>1, <1>2, <1>3

LEMMA ReadKept ==
    ASSUME TypeOK, ReadInv, [Next]_vars
    PROVE  ReadInv'
<1>1. CASE \A j \in Job : ~Start(j)
  <2>1. run' = None \/ (run # None /\ run'.read = run.read)
    BY <1>1, RequestSteps DEF SameRequest
  <2>2. UNCHANGED txn \/ EditStep
    BY <1>1, NextSteps, SettingsChange, QueueChange, HandlerChange DEF vars, txnVars
  <2>3. \A t \in Transaction : txn'[t] # None =>
           /\ txn[t] # None
           /\ txn'[t] = txn[t] \/ txn'[t].version = txn[t].version + 1
    BY <2>2, EditedRow
  <2>4. SUFFICES ASSUME run' # None, NEW t \in DOMAIN run'.read, txn'[t] # None
                 PROVE  /\ AsItIs(run.read[t], t)'
                        /\ run'.read[t].version = txn'[t].version => run'.read[t].text = txn'[t].text
    BY DEF ReadInv
  <2>5. /\ run # None /\ run'.read = run.read /\ t \in DOMAIN run.read /\ t \in Transaction
        /\ run.read[t].version \in Nat
    BY <2>1, <2>4, AttemptFacts
  <2>6. txn[t] # None /\ txn[t].version \in Nat
    BY <2>3, <2>4, <2>5, RowFacts
  <2>7. /\ AsItIs(run.read[t], t)
        /\ run.read[t].version = txn[t].version => run.read[t].text = txn[t].text
    BY <2>5, <2>6 DEF ReadInv
  <2>8. CASE txn'[t] = txn[t]
    BY <2>5, <2>7, <2>8 DEF AsItIs
  <2>9. CASE txn'[t].version = txn[t].version + 1
    BY <2>5, <2>6, <2>7, <2>9 DEF AsItIs
  <2>10. QED
    BY <2>3, <2>4, <2>5, <2>8, <2>9
<1>2. ASSUME NEW j \in Job, Start(j) PROVE ReadInv'
  <2>1. /\ DOMAIN run'.read = Selected(j) /\ run' # None
        /\ \A t \in Selected(j) : txn[t] # None /\ run'.read[t] = txn[t]
    BY <1>2, StartedRun
  <2>2. Selected(j) \subseteq Transaction /\ txn' = txn
    BY <1>2 DEF Start, txnVars, Selected, TypeOK, JobType
  <2>3. \A t \in Selected(j) : txn[t].version \in Nat
    BY <2>1, <2>2, RowFacts
  <2>4. QED
    BY <2>1, <2>2, <2>3 DEF ReadInv, AsItIs
<1>3. QED
  BY <1>1, <1>2

\* What the handler stores was made of the transactions as it read them.
LEMMA StoredSuggestions ==
    ASSUME TypeOK, HandlerInv, ReadInv, run # None, Stores
    PROVE  \A s \in suggestions' :
              \/ s \in suggestions
              \/ /\ s.run = run.id /\ s.of \in Transaction /\ txn[s.of] # None
                 /\ AsItIs(s, s.of)
                 /\ s.version = txn[s.of].version => s.text = txn[s.of].text
                 /\ \A r \in suggestions' : r \notin suggestions /\ r.of = s.of => r = s
<1>1. PICK found \in {run.found, run.found \cup {run.asking}} :
         /\ \A t \in found : txn[t] # None
         /\ suggestions' = suggestions \cup Suggested(found)
  BY DEF Stores
<1>2. found \subseteq DOMAIN run.read /\ found \subseteq Transaction
  BY <1>1, AttemptFacts DEF HandlerInv
<1>3. \A s \in Suggested(found) : \E t \in found :
         s = [run |-> run.id, of |-> t, version |-> run.read[t].version,
              class |-> run.read[t].class, text |-> run.read[t].text]
  BY DEF Suggested
<1>4. ASSUME NEW s \in Suggested(found)
      PROVE  /\ s.of \in found /\ s.run = run.id /\ s.version = run.read[s.of].version
             /\ s.class = run.read[s.of].class /\ s.text = run.read[s.of].text
             /\ s = [run |-> run.id, of |-> s.of, version |-> run.read[s.of].version,
                     class |-> run.read[s.of].class, text |-> run.read[s.of].text]
  BY <1>3
<1>5. ASSUME NEW s \in Suggested(found)
      PROVE  /\ s.run = run.id /\ s.of \in Transaction /\ txn[s.of] # None
             /\ AsItIs(s, s.of)
             /\ s.version = txn[s.of].version => s.text = txn[s.of].text
  <2>1. s.of \in DOMAIN run.read /\ txn[s.of] # None /\ s.of \in Transaction
    BY <1>1, <1>2, <1>4
  <2>2. /\ AsItIs(run.read[s.of], s.of)
        /\ run.read[s.of].version = txn[s.of].version => run.read[s.of].text = txn[s.of].text
    BY <2>1 DEF ReadInv
  <2>3. QED
    BY <1>4, <2>1, <2>2 DEF AsItIs
<1>6. ASSUME NEW s \in Suggested(found), NEW r \in Suggested(found), r.of = s.of PROVE r = s
  BY <1>4, <1>6
<1>7. QED
  BY <1>1, <1>5, <1>6

SuggestionOK(s) ==
    /\ s.run \in DOMAIN runs
    /\ txn[s.of] # None /\ AsItIs(s, s.of)
    /\ s.version = txn[s.of].version => s.text = txn[s.of].text \/ <<s.of, s.run>> \in annotated

Alone(set) == \A s, r \in set : s.run = r.run /\ s.of = r.of => s = r

LEMMA SuggestionParts ==
    SuggestionInv <=> (\A s \in suggestions : SuggestionOK(s)) /\ Alone(suggestions)
BY DEF SuggestionInv, SuggestionOK, Alone

LEMMA SuggestionUndo ==
    ASSUME TypeOK, SuggestionInv, DecisionInv, Undo
    PROVE  SuggestionInv'
<1>1. PICK t \in Transaction : t = decision.of
  BY DEF Undo, TypeOK, LedgerType, DecisionRow
<1>2. /\ txn[t] # None /\ runs' = runs /\ decision \in DecisionRow /\ decision # None
      /\ annotated' = IF txn[t].text = decision.text THEN annotated
                      ELSE annotated \cup {<<t, decision.suggestion>>}
      /\ suggestions' = Redated(t)
      /\ txn' = [txn EXCEPT ![t] = [Touched(txn[t]) EXCEPT !.class = decision.class, !.resolved = FALSE]]
  BY <1>1 DEF Undo, Change, TypeOK, LedgerType
<1>3. txn[t] \in Row /\ txn[t].version \in Nat
  BY <1>2, RowFacts
<1>4. PICK row : row = [Touched(txn[t]) EXCEPT !.class = decision.class, !.resolved = FALSE]
  OBVIOUS
<1>5. row.version = txn[t].version + 1 /\ row.class = decision.class /\ row.text = txn[t].text
  BY <1>3, <1>4 DEF Row, Touched
<1>6. txn'[t] = row /\ \A u \in Transaction : u # t => txn'[u] = txn[u]
  BY <1>2, <1>4 DEF TypeOK, LedgerType
<1>7. row # None
  <2>1. row \in Row
    BY <1>2, <1>3, <1>4, ChangedRow DEF DecisionRow
  <2>2. QED
    BY <2>1, AiAssumption
<1>8. PICK n \in Nat : n = txn[t].version + 1
  BY <1>3
<1>9. \A s \in suggestions : s \in Suggestion /\ SuggestionOK(s)
  BY SuggestionParts DEF TypeOK, LedgerType
<1>10. ASSUME NEW s \in suggestions, s.of = t, s.run = decision.suggestion
       PROVE  SuggestionOK([s EXCEPT !.version = n])'
  <2>1. PICK r : r = [s EXCEPT !.version = n]
    OBVIOUS
  <2>2. /\ r.run = s.run /\ r.of = t /\ r.version = n /\ r.class = s.class /\ r.text = s.text
    BY <1>9, <1>10, <2>1 DEF Suggestion
  <2>3. s.class = decision.class /\ (s.text = decision.text \/ <<s.of, s.run>> \in annotated)
    BY <1>1, <1>2, <1>10 DEF DecisionInv
  <2>4. s.run \in DOMAIN runs'
    BY <1>2, <1>9 DEF SuggestionOK
  <2>5. r.text = txn'[t].text \/ <<t, r.run>> \in annotated'
    BY <1>2, <1>5, <1>6, <1>10, <2>2, <2>3
  <2>6. AsItIs(r, t)'
    BY <1>5, <1>6, <1>8, <2>2, <2>3 DEF AsItIs
  <2>7. QED
    BY <1>6, <1>7, <2>1, <2>2, <2>4, <2>5, <2>6 DEF SuggestionOK
<1>11. ASSUME NEW s \in suggestions PROVE SuggestionOK(s)'
  <2>1. SuggestionOK(s) /\ s.of \in Transaction /\ s.version \in Nat
    BY <1>9 DEF Suggestion
  <2>2. CASE s.of = t
    <3>1. s.version <= txn[t].version /\ s.version # txn'[t].version
          /\ s.version <= txn'[t].version
      BY <1>3, <1>5, <1>6, <2>1, <2>2 DEF SuggestionOK, AsItIs
    <3>2. s.run \in DOMAIN runs' /\ txn'[t] # None
      BY <1>2, <1>6, <1>7, <2>1 DEF SuggestionOK
    <3>3. QED
      BY <2>2, <3>1, <3>2 DEF SuggestionOK, AsItIs
  <2>3. CASE s.of # t
    BY <1>2, <1>6, <2>1, <2>3 DEF SuggestionOK, AsItIs
  <2>4. QED
    BY <2>2, <2>3
<1>12. \A s \in suggestions' : \E r \in suggestions :
          \/ s = r /\ ~(r.of = t /\ r.run = decision.suggestion)
          \/ s = [r EXCEPT !.version = n] /\ r.of = t /\ r.run = decision.suggestion
  BY <1>2, <1>8 DEF Redated
<1>13. \A s \in suggestions' : SuggestionOK(s)'
  BY <1>10, <1>11, <1>12
<1>14. Alone(suggestions')
  <2>1. \A r \in suggestions : [r EXCEPT !.version = n].run = r.run /\ [r EXCEPT !.version = n].of = r.of
    BY <1>9 DEF Suggestion
  <2>2. \A r, q \in suggestions : r.run = q.run /\ r.of = q.of => r = q
    BY SuggestionParts DEF Alone
  <2>3. SUFFICES ASSUME NEW s \in suggestions', NEW q \in suggestions', s.run = q.run, s.of = q.of
                 PROVE  s = q
    BY DEF Alone
  <2>4. PICK r \in suggestions :
           \/ s = r /\ ~(r.of = t /\ r.run = decision.suggestion)
           \/ s = [r EXCEPT !.version = n] /\ r.of = t /\ r.run = decision.suggestion
    BY <1>12
  <2>5. PICK p \in suggestions :
           \/ q = p /\ ~(p.of = t /\ p.run = decision.suggestion)
           \/ q = [p EXCEPT !.version = n] /\ p.of = t /\ p.run = decision.suggestion
    BY <1>12
  <2>6. r.run = s.run /\ r.of = s.of /\ p.run = q.run /\ p.of = q.of
    BY <2>1, <2>4, <2>5
  <2>7. r = p
    BY <2>2, <2>3, <2>6
  <2>8. QED
    BY <2>4, <2>5, <2>7
<1>15. QED
  BY <1>13, <1>14 DEF SuggestionInv, SuggestionOK, AsItIs, Alone

\* A transaction is only gone once it is deleted.
LEMMA NoneGone ==
    ASSUME TypeOK, EditStep, NEW t \in Transaction, txn[t] # None, ~Delete(t)
    PROVE  txn'[t] # None
<1>1. txn \in [Transaction -> Row \cup {None}] /\ None \notin Row
  BY AiAssumption DEF TypeOK, LedgerType
<1>2. ASSUME NEW u \in Transaction, Annotate(u) \/ Reclassify(u) \/ Decide(u)
      PROVE  \E row \in Row : txn' = [txn EXCEPT ![u] = row]
  <2>1. txn[u] # None
    BY <1>2 DEF Annotate, Reclassify, Decide, Change
  <2>2. /\ [Touched(txn[u]) EXCEPT !.text = txn[u].text + 1] \in Row
        /\ [Touched(txn[u]) EXCEPT !.class = txn[u].version + 1] \in Row
        /\ [Touched(txn[u]) EXCEPT !.class = txn[u].version + 1, !.resolved = TRUE] \in Row
    BY <2>1, RowFacts, ChangedRow
  <2>3. QED
    BY <1>1, <1>2, <2>2 DEF Annotate, Reclassify, Decide
<1>3. ASSUME Undo
      PROVE  \E u \in Transaction : \E row \in Row : txn' = [txn EXCEPT ![u] = row]
  <2>1. PICK u \in Transaction : u = decision.of
    BY <1>3 DEF Undo, TypeOK, LedgerType, DecisionRow
  <2>2. txn[u] # None /\ decision.class \in Nat
    BY <1>3, <2>1 DEF Undo, Change, TypeOK, LedgerType, DecisionRow
  <2>3. [Touched(txn[u]) EXCEPT !.class = decision.class, !.resolved = FALSE] \in Row
    BY <2>2, RowFacts, ChangedRow
  <2>4. QED
    BY <1>1, <1>3, <2>1, <2>3 DEF Undo
<1>4. ASSUME NEW u \in Transaction, Delete(u), u # t PROVE txn'[t] = txn[t]
  BY <1>1, <1>4 DEF Delete
<1>5. QED
  BY <1>1, <1>2, <1>3, <1>4 DEF EditStep

LEMMA SuggestionKept ==
    ASSUME AiInv, [Next]_vars
    PROVE  SuggestionInv'
<1>1. /\ TypeOK /\ HandlerInv /\ ReadInv /\ SuggestionInv /\ DecisionInv /\ OutcomeInv
      /\ \A s \in suggestions : s \in Suggestion /\ SuggestionOK(s)
      /\ Alone(suggestions)
  BY SuggestionParts DEF AiInv, TypeOK, LedgerType
<1>2. DOMAIN runs \subseteq DOMAIN runs'
  BY <1>1, RunsGrow
<1>3. CASE Undo
  BY <1>1, <1>3, SuggestionUndo
<1>4. CASE EditStep /\ ~Undo
  <2>1. suggestions' \subseteq suggestions /\ annotated' = annotated
    BY <1>4 DEF EditStep, Annotate, Reclassify, Decide, Delete, runVars
  <2>2. ASSUME NEW s \in suggestions' PROVE SuggestionOK(s)'
    <3>1. SuggestionOK(s) /\ s.of \in Transaction /\ s.version \in Nat /\ txn[s.of] # None
      BY <1>1, <2>1, <2>2 DEF Suggestion, SuggestionOK
    <3>2. ~Delete(s.of)
      BY <2>2 DEF Delete
    <3>3. txn'[s.of] # None
      BY <1>1, <1>4, <3>1, <3>2, NoneGone
    <3>4. txn'[s.of] = txn[s.of] \/ txn'[s.of].version = txn[s.of].version + 1
      BY <1>1, <1>4, <3>1, <3>3, EditedRow
    <3>5. txn[s.of].version \in Nat
      BY <1>1, <3>1, RowFacts
    <3>6. CASE txn'[s.of] = txn[s.of]
      BY <1>2, <2>1, <3>1, <3>3, <3>6 DEF SuggestionOK, AsItIs
    <3>7. CASE txn'[s.of].version = txn[s.of].version + 1
      <4>1. s.version < txn'[s.of].version
        BY <3>1, <3>5, <3>7 DEF SuggestionOK, AsItIs
      <4>2. QED
        BY <1>2, <3>1, <3>3, <3>5, <3>7, <4>1 DEF SuggestionOK, AsItIs
    <3>8. QED
      BY <3>4, <3>6, <3>7
  <2>3. Alone(suggestions')
    BY <1>1, <2>1 DEF Alone
  <2>4. QED
    BY <2>2, <2>3 DEF SuggestionInv, SuggestionOK, AsItIs, Alone
<1>5. CASE ~EditStep /\ ~HandlerStep
  <2>1. \A j \in Job : Start(j) => UNCHANGED <<suggestions, txn, annotated>>
    BY DEF Start, txnVars
  <2>2. UNCHANGED <<suggestions, txn, annotated>>
    BY <1>5, <2>1, NextSteps, SettingsChange, QueueChange DEF vars, txnVars, runVars
  <2>3. QED
    BY <1>1, <1>2, <2>2 DEF SuggestionInv, AsItIs
<1>6. CASE HandlerStep
  <2>1. UNCHANGED <<txn, annotated>> /\ run # None
    BY <1>6, HandlerChange DEF txnVars
  <2>2. \/ suggestions' = suggestions
        \/ Stores /\ Asking
    BY <1>6, HandlerRuns DEF Stores
  <2>3. CASE suggestions' = suggestions
    BY <1>1, <1>2, <2>1, <2>3 DEF SuggestionInv, AsItIs
  <2>4. CASE Stores /\ Asking
    <3>1. run.id \in DOMAIN runs
      BY <1>1, <2>1, EndedFacts
    <3>2. \A s \in suggestions : s.run # run.id
      BY <1>1, <2>4 DEF OutcomeInv, Suggests
    <3>3. \A s \in suggestions' :
              \/ s \in suggestions
              \/ /\ s.run = run.id /\ s.of \in Transaction /\ txn[s.of] # None
                 /\ AsItIs(s, s.of)
                 /\ s.version = txn[s.of].version => s.text = txn[s.of].text
                 /\ \A r \in suggestions' : r \notin suggestions /\ r.of = s.of => r = s
      BY <1>1, <2>1, <2>4, StoredSuggestions
    <3>4. \A s \in suggestions' : SuggestionOK(s)
      BY <1>1, <3>1, <3>3 DEF SuggestionOK
    <3>5. Alone(suggestions')
      BY <1>1, <3>2, <3>3 DEF Alone
    <3>6. QED
      BY <1>2, <2>1, <3>4, <3>5 DEF SuggestionInv, SuggestionOK, AsItIs, Alone
  <2>5. QED
    BY <2>2, <2>3, <2>4
<1>7. QED
  BY <1>3, <1>4, <1>5, <1>6

DecisionOK(s) ==
    s.of = decision.of /\ s.run = decision.suggestion =>
        /\ s.class = decision.class
        /\ s.text = decision.text \/ <<s.of, s.run>> \in annotated

\* A decision remembers what the suggestion shown said.
LEMMA DecisionMade ==
    ASSUME AiInv, NEW t \in Transaction, Decide(t)
    PROVE  DecisionInv'
<1>1. /\ TypeOK /\ HandlerInv /\ SuggestionInv /\ OutcomeInv
      /\ \A s \in suggestions : s \in Suggestion /\ SuggestionOK(s)
      /\ Alone(suggestions)
  BY SuggestionParts DEF AiInv, TypeOK, LedgerType
<1>2. /\ UNCHANGED <<run, runs, suggestions, annotated>>
      /\ decision' = [of |-> t, class |-> txn[t].class, text |-> txn[t].text,
                      suggestion |-> IF Current(t) = {} THEN None ELSE Shown(t).run]
      /\ txn[t] # None
  BY DEF Decide, Change, runVars
<1>3. [Touched(txn[t]) EXCEPT !.class = txn[t].version + 1, !.resolved = TRUE] \in Row
  BY <1>1, <1>2, RowFacts, ChangedRow
<1>4. txn'[t] # None
  BY <1>1, <1>3, AiAssumption DEF Decide, TypeOK, LedgerType
<1>5. CASE Current(t) = {}
  <2>1. decision'.suggestion = None /\ decision'.of = t
    BY <1>2, <1>5
  <2>2. None \notin Nat
    BY AiAssumption
  <2>3. \A s \in suggestions : s.run # None
    BY <1>1, <2>2 DEF Suggestion
  <2>4. run # None => run.id # None
    BY <1>1, <2>2, AttemptFacts
  <2>5. QED
    BY <1>2, <1>4, <2>1, <2>3, <2>4 DEF DecisionInv, Asking
<1>6. CASE Current(t) # {}
  <2>1. Shown(t) \in Current(t)
    BY <1>1, <1>6, ShownIsLatest DEF SuggestionInv
  <2>2. PICK s \in suggestions : s = Shown(t) /\ s.of = t /\ s.version = txn[t].version
    BY <2>1 DEF Current
  <2>3. /\ decision'.suggestion = s.run /\ decision'.of = t
        /\ decision'.class = txn[t].class /\ decision'.text = txn[t].text
    BY <1>2, <1>6, <2>2
  <2>4. /\ s.run \in DOMAIN runs /\ s.class = txn[t].class
        /\ s.text = txn[t].text \/ <<t, s.run>> \in annotated
    BY <1>1, <2>2 DEF SuggestionOK, AsItIs
  <2>5. \A r \in suggestions : r.of = t /\ r.run = s.run => r = s
    BY <1>1, <2>2 DEF Alone
  <2>6. Asking => s.run # run.id
    BY <1>1 DEF OutcomeInv, Suggests
  <2>7. QED
    BY <1>2, <1>4, <2>2, <2>3, <2>4, <2>5, <2>6 DEF DecisionInv, Asking
<1>7. QED
  BY <1>5, <1>6

LEMMA DecisionKept ==
    ASSUME AiInv, [Next]_vars
    PROVE  DecisionInv'
<1>1. TypeOK /\ HandlerInv /\ DecisionInv
      /\ \A s \in suggestions : s \in Suggestion
  BY DEF AiInv, TypeOK, LedgerType
<1>2. DOMAIN runs \subseteq DOMAIN runs'
  BY <1>1, RunsGrow
<1>3. CASE decision' = None
  BY <1>3 DEF DecisionInv
<1>4. ASSUME NEW t \in Transaction, Decide(t) PROVE DecisionInv'
  BY <1>4, DecisionMade
<1>5. ASSUME NEW t \in Transaction, Annotate(t) \/ Reclassify(t) \/ Delete(t),
             decision' # None
      PROVE  DecisionInv'
  <2>1. /\ UNCHANGED <<run, runs, decision, annotated>> /\ suggestions' \subseteq suggestions
        /\ Delete(t) => decision.of # t
    BY <1>5 DEF Annotate, Reclassify, Delete, runVars
  <2>2. decision # None /\ decision.of \in Transaction /\ txn[decision.of] # None
    BY <1>1, <1>5, <2>1 DEF DecisionInv, TypeOK, LedgerType, DecisionRow
  <2>3. ~Delete(decision.of)
    BY <1>5, <2>1 DEF Delete
  <2>4. txn'[decision.of] # None
    BY <1>1, <1>5, <2>2, <2>3, NoneGone DEF EditStep
  <2>5. QED
    BY <1>1, <2>1, <2>2, <2>4 DEF DecisionInv, Asking
<1>6. CASE ~EditStep /\ decision' # None
  <2>1. \A j \in Job : Start(j) => UNCHANGED <<suggestions, txn, annotated, decision>>
    BY DEF Start, txnVars
  <2>2. UNCHANGED <<txn, annotated, decision>>
    BY <1>6, <2>1, NextSteps, SettingsChange, QueueChange, HandlerChange DEF vars, txnVars
  <2>3. decision.suggestion \in DOMAIN runs \/ decision.suggestion = None
    BY <1>1, <1>6, <2>2 DEF DecisionInv
  <2>4. Asking' => decision.suggestion # run'.id
    <3>1. ASSUME NEW j \in Job, Start(j) PROVE decision.suggestion # run'.id
      <4>1. run'.id \notin DOMAIN runs /\ run'.id \in Nat
        BY <1>1, <3>1, StartedRuns
      <4>2. QED
        BY <2>3, <4>1, AiAssumption
    <3>2. CASE ~\E j \in Job : Start(j)
      <4>1. run' = None \/ (run # None /\ run'.id = run.id)
        BY <1>1, <3>2, RequestSteps DEF SameRequest
      <4>2. Asking' => Asking
        <5>1. CASE HandlerStep
          <6>1. run' = None \/ Asking
            BY <5>1, HandlerRuns
          <6>2. QED
            BY <6>1 DEF Asking
        <5>2. CASE ~HandlerStep
          BY <1>6, <3>2, <5>2, NextSteps, SettingsChange, QueueChange DEF vars, runVars, Asking
        <5>3. QED
          BY <5>1, <5>2
      <4>3. QED
        BY <1>1, <1>6, <2>2, <4>1, <4>2 DEF DecisionInv, Asking
    <3>3. QED
      BY <3>1, <3>2
  <2>5. \A s \in suggestions : DecisionOK(s)
    BY <1>1, <1>6, <2>2 DEF DecisionInv, DecisionOK
  <2>6. \A s \in suggestions' : DecisionOK(s)
    <3>1. CASE HandlerStep /\ Stores /\ Asking
      <4>1. run # None
        BY <3>1, HandlerChange
      <4>2. \A s \in suggestions' : s \in suggestions \/ s.run = run.id
        <5>1. ReadInv
          BY DEF AiInv
        <5>2. QED
          BY <1>1, <3>1, <4>1, <5>1, StoredSuggestions
      <4>3. decision.suggestion # run.id
        BY <1>1, <1>6, <2>2, <3>1 DEF DecisionInv
      <4>4. QED
        BY <2>5, <4>2, <4>3 DEF DecisionOK
    <3>2. CASE suggestions' = suggestions
      BY <2>5, <3>2
    <3>3. suggestions' = suggestions \/ (HandlerStep /\ Stores /\ Asking)
      BY <1>6, <2>1, NextSteps, SettingsChange, QueueChange, HandlerRuns DEF vars, runVars, Stores
    <3>4. QED
      BY <3>1, <3>2, <3>3
  <2>7. QED
    BY <1>1, <1>2, <1>6, <2>2, <2>4, <2>6 DEF DecisionInv, DecisionOK
<1>7. Undo => decision' = None
  BY DEF Undo
<1>8. QED
  BY <1>3, <1>4, <1>5, <1>6, <1>7 DEF EditStep

\* A job that has succeeded stays so, and a dead or late run is remembered.
LEMMA OverIsOver ==
    ASSUME AiInv, [Next]_vars
    PROVE  /\ \A j \in Job : phase[j] = "succeeded" => phase'[j] = "succeeded"
           /\ killed \subseteq killed' /\ lapsed \subseteq lapsed'
<1>1. phase \in [Job -> {"absent", "queued", "running"} \cup Jobs!Outcome]
  BY DEF AiInv, TypeOK, JobType
<1>2. ASSUME NEW i \in Job, Start(i) \/ StartRefused(i) \/ StartUnavailable(i) \/ Cancel(i)
                            \/ Recover(i) \/ \E ts \in Selection : Enqueue(i, ts)
      PROVE  /\ phase[i] # "succeeded" /\ \E p : phase' = [phase EXCEPT ![i] = p]
             /\ UNCHANGED <<killed, lapsed>>
  <2>1. phase[i] # "succeeded"
    BY <1>2 DEF Start, Claim, StartRefused, StartUnavailable, Cancel, Active, Recover, Enqueue,
                Jobs!Submit
  <2>2. /\ \E p : phase' = [phase EXCEPT ![i] = p]
        /\ UNCHANGED <<killed, lapsed>>
    BY <1>2 DEF Start, StartRefused, StartUnavailable, Cancel, Recover, GiveUp, Enqueue, runVars
  <2>3. QED
    BY <2>1, <2>2
<1>3. CASE HandlerStep
  <2>1. killed \subseteq killed' /\ lapsed \subseteq lapsed'
    BY <1>3 DEF HandlerStep, Answer, ProviderFails, AnswerLost, StoreFails, Complete, Crash, Throw
  <2>2. \/ UNCHANGED phase
        \/ StillActive /\ \E p : phase' = [phase EXCEPT ![run.job] = p]
        \/ phase' = [phase EXCEPT ![run.job] = "succeeded"]
    BY <1>3 DEF HandlerStep, Answer, ProviderFails, AnswerLost, StoreFails, Complete, Crash, Throw,
                GiveUp, jobVars
  <2>3. QED
    BY <1>1, <2>1, <2>2 DEF StillActive
<1>4. CASE LeaseLapses
  BY <1>4 DEF LeaseLapses
<1>5. CASE SettingsStep \/ EditStep \/ UNCHANGED vars
  BY <1>5, SettingsChange, EditChange DEF vars, jobVars, runVars
<1>6. QED
  BY <1>1, <1>2, <1>3, <1>4, <1>5, NextSteps DEF QueueStep

\* A handler that has stored its answers is the only one, and nobody else is heard.
LEMMA StoringSteps ==
    ASSUME AiInv, [Next]_vars, Storing'
    PROVE  IF held' THEN phase'[run'.job] = "running" ELSE run'.id \in lapsed'
<1>1. TypeOK /\ (Storing => IF held THEN phase[run.job] = "running" ELSE run.id \in lapsed)
  BY DEF AiInv, OutcomeInv
<1>2. ASSUME NEW j \in Job, Start(j) PROVE FALSE
  BY <1>1, <1>2, StartedRun DEF Storing
<1>3. CASE HandlerStep
  <2>1. run \in Attempt /\ run # None
    BY <1>1, <1>3, HandlerChange, AttemptFacts
  <2>2. \A f, t : Request([run EXCEPT !.found = f], t).step = run.step
    BY <2>1 DEF Request, Attempt
  <2>3. \A f : LET next == [run EXCEPT !.step = "stored", !.found = f]
               IN  next.id = run.id /\ next.job = run.job
    BY <2>1 DEF Attempt
  <2>4. Stores /\ StillActive /\ UNCHANGED jobVars
    BY <1>3, <2>2, HandlerRuns DEF Stores, Storing, Asking
  <2>5. QED
    BY <2>3, <2>4 DEF Stores, StillActive, jobVars
<1>4. CASE SettingsStep \/ EditStep \/ UNCHANGED vars
  BY <1>1, <1>4, SettingsChange, EditChange DEF vars, jobVars, runVars, Storing
<1>5. CASE QueueStep
  <2>1. run' = run /\ Storing
    BY <1>5, QueueChange DEF Storing
  <2>2. LeaseLapses
    BY <1>5, <2>1 DEF QueueStep, Enqueue, Cancel, Recover, StartRefused, StartUnavailable, Claim,
                      Storing
  <2>3. QED
    BY <2>1, <2>2 DEF LeaseLapses
<1>6. QED
  BY <1>2, <1>3, <1>4, <1>5, NextSteps

LEMMA AskingSteps ==
    ASSUME AiInv, [Next]_vars, Asking'
    PROVE  Suggests(run.id)' = {}
<1>1. /\ TypeOK /\ HandlerInv /\ SuggestionInv
      /\ (Asking => \A s \in suggestions : s.run # run.id)
  BY DEF AiInv, OutcomeInv, Suggests
<1>2. ASSUME NEW j \in Job, Start(j) PROVE \A s \in suggestions' : s.run # run'.id
  <2>1. run'.id \notin DOMAIN runs /\ suggestions' = suggestions
    BY <1>1, <1>2, StartedRuns DEF Start
  <2>2. QED
    BY <1>1, <2>1 DEF SuggestionInv
<1>3. CASE ~\E j \in Job : Start(j)
  <2>1. run # None /\ run'.id = run.id
    BY <1>1, <1>3, RequestSteps DEF SameRequest, Asking
  <2>2. Asking
    <3>1. CASE HandlerStep
      <4>1. run' = None \/ Asking
        BY <3>1, HandlerRuns
      <4>2. QED
        BY <4>1 DEF Asking
    <3>2. CASE ~HandlerStep
      BY <1>3, <3>2, NextSteps, SettingsChange, EditChange, QueueChange DEF vars, runVars, Asking
    <3>3. QED
      BY <3>1, <3>2
  <2>3. run \in Attempt
    BY <1>1, <2>1, AttemptFacts
  <2>4. ~Stores
    <3>1. \A f : [run EXCEPT !.step = "stored", !.found = f].step = "stored"
      BY <2>3 DEF Attempt
    <3>2. QED
      BY <3>1 DEF Stores, Asking
  <2>5. \A s \in suggestions' : \E r \in suggestions : s.run = r.run /\ s.of = r.of
    BY <1>1, <2>4, SuggestionsStep
  <2>6. QED
    BY <1>1, <2>1, <2>2, <2>5 DEF Suggests
<1>4. QED
  BY <1>2, <1>3 DEF Suggests

Settled(i) ==
    Suggests(i) # {} => \/ i \in killed \cup lapsed
                        \/ Storing /\ run.id = i
                        \/ phase[runs[i].job] = "succeeded"

LEMMA SettledKept ==
    ASSUME AiInv, [Next]_vars, NEW i \in DOMAIN runs', Suggests(i)' # {}
    PROVE  \/ i \in killed' \cup lapsed'
           \/ Storing' /\ run'.id = i
           \/ phase'[runs'[i].job] = "succeeded"
<1>1. /\ TypeOK /\ HandlerInv /\ SuggestionInv /\ OutcomeInv
      /\ \A k \in DOMAIN runs : Settled(k)
  BY DEF AiInv, OutcomeInv, Settled
<1>2. /\ DOMAIN runs \subseteq DOMAIN runs'
      /\ \A k \in DOMAIN runs : runs'[k].job = runs[k].job /\ runs[k].job \in Job
  <2>1. \A k \in DOMAIN runs : runs[k] \in RunRecord
    BY <1>1 DEF TypeOK, RunType
  <2>2. QED
    BY <1>1, <2>1, RunsGrow DEF RunRecord
<1>3. CASE HandlerStep /\ Stores /\ Asking
  <2>1. run # None /\ run \in Attempt
    BY <1>1, <1>3, HandlerChange, AttemptFacts
  <2>2. Storing' /\ run'.id = run.id
    <3>1. PICK f \in {run.found, run.found \cup {run.asking}} :
             run' = [run EXCEPT !.step = "stored", !.found = f]
      BY <1>3 DEF Stores
    <3>2. f \in SUBSET Transaction
      BY <1>1, <2>1, AttemptFacts
    <3>3. run' \in Attempt
      BY <1>1, <2>1, <3>1, <3>2, AttemptGoesOn, AttemptFacts
    <3>4. run'.id = run.id /\ run'.step = "stored"
      BY <2>1, <3>1 DEF Attempt
    <3>5. QED
      BY <3>3, <3>4, AiAssumption DEF Storing
  <2>3. \A s \in suggestions' : s \in suggestions \/ s.run = run.id
    <3>1. ReadInv
      BY DEF AiInv
    <3>2. QED
      BY <1>1, <1>3, <2>1, <3>1, StoredSuggestions
  <2>4. CASE i # run.id
    <3>1. Suggests(i) # {}
      BY <2>3, <2>4 DEF Suggests
    <3>2. i \in DOMAIN runs
      BY <1>1, <3>1 DEF SuggestionInv, Suggests
    <3>3. i \in killed \cup lapsed \/ phase[runs[i].job] = "succeeded"
      BY <1>1, <1>3, <3>1, <3>2 DEF Settled, Storing, Asking
    <3>4. QED
      BY <1>2, <3>2, <3>3, OverIsOver
  <2>5. QED
    BY <2>2, <2>4
<1>4. CASE ~(HandlerStep /\ Stores /\ Asking)
  <2>1. \A s \in suggestions' : \E r \in suggestions : s.run = r.run /\ s.of = r.of
    BY <1>1, <1>4, SuggestionsStep
  <2>2. Suggests(i) # {}
    BY <2>1 DEF Suggests
  <2>3. i \in DOMAIN runs
    BY <1>1, <2>2 DEF SuggestionInv, Suggests
  <2>4. \/ i \in killed \cup lapsed
        \/ Storing /\ run.id = i
        \/ phase[runs[i].job] = "succeeded"
    BY <1>1, <2>2, <2>3 DEF Settled
  <2>5. CASE Storing /\ run.id = i
    <3>1. ASSUME HandlerStep
          PROVE  i \in killed' \cup lapsed' \/ phase'[runs'[i].job] = "succeeded"
      <4>1. Complete \/ Crash
        BY <2>5, <3>1 DEF HandlerStep, Answer, ProviderFails, AnswerLost, StoreFails, Storing, Asking
      <4>2. CASE Crash
        BY <2>5, <4>2 DEF Crash
      <4>3. CASE Complete /\ held
        <5>1. runs'[i].job = run.job /\ run.job \in Job
          BY <1>1, <1>2, <2>3, <2>5, AttemptFacts DEF HandlerInv, Storing
        <5>2. phase' = [phase EXCEPT ![run.job] = "succeeded"]
          BY <4>3 DEF Complete
        <5>3. QED
          BY <1>1, <5>1, <5>2 DEF TypeOK, JobType
      <4>4. CASE Complete /\ ~held
        <5>1. i \in lapsed
          BY <1>1, <2>5, <4>4 DEF OutcomeInv
        <5>2. QED
          BY <5>1, OverIsOver
      <4>5. QED
        BY <4>1, <4>2, <4>3, <4>4
    <3>2. ASSUME ~HandlerStep PROVE run' = run
      <4>1. \A j \in Job : ~Start(j)
        BY <2>5 DEF Start, Claim, Storing
      <4>2. QED
        BY <3>2, <4>1, NextSteps, SettingsChange, EditChange, QueueChange DEF vars, runVars
    <3>3. QED
      BY <2>5, <3>1, <3>2 DEF Storing
  <2>6. CASE ~(Storing /\ run.id = i)
    BY <1>2, <2>3, <2>4, <2>6, OverIsOver
  <2>7. QED
    BY <2>5, <2>6
<1>5. QED
  BY <1>3, <1>4

LEMMA OutcomeKept ==
    ASSUME AiInv, [Next]_vars
    PROVE  OutcomeInv'
<1>1. Asking' => Suggests(run.id)' = {}
  BY AskingSteps
<1>2. QED
  BY <1>1, StoringSteps, SettledKept DEF OutcomeInv

\* RunsAccountedFor, a run at a time.
Accounted(i) ==
    /\ runs[i].status = "running" => i \in killed \/ (Asking /\ run.id = i)
    /\ Suggests(i) # {} => runs[i].status = "succeeded" \/ i \in lapsed

Apart(i, k) ==
    i < k /\ runs[i].job = runs[k].job /\ i \notin killed \cup lapsed
        => Suggests(i) \cap Suggests(k) = {}

LEMMA AccountedKept ==
    ASSUME AiInv, [Next]_vars, NEW i \in DOMAIN runs'
    PROVE  /\ runs'[i].status = "running" => i \in killed' \/ (Asking' /\ run'.id = i)
           /\ Suggests(i)' # {} => runs'[i].status = "succeeded" \/ i \in lapsed'
<1>1. /\ TypeOK /\ HandlerInv /\ SuggestionInv /\ OutcomeInv /\ ReadInv
      /\ \A k \in DOMAIN runs : Accounted(k)
  BY DEF AiInv, RunsAccountedFor, Accounted
<1>2. killed \subseteq killed' /\ lapsed \subseteq lapsed'
  BY OverIsOver
<1>3. ASSUME NEW j \in Job, Start(j)
      PROVE  /\ runs'[i].status = "running" => i \in killed' \/ (Asking' /\ run'.id = i)
             /\ Suggests(i)' # {} => runs'[i].status = "succeeded" \/ i \in lapsed'
  <2>1. /\ run = None /\ Asking' /\ suggestions' = suggestions /\ run'.id \notin DOMAIN runs
        /\ DOMAIN runs' = DOMAIN runs \cup {run'.id}
        /\ \A k \in DOMAIN runs : runs'[k] = runs[k]
    BY <1>1, <1>3, StartedRun, StartedRuns DEF Start, Asking
  <2>2. CASE i = run'.id
    BY <1>1, <2>1, <2>2 DEF SuggestionInv, Suggests
  <2>3. CASE i \in DOMAIN runs
    BY <1>1, <1>2, <2>1, <2>3 DEF Accounted, Suggests, Asking
  <2>4. QED
    BY <2>1, <2>2, <2>3
<1>4. CASE HandlerStep
  <2>1. run # None /\ run \in Attempt /\ run.id \in DOMAIN runs
    BY <1>1, <1>4, HandlerChange, AttemptFacts, EndedFacts
  <2>2. ASSUME Stores, Asking
        PROVE  /\ runs'[i].status = "running" => i \in killed' \/ (Asking' /\ run'.id = i)
               /\ Suggests(i)' # {} => runs'[i].status = "succeeded" \/ i \in lapsed'
    <3>1. /\ DOMAIN runs' = DOMAIN runs /\ runs'[run.id].status = "succeeded"
          /\ \A k \in DOMAIN runs : k # run.id => runs'[k] = runs[k]
      BY <1>1, <2>1, <2>2, EndedFacts DEF Stores
    <3>2. \A s \in suggestions' : s \in suggestions \/ s.run = run.id
      BY <1>1, <2>1, <2>2, StoredSuggestions
    <3>3. CASE i = run.id
      BY <3>1, <3>3
    <3>4. CASE i # run.id
      <4>1. runs'[i] = runs[i] /\ Accounted(i)
        BY <1>1, <3>1, <3>4
      <4>2. Suggests(i)' # {} => Suggests(i) # {}
        BY <3>2, <3>4 DEF Suggests
      <4>3. QED
        BY <1>2, <3>4, <4>1, <4>2 DEF Accounted
    <3>5. QED
      BY <3>3, <3>4
  <2>3. ASSUME ~(Stores /\ Asking)
        PROVE  /\ runs'[i].status = "running" => i \in killed' \/ (Asking' /\ run'.id = i)
               /\ Suggests(i)' # {} => runs'[i].status = "succeeded" \/ i \in lapsed'
    <3>1. suggestions' = suggestions
      BY <1>4, <2>3, HandlerRuns DEF Stores
    <3>2. \/ run' = None
          \/ Asking' /\ Asking /\ run'.id = run.id /\ runs' = runs
      <4>1. \A f, t : LET next == Request([run EXCEPT !.found = f], t)
                      IN  next.step = run.step /\ next.id = run.id
        BY <2>1 DEF Request, Attempt
      <4>2. QED
        BY <1>4, <2>3, <4>1, HandlerRuns DEF Stores, Asking
    <3>3. CASE Asking' /\ Asking /\ run'.id = run.id /\ runs' = runs
      BY <1>1, <1>2, <3>1, <3>3 DEF Accounted, Suggests
    <3>4. CASE run' = None
      <4>1. \/ Crash
            \/ Asking /\ \E status \in {"cancelled", "failed"} : runs' = Ended(status)
            \/ /\ Complete
               /\ runs' = runs \/ (~held /\ runs' = Ended("cancelled"))
        <5>1. ASSUME NEW known \in BOOLEAN, Answer(known) PROVE FALSE
          <6>1. Found(known) \in SUBSET Transaction
            BY <1>1, <2>1, AttemptFacts DEF Found
          <6>2. run' \in Attempt
            <7>1. PICK found \in SUBSET Transaction : found = Found(known)
              BY <6>1
            <7>2. \/ \E t \in run.todo : run' = Request([run EXCEPT !.found = found], t)
                  \/ run' = [run EXCEPT !.step = "stored", !.found = found]
              BY <5>1, <7>1 DEF Answer
            <7>3. \A t \in run.todo : Request([run EXCEPT !.found = found], t) \in Attempt
              BY <1>1, <2>1, AttemptGoesOn, AttemptFacts
            <7>4. [run EXCEPT !.step = "stored", !.found = found] \in Attempt
              BY <1>1, <2>1, AttemptGoesOn, AttemptFacts
            <7>5. QED
              BY <7>2, <7>3, <7>4
          <6>3. QED
            BY <3>4, <6>2, AiAssumption
        <5>2. ASSUME Complete PROVE runs' = runs \/ (~held /\ runs' = Ended("cancelled"))
          BY <5>2 DEF Complete
        <5>3. QED
          BY <1>4, <5>1, <5>2 DEF HandlerStep, ProviderFails, AnswerLost, StoreFails, Throw
      <4>2. CASE Crash
        BY <1>1, <1>2, <3>1, <4>2 DEF Crash, Accounted, Suggests
      <4>3. ASSUME Asking, NEW status \in {"cancelled", "failed"}, runs' = Ended(status)
            PROVE  /\ runs'[i].status = "running" => i \in killed'
                   /\ Suggests(i)' # {} => runs'[i].status = "succeeded" \/ i \in lapsed'
        <5>1. /\ DOMAIN runs' = DOMAIN runs /\ runs'[run.id].status = status
              /\ \A k \in DOMAIN runs : k # run.id => runs'[k] = runs[k]
          BY <1>1, <2>1, <4>3, EndedFacts
        <5>2. Suggests(run.id) = {}
          BY <1>1, <4>3 DEF OutcomeInv
        <5>3. QED
          BY <1>1, <1>2, <3>1, <5>1, <5>2 DEF Accounted, Suggests
      <4>4. CASE Complete /\ runs' = runs
        BY <1>1, <1>2, <3>1, <4>4 DEF Complete, Storing, Asking, Accounted, Suggests
      <4>5. CASE Complete /\ ~held /\ runs' = Ended("cancelled")
        <5>1. /\ DOMAIN runs' = DOMAIN runs /\ runs'[run.id].status = "cancelled"
              /\ \A k \in DOMAIN runs : k # run.id => runs'[k] = runs[k]
          BY <1>1, <2>1, <4>5, EndedFacts
        <5>2. run.id \in lapsed
          BY <1>1, <4>5 DEF OutcomeInv, Complete
        <5>3. QED
          BY <1>1, <1>2, <3>1, <5>1, <5>2 DEF Accounted, Suggests
      <4>6. QED
        BY <4>1, <4>2, <4>3, <4>4, <4>5
    <3>5. QED
      BY <3>2, <3>3, <3>4
  <2>4. QED
    BY <2>2, <2>3
<1>5. CASE ~HandlerStep /\ ~\E j \in Job : Start(j)
  <2>1. UNCHANGED <<run, runs, killed>>
    BY <1>5, NextSteps, SettingsChange, EditChange, QueueChange DEF vars, runVars
  <2>2. \A s \in suggestions' : \E r \in suggestions : s.run = r.run /\ s.of = r.of
    BY <1>1, <1>5, SuggestionsStep
  <2>3. Suggests(i)' # {} => Suggests(i) # {}
    BY <2>2 DEF Suggests
  <2>4. QED
    BY <1>1, <1>2, <2>1, <2>3 DEF Accounted, Asking
<1>6. QED
  BY <1>3, <1>4, <1>5

LEMMA ApartKept ==
    ASSUME AiInv, [Next]_vars, NEW i \in DOMAIN runs', NEW k \in DOMAIN runs',
           i < k, runs'[i].job = runs'[k].job, i \notin killed' \cup lapsed'
    PROVE  (Suggests(i) \cap Suggests(k))' = {}
<1>1. /\ TypeOK /\ HandlerInv /\ SuggestionInv /\ OutcomeInv /\ ReadInv
      /\ \A a, b \in DOMAIN runs : Apart(a, b)
      /\ \A a \in DOMAIN runs : Settled(a)
  BY DEF AiInv, RunsAccountedFor, Apart, OutcomeInv, Settled
<1>2. i \notin killed \cup lapsed
  BY OverIsOver
<1>3. /\ DOMAIN runs \subseteq DOMAIN runs'
      /\ \A a \in DOMAIN runs : runs'[a].job = runs[a].job
  BY <1>1, RunsGrow
<1>4. CASE HandlerStep /\ Stores /\ Asking /\ StillActive
  <2>1. run # None /\ run \in Attempt /\ run.id \in DOMAIN runs
    BY <1>1, <1>4, HandlerChange, AttemptFacts, EndedFacts
  <2>2. DOMAIN runs' = DOMAIN runs
    BY <1>1, <1>4, <2>1, EndedFacts DEF Stores
  <2>3. \A s \in suggestions' : s \in suggestions \/ s.run = run.id
    BY <1>1, <1>4, <2>1, StoredSuggestions
  <2>4. i # run.id
    BY <2>1, <2>2, <1>1 DEF HandlerInv, TypeOK, RunType
  <2>5. Suggests(i)' \subseteq Suggests(i)
    BY <2>3, <2>4 DEF Suggests
  <2>6. CASE k # run.id
    <3>1. Suggests(k)' \subseteq Suggests(k)
      BY <2>3, <2>6 DEF Suggests
    <3>2. QED
      BY <1>1, <1>2, <1>3, <2>2, <2>5, <3>1 DEF Apart
  <2>7. CASE k = run.id
    <3>1. runs[i].job = run.job
      BY <1>1, <1>3, <2>1, <2>2, <2>7 DEF HandlerInv
    <3>2. phase[run.job] = "running"
      BY <1>4 DEF StillActive
    <3>3. ~Storing
      BY <1>4 DEF Storing, Asking
    <3>4. Suggests(i) = {}
      BY <1>1, <1>2, <2>2, <3>1, <3>2, <3>3 DEF Settled
    <3>5. QED
      BY <2>5, <3>4
  <2>8. QED
    BY <2>6, <2>7
<1>5. CASE \A s \in suggestions' : \E r \in suggestions : s.run = r.run /\ s.of = r.of
  <2>1. Suggests(i)' \subseteq Suggests(i) /\ Suggests(k)' \subseteq Suggests(k)
    BY <1>5 DEF Suggests
  <2>2. CASE i \in DOMAIN runs /\ k \in DOMAIN runs
    BY <1>1, <1>2, <1>3, <2>1, <2>2 DEF Apart
  <2>3. CASE i \notin DOMAIN runs \/ k \notin DOMAIN runs
    <3>1. Suggests(i) = {} \/ Suggests(k) = {}
      BY <1>1, <2>3 DEF SuggestionInv, Suggests
    <3>2. QED
      BY <2>1, <3>1
  <2>4. QED
    BY <2>2, <2>3
<1>6. QED
  BY <1>1, <1>4, <1>5, SuggestionsStep

LEMMA RunsKept ==
    ASSUME AiInv, [Next]_vars
    PROVE  RunsAccountedFor'
<1>1. ASSUME NEW i \in DOMAIN runs'
      PROVE  /\ runs'[i].status = "running" => i \in killed' \/ (Asking' /\ run'.id = i)
             /\ Suggests(i)' # {} => runs'[i].status = "succeeded" \/ i \in lapsed'
  BY AccountedKept
<1>2. ASSUME NEW i \in DOMAIN runs', NEW k \in DOMAIN runs',
             i < k, runs'[i].job = runs'[k].job, i \notin killed' \cup lapsed'
      PROVE  (Suggests(i) \cap Suggests(k))' = {}
  BY <1>2, ApartKept
<1>3. QED
  BY <1>1, <1>2 DEF RunsAccountedFor

LEMMA InitInv == Init => AiInv
<1> SUFFICES ASSUME Init PROVE AiInv
  OBVIOUS
<1>1. TypeOK
  BY TypeInit
<1>2. run = None /\ runs = <<>> /\ suggestions = {} /\ provider = None /\ decision = None
  BY DEF Init
<1>3. DOMAIN runs = {}
  BY <1>2
<1>4. QED
  BY <1>1, <1>2, <1>3 DEF AiInv, HandlerInv, SettingsInv, RequestInv, ReadInv, SuggestionInv,
                          DecisionInv, OutcomeInv, RunsAccountedFor, Asking, Storing

LEMMA TypeStep ==
    ASSUME TypeOK, HandlerInv, SuggestionInv, [Next]_vars
    PROVE  TypeOK'
<1>1. \A s \in suggestions : s.run \in DOMAIN runs
  BY DEF SuggestionInv
<1>2. UNCHANGED vars => TypeOK'
  BY TypeKept DEF vars, TypeOK, runVars, txnVars
<1>3. QED
  BY <1>1, <1>2, NextSteps, TypeSettings, TypeEdit, TypeQueue, TypeHandler, TypeStart

\* The invariant that the theorems rest on.
THEOREM AiInvariant == Spec => []AiInv
<1>1. Init => AiInv
  BY InitInv
<1>2. AiInv /\ [Next]_vars => AiInv'
  <2> SUFFICES ASSUME AiInv, [Next]_vars PROVE AiInv'
    OBVIOUS
  <2>1. TypeOK' /\ HandlerInv' /\ ReadInv'
    BY TypeStep, HandlerKept, ReadKept DEF AiInv
  <2>2. SettingsInv' /\ RequestInv'
    BY SettingsKept, RequestKept
  <2>3. SuggestionInv' /\ DecisionInv' /\ OutcomeInv' /\ RunsAccountedFor'
    BY SuggestionKept, DecisionKept, OutcomeKept, RunsKept
  <2>4. QED
    BY <2>1, <2>2, <2>3 DEF AiInv
<1>3. QED
  BY <1>1, <1>2, PTL DEF Spec

\* What is sent goes to an endpoint that the user saved with this key, and
\* everything about a transaction only to one on this machine (AiProviderStore,
\* buildAiTransactionPayload).
THEOREM SentAsSaved == Spec => []RequestAsSaved
<1>1. AiInv => RequestAsSaved
  BY DEF AiInv, RequestInv, RequestAsSaved, Asking
<1>2. QED
  BY <1>1, AiInvariant, PTL

\* No slow answer, edit, decision or undoing makes an old suggestion current,
\* but for an edit of the note before the undoing (#restoreSnapshot).
THEOREM ShownAsItIs == Spec => []ShownIsCurrent
<1>1. AiInv => ShownIsCurrent
  BY DEF AiInv, SuggestionInv, AsItIs, ShownIsCurrent, Current
<1>2. QED
  BY <1>1, AiInvariant, PTL

\* The recorded runs say what became of their handlers, and a job suggests once
\* about a transaction, however often it is tried (persistResults, the job queue).
THEOREM RunsTold == Spec => []RunsAccountedFor
<1>1. AiInv => RunsAccountedFor
  BY DEF AiInv
<1>2. QED
  BY <1>1, AiInvariant, PTL
=============================================================================
