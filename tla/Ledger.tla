------------------------------- MODULE Ledger -------------------------------
(***************************************************************************)
(* The booked transactions and what they are classified as                 *)
(* (packages/db/src/classification-engine.ts, classification-review.ts,    *)
(* transaction-workspace.ts): rules, the statement wording and the user's  *)
(* own history classify automatically; the user edits, splits, pairs       *)
(* transfers, decides groups of doubtful transactions, lets a decision be  *)
(* remembered as a rule, and undoes decisions; an AI provider suggests.    *)
(*                                                                         *)
(* Every method is one SQLite transaction: it happens as a whole or, where *)
(* it throws, not at all.  The classified columns are the category and the *)
(* type; counterparty and scope are written by the same statements.  What *)
(* a rule or the wording test sees of a transaction besides its type is    *)
(* taken not to change: constants give it; Wording reads the narrations.   *)
(* Times only tell whether a decision or a suggestion is older than the    *)
(* last change of its transaction: `stale', and the absence of a           *)
(* suggestion.                                                             *)
(***************************************************************************)
EXTENDS Wording

CONSTANTS
    Transaction,
    Category, TransferCategory,
    Type,            \* transaction_type; contains "unclassified" and "transfer"
    Party,           \* Party[t]: the counterparty of t, or None
    Narration,       \* Narration[t]: the words of the narration of t
    Bank,            \* Bank[t]: what BankSays of t, with a category of the workspace
    Internal,        \* the pairs {t, u} confirmTransfer accepts: opposite sides
                     \* of one amount on two owned accounts
    Draft,           \* the rules a user may write
    Action,          \* the classifications a user or the AI may choose
    Correction,      \* the edits a user may make: columns, and review state or None
    MaxRules, MaxReviews,      \* bounds: rules and review decisions ever made
    MaxChanges,                \* bound: edits, decisions and changes of rules
    None

Fields == [category : Category \cup {None}, type : Type]

\* A suggestion names some of the columns.
Suggestion ==
    {s \in UNION {[columns -> Category \cup Type] : columns \in SUBSET {"category", "type"}} :
        /\ "category" \in DOMAIN s => s.category \in Category
        /\ "type" \in DOMAIN s => s.type \in Type}

Overlay(suggestion, fields) ==
    [c \in DOMAIN fields |-> IF c \in DOMAIN suggestion THEN suggestion[c] ELSE fields[c]]

Source == {"unclassified", "automatic", "manual"}
ReviewState == {"unreviewed", "needs_review", "reviewed"}

\* classification_decisions, with the rules it names.
Verdict ==
    [source : Source, suggestion : Suggestion \cup {None}, winner : Nat \cup {None},
     conflicts : SUBSET Nat, doubtful : BOOLEAN, stale : BOOLEAN]

Row ==
    [fields : Fields, source : Source, review : ReviewState, pair : Transaction \cup {None},
     split : BOOLEAN, origin : Fields \cup {None}, verdict : Verdict \cup {None},
     ai : Suggestion \cup {None}]

RuleRow ==
    [on : SUBSET Transaction, types : SUBSET Type, action : Suggestion, priority : Int,
     specificity : Nat, sure : BOOLEAN, enabled : BOOLEAN]

Key == [t \in Transaction |-> NarrationKey(Narration[t])]

\* The transactions reviewed together with t, if nothing but the narration counts.
Kindred == [t \in Transaction |-> {u \in Transaction : u = t \/ Similar(Key[t], Key[u], 72)}]

\* Of more than two narrations the first would be the one the others are compared
\* with: here that makes no difference.
ASSUME LedgerAssumption ==
    /\ \A t \in Transaction : \A u \in Kindred[t] : Kindred[u] = Kindred[t]
    /\ TransferCategory \in Category
    /\ {"unclassified", "transfer"} \subseteq Type
    /\ Action \subseteq Suggestion \ {<<>>}
    /\ Draft \subseteq RuleRow
    /\ \A t \in Transaction : Bank[t] \in Suggestion \cup {None}
    /\ \A c \in Correction :
          /\ DOMAIN c.columns \subseteq {"category", "type"}
          /\ c.review \in ReviewState \cup {None}
          /\ \A fields \in Fields : Overlay(c.columns, fields) \in Fields
    /\ Internal \subseteq {{t, u} : t \in Transaction, u \in Transaction}
    /\ \A t \in Transaction : {t} \notin Internal
    /\ None \notin Transaction \cup Category \cup Type
    /\ None \notin Nat \cup Row \cup RuleRow \cup Verdict \cup Suggestion
    /\ MaxRules \in Nat /\ MaxReviews \in Nat

VARIABLES
    ledger,     \* transactions with classification_decisions, the oldest of the
                \* last automatic revisions and the AI suggestion still valid
    rules,      \* classification_rules in the order of creation, None if deleted
    reviews,    \* classification_review_actions
    changes     \* how often the user changed the ledger or the rules

vars == <<ledger, rules, reviews, changes>>

Rule == {r \in DOMAIN rules : rules[r] # None}
Booked == {t \in Transaction : ledger[t] # None}

\* currentSuggestion: the columns that have a value.
AsSuggestion(fields) ==
    [c \in {d \in DOMAIN fields : fields[d] # None} |-> fields[c]]

WithoutSplitCategory(row, suggestion) ==
    IF row.split THEN [c \in DOMAIN suggestion \ {"category"} |-> suggestion[c]]
                 ELSE suggestion

-----------------------------------------------------------------------------
(* #evaluateCandidate: a confirmed decision of the user, a confirmed transfer, *)
(* the rules, the bank's wording, the user's history, in this order.           *)

Outranks(a, b) ==
    a.priority > b.priority \/ (a.priority = b.priority /\ a.specificity > b.specificity)

Matching(l, rs, t) ==
    {r \in DOMAIN rs : /\ rs[r] # None /\ rs[r].enabled
                       /\ t \in rs[r].on /\ l[t].fields.type \in rs[r].types}

Top(l, rs, t) ==
    {r \in Matching(l, rs, t) : \A q \in Matching(l, rs, t) : ~Outranks(rs[q], rs[r])}

Conflicting(rs, top) ==
    {r \in top : \E q \in top : \E c \in DOMAIN rs[r].action \cap DOMAIN rs[q].action :
                     rs[r].action[c] # rs[q].action[c]}

Merged(rs, top) ==
    [c \in UNION {DOMAIN rs[r].action : r \in top} |->
        LET r == CHOOSE q \in top : c \in DOMAIN rs[q].action IN rs[r].action[c]]

First(top) == CHOOSE r \in top : \A q \in top : r <= q

Evaluation(source, suggestion, winner, conflicts, doubtful) ==
    [source |-> source, suggestion |-> suggestion, winner |-> winner,
     conflicts |-> conflicts, doubtful |-> doubtful, stale |-> FALSE]

ByTop(row, rs, top) ==
    IF Conflicting(rs, top) # {}
    THEN Evaluation("automatic", None, None, Conflicting(rs, top), TRUE)
    ELSE Evaluation("automatic", WithoutSplitCategory(row, Merged(rs, top)),
                    First(top), {}, ~rs[First(top)].sure)

ByRule(l, rs, t) == ByTop(l[t], rs, Top(l, rs, t))

\* consistentHistoricalAction: what the user confirmed of those transactions, if
\* it is the same for all.
Precedent(l, alike) ==
    LET confirmed == {l[u].fields : u \in {v \in alike : l[v] # None /\ l[v].source = "manual"}}
    IN IF Cardinality(confirmed) # 1 THEN None
       ELSE AsSuggestion(CHOOSE fields \in confirmed : TRUE)

OfParty(t) == {u \in Transaction \ {t} : Party[t] # None /\ Party[u] = Party[t]}
OfNarration(t) == {u \in Transaction \ {t} : Key[t] # <<>> /\ Key[u] = Key[t]}
OfSimilar(t) == {u \in Transaction \ {t} : Similar(Key[t], Key[u], 82)}

FaultyEvaluate(l, rs, t) ==
    IF Matching(l, rs, t) # {} THEN ByRule(l, rs, t)
    ELSE IF l[t].source = "manual"
    THEN Evaluation("manual", AsSuggestion(l[t].fields), None, {}, FALSE)
    ELSE Evaluation("unclassified", None, None, {}, TRUE)

Evaluate(l, rs, t) ==
    LET row == l[t]
        automatic(suggestion, doubtful) ==
            Evaluation("automatic", WithoutSplitCategory(row, suggestion), None, {}, doubtful)
    IN IF row.source = "manual"
       THEN Evaluation("manual", AsSuggestion(row.fields), None, {}, FALSE)
       ELSE IF row.pair # None
       THEN Evaluation("automatic", [category |-> TransferCategory, type |-> "transfer"],
                       None, {}, FALSE)
       ELSE IF Matching(l, rs, t) # {} THEN ByRule(l, rs, t)
       ELSE IF Bank[t] # None THEN automatic(Bank[t], TRUE)
       ELSE IF Precedent(l, OfParty(t)) # None
       THEN automatic(Precedent(l, OfParty(t)), FALSE)
       ELSE IF Precedent(l, OfNarration(t)) # None
       THEN automatic(Precedent(l, OfNarration(t)), TRUE)
       ELSE IF Precedent(l, OfSimilar(t)) # None
       THEN automatic(Precedent(l, OfSimilar(t)), TRUE)
       ELSE Evaluation("unclassified", None, None, {}, TRUE)

\* #automaticBaseline: the columns as they were before the automatic revisions
\* that nothing else has followed.
Baseline(row) == IF row.origin = None THEN row.fields ELSE row.origin

\* #persistEvaluation.  The change of updated_at outdates an AI suggestion.
Persist(row, verdict) ==
    [row EXCEPT
        !.fields = IF verdict.source = "manual" THEN @
                   ELSE IF verdict.suggestion = None THEN Baseline(row)
                   ELSE Overlay(verdict.suggestion, Baseline(row)),
        !.source = verdict.source,
        !.review = IF verdict.doubtful THEN "needs_review" ELSE @,
        !.origin = Baseline(row), !.verdict = verdict, !.ai = None]

Classified(l, rs, ts) ==
    [t \in Transaction |-> IF t \in ts /\ l[t] # None THEN Persist(l[t], Evaluate(l, rs, t))
                                              ELSE l[t]]

Fresh(row) == row.verdict # None /\ ~row.verdict.stale

\* #refreshStale
Refreshed(l) ==
    Classified(l, rules, {t \in Transaction : l[t] # None /\ ~Fresh(l[t])})

-----------------------------------------------------------------------------
Init ==
    /\ ledger = [t \in Transaction |-> None]
    /\ rules = <<>>
    /\ reviews = <<>>
    /\ changes = 0

\* An import books t, under an id never used, and classifies what is unclassified.
Book(t) ==
    /\ ledger[t] = None
    /\ \A k \in DOMAIN reviews : t \notin DOMAIN reviews[k].before
    /\ LET row == [fields |-> [category |-> None, type |-> "unclassified"],
                   source |-> "unclassified", review |-> "unreviewed", pair |-> None,
                   split |-> FALSE, origin |-> None, verdict |-> None, ai |-> None]
           l == [ledger EXCEPT ![t] = row]
       IN ledger' = Classified(l, rules, {u \in Transaction : /\ l[u] # None
                                                             /\ l[u].source = "unclassified"})
    /\ UNCHANGED <<rules, reviews, changes>>

\* The import of these transactions is deleted.  Deleting a side of a confirmed
\* transfer would clear the other side's pair, which a CHECK refuses.
Delete(ts) ==
    /\ ts \subseteq Booked
    /\ \A t \in ts : ledger[t].pair = None
    /\ ledger' = [t \in Transaction |-> IF t \in ts THEN None ELSE ledger[t]]
    /\ UNCHANGED <<rules, reviews, changes>>

\* A change by the user: a manual revision and a new updated_at.
Change(ts) ==
    /\ ts \subseteq Booked
    /\ changes < MaxChanges
    /\ changes' = changes + 1

Touched(row) ==
    [row EXCEPT !.origin = None, !.ai = None,
                !.verdict = IF @ = None THEN None ELSE [@ EXCEPT !.stale = TRUE]]

\* updateTransaction and bulkUpdate: new values for some columns, for the review
\* state, or for neither (the scope, the narration, the note).
Edit(ts, columns, review) ==
    /\ Change(ts)
    /\ "type" \in DOMAIN columns /\ columns.type # "transfer" =>
           \A t \in ts : ledger[t].pair = None
    /\ ledger' = [t \in Transaction |-> IF t \notin ts THEN ledger[t] ELSE
           [Touched(ledger[t]) EXCEPT
               !.fields = Overlay(columns, @),
               !.source = IF columns = <<>> THEN @ ELSE "manual",
               !.review = IF review = None THEN @ ELSE review]]
    /\ UNCHANGED <<rules, reviews>>

ReplaceSplits(t) ==
    /\ Change({t})
    /\ ledger' = [ledger EXCEPT ![t] =
           [Touched(@) EXCEPT !.split = TRUE, !.source = "manual", !.review = "reviewed"]]
    /\ UNCHANGED <<rules, reviews>>

\* Both sides are free, or paired with each other already.
ConfirmTransfer(t, u) ==
    /\ {t, u} \in Internal /\ Change({t, u})
    /\ ledger[t].pair \in {None, u} /\ ledger[u].pair \in {None, t}
    /\ LET side(v, w) == [Touched(ledger[v]) EXCEPT
               !.fields.type = "transfer", !.pair = w,
               !.source = "manual", !.review = "reviewed"]
       IN ledger' = [ledger EXCEPT ![t] = side(t, u), ![u] = side(u, t)]
    /\ UNCHANGED <<rules, reviews>>

-----------------------------------------------------------------------------
(* Rules.  A change re-evaluates the transactions the rule matched before it   *)
(* and those it matches after it.                                              *)
Matched(l, rs, r) == {t \in Transaction : l[t] # None /\ r \in Matching(l, rs, t)}

CreateRule(draft) ==
    /\ Len(rules) < MaxRules
    /\ Change({})
    /\ rules' = Append(rules, draft)
    /\ ledger' = Classified(ledger, rules', Matched(ledger, rules', Len(rules')))
    /\ UNCHANGED reviews

FaultyUpdateRule(r, draft) ==
    /\ r \in Rule
    /\ Change({})
    /\ rules' = [rules EXCEPT ![r] = draft]
    /\ ledger' = Classified(ledger, rules', Matched(ledger, rules', r))
    /\ UNCHANGED reviews

UpdateRule(r, draft) ==
    /\ r \in Rule
    /\ Change({})
    /\ rules' = [rules EXCEPT ![r] = draft]
    /\ ledger' = Classified(ledger, rules',
                     Matched(ledger, rules, r) \cup Matched(ledger, rules', r))
    /\ UNCHANGED reviews

\* ON DELETE SET NULL of classification_decisions.winner_rule_id.
Disowned(l, r) ==
    [t \in Transaction |->
        IF l[t] # None /\ l[t].verdict # None /\ l[t].verdict.winner = r
        THEN [l[t] EXCEPT !.verdict.winner = None] ELSE l[t]]

WithoutRule(l, r) ==
    Classified(Disowned(l, r), [rules EXCEPT ![r] = None], Matched(l, rules, r))

DeleteRule(r) ==
    /\ r \in Rule
    /\ Change({})
    /\ rules' = [rules EXCEPT ![r] = None]
    /\ ledger' = WithoutRule(ledger, r)
    /\ reviews' = [k \in DOMAIN reviews |->
           IF reviews[k].rule = r THEN [reviews[k] EXCEPT !.rule = None] ELSE reviews[k]]

\* reorderRules: the priorities become the places in the list, above the default 0.
Reorder(place) ==
    /\ Change({})
    /\ rules' = [r \in DOMAIN rules |->
           IF r \in Rule THEN [rules[r] EXCEPT !.priority = place[r]] ELSE None]
    /\ ledger' = Classified(ledger, rules', Booked)
    /\ UNCHANGED reviews

-----------------------------------------------------------------------------
(* The review queue.                                                           *)
InQueue(row) ==
    /\ row.verdict # None
    /\ \/ row.review = "needs_review"
       \/ row.review # "reviewed" /\ (row.verdict.doubtful \/ row.ai # None)

GroupKey(l, t) ==
    IF l[t].verdict.conflicts # {} THEN <<"conflict", l[t].verdict.conflicts>>
    ELSE IF Party[t] # None THEN <<"counterparty", Party[t]>>
    ELSE <<"narration", Kindred[t]>>

Group(l, t) ==
    {u \in Transaction : l[u] # None /\ InQueue(l[u]) /\ GroupKey(l, u) = GroupKey(l, t)}

Shown(row) == IF row.ai # None THEN row.ai ELSE row.verdict.suggestion

GroupSuggestion(l, group) ==
    LET shown == {Shown(l[t]) : t \in group}
    IN IF Cardinality(shown) = 1 /\ shown \cap {None, <<>>} = {}
       THEN CHOOSE s \in shown : TRUE ELSE None

\* listGroups
ListGroups ==
    /\ ledger' = Refreshed(ledger)
    /\ UNCHANGED <<rules, reviews, changes>>

\* A finished AI run for t: t was refreshed, and if it was unresolved it gets a
\* suggestion (an answer for an older version of t is never used).
Suggest(t, answer) ==
    /\ t \in Booked
    /\ LET l == IF Fresh(ledger[t]) THEN ledger ELSE Classified(ledger, rules, {t})
           unresolved == l[t].source # "manual" /\ l[t].pair = None /\ l[t].review # "reviewed"
       IN ledger' = IF unresolved THEN [l EXCEPT ![t].ai = answer] ELSE l
    /\ UNCHANGED <<rules, reviews, changes>>

Snapshot(row) ==
    [fields |-> row.fields, source |-> row.source, review |-> row.review,
     verdict |-> row.verdict, ai |-> row.ai]

\* #rememberedRule for a group whose first transaction is t.
Remembered(l, group, t, action) ==
    LET byParty == l[t].verdict.conflicts = {} /\ Party[t] # None
        order == <<t>> \o SetToSeq(group \ {t})
        texts == [k \in DOMAIN order |-> Narration[order[k]]]
        condition == RememberedCondition(texts)
        rule(kind, on, operator) ==
            [on |-> on, types |-> Type, action |-> action, priority |-> 0,
             specificity |-> Specificity(kind, <<operator>>), sure |-> Sure(kind), enabled |-> TRUE]
    IN IF byParty
       THEN rule("counterparty", {u \in Transaction : Party[u] = Party[t]}, "equals")
       ELSE rule(RememberedKind(texts), {u \in Transaction : Holds(condition, Narration[u])},
                 condition.operator)

\* #applyTransactionDecision, and what makes it throw: a category for a split
\* transaction, or the CHECK that a confirmed transfer stays one.
Decidable(row, action) ==
    action # None => /\ ~(row.split /\ "category" \in DOMAIN action)
                     /\ row.pair # None => Overlay(action, row.fields).type = "transfer"

Decided(row, action) ==
    [Touched(row) EXCEPT
        !.fields = IF action = None THEN @ ELSE Overlay(action, @),
        !.source = IF action = None THEN @ ELSE "manual",
        !.review = "reviewed",
        !.verdict = Evaluation("manual", IF action = None THEN row.verdict.suggestion
                                                          ELSE action, None, {}, FALSE)]

\* The decision on each transaction of ts, in a ledger l that has been shown with
\* the suggestions of `shown' and reclassified by the remembered rule, if any.
Apply(shown, l, ts, decision, choice, rule) ==
    LET applied(u) == CASE decision = "accept" -> Shown(l[u])
                        [] decision = "change" -> choice
                        [] decision = "ignore" -> None
    IN /\ \A u \in ts : /\ Decidable(l[u], applied(u))
                        /\ decision # "ignore" => applied(u) # None
       /\ ledger' = [u \in Transaction |-> IF u \in ts THEN Decided(l[u], applied(u)) ELSE l[u]]
       /\ reviews' = Append(reviews,
              [decision |-> decision, before |-> [u \in ts |-> Snapshot(shown[u])],
               rule |-> rule, undone |-> FALSE])

DecideOn(shown, t, ts, decision, choice, remember) ==
    LET group == Group(shown, t)
        action == IF decision = "change" THEN choice ELSE GroupSuggestion(shown, group)
    IN /\ t \in group /\ ts \subseteq group
       /\ remember => ts = group
       /\ decision # "ignore" => action # None
       /\ IF remember /\ action # None
          THEN /\ Len(rules) < MaxRules
               /\ rules' = Append(rules, Remembered(shown, group, t, action))
               /\ Apply(shown, Classified(shown, rules', Matched(shown, rules', Len(rules'))),
                        ts, decision, choice, Len(rules'))
          ELSE /\ UNCHANGED rules
               /\ Apply(shown, shown, ts, decision, choice, None)

\* applyDecision on the group of t: on the transactions ts of it, or on all of it,
\* remembered for the future or not.
Decide(t, ts, decision, choice, remember) ==
    /\ Len(reviews) < MaxReviews
    /\ Change(ts)
    /\ DecideOn(Refreshed(ledger), t, ts, decision, choice, remember)

\* #restoreSnapshot
Restored(l, before) ==
    [t \in Transaction |-> IF t \notin DOMAIN before THEN l[t] ELSE
        [l[t] EXCEPT !.fields = before[t].fields, !.source = before[t].source,
                     !.review = before[t].review, !.verdict = before[t].verdict,
                     !.ai = before[t].ai, !.origin = None]]

FaultyRestorable(before) ==
    \A t \in DOMAIN before :
        t \in Booked /\ before[t].verdict.winner \in Rule \cup {None}

\* A snapshot cannot be restored once its transaction or the rule it names is
\* gone, nor into a transfer confirmed since unless it was one.
Restorable(before) ==
    \A t \in DOMAIN before :
        /\ t \in Booked
        /\ before[t].verdict.winner \in Rule \cup {None}
        /\ ledger[t].pair # None => before[t].fields.type = "transfer"

FaultyUndo(k) ==
    LET before == reviews[k].before
        r == reviews[k].rule
    IN /\ ~reviews[k].undone
       /\ Restorable(before)
       /\ ledger' = Restored(IF r = None THEN ledger ELSE WithoutRule(ledger, r), before)
       /\ rules' = IF r = None THEN rules ELSE [rules EXCEPT ![r] = None]
       /\ reviews' = [reviews EXCEPT ![k].undone = TRUE, ![k].rule = None]
       /\ UNCHANGED changes

\* undoDecision: with a remembered rule still there, the snapshots are restored,
\* the rule is deleted, and the snapshots are restored again.
Undo(k) ==
    LET before == reviews[k].before
        r == reviews[k].rule
    IN /\ ~reviews[k].undone
       /\ Restorable(before)
       /\ ledger' = Restored(IF r = None THEN ledger
                             ELSE WithoutRule(Restored(ledger, before), r), before)
       /\ rules' = IF r = None THEN rules ELSE [rules EXCEPT ![r] = None]
       /\ reviews' = [reviews EXCEPT ![k].undone = TRUE, ![k].rule = None]
       /\ UNCHANGED changes

-----------------------------------------------------------------------------
Edited ==
    \E ts \in (SUBSET Transaction) \ {{}} :
        \/ Delete(ts)
        \/ \E c \in Correction : Edit(ts, c.columns, c.review)

Ruled ==
    \/ \E draft \in Draft : CreateRule(draft) \/ \E r \in Rule : UpdateRule(r, draft)
    \/ \E r \in Rule : DeleteRule(r)
    \/ \E place \in [Rule -> 1..Cardinality(Rule)] :
           (\A q, r \in Rule : q # r => place[q] # place[r]) /\ Reorder(place)

Reviewed ==
    \/ ListGroups
    \/ \E t \in Transaction, answer \in {a \in Action : DOMAIN a = {"category", "type"}} :
           Suggest(t, answer)
    \/ \E t \in Booked, ts \in (SUBSET Transaction) \ {{}}, remember \in BOOLEAN :
           \/ \E choice \in Action : Decide(t, ts, "change", choice, remember)
           \/ \E decision \in {"accept", "ignore"} : Decide(t, ts, decision, None, remember)
    \/ \E k \in DOMAIN reviews : Undo(k)

Next ==
    \/ \E t \in Transaction : Book(t) \/ ReplaceSplits(t)
    \/ \E t, u \in Transaction : ConfirmTransfer(t, u)
    \/ Edited \/ Ruled \/ Reviewed

Spec == Init /\ [][Next]_vars

-----------------------------------------------------------------------------
\* Rows have their types, and a verdict names only a rule that still exists.
TypeOK ==
    /\ ledger \in [Transaction -> Row \cup {None}]
    /\ \A t \in Booked : ledger[t].verdict # None =>
           /\ ledger[t].verdict.winner \in Rule \cup {None}
           /\ ledger[t].verdict.conflicts \subseteq DOMAIN rules
    /\ Len(rules) <= MaxRules
    /\ Len(reviews) <= MaxReviews
    /\ \A k \in DOMAIN reviews : reviews[k].rule \in Rule \cup {None}

\* A confirmed transfer is one for both of its sides, whatever is edited,
\* decided, undone, reclassified or deleted after it: confirmTransfer,
\* deleteImport and the CHECKs of transactions.
PairsSymmetric ==
    \A t \in Booked : LET u == ledger[t].pair IN
        u # None => /\ u \in Booked \ {t} /\ ledger[u].pair = t
                    /\ ledger[t].fields.type = "transfer"

\* What the user does to t: an edit, a transfer, a decision on it or its undoing.
ByUser(t) ==
    \/ \E ts \in SUBSET Transaction, c \in Correction :
           t \in ts /\ c.columns # <<>> /\ Edit(ts, c.columns, c.review)
    \/ \E u \in Transaction : ConfirmTransfer(t, u) \/ ConfirmTransfer(u, t)
    \/ \E k \in DOMAIN reviews' :
           /\ t \in DOMAIN reviews'[k].before
           /\ k \in DOMAIN reviews => reviews'[k].undone # reviews[k].undone

\* What the user confirmed of a transaction only the user changes: no rule made,
\* changed, reordered or deleted, no import, no AI run and no decision on another
\* transaction does (`Kept your confirmed classification', evaluateCandidate).
ManualKept ==
    [][\A t \in Booked : ledger[t].source = "manual" /\ ledger'[t] # None =>
           \/ ledger'[t].fields = ledger[t].fields /\ ledger'[t].source = "manual"
           \/ ByUser(t)]_vars

\* Undoing a decision brings back what its transactions were, and what its
\* remembered rule matched besides is classified without the rule and without
\* the undone decision as a precedent (the comment in undoDecision).
UndoLeavesNoTrace ==
    [][\A k \in DOMAIN reviews : reviews'[k].undone # reviews[k].undone =>
           LET before == reviews[k].before
               r == reviews[k].rule
           IN /\ \A t \in DOMAIN before : Snapshot(ledger'[t]) = before[t]
              /\ r # None =>
                    /\ rules'[r] = None
                    /\ \A u \in Matched(ledger, rules, r) \ DOMAIN before :
                          ledger'[u].verdict = Evaluate([ledger' EXCEPT ![u] = ledger[u]], rules', u)]_vars

\* Where no rule asks for the type, the classifications are those of the rules as
\* they are now, after any creations, changes, reorderings and deletions of them:
\* re-evaluating only what a changed rule matched is enough.  Transactions whose
\* decision was undone are excepted: they get the verdict back they had before.
RulesInForce ==
    (\A draft \in Draft : draft.types = Type) =>
    \A t \in Booked :
        LET row == ledger[t]
            now == ByRule(ledger, rules, t)
        IN (/\ Fresh(row) /\ row.pair = None /\ row.verdict.source # "manual"
            /\ \A k \in DOMAIN reviews : t \in DOMAIN reviews[k].before => ~reviews[k].undone)
           => IF Matching(ledger, rules, t) = {}
              THEN row.verdict.winner = None /\ row.verdict.conflicts = {}
              ELSE row.verdict = now

=============================================================================
