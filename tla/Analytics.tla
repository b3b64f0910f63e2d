------------------------------ MODULE Analytics ------------------------------
(***************************************************************************)
(* The analytics engine (packages/db/src/analytics-engine.ts) over the     *)
(* workspace: a query selects metrics of a period, calculates them from    *)
(* the booked transactions, compares them with another period, and keeps   *)
(* the answer in analytics_metric_cache until an invalidation evicts it.   *)
(*                                                                         *)
(* A day is its midnight: a moment is the day it falls on, and a period is *)
(* the half-open interval of moments from its first day to the day after   *)
(* its last one.  There is one currency and one time zone.                 *)
(***************************************************************************)
EXTENDS Workspace

CONSTANTS
    Query,       \* the queries asked: first and last day, accounts, scopes,
                 \* metrics, excludeInternalTransfers, comparison
    Reconciled   \* Reconciled[i]: reconciliation_status of import i

ASSUME AnalyticsAssumption ==
    \A q \in Query : /\ q.first \in Int /\ q.last \in Int /\ q.first <= q.last
                     /\ q.accounts # {} /\ q.scopes # {} /\ q.metrics # {}
                     /\ q.comparison \in {"none", "previous_period"}

VARIABLES
    cache,      \* analytics_metric_cache
    unaware,    \* history: queries answered before an import was deleted
    overtaken   \* history: queries answered before a change of a transaction in
                \* the period they compare with

vars == <<workspace, cache, unaware, overtaken>>

INSTANCE Metrics

-----------------------------------------------------------------------------
(* The allocations of a period: the transactions, or the parts of the split    *)
(* ones.                                                                       *)
Has(part, row, flag) ==
    LET c == IF part.category # None THEN part.category ELSE row.category
    IN c # None /\ flag \in flags[c]

Reconciliations(statuses) ==
    IF "mismatched" \in statuses THEN "mismatched"
    ELSE IF "matched" \in statuses THEN "matched" ELSE "unknown"

Allocation(t, k) ==
    LET row == books[t]
        part == Parts(t)[k]
    IN [of |-> t, part |-> k, account |-> Bank[t].account, day |-> Bank[t].day,
        direction |-> Bank[t].direction, narration |-> Bank[t].narration,
        type |-> row.type, amount |-> part.amount, scope |-> part.scope,
        category |-> part.category, party |-> row.party, confidence |-> row.confidence,
        review |-> row.review, internal |-> row.pair # None,
        flags |-> {f \in Flag : Has(part, row, f)}, labels |-> named,
        duplicates |-> Cardinality(row.duplicates),
        reconciled |-> Reconciliations({Reconciled[i] : i \in Sources(row)}),
        balance |-> None]

\* #context.  No parser stores the balances that a statement prints.
Context(q, first, last) ==
    [rows |-> {a \in UNION {{Allocation(t, k) : k \in DOMAIN Parts(t)} :
                            t \in {u \in Booked : /\ Bank[u].account \in q.accounts
                                                  /\ Bank[u].day \in first..last}} :
               a.scope \in q.scopes},
     days |-> last + 1 - first,
     inclusive |-> ~q.excludeInternal, accounts |-> q.accounts, whole |-> q.scopes = Scope]

-----------------------------------------------------------------------------
(* A query.                                                                    *)

\* comparisonDates: as many days, just before.
Before(q) == [first |-> 2 * q.first - q.last - 1, last |-> q.first - 1]

CurrentContext(q) == Context(q, q.first, q.last)
PreviousContext(q) == Context(q, Before(q).first, Before(q).last)

\* What a metric was before, where both are available; the changes follow from it.
Compared(current, previous) ==
    IF current.value = None \/ previous.value = None THEN None
    ELSE [value |-> previous.value, ids |-> previous.ids]

Calculated(q) ==
    LET x == CurrentContext(q)
        y == PreviousContext(q)
    IN [id \in q.metrics |->
           LET result == Metric(id, x)
           IN [result |-> result,
               comparison |-> IF q.comparison = "none" THEN None
                              ELSE Compared(result, Metric(id, y))]]

FaultyEvicted(q) ==
    \E p \in pending :
        p.day = None \/ (q.first <= p.day /\ q.last > p.day)

\* #consumeInvalidations: start_at <= moment < end_at of the cached period.
Evicted(q) ==
    \E p \in pending :
        p.day = None \/ (q.first <= p.day /\ q.last + 1 > p.day)

Kept == {q \in Query : cache[q] # None /\ ~Evicted(q)}

\* query with useCache: the answer is served from the cache, or calculated and kept.
Ask(q) ==
    /\ q.accounts \subseteq known
    /\ pending' = {}
    /\ cache' = [r \in Query |->
           IF r \in Kept THEN cache[r] ELSE IF r = q THEN Calculated(q) ELSE None]
    /\ unaware' = unaware \cap Kept
    /\ overtaken' = overtaken \cap Kept
    /\ UNCHANGED <<entities, tree, books, changes>>

\* query without useCache.
AskAfresh(q) ==
    /\ q.accounts \subseteq known
    /\ pending' = {}
    /\ cache' = [r \in Query |-> IF r \in Kept THEN cache[r] ELSE None]
    /\ unaware' = unaware \cap Kept
    /\ overtaken' = overtaken \cap Kept
    /\ UNCHANGED <<entities, tree, books, changes>>

\* A change of the workspace; the histories record which answers it is not seen by.
Change ==
    /\ WorkspaceNext
    /\ unaware' = IF Committed \subseteq Committed' THEN unaware
                  ELSE unaware \cup {q \in Query : cache[q] # None}
    /\ overtaken' = overtaken \cup
           {q \in Query : /\ cache[q] # None /\ q.comparison # "none"
                          /\ \E p \in pending' : p.day \in Before(q).first..Before(q).last}
    /\ UNCHANGED cache

Init ==
    /\ WorkspaceInit
    /\ cache = [q \in Query |-> None]
    /\ unaware = {} /\ overtaken = {}

Next ==
    \/ Change
    \/ \E q \in Query : Ask(q) \/ AskAfresh(q)

Spec == Init /\ [][Next]_vars

-----------------------------------------------------------------------------
\* An answer served from the cache is what a calculation would give now, whatever
\* was edited, split, paired, merged, renamed, imported or reclassified since: the
\* comparison too, unless a transaction of the period compared with was changed,
\* and all of it, unless an import was deleted (query, #consumeInvalidations).
AnswersAreCurrent ==
    \A q \in Kept \ unaware : LET now == Calculated(q) IN
        \A id \in q.metrics : /\ cache[q][id].result = now[id].result
                              /\ q \notin overtaken => cache[q][id] = now[id]

\* The parts of a split are as much as the bank booked, whatever was replaced or
\* merged since.
SplitsAddUp ==
    \A t \in Booked : books[t].splits # <<>> => Total(books[t].splits) = Bank[t].amount

\* No part is both essential and discretionary spending.
NoneTwiceSpent ==
    \A q \in Query : \A r \in SpendingRows(CurrentContext(q)) :
        ~({"essential", "discretionary"} \subseteq r.flags)

\* What came in less what went out in a period is what the bank booked in it.
NetAsBooked ==
    \A q \in Query : q.scopes = Scope =>
        Net(CurrentContext(q).rows) = MapThenSumSet(LAMBDA t : Signed(Bank[t]),
            {t \in Booked : /\ Bank[t].account \in q.accounts
                            /\ Bank[t].day \in q.first..q.last})

\* The money of a period is counted once: through any edits, splits, merges and
\* imports the allocations of a period make up what the bank booked in it, and each
\* of them is counted on one side.
MoneyCountedOnce == SplitsAddUp /\ NoneTwiceSpent /\ NetAsBooked

=============================================================================
