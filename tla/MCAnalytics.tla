----------------------------- MODULE MCAnalytics -----------------------------
EXTENDS Analytics, TLC

CONSTANTS a1, a2, a3, food, home, spare, shop, t1, t2, t3, i1, i2

Booking(account, direction, day) ==
    [account |-> account, direction |-> direction, amount |-> 4, day |-> day,
     narration |-> "transfer"]

\* Two of a week apart that may be a transfer, and one a week later.
Bookings == t1 :> Booking(a1, "debit", 1) @@ t2 :> Booking(a2, "credit", 8)
                @@ t3 :> Booking(a1, "debit", 15)
Statements == i1 :> {t1, t2, t3} @@ i2 :> {t3}
Reconciliation2 == i1 :> "matched" @@ i2 :> "mismatched"
Types == {"unclassified", "transfer", "expense", "income", "refund"}
Flags == {"income", "essential", "discretionary", "refund"}
FirstCategories == food :> {"essential"} @@ home :> {}

AccountEdits == {[owned |-> FALSE, name |-> "new"]}
CategoryEdits ==
    [parent : {food, home}]
        \cup {[archived |-> TRUE],
              [archived |-> FALSE, flags |-> "discretionary" :> TRUE @@ "income" :> TRUE]}
PartyEdits == {[name |-> "new"]}
TransactionEdits ==
    {[category |-> home, scope |-> "business"], [party |-> shop], [type |-> "refund"]}
Selections == {{t1}, {t2, t3}}
Partings(t) ==
    IF t # t3 THEN {} ELSE
    {<<[category |-> food, amount |-> 1, scope |-> "personal"],
       [category |-> home, amount |-> n, scope |-> "business"]>> : n \in {2, 3}}
Opinions == {[category |-> food, type |-> "income"]}

Asked(first, last, scopes, metrics, exclude, comparison) ==
    [first |-> first, last |-> last, accounts |-> {a1, a2}, scopes |-> scopes,
     metrics |-> metrics, excludeInternal |-> exclude, comparison |-> comparison]

Queries ==
    {Asked(8, 15, Scope, {"spending.by_category", "cashflow.by_account"}, TRUE,
           "previous_period")}

\* Allocations of a fortnight and a day, two of them the parts of one transaction:
\* three of a week apart, a transfer between own accounts, a refund and a reversal.
Part(of, part, account, day, direction, amount, type, category, narration) ==
    [of |-> of, part |-> part, account |-> account, day |-> day, direction |-> direction,
     amount |-> amount, type |-> type, scope |-> "personal", category |-> category,
     narration |-> narration, party |-> None, confidence |-> "high", review |-> "needs_review",
     internal |-> type = "transfer", duplicates |-> part, reconciled |-> "matched",
     flags |-> IF category = food THEN {"essential"} ELSE {},
     labels |-> [e \in {a1, a2, food, home} |-> e], balance |-> None]

Pool ==
    {Part(1, 0, a1, 1, "debit", 3, "expense", food, "rent"),
     Part(1, 1, a1, 1, "debit", 1, "expense", home, "rent"),
     Part(2, 0, a1, 8, "debit", 4, "fee", food, "rent"),
     Part(3, 0, a2, 15, "debit", 9, "cash_withdrawal", None, "rent"),
     Part(4, 0, a1, 15, "debit", 5, "transfer", None, "own"),
     Part(5, 0, a2, 15, "credit", 5, "transfer", None, "own"),
     Part(6, 0, a2, 7, "credit", 6, "income", None, "pay"),
     Part(7, 0, a1, 7, "credit", 2, "refund", None, "reversal")}

\* With the running balances of accounts that begin with 20.
WithBalances(rows) ==
    {[r EXCEPT !.balance = 20 + Net({s \in rows : s.account = r.account /\ ~Earlier(r, s)})] :
        r \in rows}

Values(result) == MapThenSumSet(LAMBDA item : item.value, result.breakdown)
Within(result, low, high) == result.value = None \/ result.value \in low..high

\* What the metrics of a context must be to each other: an amount is in one place
\* of a breakdown, and what is counted in two ways is the same.
Agree(x) ==
    LET all(id) == Metric(id, x)
        value(id) == Metric(id, x).value
        days == all("cashflow.cumulative").breakdown
        spent == value("behaviour.change")
        count == value("cashflow.transaction_count")
    IN /\ value("cashflow.net") = value("cashflow.total_inflow") - value("cashflow.total_outflow")
       /\ \A id \in {"cashflow.by_day", "cashflow.by_account"} : Values(all(id)) = value(id)
       /\ days # {} => value("cashflow.net") =
              (CHOOSE item \in days : \A other \in days : other.key <= item.key).value
       /\ \A id \in {"spending.by_category", "spending.by_counterparty", "spending.by_weekday",
                     "spending.by_day"} : value(id) = spent /\ Values(all(id)) = spent
       /\ value("spending.recurring") + value("spending.variable") = spent
       /\ value("spending.essential") + value("spending.discretionary") <= spent
       /\ value("spending.fees") + value("spending.cash_withdrawals") <= spent
       /\ Within(all("spending.concentration"), 0, 10000)
       /\ Within(all("spending.unusual"), 0, spent)
       /\ \A id \in {"income.by_source", "income.by_weekday", "income.by_day"} :
              Values(all(id)) = value(id)
       /\ value("income.recurring") + value("income.irregular") = value("income.by_source")
       /\ Within(all("income.concentration"), 0, 10000)
       /\ (value("savings.estimated_rate") = None) = (value("behaviour.expense_income_ratio") = None)
       /\ value("savings.estimated_rate") # None =>
              value("savings.estimated_rate") + value("behaviour.expense_income_ratio") = 10000
       /\ value("cashflow.average_inflow") <= value("cashflow.largest_inflow")
       /\ value("cashflow.average_outflow") <= value("cashflow.largest_outflow")
       /\ value("cashflow.median_transaction") <=
              Max({value("cashflow.largest_inflow"), value("cashflow.largest_outflow")})
       /\ (value("cashflow.inflow_outflow_ratio") = None) = (value("cashflow.total_outflow") = 0)
       /\ \A id \in {"behaviour.activity_by_weekday", "behaviour.activity_by_day",
                     "behaviour.account_usage", "quality.confidence_distribution",
                     "quality.reconciliation"} : Values(all(id)) = value(id) /\ value(id) >= count
       /\ Within(all("behaviour.no_spend_days"), 0, x.days)
       /\ value("behaviour.average_daily_activity")[1] >= count
       /\ Within(all("behaviour.weekend_share"), 0, 10000)
       /\ Within(all("quality.classification_coverage"), 0, 10000)
       /\ value("quality.review_queue") >= count
       /\ Values(all("quality.duplicate_sources")) = value("quality.duplicate_sources")
       /\ value("behaviour.savings_transfers") = 0
       /\ all("adjustments.refunds").ids \cap all("adjustments.reversals").ids = {}
       /\ ~x.inclusive => value("cashflow.total_outflow") =
              spent + MapThenSumSet(LAMBDA r : r.amount,
                          {r \in Debits(x.rows) : r.type = "transfer" /\ ~r.internal})
       /\ value("transfers.internal") <= Sum(x.rows) /\ value("transfers.external") = 0
       /\ value("balance.opening") # None =>
              /\ value("balance.opening") = 20 * Cardinality(x.accounts)
              /\ value("balance.closing") - value("balance.opening") = Net(x.rows)
       /\ value("balance.lowest") # None =>
              value("balance.closing") \in value("balance.lowest")..value("balance.highest")

ASSUME MetricsAgree ==
    \A rows \in SUBSET Pool, inclusive \in BOOLEAN :
        Agree([rows |-> IF inclusive THEN WithBalances(rows) ELSE rows, days |-> 16,
               inclusive |-> inclusive, whole |-> TRUE, accounts |-> {r.account : r \in rows}])

=============================================================================
