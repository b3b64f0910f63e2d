------------------------------ MODULE Metrics ------------------------------
(***************************************************************************)
(* The metrics of the analytics (REGISTRY of                               *)
(* packages/db/src/analytics-engine.ts): each is a function of a context,  *)
(* the allocations of a period.  An allocation is a transaction or a part  *)
(* of a split one: see module Analytics.                                   *)
(*                                                                         *)
(* Day 0 is a Sunday.  A breakdown is a set of items, its order left out;  *)
(* a ratio that is not rounded is the pair of its terms.  Left out is      *)
(* income.variability, which takes a square root.                          *)
(***************************************************************************)
EXTENDS Integers, Sequences, FiniteSets, FiniteSetsExt

CONSTANT None

-----------------------------------------------------------------------------
(* Results, and the selections of rows the metrics share.                      *)
Ids(rows) == {r.of : r \in rows}
Sum(rows) == MapThenSumSet(LAMBDA r : r.amount, rows)
Signed(r) == IF r.direction = "credit" THEN r.amount ELSE -r.amount
Net(rows) == MapThenSumSet(Signed, rows)

Available(value, rows, breakdown) ==
    [value |-> value, ids |-> Ids(rows), breakdown |-> breakdown]
Unavailable == [value |-> None, ids |-> {}, breakdown |-> {}]

\* One row for each transaction: the first of its parts, with the sum of all.
UniqueTransactions(rows) ==
    {[r EXCEPT !.amount = Sum({s \in rows : s.of = r.of})] :
        r \in {s \in rows : \A o \in rows : o.of = s.of => s.part <= o.part}}

Refund(r) == r.type = "refund" \/ "refund" \in r.flags
Reversal(r) == Refund(r) /\ r.narration = "reversal"

MovementRows(x) == {r \in x.rows : x.inclusive \/ ~r.internal}

SpendingRows(x) ==
    {r \in x.rows : /\ r.direction = "debit" /\ ~r.internal
                    /\ ~Refund(r) /\ r.type # "transfer"}

IncomeRows(x) ==
    {r \in x.rows : /\ r.direction = "credit" /\ ~r.internal
                    /\ ~Refund(r) /\ r.type # "transfer"
                    /\ (r.type = "income" \/ "income" \in r.flags)}

Credits(rows) == {r \in rows : r.direction = "credit"}
Debits(rows) == {r \in rows : r.direction = "debit"}

\* Math.round of a fraction with a positive denominator.
Rounded(a, b) == (2 * a + b) \div (2 * b)
BasisPoints(a, b) == IF b = 0 THEN 0 ELSE Rounded(10000 * a, b)
RoundedAverage(rows) == IF rows = {} THEN 0 ELSE Rounded(Sum(rows), Cardinality(rows))

Median(values) ==
    LET middle == Len(values) \div 2
    IN IF values = <<>> THEN 0
       ELSE IF Len(values) % 2 = 1 THEN values[middle + 1]
       ELSE Rounded(values[middle] + values[middle + 1], 2)

\* The values of a set in ascending order, repetitions kept.
Ascending(set, Value(_)) ==
    [k \in 1..Cardinality(set) |->
        Min({v \in {Value(e) : e \in set} : Cardinality({e \in set : Value(e) <= v}) >= k})]

\* The order of the rows of a context.
Earlier(r, s) == r.day < s.day \/ (r.day = s.day /\ r.of < s.of)

Amounts(rows) == Ascending(rows, LAMBDA r : r.amount)

Grouped(rows, Key(_), Label(_), Value(_)) ==
    {LET group == {r \in rows : Key(r) = key}
     IN [key |-> key, label |-> Label(CHOOSE r \in group : TRUE),
         value |-> Value(group), ids |-> Ids(group)] :
        key \in {Key(r) : r \in rows}}

LabelOf(r, e) == IF e = None THEN None ELSE r.labels[e]
Count(rows) == Cardinality(UniqueTransactions(rows))

ByCategory(rows) == Grouped(rows, LAMBDA r : r.category, LAMBDA r : LabelOf(r, r.category), Sum)
ByParty(rows) == Grouped(rows, LAMBDA r : r.party, LAMBDA r : LabelOf(r, r.party), Sum)
ByAccount(rows, Value(_)) ==
    Grouped(rows, LAMBDA r : r.account, LAMBDA r : LabelOf(r, r.account), Value)
Unlabelled(r) == None
ByDay(rows, Value(_)) == Grouped(rows, LAMBDA r : r.day, Unlabelled, Value)
Weekday(r) == r.day % 7
ByWeekday(rows, Value(_)) == Grouped(rows, Weekday, Unlabelled, Value)
Each(rows, Value(_)) ==
    {[key |-> r.of, part |-> r.part, value |-> Value(r), ids |-> {r.of}] : r \in rows}

\* recurringGroups: at least three payments of a kind at a weekly, fortnightly or
\* monthly median interval.
Kind(r) ==
    IF r.party # None THEN <<"party", r.party>>
    ELSE IF r.narration # None THEN <<"narration", r.narration>>
    ELSE <<"category", r.category>>

Recurs(group) ==
    LET days == Ascending(UniqueTransactions(group), LAMBDA r : r.day)
        gaps == 1..Len(days) - 1
    IN /\ Len(days) >= 3
       /\ Median(Ascending(gaps, LAMBDA k : days[k + 1] - days[k]))
              \in 5..9 \cup 12..16 \cup 25..35

Recurring(rows) == {r \in rows : Recurs({s \in rows : Kind(s) = Kind(r)})}

RecurringMetric(rows) ==
    LET recurring == Recurring(rows)
    IN Available(Sum(recurring), recurring, Grouped(recurring, Kind, LAMBDA r : LabelOf(r, r.party), Sum))

NonRecurringRows(rows) == {r \in rows : r.of \notin Ids(Recurring(rows))}

\* The upper Tukey fence, doubled to stay with integers.
UnusualRows(rows) ==
    LET amounts == Amounts(rows)
        half == Len(amounts) \div 2
        q1 == Median(SubSeq(amounts, 1, half))
        q3 == Median(SubSeq(amounts, Len(amounts) - half + 1, Len(amounts)))
    IN IF Len(amounts) < 4 THEN {}
       ELSE {r \in rows : 2 * r.amount > 2 * q3 + 3 * (q3 - q1)}

-----------------------------------------------------------------------------
(* The metrics.                                                                *)
Plain(rows) == Available(Sum(rows), rows, {})
Counted(rows, breakdown) == Available(Count(rows), rows, breakdown)
Largest(rows) ==
    LET value == Max({0} \cup {r.amount : r \in rows})
    IN Available(value, {r \in rows : r.amount = value}, {})

TotalInflow(x) == Plain(Credits(MovementRows(x)))
TotalOutflow(x) == Plain(Debits(MovementRows(x)))
NetCashflow(x) == Available(Net(MovementRows(x)), MovementRows(x), {})
AverageInflow(x) ==
    LET rows == UniqueTransactions(Credits(MovementRows(x)))
    IN Available(RoundedAverage(rows), rows, {})
AverageOutflow(x) ==
    LET rows == UniqueTransactions(Debits(MovementRows(x)))
    IN Available(RoundedAverage(rows), rows, {})
MedianTransaction(x) ==
    LET rows == UniqueTransactions(MovementRows(x))
    IN Available(Median(Amounts(rows)), rows, {})
LargestInflow(x) == Largest(UniqueTransactions(Credits(MovementRows(x))))
LargestOutflow(x) == Largest(UniqueTransactions(Debits(MovementRows(x))))
InflowOutflowRatio(x) ==
    LET rows == MovementRows(x)
    IN IF Sum(Debits(rows)) = 0 THEN Unavailable
       ELSE Available(<<Sum(Credits(rows)), Sum(Debits(rows))>>, rows, {})
Cumulative(x) ==
    LET rows == MovementRows(x)
    IN Available(Net(rows), rows,
           {[item EXCEPT !.value = Net({r \in rows : r.day <= item.key})] :
               item \in ByDay(rows, Net)})
CashflowByDay(x) == Available(Net(MovementRows(x)), MovementRows(x), ByDay(MovementRows(x), Net))
CashflowByAccount(x) ==
    Available(Net(MovementRows(x)), MovementRows(x), ByAccount(MovementRows(x), Net))
TransactionCount(x) == Counted(MovementRows(x), {})

SpendingByCategory(x) ==
    Available(Sum(SpendingRows(x)), SpendingRows(x), ByCategory(SpendingRows(x)))
SpendingByCounterparty(x) ==
    Available(Sum(SpendingRows(x)), SpendingRows(x), ByParty(SpendingRows(x)))
Fees(x) == Plain({r \in SpendingRows(x) : r.type = "fee" \/ "fee" \in r.flags})
CashWithdrawals(x) ==
    Plain({r \in SpendingRows(x) : r.type = "cash_withdrawal" \/ "cash_withdrawal" \in r.flags})
RecurringSpending(x) == RecurringMetric(SpendingRows(x))
SpendingByWeekday(x) ==
    Available(Sum(SpendingRows(x)), SpendingRows(x), ByWeekday(SpendingRows(x), Sum))
SpendingByDay(x) ==
    Available(Sum(SpendingRows(x)), SpendingRows(x), ByDay(SpendingRows(x), Sum))
\* The share of the three largest items of a breakdown.
Concentration(rows, breakdown) ==
    LET three == Max({MapThenSumSet(LAMBDA item : item.value, s) :
                         s \in {u \in SUBSET breakdown : Cardinality(u) <= 3}})
    IN Available(BasisPoints(three, Sum(rows)), rows, breakdown)
SpendingConcentration(x) == Concentration(SpendingRows(x), ByParty(SpendingRows(x)))
UnusualSpending(x) ==
    LET rows == UnusualRows(SpendingRows(x))
    IN Available(Sum(rows), rows, Each(rows, LAMBDA r : r.amount))
VariableSpending(x) == Plain(NonRecurringRows(SpendingRows(x)))
EssentialSpending(x) ==
    LET rows == {r \in SpendingRows(x) : "essential" \in r.flags}
    IN Available(Sum(rows), rows, ByCategory(rows))
DiscretionarySpending(x) ==
    LET rows == {r \in SpendingRows(x) : "discretionary" \in r.flags}
    IN Available(Sum(rows), rows, ByCategory(rows))

IncomeBySource(x) == Available(Sum(IncomeRows(x)), IncomeRows(x), ByParty(IncomeRows(x)))
RecurringIncome(x) == RecurringMetric(IncomeRows(x))
IncomeByWeekday(x) ==
    Available(Sum(IncomeRows(x)), IncomeRows(x), ByWeekday(IncomeRows(x), Sum))
IncomeByDay(x) == Available(Sum(IncomeRows(x)), IncomeRows(x), ByDay(IncomeRows(x), Sum))
IncomeConcentration(x) == Concentration(IncomeRows(x), ByParty(IncomeRows(x)))
IrregularIncome(x) == Plain(NonRecurringRows(IncomeRows(x)))
SavingsRate(x) ==
    LET income == Sum(IncomeRows(x))
        spent == Sum(SpendingRows(x))
    IN IF income = 0 THEN Unavailable
       ELSE Available(Rounded(10000 * (income - spent), income),
                      IncomeRows(x) \cup SpendingRows(x), {})

NoSpendDays(x) ==
    Available(Max({0, x.days - Cardinality({r.day : r \in SpendingRows(x)})}),
              SpendingRows(x), {})
ActivityByWeekday(x) ==
    LET rows == UniqueTransactions(x.rows) IN Counted(rows, ByWeekday(rows, Count))
ActivityByDay(x) ==
    LET rows == UniqueTransactions(x.rows) IN Counted(rows, ByDay(rows, Count))
AverageDailyActivity(x) ==
    Available(<<Count(x.rows), Max({1, x.days})>>, x.rows, {})
AccountUsage(x) ==
    LET rows == UniqueTransactions(x.rows)
    IN Counted(rows, ByAccount(rows, Count))
WeekendShare(x) ==
    LET rows == UniqueTransactions(x.rows)
    IN Available(BasisPoints(Cardinality({r \in rows : Weekday(r) \in {0, 6}}),
                             Cardinality(rows)), rows, {})
SpendingChange(x) == Plain(SpendingRows(x))
ExpenseIncomeRatio(x) ==
    LET income == Sum(IncomeRows(x))
    IN IF income = 0 THEN Unavailable
       ELSE Available(BasisPoints(Sum(SpendingRows(x)), income),
                      SpendingRows(x) \cup IncomeRows(x), {})
SavingsMovement(x) == Plain({r \in x.rows : "savings" \in r.flags})

ClassificationCoverage(x) ==
    LET rows == UniqueTransactions(x.rows)
        classified == {r \in rows : r.type # "unclassified" \/ r.category # None}
    IN Available(BasisPoints(Cardinality(classified), Cardinality(rows)), rows, {})
ConfidenceDistribution(x) ==
    LET rows == UniqueTransactions(x.rows)
    IN Counted(rows, Grouped(rows, LAMBDA r : r.confidence, Unlabelled, Count))
ReviewQueue(x) == Counted({r \in UniqueTransactions(x.rows) : r.review = "needs_review"}, {})
Reconciliation(x) ==
    LET rows == UniqueTransactions(x.rows)
    IN Counted(rows, Grouped(rows, LAMBDA r : r.reconciled, Unlabelled, Count))
DuplicateSources(x) ==
    LET rows == {r \in UniqueTransactions(x.rows) : r.duplicates > 0}
    IN Available(MapThenSumSet(LAMBDA r : r.duplicates, rows), rows,
                 Each(rows, LAMBDA r : r.duplicates))

Refunds(x) == Plain({r \in Credits(x.rows) : Refund(r) /\ ~Reversal(r)})
Reversals(x) == Plain({r \in Credits(x.rows) : Reversal(r)})
InternalTransfers(x) == Plain({r \in Debits(x.rows) : r.internal})
ExternalTransfers(x) == Plain({r \in x.rows : r.type = "transfer" /\ ~r.internal})

\* balanceMetric: the opening, closing, lowest or highest running balances of the
\* accounts, if the statements of all of them have any.
Opening(rows) ==
    LET first == CHOOSE r \in rows : \A s \in rows : ~Earlier(s, r)
    IN [value |-> first.balance - Signed(first), rows |-> {first}]
Closing(rows) ==
    LET last == CHOOSE r \in rows : \A s \in rows : ~Earlier(r, s)
    IN [value |-> last.balance, rows |-> {last}]
At(rows, balance) == [value |-> balance, rows |-> {r \in rows : r.balance = balance}]
Lowest(rows) == At(rows, Min({r.balance : r \in rows}))
Highest(rows) == At(rows, Max({r.balance : r \in rows}))

\* The rows that have a balance, by account.
Balanced(x) ==
    LET rows == {r \in UniqueTransactions(x.rows) : r.balance # None}
    IN [a \in {r.account : r \in rows} |-> {r \in rows : r.account = a}]

BalanceMetric(x, balances) ==
    LET items == {[key |-> a, label |-> LabelOf(CHOOSE r \in balances[a].rows : TRUE, a),
                   value |-> balances[a].value, ids |-> Ids(balances[a].rows)] :
                      a \in DOMAIN balances}
    IN IF x.whole /\ DOMAIN balances = x.accounts
       THEN Available(MapThenSumSet(LAMBDA item : item.value, items),
                      UNION {balances[a].rows : a \in DOMAIN balances}, items)
       ELSE Unavailable

OpeningBalance(x) ==
    BalanceMetric(x, [a \in DOMAIN Balanced(x) |-> Opening(Balanced(x)[a])])
ClosingBalance(x) ==
    BalanceMetric(x, [a \in DOMAIN Balanced(x) |-> Closing(Balanced(x)[a])])
LowestBalance(x) ==
    IF Cardinality(x.accounts) # 1 THEN Unavailable
    ELSE BalanceMetric(x, [a \in DOMAIN Balanced(x) |-> Lowest(Balanced(x)[a])])
HighestBalance(x) ==
    IF Cardinality(x.accounts) # 1 THEN Unavailable
    ELSE BalanceMetric(x, [a \in DOMAIN Balanced(x) |-> Highest(Balanced(x)[a])])

\* REGISTRY
Metric(id, x) ==
    CASE id = "cashflow.total_inflow" -> TotalInflow(x)
      [] id = "cashflow.total_outflow" -> TotalOutflow(x)
      [] id = "cashflow.net" -> NetCashflow(x)
      [] id = "cashflow.average_inflow" -> AverageInflow(x)
      [] id = "cashflow.average_outflow" -> AverageOutflow(x)
      [] id = "cashflow.median_transaction" -> MedianTransaction(x)
      [] id = "cashflow.largest_inflow" -> LargestInflow(x)
      [] id = "cashflow.largest_outflow" -> LargestOutflow(x)
      [] id = "cashflow.inflow_outflow_ratio" -> InflowOutflowRatio(x)
      [] id = "cashflow.cumulative" -> Cumulative(x)
      [] id = "cashflow.by_day" -> CashflowByDay(x)
      [] id = "cashflow.by_account" -> CashflowByAccount(x)
      [] id = "cashflow.transaction_count" -> TransactionCount(x)
      [] id = "spending.by_category" -> SpendingByCategory(x)
      [] id = "spending.by_counterparty" -> SpendingByCounterparty(x)
      [] id = "spending.fees" -> Fees(x)
      [] id = "spending.cash_withdrawals" -> CashWithdrawals(x)
      [] id = "spending.recurring" -> RecurringSpending(x)
      [] id = "spending.by_weekday" -> SpendingByWeekday(x)
      [] id = "spending.by_day" -> SpendingByDay(x)
      [] id = "spending.concentration" -> SpendingConcentration(x)
      [] id = "spending.unusual" -> UnusualSpending(x)
      [] id = "spending.variable" -> VariableSpending(x)
      [] id = "spending.essential" -> EssentialSpending(x)
      [] id = "spending.discretionary" -> DiscretionarySpending(x)
      [] id = "income.by_source" -> IncomeBySource(x)
      [] id = "income.recurring" -> RecurringIncome(x)
      [] id = "income.by_weekday" -> IncomeByWeekday(x)
      [] id = "income.by_day" -> IncomeByDay(x)
      [] id = "income.concentration" -> IncomeConcentration(x)
      [] id = "income.irregular" -> IrregularIncome(x)
      [] id = "savings.estimated_rate" -> SavingsRate(x)
      [] id = "behaviour.no_spend_days" -> NoSpendDays(x)
      [] id = "behaviour.activity_by_weekday" -> ActivityByWeekday(x)
      [] id = "behaviour.activity_by_day" -> ActivityByDay(x)
      [] id = "behaviour.average_daily_activity" -> AverageDailyActivity(x)
      [] id = "behaviour.account_usage" -> AccountUsage(x)
      [] id = "behaviour.weekend_share" -> WeekendShare(x)
      [] id = "behaviour.change" -> SpendingChange(x)
      [] id = "behaviour.expense_income_ratio" -> ExpenseIncomeRatio(x)
      [] id = "behaviour.savings_transfers" -> SavingsMovement(x)
      [] id = "quality.classification_coverage" -> ClassificationCoverage(x)
      [] id = "quality.confidence_distribution" -> ConfidenceDistribution(x)
      [] id = "quality.review_queue" -> ReviewQueue(x)
      [] id = "quality.reconciliation" -> Reconciliation(x)
      [] id = "quality.duplicate_sources" -> DuplicateSources(x)
      [] id = "adjustments.refunds" -> Refunds(x)
      [] id = "adjustments.reversals" -> Reversals(x)
      [] id = "transfers.internal" -> InternalTransfers(x)
      [] id = "transfers.external" -> ExternalTransfers(x)
      [] id = "balance.opening" -> OpeningBalance(x)
      [] id = "balance.closing" -> ClosingBalance(x)
      [] id = "balance.lowest" -> LowestBalance(x)
      [] id = "balance.highest" -> HighestBalance(x)

=============================================================================
