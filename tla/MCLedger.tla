------------------------------ MODULE MCLedger ------------------------------
EXTENDS Ledger, TLC, SequencesExt, Functions

CONSTANTS t1, t2, shop, food, moves

Types == {"unclassified", "transfer", "expense"}
Actions == {[category |-> food, type |-> "expense"]}
Corrections == [columns : {[category |-> None]}, review : {None, "needs_review"}]
                   \cup [columns : {<<>>}, review : {None, "reviewed"}]
Parties == [t \in Transaction |-> shop]
Narrations == [t \in Transaction |-> <<Word("pay"), Word(t)>>]
Sayings == [t \in Transaction |-> BankSays("debit", Narrations[t], None)]
Symmetry == Permutations(Transaction)
Pairs == {Transaction}
\* Rules for the counterparty, as decisions are remembered.
Drafts ==
    [on : {Transaction}, types : {Types}, action : {[category |-> moves]}, priority : {0},
     specificity : {Specificity("counterparty", <<"equals">>)}, sure : {TRUE}, enabled : BOOLEAN]

\* Narrations of up to three words, one of them a figure and one a cue.
Texts == UNION {[1..n -> {Word("pay"), Word("rent"), Figure("2024"), Cue("ref")}] : n \in 0..3}
Operators == {"equals", "contains", "starts_with", "ends_with", "pattern"}
Condition(operator, value) == [operator |-> operator, value |-> value]
InCommon(left, right) == SelectSeq(left, LAMBDA w : Contains(right, w))

\* The rule that remembers a group finds the transactions of the group again where
\* the words they share come in one order, and finds everything only where no
\* narration has a key.  The operators are as strict as their scores say.
ASSUME WordingAgrees ==
    \A left, right \in Texts :
        LET k == NarrationKey(left)
            l == NarrationKey(right)
            remembered == RememberedCondition(<<left, right>>)
        IN /\ Similar(k, l, 72) =>
                  /\ Holds(remembered, left)
                  /\ InCommon(k, l) = InCommon(l, k) => Holds(remembered, right)
           /\ Range(remembered.value) = {Wildcard} => k = <<>> /\ l = <<>>
           /\ Similar(k, l, 82) = Similar(l, k, 82) /\ (k # <<>> => Similar(k, k, 100))
           /\ \A o \in {"equals", "starts_with", "ends_with"} :
                  Holds(Condition(o, left), right) => Holds(Condition("contains", left), right)
           /\ \A o \in {"starts_with", "ends_with"} :
                  Holds(Condition("equals", left), right) => Holds(Condition(o, left), right)
           /\ \A o \in Operators \ {"equals"} : OperatorScore(o) < OperatorScore("equals")
           /\ Holds(Condition("pattern", <<Wildcard>> \o left \o <<Wildcard>>), right)
                  = Holds(Condition("contains", left), right)

=============================================================================
