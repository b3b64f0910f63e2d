------------------------------- MODULE Wording -------------------------------
(***************************************************************************)
(* What the classification reads out of a narration                        *)
(* (packages/db/src/classification-engine.ts, classification-review.ts):   *)
(* its key and how similar two keys are, the conditions of rules, the      *)
(* bank's wording, and the condition that remembers a reviewed group.      *)
(*                                                                         *)
(* A text is a sequence of words, in one case and normal form.  Conditions *)
(* and wildcards see whole words: that they also find a word inside a      *)
(* longer one is left out.                                                 *)
(***************************************************************************)
EXTENDS Integers, Sequences, FiniteSets, SequencesExt, Functions

Word(text) == [kind |-> "word", text |-> text]
Figure(text) == [kind |-> "figure", text |-> text]      \* four digits or more
Cue(text) == [kind |-> "cue", text |-> text]            \* "ref", "session", "txn", ...
Wildcard == [kind |-> "wildcard", text |-> "*"]

\* classificationNarrationKey: a cue goes with the word after it, figures go.
NarrationKey(text) ==
    LET cues[i \in 0..Len(text)] ==
            i > 0 /\ i < Len(text) /\ text[i].kind = "cue" /\ ~cues[i - 1]
        kept == {i \in DOMAIN text : text[i].kind # "figure" /\ ~cues[i] /\ ~cues[i - 1]}
    IN FoldLeftDomain(LAMBDA key, i : IF i \in kept THEN Append(key, text[i]) ELSE key, <<>>, text)

\* classificationNarrationSimilarity, of keys, is at least a percentage.
Similar(left, right, percent) ==
    /\ left # <<>> /\ right # <<>>
    /\ 100 * Cardinality(Range(left) \cap Range(right))
           >= percent * Cardinality(Range(left) \cup Range(right))

-----------------------------------------------------------------------------
(* Conditions of rules: an operator and what it is applied to.                 *)

\* wildcardPattern: the words between the wildcards, in order.
WildcardMatch(pattern, text) ==
    LET pieces == Len(SelectSeq(pattern, LAMBDA w : w = Wildcard))
        matches[i \in 0..Len(pattern), j \in 0..Len(text)] ==
            IF i = 0 THEN j = 0
            ELSE IF pattern[i] = Wildcard THEN \E k \in 0..j : matches[i - 1, k]
            ELSE j > 0 /\ pattern[i] = text[j] /\ matches[i - 1, j - 1]
    IN IF pieces = 0 THEN pattern = text ELSE matches[Len(pattern), Len(text)]

\* matchesCondition, of a field with that value.
Holds(condition, value) ==
    LET is == condition.value IN
    CASE condition.operator = "amount_range" -> value \in is[1]..is[2]
      [] condition.operator = "greater_than" -> value > is
      [] condition.operator = "greater_than_or_equal" -> value >= is
      [] condition.operator = "less_than" -> value < is
      [] condition.operator = "less_than_or_equal" -> value <= is
      [] condition.operator = "one_of" -> value \in is
      [] condition.operator = "equals" -> value = is
      [] condition.operator = "contains" ->
             \E i \in 0..Len(value) : IsPrefix(is, SubSeq(value, i + 1, Len(value)))
      [] condition.operator = "starts_with" -> IsPrefix(is, value)
      [] condition.operator = "ends_with" -> IsSuffix(is, value)
      [] condition.operator = "pattern" -> WildcardMatch(is, value)

KindScore(kind) ==
    CASE kind = "exact" -> 400 [] kind = "counterparty" -> 350
      [] kind = "bank" -> 250 [] kind = "pattern" -> 150

OperatorScore(operator) ==
    CASE operator = "equals" -> 100
      [] operator = "one_of" -> 80
      [] operator \in {"starts_with", "ends_with"} -> 65
      [] operator = "contains" -> 55
      [] operator = "amount_range" -> 45
      [] operator \in {"greater_than", "greater_than_or_equal",
                       "less_than", "less_than_or_equal"} -> 35
      [] operator = "pattern" -> 25

\* ruleSpecificity, of the operators of the rule's conditions.
Specificity(kind, operators) ==
    FoldLeft(LAMBDA total, o : total + OperatorScore(o) + 10, KindScore(kind), operators)

\* confidenceForRule is high.
Sure(kind) == kind \in {"exact", "counterparty"}

-----------------------------------------------------------------------------
\* #bankSuggestion: the system key of the category, and the type.
Says(text, phrases) ==
    \E phrase \in phrases : Holds([operator |-> "contains", value |-> phrase], text)

BankSays(direction, text, None) ==
    LET phrase(w) == <<Word(w)>>
        rides == {phrase("bolt")}
        fees == {phrase(w) : w \in {"fee", "charge", "levy", "commission"}}
                    \cup {<<Word("stamp"), Word("duty")>>}
        cash == {phrase("atm"), phrase("withdrawal")}
        refunds == {phrase(w) : w \in {"refund", "reversal", "reversed"}}
    IN IF direction = "debit" /\ Says(text, rides)
       THEN [category |-> "ride-hailing", type |-> "expense"]
       ELSE IF direction = "debit" /\ Says(text, fees)
       THEN [category |-> "bank-fees-and-charges", type |-> "fee"]
       ELSE IF direction = "debit" /\ Says(text, cash)
       THEN [category |-> "cash-withdrawal", type |-> "cash_withdrawal"]
       ELSE IF direction = "credit" /\ Says(text, refunds)
       THEN [category |-> "refunds-and-reversals", type |-> "refund"]
       ELSE None

-----------------------------------------------------------------------------
(* #rememberedRule, for a group that is not one of a counterparty.             *)

\* commonNarrationPattern, of the narrations of a group in the order of the group.
CommonPattern(texts) ==
    LET nonempty == SelectSeq(texts, LAMBDA text : text # <<>>)
        keys == [k \in DOMAIN nonempty |-> NarrationKey(nonempty[k])]
        common == SelectSeq(keys[1], LAMBDA w : \A k \in DOMAIN keys : Contains(keys[k], w))
        keyless == \A k \in DOMAIN keys : keys[k] = <<>>    \* all share the empty token
    IN IF nonempty = <<>> THEN <<Wildcard>>
       ELSE IF Cardinality(Range(nonempty)) = 1 THEN nonempty[1]
       ELSE IF keyless THEN <<Wildcard, Wildcard>>
       ELSE IF common # <<>>
       THEN <<Wildcard>> \o FlattenSeq([k \in DOMAIN common |-> <<common[k], Wildcard>>])
       ELSE nonempty[1]

RememberedKind(texts) ==
    IF Contains(CommonPattern(texts), Wildcard) THEN "pattern" ELSE "exact"

RememberedCondition(texts) ==
    [operator |-> IF RememberedKind(texts) = "pattern" THEN "pattern" ELSE "equals",
     value |-> CommonPattern(texts)]
=============================================================================
