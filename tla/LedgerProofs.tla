---------------------------- MODULE LedgerProofs ----------------------------
(* Proofs about the ledger: for any transactions, rules, corrections, drafts   *)
(* and bounds.                                                                 *)
EXTENDS Ledger, FiniteSetTheorems, WellFoundedInduction, TLAPS

Columns == {"category", "type"}

LedgerType(l) == l \in [Transaction -> Row \cup {None}]

RulesType(rs) == rs \in Seq(RuleRow \cup {None})

\* Rules that exist, in any list of rules.
Alive(rs) == {r \in DOMAIN rs : rs[r] # None}

-----------------------------------------------------------------------------
(* Columns.                                                                    *)

LEMMA FieldsShape ==
    ASSUME NEW f \in Fields
    PROVE  /\ DOMAIN f = Columns /\ f = [c \in Columns |-> f[c]]
           /\ f.category \in Category \cup {None} /\ f.type \in Type
BY DEF Fields, Columns

LEMMA FieldsFrom ==
    ASSUME NEW f, f = [c \in Columns |-> f[c]],
           f["category"] \in Category \cup {None}, f["type"] \in Type
    PROVE  f \in Fields
<1>1. f = [category |-> f["category"], type |-> f["type"]]
  BY DEF Columns
<1>2. QED
  BY <1>1 DEF Fields

LEMMA SuggestionShape ==
    ASSUME NEW s \in Suggestion
    PROVE  /\ DOMAIN s \subseteq Columns /\ s = [c \in DOMAIN s |-> s[c]]
           /\ "category" \in DOMAIN s => s["category"] \in Category
           /\ "type" \in DOMAIN s => s["type"] \in Type
BY DEF Suggestion, Columns

LEMMA SuggestionFrom ==
    ASSUME NEW D, D \subseteq Columns, NEW s, s = [c \in D |-> s[c]],
           "category" \in D => s["category"] \in Category,
           "type" \in D => s["type"] \in Type
    PROVE  s \in Suggestion
<1>1. \A c \in D : s[c] \in Category \cup Type
  BY DEF Columns
<1>2. s \in [D -> Category \cup Type]
  BY <1>1
<1>3. D \in SUBSET {"category", "type"}
  BY DEF Columns
<1>4. QED
  BY <1>2, <1>3 DEF Suggestion

LEMMA OverlayTyped ==
    ASSUME NEW s \in Suggestion, NEW f \in Fields
    PROVE  /\ Overlay(s, f) \in Fields
           /\ Overlay(s, f).type = IF "type" \in DOMAIN s THEN s["type"] ELSE f.type
<1>1. PICK o : o = Overlay(s, f)
  OBVIOUS
<1>2. /\ o = [c \in Columns |-> o[c]]
      /\ o["category"] = IF "category" \in DOMAIN s THEN s["category"] ELSE f["category"]
      /\ o["type"] = IF "type" \in DOMAIN s THEN s["type"] ELSE f["type"]
  BY <1>1, FieldsShape DEF Overlay, Columns
<1>3. o \in Fields
  BY <1>2, FieldsShape, SuggestionShape, FieldsFrom
<1>4. QED
  BY <1>1, <1>2, <1>3

LEMMA AsSuggestionTyped ==
    ASSUME NEW f \in Fields
    PROVE  AsSuggestion(f) \in Suggestion
<1>1. PICK s : s = AsSuggestion(f)
  OBVIOUS
<1>2. PICK D : D = {d \in Columns : f[d] # None}
  OBVIOUS
<1>3. s = [c \in D |-> s[c]] /\ \A c \in D : s[c] = f[c]
  BY <1>1, <1>2, FieldsShape DEF AsSuggestion
<1>4. s \in Suggestion
  BY <1>2, <1>3, FieldsShape, SuggestionFrom DEF Columns
<1>5. QED
  BY <1>1, <1>4

LEMMA WithoutSplitTyped ==
    ASSUME NEW row, NEW s \in Suggestion
    PROVE  WithoutSplitCategory(row, s) \in Suggestion
<1>1. PICK D : D = DOMAIN s \ {"category"}
  OBVIOUS
<1>2. PICK o : o = [c \in D |-> s[c]]
  OBVIOUS
<1>3. o \in Suggestion
  BY <1>1, <1>2, SuggestionShape, SuggestionFrom
<1>4. QED
  BY <1>1, <1>2, <1>3 DEF WithoutSplitCategory

-----------------------------------------------------------------------------
(* Rules.  Among rules that match one is outranked by none: finite induction,  *)
(* from the library's well-foundedness of strict inclusion.                    *)

LEMMA NonemptyHasMinimal ==
    ASSUME NEW S, IsFiniteSet(S), NEW F, \A T \in F : T \subseteq S, F # {}
    PROVE  \E T \in F : \A U \in F : ~(U \subseteq T /\ U # T)
<1>1. F \subseteq FiniteSubsetsOf(S)
  BY FS_Subset DEF FiniteSubsetsOf
<1>2. PICK T \in F : \A U \in F : <<U, T>> \notin StrictSubsetOrdering(S)
  BY <1>1, FS_StrictSubsetOrderingWellFounded, WFMin
<1>3. QED
  BY <1>2 DEF StrictSubsetOrdering

HasTop(rs, T) == \E r \in T : \A q \in T : ~Outranks(rs[q], rs[r])

LEMMA TopExists ==
    ASSUME NEW rs, NEW S, \A r \in S : rs[r].priority \in Int /\ rs[r].specificity \in Int,
           IsFiniteSet(S), S # {}
    PROVE  HasTop(rs, S)
<1> SUFFICES ASSUME ~HasTop(rs, S) PROVE FALSE
  OBVIOUS
<1>1. PICK F : F = {T \in SUBSET S : T # {} /\ ~HasTop(rs, T)}
  OBVIOUS
<1>2. F # {}
  BY <1>1
<1>3. PICK T \in F : \A U \in F : ~(U \subseteq T /\ U # T)
  <2>1. \A T \in F : T \subseteq S
    BY <1>1
  <2>2. QED
    BY <2>1, <1>2, NonemptyHasMinimal
<1>4. T \subseteq S /\ T # {} /\ ~HasTop(rs, T)
  BY <1>1
<1>5. PICK x \in T : TRUE
  BY <1>4
<1>6. T \ {x} = {} \/ HasTop(rs, T \ {x})
  BY <1>1, <1>3, <1>4
<1>7. CASE T \ {x} = {}
  <2>1. \A q \in T : ~Outranks(rs[q], rs[x])
    BY <1>4, <1>7 DEF Outranks
  <2>2. QED
    BY <2>1, <1>4 DEF HasTop
<1>8. CASE HasTop(rs, T \ {x})
  <2>1. PICK m \in T \ {x} : \A q \in T \ {x} : ~Outranks(rs[q], rs[m])
    BY <1>8 DEF HasTop
  <2>2. \A q \in T : rs[q].priority \in Int /\ rs[q].specificity \in Int
    BY <1>4
  <2>3. CASE Outranks(rs[x], rs[m])
    <3>1. \A q \in T : ~Outranks(rs[q], rs[x])
      BY <2>1, <2>2, <2>3 DEF Outranks
    <3>2. QED
      BY <3>1, <1>4 DEF HasTop
  <2>4. CASE ~Outranks(rs[x], rs[m])
    <3>1. \A q \in T : ~Outranks(rs[q], rs[m])
      BY <2>1, <2>4
    <3>2. QED
      BY <3>1, <1>4 DEF HasTop
  <2>5. QED
    BY <2>3, <2>4
<1>9. QED
  BY <1>6, <1>7, <1>8

LEMMA FirstExists ==
    ASSUME NEW S, S \subseteq Nat, S # {}
    PROVE  First(S) \in S
<1>1. PICK R : R = OpToRel(<, Nat)
  OBVIOUS
<1>2. IsWellFoundedOn(R, Nat)
  BY <1>1, NatLessThanWellFounded
<1>3. R = {ss \in Nat \X Nat : ss[1] < ss[2]}
  BY <1>1 DEF OpToRel
<1>4. PICK r \in S : \A q \in S : <<q, r>> \notin R
  BY <1>2, WFMin
<1>5. ASSUME NEW q \in S PROVE r <= q
  <2>1. q \in Nat /\ r \in Nat /\ <<q, r>> \notin R
    BY <1>4
  <2>2. <<q, r>> \in Nat \X Nat
    BY <2>1
  <2>3. q < r => <<q, r>> \in R
    BY <1>3, <2>2
  <2>4. QED
    BY <2>1, <2>3
<1>6. QED
  BY <1>5 DEF First

LEMMA RulesFacts ==
    ASSUME NEW rs, RulesType(rs)
    PROVE  /\ DOMAIN rs \subseteq Nat /\ IsFiniteSet(DOMAIN rs) /\ Len(rs) \in Nat
           /\ DOMAIN rs = 1..Len(rs) /\ Alive(rs) \subseteq DOMAIN rs
           /\ \A r \in Alive(rs) :
                 /\ rs[r] \in RuleRow /\ rs[r].action \in Suggestion /\ rs[r].sure \in BOOLEAN
                 /\ rs[r].priority \in Int /\ rs[r].specificity \in Int
<1>1. Len(rs) \in Nat /\ DOMAIN rs = 1..Len(rs) /\ \A r \in DOMAIN rs : rs[r] \in RuleRow \cup {None}
  BY DEF RulesType
<1>2. IsFiniteSet(1..Len(rs))
  BY <1>1, FS_Interval
<1>3. QED
  BY <1>1, <1>2 DEF Alive, RuleRow

LEMMA MergedTyped ==
    ASSUME NEW rs, RulesType(rs), NEW top, top \subseteq Alive(rs)
    PROVE  Merged(rs, top) \in Suggestion
<1>1. \A r \in top : rs[r].action \in Suggestion
  BY RulesFacts
<1>2. PICK D : D = UNION {DOMAIN rs[r].action : r \in top}
  OBVIOUS
<1>3. D \subseteq Columns /\ \A c \in D : \E r \in top : c \in DOMAIN rs[r].action
  BY <1>1, <1>2, SuggestionShape
<1>4. PICK s : s = Merged(rs, top)
  OBVIOUS
<1>5. s = [c \in D |-> s[c]]
  BY <1>2, <1>4 DEF Merged
<1>6. ASSUME NEW c \in D
      PROVE  \E r \in top : c \in DOMAIN rs[r].action /\ s[c] = rs[r].action[c]
  <2>1. PICK r : r = CHOOSE q \in top : c \in DOMAIN rs[q].action
    OBVIOUS
  <2>2. r \in top /\ c \in DOMAIN rs[r].action
    BY <1>3, <2>1
  <2>3. s[c] = rs[r].action[c]
    BY <1>2, <1>4, <2>1 DEF Merged
  <2>4. QED
    BY <2>2, <2>3
<1>7. /\ "category" \in D => s["category"] \in Category
      /\ "type" \in D => s["type"] \in Type
  BY <1>1, <1>6, SuggestionShape
<1>8. s \in Suggestion
  BY <1>3, <1>5, <1>7, SuggestionFrom
<1>9. QED
  BY <1>4, <1>8

-----------------------------------------------------------------------------
(* Verdicts.                                                                   *)

\* A verdict names rules that exist.
Names(verdict, rs) ==
    verdict.winner \in Alive(rs) \cup {None} /\ verdict.conflicts \subseteq DOMAIN rs

LEMMA EvaluationTyped ==
    ASSUME NEW source \in Source, NEW suggestion \in Suggestion \cup {None},
           NEW winner \in Nat \cup {None}, NEW conflicts \in SUBSET Nat, NEW doubtful \in BOOLEAN
    PROVE  /\ Evaluation(source, suggestion, winner, conflicts, doubtful) \in Verdict
           /\ Evaluation(source, suggestion, winner, conflicts, doubtful).source = source
           /\ Evaluation(source, suggestion, winner, conflicts, doubtful).suggestion = suggestion
           /\ Evaluation(source, suggestion, winner, conflicts, doubtful).winner = winner
           /\ Evaluation(source, suggestion, winner, conflicts, doubtful).conflicts = conflicts
           /\ ~Evaluation(source, suggestion, winner, conflicts, doubtful).stale
BY DEF Evaluation, Verdict

LEMMA TopFacts ==
    ASSUME NEW l, NEW rs, RulesType(rs), NEW t
    PROVE  /\ Matching(l, rs, t) \subseteq Alive(rs) /\ Top(l, rs, t) \subseteq Alive(rs)
           /\ Matching(l, rs, t) # {} => Top(l, rs, t) # {}
<1>1. Matching(l, rs, t) \subseteq Alive(rs) /\ Top(l, rs, t) \subseteq Matching(l, rs, t)
  BY DEF Matching, Top, Alive
<1>2. ASSUME Matching(l, rs, t) # {} PROVE Top(l, rs, t) # {}
  <2>1. PICK S : S = Matching(l, rs, t)
    OBVIOUS
  <2>2. IsFiniteSet(S) /\ S # {} /\ \A r \in S : rs[r].priority \in Int /\ rs[r].specificity \in Int
    BY <1>1, <1>2, <2>1, RulesFacts, FS_Subset
  <2>3. HasTop(rs, S)
    BY <2>2, TopExists
  <2>4. QED
    BY <2>1, <2>3 DEF HasTop, Top
<1>3. QED
  BY <1>1, <1>2

LEMMA ByRuleTyped ==
    ASSUME NEW l, NEW rs, RulesType(rs), NEW t, Matching(l, rs, t) # {}
    PROVE  /\ ByRule(l, rs, t) \in Verdict /\ Names(ByRule(l, rs, t), rs)
           /\ ByRule(l, rs, t).source = "automatic" /\ ~ByRule(l, rs, t).stale
<1>1. PICK top : top = Top(l, rs, t)
  OBVIOUS
<1>2. top \subseteq Alive(rs) /\ top # {} /\ top \subseteq Nat /\ top \subseteq DOMAIN rs
  BY <1>1, TopFacts, RulesFacts
<1>3. First(top) \in top
  BY <1>2, FirstExists
<1>4. PICK first : first = First(top)
  OBVIOUS
<1>5. first \in Alive(rs) /\ first \in Nat /\ (~rs[first].sure) \in BOOLEAN
  BY <1>2, <1>3, <1>4
<1>6. Conflicting(rs, top) \subseteq DOMAIN rs /\ Conflicting(rs, top) \in SUBSET Nat
  BY <1>2 DEF Conflicting
<1>7. PICK s \in Suggestion : s = WithoutSplitCategory(l[t], Merged(rs, top))
  BY <1>2, MergedTyped, WithoutSplitTyped
<1>8. ByRule(l, rs, t) \in
         {Evaluation("automatic", None, None, Conflicting(rs, top), TRUE),
          Evaluation("automatic", s, first, {}, ~rs[first].sure)}
  BY <1>1, <1>4, <1>7 DEF ByRule, ByTop
<1>9. CASE ByRule(l, rs, t) = Evaluation("automatic", None, None, Conflicting(rs, top), TRUE)
  <2>1. PICK v : v = Evaluation("automatic", None, None, Conflicting(rs, top), TRUE)
    OBVIOUS
  <2>2. v \in Verdict /\ v.source = "automatic" /\ v.winner = None /\ ~v.stale
        /\ v.conflicts = Conflicting(rs, top)
    BY <1>6, <2>1 DEF Evaluation, Verdict, Source
  <2>3. QED
    BY <1>6, <1>9, <2>1, <2>2 DEF Names
<1>10. CASE ByRule(l, rs, t) = Evaluation("automatic", s, first, {}, ~rs[first].sure)
  <2>1. PICK doubtful \in BOOLEAN : doubtful = ~rs[first].sure
    BY <1>5
  <2>2. PICK v : v = Evaluation("automatic", s, first, {}, doubtful)
    OBVIOUS
  <2>3. v \in Verdict /\ v.source = "automatic" /\ v.winner = first /\ ~v.stale /\ v.conflicts = {}
    BY <1>5, <2>2, EvaluationTyped DEF Source
  <2>4. QED
    BY <1>5, <1>10, <2>1, <2>2, <2>3 DEF Names
<1>11. QED
  BY <1>8, <1>9, <1>10

LEMMA PrecedentTyped ==
    ASSUME NEW l, LedgerType(l), NEW alike, alike \subseteq Transaction
    PROVE  Precedent(l, alike) \in Suggestion \cup {None}
<1>1. PICK confirmed : confirmed = {l[u].fields : u \in {v \in alike : l[v] # None /\ l[v].source = "manual"}}
  OBVIOUS
<1>2. confirmed \subseteq Fields
  BY <1>1 DEF LedgerType, Row
<1>3. CASE Cardinality(confirmed) # 1
  BY <1>1, <1>3 DEF Precedent
<1>4. CASE Cardinality(confirmed) = 1
  <2>1. confirmed # {}
    BY <1>4, FS_EmptySet
  <2>2. PICK f \in Fields : f = CHOOSE fields \in confirmed : TRUE
    BY <1>2, <2>1
  <2>3. Precedent(l, alike) = AsSuggestion(f)
    BY <1>1, <1>4, <2>2 DEF Precedent
  <2>4. QED
    BY <2>3, AsSuggestionTyped
<1>5. QED
  BY <1>3, <1>4

LEMMA RowFacts ==
    ASSUME NEW row \in Row
    PROVE  /\ row.fields \in Fields /\ row.source \in Source /\ row.review \in ReviewState
           /\ row.pair \in Transaction \cup {None} /\ row.split \in BOOLEAN
           /\ row.origin \in Fields \cup {None} /\ row.verdict \in Verdict \cup {None}
           /\ row.ai \in Suggestion \cup {None} /\ row # None
BY LedgerAssumption DEF Row

Moved == [category |-> TransferCategory, type |-> "transfer"]

LEMMA MovedTyped == Moved \in Suggestion /\ Moved["type"] = "transfer" /\ "type" \in DOMAIN Moved
<1>1. PICK m : m = Moved
  OBVIOUS
<1>2. m = [c \in Columns |-> m[c]] /\ m["category"] = TransferCategory /\ m["type"] = "transfer"
  BY <1>1 DEF Moved, Columns
<1>3. m \in Suggestion
  BY <1>2, LedgerAssumption, SuggestionFrom
<1>4. QED
  BY <1>1, <1>2, <1>3 DEF Columns

\* What a verdict is, by whom the row was classified.
Judged(row, v, rs) ==
    /\ v \in Verdict /\ Names(v, rs) /\ ~v.stale
    /\ row.source = "manual" <=> v.source = "manual"
    /\ row.source # "manual" /\ row.pair # None => v.suggestion = Moved

LEMMA EvaluateTyped ==
    ASSUME NEW l, LedgerType(l), NEW rs, RulesType(rs), NEW t \in Transaction, l[t] # None
    PROVE  Judged(l[t], Evaluate(l, rs, t), rs)
<1>1. l[t] \in Row
  BY DEF LedgerType
<1>2. PICK v : v = Evaluate(l, rs, t)
  OBVIOUS
<1>3. CASE l[t].source = "manual"
  <2>1. AsSuggestion(l[t].fields) \in Suggestion
    BY <1>1, RowFacts, AsSuggestionTyped
  <2>2. v = Evaluation("manual", AsSuggestion(l[t].fields), None, {}, FALSE)
    BY <1>2, <1>3 DEF Evaluate
  <2>3. v \in Verdict /\ v.source = "manual" /\ v.winner = None /\ v.conflicts = {} /\ ~v.stale
    BY <2>1, <2>2 DEF Evaluation, Verdict, Source
  <2>4. QED
    BY <1>2, <1>3, <2>3 DEF Judged, Names
<1>4. ASSUME NEW s \in Suggestion \cup {None}, NEW source \in {"automatic", "unclassified"},
             NEW doubtful \in BOOLEAN,
             v = Evaluation(source, s, None, {}, doubtful),
             l[t].source # "manual", l[t].pair = None \/ s = Moved
      PROVE  Judged(l[t], v, rs)
  <2>1. v \in Verdict /\ v.source = source /\ v.winner = None /\ v.conflicts = {} /\ ~v.stale
        /\ v.suggestion = s
    BY <1>4 DEF Evaluation, Verdict, Source
  <2>2. QED
    BY <1>4, <2>1 DEF Judged, Names
<1>5. CASE l[t].source # "manual" /\ l[t].pair # None
  <2>1. v = Evaluation("automatic", Moved, None, {}, FALSE)
    BY <1>2, <1>5 DEF Evaluate, Moved
  <2>2. QED
    BY <1>2, <1>4, <1>5, <2>1, MovedTyped
<1>6. CASE l[t].source # "manual" /\ l[t].pair = None /\ Matching(l, rs, t) # {}
  <2>1. v = ByRule(l, rs, t)
    BY <1>2, <1>6 DEF Evaluate
  <2>2. QED
    BY <1>2, <1>6, <2>1, ByRuleTyped DEF Judged
<1>7. CASE l[t].source # "manual" /\ l[t].pair = None /\ Matching(l, rs, t) = {}
  <2>1. /\ OfParty(t) \subseteq Transaction /\ OfNarration(t) \subseteq Transaction
        /\ OfSimilar(t) \subseteq Transaction
    BY DEF OfParty, OfNarration, OfSimilar
  <2>2. PICK S : S = {Bank[t], Precedent(l, OfParty(t)), Precedent(l, OfNarration(t)),
                      Precedent(l, OfSimilar(t))}
    OBVIOUS
  <2>3. S \subseteq Suggestion \cup {None}
    BY <2>1, <2>2, PrecedentTyped, LedgerAssumption
  <2>4. \/ v = Evaluation("unclassified", None, None, {}, TRUE)
        \/ \E p \in S : p # None /\
              \E b \in BOOLEAN : v = Evaluation("automatic", WithoutSplitCategory(l[t], p), None, {}, b)
    BY <1>2, <1>7, <2>2 DEF Evaluate
  <2>5. \A p \in S : p # None => WithoutSplitCategory(l[t], p) \in Suggestion
    BY <2>3, WithoutSplitTyped
  <2>6. QED
    BY <1>2, <1>4, <1>7, <2>4, <2>5
<1>8. QED
  BY <1>3, <1>5, <1>6, <1>7

LEMMA PersistTyped ==
    ASSUME NEW row \in Row, NEW v \in Verdict
    PROVE  /\ Persist(row, v) \in Row /\ Persist(row, v).source = v.source
           /\ Persist(row, v).pair = row.pair /\ Persist(row, v).split = row.split
           /\ Persist(row, v).verdict = v
           /\ v.source = "manual" => Persist(row, v).fields = row.fields
           /\ v.source # "manual" /\ v.suggestion = Moved => Persist(row, v).fields.type = "transfer"
<1>1. PICK base \in Fields : base = Baseline(row)
  BY RowFacts DEF Baseline
<1>2. PICK fields : fields = IF v.source = "manual" THEN row.fields
                             ELSE IF v.suggestion = None THEN base ELSE Overlay(v.suggestion, base)
  OBVIOUS
<1>3. v.suggestion \in Suggestion \cup {None} /\ v.source \in Source
  BY DEF Verdict
<1>4. fields \in Fields
  BY <1>2, <1>3, OverlayTyped, RowFacts
<1>5. v.source # "manual" /\ v.suggestion = Moved => fields.type = "transfer"
  <2>1. Moved # None
    BY MovedTyped, LedgerAssumption
  <2>2. Overlay(Moved, base).type = Moved["type"]
    BY MovedTyped, OverlayTyped
  <2>3. QED
    BY <1>2, <2>1, <2>2, MovedTyped
<1>6. PICK review \in ReviewState : review = IF v.doubtful THEN "needs_review" ELSE row.review
  BY RowFacts DEF ReviewState
<1>7. PICK p : p = [row EXCEPT !.fields = fields, !.source = v.source, !.review = review,
                               !.origin = base, !.verdict = v, !.ai = None]
  OBVIOUS
<1>8. p = Persist(row, v)
  BY <1>1, <1>2, <1>6, <1>7 DEF Persist
<1>9. /\ p \in Row /\ p.source = v.source /\ p.pair = row.pair /\ p.split = row.split
      /\ p.verdict = v /\ p.fields = fields
  BY <1>3, <1>4, <1>7 DEF Row
<1>10. QED
  BY <1>2, <1>5, <1>8, <1>9

\* Classifying keeps what the user did, pairs, and splits.
KeptBy(row, next) ==
    /\ row.source = "manual" <=> next.source = "manual"
    /\ next.pair = row.pair /\ next.split = row.split
    /\ row.source = "manual" => next.fields = row.fields
    /\ row.pair # None /\ row.fields.type = "transfer" => next.fields.type = "transfer"

LEMMA ClassifiedTyped ==
    ASSUME NEW l, LedgerType(l), NEW rs, RulesType(rs), NEW ts
    PROVE  /\ LedgerType(Classified(l, rs, ts))
           /\ \A t \in Transaction :
                 /\ l[t] = None => Classified(l, rs, ts)[t] = None
                 /\ l[t] # None =>
                       /\ Classified(l, rs, ts)[t] # None /\ Classified(l, rs, ts)[t] \in Row
                       /\ KeptBy(l[t], Classified(l, rs, ts)[t])
                 /\ t \notin ts => Classified(l, rs, ts)[t] = l[t]
                 /\ t \in ts /\ l[t] # None =>
                       /\ Classified(l, rs, ts)[t].verdict = Evaluate(l, rs, t)
                       /\ Judged(l[t], Evaluate(l, rs, t), rs)
<1>1. PICK c : c = Classified(l, rs, ts)
  OBVIOUS
<1>2. c = [t \in Transaction |-> IF t \in ts /\ l[t] # None THEN Persist(l[t], Evaluate(l, rs, t))
                                 ELSE l[t]]
  BY <1>1 DEF Classified
<1>3. ASSUME NEW t \in Transaction, t \in ts, l[t] # None
      PROVE  /\ c[t] \in Row /\ c[t] # None /\ KeptBy(l[t], c[t])
             /\ c[t].verdict = Evaluate(l, rs, t) /\ Judged(l[t], Evaluate(l, rs, t), rs)
  <2>1. l[t] \in Row
    BY <1>3 DEF LedgerType
  <2>2. PICK v : v = Evaluate(l, rs, t)
    OBVIOUS
  <2>3. Judged(l[t], v, rs)
    BY <1>3, <2>2, EvaluateTyped
  <2>4. c[t] = Persist(l[t], v)
    BY <1>2, <1>3, <2>2
  <2>5. v \in Verdict
    BY <2>3 DEF Judged
  <2>6. /\ c[t] \in Row /\ c[t].source = v.source
        /\ c[t].pair = l[t].pair /\ c[t].split = l[t].split /\ c[t].verdict = v
        /\ v.source = "manual" => c[t].fields = l[t].fields
        /\ v.source # "manual" /\ v.suggestion = Moved => c[t].fields.type = "transfer"
    BY <2>1, <2>4, <2>5, PersistTyped
  <2>7. KeptBy(l[t], c[t])
    BY <2>3, <2>6 DEF KeptBy, Judged
  <2>8. QED
    BY <2>2, <2>3, <2>6, <2>7, RowFacts
<1>4. ASSUME NEW t \in Transaction, t \notin ts \/ l[t] = None PROVE c[t] = l[t]
  BY <1>2, <1>4
<1>5. \A t \in Transaction : l[t] # None => l[t] \in Row /\ KeptBy(l[t], l[t])
  BY DEF LedgerType, KeptBy
<1>6. \A t \in Transaction : c[t] \in Row \cup {None}
  BY <1>3, <1>4, <1>5
<1>7. LedgerType(c)
  BY <1>2, <1>6 DEF LedgerType
<1>8. QED
  BY <1>1, <1>3, <1>4, <1>5, <1>7

-----------------------------------------------------------------------------
(* How a ledger follows from another: nobody is booked or deleted or paired,   *)
(* a confirmed transfer stays one, and what the user confirmed stays so but    *)
(* for the transactions ts.                                                    *)

FollowsRow(row, next, free) ==
    /\ next \in Row /\ next.pair = row.pair
    /\ row.pair # None /\ row.fields.type = "transfer" => next.fields.type = "transfer"
    /\ ~free /\ row.source = "manual" => next.source = "manual" /\ next.fields = row.fields

Follows(l, m, ts) ==
    /\ LedgerType(m)
    /\ \A t \in Transaction :
          /\ l[t] = None => m[t] = None
          /\ l[t] # None => m[t] # None /\ FollowsRow(l[t], m[t], t \in ts)

LEMMA FollowsFrom ==
    ASSUME NEW l, LedgerType(l), NEW m, NEW ts, m = [t \in Transaction |-> m[t]],
           \A t \in Transaction : l[t] = None => m[t] = None,
           \A t \in Transaction : l[t] # None => FollowsRow(l[t], m[t], t \in ts)
    PROVE  Follows(l, m, ts)
<1>1. \A t \in Transaction : m[t] \in Row \cup {None}
  BY DEF FollowsRow
<1>2. LedgerType(m)
  BY <1>1 DEF LedgerType
<1>3. \A t \in Transaction : l[t] # None => m[t] # None
  BY RowFacts DEF FollowsRow
<1>4. QED
  BY <1>2, <1>3 DEF Follows

LEMMA FollowsOn ==
    ASSUME NEW l, NEW m, NEW n, NEW ts, Follows(l, m, ts), Follows(m, n, ts)
    PROVE  Follows(l, n, ts)
BY DEF Follows, FollowsRow

LEMMA FollowsMore ==
    ASSUME NEW l, NEW m, NEW ts, Follows(l, m, {})
    PROVE  Follows(l, m, ts)
BY DEF Follows, FollowsRow

LEMMA ClassifiedFollows ==
    ASSUME NEW l, LedgerType(l), NEW rs, RulesType(rs), NEW ts
    PROVE  Follows(l, Classified(l, rs, ts), {})
<1>1. PICK c : c = Classified(l, rs, ts)
  OBVIOUS
<1>2. \A t \in Transaction :
         /\ l[t] = None => c[t] = None
         /\ l[t] # None => c[t] # None /\ c[t] \in Row /\ KeptBy(l[t], c[t])
  BY <1>1, ClassifiedTyped
<1>3. LedgerType(c)
  BY <1>1, ClassifiedTyped
<1>4. QED
  BY <1>1, <1>2, <1>3 DEF Follows, FollowsRow, KeptBy

Freed(verdict, r) ==
    IF verdict # None /\ verdict.winner = r THEN [verdict EXCEPT !.winner = None] ELSE verdict

LEMMA DisownedRow ==
    ASSUME NEW l, LedgerType(l), NEW r, NEW t \in Transaction, l[t] # None
    PROVE  /\ Disowned(l, r)[t] \in Row
           /\ Disowned(l, r)[t].fields = l[t].fields /\ Disowned(l, r)[t].source = l[t].source
           /\ Disowned(l, r)[t].pair = l[t].pair /\ Disowned(l, r)[t].split = l[t].split
           /\ Disowned(l, r)[t].verdict = Freed(l[t].verdict, r)
<1>1. l[t] \in Row
  BY DEF LedgerType
<1>2. CASE l[t].verdict # None /\ l[t].verdict.winner = r
  <2>1. l[t].verdict \in Verdict
    BY <1>1, <1>2, RowFacts
  <2>2. PICK v : v = [l[t].verdict EXCEPT !.winner = None]
    OBVIOUS
  <2>3. v \in Verdict /\ v.winner = None
    BY <2>1, <2>2 DEF Verdict
  <2>4. Disowned(l, r)[t] = [l[t] EXCEPT !.verdict = v]
    BY <1>2, <2>2 DEF Disowned
  <2>5. /\ Disowned(l, r)[t] \in Row /\ Disowned(l, r)[t].verdict = v
        /\ Disowned(l, r)[t].fields = l[t].fields /\ Disowned(l, r)[t].source = l[t].source
        /\ Disowned(l, r)[t].pair = l[t].pair /\ Disowned(l, r)[t].split = l[t].split
    BY <1>1, <2>3, <2>4 DEF Row
  <2>6. QED
    BY <1>2, <2>2, <2>3, <2>5 DEF Freed
<1>3. CASE ~(l[t].verdict # None /\ l[t].verdict.winner = r)
  <2>1. Disowned(l, r)[t] = l[t]
    BY <1>3 DEF Disowned
  <2>2. QED
    BY <1>1, <1>3, <2>1 DEF Freed
<1>4. QED
  BY <1>2, <1>3

LEMMA DisownedFollows ==
    ASSUME NEW l, LedgerType(l), NEW r
    PROVE  Follows(l, Disowned(l, r), {})
<1>1. PICK d : d = Disowned(l, r)
  OBVIOUS
<1>2. d = [t \in Transaction |-> d[t]] /\ \A t \in Transaction : l[t] = None => d[t] = None
  BY <1>1 DEF Disowned
<1>3. ASSUME NEW t \in Transaction, l[t] # None
      PROVE  /\ d[t] \in Row /\ d[t].fields = l[t].fields /\ d[t].source = l[t].source
             /\ d[t].pair = l[t].pair
  <2>1. /\ Disowned(l, r)[t] \in Row /\ Disowned(l, r)[t].fields = l[t].fields
        /\ Disowned(l, r)[t].source = l[t].source /\ Disowned(l, r)[t].pair = l[t].pair
    BY <1>3, DisownedRow
  <2>2. QED
    BY <1>1, <2>1
<1>4. \A t \in Transaction : l[t] # None => FollowsRow(l[t], d[t], t \in {})
  BY <1>3 DEF FollowsRow
<1>5. QED
  BY <1>1, <1>2, <1>4, FollowsFrom

LEMMA RulesWithout ==
    ASSUME RulesType(rules), NEW r
    PROVE  RulesType([rules EXCEPT ![r] = None])
<1>1. CASE r \in DOMAIN rules
  BY <1>1 DEF RulesType
<1>2. CASE r \notin DOMAIN rules
  <2>1. rules = [q \in DOMAIN rules |-> rules[q]]
    BY DEF RulesType
  <2>2. [rules EXCEPT ![r] = None] = rules
    BY <1>2, <2>1
  <2>3. QED
    BY <2>2
<1>3. QED
  BY <1>1, <1>2

LEMMA WithoutRuleFollows ==
    ASSUME NEW l, LedgerType(l), RulesType(rules), NEW r
    PROVE  Follows(l, WithoutRule(l, r), {})
<1>1. Follows(l, Disowned(l, r), {})
  BY DisownedFollows
<1>2. RulesType([rules EXCEPT ![r] = None])
  BY RulesWithout
<1>3. LedgerType(Disowned(l, r))
  BY <1>1 DEF Follows
<1>4. PICK rs : rs = [rules EXCEPT ![r] = None]
  OBVIOUS
<1>5. PICK ts : ts = Matched(l, rules, r)
  OBVIOUS
<1>6. Follows(Disowned(l, r), Classified(Disowned(l, r), rs, ts), {})
  BY <1>2, <1>3, <1>4, ClassifiedFollows
<1>7. QED
  BY <1>1, <1>4, <1>5, <1>6, FollowsOn DEF WithoutRule

SnapshotRow ==
    [fields : Fields, source : Source, review : ReviewState, verdict : Verdict,
     ai : Suggestion \cup {None}]

BeforeType(before) ==
    /\ DOMAIN before \subseteq Transaction
    /\ \A t \in DOMAIN before : before[t] \in SnapshotRow

Returned(row, snap) ==
    [row EXCEPT !.fields = snap.fields, !.source = snap.source, !.review = snap.review,
                !.verdict = snap.verdict, !.ai = snap.ai, !.origin = None]

LEMMA RestoredRow ==
    ASSUME NEW row \in Row, NEW snap \in SnapshotRow
    PROVE  /\ Returned(row, snap) \in Row /\ Snapshot(Returned(row, snap)) = snap
           /\ Returned(row, snap).fields = snap.fields /\ Returned(row, snap).source = snap.source
           /\ Returned(row, snap).verdict = snap.verdict
           /\ Returned(row, snap).pair = row.pair /\ Returned(row, snap).split = row.split
<1> DEFINE next == Returned(row, snap)
<1>1. /\ snap.fields \in Fields /\ snap.source \in Source /\ snap.review \in ReviewState
      /\ snap.verdict \in Verdict /\ snap.ai \in Suggestion \cup {None}
      /\ snap = [fields |-> snap.fields, source |-> snap.source, review |-> snap.review,
                 verdict |-> snap.verdict, ai |-> snap.ai]
  BY DEF SnapshotRow
<1>2. next \in Row
  BY <1>1 DEF Row, Returned
<1>3. /\ next.fields = snap.fields /\ next.source = snap.source /\ next.verdict = snap.verdict
      /\ next.pair = row.pair /\ next.split = row.split /\ next.review = snap.review
      /\ next.ai = snap.ai
  BY DEF Row, Returned
<1>4. QED
  BY <1>1, <1>2, <1>3 DEF Snapshot

LEMMA RestoredFollows ==
    ASSUME NEW l, LedgerType(l), NEW before, BeforeType(before),
           \A t \in DOMAIN before :
              /\ l[t] # None
              /\ l[t].pair # None => before[t].fields.type = "transfer"
    PROVE  /\ Follows(l, Restored(l, before), DOMAIN before)
           /\ \A t \in DOMAIN before :
                 /\ Restored(l, before)[t] \in Row /\ Snapshot(Restored(l, before)[t]) = before[t]
                 /\ Restored(l, before)[t].fields = before[t].fields
                 /\ Restored(l, before)[t].source = before[t].source
                 /\ Restored(l, before)[t].verdict = before[t].verdict
                 /\ Restored(l, before)[t].pair = l[t].pair
                 /\ Restored(l, before)[t].split = l[t].split
           /\ \A t \in Transaction \ DOMAIN before : Restored(l, before)[t] = l[t]
<1>1. PICK d : d = Restored(l, before)
  OBVIOUS
<1>2. d = [t \in Transaction |-> d[t]] /\ \A t \in Transaction \ DOMAIN before : d[t] = l[t]
  BY <1>1 DEF Restored
<1>3. ASSUME NEW t \in DOMAIN before
      PROVE  /\ d[t] \in Row /\ Snapshot(d[t]) = before[t]
             /\ d[t].fields = before[t].fields /\ d[t].source = before[t].source
             /\ d[t].verdict = before[t].verdict /\ d[t].pair = l[t].pair /\ d[t].split = l[t].split
  <2>1. t \in Transaction /\ l[t] \in Row /\ before[t] \in SnapshotRow
    BY <1>3 DEF BeforeType, LedgerType
  <2>2. d[t] = Returned(l[t], before[t])
    BY <1>1, <1>3, <2>1 DEF Restored, Returned
  <2>3. QED
    BY <2>1, <2>2, RestoredRow
<1>4. \A t \in Transaction : l[t] = None => d[t] = None
  BY <1>2
<1>5. ASSUME NEW t \in Transaction, l[t] # None
      PROVE  FollowsRow(l[t], d[t], t \in DOMAIN before)
  <2>1. l[t] \in Row
    BY <1>5 DEF LedgerType
  <2>2. CASE t \in DOMAIN before
    BY <1>3, <2>1, <2>2 DEF FollowsRow
  <2>3. CASE t \notin DOMAIN before
    BY <1>2, <2>1, <2>3 DEF FollowsRow
  <2>4. QED
    BY <2>2, <2>3
<1>6. Follows(l, d, DOMAIN before)
  BY <1>2, <1>4, <1>5, FollowsFrom
<1>7. QED
  BY <1>1, <1>2, <1>3, <1>6

-----------------------------------------------------------------------------
(* Rows that the user changes.                                                 *)

Stale(verdict) == IF verdict = None THEN None ELSE [verdict EXCEPT !.stale = TRUE]

LEMMA StaleTyped ==
    ASSUME NEW v \in Verdict \cup {None}
    PROVE  /\ Stale(v) \in Verdict \cup {None}
           /\ Stale(v) # None => Stale(v).stale /\ v # None
           /\ Stale(v) # None => Stale(v).winner = v.winner /\ Stale(v).conflicts = v.conflicts
<1>1. CASE v = None
  BY <1>1 DEF Stale
<1>2. CASE v # None
  <2>1. PICK w : w = [v EXCEPT !.stale = TRUE]
    OBVIOUS
  <2>2. w \in Verdict /\ w.stale /\ w.winner = v.winner /\ w.conflicts = v.conflicts
    BY <1>2, <2>1 DEF Verdict
  <2>3. QED
    BY <1>2, <2>1, <2>2 DEF Stale
<1>3. QED
  BY <1>1, <1>2

LEMMA TouchedTyped ==
    ASSUME NEW row \in Row
    PROVE  /\ Touched(row) \in Row
           /\ Touched(row).fields = row.fields /\ Touched(row).source = row.source
           /\ Touched(row).pair = row.pair /\ Touched(row).split = row.split
           /\ Touched(row).review = row.review /\ Touched(row).verdict = Stale(row.verdict)
<1>1. PICK v \in Verdict \cup {None} : v = Stale(row.verdict)
  BY RowFacts, StaleTyped
<1>2. Touched(row) = [row EXCEPT !.origin = None, !.ai = None, !.verdict = v]
  BY <1>1 DEF Touched, Stale
<1>3. QED
  BY <1>1, <1>2 DEF Row

CorrectedRow(row, columns, review) ==
    [Touched(row) EXCEPT !.fields = Overlay(columns, @),
                         !.source = IF columns = <<>> THEN @ ELSE "manual",
                         !.review = IF review = None THEN @ ELSE review]

LEMMA CorrectedTyped ==
    ASSUME NEW row \in Row, NEW c \in Correction,
           "type" \in DOMAIN c.columns /\ c.columns.type # "transfer" => row.pair = None
    PROVE  /\ FollowsRow(row, CorrectedRow(row, c.columns, c.review), c.columns # <<>>)
           /\ CorrectedRow(row, c.columns, c.review).verdict = Stale(row.verdict)
<1>1. PICK next \in Row : next = Touched(row)
  BY TouchedTyped
<1>2. /\ next.fields = row.fields /\ next.source = row.source /\ next.pair = row.pair
      /\ next.verdict = Stale(row.verdict) /\ row.fields \in Fields
  BY <1>1, TouchedTyped, RowFacts
<1>3. PICK f \in Fields : f = Overlay(c.columns, row.fields)
  BY <1>2, LedgerAssumption
<1>4. PICK o \in Source : o = IF c.columns = <<>> THEN row.source ELSE "manual"
  BY RowFacts DEF Source
<1>5. PICK r \in ReviewState : r = IF c.review = None THEN next.review ELSE c.review
  BY LedgerAssumption, RowFacts
<1>6. PICK d : d = CorrectedRow(row, c.columns, c.review)
  OBVIOUS
<1>7. d = [next EXCEPT !.fields = f, !.source = o, !.review = r]
  BY <1>1, <1>2, <1>3, <1>4, <1>5, <1>6 DEF CorrectedRow
<1>8. d \in Row /\ d.fields = f /\ d.source = o /\ d.pair = row.pair /\ d.verdict = Stale(row.verdict)
  BY <1>2, <1>7 DEF Row
<1>9. f.type = IF "type" \in DOMAIN c.columns THEN c.columns.type ELSE row.fields.type
  BY <1>2, <1>3, FieldsShape DEF Overlay, Columns
<1>10. c.columns = <<>> => f = row.fields
  <2>1. c.columns = <<>> => DOMAIN c.columns = {}
    OBVIOUS
  <2>2. QED
    BY <1>2, <1>3, <2>1, FieldsShape DEF Overlay
<1>11. QED
  BY <1>4, <1>6, <1>8, <1>9, <1>10 DEF FollowsRow

SplitRow(row) ==
    [Touched(row) EXCEPT !.split = TRUE, !.source = "manual", !.review = "reviewed"]

LEMMA SplitTyped ==
    ASSUME NEW row \in Row
    PROVE  /\ FollowsRow(row, SplitRow(row), FALSE)
           /\ SplitRow(row).verdict = Stale(row.verdict)
<1>1. PICK next \in Row : next = Touched(row)
  BY TouchedTyped
<1>2. /\ next.fields = row.fields /\ next.pair = row.pair /\ next.verdict = Stale(row.verdict)
  BY <1>1, TouchedTyped
<1>3. SplitRow(row) = [next EXCEPT !.split = TRUE, !.source = "manual", !.review = "reviewed"]
  BY <1>1 DEF SplitRow
<1>4. /\ SplitRow(row) \in Row /\ SplitRow(row).fields = next.fields
      /\ SplitRow(row).source = "manual" /\ SplitRow(row).pair = next.pair
      /\ SplitRow(row).verdict = next.verdict
  BY <1>3 DEF Row, Source, ReviewState
<1>5. QED
  BY <1>2, <1>4 DEF FollowsRow

PairedRow(row, other) ==
    [Touched(row) EXCEPT !.fields.type = "transfer", !.pair = other,
                         !.source = "manual", !.review = "reviewed"]

LEMMA PairedTyped ==
    ASSUME NEW row \in Row, NEW other \in Transaction
    PROVE  /\ PairedRow(row, other) \in Row /\ PairedRow(row, other).pair = other
           /\ PairedRow(row, other).fields.type = "transfer"
           /\ PairedRow(row, other).verdict = Stale(row.verdict)
<1>1. PICK next \in Row : next = Touched(row)
  BY TouchedTyped
<1>2. PICK f : f = [next.fields EXCEPT !.type = "transfer"]
  OBVIOUS
<1>3. f \in Fields /\ f.type = "transfer"
  <2>1. next.fields \in Fields /\ "transfer" \in Type
    BY RowFacts, LedgerAssumption
  <2>2. QED
    BY <1>2, <2>1 DEF Fields
<1>4. PairedRow(row, other) =
         [next EXCEPT !.fields = f, !.pair = other, !.source = "manual", !.review = "reviewed"]
  BY <1>1, <1>2 DEF PairedRow
<1>5. /\ PairedRow(row, other) \in Row /\ PairedRow(row, other).pair = other
      /\ PairedRow(row, other).fields = f /\ PairedRow(row, other).verdict = next.verdict
  <2>1. PICK p : p = [next EXCEPT !.fields = f, !.pair = other, !.source = "manual",
                                  !.review = "reviewed"]
    OBVIOUS
  <2>2. p.pair = other /\ p.fields = f /\ p.verdict = next.verdict
    BY <2>1 DEF Row
  <2>3. p \in Row
    BY <1>3, <2>1 DEF Row, Source, ReviewState
  <2>4. QED
    BY <1>4, <2>1, <2>2, <2>3
<1>6. QED
  BY <1>1, <1>3, <1>5, TouchedTyped

LEMMA DecidedTyped ==
    ASSUME NEW row \in Row, row.verdict \in Verdict, NEW action \in Suggestion \cup {None},
           Decidable(row, action)
    PROVE  /\ FollowsRow(row, Decided(row, action), TRUE)
           /\ Decided(row, action).verdict \in Verdict
           /\ Decided(row, action).verdict.source = "manual"
           /\ Decided(row, action).verdict.winner = None
           /\ Decided(row, action).verdict.conflicts = {}
<1>1. PICK next \in Row : next = Touched(row)
  BY TouchedTyped
<1>2. /\ next.fields = row.fields /\ next.pair = row.pair /\ row.fields \in Fields
  BY <1>1, TouchedTyped, RowFacts
<1>3. PICK f \in Fields : f = IF action = None THEN row.fields ELSE Overlay(action, row.fields)
  BY <1>2, OverlayTyped
<1>4. PICK o \in Source : o = IF action = None THEN next.source ELSE "manual"
  BY RowFacts DEF Source
<1>5. PICK g \in Suggestion \cup {None} : g = IF action = None THEN row.verdict.suggestion ELSE action
  BY DEF Verdict
<1>6. PICK v : v = Evaluation("manual", g, None, {}, FALSE)
  OBVIOUS
<1>7. v \in Verdict /\ v.source = "manual" /\ v.winner = None /\ v.conflicts = {}
  BY <1>6 DEF Evaluation, Verdict, Source
<1>8. PICK d : d = Decided(row, action)
  OBVIOUS
<1>9. d = [next EXCEPT !.fields = f, !.source = o, !.review = "reviewed", !.verdict = v]
  BY <1>1, <1>2, <1>3, <1>4, <1>5, <1>6, <1>8 DEF Decided
<1>10. d \in Row /\ d.fields = f /\ d.source = o /\ d.pair = row.pair /\ d.verdict = v
  BY <1>2, <1>7, <1>9 DEF Row, ReviewState
<1>11. row.pair # None /\ row.fields.type = "transfer" => f.type = "transfer"
  BY <1>3 DEF Decidable
<1>12. QED
  BY <1>7, <1>8, <1>10, <1>11 DEF FollowsRow

SuggestedRow(row, answer) == [row EXCEPT !.ai = answer]

LEMMA SuggestedTyped ==
    ASSUME NEW row \in Row, NEW answer \in Suggestion
    PROVE  /\ FollowsRow(row, SuggestedRow(row, answer), FALSE)
           /\ SuggestedRow(row, answer).verdict = row.verdict
           /\ SuggestedRow(row, answer).split = row.split
<1>1. /\ SuggestedRow(row, answer) \in Row
      /\ SuggestedRow(row, answer).fields = row.fields
      /\ SuggestedRow(row, answer).source = row.source /\ SuggestedRow(row, answer).pair = row.pair
      /\ SuggestedRow(row, answer).verdict = row.verdict
      /\ SuggestedRow(row, answer).split = row.split
  BY DEF SuggestedRow, Row
<1>2. QED
  BY <1>1 DEF FollowsRow

-----------------------------------------------------------------------------
(* Types of the state, and what each step makes of the ledger.                 *)

ReviewRow ==
    [decision : {"accept", "change", "ignore"}, rule : Nat \cup {None}, undone : BOOLEAN,
     before : UNION {[ts -> SnapshotRow] : ts \in SUBSET Transaction}]

TypeInv == LedgerType(ledger) /\ RulesType(rules) /\ reviews \in Seq(ReviewRow)

LEMMA ReviewFacts ==
    ASSUME TypeInv, NEW k \in DOMAIN reviews
    PROVE  /\ reviews[k] \in ReviewRow /\ BeforeType(reviews[k].before)
           /\ reviews[k].rule \in Nat \cup {None}
<1>1. reviews[k] \in ReviewRow
  BY DEF TypeInv
<1>2. reviews[k].before \in UNION {[ts -> SnapshotRow] : ts \in SUBSET Transaction}
  BY <1>1 DEF ReviewRow
<1>3. PICK ts \in SUBSET Transaction : reviews[k].before \in [ts -> SnapshotRow]
  BY <1>2
<1>4. BeforeType(reviews[k].before)
  BY <1>3 DEF BeforeType
<1>5. QED
  BY <1>1, <1>4 DEF ReviewRow

\* Only what ts says may be changed by the user.
UserFree(ts) == \A t \in ts : ByUser(t)

LEMMA NobodyFree == UserFree({})
BY DEF UserFree

NewRow ==
    [fields |-> [category |-> None, type |-> "unclassified"],
     source |-> "unclassified", review |-> "unreviewed", pair |-> None,
     split |-> FALSE, origin |-> None, verdict |-> None, ai |-> None]

LEMMA NewRowTyped == NewRow \in Row /\ NewRow.pair = None /\ NewRow.verdict = None
<1>1. PICK f : f = [category |-> None, type |-> "unclassified"]
  OBVIOUS
<1>2. f \in Fields
  <2>1. "unclassified" \in Type
    BY LedgerAssumption
  <2>2. QED
    BY <1>1, <2>1 DEF Fields
<1>3. NewRow = [fields |-> f, source |-> "unclassified", review |-> "unreviewed", pair |-> None,
                split |-> FALSE, origin |-> None, verdict |-> None, ai |-> None]
  BY <1>1 DEF NewRow
<1>4. QED
  BY <1>2, <1>3 DEF Row, Source, ReviewState

LEMMA BookStep ==
    ASSUME TypeInv, NEW t \in Transaction, Book(t)
    PROVE  \E l : /\ l = [ledger EXCEPT ![t] = NewRow] /\ LedgerType(l) /\ ledger[t] = None
                  /\ \E ts : t \in ts /\ ledger' = Classified(l, rules, ts)
                  /\ Follows(l, ledger', {})
<1>1. PICK l : l = [ledger EXCEPT ![t] = NewRow]
  OBVIOUS
<1>2. LedgerType(l) /\ l[t] = NewRow /\ NewRow # None
  BY <1>1, NewRowTyped, RowFacts DEF TypeInv, LedgerType
<1>3. PICK ts : ts = {u \in Transaction : l[u] # None /\ l[u].source = "unclassified"}
  OBVIOUS
<1>4. ledger' = Classified(l, rules, ts) /\ ledger[t] = None
  BY <1>1, <1>3 DEF Book, NewRow
<1>5. t \in ts
  <2>1. NewRow.source = "unclassified"
    BY DEF NewRow
  <2>2. QED
    BY <1>2, <1>3, <2>1
<1>6. Follows(l, ledger', {})
  BY <1>2, <1>4, ClassifiedFollows DEF TypeInv
<1>7. QED
  BY <1>1, <1>2, <1>4, <1>5, <1>6

LEMMA DeleteStep ==
    ASSUME TypeInv, NEW ts, Delete(ts)
    PROVE  /\ LedgerType(ledger')
           /\ \A t \in Transaction : ledger'[t] = IF t \in ts THEN None ELSE ledger[t]
           /\ \A t \in ts : ledger[t].pair = None
BY DEF Delete, TypeInv, LedgerType

LEMMA EditStep ==
    ASSUME TypeInv, NEW ts \in SUBSET Transaction, NEW c \in Correction,
           Edit(ts, c.columns, c.review)
    PROVE  /\ \E us : Follows(ledger, ledger', us) /\ UserFree(us)
           /\ \A t \in Transaction : ledger[t] # None =>
                 ledger'[t] = ledger[t] \/ ledger'[t].verdict = Stale(ledger[t].verdict)
<1>1. /\ ledger' = [t \in Transaction |-> IF t \notin ts THEN ledger[t]
                                           ELSE CorrectedRow(ledger[t], c.columns, c.review)]
      /\ "type" \in DOMAIN c.columns /\ c.columns.type # "transfer" =>
            \A t \in ts : ledger[t].pair = None
      /\ ts \subseteq Booked
  BY DEF Edit, CorrectedRow, Change
<1>2. \A t \in ts : ledger[t] \in Row /\ ledger[t] # None
  BY <1>1 DEF TypeInv, LedgerType, Booked
<1>3. \A t \in ts : FollowsRow(ledger[t], CorrectedRow(ledger[t], c.columns, c.review),
                               c.columns # <<>>)
                    /\ CorrectedRow(ledger[t], c.columns, c.review).verdict = Stale(ledger[t].verdict)
  BY <1>1, <1>2, CorrectedTyped
<1>4. PICK us : us = IF c.columns = <<>> THEN {} ELSE ts
  OBVIOUS
<1>5. UserFree(us)
  BY <1>4 DEF UserFree, ByUser
<1>6. \A t \in Transaction : ledger[t] # None => FollowsRow(ledger[t], ledger'[t], t \in us)
  BY <1>1, <1>3, <1>4 DEF FollowsRow, TypeInv, LedgerType
<1>7. ledger' = [t \in Transaction |-> ledger'[t]]
  BY <1>1
<1>8. \A t \in Transaction : ledger[t] = None => ledger'[t] = None
  BY <1>1, <1>2
<1>9. Follows(ledger, ledger', us)
  BY <1>6, <1>7, <1>8, FollowsFrom DEF TypeInv
<1>10. QED
  BY <1>1, <1>3, <1>5, <1>9

LEMMA SplitStep ==
    ASSUME TypeInv, NEW t \in Transaction, ReplaceSplits(t)
    PROVE  /\ Follows(ledger, ledger', {})
           /\ \A u \in Transaction : ledger[u] # None =>
                 ledger'[u] = ledger[u] \/ ledger'[u].verdict = Stale(ledger[u].verdict)
<1>1. /\ ledger' = [ledger EXCEPT ![t] = SplitRow(ledger[t])] /\ ledger[t] # None
      /\ ledger[t] \in Row
  BY DEF ReplaceSplits, SplitRow, Change, Booked, TypeInv, LedgerType
<1>2. FollowsRow(ledger[t], SplitRow(ledger[t]), FALSE)
      /\ SplitRow(ledger[t]).verdict = Stale(ledger[t].verdict)
  BY <1>1, SplitTyped
<1>3. ledger' = [u \in Transaction |-> ledger'[u]]
  BY <1>1 DEF TypeInv, LedgerType
<1>4. \A u \in Transaction : ledger[u] # None => FollowsRow(ledger[u], ledger'[u], u \in {})
  BY <1>1, <1>2 DEF FollowsRow, TypeInv, LedgerType
<1>5. \A u \in Transaction : ledger[u] = None => ledger'[u] = None
  BY <1>1 DEF TypeInv, LedgerType
<1>6. Follows(ledger, ledger', {})
  BY <1>3, <1>4, <1>5, FollowsFrom DEF TypeInv
<1>7. QED
  BY <1>1, <1>2, <1>6 DEF TypeInv, LedgerType

LEMMA TransferStep ==
    ASSUME TypeInv, NEW t \in Transaction, NEW u \in Transaction, ConfirmTransfer(t, u)
    PROVE  /\ LedgerType(ledger') /\ t # u /\ ledger[t] # None /\ ledger[u] # None
           /\ ledger[t].pair \in {None, u} /\ ledger[u].pair \in {None, t}
           /\ ledger'[t] = PairedRow(ledger[t], u) /\ ledger'[u] = PairedRow(ledger[u], t)
           /\ ledger'[t] \in Row /\ ledger'[u] \in Row
           /\ \A v \in Transaction \ {t, u} : ledger'[v] = ledger[v]
<1>1. /\ ledger[t] # None /\ ledger[u] # None
      /\ ledger[t].pair \in {None, u} /\ ledger[u].pair \in {None, t}
      /\ ledger' = [ledger EXCEPT ![t] = PairedRow(ledger[t], u), ![u] = PairedRow(ledger[u], t)]
      /\ {t, u} \in Internal
  BY DEF ConfirmTransfer, PairedRow, Change, Booked
<1>2. t # u
  BY <1>1, LedgerAssumption
<1>3. ledger[t] \in Row /\ ledger[u] \in Row
  BY <1>1 DEF TypeInv, LedgerType
<1>4. PairedRow(ledger[t], u) \in Row /\ PairedRow(ledger[u], t) \in Row
  BY <1>3, PairedTyped
<1>5. QED
  BY <1>1, <1>2, <1>4 DEF TypeInv, LedgerType

-----------------------------------------------------------------------------
(* The rules that decisions leave behind, and the steps that change rules.     *)

LEMMA SpecificityOfOne ==
    ASSUME NEW kind \in {"counterparty", "pattern", "exact"}, NEW operator \in {"equals", "pattern"}
    PROVE  Specificity(kind, <<operator>>) \in Nat
<1>1. PICK seq : seq = <<operator>>
  OBVIOUS
<1>2. DOMAIN seq = {1} /\ seq[1] = operator
  BY <1>1
<1> DEFINE op(x, y) == y + OperatorScore(x) + 10
           Step(g) == [s \in SUBSET {1} |->
                      IF s = {} THEN KindScore(kind)
                      ELSE LET x == Max(s) IN op(seq[x], g[s \ {x}])]
           iter == CHOOSE g : g = Step(g)
           whole == [s \in SUBSET {1} |->
                      IF s = {} THEN KindScore(kind) ELSE op(operator, KindScore(kind))]
<1>3. Specificity(kind, seq) = iter[{1}]
  BY <1>2 DEF Specificity, FoldLeft, MapThenFoldSet
<1>4. Max({1}) = 1
  <2>1. \E x \in {1} : \A y \in {1} : x >= y
    OBVIOUS
  <2>2. QED
    BY <2>1 DEF Max
<1>5. whole = Step(whole)
  <2>1. ASSUME NEW s \in SUBSET {1}, s # {} PROVE Max(s) = 1 /\ s \ {Max(s)} = {}
    <3>1. s = {1}
      BY <2>1
    <3>2. QED
      BY <1>4, <3>1
  <2>2. ASSUME NEW s \in SUBSET {1}, s # {} PROVE whole[s] = op(seq[Max(s)], whole[s \ {Max(s)}])
    BY <1>2, <2>1, <2>2
  <2> HIDE DEF op
  <2>3. QED
    BY <2>2
<1>6. iter = Step(iter)
  <2> HIDE DEF Step
  <2>1. QED
    BY <1>5
<1>7. iter[{1}] = op(operator, iter[{}]) /\ iter[{}] = KindScore(kind)
  <2> DEFINE it == iter
  <2>0. it = Step(it)
    BY <1>6
  <2>1. {1} \ {Max({1})} = {} /\ seq[Max({1})] = operator
    BY <1>2, <1>4
  <2> HIDE DEF iter, it
  <2>2. it[{1}] = op(seq[Max({1})], it[{1} \ {Max({1})}])
    BY <2>0
  <2>3. it[{}] = KindScore(kind)
    BY <2>0
  <2>4. QED
    BY <2>1, <2>2, <2>3 DEF it
<1>8. KindScore(kind) \in Nat /\ OperatorScore(operator) \in Nat
  BY DEF KindScore, OperatorScore
<1>9. QED
  <2>1. PICK a \in Nat : a = KindScore(kind)
    BY <1>8
  <2>2. PICK b \in Nat : b = OperatorScore(operator)
    BY <1>8
  <2>3. iter[{1}] = a + b + 10
    <3> HIDE DEF iter
    <3>1. QED
      BY <1>7, <2>1, <2>2
  <2>4. QED
    <3> HIDE DEF iter
    <3>1. QED
      BY <1>1, <1>3, <2>3

LEMMA RememberedTyped ==
    ASSUME NEW l, NEW group, NEW t, NEW action \in Suggestion
    PROVE  /\ Remembered(l, group, t, action) \in RuleRow
           /\ Remembered(l, group, t, action).types = Type
<1> DEFINE texts == LET order == <<t>> \o SetToSeq(group \ {t})
                    IN [k \in DOMAIN order |-> Narration[order[k]]]
           row(on, kind, operator) ==
               [on |-> on, types |-> Type, action |-> action, priority |-> 0,
                specificity |-> Specificity(kind, <<operator>>), sure |-> Sure(kind), enabled |-> TRUE]
<1>1. PICK kind : kind = RememberedKind(texts)
  OBVIOUS
<1>2. PICK operator : operator = RememberedCondition(texts).operator
  OBVIOUS
<1>3. kind \in {"pattern", "exact"} /\ operator \in {"pattern", "equals"}
  BY <1>1, <1>2 DEF RememberedKind, RememberedCondition
<1>4. ASSUME NEW on \in SUBSET Transaction, NEW k \in {"counterparty", "pattern", "exact"},
             NEW o \in {"equals", "pattern"}
      PROVE  row(on, k, o) \in RuleRow /\ row(on, k, o).types = Type
  <2>1. PICK n \in Nat : n = Specificity(k, <<o>>)
    BY SpecificityOfOne
  <2>2. PICK sure : sure = Sure(k)
    OBVIOUS
  <2>3. sure \in BOOLEAN
    BY <2>2 DEF Sure
  <2>4. row(on, k, o) = [on |-> on, types |-> Type, action |-> action, priority |-> 0,
                         specificity |-> n, sure |-> sure, enabled |-> TRUE]
    BY <2>1, <2>2
  <2>5. QED
    BY <2>3, <2>4 DEF RuleRow
<1>5. PICK parties : parties = {u \in Transaction : Party[u] = Party[t]}
  OBVIOUS
<1>6. PICK alike : alike = {u \in Transaction : Holds(RememberedCondition(texts), Narration[u])}
  OBVIOUS
<1>7. Remembered(l, group, t, action) \in
         {row(parties, "counterparty", "equals"), row(alike, kind, operator)}
  BY <1>1, <1>2, <1>5, <1>6 DEF Remembered
<1>8. parties \in SUBSET Transaction /\ alike \in SUBSET Transaction
  BY <1>5, <1>6
<1> HIDE DEF row
<1>9. QED
  BY <1>3, <1>4, <1>7, <1>8

LEMMA AppendedTyped ==
    ASSUME NEW rs, RulesType(rs), NEW draft \in RuleRow
    PROVE  RulesType(Append(rs, draft))
BY DEF RulesType

LEMMA CreateRuleStep ==
    ASSUME TypeInv, NEW draft \in Draft, CreateRule(draft)
    PROVE  RulesType(rules') /\ Follows(ledger, ledger', {}) /\ reviews' = reviews
<1>1. draft \in RuleRow
  BY LedgerAssumption
<1>2. RulesType(rules')
  BY <1>1, AppendedTyped DEF CreateRule, TypeInv
<1>3. PICK ts : ts = Matched(ledger, rules', Len(rules'))
  OBVIOUS
<1>4. ledger' = Classified(ledger, rules', ts) /\ reviews' = reviews
  BY <1>3 DEF CreateRule
<1>5. QED
  BY <1>2, <1>4, ClassifiedFollows DEF TypeInv

LEMMA UpdateRuleStep ==
    ASSUME TypeInv, NEW draft \in Draft, NEW r \in Rule, UpdateRule(r, draft)
    PROVE  RulesType(rules') /\ Follows(ledger, ledger', {}) /\ reviews' = reviews
<1>1. draft \in RuleRow
  BY LedgerAssumption
<1>2. RulesType(rules')
  <2>1. rules' = [rules EXCEPT ![r] = draft] /\ r \in DOMAIN rules
    BY DEF UpdateRule, Rule
  <2>2. QED
    BY <1>1, <2>1 DEF TypeInv, RulesType
<1>3. PICK ts : ts = Matched(ledger, rules, r) \cup Matched(ledger, rules', r)
  OBVIOUS
<1>4. ledger' = Classified(ledger, rules', ts) /\ reviews' = reviews
  BY <1>3 DEF UpdateRule
<1>5. QED
  BY <1>2, <1>4, ClassifiedFollows DEF TypeInv

LEMMA DeleteRuleStep ==
    ASSUME TypeInv, NEW r \in Rule, DeleteRule(r)
    PROVE  RulesType(rules') /\ Follows(ledger, ledger', {}) /\ reviews' \in Seq(ReviewRow)
<1>1. RulesType(rules')
  BY RulesWithout DEF DeleteRule, TypeInv
<1>2. ledger' = WithoutRule(ledger, r)
  BY DEF DeleteRule
<1>3. Follows(ledger, ledger', {})
  BY <1>2, WithoutRuleFollows DEF TypeInv
<1>4. ASSUME NEW k \in DOMAIN reviews
      PROVE  (IF reviews[k].rule = r THEN [reviews[k] EXCEPT !.rule = None] ELSE reviews[k]) \in ReviewRow
  BY ReviewFacts DEF ReviewRow
<1>5. reviews' = [k \in DOMAIN reviews |->
         IF reviews[k].rule = r THEN [reviews[k] EXCEPT !.rule = None] ELSE reviews[k]]
  BY DEF DeleteRule
<1>6. Len(reviews) \in Nat /\ DOMAIN reviews = 1..Len(reviews)
  BY DEF TypeInv
<1>7. reviews' \in [1..Len(reviews) -> ReviewRow]
  BY <1>4, <1>5, <1>6
<1>8. reviews' \in Seq(ReviewRow)
  BY <1>6, <1>7
<1>9. QED
  BY <1>1, <1>3, <1>8

Placed(rule, priority) == [rule EXCEPT !.priority = priority]

LEMMA ReorderPlaced ==
    ASSUME RulesType(rules), NEW place \in [Rule -> 1..Cardinality(Rule)]
    PROVE  \A r \in Rule : Placed(rules[r], place[r]) \in RuleRow
<1>1. IsFiniteSet(DOMAIN rules) /\ Rule \subseteq DOMAIN rules
  BY RulesFacts DEF Rule
<1>2. Cardinality(Rule) \in Nat
  BY <1>1, FS_Subset, FS_CardinalityType
<1>3. \A r \in Rule : place[r] \in 1..Cardinality(Rule)
  OBVIOUS
<1>4. \A r \in Rule : rules[r] \in RuleRow
  BY DEF Rule, RulesType
<1>5. QED
  BY <1>2, <1>3, <1>4 DEF Placed, RuleRow

LEMMA ReorderStep ==
    ASSUME TypeInv, NEW place \in [Rule -> 1..Cardinality(Rule)], Reorder(place)
    PROVE  RulesType(rules') /\ Follows(ledger, ledger', {}) /\ reviews' = reviews
<1>1. \A r \in Rule : Placed(rules[r], place[r]) \in RuleRow
  BY ReorderPlaced DEF TypeInv
<1>2. rules' = [r \in DOMAIN rules |-> IF r \in Rule THEN Placed(rules[r], place[r]) ELSE None]
  BY DEF Reorder, Placed
<1>3. Len(rules) \in Nat /\ DOMAIN rules = 1..Len(rules)
  BY DEF TypeInv, RulesType
<1>4. rules' \in [1..Len(rules) -> RuleRow \cup {None}]
  BY <1>1, <1>2, <1>3
<1>5. RulesType(rules')
  BY <1>3, <1>4 DEF RulesType
<1>6. PICK ts : ts = Booked
  OBVIOUS
<1>7. ledger' = Classified(ledger, rules', ts) /\ reviews' = reviews
  BY <1>6 DEF Reorder
<1>8. QED
  BY <1>5, <1>7, ClassifiedFollows DEF TypeInv

LEMMA RefreshedFollows ==
    ASSUME TypeInv
    PROVE  Follows(ledger, Refreshed(ledger), {})
<1>1. PICK ts : ts = {t \in Transaction : ledger[t] # None /\ ~Fresh(ledger[t])}
  OBVIOUS
<1>2. QED
  BY <1>1, ClassifiedFollows DEF Refreshed, TypeInv

LEMMA SuggestShape ==
    ASSUME TypeInv, NEW t \in Transaction, NEW answer \in Action, Suggest(t, answer)
    PROVE  \E l : /\ l = ledger \/ l = Classified(ledger, rules, {t})
                  /\ LedgerType(l) /\ Follows(ledger, l, {}) /\ Follows(l, ledger', {})
                  /\ \A u \in Transaction : l[u] # None =>
                        /\ ledger'[u].verdict = l[u].verdict /\ ledger'[u].split = l[u].split
                        /\ ledger'[u].pair = l[u].pair
<1>1. PICK l : l = IF Fresh(ledger[t]) THEN ledger ELSE Classified(ledger, rules, {t})
  OBVIOUS
<1>2. Follows(ledger, ledger, {})
  BY DEF TypeInv, LedgerType, Follows, FollowsRow
<1>3. Follows(ledger, l, {})
  BY <1>1, <1>2, ClassifiedFollows DEF TypeInv
<1>4. answer \in Suggestion /\ ledger[t] # None
  BY LedgerAssumption DEF Suggest, Booked
<1>5. LedgerType(l) /\ l[t] # None /\ l[t] \in Row
  BY <1>3, <1>4 DEF Follows, FollowsRow
<1>6. PICK row : row = SuggestedRow(l[t], answer)
  OBVIOUS
<1>7. FollowsRow(l[t], row, FALSE) /\ row.verdict = l[t].verdict /\ row.split = l[t].split
  BY <1>4, <1>5, <1>6, SuggestedTyped
<1>8. ledger' \in {l, [l EXCEPT ![t] = row]}
  BY <1>1, <1>6 DEF Suggest, SuggestedRow
<1>9. /\ ledger' = [u \in Transaction |-> ledger'[u]]
      /\ \A u \in Transaction : ledger'[u] = l[u] \/ (u = t /\ ledger'[u] = row)
  <2>1. l \in [Transaction -> Row \cup {None}]
    BY <1>5 DEF LedgerType
  <2>2. ledger' = l \/ ledger' = [l EXCEPT ![t] = row]
    BY <1>8
  <2>3. QED
    BY <2>1, <2>2
<1>10. \A u \in Transaction : l[u] # None => FollowsRow(l[u], ledger'[u], u \in {})
  BY <1>5, <1>7, <1>9 DEF FollowsRow, LedgerType
<1>11. Follows(l, ledger', {})
  BY <1>5, <1>9, <1>10, FollowsFrom
<1>12. QED
  BY <1>1, <1>3, <1>5, <1>7, <1>9, <1>11 DEF FollowsRow

LEMMA SuggestStep ==
    ASSUME TypeInv, NEW t \in Transaction, NEW answer \in Action, Suggest(t, answer)
    PROVE  Follows(ledger, ledger', {})
BY SuggestShape, FollowsOn

-----------------------------------------------------------------------------
(* Decisions and their undoing.                                                *)

\* Booked and classified.
Judgeable(l, ts) == \A u \in ts : u \in Transaction /\ l[u] # None /\ l[u].verdict \in Verdict

LEMMA GroupJudgeable ==
    ASSUME NEW l, LedgerType(l), NEW t
    PROVE  Judgeable(l, Group(l, t))
BY DEF Judgeable, Group, InQueue, LedgerType, Row

LEMMA ShownTyped ==
    ASSUME NEW l, LedgerType(l), NEW u \in Transaction, l[u] # None, l[u].verdict \in Verdict
    PROVE  Shown(l[u]) \in Suggestion \cup {None}
BY DEF LedgerType, Row, Verdict, Shown

LEMMA GroupSuggestionTyped ==
    ASSUME NEW l, LedgerType(l), NEW group, Judgeable(l, group)
    PROVE  GroupSuggestion(l, group) \in Suggestion \cup {None}
<1>1. PICK shown : shown = {Shown(l[u]) : u \in group}
  OBVIOUS
<1>2. shown \subseteq Suggestion \cup {None}
  BY <1>1, ShownTyped DEF Judgeable
<1>3. CASE ~(Cardinality(shown) = 1 /\ shown \cap {None, <<>>} = {})
  BY <1>1, <1>3 DEF GroupSuggestion
<1>4. CASE Cardinality(shown) = 1 /\ shown \cap {None, <<>>} = {}
  <2>1. shown # {}
    BY <1>4, FS_EmptySet
  <2>2. GroupSuggestion(l, group) = CHOOSE s \in shown : TRUE
    BY <1>1, <1>4 DEF GroupSuggestion
  <2>3. QED
    BY <1>2, <2>1, <2>2
<1>5. QED
  BY <1>3, <1>4

LEMMA SnapshotTyped ==
    ASSUME NEW l, LedgerType(l), NEW u \in Transaction, l[u] # None, l[u].verdict \in Verdict
    PROVE  Snapshot(l[u]) \in SnapshotRow
<1>1. l[u] \in Row
  BY DEF LedgerType
<1>2. QED
  BY <1>1, RowFacts DEF Snapshot, SnapshotRow

Decision == {"accept", "change", "ignore"}

\* What a decision gives a row.
Applied(row, decision, choice) ==
    CASE decision = "accept" -> Shown(row)
      [] decision = "change" -> choice
      [] decision = "ignore" -> None

\* What becomes of a ledger l when a decision on ts is applied to it, whose
\* snapshots are those of `shown'.
AppliedTo(shown, l, ts, review) ==
    /\ Follows(l, ledger', ts)
    /\ \A u \in ts : /\ ledger'[u].verdict.source = "manual"
                     /\ ledger'[u].verdict.winner = None /\ ledger'[u].verdict.conflicts = {}
    /\ \A u \in Transaction \ ts : ledger'[u] = l[u]
    /\ review \in ReviewRow /\ ~review.undone
    /\ review.before = [u \in ts |-> Snapshot(shown[u])]
    /\ reviews' = Append(reviews, review)

LEMMA ApplyStep ==
    ASSUME TypeInv, NEW shown, LedgerType(shown), NEW l, LedgerType(l),
           NEW ts, Judgeable(shown, ts), Judgeable(l, ts), NEW decision \in Decision,
           NEW choice \in Suggestion \cup {None}, NEW rule \in Nat \cup {None},
           Apply(shown, l, ts, decision, choice, rule)
    PROVE  \E review : AppliedTo(shown, l, ts, review) /\ review.rule = rule
<1>1. \A u \in ts : Applied(l[u], decision, choice) \in Suggestion \cup {None}
  BY ShownTyped DEF Judgeable, Applied, Decision
<1>2. /\ \A u \in ts : Decidable(l[u], Applied(l[u], decision, choice))
      /\ ledger' = [u \in Transaction |-> IF u \in ts
                        THEN Decided(l[u], Applied(l[u], decision, choice)) ELSE l[u]]
  BY DEF Apply, Applied
<1>3. \A u \in ts : l[u] \in Row /\ l[u].verdict \in Verdict /\ u \in Transaction /\ l[u] # None
  BY DEF Judgeable, LedgerType
<1>4. \A u \in ts : /\ FollowsRow(l[u], ledger'[u], TRUE)
                    /\ ledger'[u].verdict.source = "manual"
                    /\ ledger'[u].verdict.winner = None /\ ledger'[u].verdict.conflicts = {}
  BY <1>1, <1>2, <1>3, DecidedTyped
<1>5. \A u \in Transaction \ ts : ledger'[u] = l[u]
  BY <1>2
<1>6. Follows(l, ledger', ts)
  <2>1. \A u \in Transaction : l[u] # None => FollowsRow(l[u], ledger'[u], u \in ts)
    BY <1>4, <1>5 DEF FollowsRow, LedgerType
  <2>2. ledger' = [u \in Transaction |-> ledger'[u]]
    BY <1>2
  <2>3. \A u \in Transaction : l[u] = None => ledger'[u] = None
    BY <1>3, <1>5
  <2>4. QED
    BY <2>1, <2>2, <2>3, FollowsFrom
<1>7. PICK before : before = [u \in ts |-> Snapshot(shown[u])]
  OBVIOUS
<1>8. before \in UNION {[us -> SnapshotRow] : us \in SUBSET Transaction}
  <2>1. ts \in SUBSET Transaction
    BY <1>3
  <2>2. before \in [ts -> SnapshotRow]
    BY <1>7, SnapshotTyped DEF Judgeable
  <2>3. QED
    BY <2>1, <2>2
<1>9. PICK review : review = [decision |-> decision, before |-> before, rule |-> rule, undone |-> FALSE]
  OBVIOUS
<1>10. review \in ReviewRow /\ review.before = before /\ review.rule = rule /\ ~review.undone
  BY <1>8, <1>9 DEF ReviewRow, Decision
<1>11. reviews' = Append(reviews, review)
  BY <1>7, <1>9 DEF Apply
<1>12. QED
  BY <1>4, <1>5, <1>6, <1>7, <1>10, <1>11 DEF AppliedTo

LEMMA ReviewAdded ==
    ASSUME TypeInv, NEW review \in ReviewRow, reviews' = Append(reviews, review)
    PROVE  /\ reviews' \in Seq(ReviewRow) /\ Len(reviews') = Len(reviews) + 1
           /\ Len(reviews) \in Nat
           /\ DOMAIN reviews = 1..Len(reviews) /\ DOMAIN reviews' = 1..(Len(reviews) + 1)
           /\ reviews'[Len(reviews) + 1] = review
           /\ \A k \in DOMAIN reviews : reviews'[k] = reviews[k]
BY DEF TypeInv

LEMMA AppliedFree ==
    ASSUME TypeInv, NEW shown, NEW l, NEW ts, NEW review, AppliedTo(shown, l, ts, review)
    PROVE  UserFree(ts)
<1>1. PICK k : k = Len(reviews) + 1
  OBVIOUS
<1>2. k \in DOMAIN reviews' /\ k \notin DOMAIN reviews /\ DOMAIN reviews'[k].before = ts
  BY <1>1, ReviewAdded DEF AppliedTo
<1>3. \A u \in ts : ByUser(u)
  BY <1>2 DEF ByUser
<1>4. QED
  BY <1>3 DEF UserFree

\* The ledger l a decision is applied to: as it is shown, or reclassified by the
\* remembered rule.
DecidedFrom(shown, l, review) ==
    \/ rules' = rules /\ l = shown /\ review.rule = None
    \/ /\ \E rule \in RuleRow : rule.types = Type /\ rules' = Append(rules, rule)
       /\ l = Classified(shown, rules', Matched(shown, rules', Len(rules')))
       /\ review.rule = Len(rules')
       /\ Len(rules) < MaxRules

LEMMA DecideShape ==
    ASSUME TypeInv, NEW t \in Booked, NEW ts \in SUBSET Transaction, NEW decision \in Decision,
           NEW choice \in Suggestion \cup {None}, decision = "change" <=> choice # None,
           NEW remember \in BOOLEAN, Decide(t, ts, decision, choice, remember)
    PROVE  \E shown, l, review :
              /\ shown = Refreshed(ledger) /\ LedgerType(shown) /\ LedgerType(l)
              /\ Follows(ledger, l, {}) /\ RulesType(rules')
              /\ Judgeable(shown, ts)
              /\ DecidedFrom(shown, l, review) /\ AppliedTo(shown, l, ts, review)
<1>1. PICK shown : shown = Refreshed(ledger)
  OBVIOUS
<1>2. Follows(ledger, shown, {}) /\ LedgerType(shown)
  BY <1>1, RefreshedFollows DEF Follows
<1>3. PICK group : group = Group(shown, t)
  OBVIOUS
<1>4. Judgeable(shown, group)
  BY <1>2, <1>3, GroupJudgeable
<1>5. PICK action : action = IF decision = "change" THEN choice ELSE GroupSuggestion(shown, group)
  OBVIOUS
<1>6. action \in Suggestion \cup {None}
  BY <1>2, <1>4, <1>5, GroupSuggestionTyped
<1>7. ts \subseteq group /\ Judgeable(shown, ts)
  BY <1>1, <1>3, <1>4 DEF Decide, DecideOn, Judgeable
<1>8. CASE ~(remember /\ action # None)
  <2>1. Apply(shown, shown, ts, decision, choice, None) /\ rules' = rules
    BY <1>1, <1>3, <1>5, <1>8 DEF Decide, DecideOn
  <2>2. PICK review : AppliedTo(shown, shown, ts, review) /\ review.rule = None
    <3>1. PICK rule \in Nat \cup {None} : rule = None
      OBVIOUS
    <3>2. Apply(shown, shown, ts, decision, choice, rule)
      BY <2>1, <3>1
    <3>3. \E review : AppliedTo(shown, shown, ts, review) /\ review.rule = rule
      BY <1>2, <1>7, <3>2, ApplyStep
    <3>4. QED
      BY <3>1, <3>3
  <2>3. DecidedFrom(shown, shown, review) /\ RulesType(rules')
    BY <2>1, <2>2 DEF DecidedFrom, TypeInv
  <2>4. QED
    BY <1>1, <1>2, <1>7, <2>2, <2>3
<1>9. CASE remember /\ action # None
  <2>1. PICK rule : rule = Remembered(shown, group, t, action)
    OBVIOUS
  <2>2. rule \in RuleRow /\ rule.types = Type
    BY <1>6, <1>9, <2>1, RememberedTyped
  <2>3. rules' = Append(rules, rule) /\ Len(rules) < MaxRules
    BY <1>1, <1>3, <1>5, <1>9, <2>1 DEF Decide, DecideOn
  <2>4. RulesType(rules') /\ Len(rules') \in Nat
    BY <2>2, <2>3, AppendedTyped, RulesFacts DEF TypeInv
  <2>5. PICK us : us = Matched(shown, rules', Len(rules'))
    OBVIOUS
  <2>6. PICK l : l = Classified(shown, rules', us)
    OBVIOUS
  <2>7. Follows(shown, l, {}) /\ LedgerType(l)
    BY <1>2, <2>4, <2>6, ClassifiedFollows DEF Follows
  <2>8. Judgeable(l, ts)
    <3>1. ASSUME NEW u \in ts PROVE u \in Transaction /\ l[u] # None /\ l[u].verdict \in Verdict
      <4>1. u \in Transaction /\ shown[u] # None /\ shown[u].verdict \in Verdict
        BY <1>7, <3>1 DEF Judgeable
      <4>2. l[u] # None
        BY <2>7, <4>1 DEF Follows
      <4>3. CASE u \in us
        <5>1. l[u].verdict = Evaluate(shown, rules', u) /\ Judged(shown[u], Evaluate(shown, rules', u), rules')
          BY <1>2, <2>4, <2>6, <4>1, <4>3, ClassifiedTyped
        <5>2. QED
          BY <4>1, <4>2, <5>1 DEF Judged
      <4>4. CASE u \notin us
        <5>1. l[u] = shown[u]
          BY <1>2, <2>4, <2>6, <4>1, <4>4, ClassifiedTyped
        <5>2. QED
          BY <4>1, <4>2, <5>1
      <4>5. QED
        BY <4>3, <4>4
    <3>2. QED
      BY <3>1 DEF Judgeable
  <2>9. Apply(shown, l, ts, decision, choice, Len(rules'))
    BY <1>1, <1>3, <1>5, <1>9, <2>5, <2>6 DEF Decide, DecideOn
  <2>10. PICK review : AppliedTo(shown, l, ts, review) /\ review.rule = Len(rules')
    <3>1. PICK n \in Nat \cup {None} : n = Len(rules')
      BY <2>4
    <3>2. LedgerType(shown) /\ LedgerType(l) /\ Judgeable(shown, ts) /\ Judgeable(l, ts)
      BY <1>2, <1>7, <2>7, <2>8
    <3>3. Apply(shown, l, ts, decision, choice, n)
      BY <2>9, <3>1
    <3>4. \E review : AppliedTo(shown, l, ts, review) /\ review.rule = n
      BY <3>2, <3>3, ApplyStep
    <3>5. QED
      BY <3>1, <3>4
  <2>11. Follows(ledger, l, {})
    BY <1>2, <2>7, FollowsOn
  <2>12. DecidedFrom(shown, l, review)
    BY <2>2, <2>3, <2>5, <2>6, <2>10 DEF DecidedFrom
  <2>13. QED
    BY <1>1, <1>2, <1>7, <2>4, <2>7, <2>10, <2>11, <2>12
<1>10. QED
  BY <1>8, <1>9

LEMMA DecideStep ==
    ASSUME TypeInv, NEW t \in Booked, NEW ts \in SUBSET Transaction, NEW decision \in Decision,
           NEW choice \in Suggestion \cup {None}, decision = "change" <=> choice # None,
           NEW remember \in BOOLEAN, Decide(t, ts, decision, choice, remember)
    PROVE  /\ RulesType(rules') /\ reviews' \in Seq(ReviewRow)
           /\ Follows(ledger, ledger', ts) /\ UserFree(ts)
<1>1. PICK shown, l, review : /\ Follows(ledger, l, {}) /\ RulesType(rules')
                              /\ AppliedTo(shown, l, ts, review)
  BY DecideShape
<1>2. reviews' \in Seq(ReviewRow)
  BY <1>1, ReviewAdded DEF AppliedTo
<1>3. UserFree(ts)
  BY <1>1, AppliedFree
<1>4. Follows(ledger, ledger', ts)
  BY <1>1, FollowsMore, FollowsOn DEF AppliedTo
<1>5. QED
  BY <1>1, <1>2, <1>3, <1>4

\* The ledger between the two times the snapshots are restored.
BeforeRule(k) ==
    IF reviews[k].rule = None THEN ledger
    ELSE WithoutRule(Restored(ledger, reviews[k].before), reviews[k].rule)

LEMMA UndoStep ==
    ASSUME TypeInv, NEW k \in DOMAIN reviews, Undo(k)
    PROVE  /\ RulesType(rules') /\ reviews' \in Seq(ReviewRow)
           /\ DOMAIN reviews[k].before \subseteq Transaction
           /\ Follows(ledger, ledger', DOMAIN reviews[k].before)
           /\ UserFree(DOMAIN reviews[k].before)
           /\ \A t \in DOMAIN reviews[k].before : Snapshot(ledger'[t]) = reviews[k].before[t]
           /\ \A t \in DOMAIN reviews[k].before :
                 /\ ledger'[t].verdict = reviews[k].before[t].verdict
                 /\ ledger'[t].verdict.winner \in Rule \cup {None}
           /\ Follows(ledger, BeforeRule(k), DOMAIN reviews[k].before)
           /\ \A t \in Transaction \ DOMAIN reviews[k].before : ledger'[t] = BeforeRule(k)[t]
           /\ ledger' = Restored(BeforeRule(k), reviews[k].before)
           /\ reviews' = [reviews EXCEPT ![k].undone = TRUE, ![k].rule = None]
           /\ ~reviews[k].undone
<1>1. PICK before : before = reviews[k].before
  OBVIOUS
<1>2. PICK r : r = reviews[k].rule
  OBVIOUS
<1>3. BeforeType(before) /\ reviews[k] \in ReviewRow /\ r \in Nat \cup {None}
  BY <1>1, <1>2, ReviewFacts
<1>4. \A t \in DOMAIN before :
         /\ t \in Transaction /\ ledger[t] # None /\ before[t].verdict.winner \in Rule \cup {None}
         /\ ledger[t].pair # None => before[t].fields.type = "transfer"
  BY <1>1 DEF Undo, Restorable, Booked
<1>5. PICK middle : middle = BeforeRule(k)
  OBVIOUS
<1>6. Follows(ledger, middle, DOMAIN before)
  <2>1. CASE r = None
    <3>1. middle = ledger
      BY <1>2, <1>5, <2>1 DEF BeforeRule
    <3>2. QED
      BY <3>1 DEF TypeInv, LedgerType, Follows, FollowsRow
  <2>2. CASE r # None
    <3>1. PICK restored : restored = Restored(ledger, before)
      OBVIOUS
    <3>2. Follows(ledger, restored, DOMAIN before)
      BY <1>3, <1>4, <3>1, RestoredFollows DEF TypeInv
    <3>3. Follows(restored, WithoutRule(restored, r), {})
      BY <3>2, WithoutRuleFollows DEF TypeInv, Follows
    <3>4. middle = WithoutRule(restored, r)
      BY <1>1, <1>2, <1>5, <2>2, <3>1 DEF BeforeRule
    <3>5. QED
      BY <3>2, <3>3, <3>4, FollowsMore, FollowsOn
  <2>3. QED
    BY <2>1, <2>2
<1>7. \A t \in DOMAIN before : middle[t] # None /\ middle[t].pair = ledger[t].pair
  BY <1>4, <1>6 DEF Follows, FollowsRow
<1>8. ledger' = Restored(middle, before)
  BY <1>1, <1>2, <1>5 DEF Undo, BeforeRule
<1>9. LedgerType(middle)
  BY <1>6 DEF Follows
<1>10. /\ Follows(middle, ledger', DOMAIN before)
       /\ \A t \in DOMAIN before : /\ Snapshot(ledger'[t]) = before[t]
                                   /\ ledger'[t].verdict = before[t].verdict
       /\ \A t \in Transaction \ DOMAIN before : ledger'[t] = middle[t]
  BY <1>3, <1>4, <1>7, <1>8, <1>9, RestoredFollows
<1>11. /\ reviews' = [reviews EXCEPT ![k].undone = TRUE, ![k].rule = None] /\ ~reviews[k].undone
       /\ rules' \in {rules, [rules EXCEPT ![r] = None]}
  BY <1>2 DEF Undo
<1>12. RulesType(rules')
  BY <1>11, RulesWithout DEF TypeInv
<1>13. PICK review : review = [reviews[k] EXCEPT !.undone = TRUE, !.rule = None]
  OBVIOUS
<1>14. review \in ReviewRow /\ review.undone /\ review.before = before
  BY <1>1, <1>3, <1>13 DEF ReviewRow
<1>15. reviews' = [reviews EXCEPT ![k] = review]
  BY <1>11, <1>13
<1>16. reviews' \in Seq(ReviewRow) /\ reviews'[k] = review /\ DOMAIN reviews' = DOMAIN reviews
  BY <1>14, <1>15 DEF TypeInv
<1>17. UserFree(DOMAIN before)
  <2>1. \A t \in DOMAIN before : ByUser(t)
    BY <1>11, <1>14, <1>16 DEF ByUser
  <2>2. QED
    BY <2>1 DEF UserFree
<1>18. Follows(ledger, ledger', DOMAIN before)
  BY <1>6, <1>10, FollowsOn
<1>19. DOMAIN before \subseteq Transaction
  BY <1>3 DEF BeforeType
<1>20. QED
  BY <1>1, <1>4, <1>5, <1>6, <1>8, <1>10, <1>11, <1>12, <1>16, <1>17, <1>18, <1>19

-----------------------------------------------------------------------------
(* The steps together.                                                         *)

\* A step other than a booking, a deletion or a transfer.
Plain ==
    \/ \E ts \in (SUBSET Transaction) \ {{}}, c \in Correction : Edit(ts, c.columns, c.review)
    \/ \E t \in Transaction : ReplaceSplits(t)
    \/ Ruled \/ Reviewed \/ UNCHANGED vars

PlainFollows == \E us : Follows(ledger, ledger', us) /\ UserFree(us)

LEMMA NextSplit ==
    ASSUME [Next]_vars
    PROVE  \/ Plain
           \/ \E t \in Transaction : Book(t)
           \/ \E ts \in SUBSET Transaction : Delete(ts)
           \/ \E t, u \in Transaction : ConfirmTransfer(t, u)
BY DEF Next, Edited, Plain

LEMMA PlainStep ==
    ASSUME TypeInv, Plain
    PROVE  TypeInv' /\ PlainFollows
<1>1. ASSUME NEW us, Follows(ledger, ledger', us), UserFree(us), RulesType(rules'),
             reviews' \in Seq(ReviewRow)
      PROVE  TypeInv' /\ PlainFollows
  <2>1. PlainFollows
    BY <1>1 DEF PlainFollows
  <2>2. TypeInv'
    BY <1>1 DEF TypeInv, Follows, LedgerType, RulesType
  <2>3. QED
    BY <2>1, <2>2
<1>2. RulesType(rules) /\ reviews \in Seq(ReviewRow)
  BY DEF TypeInv
<1>3. ASSUME NEW ts \in (SUBSET Transaction) \ {{}}, NEW c \in Correction,
             Edit(ts, c.columns, c.review)
      PROVE  TypeInv' /\ PlainFollows
  <2>1. rules' = rules /\ reviews' = reviews
    BY <1>3 DEF Edit
  <2>2. \E us : Follows(ledger, ledger', us) /\ UserFree(us)
    BY <1>3, EditStep
  <2>3. QED
    BY <1>1, <1>2, <2>1, <2>2
<1>4. ASSUME NEW t \in Transaction, ReplaceSplits(t)
      PROVE  TypeInv' /\ PlainFollows
  <2>1. rules' = rules /\ reviews' = reviews
    BY <1>4 DEF ReplaceSplits
  <2>2. QED
    BY <1>1, <1>2, <1>4, <2>1, SplitStep, NobodyFree
<1>5. ASSUME Ruled PROVE TypeInv' /\ PlainFollows
  <2>1. RulesType(rules') /\ Follows(ledger, ledger', {}) /\ reviews' \in Seq(ReviewRow)
    BY <1>2, <1>5, CreateRuleStep, UpdateRuleStep, DeleteRuleStep, ReorderStep DEF Ruled
  <2>2. QED
    BY <1>1, <2>1, NobodyFree
<1>6. ASSUME ListGroups PROVE TypeInv' /\ PlainFollows
  <2>1. ledger' = Refreshed(ledger) /\ rules' = rules /\ reviews' = reviews
    BY <1>6 DEF ListGroups
  <2>2. QED
    BY <1>1, <1>2, <2>1, RefreshedFollows, NobodyFree
<1>7. ASSUME NEW t \in Transaction, NEW answer \in Action, Suggest(t, answer)
      PROVE  TypeInv' /\ PlainFollows
  <2>1. rules' = rules /\ reviews' = reviews
    BY <1>7 DEF Suggest
  <2>2. QED
    BY <1>1, <1>2, <1>7, <2>1, SuggestStep, NobodyFree
<1>8. ASSUME NEW t \in Booked, NEW ts \in SUBSET Transaction, NEW remember \in BOOLEAN,
             NEW decision \in Decision, NEW choice \in Suggestion \cup {None},
             decision = "change" <=> choice # None, Decide(t, ts, decision, choice, remember)
      PROVE  TypeInv' /\ PlainFollows
  <2>1. /\ RulesType(rules') /\ reviews' \in Seq(ReviewRow)
        /\ Follows(ledger, ledger', ts) /\ UserFree(ts)
    BY <1>8, DecideStep
  <2>2. QED
    BY <1>1, <2>1
<1>9. ASSUME NEW k \in DOMAIN reviews, Undo(k) PROVE TypeInv' /\ PlainFollows
  <2>1. /\ RulesType(rules') /\ reviews' \in Seq(ReviewRow)
        /\ Follows(ledger, ledger', DOMAIN reviews[k].before)
        /\ UserFree(DOMAIN reviews[k].before)
    BY <1>9, UndoStep
  <2>2. QED
    BY <1>1, <2>1
<1>10. ASSUME UNCHANGED vars PROVE TypeInv' /\ PlainFollows
  <2>1. Follows(ledger, ledger', {}) /\ rules' = rules /\ reviews' = reviews
    BY <1>10 DEF vars, TypeInv, LedgerType, Follows, FollowsRow
  <2>2. QED
    BY <1>1, <1>2, <2>1, NobodyFree
<1>11. \A choice \in Action : choice \in Suggestion /\ choice # None
  BY LedgerAssumption
<1>12. ASSUME Reviewed PROVE TypeInv' /\ PlainFollows
  <2>1. CASE \E t \in Booked, ts \in (SUBSET Transaction) \ {{}}, remember \in BOOLEAN :
                \E choice \in Action : Decide(t, ts, "change", choice, remember)
    BY <1>8, <1>11, <2>1 DEF Decision
  <2>2. CASE \E t \in Booked, ts \in (SUBSET Transaction) \ {{}}, remember \in BOOLEAN :
                \E decision \in {"accept", "ignore"} : Decide(t, ts, decision, None, remember)
    BY <1>8, <2>2 DEF Decision
  <2>3. QED
    BY <1>6, <1>7, <1>9, <1>12, <2>1, <2>2 DEF Reviewed
<1>13. QED
  BY <1>3, <1>4, <1>5, <1>10, <1>12 DEF Plain

\* Confirmed transfers, in any ledger.
PairsOK(l) ==
    \A t \in Transaction : l[t] # None /\ l[t].pair # None =>
        /\ l[t].pair \in Transaction /\ l[t].pair # t
        /\ l[l[t].pair] # None /\ l[l[t].pair].pair = t
        /\ l[t].fields.type = "transfer"

LEMMA PairsFollow ==
    ASSUME NEW l, NEW m, NEW us, LedgerType(l), Follows(l, m, us), PairsOK(l)
    PROVE  PairsOK(m)
<1>1. ASSUME NEW t \in Transaction, m[t] # None, m[t].pair # None
      PROVE  /\ m[t].pair \in Transaction /\ m[t].pair # t
             /\ m[m[t].pair] # None /\ m[m[t].pair].pair = t
             /\ m[t].fields.type = "transfer"
  <2>1. l[t] # None /\ FollowsRow(l[t], m[t], t \in us)
    BY <1>1 DEF Follows
  <2>2. PICK u : u = l[t].pair
    OBVIOUS
  <2>3. m[t].pair = u /\ u # None
    BY <1>1, <2>1, <2>2 DEF FollowsRow
  <2>4. /\ u \in Transaction /\ u # t /\ l[u] # None /\ l[u].pair = t /\ l[t].fields.type = "transfer"
    BY <2>1, <2>2, <2>3 DEF PairsOK
  <2>5. m[u] # None /\ FollowsRow(l[u], m[u], u \in us)
    BY <2>4 DEF Follows
  <2>6. m[u].pair = t /\ m[t].fields.type = "transfer"
    BY <2>1, <2>2, <2>3, <2>4, <2>5 DEF FollowsRow
  <2>7. QED
    BY <2>3, <2>4, <2>5, <2>6
<1>2. QED
  BY <1>1 DEF PairsOK

PairsInv == TypeInv /\ PairsOK(ledger)

LEMMA BookPairs ==
    ASSUME PairsInv, NEW t \in Transaction, Book(t)
    PROVE  PairsInv'
<1>1. PICK l : /\ l = [ledger EXCEPT ![t] = NewRow] /\ LedgerType(l) /\ ledger[t] = None
               /\ Follows(l, ledger', {})
  BY BookStep DEF PairsInv
<1>2. PairsOK(l)
  BY <1>1, NewRowTyped DEF PairsInv, PairsOK, TypeInv, LedgerType
<1>3. PairsOK(ledger')
  BY <1>1, <1>2, PairsFollow
<1>4. TypeInv'
  BY <1>1 DEF PairsInv, TypeInv, Follows, LedgerType, Book
<1>5. QED
  BY <1>3, <1>4 DEF PairsInv, PairsOK

LEMMA DeletePairs ==
    ASSUME PairsInv, NEW ts \in SUBSET Transaction, Delete(ts)
    PROVE  PairsInv'
<1>1. /\ LedgerType(ledger')
      /\ \A t \in Transaction : ledger'[t] = IF t \in ts THEN None ELSE ledger[t]
      /\ \A t \in ts : ledger[t].pair = None
  BY DeleteStep DEF PairsInv
<1>2. PairsOK(ledger')
  BY <1>1, LedgerAssumption DEF PairsInv, PairsOK
<1>3. TypeInv'
  BY <1>1 DEF PairsInv, TypeInv, LedgerType, Delete
<1>4. QED
  BY <1>2, <1>3 DEF PairsInv, PairsOK

LEMMA TransferPairs ==
    ASSUME PairsInv, NEW t \in Transaction, NEW u \in Transaction, ConfirmTransfer(t, u)
    PROVE  PairsInv'
<1>1. /\ LedgerType(ledger') /\ t # u /\ ledger[t] # None /\ ledger[u] # None
      /\ ledger[t].pair \in {None, u} /\ ledger[u].pair \in {None, t}
      /\ ledger'[t] = PairedRow(ledger[t], u) /\ ledger'[u] = PairedRow(ledger[u], t)
      /\ ledger'[t] \in Row /\ ledger'[u] \in Row
      /\ \A v \in Transaction \ {t, u} : ledger'[v] = ledger[v]
  BY TransferStep DEF PairsInv
<1>2. ledger[t] \in Row /\ ledger[u] \in Row
  BY <1>1 DEF PairsInv, TypeInv, LedgerType
<1>3. /\ ledger'[t].pair = u /\ ledger'[u].pair = t
      /\ ledger'[t].fields.type = "transfer" /\ ledger'[u].fields.type = "transfer"
  BY <1>1, <1>2, PairedTyped
<1>4. PairsOK(ledger')
  <2>1. ASSUME NEW v \in Transaction \ {t, u}, ledger'[v] # None, ledger'[v].pair # None
        PROVE  /\ ledger'[v].pair \in Transaction /\ ledger'[v].pair # v
               /\ ledger'[ledger'[v].pair] # None /\ ledger'[ledger'[v].pair].pair = v
               /\ ledger'[v].fields.type = "transfer"
    <3>1. PICK w : w = ledger[v].pair
      OBVIOUS
    <3>2. ledger[v] # None /\ ledger'[v].pair = w /\ ledger'[v] = ledger[v]
      BY <1>1, <2>1, <3>1
    <3>3. w \in Transaction /\ w # v /\ ledger[w] # None /\ ledger[w].pair = v /\ ledger[v].fields.type = "transfer"
      BY <2>1, <3>1, <3>2 DEF PairsInv, PairsOK
    <3>4. w \notin {t, u}
      BY <1>1, <2>1, <3>3, LedgerAssumption
    <3>5. QED
      BY <1>1, <3>2, <3>3, <3>4
  <2>2. ledger'[t] # None /\ ledger'[u] # None
    BY <1>1, RowFacts
  <2>3. QED
    BY <1>1, <1>3, <2>1, <2>2 DEF PairsOK
<1>5. TypeInv'
  BY <1>1 DEF PairsInv, TypeInv, LedgerType, ConfirmTransfer
<1>6. QED
  BY <1>4, <1>5 DEF PairsInv, PairsOK

LEMMA PlainPairs ==
    ASSUME PairsInv, Plain
    PROVE  PairsInv'
<1>1. TypeInv' /\ PlainFollows
  BY PlainStep DEF PairsInv
<1>2. PICK us : Follows(ledger, ledger', us)
  BY <1>1 DEF PlainFollows
<1>3. PairsOK(ledger')
  BY <1>2, PairsFollow DEF PairsInv, TypeInv
<1>4. QED
  BY <1>1, <1>3 DEF PairsInv, PairsOK

LEMMA PairsInit ==
    ASSUME Init
    PROVE  PairsInv
<1>1. /\ ledger = [t \in Transaction |-> None] /\ rules = <<>> /\ reviews = <<>>
  BY DEF Init
<1>2. LedgerType(ledger) /\ RulesType(rules) /\ reviews \in Seq(ReviewRow)
  BY <1>1 DEF LedgerType, RulesType
<1>3. QED
  BY <1>1, <1>2 DEF PairsInv, TypeInv, PairsOK

\* The rows have their types and confirmed transfers are confirmed on both
\* sides, in every state: for any transactions, rules, corrections and bounds.
THEOREM LedgerInvariant == Spec => []PairsInv
<1>1. PairsInv /\ [Next]_vars => PairsInv'
  BY NextSplit, PlainPairs, BookPairs, DeletePairs, TransferPairs
<1>2. QED
  BY <1>1, PairsInit, PTL DEF Spec

\* A confirmed transfer is one for both of its sides, in every state.
THEOREM TransfersHaveTwoSides == Spec => []PairsSymmetric
<1>1. PairsInv => PairsSymmetric
  BY DEF PairsInv, PairsOK, PairsSymmetric, Booked
<1>2. QED
  BY <1>1, LedgerInvariant, PTL

KeptOrByUser(t) ==
    ledger[t].source = "manual" /\ ledger'[t] # None =>
        \/ ledger'[t].fields = ledger[t].fields /\ ledger'[t].source = "manual"
        \/ ByUser(t)

LEMMA StepKeeps ==
    ASSUME PairsInv, [Next]_vars, NEW t \in Booked
    PROVE  KeptOrByUser(t)
<1>1. t \in Transaction /\ ledger[t] # None /\ TypeInv
  BY DEF Booked, PairsInv
<1>2. CASE Plain
  <2>1. PICK us : Follows(ledger, ledger', us) /\ UserFree(us)
    BY <1>1, <1>2, PlainStep DEF PlainFollows
  <2>2. FollowsRow(ledger[t], ledger'[t], t \in us)
    BY <1>1, <2>1 DEF Follows
  <2>3. t \in us => ByUser(t)
    BY <2>1 DEF UserFree
  <2>4. QED
    BY <2>2, <2>3 DEF FollowsRow, KeptOrByUser
<1>3. ASSUME NEW u \in Transaction, Book(u) PROVE KeptOrByUser(t)
  <2>1. PICK l : /\ l = [ledger EXCEPT ![u] = NewRow] /\ ledger[u] = None
                 /\ Follows(l, ledger', {})
    BY <1>1, <1>3, BookStep
  <2>2. l[t] = ledger[t]
    BY <1>1, <2>1 DEF TypeInv, LedgerType
  <2>3. FollowsRow(ledger[t], ledger'[t], t \in {})
    BY <1>1, <2>1, <2>2 DEF Follows
  <2>4. QED
    BY <2>3 DEF FollowsRow, KeptOrByUser
<1>4. ASSUME NEW ts \in SUBSET Transaction, Delete(ts) PROVE KeptOrByUser(t)
  <2>1. ledger'[t] = IF t \in ts THEN None ELSE ledger[t]
    BY <1>1, <1>4, DeleteStep
  <2>2. QED
    BY <2>1 DEF KeptOrByUser
<1>5. ASSUME NEW u \in Transaction, NEW v \in Transaction, ConfirmTransfer(u, v) PROVE KeptOrByUser(t)
  <2>1. CASE t \in {u, v}
    BY <1>5, <2>1 DEF KeptOrByUser, ByUser
  <2>2. CASE t \notin {u, v}
    <3>1. ledger'[t] = ledger[t]
      BY <1>1, <1>5, <2>2, TransferStep
    <3>2. QED
      BY <3>1 DEF KeptOrByUser
  <2>3. QED
    BY <2>1, <2>2
<1>6. QED
  BY <1>2, <1>3, <1>4, <1>5, NextSplit

\* What the user confirmed of a transaction only the user changes.
THEOREM ConfirmedIsKept == Spec => ManualKept
<1> DEFINE Step ==
        \A t \in Booked : ledger[t].source = "manual" /\ ledger'[t] # None =>
            \/ ledger'[t].fields = ledger[t].fields /\ ledger'[t].source = "manual"
            \/ ByUser(t)
<1>1. PairsInv /\ [Next]_vars => [Step]_vars
  <2>1. PairsInv /\ [Next]_vars => \A t \in Booked : KeptOrByUser(t)
    BY StepKeeps
  <2>2. QED
    BY <2>1 DEF KeptOrByUser
<1>2. ManualKept <=> [][Step]_vars
  BY DEF ManualKept
<1> HIDE DEF Step
<1>3. QED
  BY <1>1, <1>2, LedgerInvariant, PTL DEF Spec

-----------------------------------------------------------------------------
(* The rules that verdicts, snapshots and reviews name.                        *)

VerdictNames(l, rs) ==
    \A t \in Transaction : l[t] # None /\ l[t].verdict # None => Names(l[t].verdict, rs)

\* A snapshot is older than the rule its decision left behind.
SnapNames(verdict, r, rs) ==
    /\ verdict.winner \in DOMAIN rs \cup {None} /\ verdict.conflicts \subseteq DOMAIN rs
    /\ r # None => verdict.winner # r

ReviewsName(vs, rs) ==
    /\ \A k \in DOMAIN vs :
          /\ vs[k].rule \in Alive(rs) \cup {None}
          /\ \A t \in DOMAIN vs[k].before : SnapNames(vs[k].before[t].verdict, vs[k].rule, rs)
    /\ \A j, k \in DOMAIN vs : vs[j].rule = vs[k].rule => j = k \/ vs[j].rule = None

NamesInv ==
    /\ TypeInv /\ VerdictNames(ledger, rules) /\ ReviewsName(reviews, rules)
    /\ Len(rules) <= MaxRules /\ Len(reviews) <= MaxReviews

\* Verdicts are kept, or outdated.
Inherits(l, m) ==
    \A t \in Transaction : m[t] # None =>
        l[t] # None /\ (m[t].verdict = l[t].verdict \/ m[t].verdict = Stale(l[t].verdict))

LEMMA InheritedNames ==
    ASSUME NEW l, LedgerType(l), NEW m, NEW rs, VerdictNames(l, rs), Inherits(l, m)
    PROVE  VerdictNames(m, rs)
<1>1. ASSUME NEW t \in Transaction, m[t] # None, m[t].verdict # None
      PROVE  Names(m[t].verdict, rs)
  <2>1. l[t] # None /\ (m[t].verdict = l[t].verdict \/ m[t].verdict = Stale(l[t].verdict))
    BY <1>1 DEF Inherits
  <2>2. l[t] \in Row /\ l[t].verdict \in Verdict \cup {None}
    BY <2>1, RowFacts DEF LedgerType
  <2>3. l[t].verdict # None
    BY <1>1, <2>1, <2>2, StaleTyped
  <2>4. Names(l[t].verdict, rs)
    BY <2>1, <2>3 DEF VerdictNames
  <2>5. m[t].verdict.winner = l[t].verdict.winner /\ m[t].verdict.conflicts = l[t].verdict.conflicts
    BY <1>1, <2>1, <2>2, StaleTyped
  <2>6. QED
    BY <2>4, <2>5 DEF Names
<1>2. QED
  BY <1>1 DEF VerdictNames

\* The rules rs are still there.
Grown(rs, more) == DOMAIN rs \subseteq DOMAIN more /\ Alive(rs) \subseteq Alive(more)

LEMMA NamesGrow ==
    ASSUME NEW l, NEW vs, NEW rs, NEW more, Grown(rs, more)
    PROVE  /\ VerdictNames(l, rs) => VerdictNames(l, more)
           /\ ReviewsName(vs, rs) => ReviewsName(vs, more)
<1>1. DOMAIN rs \subseteq DOMAIN more /\ Alive(rs) \subseteq Alive(more)
  BY DEF Grown
<1>2. VerdictNames(l, rs) => VerdictNames(l, more)
  BY <1>1 DEF VerdictNames, Names
<1>3. ReviewsName(vs, rs) => ReviewsName(vs, more)
  BY <1>1 DEF ReviewsName, SnapNames
<1>4. QED
  BY <1>2, <1>3

LEMMA ClassifiedNames ==
    ASSUME NEW l, LedgerType(l), NEW rs, RulesType(rs), NEW ts,
           \A t \in Transaction \ ts : l[t] # None /\ l[t].verdict # None => Names(l[t].verdict, rs)
    PROVE  VerdictNames(Classified(l, rs, ts), rs)
<1>1. PICK c : c = Classified(l, rs, ts)
  OBVIOUS
<1>2. ASSUME NEW t \in Transaction, c[t] # None, c[t].verdict # None
      PROVE  Names(c[t].verdict, rs)
  <2>1. l[t] # None
    BY <1>1, <1>2, ClassifiedTyped
  <2>2. CASE t \in ts
    <3>1. c[t].verdict = Evaluate(l, rs, t) /\ Judged(l[t], Evaluate(l, rs, t), rs)
      BY <1>1, <2>1, <2>2, ClassifiedTyped
    <3>2. QED
      BY <3>1 DEF Judged
  <2>3. CASE t \notin ts
    <3>1. c[t] = l[t]
      BY <1>1, <2>3, ClassifiedTyped
    <3>2. QED
      BY <1>2, <2>1, <2>3, <3>1
  <2>4. QED
    BY <2>2, <2>3
<1>3. VerdictNames(c, rs)
  BY <1>2 DEF VerdictNames
<1>4. QED
  BY <1>1, <1>3

LEMMA AppendedGrown ==
    ASSUME NEW rs, RulesType(rs), NEW draft \in RuleRow
    PROVE  /\ Grown(rs, Append(rs, draft)) /\ Len(Append(rs, draft)) = Len(rs) + 1
           /\ Len(rs) + 1 \in Alive(Append(rs, draft)) /\ Len(rs) + 1 \notin DOMAIN rs
           /\ Append(rs, draft)[Len(rs) + 1] = draft
           /\ DOMAIN Append(rs, draft) = DOMAIN rs \cup {Len(rs) + 1}
           /\ \A q \in DOMAIN rs : Append(rs, draft)[q] = rs[q]
<1>1. /\ Len(rs) \in Nat /\ DOMAIN rs = 1..Len(rs) /\ draft # None
      /\ rs \in Seq(RuleRow \cup {None})
  BY RulesFacts, LedgerAssumption DEF RulesType
<1>2. PICK more : more = Append(rs, draft)
  OBVIOUS
<1>3. /\ Len(more) = Len(rs) + 1 /\ DOMAIN more = 1..(Len(rs) + 1) /\ more[Len(rs) + 1] = draft
      /\ \A q \in 1..Len(rs) : more[q] = rs[q]
  BY <1>1, <1>2
<1>4. Alive(rs) \subseteq Alive(more) /\ Len(rs) + 1 \in Alive(more)
  BY <1>1, <1>3 DEF Alive
<1>5. DOMAIN more = DOMAIN rs \cup {Len(rs) + 1} /\ Len(rs) + 1 \notin DOMAIN rs
  BY <1>1, <1>3
<1>6. QED
  BY <1>1, <1>2, <1>3, <1>4, <1>5 DEF Grown

LEMMA CreateRuleNames ==
    ASSUME NamesInv, NEW draft \in Draft, CreateRule(draft)
    PROVE  /\ VerdictNames(ledger', rules') /\ ReviewsName(reviews', rules')
           /\ Len(rules') <= MaxRules /\ Len(reviews') <= MaxReviews
<1>1. draft \in RuleRow /\ TypeInv /\ RulesType(rules) /\ LedgerType(ledger)
  BY LedgerAssumption DEF NamesInv, TypeInv
<1>2. /\ rules' = Append(rules, draft) /\ reviews' = reviews /\ Len(rules) < MaxRules
      /\ ledger' = Classified(ledger, rules', Matched(ledger, rules', Len(rules')))
  BY DEF CreateRule
<1>3. RulesType(rules') /\ Grown(rules, rules') /\ Len(rules') = Len(rules) + 1
  BY <1>1, <1>2, AppendedTyped, AppendedGrown
<1>4. VerdictNames(ledger, rules') /\ ReviewsName(reviews', rules')
  BY <1>2, <1>3, NamesGrow DEF NamesInv
<1>5. PICK ts : ts = Matched(ledger, rules', Len(rules'))
  OBVIOUS
<1>6. VerdictNames(Classified(ledger, rules', ts), rules')
  BY <1>1, <1>3, <1>4, ClassifiedNames DEF VerdictNames
<1>7. Len(rules') <= MaxRules
  BY <1>1, <1>2, <1>3, RulesFacts, LedgerAssumption
<1>8. QED
  BY <1>2, <1>4, <1>5, <1>6, <1>7 DEF NamesInv

LEMMA UpdateRuleNames ==
    ASSUME NamesInv, NEW draft \in Draft, NEW r \in Rule, UpdateRule(r, draft)
    PROVE  /\ VerdictNames(ledger', rules') /\ ReviewsName(reviews', rules')
           /\ Len(rules') <= MaxRules /\ Len(reviews') <= MaxReviews
<1>1. /\ draft # None /\ TypeInv /\ RulesType(rules) /\ LedgerType(ledger)
      /\ RulesType(rules') /\ reviews' = reviews
  BY LedgerAssumption, UpdateRuleStep DEF NamesInv, TypeInv
<1>2. rules' = [rules EXCEPT ![r] = draft]
  BY DEF UpdateRule
<1>3. Grown(rules, rules') /\ Len(rules') = Len(rules)
  BY <1>1, <1>2 DEF Grown, Alive, RulesType
<1>4. VerdictNames(ledger, rules') /\ ReviewsName(reviews', rules')
  BY <1>1, <1>3, NamesGrow DEF NamesInv
<1>5. PICK ts : ts = Matched(ledger, rules, r) \cup Matched(ledger, rules', r)
  OBVIOUS
<1>6. VerdictNames(Classified(ledger, rules', ts), rules')
  BY <1>1, <1>4, ClassifiedNames DEF VerdictNames
<1>7. ledger' = Classified(ledger, rules', ts)
  BY <1>5 DEF UpdateRule
<1>8. QED
  BY <1>1, <1>3, <1>4, <1>6, <1>7 DEF NamesInv

LEMMA ReorderNames ==
    ASSUME NamesInv, NEW place \in [Rule -> 1..Cardinality(Rule)], Reorder(place)
    PROVE  /\ VerdictNames(ledger', rules') /\ ReviewsName(reviews', rules')
           /\ Len(rules') <= MaxRules /\ Len(reviews') <= MaxReviews
<1>1. /\ TypeInv /\ RulesType(rules) /\ LedgerType(ledger) /\ RulesType(rules') /\ reviews' = reviews
  BY ReorderStep DEF NamesInv, TypeInv
<1>2. rules' = [r \in DOMAIN rules |-> IF r \in Rule THEN Placed(rules[r], place[r]) ELSE None]
  BY DEF Reorder, Placed
<1>3. \A r \in Rule : Placed(rules[r], place[r]) # None
  BY <1>1, ReorderPlaced, LedgerAssumption
<1>4. Grown(rules, rules') /\ Len(rules') = Len(rules)
  BY <1>1, <1>2, <1>3 DEF Grown, Alive, Rule, RulesType
<1>5. VerdictNames(ledger, rules') /\ ReviewsName(reviews', rules')
  BY <1>1, <1>4, NamesGrow DEF NamesInv
<1>6. PICK ts : ts = Booked
  OBVIOUS
<1>7. VerdictNames(Classified(ledger, rules', ts), rules')
  BY <1>1, <1>5, ClassifiedNames DEF VerdictNames
<1>8. ledger' = Classified(ledger, rules', ts)
  BY <1>6 DEF Reorder
<1>9. QED
  BY <1>1, <1>4, <1>5, <1>7, <1>8 DEF NamesInv

\* Without the rule r, nothing names it.
LEMMA WithoutRuleNames ==
    ASSUME NEW l, LedgerType(l), RulesType(rules), VerdictNames(l, rules), NEW r \in DOMAIN rules
    PROVE  VerdictNames(WithoutRule(l, r), [rules EXCEPT ![r] = None])
<1>1. PICK rs : rs = [rules EXCEPT ![r] = None]
  OBVIOUS
<1>2. RulesType(rs) /\ DOMAIN rs = DOMAIN rules /\ Alive(rs) = Alive(rules) \ {r}
  <2>1. RulesType(rs)
    BY <1>1, RulesWithout
  <2>2. QED
    BY <1>1, <2>1 DEF RulesType, Alive
<1>3. PICK d : d = Disowned(l, r)
  OBVIOUS
<1>4. LedgerType(d)
  BY <1>3, DisownedFollows DEF Follows
<1>5. ASSUME NEW t \in Transaction, d[t] # None, d[t].verdict # None
      PROVE  Names(d[t].verdict, rs)
  <2>1. l[t] # None
    BY <1>3, <1>5 DEF Disowned
  <2>2. d[t].verdict = Freed(l[t].verdict, r)
    BY <1>3, <2>1, DisownedRow
  <2>3. l[t].verdict \in Verdict /\ Names(l[t].verdict, rules)
    BY <1>5, <2>1, <2>2, RowFacts DEF LedgerType, Freed, VerdictNames
  <2>4. CASE l[t].verdict.winner = r
    <3>1. PICK v : v = [l[t].verdict EXCEPT !.winner = None]
      OBVIOUS
    <3>2. v.winner = None /\ v.conflicts = l[t].verdict.conflicts
      BY <2>3, <3>1 DEF Verdict
    <3>3. d[t].verdict = v
      BY <1>5, <2>2, <2>3, <2>4, <3>1 DEF Freed
    <3>4. QED
      BY <1>2, <2>3, <3>2, <3>3 DEF Names
  <2>5. CASE l[t].verdict.winner # r
    <3>1. d[t].verdict = l[t].verdict
      BY <2>2, <2>5 DEF Freed
    <3>2. QED
      BY <1>2, <2>3, <2>5, <3>1 DEF Names
  <2>6. QED
    BY <2>4, <2>5
<1>6. PICK ts : ts = Matched(l, rules, r)
  OBVIOUS
<1>7. VerdictNames(Classified(d, rs, ts), rs)
  BY <1>2, <1>4, <1>5, ClassifiedNames
<1>8. QED
  BY <1>1, <1>3, <1>6, <1>7 DEF WithoutRule

LEMMA DeleteRuleNames ==
    ASSUME NamesInv, NEW r \in Rule, DeleteRule(r)
    PROVE  /\ VerdictNames(ledger', rules') /\ ReviewsName(reviews', rules')
           /\ Len(rules') <= MaxRules /\ Len(reviews') <= MaxReviews
<1>1. TypeInv /\ RulesType(rules) /\ LedgerType(ledger) /\ r \in DOMAIN rules
  BY DEF NamesInv, TypeInv, Rule
<1>2. rules' = [rules EXCEPT ![r] = None] /\ ledger' = WithoutRule(ledger, r)
  BY DEF DeleteRule
<1>3. VerdictNames(ledger', rules')
  BY <1>1, <1>2, WithoutRuleNames DEF NamesInv
<1>4. reviews' = [k \in DOMAIN reviews |->
          IF reviews[k].rule = r THEN [reviews[k] EXCEPT !.rule = None] ELSE reviews[k]]
  BY DEF DeleteRule
<1>5. /\ DOMAIN reviews' = DOMAIN reviews /\ Len(reviews') = Len(reviews)
      /\ \A k \in DOMAIN reviews :
            /\ reviews'[k].before = reviews[k].before
            /\ reviews'[k].rule = IF reviews[k].rule = r THEN None ELSE reviews[k].rule
  <2>1. \A k \in DOMAIN reviews : reviews[k] \in ReviewRow
    BY <1>1, ReviewFacts
  <2>2. DOMAIN reviews = 1..Len(reviews) /\ Len(reviews) \in Nat
    BY <1>1 DEF TypeInv
  <2>3. reviews' \in Seq(ReviewRow)
    BY <1>1, DeleteRuleStep
  <2>4. DOMAIN reviews' = DOMAIN reviews /\ Len(reviews') = Len(reviews)
    BY <1>4, <2>2, <2>3
  <2>5. QED
    BY <1>4, <2>1, <2>4 DEF ReviewRow
<1>6. DOMAIN rules' = DOMAIN rules /\ Alive(rules') = Alive(rules) \ {r} /\ Len(rules') = Len(rules)
  BY <1>1, <1>2 DEF Alive, RulesType
<1>7. ReviewsName(reviews', rules')
  <2>1. ReviewsName(reviews, rules)
    BY DEF NamesInv
  <2>2. \A k \in DOMAIN reviews' :
           /\ reviews'[k].rule \in Alive(rules') \cup {None}
           /\ \A t \in DOMAIN reviews'[k].before :
                 SnapNames(reviews'[k].before[t].verdict, reviews'[k].rule, rules')
    BY <1>5, <1>6, <2>1 DEF ReviewsName, SnapNames
  <2>3. \A j, k \in DOMAIN reviews' :
           reviews'[j].rule = reviews'[k].rule => j = k \/ reviews'[j].rule = None
    BY <1>5, <2>1 DEF ReviewsName
  <2>4. QED
    BY <2>2, <2>3 DEF ReviewsName
<1>8. QED
  BY <1>3, <1>5, <1>6, <1>7 DEF NamesInv

LEMMA BookNames ==
    ASSUME NamesInv, NEW t \in Transaction, Book(t)
    PROVE  VerdictNames(ledger', rules)
<1>1. TypeInv /\ RulesType(rules) /\ LedgerType(ledger) /\ VerdictNames(ledger, rules)
  BY DEF NamesInv, TypeInv
<1>2. PICK l, ts : /\ l = [ledger EXCEPT ![t] = NewRow] /\ LedgerType(l)
                   /\ t \in ts /\ ledger' = Classified(l, rules, ts)
  BY <1>1, BookStep
<1>3. \A u \in Transaction \ ts : l[u] = ledger[u]
  BY <1>1, <1>2 DEF LedgerType
<1>4. \A u \in Transaction \ ts : l[u] # None /\ l[u].verdict # None => Names(l[u].verdict, rules)
  BY <1>1, <1>3 DEF VerdictNames
<1>5. VerdictNames(Classified(l, rules, ts), rules)
  BY <1>1, <1>2, <1>4, ClassifiedNames
<1>6. QED
  BY <1>2, <1>5

LEMMA InheritingSteps ==
    ASSUME TypeInv
    PROVE  /\ \A ts \in SUBSET Transaction : Delete(ts) => Inherits(ledger, ledger')
           /\ \A ts \in SUBSET Transaction, c \in Correction :
                 Edit(ts, c.columns, c.review) => Inherits(ledger, ledger')
           /\ \A t \in Transaction : ReplaceSplits(t) => Inherits(ledger, ledger')
           /\ \A t, u \in Transaction : ConfirmTransfer(t, u) => Inherits(ledger, ledger')
<1>1. ASSUME NEW ts \in SUBSET Transaction, Delete(ts) PROVE Inherits(ledger, ledger')
  BY <1>1, DeleteStep DEF Inherits
<1>2. ASSUME NEW ts \in SUBSET Transaction, NEW c \in Correction, Edit(ts, c.columns, c.review)
      PROVE  Inherits(ledger, ledger')
  <2>1. \A t \in Transaction : ledger[t] = None => ledger'[t] = None
    BY <1>2, EditStep DEF Follows
  <2>2. \A t \in Transaction : ledger[t] # None =>
           ledger'[t] = ledger[t] \/ ledger'[t].verdict = Stale(ledger[t].verdict)
    BY <1>2, EditStep
  <2>3. QED
    BY <2>1, <2>2 DEF Inherits
<1>3. ASSUME NEW t \in Transaction, ReplaceSplits(t) PROVE Inherits(ledger, ledger')
  BY <1>3, SplitStep DEF Follows, Inherits
<1>4. ASSUME NEW t \in Transaction, NEW u \in Transaction, ConfirmTransfer(t, u)
      PROVE  Inherits(ledger, ledger')
  <2>1. /\ ledger[t] # None /\ ledger[u] # None
        /\ ledger'[t] = PairedRow(ledger[t], u) /\ ledger'[u] = PairedRow(ledger[u], t)
        /\ \A v \in Transaction \ {t, u} : ledger'[v] = ledger[v]
    BY <1>4, TransferStep
  <2>2. ledger[t] \in Row /\ ledger[u] \in Row
    BY <2>1 DEF TypeInv, LedgerType
  <2>3. /\ ledger'[t].verdict = Stale(ledger[t].verdict)
        /\ ledger'[u].verdict = Stale(ledger[u].verdict)
    <3>1. PairedRow(ledger[t], u).verdict = Stale(ledger[t].verdict)
      BY <2>2, PairedTyped
    <3>2. PairedRow(ledger[u], t).verdict = Stale(ledger[u].verdict)
      BY <2>2, PairedTyped
    <3>3. QED
      BY <2>1, <3>1, <3>2
  <2>4. QED
    BY <2>1, <2>3 DEF Inherits
<1>5. QED
  BY <1>1, <1>2, <1>3, <1>4

LEMMA RefreshedNames ==
    ASSUME NamesInv
    PROVE  VerdictNames(Refreshed(ledger), rules)
<1>1. PICK ts : ts = {t \in Transaction : ledger[t] # None /\ ~Fresh(ledger[t])}
  OBVIOUS
<1>2. VerdictNames(Classified(ledger, rules, ts), rules)
  BY ClassifiedNames DEF NamesInv, TypeInv, VerdictNames
<1>3. QED
  BY <1>1, <1>2 DEF Refreshed

LEMMA SuggestNames ==
    ASSUME NamesInv, NEW t \in Transaction, NEW answer \in Action, Suggest(t, answer)
    PROVE  VerdictNames(ledger', rules)
<1>1. TypeInv /\ RulesType(rules) /\ LedgerType(ledger) /\ VerdictNames(ledger, rules)
  BY DEF NamesInv, TypeInv
<1>2. PICK l : /\ l = ledger \/ l = Classified(ledger, rules, {t})
               /\ LedgerType(l) /\ Follows(l, ledger', {})
               /\ \A u \in Transaction : l[u] # None => ledger'[u].verdict = l[u].verdict
  BY <1>1, SuggestShape
<1>3. VerdictNames(Classified(ledger, rules, {t}), rules)
  BY <1>1, ClassifiedNames DEF VerdictNames
<1>4. VerdictNames(l, rules)
  BY <1>1, <1>2, <1>3
<1>5. Inherits(l, ledger')
  BY <1>2 DEF Inherits, Follows
<1>6. QED
  BY <1>2, <1>4, <1>5, InheritedNames

LEMMA DecideNames ==
    ASSUME NamesInv, NEW t \in Booked, NEW ts \in SUBSET Transaction, NEW decision \in Decision,
           NEW choice \in Suggestion \cup {None}, decision = "change" <=> choice # None,
           NEW remember \in BOOLEAN, Decide(t, ts, decision, choice, remember)
    PROVE  /\ VerdictNames(ledger', rules') /\ ReviewsName(reviews', rules')
           /\ Len(rules') <= MaxRules /\ Len(reviews') <= MaxReviews
<1>1. TypeInv /\ RulesType(rules) /\ LedgerType(ledger) /\ ReviewsName(reviews, rules)
  BY DEF NamesInv, TypeInv
<1>2. PICK shown, l, review :
          /\ shown = Refreshed(ledger) /\ LedgerType(shown) /\ LedgerType(l)
          /\ RulesType(rules') /\ Judgeable(shown, ts)
          /\ DecidedFrom(shown, l, review) /\ AppliedTo(shown, l, ts, review)
  BY <1>1, DecideShape
<1>3. VerdictNames(shown, rules)
  BY <1>2, RefreshedNames
<1>4. Grown(rules, rules') /\ Len(rules') <= MaxRules /\ VerdictNames(l, rules')
      /\ review.rule \in Alive(rules') \cup {None}
      /\ review.rule \notin DOMAIN rules
  <2>1. CASE rules' = rules /\ l = shown /\ review.rule = None
    <3>1. None \notin DOMAIN rules
      BY <1>1, RulesFacts, LedgerAssumption
    <3>2. QED
      BY <1>3, <2>1, <3>1 DEF NamesInv, Grown
  <2>2. CASE /\ \E rule \in RuleRow : rules' = Append(rules, rule)
             /\ l = Classified(shown, rules', Matched(shown, rules', Len(rules')))
             /\ review.rule = Len(rules') /\ Len(rules) < MaxRules
    <3>1. PICK rule \in RuleRow : rules' = Append(rules, rule)
      BY <2>2
    <3>2. /\ Grown(rules, rules') /\ Len(rules') = Len(rules) + 1
          /\ Len(rules) + 1 \in Alive(rules') /\ Len(rules) + 1 \notin DOMAIN rules
      BY <1>1, <3>1, AppendedGrown
    <3>3. Len(rules') <= MaxRules
      BY <1>1, <2>2, <3>2, RulesFacts, LedgerAssumption
    <3>4. VerdictNames(shown, rules')
      BY <1>3, <3>2, NamesGrow
    <3>5. PICK us : us = Matched(shown, rules', Len(rules'))
      OBVIOUS
    <3>6. VerdictNames(Classified(shown, rules', us), rules')
      BY <1>2, <3>4, ClassifiedNames DEF VerdictNames
    <3>7. QED
      BY <2>2, <3>2, <3>3, <3>5, <3>6
  <2>3. QED
    BY <1>2, <2>1, <2>2 DEF DecidedFrom
<1>5. VerdictNames(ledger', rules')
  <2>1. ASSUME NEW u \in Transaction, ledger'[u] # None, ledger'[u].verdict # None
        PROVE  Names(ledger'[u].verdict, rules')
    <3>1. CASE u \in ts
      <4>1. ledger'[u].verdict.winner = None /\ ledger'[u].verdict.conflicts = {}
        BY <1>2, <3>1 DEF AppliedTo
      <4>2. QED
        BY <4>1 DEF Names
    <3>2. CASE u \notin ts
      <4>1. ledger'[u] = l[u]
        BY <1>2, <3>2 DEF AppliedTo
      <4>2. QED
        BY <1>4, <2>1, <4>1 DEF VerdictNames
    <3>3. QED
      BY <3>1, <3>2
  <2>2. QED
    BY <2>1 DEF VerdictNames
<1>6. /\ review \in ReviewRow /\ review.before = [u \in ts |-> Snapshot(shown[u])]
      /\ reviews' = Append(reviews, review)
  BY <1>2 DEF AppliedTo
<1>7. /\ Len(reviews') = Len(reviews) + 1 /\ Len(reviews) \in Nat
      /\ DOMAIN reviews = 1..Len(reviews) /\ DOMAIN reviews' = 1..(Len(reviews) + 1)
      /\ reviews'[Len(reviews) + 1] = review
      /\ \A k \in DOMAIN reviews : reviews'[k] = reviews[k]
  BY <1>1, <1>6, ReviewAdded
<1>8. \A u \in DOMAIN review.before : SnapNames(review.before[u].verdict, review.rule, rules')
  <2>1. ASSUME NEW u \in ts PROVE SnapNames(review.before[u].verdict, review.rule, rules')
    <3>1. review.before[u].verdict = shown[u].verdict
      BY <1>6 DEF Snapshot
    <3>2. u \in Transaction /\ shown[u] # None /\ shown[u].verdict # None
      BY <1>2, LedgerAssumption DEF Judgeable, Verdict, LedgerType, Row
    <3>3. Names(shown[u].verdict, rules)
      BY <1>3, <3>2 DEF VerdictNames
    <3>4. QED
      BY <1>4, <3>1, <3>3 DEF Names, SnapNames, Grown, Alive
  <2>2. QED
    BY <1>6, <2>1
<1>9. ReviewsName(reviews, rules')
  BY <1>1, <1>4, NamesGrow
<1>10. ReviewsName(reviews', rules')
  <2>1. ASSUME NEW k \in DOMAIN reviews'
        PROVE  /\ reviews'[k].rule \in Alive(rules') \cup {None}
               /\ \A u \in DOMAIN reviews'[k].before :
                     SnapNames(reviews'[k].before[u].verdict, reviews'[k].rule, rules')
    <3>1. CASE k \in DOMAIN reviews
      BY <1>7, <1>9, <3>1 DEF ReviewsName
    <3>2. CASE k = Len(reviews) + 1
      BY <1>4, <1>7, <1>8, <3>2
    <3>3. QED
      BY <1>7, <3>1, <3>2
  <2>2. \A k \in DOMAIN reviews : reviews[k].rule = None \/ reviews[k].rule \in DOMAIN rules
    BY <1>1 DEF ReviewsName, Alive
  <2>3. \A j, k \in DOMAIN reviews : reviews[j].rule = reviews[k].rule => j = k \/ reviews[j].rule = None
    BY <1>1 DEF ReviewsName
  <2>4. ASSUME NEW j \in DOMAIN reviews', NEW k \in DOMAIN reviews', reviews'[j].rule = reviews'[k].rule
        PROVE  j = k \/ reviews'[j].rule = None
    <3>1. CASE j \in DOMAIN reviews /\ k \in DOMAIN reviews
      BY <1>7, <2>3, <2>4, <3>1
    <3>2. CASE j \in DOMAIN reviews /\ k = Len(reviews) + 1
      BY <1>4, <1>7, <2>2, <2>4, <3>2
    <3>3. CASE k \in DOMAIN reviews /\ j = Len(reviews) + 1
      BY <1>4, <1>7, <2>2, <2>4, <3>3
    <3>4. QED
      BY <1>7, <3>1, <3>2, <3>3
  <2>5. QED
    BY <2>1, <2>4 DEF ReviewsName
<1>11. Len(reviews') <= MaxReviews
  <2>1. Len(reviews) < MaxReviews
    BY DEF Decide
  <2>2. QED
    BY <1>7, <2>1, LedgerAssumption
<1>12. QED
  BY <1>4, <1>5, <1>10, <1>11

LEMMA UndoneReviews ==
    ASSUME TypeInv, NEW k \in DOMAIN reviews,
           reviews' = [reviews EXCEPT ![k].undone = TRUE, ![k].rule = None]
    PROVE  /\ DOMAIN reviews' = DOMAIN reviews /\ Len(reviews') = Len(reviews)
           /\ \A j \in DOMAIN reviews :
                 /\ reviews'[j].before = reviews[j].before
                 /\ j # k => reviews'[j] = reviews[j]
           /\ reviews'[k].rule = None /\ reviews'[k].undone
<1>1. PICK review : review = [reviews[k] EXCEPT !.undone = TRUE, !.rule = None]
  OBVIOUS
<1>2. reviews[k] \in ReviewRow /\ reviews \in Seq(ReviewRow)
  BY ReviewFacts DEF TypeInv
<1>3. /\ review \in ReviewRow /\ review.undone /\ review.rule = None
      /\ review.before = reviews[k].before
  BY <1>1, <1>2 DEF ReviewRow
<1>4. reviews' = [reviews EXCEPT ![k] = review]
  BY <1>1
<1>5. reviews' \in Seq(ReviewRow) /\ DOMAIN reviews' = DOMAIN reviews /\ Len(reviews') = Len(reviews)
  <2>1. Len(reviews) \in Nat /\ DOMAIN reviews = 1..Len(reviews)
        /\ reviews \in [1..Len(reviews) -> ReviewRow]
    BY <1>2
  <2>2. reviews' \in [1..Len(reviews) -> ReviewRow]
    BY <1>3, <1>4, <2>1
  <2>3. PICK n \in Nat : n = Len(reviews)
    BY <2>1
  <2>4. \A vs : vs \in [1..n -> ReviewRow] =>
           vs \in Seq(ReviewRow) /\ DOMAIN vs = 1..n /\ Len(vs) = n
    BY <2>3
  <2>5. reviews' \in Seq(ReviewRow) /\ DOMAIN reviews' = 1..n /\ Len(reviews') = n
    <3>1. PICK vs : vs = reviews'
      OBVIOUS
    <3>2. vs \in [1..n -> ReviewRow]
      BY <2>2, <2>3, <3>1
    <3>3. vs \in Seq(ReviewRow) /\ DOMAIN vs = 1..n /\ Len(vs) = n
      BY <2>4, <3>2
    <3>4. QED
      BY <3>1, <3>3
  <2>6. QED
    BY <2>1, <2>3, <2>5
<1>6. reviews'[k] = review /\ \A j \in DOMAIN reviews : j # k => reviews'[j] = reviews[j]
  BY <1>4
<1>7. \A j \in DOMAIN reviews : reviews'[j].before = reviews[j].before
  BY <1>3, <1>6
<1>8. QED
  BY <1>3, <1>5, <1>6, <1>7

LEMMA UndoNames ==
    ASSUME NamesInv, NEW k \in DOMAIN reviews, Undo(k)
    PROVE  /\ VerdictNames(ledger', rules') /\ ReviewsName(reviews', rules')
           /\ Len(rules') <= MaxRules /\ Len(reviews') <= MaxReviews
<1>1. TypeInv /\ RulesType(rules) /\ LedgerType(ledger) /\ VerdictNames(ledger, rules)
      /\ ReviewsName(reviews, rules)
  BY DEF NamesInv, TypeInv
<1>2. PICK before : before = reviews[k].before
  OBVIOUS
<1>3. PICK r : r = reviews[k].rule
  OBVIOUS
<1>4. BeforeType(before) /\ r \in Alive(rules) \cup {None}
  BY <1>1, <1>2, <1>3, ReviewFacts DEF ReviewsName
<1>5. /\ rules' = IF r = None THEN rules ELSE [rules EXCEPT ![r] = None]
      /\ \A t \in DOMAIN before :
            /\ t \in Transaction /\ ledger[t] # None /\ before[t].verdict.winner \in Rule \cup {None}
            /\ ledger[t].pair # None => before[t].fields.type = "transfer"
  BY <1>2, <1>3 DEF Undo, Restorable, Booked
<1>6. Rule = Alive(rules)
  BY DEF Rule, Alive
<1>7. /\ DOMAIN rules' = DOMAIN rules /\ Len(rules') = Len(rules)
      /\ Alive(rules') = Alive(rules) \ {r}
  <2>1. None \notin Alive(rules)
    BY <1>1, RulesFacts, LedgerAssumption
  <2>2. CASE r = None
    BY <1>5, <2>1, <2>2
  <2>3. CASE r # None
    BY <1>1, <1>4, <1>5, <2>3 DEF RulesType, Alive
  <2>4. QED
    BY <2>2, <2>3
<1>8. \A t \in DOMAIN before : Names(before[t].verdict, rules) /\ Names(before[t].verdict, rules')
  <2>1. \A t \in DOMAIN before : SnapNames(before[t].verdict, r, rules)
    BY <1>1, <1>2, <1>3 DEF ReviewsName
  <2>2. QED
    BY <1>5, <1>6, <1>7, <2>1 DEF SnapNames, Names
<1>9. VerdictNames(BeforeRule(k), rules')
  <2>1. CASE r = None
    BY <1>1, <1>3, <1>5, <2>1 DEF BeforeRule
  <2>2. CASE r # None
    <3>1. PICK l : l = Restored(ledger, before)
      OBVIOUS
    <3>2. /\ LedgerType(l)
          /\ \A t \in DOMAIN before : l[t].verdict = before[t].verdict
          /\ \A t \in Transaction \ DOMAIN before : l[t] = ledger[t]
      BY <1>1, <1>4, <1>5, <3>1, RestoredFollows DEF Follows
    <3>3. VerdictNames(l, rules)
      BY <1>1, <1>8, <3>2 DEF VerdictNames
    <3>4. r \in DOMAIN rules
      BY <1>4, <2>2 DEF Alive
    <3>5. VerdictNames(WithoutRule(l, r), rules')
      BY <1>1, <1>5, <2>2, <3>2, <3>3, <3>4, WithoutRuleNames
    <3>6. QED
      BY <1>2, <1>3, <2>2, <3>1, <3>5 DEF BeforeRule
  <2>3. QED
    BY <2>1, <2>2
<1>10. VerdictNames(ledger', rules')
  <2>1. /\ \A t \in DOMAIN before : ledger'[t].verdict = before[t].verdict
        /\ \A t \in Transaction \ DOMAIN before : ledger'[t] = BeforeRule(k)[t]
    BY <1>1, <1>2, UndoStep
  <2>2. QED
    BY <1>8, <1>9, <2>1 DEF VerdictNames
<1>11. /\ DOMAIN reviews' = DOMAIN reviews /\ Len(reviews') = Len(reviews)
       /\ \A j \in DOMAIN reviews :
             /\ reviews'[j].before = reviews[j].before
             /\ j # k => reviews'[j] = reviews[j]
       /\ reviews'[k].rule = None
  BY <1>1, UndoStep, UndoneReviews
<1>12. ReviewsName(reviews', rules')
  <2>1. ASSUME NEW j \in DOMAIN reviews
        PROVE  /\ reviews'[j].rule \in Alive(rules') \cup {None}
               /\ \A t \in DOMAIN reviews'[j].before :
                     SnapNames(reviews'[j].before[t].verdict, reviews'[j].rule, rules')
    <3>1. /\ reviews[j].rule \in Alive(rules) \cup {None}
          /\ \A t \in DOMAIN reviews[j].before :
                SnapNames(reviews[j].before[t].verdict, reviews[j].rule, rules)
          /\ j # k /\ reviews[j].rule = r => reviews[j].rule = None
      BY <1>1, <1>3 DEF ReviewsName
    <3>2. CASE j = k
      BY <1>7, <1>11, <3>1, <3>2 DEF SnapNames
    <3>3. CASE j # k
      BY <1>7, <1>11, <3>1, <3>3 DEF SnapNames
    <3>4. QED
      BY <3>2, <3>3
  <2>2. \A i, j \in DOMAIN reviews :
           reviews'[i].rule = reviews'[j].rule => i = j \/ reviews'[i].rule = None
    BY <1>1, <1>11 DEF ReviewsName
  <2>3. QED
    BY <1>11, <2>1, <2>2 DEF ReviewsName
<1>13. QED
  BY <1>7, <1>10, <1>11, <1>12 DEF NamesInv

NamesFacts ==
    /\ VerdictNames(ledger', rules') /\ ReviewsName(reviews', rules')
    /\ Len(rules') <= MaxRules /\ Len(reviews') <= MaxReviews

LEMMA NamesStep ==
    ASSUME NamesInv, [Next]_vars
    PROVE  NamesFacts
<1>1. TypeInv /\ VerdictNames(ledger, rules) /\ LedgerType(ledger)
  BY DEF NamesInv, TypeInv
<1>2. ASSUME VerdictNames(ledger', rules), rules' = rules, reviews' = reviews PROVE NamesFacts
  BY <1>2 DEF NamesInv, NamesFacts
<1>3. ASSUME Inherits(ledger, ledger'), rules' = rules, reviews' = reviews PROVE NamesFacts
  <2>1. VerdictNames(ledger', rules)
    BY <1>1, <1>3, InheritedNames
  <2>2. QED
    BY <1>2, <1>3, <2>1
<1>4. ASSUME NEW t \in Transaction, Book(t) PROVE NamesFacts
  <2>1. rules' = rules /\ reviews' = reviews
    BY <1>4 DEF Book
  <2>2. QED
    BY <1>2, <1>4, <2>1, BookNames
<1>5. ASSUME NEW ts \in SUBSET Transaction, Delete(ts) PROVE NamesFacts
  <2>1. rules' = rules /\ reviews' = reviews
    BY <1>5 DEF Delete
  <2>2. QED
    BY <1>1, <1>3, <1>5, <2>1, InheritingSteps
<1>6. ASSUME NEW t \in Transaction, NEW u \in Transaction, ConfirmTransfer(t, u) PROVE NamesFacts
  <2>1. rules' = rules /\ reviews' = reviews
    BY <1>6 DEF ConfirmTransfer
  <2>2. QED
    BY <1>1, <1>3, <1>6, <2>1, InheritingSteps
<1>7. ASSUME NEW ts \in (SUBSET Transaction) \ {{}}, NEW c \in Correction,
             Edit(ts, c.columns, c.review)
      PROVE  NamesFacts
  <2>1. rules' = rules /\ reviews' = reviews
    BY <1>7 DEF Edit
  <2>2. QED
    BY <1>1, <1>3, <1>7, <2>1, InheritingSteps
<1>8. ASSUME NEW t \in Transaction, ReplaceSplits(t) PROVE NamesFacts
  <2>1. rules' = rules /\ reviews' = reviews
    BY <1>8 DEF ReplaceSplits
  <2>2. QED
    BY <1>1, <1>3, <1>8, <2>1, InheritingSteps
<1>9. ASSUME Ruled PROVE NamesFacts
  BY <1>9, CreateRuleNames, UpdateRuleNames, DeleteRuleNames, ReorderNames DEF Ruled, NamesFacts
<1>10. ASSUME ListGroups PROVE NamesFacts
  <2>1. ledger' = Refreshed(ledger) /\ rules' = rules /\ reviews' = reviews
    BY <1>10 DEF ListGroups
  <2>2. QED
    BY <1>2, <2>1, RefreshedNames
<1>11. ASSUME NEW t \in Transaction, NEW answer \in Action, Suggest(t, answer) PROVE NamesFacts
  <2>1. rules' = rules /\ reviews' = reviews
    BY <1>11 DEF Suggest
  <2>2. QED
    BY <1>2, <1>11, <2>1, SuggestNames
<1>12. ASSUME NEW t \in Booked, NEW ts \in SUBSET Transaction, NEW remember \in BOOLEAN,
              NEW decision \in Decision, NEW choice \in Suggestion \cup {None},
              decision = "change" <=> choice # None, Decide(t, ts, decision, choice, remember)
       PROVE  NamesFacts
  BY <1>12, DecideNames DEF NamesFacts
<1>13. ASSUME NEW k \in DOMAIN reviews, Undo(k) PROVE NamesFacts
  BY <1>13, UndoNames DEF NamesFacts
<1>14. \A choice \in Action : choice \in Suggestion /\ choice # None
  BY LedgerAssumption
<1>15. ASSUME Reviewed PROVE NamesFacts
  <2>1. CASE \E t \in Booked, ts \in (SUBSET Transaction) \ {{}}, remember \in BOOLEAN :
                \E choice \in Action : Decide(t, ts, "change", choice, remember)
    BY <1>12, <1>14, <2>1 DEF Decision
  <2>2. CASE \E t \in Booked, ts \in (SUBSET Transaction) \ {{}}, remember \in BOOLEAN :
                \E decision \in {"accept", "ignore"} : Decide(t, ts, decision, None, remember)
    BY <1>12, <2>2 DEF Decision
  <2>3. QED
    BY <1>10, <1>11, <1>13, <1>15, <2>1, <2>2 DEF Reviewed
<1>16. ASSUME UNCHANGED vars PROVE NamesFacts
  BY <1>1, <1>2, <1>16 DEF vars
<1>17. CASE Plain
  BY <1>7, <1>8, <1>9, <1>15, <1>16, <1>17 DEF Plain
<1>18. QED
  BY <1>4, <1>5, <1>6, <1>17, NextSplit

\* Every verdict, snapshot and decision names only rules that exist, or once
\* existed where it says so: the invariant under the type of the ledger.
THEOREM NamesInvariant == Spec => []NamesInv
<1>1. Init => NamesInv
  <2>1. ASSUME Init PROVE NamesInv
    <3>1. TypeInv /\ ledger = [t \in Transaction |-> None] /\ rules = <<>> /\ reviews = <<>>
      BY <2>1, PairsInit DEF PairsInv, Init
    <3>2. VerdictNames(ledger, rules) /\ ReviewsName(reviews, rules)
      BY <3>1 DEF VerdictNames, ReviewsName
    <3>3. Len(rules) = 0 /\ Len(reviews) = 0
      BY <3>1
    <3>4. QED
      BY <3>1, <3>2, <3>3, LedgerAssumption DEF NamesInv
  <2>2. QED
    BY <2>1
<1>2. NamesInv /\ PairsInv' /\ [Next]_vars => NamesInv'
  <2>1. ASSUME NamesInv, PairsInv', [Next]_vars PROVE NamesInv'
    <3>1. NamesFacts
      BY <2>1, NamesStep
    <3>2. QED
      BY <2>1, <3>1 DEF NamesInv, NamesFacts, PairsInv, VerdictNames, ReviewsName
  <2>2. QED
    BY <2>1
<1>3. QED
  BY <1>1, <1>2, LedgerInvariant, PTL DEF Spec

\* Rows have their types, and a verdict names only a rule that still exists.
THEOREM RulesNamedExist == Spec => []TypeOK
<1>1. NamesInv => TypeOK
  BY DEF NamesInv, TypeInv, VerdictNames, ReviewsName, Names, TypeOK, LedgerType, Booked, Rule, Alive
<1>2. QED
  BY <1>1, NamesInvariant, PTL

-----------------------------------------------------------------------------
(* What an evaluation depends on.                                              *)

SameSubject(a, b) ==
    a.source = b.source /\ a.fields = b.fields /\ a.pair = b.pair /\ a.split = b.split

Confirmed(l, v) == l[v] # None /\ l[v].source = "manual"

\* The user confirmed the same of the transactions other than u.
SameHistory(l, m, u) ==
    \A v \in Transaction \ {u} :
        /\ Confirmed(l, v) <=> Confirmed(m, v)
        /\ Confirmed(l, v) => l[v].fields = m[v].fields

LEMMA PrecedentSame ==
    ASSUME NEW l, NEW m, NEW u, SameHistory(l, m, u), NEW alike, alike \subseteq Transaction \ {u}
    PROVE  Precedent(l, alike) = Precedent(m, alike)
<1>1. PICK of : of = {v \in alike : Confirmed(l, v)}
  OBVIOUS
<1>2. PICK there : there = {v \in alike : Confirmed(m, v)}
  OBVIOUS
<1>3. of = there /\ \A v \in of : l[v].fields = m[v].fields
  BY <1>1, <1>2 DEF SameHistory
<1>4. {l[v].fields : v \in of} = {m[v].fields : v \in there}
  BY <1>3
<1>5. PICK confirmed : confirmed = {l[v].fields : v \in of}
  OBVIOUS
<1>6. of = {v \in alike : l[v] # None /\ l[v].source = "manual"}
  BY <1>1 DEF Confirmed
<1>7. there = {v \in alike : m[v] # None /\ m[v].source = "manual"}
  BY <1>2 DEF Confirmed
<1>8. confirmed = {m[v].fields : v \in there}
  BY <1>4, <1>5
<1>9. Precedent(l, alike) = IF Cardinality(confirmed) # 1 THEN None
                            ELSE AsSuggestion(CHOOSE fields \in confirmed : TRUE)
  BY <1>5, <1>6 DEF Precedent
<1>10. Precedent(m, alike) = IF Cardinality(confirmed) # 1 THEN None
                            ELSE AsSuggestion(CHOOSE fields \in confirmed : TRUE)
  BY <1>7, <1>8 DEF Precedent
<1>11. QED
  BY <1>9, <1>10

LEMMA MatchingSame ==
    ASSUME NEW l, NEW m, NEW rs, NEW u, l[u].fields.type = m[u].fields.type
    PROVE  Matching(l, rs, u) = Matching(m, rs, u) /\ Top(l, rs, u) = Top(m, rs, u)
<1>1. Matching(l, rs, u) = Matching(m, rs, u)
  BY DEF Matching
<1>2. QED
  BY <1>1 DEF Top

LEMMA ByTopSame ==
    ASSUME NEW a, NEW b, a.split = b.split, NEW rs, NEW top
    PROVE  /\ ByTop(a, rs, top) = ByTop(b, rs, top)
           /\ \A s : WithoutSplitCategory(a, s) = WithoutSplitCategory(b, s)
<1>1. \A s : WithoutSplitCategory(a, s) = WithoutSplitCategory(b, s)
  BY DEF WithoutSplitCategory
<1>2. WithoutSplitCategory(a, Merged(rs, top)) = WithoutSplitCategory(b, Merged(rs, top))
  BY <1>1
<1>3. ByTop(a, rs, top) = ByTop(b, rs, top)
  BY <1>2 DEF ByTop
<1>4. QED
  BY <1>1, <1>3

\* An evaluation reads its row, the rules, and what the user confirmed elsewhere.
LEMMA EvaluateSame ==
    ASSUME NEW l, NEW m, NEW rs, NEW u \in Transaction,
           SameSubject(l[u], m[u]), SameHistory(l, m, u)
    PROVE  Evaluate(l, rs, u) = Evaluate(m, rs, u)
<1>1. /\ l[u].source = m[u].source /\ l[u].fields = m[u].fields
      /\ l[u].pair = m[u].pair /\ l[u].split = m[u].split
  BY DEF SameSubject
<1>2. Matching(l, rs, u) = Matching(m, rs, u) /\ Top(l, rs, u) = Top(m, rs, u)
  BY <1>1, MatchingSame
<1>3. ByRule(l, rs, u) = ByRule(m, rs, u)
  BY <1>1, <1>2, ByTopSame DEF ByRule
<1>4. OfParty(u) \subseteq Transaction \ {u} /\ OfNarration(u) \subseteq Transaction \ {u}
      /\ OfSimilar(u) \subseteq Transaction \ {u}
  BY DEF OfParty, OfNarration, OfSimilar
<1>5. /\ Precedent(l, OfParty(u)) = Precedent(m, OfParty(u))
      /\ Precedent(l, OfNarration(u)) = Precedent(m, OfNarration(u))
      /\ Precedent(l, OfSimilar(u)) = Precedent(m, OfSimilar(u))
  BY <1>4, PrecedentSame
<1>6. \A s : WithoutSplitCategory(l[u], s) = WithoutSplitCategory(m[u], s)
  BY <1>1, ByTopSame
<1>7. \A s, doubtful : Evaluation("automatic", WithoutSplitCategory(l[u], s), None, {}, doubtful)
                       = Evaluation("automatic", WithoutSplitCategory(m[u], s), None, {}, doubtful)
  BY <1>6
<1>8. QED
  BY <1>1, <1>2, <1>3, <1>5, <1>7 DEF Evaluate

-----------------------------------------------------------------------------
(* Undoing a decision leaves no trace.                                         *)

Traceless(k) ==
    LET before == reviews[k].before
        r == reviews[k].rule
    IN /\ \A t \in DOMAIN before : Snapshot(ledger'[t]) = before[t]
       /\ r # None =>
             /\ rules'[r] = None
             /\ \A u \in Matched(ledger, rules, r) \ DOMAIN before :
                   ledger'[u].verdict = Evaluate([ledger' EXCEPT ![u] = ledger[u]], rules', u)

LEMMA UndoIsTraceless ==
    ASSUME NamesInv, NEW k \in DOMAIN reviews, Undo(k)
    PROVE  Traceless(k)
<1>1. TypeInv /\ RulesType(rules) /\ LedgerType(ledger)
  BY DEF NamesInv, TypeInv
<1>2. PICK before : before = reviews[k].before
  OBVIOUS
<1>3. PICK r : r = reviews[k].rule
  OBVIOUS
<1>4. BeforeType(before) /\ r \in Alive(rules) \cup {None}
  BY <1>1, <1>2, <1>3, ReviewFacts DEF NamesInv, ReviewsName
<1>5. /\ rules' = IF r = None THEN rules ELSE [rules EXCEPT ![r] = None]
      /\ \A t \in DOMAIN before :
            /\ t \in Transaction /\ ledger[t] # None
            /\ ledger[t].pair # None => before[t].fields.type = "transfer"
  BY <1>2, <1>3 DEF Undo, Restorable, Booked
<1>6. \A t \in DOMAIN before : Snapshot(ledger'[t]) = before[t]
  BY <1>1, <1>2, UndoStep
<1>7. ASSUME r # None
      PROVE  /\ rules'[r] = None
             /\ \A u \in Matched(ledger, rules, r) \ DOMAIN before :
                   ledger'[u].verdict = Evaluate([ledger' EXCEPT ![u] = ledger[u]], rules', u)
  <2>1. r \in DOMAIN rules
    BY <1>4, <1>7 DEF Alive
  <2>2. PICK rs : rs = [rules EXCEPT ![r] = None]
    OBVIOUS
  <2>3. rules' = rs /\ rs[r] = None /\ RulesType(rs)
    BY <1>1, <1>5, <1>7, <2>1, <2>2, RulesWithout DEF RulesType
  <2>4. PICK l : l = Restored(ledger, before)
    OBVIOUS
  <2>5. /\ LedgerType(l)
        /\ \A t \in DOMAIN before : l[t] # None /\ l[t].fields = before[t].fields
                                    /\ l[t].source = before[t].source
        /\ \A t \in Transaction \ DOMAIN before : l[t] = ledger[t]
    BY <1>1, <1>4, <1>5, <2>4, RestoredFollows, RowFacts DEF Follows
  <2>6. PICK d : d = Disowned(l, r)
    OBVIOUS
  <2>7. /\ LedgerType(d)
        /\ \A t \in Transaction : l[t] # None =>
              d[t] # None /\ d[t].fields = l[t].fields /\ d[t].source = l[t].source
              /\ d[t].pair = l[t].pair /\ d[t].split = l[t].split
        /\ \A t \in Transaction : l[t] = None => d[t] = None
    <3>1. \A t \in Transaction : l[t] # None => d[t] \in Row
      BY <2>5, <2>6, DisownedRow
    <3>2. QED
      BY <2>5, <2>6, <3>1, DisownedFollows, DisownedRow, RowFacts DEF Follows
  <2>8. PICK ts : ts = Matched(l, rules, r)
    OBVIOUS
  <2>9. PICK c : c = Classified(d, rs, ts)
    OBVIOUS
  <2>10. /\ LedgerType(c)
         /\ \A t \in Transaction :
               /\ d[t] = None => c[t] = None
               /\ d[t] # None => c[t] # None /\ KeptBy(d[t], c[t])
               /\ t \in ts /\ d[t] # None => c[t].verdict = Evaluate(d, rs, t)
    BY <2>3, <2>7, <2>9, ClassifiedTyped
  <2>11. c = BeforeRule(k)
    BY <1>2, <1>3, <1>7, <2>2, <2>4, <2>6, <2>8, <2>9 DEF BeforeRule, WithoutRule
  <2>12. ledger' = Restored(c, before)
    BY <1>1, <1>2, <2>11, UndoStep
  <2>13. \A t \in DOMAIN before : c[t] # None /\ (c[t].pair # None => before[t].fields.type = "transfer")
    <3>1. /\ Follows(ledger, BeforeRule(k), DOMAIN before)
      BY <1>1, <1>2, UndoStep
    <3>2. QED
      BY <1>5, <2>11, <3>1 DEF Follows, FollowsRow
  <2>14. /\ LedgerType(ledger')
         /\ \A t \in DOMAIN before : ledger'[t] # None /\ ledger'[t].fields = before[t].fields
                                     /\ ledger'[t].source = before[t].source
         /\ \A t \in Transaction \ DOMAIN before : ledger'[t] = c[t]
    BY <1>4, <2>10, <2>12, <2>13, RestoredFollows, RowFacts DEF Follows
  <2>15. ASSUME NEW u \in Matched(ledger, rules, r) \ DOMAIN before
         PROVE  ledger'[u].verdict = Evaluate([ledger' EXCEPT ![u] = ledger[u]], rules', u)
    <3>1. u \in Transaction /\ ledger[u] # None /\ r \in Matching(ledger, rules, u) /\ l[u] = ledger[u]
      BY <2>5, <2>15 DEF Matched
    <3>2. r \in Matching(l, rules, u)
      BY <3>1, MatchingSame
    <3>3. u \in ts /\ d[u] # None
      BY <2>7, <2>8, <3>1, <3>2 DEF Matched
    <3>4. ledger'[u].verdict = Evaluate(d, rs, u)
      BY <2>10, <2>14, <2>15, <3>1, <3>3
    <3>5. PICK m : m = [ledger' EXCEPT ![u] = ledger[u]]
      OBVIOUS
    <3>6. m[u] = ledger[u] /\ \A v \in Transaction \ {u} : m[v] = ledger'[v]
      BY <2>14, <3>1, <3>5 DEF LedgerType
    <3>7. SameSubject(d[u], m[u])
      BY <2>7, <3>1, <3>6 DEF SameSubject
    <3>8. SameHistory(d, m, u)
      <4>1. ASSUME NEW v \in Transaction \ {u}
            PROVE  /\ Confirmed(d, v) <=> Confirmed(m, v)
                   /\ Confirmed(d, v) => d[v].fields = m[v].fields
        <5>1. CASE v \in DOMAIN before
          BY <2>5, <2>7, <2>14, <3>6, <5>1 DEF Confirmed
        <5>2. CASE v \notin DOMAIN before
          <6>1. m[v] = c[v]
            BY <2>14, <3>6, <5>2
          <6>2. QED
            BY <2>10, <6>1 DEF Confirmed, KeptBy
        <5>3. QED
          BY <5>1, <5>2
      <4>2. QED
        BY <4>1 DEF SameHistory
    <3>9. Evaluate(d, rs, u) = Evaluate(m, rs, u)
      BY <3>1, <3>7, <3>8, EvaluateSame
    <3>10. QED
      BY <2>3, <3>4, <3>5, <3>9
  <2>16. QED
    BY <2>3, <2>15
<1>8. QED
  BY <1>2, <1>3, <1>6, <1>7 DEF Traceless

\* Only undoing a decision marks it as undone.
LEMMA OnlyUndo ==
    ASSUME TypeInv, [Next]_vars, NEW k \in DOMAIN reviews, reviews'[k].undone # reviews[k].undone
    PROVE  Undo(k)
<1>1. reviews' # reviews
  OBVIOUS
<1>2. ASSUME NEW r \in Rule, DeleteRule(r) PROVE FALSE
  <2>1. reviews' = [j \in DOMAIN reviews |->
            IF reviews[j].rule = r THEN [reviews[j] EXCEPT !.rule = None] ELSE reviews[j]]
    BY <1>2 DEF DeleteRule
  <2>2. reviews[k] \in ReviewRow
    BY ReviewFacts
  <2>3. reviews'[k].undone = reviews[k].undone
    BY <2>1, <2>2 DEF ReviewRow
  <2>4. QED
    BY <2>3
<1>3. ASSUME NEW t \in Booked, NEW ts \in SUBSET Transaction, NEW remember \in BOOLEAN,
             NEW decision \in Decision, NEW choice \in Suggestion \cup {None},
             decision = "change" <=> choice # None, Decide(t, ts, decision, choice, remember)
      PROVE  FALSE
  <2>1. PICK review : review \in ReviewRow /\ reviews' = Append(reviews, review)
    BY <1>3, DecideShape DEF AppliedTo
  <2>2. reviews'[k] = reviews[k]
    BY <2>1, ReviewAdded
  <2>3. QED
    BY <2>2
<1>4. ASSUME NEW j \in DOMAIN reviews, Undo(j) PROVE Undo(k)
  <2>1. CASE j = k
    BY <1>4, <2>1
  <2>2. CASE j # k
    <3>1. reviews' = [reviews EXCEPT ![j].undone = TRUE, ![j].rule = None]
      BY <1>4, UndoStep
    <3>2. reviews'[k] = reviews[k]
      BY <1>4, <2>2, <3>1, UndoneReviews
    <3>3. QED
      BY <3>2
  <2>3. QED
    BY <2>1, <2>2
<1>5. \A choice \in Action : choice \in Suggestion /\ choice # None
  BY LedgerAssumption
<1>6. CASE Ruled
  <2>1. \A r \in Rule, draft \in Draft : ~UpdateRule(r, draft) /\ ~CreateRule(draft)
    BY <1>1 DEF UpdateRule, CreateRule
  <2>2. \A place : ~Reorder(place)
    BY <1>1 DEF Reorder
  <2>3. QED
    BY <1>1, <1>2, <1>6, <2>1, <2>2 DEF Ruled, CreateRule
<1>7. CASE Reviewed
  <2>1. CASE \E t \in Booked, ts \in (SUBSET Transaction) \ {{}}, remember \in BOOLEAN :
                \E choice \in Action : Decide(t, ts, "change", choice, remember)
    BY <1>3, <1>5, <2>1 DEF Decision
  <2>2. CASE \E t \in Booked, ts \in (SUBSET Transaction) \ {{}}, remember \in BOOLEAN :
                \E decision \in {"accept", "ignore"} : Decide(t, ts, decision, None, remember)
    BY <1>3, <2>2 DEF Decision
  <2>3. ~ListGroups /\ \A t, answer : ~Suggest(t, answer)
    BY <1>1 DEF ListGroups, Suggest
  <2>4. QED
    BY <1>4, <1>7, <2>1, <2>2, <2>3 DEF Reviewed
<1>8. CASE Plain
  <2>1. \A ts, columns, review : ~Edit(ts, columns, review)
    BY <1>1 DEF Edit
  <2>2. \A t : ~ReplaceSplits(t)
    BY <1>1 DEF ReplaceSplits
  <2>3. ~UNCHANGED vars
    BY <1>1 DEF vars
  <2>4. QED
    BY <1>6, <1>7, <1>8, <2>1, <2>2, <2>3 DEF Plain
<1>9. ~(\E t \in Transaction : Book(t)) /\ ~(\E ts \in SUBSET Transaction : Delete(ts))
      /\ ~(\E t, u \in Transaction : ConfirmTransfer(t, u))
  BY <1>1 DEF Book, Delete, ConfirmTransfer
<1>10. QED
  BY <1>8, <1>9, NextSplit

\* Undoing a decision brings back what its transactions were, and what its
\* remembered rule matched besides is classified as if neither had ever been.
THEOREM UndoneIsForgotten == Spec => UndoLeavesNoTrace
<1> DEFINE Step ==
        \A k \in DOMAIN reviews : reviews'[k].undone # reviews[k].undone =>
           LET before == reviews[k].before
               r == reviews[k].rule
           IN /\ \A t \in DOMAIN before : Snapshot(ledger'[t]) = before[t]
              /\ r # None =>
                    /\ rules'[r] = None
                    /\ \A u \in Matched(ledger, rules, r) \ DOMAIN before :
                          ledger'[u].verdict = Evaluate([ledger' EXCEPT ![u] = ledger[u]], rules', u)
<1>1. NamesInv /\ [Next]_vars => [Step]_vars
  <2>1. ASSUME NamesInv, [Next]_vars PROVE Step
    <3>1. ASSUME NEW k \in DOMAIN reviews, reviews'[k].undone # reviews[k].undone PROVE Traceless(k)
      BY <2>1, <3>1, OnlyUndo, UndoIsTraceless DEF NamesInv
    <3>2. QED
      BY <3>1 DEF Traceless
  <2>2. QED
    BY <2>1
<1>2. UndoLeavesNoTrace <=> [][Step]_vars
  BY DEF UndoLeavesNoTrace
<1> HIDE DEF Step
<1>3. QED
  BY <1>1, <1>2, NamesInvariant, PTL DEF Spec

-----------------------------------------------------------------------------
(* The classifications are those of the rules as they are now.                 *)

\* Classified automatically, and nothing has happened to it since.
Verdicted(row) ==
    /\ row.verdict # None /\ ~row.verdict.stale
    /\ row.pair = None /\ row.verdict.source # "manual"

Settled(l, rs, t) ==
    l[t] # None /\ Verdicted(l[t]) =>
        IF Matching(l, rs, t) = {}
        THEN l[t].verdict.winner = None /\ l[t].verdict.conflicts = {}
        ELSE l[t].verdict = ByRule(l, rs, t)

\* No rule asks for the type.
Typeless(rs) == \A r \in Alive(rs) : rs[r].types = Type

LEMMA EvaluateSettled ==
    ASSUME NEW l, LedgerType(l), NEW rs, RulesType(rs), NEW t \in Transaction, l[t] # None,
           l[t].pair = None, Evaluate(l, rs, t).source # "manual"
    PROVE  IF Matching(l, rs, t) = {}
           THEN Evaluate(l, rs, t).winner = None /\ Evaluate(l, rs, t).conflicts = {}
           ELSE Evaluate(l, rs, t) = ByRule(l, rs, t)
<1>1. l[t].source # "manual"
  BY EvaluateTyped DEF Judged
<1>2. CASE Matching(l, rs, t) # {}
  BY <1>1, <1>2 DEF Evaluate
<1>3. CASE Matching(l, rs, t) = {}
  <2>1. PICK v : v = Evaluate(l, rs, t)
    OBVIOUS
  <2>2. \E source, suggestion, doubtful : v = Evaluation(source, suggestion, None, {}, doubtful)
    BY <1>1, <1>3, <2>1 DEF Evaluate
  <2>3. v.winner = None /\ v.conflicts = {}
    BY <2>2 DEF Evaluation
  <2>4. QED
    BY <1>3, <2>1, <2>3
<1>4. QED
  BY <1>2, <1>3

LEMMA UntypedMatching ==
    ASSUME NEW l, LedgerType(l), NEW m, LedgerType(m), NEW rs, RulesType(rs), Typeless(rs),
           NEW t \in Transaction, l[t] # None, m[t] # None
    PROVE  Matching(l, rs, t) = Matching(m, rs, t) /\ Top(l, rs, t) = Top(m, rs, t)
<1>1. l[t].fields.type \in Type /\ m[t].fields.type \in Type
  BY RowFacts, FieldsShape DEF LedgerType
<1>2. Matching(l, rs, t) = Matching(m, rs, t)
  BY <1>1 DEF Matching, Typeless, Alive
<1>3. QED
  BY <1>2 DEF Top

LEMMA SettledSame ==
    ASSUME NEW l, LedgerType(l), NEW m, LedgerType(m), NEW rs, RulesType(rs), Typeless(rs),
           NEW t \in Transaction, Settled(l, rs, t),
           m[t] # None => /\ l[t] # None /\ m[t].verdict = l[t].verdict
                          /\ m[t].pair = l[t].pair /\ m[t].split = l[t].split
    PROVE  Settled(m, rs, t)
<1>1. CASE m[t] = None
  BY <1>1 DEF Settled
<1>2. CASE m[t] # None
  <2>1. Matching(l, rs, t) = Matching(m, rs, t) /\ Top(l, rs, t) = Top(m, rs, t)
    BY <1>2, UntypedMatching
  <2>2. ByRule(l, rs, t) = ByRule(m, rs, t)
    BY <1>2, <2>1, ByTopSame DEF ByRule
  <2>3. Verdicted(m[t]) => Verdicted(l[t])
    BY <1>2 DEF Verdicted
  <2>4. QED
    BY <1>2, <2>1, <2>2, <2>3 DEF Settled
<1>3. QED
  BY <1>1, <1>2

LEMMA ClassifiedSettled ==
    ASSUME NEW l, LedgerType(l), NEW rs, RulesType(rs), Typeless(rs), NEW ts,
           NEW t \in Transaction, t \in ts \/ Settled(l, rs, t)
    PROVE  Settled(Classified(l, rs, ts), rs, t)
<1>1. PICK c : c = Classified(l, rs, ts)
  OBVIOUS
<1>2. /\ LedgerType(c)
      /\ l[t] = None => c[t] = None
      /\ l[t] # None => c[t] # None /\ KeptBy(l[t], c[t])
      /\ t \notin ts => c[t] = l[t]
      /\ t \in ts /\ l[t] # None => c[t].verdict = Evaluate(l, rs, t)
  BY <1>1, ClassifiedTyped
<1>3. CASE t \notin ts \/ l[t] = None
  <2>1. Settled(l, rs, t) /\ c[t] = l[t]
    BY <1>2, <1>3 DEF Settled
  <2>2. Settled(c, rs, t)
    BY <1>2, <2>1, SettledSame
  <2>3. QED
    BY <1>1, <2>2
<1>4. CASE t \in ts /\ l[t] # None
  <2>1. /\ c[t] # None /\ c[t].pair = l[t].pair /\ c[t].split = l[t].split
        /\ c[t].verdict = Evaluate(l, rs, t)
    BY <1>2, <1>4 DEF KeptBy
  <2>2. Matching(l, rs, t) = Matching(c, rs, t) /\ Top(l, rs, t) = Top(c, rs, t)
    BY <1>2, <1>4, <2>1, UntypedMatching
  <2>3. ByRule(l, rs, t) = ByRule(c, rs, t)
    BY <2>1, <2>2, ByTopSame DEF ByRule
  <2>4. ASSUME Verdicted(c[t])
        PROVE  IF Matching(c, rs, t) = {} THEN c[t].verdict.winner = None /\ c[t].verdict.conflicts = {}
               ELSE c[t].verdict = ByRule(c, rs, t)
    <3>1. l[t].pair = None /\ Evaluate(l, rs, t).source # "manual"
      BY <2>1, <2>4 DEF Verdicted
    <3>2. QED
      BY <1>4, <2>1, <2>2, <2>3, <3>1, EvaluateSettled
  <2>5. Settled(c, rs, t)
    BY <2>4 DEF Settled
  <2>6. QED
    BY <1>1, <2>5
<1>5. QED
  BY <1>3, <1>4

\* The same rules but for r.
AgreeBut(rs, more, r) ==
    \A q : q # r => /\ q \in Alive(rs) <=> q \in Alive(more)
                    /\ q \in Alive(rs) => rs[q] = more[q]

LEMMA MergedSame ==
    ASSUME NEW rs, RulesType(rs), NEW more, NEW top, top \subseteq Alive(rs),
           \A q \in top : rs[q] = more[q], Conflicting(rs, top) = {}
    PROVE  Merged(rs, top) = Merged(more, top)
<1>1. PICK D : D = UNION {DOMAIN rs[r].action : r \in top}
  OBVIOUS
<1>2. D = UNION {DOMAIN more[r].action : r \in top}
  BY <1>1
<1>3. \A c \in D : \E r \in top : c \in DOMAIN rs[r].action
  BY <1>1
<1>4. PICK s : s = Merged(rs, top)
  OBVIOUS
<1>5. PICK o : o = Merged(more, top)
  OBVIOUS
<1>6. s = [c \in D |-> s[c]] /\ o = [c \in D |-> o[c]]
  BY <1>1, <1>2, <1>4, <1>5 DEF Merged
<1>7. ASSUME NEW c \in D PROVE s[c] = o[c]
  <2>1. PICK r : r = CHOOSE q \in top : c \in DOMAIN rs[q].action
    OBVIOUS
  <2>2. r \in top /\ c \in DOMAIN rs[r].action /\ s[c] = rs[r].action[c]
    BY <1>1, <1>3, <1>4, <2>1 DEF Merged
  <2>3. PICK p : p = CHOOSE q \in top : c \in DOMAIN more[q].action
    OBVIOUS
  <2>4. p \in top /\ c \in DOMAIN more[p].action
    BY <1>3, <2>3
  <2>5. o[c] = more[p].action[c]
    BY <1>2, <1>5, <2>3 DEF Merged
  <2>6. c \in DOMAIN rs[r].action \cap DOMAIN rs[p].action /\ more[p].action[c] = rs[p].action[c]
    BY <2>2, <2>4
  <2>7. rs[r].action[c] = rs[p].action[c]
    BY <2>2, <2>4, <2>6 DEF Conflicting
  <2>8. QED
    BY <2>2, <2>5, <2>6, <2>7
<1>8. s = o
  BY <1>6, <1>7
<1>9. QED
  BY <1>4, <1>5, <1>8

LEMMA ByTopAcross ==
    ASSUME NEW rs, RulesType(rs), NEW more, NEW top, top \subseteq Alive(rs), top # {},
           \A q \in top : rs[q] = more[q], NEW row
    PROVE  ByTop(row, rs, top) = ByTop(row, more, top)
<1>1. Conflicting(rs, top) = Conflicting(more, top)
  BY DEF Conflicting
<1>2. CASE Conflicting(rs, top) # {}
  BY <1>1, <1>2 DEF ByTop
<1>3. CASE Conflicting(rs, top) = {}
  <2>1. Merged(rs, top) = Merged(more, top)
    BY <1>3, MergedSame
  <2>2. top \subseteq Nat
    BY RulesFacts
  <2>3. First(top) \in top
    BY <2>2, FirstExists
  <2>4. rs[First(top)] = more[First(top)]
    BY <2>3
  <2>5. QED
    BY <1>1, <1>3, <2>1, <2>4 DEF ByTop
<1>4. QED
  BY <1>2, <1>3

\* What a rule does not match it does not classify.
LEMMA SettledAcross ==
    ASSUME NEW l, NEW rs, RulesType(rs), NEW more, NEW r, AgreeBut(rs, more, r), NEW t,
           r \notin Matching(l, rs, t), r \notin Matching(l, more, t), Settled(l, rs, t)
    PROVE  Settled(l, more, t)
<1>1. Matching(l, rs, t) = Matching(l, more, t)
  BY DEF AgreeBut, Alive, Matching
<1>2. \A q \in Matching(l, rs, t) : rs[q] = more[q]
  BY DEF AgreeBut, Alive, Matching
<1>3. Top(l, rs, t) = Top(l, more, t)
  BY <1>1, <1>2 DEF Top
<1>4. CASE Matching(l, rs, t) = {}
  BY <1>1, <1>4 DEF Settled
<1>5. CASE Matching(l, rs, t) # {}
  <2>1. PICK top : top = Top(l, rs, t)
    OBVIOUS
  <2>2. top \subseteq Alive(rs) /\ top # {} /\ \A q \in top : rs[q] = more[q]
    BY <1>2, <1>5, <2>1, TopFacts DEF Top
  <2>3. ByTop(l[t], rs, top) = ByTop(l[t], more, top)
    BY <2>2, ByTopAcross
  <2>4. ByRule(l, rs, t) = ByRule(l, more, t)
    BY <1>3, <2>1, <2>3 DEF ByRule
  <2>5. QED
    BY <1>1, <2>4 DEF Settled
<1>6. QED
  BY <1>4, <1>5

LEMMA ByRuleWinner ==
    ASSUME NEW l, NEW rs, RulesType(rs), NEW t, Matching(l, rs, t) # {}
    PROVE  ByRule(l, rs, t).winner \in Matching(l, rs, t) \cup {None}
<1>1. PICK top : top = Top(l, rs, t)
  OBVIOUS
<1>2. top \subseteq Alive(rs) /\ top # {} /\ top \subseteq Nat /\ top \subseteq Matching(l, rs, t)
  BY <1>1, TopFacts, RulesFacts DEF Top
<1>3. First(top) \in top
  BY <1>2, FirstExists
<1>4. ByTop(l[t], rs, top).winner \in {None, First(top)}
  BY DEF ByTop, Evaluation
<1>5. ByRule(l, rs, t) = ByTop(l[t], rs, top)
  BY <1>1 DEF ByRule
<1>6. QED
  BY <1>2, <1>3, <1>4, <1>5

LEMMA FreedTyped ==
    ASSUME NEW v \in Verdict \cup {None}, NEW r
    PROVE  /\ Freed(v, r) = None <=> v = None
           /\ v # None => Freed(v, r).stale = v.stale /\ Freed(v, r).source = v.source
           /\ v # None /\ v.winner # r => Freed(v, r) = v
<1>1. CASE v # None /\ v.winner = r
  <2>1. PICK w : w = [v EXCEPT !.winner = None]
    OBVIOUS
  <2>2. w \in Verdict /\ w.stale = v.stale /\ w.source = v.source
    BY <1>1, <2>1 DEF Verdict
  <2>3. QED
    BY <1>1, <2>1, <2>2, LedgerAssumption DEF Freed
<1>2. CASE ~(v # None /\ v.winner = r)
  BY <1>2 DEF Freed
<1>3. QED
  BY <1>1, <1>2

LEMMA WithoutRuleSettled ==
    ASSUME NEW l, LedgerType(l), RulesType(rules), Typeless(rules), NEW r \in Alive(rules),
           NEW t \in Transaction, Settled(l, rules, t)
    PROVE  Settled(WithoutRule(l, r), [rules EXCEPT ![r] = None], t)
<1>1. PICK rs : rs = [rules EXCEPT ![r] = None]
  OBVIOUS
<1>2. RulesType(rs) /\ DOMAIN rs = DOMAIN rules /\ Alive(rs) = Alive(rules) \ {r}
      /\ AgreeBut(rules, rs, r) /\ Typeless(rs) /\ rs[r] = None
  <2>1. RulesType(rs)
    BY <1>1, RulesWithout
  <2>2. r \in DOMAIN rules /\ rules = [q \in DOMAIN rules |-> rules[q]]
    BY DEF Alive, RulesType
  <2>3. DOMAIN rs = DOMAIN rules /\ rs[r] = None /\ \A q \in DOMAIN rules \ {r} : rs[q] = rules[q]
    BY <1>1, <2>2
  <2>4. QED
    BY <2>1, <2>3 DEF Alive, AgreeBut, Typeless
<1>3. PICK d : d = Disowned(l, r)
  OBVIOUS
<1>4. LedgerType(d)
  BY <1>3, DisownedFollows DEF Follows
<1>5. PICK ts : ts = Matched(l, rules, r)
  OBVIOUS
<1>6. ASSUME t \notin ts PROVE Settled(d, rs, t)
  <2>1. CASE l[t] = None
    <3>1. d[t] = None
      BY <1>3, <2>1 DEF Disowned
    <3>2. QED
      BY <3>1 DEF Settled
  <2>2. CASE l[t] # None
    <3>1. r \notin Matching(l, rules, t)
      BY <1>5, <1>6, <2>2 DEF Matched
    <3>2. r \notin Matching(l, rs, t)
      BY <1>2 DEF Matching
    <3>3. Settled(l, rs, t)
      BY <1>2, <3>1, <3>2, SettledAcross
    <3>4. /\ d[t] \in Row /\ d[t].fields = l[t].fields /\ d[t].pair = l[t].pair
          /\ d[t].split = l[t].split /\ d[t].verdict = Freed(l[t].verdict, r)
      BY <1>3, <2>2, DisownedRow
    <3>5. CASE ~Verdicted(d[t])
      BY <3>5 DEF Settled
    <3>6. CASE Verdicted(d[t])
      <4>1. l[t].verdict \in Verdict \cup {None}
        BY <2>2, RowFacts DEF LedgerType
      <4>2. Verdicted(l[t])
        BY <3>4, <3>6, <4>1, FreedTyped DEF Verdicted
      <4>3. l[t].verdict.winner # r
        <5>1. r \in Nat
          BY RulesFacts
        <5>2. CASE Matching(l, rules, t) = {}
          BY <2>2, <4>2, <5>1, <5>2, LedgerAssumption DEF Settled
        <5>3. CASE Matching(l, rules, t) # {}
          BY <2>2, <3>1, <4>2, <5>1, <5>3, ByRuleWinner, LedgerAssumption DEF Settled
        <5>4. QED
          BY <5>2, <5>3
      <4>4. d[t].verdict = l[t].verdict
        BY <3>4, <4>1, <4>2, <4>3, FreedTyped DEF Verdicted
      <4>5. QED
        BY <1>2, <1>4, <2>2, <3>3, <3>4, <4>4, SettledSame
    <3>7. QED
      BY <3>5, <3>6
  <2>3. QED
    BY <2>1, <2>2
<1>7. Settled(Classified(d, rs, ts), rs, t)
  BY <1>2, <1>4, <1>6, ClassifiedSettled
<1>8. QED
  BY <1>1, <1>3, <1>5, <1>7 DEF WithoutRule

\* A decision on t was undone.
Undoings(vs, t) == \E k \in DOMAIN vs : t \in DOMAIN vs[k].before /\ vs[k].undone

AllSettled(l, rs, vs) == \A t \in Transaction : ~Undoings(vs, t) => Settled(l, rs, t)

\* What holds if no rule a user may write asks for the type.
ForceInv == NamesInv /\ Typeless(rules) /\ AllSettled(ledger, rules, reviews)

LEMMA OutdatedSettled ==
    ASSUME NEW l, LedgerType(l), NEW m, LedgerType(m), NEW rs, RulesType(rs), Typeless(rs),
           NEW t \in Transaction, Settled(l, rs, t), l[t] = None => m[t] = None,
           m[t] = l[t] \/ m[t].verdict = Stale(l[t].verdict)
    PROVE  Settled(m, rs, t)
<1>1. CASE m[t] = l[t]
  BY <1>1, SettledSame
<1>2. CASE m[t] # None /\ m[t].verdict = Stale(l[t].verdict)
  <2>1. l[t].verdict \in Verdict \cup {None}
    BY <1>2, RowFacts DEF LedgerType
  <2>2. ~Verdicted(m[t])
    BY <1>2, <2>1, StaleTyped DEF Verdicted
  <2>3. QED
    BY <2>2 DEF Settled
<1>3. CASE m[t] = None
  BY <1>3 DEF Settled
<1>4. QED
  BY <1>1, <1>2, <1>3

LEMMA BookForce ==
    ASSUME ForceInv, NEW t \in Transaction, Book(t)
    PROVE  AllSettled(ledger', rules, reviews)
<1>1. TypeInv /\ RulesType(rules) /\ LedgerType(ledger) /\ Typeless(rules)
  BY DEF ForceInv, NamesInv, TypeInv
<1>2. PICK l, ts : /\ l = [ledger EXCEPT ![t] = NewRow] /\ LedgerType(l)
                   /\ t \in ts /\ ledger' = Classified(l, rules, ts)
  BY <1>1, BookStep
<1>3. ASSUME NEW u \in Transaction, ~Undoings(reviews, u) PROVE Settled(ledger', rules, u)
  <2>1. Settled(ledger, rules, u)
    BY <1>3 DEF ForceInv, AllSettled
  <2>2. u \in ts \/ l[u] = ledger[u]
    BY <1>1, <1>2 DEF LedgerType
  <2>3. u \in ts \/ Settled(l, rules, u)
    BY <1>1, <1>2, <2>1, <2>2, SettledSame
  <2>4. Settled(Classified(l, rules, ts), rules, u)
    BY <1>1, <1>2, <2>3, ClassifiedSettled
  <2>5. QED
    BY <1>2, <2>4
<1>4. QED
  BY <1>3 DEF AllSettled

LEMMA OutdatingSteps ==
    ASSUME ForceInv,
           \/ \E ts \in SUBSET Transaction : Delete(ts)
           \/ \E ts \in SUBSET Transaction, c \in Correction : Edit(ts, c.columns, c.review)
           \/ \E t \in Transaction : ReplaceSplits(t)
           \/ \E t, u \in Transaction : ConfirmTransfer(t, u)
    PROVE  AllSettled(ledger', rules, reviews)
<1>1. TypeInv /\ RulesType(rules) /\ LedgerType(ledger) /\ Typeless(rules)
  BY DEF ForceInv, NamesInv, TypeInv
<1>2. ASSUME LedgerType(ledger'),
             \A t \in Transaction : ledger[t] = None => ledger'[t] = None,
             \A t \in Transaction : ledger[t] # None /\ ledger'[t] # None =>
                 ledger'[t] = ledger[t] \/ ledger'[t].verdict = Stale(ledger[t].verdict)
      PROVE  AllSettled(ledger', rules, reviews)
  <2>1. ASSUME NEW t \in Transaction, ~Undoings(reviews, t) PROVE Settled(ledger', rules, t)
    <3>1. Settled(ledger, rules, t)
      BY <2>1 DEF ForceInv, AllSettled
    <3>2. CASE ledger'[t] = None
      BY <3>2 DEF Settled
    <3>3. CASE ledger'[t] # None
      BY <1>1, <1>2, <3>1, <3>3, OutdatedSettled
    <3>4. QED
      BY <3>2, <3>3
  <2>2. QED
    BY <2>1 DEF AllSettled
<1>3. ASSUME NEW ts \in SUBSET Transaction, Delete(ts) PROVE AllSettled(ledger', rules, reviews)
  <2>1. /\ LedgerType(ledger')
        /\ \A t \in Transaction : ledger'[t] = IF t \in ts THEN None ELSE ledger[t]
    BY <1>1, <1>3, DeleteStep
  <2>2. QED
    BY <1>2, <2>1
<1>4. ASSUME NEW ts \in SUBSET Transaction, NEW c \in Correction, Edit(ts, c.columns, c.review)
      PROVE  AllSettled(ledger', rules, reviews)
  <2>1. LedgerType(ledger') /\ \A t \in Transaction : ledger[t] = None => ledger'[t] = None
    BY <1>1, <1>4, EditStep DEF Follows
  <2>2. \A t \in Transaction : ledger[t] # None =>
            ledger'[t] = ledger[t] \/ ledger'[t].verdict = Stale(ledger[t].verdict)
    BY <1>1, <1>4, EditStep
  <2>3. QED
    BY <1>2, <2>1, <2>2
<1>5. ASSUME NEW t \in Transaction, ReplaceSplits(t) PROVE AllSettled(ledger', rules, reviews)
  BY <1>1, <1>2, <1>5, SplitStep DEF Follows
<1>6. ASSUME NEW t \in Transaction, NEW u \in Transaction, ConfirmTransfer(t, u)
      PROVE  AllSettled(ledger', rules, reviews)
  <2>1. /\ LedgerType(ledger') /\ ledger[t] # None /\ ledger[u] # None
        /\ ledger'[t] = PairedRow(ledger[t], u) /\ ledger'[u] = PairedRow(ledger[u], t)
        /\ \A v \in Transaction \ {t, u} : ledger'[v] = ledger[v]
    BY <1>1, <1>6, TransferStep
  <2>2. ledger[t] \in Row /\ ledger[u] \in Row
    BY <1>1, <2>1 DEF LedgerType
  <2>3. /\ ledger'[t].verdict = Stale(ledger[t].verdict)
        /\ ledger'[u].verdict = Stale(ledger[u].verdict)
    <3>1. PairedRow(ledger[t], u).verdict = Stale(ledger[t].verdict)
      BY <2>2, PairedTyped
    <3>2. PairedRow(ledger[u], t).verdict = Stale(ledger[u].verdict)
      BY <2>2, PairedTyped
    <3>3. QED
      BY <2>1, <3>1, <3>2
  <2>4. \A v \in Transaction : ledger[v] = None => ledger'[v] = None
    BY <2>1
  <2>5. \A v \in Transaction : ledger[v] # None =>
            ledger'[v] = ledger[v] \/ ledger'[v].verdict = Stale(ledger[v].verdict)
    BY <2>1, <2>3
  <2>6. QED
    BY <1>2, <2>1, <2>4, <2>5
<1>7. QED
  BY <1>3, <1>4, <1>5, <1>6

\* Re-evaluating what the rule r matches now and matched before is enough.
LEMMA ReclassifiedSettled ==
    ASSUME NEW l, LedgerType(l), NEW rs, RulesType(rs), NEW more, RulesType(more), Typeless(more),
           NEW r, AgreeBut(rs, more, r), NEW ts, NEW t \in Transaction,
           l[t] # None /\ r \in Matching(l, rs, t) => t \in ts,
           l[t] # None /\ r \in Matching(l, more, t) => t \in ts,
           Settled(l, rs, t)
    PROVE  Settled(Classified(l, more, ts), more, t)
<1>1. t \in ts \/ Settled(l, more, t)
  <2>1. CASE l[t] = None
    BY <2>1 DEF Settled
  <2>2. CASE l[t] # None /\ t \notin ts
    BY <2>2, SettledAcross
  <2>3. QED
    BY <2>1, <2>2
<1>2. QED
  BY <1>1, ClassifiedSettled

LEMMA AppendedAgrees ==
    ASSUME NEW rs, RulesType(rs), NEW draft \in RuleRow
    PROVE  /\ AgreeBut(rs, Append(rs, draft), Len(rs) + 1)
           /\ draft.types = Type /\ Typeless(rs) => Typeless(Append(rs, draft))
           /\ \A l, t : Len(rs) + 1 \notin Matching(l, rs, t)
<1>1. PICK more : more = Append(rs, draft)
  OBVIOUS
<1>2. PICK n : n = Len(rs) + 1
  OBVIOUS
<1>3. /\ DOMAIN more = DOMAIN rs \cup {n} /\ n \notin DOMAIN rs /\ more[n] = draft
      /\ \A q \in DOMAIN rs : more[q] = rs[q]
  BY <1>1, <1>2, AppendedGrown
<1>4. AgreeBut(rs, more, n)
  BY <1>3 DEF AgreeBut, Alive
<1>5. draft.types = Type /\ Typeless(rs) => Typeless(more)
  BY <1>3 DEF Typeless, Alive
<1>6. \A l, t : n \notin Matching(l, rs, t)
  BY <1>3 DEF Matching
<1>7. QED
  BY <1>1, <1>2, <1>4, <1>5, <1>6

LEMMA AddedRuleSettled ==
    ASSUME NEW l, LedgerType(l), NEW rs, RulesType(rs), Typeless(rs), NEW draft \in RuleRow,
           draft.types = Type, NEW more, more = Append(rs, draft), NEW t \in Transaction,
           Settled(l, rs, t)
    PROVE  Settled(Classified(l, more, Matched(l, more, Len(more))), more, t)
<1>1. /\ RulesType(more) /\ AgreeBut(rs, more, Len(more)) /\ Typeless(more)
      /\ Len(more) \notin Matching(l, rs, t)
  <2>1. Len(more) = Len(rs) + 1
    BY AppendedGrown
  <2>2. QED
    BY <2>1, AppendedTyped, AppendedAgrees
<1>2. PICK ts : ts = Matched(l, more, Len(more))
  OBVIOUS
<1>3. l[t] # None /\ Len(more) \in Matching(l, more, t) => t \in ts
  BY <1>2 DEF Matched
<1>4. Settled(Classified(l, more, ts), more, t)
  BY <1>1, <1>3, ReclassifiedSettled
<1>5. QED
  BY <1>2, <1>4

RuleForce == Typeless(rules') /\ AllSettled(ledger', rules', reviews')

LEMMA CreateRuleForce ==
    ASSUME ForceInv, NEW draft \in Draft, draft.types = Type, CreateRule(draft)
    PROVE  RuleForce
<1>1. /\ TypeInv /\ RulesType(rules) /\ LedgerType(ledger) /\ Typeless(rules) /\ draft \in RuleRow
      /\ AllSettled(ledger, rules, reviews)
  BY LedgerAssumption DEF ForceInv, NamesInv, TypeInv
<1>2. /\ rules' = Append(rules, draft) /\ reviews' = reviews
      /\ ledger' = Classified(ledger, rules', Matched(ledger, rules', Len(rules')))
  BY DEF CreateRule
<1>3. Typeless(rules')
  BY <1>1, <1>2, AppendedAgrees
<1>4. PICK more : more = Append(rules, draft)
  OBVIOUS
<1>5. \A t \in Transaction : Settled(ledger, rules, t) =>
         Settled(Classified(ledger, more, Matched(ledger, more, Len(more))), more, t)
  BY <1>1, <1>4, AddedRuleSettled
<1>6. rules' = more /\ ledger' = Classified(ledger, more, Matched(ledger, more, Len(more)))
  BY <1>2, <1>4
<1>7. \A t \in Transaction : Settled(ledger, rules, t) => Settled(ledger', rules', t)
  BY <1>5, <1>6
<1>8. QED
  BY <1>1, <1>2, <1>3, <1>7 DEF AllSettled, RuleForce

LEMMA UpdateRuleForce ==
    ASSUME ForceInv, NEW draft \in Draft, draft.types = Type, NEW r \in Rule, UpdateRule(r, draft)
    PROVE  RuleForce
<1>1. /\ TypeInv /\ RulesType(rules) /\ LedgerType(ledger) /\ Typeless(rules) /\ draft # None
      /\ AllSettled(ledger, rules, reviews)
  BY LedgerAssumption DEF ForceInv, NamesInv, TypeInv
<1>2. RulesType(rules') /\ reviews' = reviews
  BY <1>1, UpdateRuleStep
<1>3. PICK more : more = [rules EXCEPT ![r] = draft]
  OBVIOUS
<1>4. rules' = more
  BY <1>3 DEF UpdateRule
<1>5. DOMAIN more = DOMAIN rules /\ more[r] = draft /\ \A q \in DOMAIN rules \ {r} : more[q] = rules[q]
  BY <1>1, <1>3 DEF RulesType, Rule
<1>6. AgreeBut(rules, more, r) /\ Typeless(more)
  BY <1>1, <1>5 DEF AgreeBut, Alive, Typeless
<1>7. PICK ts : ts = Matched(ledger, rules, r) \cup Matched(ledger, rules', r)
  OBVIOUS
<1>8. ledger' = Classified(ledger, more, ts)
  BY <1>4, <1>7 DEF UpdateRule
<1>9. ASSUME NEW t \in Transaction, Settled(ledger, rules, t) PROVE Settled(ledger', rules', t)
  <2>1. /\ ledger[t] # None /\ r \in Matching(ledger, rules, t) => t \in ts
        /\ ledger[t] # None /\ r \in Matching(ledger, more, t) => t \in ts
    BY <1>4, <1>7 DEF Matched
  <2>2. RulesType(more)
    BY <1>2, <1>4
  <2>3. Settled(Classified(ledger, more, ts), more, t)
    BY <1>1, <1>6, <1>9, <2>1, <2>2, ReclassifiedSettled
  <2>4. QED
    BY <1>4, <1>8, <2>3
<1>10. QED
  BY <1>1, <1>2, <1>4, <1>6, <1>9 DEF AllSettled, RuleForce

LEMMA DeleteRuleForce ==
    ASSUME ForceInv, NEW r \in Rule, DeleteRule(r)
    PROVE  RuleForce
<1>1. /\ TypeInv /\ RulesType(rules) /\ LedgerType(ledger) /\ Typeless(rules)
      /\ AllSettled(ledger, rules, reviews) /\ r \in Alive(rules)
  BY DEF ForceInv, NamesInv, TypeInv, Rule, Alive
<1>2. rules' = [rules EXCEPT ![r] = None] /\ ledger' = WithoutRule(ledger, r)
  BY DEF DeleteRule
<1>3. \A t \in Transaction : Settled(ledger, rules, t) => Settled(ledger', rules', t)
  BY <1>1, <1>2, WithoutRuleSettled
<1>4. Typeless(rules')
  <2>1. rules = [q \in DOMAIN rules |-> rules[q]]
    BY <1>1 DEF RulesType
  <2>2. DOMAIN rules' = DOMAIN rules /\ \A q \in DOMAIN rules : rules'[q] = IF q = r THEN None ELSE rules[q]
    BY <1>2, <2>1
  <2>3. QED
    BY <1>1, <2>2 DEF Typeless, Alive
<1>5. reviews' = [k \in DOMAIN reviews |->
          IF reviews[k].rule = r THEN [reviews[k] EXCEPT !.rule = None] ELSE reviews[k]]
  BY DEF DeleteRule
<1>6. \A t \in Transaction : Undoings(reviews, t) => Undoings(reviews', t)
  <2>1. \A k \in DOMAIN reviews : reviews[k] \in ReviewRow
    BY <1>1, ReviewFacts
  <2>2. \A k \in DOMAIN reviews :
           reviews'[k].before = reviews[k].before /\ (reviews[k].undone => reviews'[k].undone)
    BY <1>5, <2>1 DEF ReviewRow
  <2>3. DOMAIN reviews' = DOMAIN reviews
    BY <1>5
  <2>4. QED
    BY <2>2, <2>3 DEF Undoings
<1>7. QED
  BY <1>1, <1>3, <1>4, <1>6 DEF AllSettled, RuleForce

LEMMA ReorderForce ==
    ASSUME ForceInv, NEW place \in [Rule -> 1..Cardinality(Rule)], Reorder(place)
    PROVE  RuleForce
<1>1. /\ TypeInv /\ RulesType(rules) /\ LedgerType(ledger) /\ Typeless(rules)
  BY DEF ForceInv, NamesInv, TypeInv
<1>2. RulesType(rules')
  BY <1>1, ReorderStep
<1>3. rules' = [r \in DOMAIN rules |-> IF r \in Rule THEN Placed(rules[r], place[r]) ELSE None]
  BY DEF Reorder, Placed
<1>4. \A r \in Rule : rules[r] \in RuleRow /\ rules[r].types = Type
  BY <1>1 DEF Rule, RulesType, Typeless, Alive
<1>5. \A r \in Rule : Placed(rules[r], place[r]).types = Type
  BY <1>4 DEF Placed, RuleRow
<1>6. Typeless(rules')
  BY <1>3, <1>5 DEF Typeless, Alive
<1>7. PICK ts : ts = Booked
  OBVIOUS
<1>8. ledger' = Classified(ledger, rules', ts)
  BY <1>7 DEF Reorder
<1>9. ASSUME NEW t \in Transaction PROVE Settled(ledger', rules', t)
  <2>1. t \in ts \/ Settled(ledger, rules', t)
    BY <1>7 DEF Booked, Settled
  <2>2. Settled(Classified(ledger, rules', ts), rules', t)
    BY <1>1, <1>2, <1>6, <2>1, ClassifiedSettled
  <2>3. QED
    BY <1>8, <2>2
<1>10. QED
  BY <1>6, <1>9 DEF AllSettled, RuleForce

LEMMA RefreshedForce ==
    ASSUME ForceInv
    PROVE  AllSettled(Refreshed(ledger), rules, reviews)
<1>1. PICK ts : ts = {t \in Transaction : ledger[t] # None /\ ~Fresh(ledger[t])}
  OBVIOUS
<1>2. /\ RulesType(rules) /\ LedgerType(ledger) /\ Typeless(rules)
      /\ AllSettled(ledger, rules, reviews)
  BY DEF ForceInv, NamesInv, TypeInv
<1>3. \A t \in Transaction : Settled(ledger, rules, t) => Settled(Classified(ledger, rules, ts), rules, t)
  BY <1>2, ClassifiedSettled
<1>4. Refreshed(ledger) = Classified(ledger, rules, ts)
  BY <1>1 DEF Refreshed
<1>5. QED
  BY <1>2, <1>3, <1>4 DEF AllSettled

LEMMA SuggestForce ==
    ASSUME ForceInv, NEW t \in Transaction, NEW answer \in Action, Suggest(t, answer)
    PROVE  AllSettled(ledger', rules, reviews)
<1>1. /\ TypeInv /\ RulesType(rules) /\ LedgerType(ledger) /\ Typeless(rules)
      /\ AllSettled(ledger, rules, reviews)
  BY DEF ForceInv, NamesInv, TypeInv
<1>2. PICK l : /\ l = ledger \/ l = Classified(ledger, rules, {t})
               /\ LedgerType(l) /\ Follows(l, ledger', {})
               /\ \A u \in Transaction : l[u] # None =>
                     /\ ledger'[u].verdict = l[u].verdict /\ ledger'[u].split = l[u].split
                     /\ ledger'[u].pair = l[u].pair
  BY <1>1, SuggestShape
<1>3. ASSUME NEW u \in Transaction, ~Undoings(reviews, u) PROVE Settled(ledger', rules, u)
  <2>1. Settled(ledger, rules, u)
    BY <1>1, <1>3 DEF AllSettled
  <2>2. Settled(Classified(ledger, rules, {t}), rules, u)
    BY <1>1, <2>1, ClassifiedSettled
  <2>3. Settled(l, rules, u)
    BY <1>2, <2>1, <2>2
  <2>4. LedgerType(ledger') /\ (ledger'[u] # None => l[u] # None)
    BY <1>2 DEF Follows
  <2>5. QED
    BY <1>1, <1>2, <2>3, <2>4, SettledSame
<1>4. QED
  BY <1>3 DEF AllSettled

LEMMA DecideForce ==
    ASSUME ForceInv, NEW t \in Booked, NEW ts \in SUBSET Transaction, NEW decision \in Decision,
           NEW choice \in Suggestion \cup {None}, decision = "change" <=> choice # None,
           NEW remember \in BOOLEAN, Decide(t, ts, decision, choice, remember)
    PROVE  RuleForce
<1>1. /\ TypeInv /\ RulesType(rules) /\ LedgerType(ledger) /\ Typeless(rules)
  BY DEF ForceInv, NamesInv, TypeInv
<1>2. PICK shown, l, review :
          /\ shown = Refreshed(ledger) /\ LedgerType(shown) /\ LedgerType(l)
          /\ RulesType(rules')
          /\ DecidedFrom(shown, l, review) /\ AppliedTo(shown, l, ts, review)
  BY <1>1, DecideShape
<1>3. AllSettled(shown, rules, reviews)
  BY <1>2, RefreshedForce
<1>4. Typeless(rules') /\ \A u \in Transaction : Settled(shown, rules, u) => Settled(l, rules', u)
  <2>1. CASE rules' = rules /\ l = shown
    BY <1>1, <2>1
  <2>2. CASE /\ \E rule \in RuleRow : rule.types = Type /\ rules' = Append(rules, rule)
             /\ l = Classified(shown, rules', Matched(shown, rules', Len(rules')))
    <3>1. PICK rule \in RuleRow : rule.types = Type /\ rules' = Append(rules, rule)
      BY <2>2
    <3>2. PICK more : more = Append(rules, rule)
      OBVIOUS
    <3>3. \A u \in Transaction : Settled(shown, rules, u) =>
             Settled(Classified(shown, more, Matched(shown, more, Len(more))), more, u)
      BY <1>1, <1>2, <3>1, <3>2, AddedRuleSettled
    <3>4. rules' = more /\ l = Classified(shown, more, Matched(shown, more, Len(more)))
      BY <2>2, <3>1, <3>2
    <3>5. Typeless(rules')
      BY <1>1, <3>1, AppendedAgrees
    <3>6. QED
      BY <3>3, <3>4, <3>5
  <2>3. QED
    BY <1>2, <2>1, <2>2 DEF DecidedFrom
<1>5. ASSUME NEW u \in Transaction, Settled(l, rules', u) PROVE Settled(ledger', rules', u)
  <2>1. CASE u \in ts
    <3>1. ledger'[u].verdict.source = "manual"
      BY <1>2, <2>1 DEF AppliedTo
    <3>2. QED
      BY <3>1 DEF Settled, Verdicted
  <2>2. CASE u \notin ts
    <3>1. ledger'[u] = l[u] /\ LedgerType(ledger')
      BY <1>2, <2>2 DEF AppliedTo, Follows
    <3>2. QED
      BY <1>2, <1>4, <1>5, <3>1, SettledSame
  <2>3. QED
    BY <2>1, <2>2
<1>6. \A u \in Transaction : Undoings(reviews, u) => Undoings(reviews', u)
  <2>1. review \in ReviewRow /\ reviews' = Append(reviews, review)
    BY <1>2 DEF AppliedTo
  <2>2. DOMAIN reviews \subseteq DOMAIN reviews' /\ \A k \in DOMAIN reviews : reviews'[k] = reviews[k]
    BY <1>1, <2>1, ReviewAdded
  <2>3. QED
    BY <2>2 DEF Undoings
<1>7. QED
  BY <1>3, <1>4, <1>5, <1>6 DEF AllSettled, RuleForce

LEMMA UndoForce ==
    ASSUME ForceInv, NEW k \in DOMAIN reviews, Undo(k)
    PROVE  RuleForce
<1>1. /\ TypeInv /\ RulesType(rules) /\ LedgerType(ledger) /\ Typeless(rules)
      /\ AllSettled(ledger, rules, reviews) /\ ReviewsName(reviews, rules)
  BY DEF ForceInv, NamesInv, TypeInv
<1>2. PICK before : before = reviews[k].before
  OBVIOUS
<1>3. PICK r : r = reviews[k].rule
  OBVIOUS
<1>4. BeforeType(before) /\ r \in Alive(rules) \cup {None}
  BY <1>1, <1>2, <1>3, ReviewFacts DEF ReviewsName
<1>5. /\ rules' = IF r = None THEN rules ELSE [rules EXCEPT ![r] = None]
      /\ \A t \in DOMAIN before :
            /\ t \in Transaction /\ ledger[t] # None
            /\ ledger[t].pair # None => before[t].fields.type = "transfer"
  BY <1>2, <1>3 DEF Undo, Restorable, Booked
<1>6. Typeless(rules') /\ RulesType(rules')
  <2>1. CASE r = None
    BY <1>1, <1>5, <2>1
  <2>2. CASE r # None
    <3>1. RulesType(rules') /\ rules' = [rules EXCEPT ![r] = None]
      BY <1>1, <1>5, <2>2, RulesWithout
    <3>2. rules = [q \in DOMAIN rules |-> rules[q]]
      BY <1>1 DEF RulesType
    <3>3. DOMAIN rules' = DOMAIN rules
          /\ \A q \in DOMAIN rules : rules'[q] = IF q = r THEN None ELSE rules[q]
      BY <3>1, <3>2
    <3>4. QED
      BY <1>1, <3>1, <3>3 DEF Typeless, Alive
  <2>3. QED
    BY <2>1, <2>2
<1>7. /\ LedgerType(ledger') /\ LedgerType(BeforeRule(k))
      /\ \A t \in Transaction \ DOMAIN before : ledger'[t] = BeforeRule(k)[t]
      /\ reviews' = [reviews EXCEPT ![k].undone = TRUE, ![k].rule = None]
  BY <1>1, <1>2, UndoStep DEF Follows
<1>8. /\ DOMAIN reviews' = DOMAIN reviews
      /\ \A j \in DOMAIN reviews :
            /\ reviews'[j].before = reviews[j].before
            /\ j # k => reviews'[j] = reviews[j]
      /\ reviews'[k].undone
  BY <1>1, <1>7, UndoneReviews
<1>9. ASSUME NEW t \in Transaction, ~Undoings(reviews', t) PROVE Settled(ledger', rules', t)
  <2>1. t \notin DOMAIN before /\ ~Undoings(reviews, t)
    BY <1>2, <1>8, <1>9 DEF Undoings
  <2>2. Settled(ledger, rules, t)
    BY <1>1, <2>1 DEF AllSettled
  <2>3. Settled(BeforeRule(k), rules', t)
    <3>1. CASE r = None
      BY <1>3, <1>5, <2>2, <3>1 DEF BeforeRule
    <3>2. CASE r # None
      <4>1. PICK l : l = Restored(ledger, before)
        OBVIOUS
      <4>2. LedgerType(l) /\ l[t] = ledger[t]
        BY <1>1, <1>4, <1>5, <2>1, <4>1, RestoredFollows DEF Follows
      <4>3. Settled(l, rules, t)
        BY <1>1, <2>2, <4>2, SettledSame
      <4>4. Settled(WithoutRule(l, r), [rules EXCEPT ![r] = None], t)
        BY <1>1, <1>4, <3>2, <4>2, <4>3, WithoutRuleSettled
      <4>5. BeforeRule(k) = WithoutRule(l, r)
        BY <1>2, <1>3, <3>2, <4>1 DEF BeforeRule
      <4>6. QED
        BY <1>5, <3>2, <4>4, <4>5
    <3>3. QED
      BY <3>1, <3>2
  <2>4. QED
    BY <1>6, <1>7, <2>1, <2>3, SettledSame
<1>10. QED
  BY <1>6, <1>9 DEF AllSettled, RuleForce

DraftsTypeless == \A draft \in Draft : draft.types = Type

LEMMA ForceStep ==
    ASSUME ForceInv, DraftsTypeless, [Next]_vars
    PROVE  RuleForce
<1>1. Typeless(rules) /\ AllSettled(ledger, rules, reviews)
  BY DEF ForceInv
<1>2. ASSUME AllSettled(ledger', rules, reviews), rules' = rules, reviews' = reviews PROVE RuleForce
  BY <1>1, <1>2 DEF RuleForce
<1>3. ASSUME NEW t \in Transaction, Book(t) PROVE RuleForce
  <2>1. rules' = rules /\ reviews' = reviews
    BY <1>3 DEF Book
  <2>2. QED
    BY <1>2, <1>3, <2>1, BookForce
<1>4. ASSUME NEW ts \in SUBSET Transaction, Delete(ts) PROVE RuleForce
  <2>1. rules' = rules /\ reviews' = reviews
    BY <1>4 DEF Delete
  <2>2. QED
    BY <1>2, <1>4, <2>1, OutdatingSteps
<1>5. ASSUME NEW t \in Transaction, NEW u \in Transaction, ConfirmTransfer(t, u) PROVE RuleForce
  <2>1. rules' = rules /\ reviews' = reviews
    BY <1>5 DEF ConfirmTransfer
  <2>2. QED
    BY <1>2, <1>5, <2>1, OutdatingSteps
<1>6. ASSUME NEW ts \in (SUBSET Transaction) \ {{}}, NEW c \in Correction,
             Edit(ts, c.columns, c.review)
      PROVE  RuleForce
  <2>1. rules' = rules /\ reviews' = reviews
    BY <1>6 DEF Edit
  <2>2. QED
    BY <1>2, <1>6, <2>1, OutdatingSteps
<1>7. ASSUME NEW t \in Transaction, ReplaceSplits(t) PROVE RuleForce
  <2>1. rules' = rules /\ reviews' = reviews
    BY <1>7 DEF ReplaceSplits
  <2>2. QED
    BY <1>2, <1>7, <2>1, OutdatingSteps
<1>8. ASSUME Ruled PROVE RuleForce
  BY <1>8, CreateRuleForce, UpdateRuleForce, DeleteRuleForce, ReorderForce DEF Ruled, DraftsTypeless
<1>9. ASSUME ListGroups PROVE RuleForce
  <2>1. ledger' = Refreshed(ledger) /\ rules' = rules /\ reviews' = reviews
    BY <1>9 DEF ListGroups
  <2>2. QED
    BY <1>2, <2>1, RefreshedForce
<1>10. ASSUME NEW t \in Transaction, NEW answer \in Action, Suggest(t, answer) PROVE RuleForce
  <2>1. rules' = rules /\ reviews' = reviews
    BY <1>10 DEF Suggest
  <2>2. QED
    BY <1>2, <1>10, <2>1, SuggestForce
<1>11. ASSUME NEW t \in Booked, NEW ts \in SUBSET Transaction, NEW remember \in BOOLEAN,
              NEW decision \in Decision, NEW choice \in Suggestion \cup {None},
              decision = "change" <=> choice # None, Decide(t, ts, decision, choice, remember)
       PROVE  RuleForce
  BY <1>11, DecideForce
<1>12. \A choice \in Action : choice \in Suggestion /\ choice # None
  BY LedgerAssumption
<1>13. ASSUME Reviewed PROVE RuleForce
  <2>1. CASE \E t \in Booked, ts \in (SUBSET Transaction) \ {{}}, remember \in BOOLEAN :
                \E choice \in Action : Decide(t, ts, "change", choice, remember)
    BY <1>11, <1>12, <2>1 DEF Decision
  <2>2. CASE \E t \in Booked, ts \in (SUBSET Transaction) \ {{}}, remember \in BOOLEAN :
                \E decision \in {"accept", "ignore"} : Decide(t, ts, decision, None, remember)
    BY <1>11, <2>2 DEF Decision
  <2>3. QED
    BY <1>9, <1>10, <1>13, <2>1, <2>2, UndoForce DEF Reviewed
<1>14. ASSUME UNCHANGED vars PROVE RuleForce
  BY <1>1, <1>2, <1>14 DEF vars
<1>15. CASE Plain
  BY <1>6, <1>7, <1>8, <1>13, <1>14, <1>15 DEF Plain
<1>16. QED
  BY <1>3, <1>4, <1>5, <1>15, NextSplit

\* Where no rule asks for the type, the classifications are those of the rules
\* as they are now: re-evaluating what a changed rule matched is enough.
THEOREM RulesAreInForce == Spec => []RulesInForce
<1>1. DraftsTypeless /\ Init /\ NamesInv => ForceInv
  <2>1. ASSUME Init, NamesInv PROVE ForceInv
    <3>1. ledger = [t \in Transaction |-> None] /\ rules = <<>>
      BY <2>1 DEF Init
    <3>2. Typeless(rules) /\ AllSettled(ledger, rules, reviews)
      BY <3>1 DEF Typeless, Alive, AllSettled, Settled
    <3>3. QED
      BY <2>1, <3>2 DEF ForceInv
  <2>2. QED
    BY <2>1
<1>2. DraftsTypeless /\ ForceInv /\ NamesInv' /\ [Next]_vars => ForceInv'
  <2>1. ASSUME DraftsTypeless, ForceInv, NamesInv', [Next]_vars PROVE ForceInv'
    <3>1. RuleForce
      BY <2>1, ForceStep
    <3>2. QED
      BY <2>1, <3>1 DEF ForceInv, RuleForce, Typeless, AllSettled, Settled, Undoings, Alive
  <2>2. QED
    BY <2>1
<1>3. NamesInv /\ ForceInv => RulesInForce
  <2>1. ASSUME ForceInv PROVE RulesInForce
    <3>1. ASSUME NEW t \in Booked,
                 Fresh(ledger[t]) /\ ledger[t].pair = None /\ ledger[t].verdict.source # "manual",
                 \A k \in DOMAIN reviews : t \in DOMAIN reviews[k].before => ~reviews[k].undone
          PROVE  IF Matching(ledger, rules, t) = {}
                 THEN ledger[t].verdict.winner = None /\ ledger[t].verdict.conflicts = {}
                 ELSE ledger[t].verdict = ByRule(ledger, rules, t)
      <4>1. t \in Transaction /\ ledger[t] # None
        BY DEF Booked
      <4>2. Settled(ledger, rules, t)
        BY <2>1, <3>1, <4>1 DEF ForceInv, AllSettled, Undoings
      <4>3. Verdicted(ledger[t])
        BY <3>1 DEF Fresh, Verdicted
      <4>4. QED
        BY <4>1, <4>2, <4>3 DEF Settled
    <3>2. QED
      BY <3>1 DEF RulesInForce
  <2>2. QED
    BY <2>1
<1>4. ~DraftsTypeless => RulesInForce
  BY DEF RulesInForce, DraftsTypeless
<1>5. CASE ~DraftsTypeless
  BY <1>4, <1>5, PTL
<1>6. CASE DraftsTypeless
  <2>1. Init /\ NamesInv => ForceInv
    BY <1>1, <1>6
  <2>2. ForceInv /\ NamesInv' /\ [Next]_vars => ForceInv'
    BY <1>2, <1>6
  <2>3. Spec => []ForceInv
    BY <2>1, <2>2, NamesInvariant, PTL DEF Spec
  <2>4. QED
    BY <1>3, <2>3, NamesInvariant, PTL
<1>7. QED
  BY <1>5, <1>6

=============================================================================
