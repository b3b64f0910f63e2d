-------------------------- MODULE AnalyticsProofs --------------------------
(* Proofs about the workspace and its analytics: for any accounts, categories,  *)
(* transactions, imports and queries, and any sequence of changes, the          *)
(* categories stay a tree, the splits and the periods add up, and an answer     *)
(* served from the cache is the one a calculation would give.                   *)
EXTENDS Analytics, TLAPS, FiniteSetTheorems, WellFoundedInduction

\* A parent is a category there is.
ParentsKnown ==
    /\ parent \in [Category -> Category \cup {None}]
    /\ \A c \in Category : parent[c] \in known \cup {None}

TreeInv == ParentsKnown /\ CategoriesFormATree

LEMMA NoneIsNoCategory == None \notin Category
BY WorkspaceAssumption DEF Entity

\* Whatever has its parent below c, or at c, is below c.
LEMMA BelowIsClosed ==
    ASSUME NEW c \in Category, NEW e \in Category, parent[e] \in Below(c) \cup {c}
    PROVE  e \in Below(c)
<1> SUFFICES ASSUME NEW s \in SUBSET Category,
                    \A d \in Category : parent[d] \in s \cup {c} => d \in s
             PROVE  e \in s
  BY DEF Below
<1>1. Below(c) \subseteq s
  BY DEF Below
<1>2. QED
  BY <1>1

\* Of the categories in s outside of what is below c one has its parent outside of
\* s, if there are any.
LEMMA OutsideOfBelow ==
    ASSUME CategoriesFormATree, NEW c \in Category, NEW s \in SUBSET Category,
           NEW p \in s, p # c, p \notin Below(c)
    PROVE  \E e \in s : e \notin Below(c) \cup {c} /\ parent[e] \notin s \cup {c}
<1> DEFINE rest == s \ (Below(c) \cup {c})
<1>1. PICK e \in rest : parent[e] \notin rest
  BY DEF CategoriesFormATree
<1>2. parent[e] \notin Below(c) \cup {c}
  BY <1>1, BelowIsClosed
<1>3. QED
  BY <1>1, <1>2

LEMMA TreeCreate ==
    ASSUME TreeInv, NEW c \in Category, NEW p \in Category \cup {None}, NEW fs,
           CreateCategory(c, p, fs)
    PROVE  TreeInv'
<1>1. /\ c \notin known /\ known' = known \cup {c} /\ parent' = [parent EXCEPT ![c] = p]
      /\ p \in known \cup {None}
  BY DEF CreateCategory, Usable
<1>2. ParentsKnown'
  BY <1>1 DEF TreeInv, ParentsKnown
<1>3. ASSUME NEW s \in (SUBSET Category) \ {{}} PROVE \E e \in s : parent'[e] \notin s
  <2>1. p # c /\ c # None
    BY <1>1, NoneIsNoCategory
  <2>2. CASE s = {c}
    BY <1>1, <2>1, <2>2 DEF TreeInv, ParentsKnown
  <2>3. CASE s # {c}
    <3>1. PICK e \in s \ {c} : parent[e] \notin s \ {c}
      <4>1. s # {} /\ s \ {c} \in SUBSET Category
        OBVIOUS
      <4>2. PICK d : d \in s \ {c}
        BY <2>3, <4>1
      <4>3. s \ {c} # {}
        BY <4>2
      <4>4. QED
        BY <4>1, <4>3 DEF TreeInv, CategoriesFormATree
    <3>2. parent[e] # c /\ parent'[e] = parent[e]
      BY <1>1, <2>1, <3>1 DEF TreeInv, ParentsKnown
    <3>3. QED
      BY <3>1, <3>2
  <2>4. QED
    BY <2>2, <2>3
<1>4. QED
  BY <1>2, <1>3 DEF TreeInv, CategoriesFormATree

LEMMA TreeUpdate ==
    ASSUME TreeInv, NEW c \in Category, NEW edit, UpdateCategory(c, edit)
    PROVE  TreeInv'
<1>1. CASE parent' = parent
  BY <1>1 DEF UpdateCategory, TreeInv, ParentsKnown, CategoriesFormATree
<1>2. ASSUME NEW p \in (Category \cap known) \cup {None},
             p # None => p # c /\ p \notin Below(c), parent' = [parent EXCEPT ![c] = p]
      PROVE  TreeInv'
  <2>1. ParentsKnown'
    BY <1>2 DEF UpdateCategory, TreeInv, ParentsKnown
  <2>2. ASSUME NEW s \in (SUBSET Category) \ {{}} PROVE \E e \in s : parent'[e] \notin s
    <3>1. \A e \in Category : parent'[e] = IF e = c THEN p ELSE parent[e]
      BY <1>2 DEF TreeInv, ParentsKnown
    <3>2. CASE c \notin s
      BY <3>1, <3>2 DEF TreeInv, CategoriesFormATree
    <3>3. CASE c \in s /\ p \notin s
      BY <3>1, <3>3
    <3>4. CASE p \in s
      <4>1. PICK e \in s : e \notin Below(c) \cup {c} /\ parent[e] \notin s \cup {c}
        BY <1>2, <3>4, NoneIsNoCategory, OutsideOfBelow DEF TreeInv
      <4>2. QED
        BY <3>1, <4>1
    <3>5. QED
      BY <3>2, <3>3, <3>4
  <2>3. QED
    BY <2>1, <2>2 DEF TreeInv, CategoriesFormATree
<1>3. QED
  <2>1. CASE "parent" \in DOMAIN edit
    <3>1. parent' = [parent EXCEPT ![c] = edit.parent]
      BY <2>1 DEF UpdateCategory
    <3>2. edit.parent # None => ParentAllowed(c, edit.parent)
      BY <2>1 DEF UpdateCategory
    <3>3. QED
      BY <1>2, <3>1, <3>2 DEF ParentAllowed, Usable
  <2>2. CASE "parent" \notin DOMAIN edit
    BY <1>1, <2>2 DEF UpdateCategory
  <2>3. QED
    BY <2>1, <2>2

LEMMA TreeMerge ==
    ASSUME TreeInv, NEW c \in Category, NEW d \in Category, MergeCategory(c, d)
    PROVE  TreeInv'
<1>1. /\ d \in known /\ d # c /\ d \notin Below(c) /\ known' = known
      /\ parent' = [e \in Category |-> IF parent[e] = c THEN d ELSE parent[e]]
  BY DEF MergeCategory, ParentAllowed
<1>2. ParentsKnown'
  BY <1>1 DEF TreeInv, ParentsKnown
<1>3. ASSUME NEW s \in (SUBSET Category) \ {{}} PROVE \E e \in s : parent'[e] \notin s
  <2>1. CASE d \in s
    <3>1. PICK e \in s : e \notin Below(c) \cup {c} /\ parent[e] \notin s \cup {c}
      BY <1>1, <2>1, OutsideOfBelow DEF TreeInv
    <3>2. QED
      BY <1>1, <3>1
  <2>2. CASE d \notin s
    <3>1. PICK e \in s : parent[e] \notin s
      BY DEF TreeInv, CategoriesFormATree
    <3>2. QED
      BY <1>1, <2>2, <3>1
  <2>3. QED
    BY <2>1, <2>2
<1>4. QED
  BY <1>2, <1>3 DEF TreeInv, CategoriesFormATree
-----------------------------------------------------------------------------
(* The rows of the transactions and of the categories.                        *)
Columns == {"category", "type", "party", "scope", "manual", "confidence", "review",
            "pair", "splits", "original", "duplicates"}

\* A booked row: its columns, a category there may be, and parts that add up.
Sound(row, t) ==
    /\ DOMAIN row = Columns
    /\ row.category \in Category \cup {None}
    /\ row.scope \in Scope
    /\ row.splits \in Seq(Share)
    /\ row.splits # <<>> => Total(row.splits) = Bank[t].amount

RowsInv ==
    /\ books = [t \in Transaction |-> books[t]]
    /\ \A t \in Booked : Sound(books[t], t)

FlagsInv ==
    /\ flags = [c \in Category |-> flags[c]]
    /\ \A c \in Category : Consistent(flags[c])

\* Only the column that is set changes.
LEMMA SetColumn ==
    ASSUME NEW row, NEW column, NEW value, NEW t, Sound(row, t),
           column \in Columns \ {"category", "scope", "splits"}
    PROVE  Sound([row EXCEPT ![column] = value], t)
<1> DEFINE n == [row EXCEPT ![column] = value]
<1>1. DOMAIN n = Columns
  BY DEF Sound
<1>2. n.category = row.category /\ n.scope = row.scope /\ n.splits = row.splits
  BY DEF Sound, Columns
<1> HIDE DEF n
<1>3. Sound(n, t)
  BY <1>1, <1>2 DEF Sound
<1>4. QED
  BY <1>3 DEF n

LEMMA SetCategory ==
    ASSUME NEW row, NEW c \in Category \cup {None}, NEW t, Sound(row, t)
    PROVE  Sound([row EXCEPT !.category = c], t)
<1> DEFINE n == [row EXCEPT !.category = c]
<1>1. DOMAIN n = Columns
  BY DEF Sound
<1>2. n.category = c /\ n.scope = row.scope /\ n.splits = row.splits
  BY DEF Sound, Columns
<1> HIDE DEF n
<1>3. Sound(n, t)
  BY <1>1, <1>2 DEF Sound
<1>4. QED
  BY <1>3 DEF n

LEMMA SetSplits ==
    ASSUME NEW row, NEW splits \in Seq(Share), NEW t, Sound(row, t),
           splits # <<>> => Total(splits) = Bank[t].amount
    PROVE  Sound([row EXCEPT !.splits = splits], t)
<1> DEFINE n == [row EXCEPT !.splits = splits]
<1>1. DOMAIN n = Columns
  BY DEF Sound
<1>2. n.category = row.category /\ n.scope = row.scope /\ n.splits = splits
  BY DEF Sound, Columns
<1> HIDE DEF n
<1>3. Sound(n, t)
  BY <1>1, <1>2 DEF Sound
<1>4. QED
  BY <1>3 DEF n

LEMMA ConfirmedSound ==
    ASSUME NEW row, NEW t, Sound(row, t)
    PROVE  Sound(Confirmed(row), t)
<1> DEFINE manual == [row EXCEPT !["manual"] = TRUE]
           n == [manual EXCEPT !["confidence"] = "confirmed"]
<1>1. Confirmed(row) = n
  BY DEF Confirmed
<1>2. Sound(manual, t)
  BY ONLY Sound(row, t), SetColumn, "manual" \in Columns \ {"category", "scope", "splits"} DEF Columns
<1> HIDE DEF manual
<1>3. Sound(n, t)
  BY ONLY <1>2, SetColumn, "confidence" \in Columns \ {"category", "scope", "splits"} DEF Columns
<1>4. QED
  BY <1>1, <1>3

\* What a user or the classification may set of a row.
LEMMA OverlaySound ==
    ASSUME NEW row, NEW t, Sound(row, t), NEW edit \in TransactionEdit \cup Opinion
    PROVE  Sound(Overlay(edit, row), t)
<1> DEFINE n == Overlay(edit, row)
<1>1. DOMAIN n = Columns
  BY DEF Sound, Overlay
<1>2. n.splits = row.splits
  BY WorkspaceAssumption DEF Sound, Overlay, Columns
<1>3. n.category \in Category \cup {None}
  BY WorkspaceAssumption DEF Sound, Overlay, Columns
<1>4. n.scope \in Scope
  BY WorkspaceAssumption DEF Sound, Overlay, Columns
<1> HIDE DEF n
<1>5. Sound(n, t)
  BY <1>1, <1>2, <1>3, <1>4 DEF Sound
<1>6. QED
  BY <1>5 DEF n

\* A merge names another category in the parts; the amounts stay.
LEMMA RenamedSplits ==
    ASSUME NEW splits \in Seq(Share), NEW c, NEW d \in Category
    PROVE  /\ Renamed(splits, c, d) \in Seq(Share)
           /\ Renamed(splits, c, d) # <<>> => splits # <<>>
           /\ Total(Renamed(splits, c, d)) = Total(splits)
<1> DEFINE n == Renamed(splits, c, d)
<1>1. DOMAIN splits = 1..Len(splits) /\ Len(splits) \in Nat
      /\ \A k \in 1..Len(splits) : splits[k] \in Share
  OBVIOUS
<1>2. DOMAIN n = 1..Len(splits)
  BY <1>1 DEF Renamed
<1>3. ASSUME NEW k \in 1..Len(splits)
      PROVE  n[k] \in Share /\ n[k].amount = splits[k].amount
  <2>1. splits[k] \in Share
    BY <1>1
  <2>2. n[k] = IF splits[k].category = c THEN [splits[k] EXCEPT !.category = d] ELSE splits[k]
    BY <1>1 DEF Renamed
  <2>3. QED
    BY <2>1, <2>2 DEF Share
<1>4. n = [k \in 1..Len(splits) |-> n[k]]
  BY <1>1 DEF Renamed
<1>5. n \in Seq(Share)
  BY <1>1, <1>3, <1>4
<1>6. n # <<>> => splits # <<>>
  BY <1>1, <1>4
<1>7. [k \in DOMAIN n |-> n[k].amount] = [k \in DOMAIN splits |-> splits[k].amount]
  BY <1>1, <1>2, <1>3
<1>8. Total(n) = Total(splits)
  BY <1>7 DEF Total
<1>9. QED
  BY <1>5, <1>6, <1>8
\* One row changes, and stays sound.
LEMMA OneRow ==
    ASSUME RowsInv, NEW t \in Transaction, NEW row, Sound(row, t),
           books' = [books EXCEPT ![t] = row]
    PROVE  RowsInv'
BY DEF RowsInv, Booked

LEMMA RowsEdit ==
    ASSUME RowsInv, NEW ts, NEW edit \in TransactionEdit, Edit(ts, edit)
    PROVE  RowsInv'
<1>1. ASSUME NEW t \in ts PROVE Sound(Edited(books[t], edit), t)
  <2>1. Sound(books[t], t)
    BY DEF Edit, RowsInv, Booked
  <2>2. Sound(Overlay(edit, books[t]), t)
    BY <2>1, OverlaySound
  <2>3. QED
    BY <2>2, ConfirmedSound DEF Edited
<1>2. books' = [t \in Transaction |-> IF t \in ts THEN Edited(books[t], edit) ELSE books[t]]
  BY DEF Edit
<1>3. QED
  BY <1>1, <1>2 DEF RowsInv, Booked

LEMMA RowsSplits ==
    ASSUME RowsInv, NEW t \in Transaction, NEW splits \in Parting(t), ReplaceSplits(t, splits)
    PROVE  RowsInv'
<1> DEFINE parts == [Confirmed(books[t]) EXCEPT !.splits = splits]
           row == [parts EXCEPT !["review"] = "reviewed"]
<1>1. Sound(Confirmed(books[t]), t)
  BY ConfirmedSound DEF ReplaceSplits, RowsInv
<1>2. splits \in Seq(Share) /\ Total(splits) = Bank[t].amount
  BY WorkspaceAssumption DEF ReplaceSplits, ValidSplits
<1>3. Sound(parts, t)
  BY <1>1, <1>2, SetSplits
<1>4. books' = [books EXCEPT ![t] = row]
  BY DEF ReplaceSplits
<1> HIDE DEF parts
<1>5. Sound(row, t)
  BY ONLY <1>3, SetColumn, "review" \in Columns \ {"category", "scope", "splits"} DEF Columns
<1> HIDE DEF row
<1>6. QED
  BY <1>4, <1>5, OneRow

LEMMA SideSound ==
    ASSUME NEW row, NEW t, Sound(row, t), NEW w
    PROVE  Sound([Confirmed(row) EXCEPT !.type = "transfer", !.pair = w, !.review = "reviewed"], t)
<1> DEFINE a == [Confirmed(row) EXCEPT !["type"] = "transfer"]
           b == [a EXCEPT !["pair"] = w]
           c == [b EXCEPT !["review"] = "reviewed"]
<1>1. Sound(Confirmed(row), t)
  BY ConfirmedSound
<1>2. c = [Confirmed(row) EXCEPT !.type = "transfer", !.pair = w, !.review = "reviewed"]
  OBVIOUS
<1>3. Sound(a, t)
  BY ONLY <1>1, SetColumn, "type" \in Columns \ {"category", "scope", "splits"} DEF Columns
<1> HIDE DEF a
<1>4. Sound(b, t)
  BY ONLY <1>3, SetColumn, "pair" \in Columns \ {"category", "scope", "splits"} DEF Columns
<1> HIDE DEF b
<1>5. Sound(c, t)
  BY ONLY <1>4, SetColumn, "review" \in Columns \ {"category", "scope", "splits"} DEF Columns
<1>6. QED
  BY <1>2, <1>5

LEMMA RowsTransfer ==
    ASSUME RowsInv, NEW t \in Transaction, NEW u \in Transaction, ConfirmTransfer(t, u)
    PROVE  RowsInv'
<1> DEFINE side(v, w) == [Confirmed(books[v]) EXCEPT
               !.type = "transfer", !.pair = w, !.review = "reviewed"]
<1>1. Sound(side(t, u), t) /\ Sound(side(u, t), u)
  BY SideSound DEF ConfirmTransfer, RowsInv
<1>2. books' = [books EXCEPT ![t] = side(t, u), ![u] = side(u, t)]
  BY DEF ConfirmTransfer
<1> HIDE DEF side
<1>3. QED
  BY <1>1, <1>2 DEF RowsInv, Booked

LEMMA RowsReclassify ==
    ASSUME RowsInv, NEW t \in Transaction, NEW opinion \in Opinion, Reclassify(t, opinion)
    PROVE  RowsInv'
<1> DEFINE a == [Overlay(opinion, books[t]) EXCEPT !["confidence"] = "high"]
           row == [a EXCEPT !["review"] = "needs_review"]
<1>1. Sound(Overlay(opinion, books[t]), t)
  BY OverlaySound DEF Reclassify, RowsInv
<1>2. books' = [books EXCEPT ![t] = row]
  BY DEF Reclassify
<1>3. Sound(a, t)
  BY ONLY <1>1, SetColumn, "confidence" \in Columns \ {"category", "scope", "splits"} DEF Columns
<1> HIDE DEF a
<1>4. Sound(row, t)
  BY ONLY <1>3, SetColumn, "review" \in Columns \ {"category", "scope", "splits"} DEF Columns
<1> HIDE DEF row
<1>5. QED
  BY <1>2, <1>4, OneRow

LEMMA RowsMerge ==
    ASSUME RowsInv, NEW c \in Category, NEW d \in Category, MergeCategory(c, d)
    PROVE  RowsInv'
<1> DEFINE category(row) == IF row.category = c THEN d ELSE row.category
           a(row) == [row EXCEPT !.category = category(row)]
           b(row) == [a(row) EXCEPT !.splits = Renamed(row.splits, c, d)]
<1>1. ASSUME NEW t \in Booked PROVE Sound(b(books[t]), t)
  <2>1. Sound(books[t], t) /\ category(books[t]) \in Category \cup {None}
    BY DEF RowsInv, Sound
  <2> HIDE DEF category
  <2>2. Sound(a(books[t]), t)
    BY <2>1, SetCategory
  <2> HIDE DEF a
  <2> DEFINE splits == Renamed(books[t].splits, c, d)
  <2>3. splits \in Seq(Share) /\ (splits # <<>> => Total(splits) = Bank[t].amount)
    BY <2>1, RenamedSplits DEF Sound
  <2> HIDE DEF splits
  <2>4. Sound([a(books[t]) EXCEPT !.splits = splits], t)
    BY <2>2, <2>3, SetSplits
  <2>5. QED
    BY <2>4 DEF splits
<1>2. ASSUME NEW t \in Booked
      PROVE  b(books[t]) = [books[t] EXCEPT !.category = IF @ = c THEN d ELSE @,
                                            !.splits = Renamed(@, c, d)]
  <2>1. "splits" \in DOMAIN books[t] /\ "category" \in DOMAIN books[t]
    BY DEF RowsInv, Sound, Columns
  <2>2. QED
    BY <2>1
<1>3. books' = [t \in Transaction |-> IF t \notin Booked THEN None ELSE b(books[t])]
  BY <1>2 DEF MergeCategory
<1> HIDE DEF b
<1>4. QED
  BY <1>1, <1>3 DEF RowsInv, Booked

LEMMA RowsCommit ==
    ASSUME RowsInv, NEW i \in Import, Commit(i)
    PROVE  RowsInv'
<1> DEFINE row(t) == [books[t] EXCEPT !["duplicates"] = books[t].duplicates \cup {i}]
<1>1. ASSUME NEW t \in Transaction PROVE Sound(Fresh(i), t)
  BY WorkspaceAssumption DEF Fresh, Sound, Columns
<1>2. ASSUME NEW t \in Booked PROVE Sound(row(t), t)
  <2>1. Sound(books[t], t)
    BY DEF RowsInv
  <2>2. QED
    BY ONLY <2>1, SetColumn, "duplicates" \in Columns \ {"category", "scope", "splits"} DEF Columns
<1>3. books' = [t \in Transaction |-> IF t \notin Rows[i] THEN books[t]
                                      ELSE IF books[t] = None THEN Fresh(i) ELSE row(t)]
  BY DEF Commit, BookedBy
<1> HIDE DEF row
<1>4. QED
  BY <1>1, <1>2, <1>3 DEF RowsInv, Booked

LEMMA RowsDelete ==
    ASSUME RowsInv, NEW i \in Import, DeleteImport(i)
    PROVE  RowsInv' /\ i \in Committed /\ i \notin Committed'
<1> DEFINE original(t) == IF books[t].original = i THEN None ELSE books[t].original
           a(t) == [books[t] EXCEPT !["original"] = original(t)]
           row(t) == [a(t) EXCEPT !["duplicates"] = books[t].duplicates \ {i}]
<1>1. ASSUME NEW t \in Booked PROVE Sound(row(t), t) /\ i \notin Sources(row(t))
  <2>1. Sound(books[t], t)
    BY DEF RowsInv
  <2>2. Sound(a(t), t)
    BY <2>1, SetColumn DEF Columns
  <2>3. Sound(row(t), t)
    BY ONLY <2>2, SetColumn, "duplicates" \in Columns \ {"category", "scope", "splits"} DEF Columns
  <2>4. row(t).duplicates = books[t].duplicates \ {i} /\ row(t).original = original(t)
    BY <2>1 DEF Sound, Columns
  <2>5. i # None
    BY WorkspaceAssumption
  <2> HIDE DEF row
  <2>6. QED
    BY <2>3, <2>4, <2>5 DEF Sources
<1>2. ASSUME NEW t \in Booked
      PROVE  row(t) = [books[t] EXCEPT !.original = IF @ = i THEN None ELSE @,
                                       !.duplicates = @ \ {i}]
  <2>1. "original" \in DOMAIN books[t] /\ "duplicates" \in DOMAIN books[t]
    BY DEF RowsInv, Sound, Columns
  <2>2. QED
    BY <2>1
<1>3. books' = [t \in Transaction |-> IF t \notin Booked \ Orphans(i) THEN None ELSE row(t)]
  BY <1>2 DEF DeleteImport
<1> HIDE DEF row
<1>4. RowsInv'
  BY <1>1, <1>3 DEF RowsInv, Booked
<1>5. \A t \in Booked' : i \notin Sources(books'[t])
  BY <1>1, <1>3 DEF Booked
<1>6. QED
  BY <1>4, <1>5 DEF DeleteImport, Committed
LEMMA FlagsKept ==
    ASSUME FlagsInv, NEW c \in Category, Sorted
    PROVE  FlagsInv'
<1>1. ASSUME NEW d \in Category, NEW fs, Consistent(fs), flags' = [flags EXCEPT ![d] = fs]
      PROVE  FlagsInv'
  BY <1>1 DEF FlagsInv
<1>2. ASSUME NEW d \in Category, NEW p, NEW fs, CreateCategory(d, p, fs) PROVE FlagsInv'
  BY <1>1, <1>2 DEF CreateCategory
<1>3. ASSUME NEW d \in Category, NEW edit, UpdateCategory(d, edit) PROVE FlagsInv'
  BY <1>1, <1>3 DEF UpdateCategory
<1>4. ASSUME NEW d \in Category, NEW e \in Category, MergeCategory(d, e) PROVE FlagsInv'
  BY <1>4 DEF MergeCategory, FlagsInv
<1>5. QED
  BY <1>2, <1>3, <1>4 DEF Sorted

\* What holds of the workspace, whatever is asked of the analytics.
WorkspaceInv == TreeInv /\ RowsInv /\ FlagsInv

LEMMA WorkspaceStarts == WorkspaceInit => WorkspaceInv
<1> SUFFICES ASSUME WorkspaceInit PROVE WorkspaceInv
  OBVIOUS
<1>1. parent = [c \in Category |-> None]
  BY DEF WorkspaceInit
<1>2. ASSUME NEW s \in (SUBSET Category) \ {{}} PROVE \E e \in s : parent[e] \notin s
  <2>1. s # {} /\ s \subseteq Category
    OBVIOUS
  <2>2. PICK e : e \in s
    BY <2>1
  <2>3. parent[e] = None /\ None \notin s
    BY <1>1, <2>1, <2>2, NoneIsNoCategory
  <2>4. QED
    BY <2>2, <2>3
<1>3. TreeInv
  BY <1>1, <1>2 DEF TreeInv, ParentsKnown, CategoriesFormATree
<1>4. RowsInv
  BY DEF WorkspaceInit, RowsInv, Booked
<1>5. FlagsInv
  BY WorkspaceAssumption DEF WorkspaceInit, FlagsInv, Consistent
<1>6. QED
  BY <1>3, <1>4, <1>5 DEF WorkspaceInv

LEMMA WorkspaceStep ==
    ASSUME WorkspaceInv, WorkspaceNext
    PROVE  WorkspaceInv'
<1>1. ASSUME UNCHANGED parent, known \subseteq known' PROVE TreeInv'
  BY <1>1 DEF WorkspaceInv, TreeInv, ParentsKnown, CategoriesFormATree
<1>2. ASSUME UNCHANGED books PROVE RowsInv'
  BY <1>2 DEF WorkspaceInv, RowsInv, Booked
<1>3. ASSUME UNCHANGED flags PROVE FlagsInv'
  BY <1>3 DEF WorkspaceInv, FlagsInv
<1>4. CASE Arranged
  <2>1. UNCHANGED <<parent, flags, books>> /\ known \subseteq known'
    BY <1>4 DEF Arranged, CreateAccount, UpdateAccount, RegisterOwnedAccount,
                CreateCounterparty, UpdateCounterparty, tree
  <2>2. QED
    BY <1>1, <1>2, <1>3, <2>1 DEF WorkspaceInv
<1>5. CASE Sorted
  <2>1. TreeInv'
    BY <1>5, TreeCreate, TreeUpdate, TreeMerge DEF Sorted, WorkspaceInv
  <2>2. FlagsInv'
    BY <1>5, FlagsKept DEF Sorted, WorkspaceInv
  <2>3. RowsInv'
    BY <1>2, <1>5, RowsMerge DEF Sorted, WorkspaceInv, CreateCategory, UpdateCategory
  <2>4. QED
    BY <2>1, <2>2, <2>3 DEF WorkspaceInv
<1>6. CASE Worked
  <2>1. UNCHANGED <<parent, flags, known>>
    BY <1>6 DEF Worked, Edit, ReplaceSplits, ConfirmTransfer, Reclassify, tree, entities
  <2>2. RowsInv'
    BY <1>6, RowsEdit, RowsSplits, RowsTransfer, RowsReclassify DEF Worked, WorkspaceInv
  <2>3. QED
    BY <1>1, <1>3, <2>1, <2>2 DEF WorkspaceInv
<1>7. ASSUME NEW i \in Import, Commit(i) \/ DeleteImport(i) PROVE WorkspaceInv'
  <2>1. UNCHANGED <<parent, flags, known>>
    BY <1>7 DEF Commit, DeleteImport, tree, entities
  <2>2. RowsInv'
    BY <1>7, RowsCommit, RowsDelete DEF WorkspaceInv
  <2>3. QED
    BY <1>1, <1>3, <2>1, <2>2 DEF WorkspaceInv
<1>8. QED
  BY <1>4, <1>5, <1>6, <1>7 DEF WorkspaceNext

-----------------------------------------------------------------------------
(* What a change tells the analytics.                                          *)

\* A change names what it touches: everything, or the rows it changes, or nothing;
\* or it takes an import away, of which the cache learns nothing.
Announced(ts) ==
    /\ ts \subseteq Transaction
    /\ pending' = pending \cup {Moment(t) : t \in ts}
    /\ \A t \in Transaction \ ts : books'[t] = books[t]
    /\ UNCHANGED <<flags, named>>

Announcement ==
    \/ Everything \in pending'
    \/ \E ts \in SUBSET Transaction : Announced(ts)
    \/ ~(Committed \subseteq Committed')

LEMMA NothingTold ==
    ASSUME UNCHANGED <<books, flags, named>>, pending' = pending \cup {}
    PROVE  Announcement
<1>1. Announced({})
  BY DEF Announced
<1>2. QED
  BY <1>1 DEF Announcement

LEMMA EverythingTold ==
    ASSUME pending' = pending \cup {Everything}
    PROVE  Announcement
BY DEF Announcement

LEMMA ChangesAreAnnounced ==
    ASSUME WorkspaceInv, WorkspaceNext
    PROVE  Announcement
<1>1. CASE Arranged
  BY <1>1, NothingTold, EverythingTold
     DEF Arranged, CreateAccount, UpdateAccount, RegisterOwnedAccount, CreateCounterparty,
         UpdateCounterparty, Invalidate, tree
<1>2. CASE Sorted
  BY <1>2, EverythingTold DEF Sorted, CreateCategory, UpdateCategory, MergeCategory, Invalidate
<1>3. ASSUME NEW ts \in Selection, NEW edit \in TransactionEdit, Edit(ts, edit)
      PROVE  Announcement
  <2>1. ts \in SUBSET Transaction
    BY <1>3 DEF Edit, Booked
  <2>2. Announced(ts)
    BY <1>3, <2>1 DEF Edit, Announced, Invalidate, WorkspaceInv, RowsInv, tree, entities
  <2>3. QED
    BY <2>1, <2>2 DEF Announcement
<1>4. ASSUME NEW t \in Transaction, NEW splits, ReplaceSplits(t, splits)
      PROVE  Announcement
  <2>1. Announced({t})
    BY <1>4 DEF ReplaceSplits, Announced, Invalidate, WorkspaceInv, RowsInv, tree, entities
  <2>2. QED
    BY <2>1 DEF Announcement
<1>5. ASSUME NEW t \in Transaction, NEW u \in Transaction, ConfirmTransfer(t, u)
      PROVE  Announcement
  <2>1. Announced({t, u})
    BY <1>5 DEF ConfirmTransfer, Announced, Invalidate, WorkspaceInv, RowsInv, tree, entities
  <2>2. QED
    BY <2>1 DEF Announcement
<1>6. ASSUME NEW t \in Transaction, NEW opinion, Reclassify(t, opinion)
      PROVE  Announcement
  BY <1>6, EverythingTold DEF Reclassify, Invalidate
<1>7. ASSUME NEW i \in Import, Commit(i) PROVE Announcement
  BY <1>7, EverythingTold DEF Commit
<1>8. ASSUME NEW i \in Import, DeleteImport(i) PROVE Announcement
  BY <1>8, RowsDelete DEF WorkspaceInv, Announcement
<1>9. QED
  BY <1>1, <1>2, <1>3, <1>4, <1>5, <1>6, <1>7, <1>8 DEF WorkspaceNext, Worked
-----------------------------------------------------------------------------
(* The cache.                                                                  *)

\* A row that nobody touched makes the same allocations as before.
LEMMA SameAllocations ==
    ASSUME NEW t \in Transaction, books'[t] = books[t], UNCHANGED <<flags, named>>
    PROVE  {Allocation(t, k) : k \in DOMAIN Parts(t)}'
             = {Allocation(t, k) : k \in DOMAIN Parts(t)}
<1>1. Parts(t)' = Parts(t)
  BY DEF Parts
<1>2. ASSUME NEW part, NEW row, NEW f PROVE Has(part, row, f)' = Has(part, row, f)
  BY DEF Has
<1>3. ASSUME NEW k PROVE Allocation(t, k)' = Allocation(t, k)
  BY <1>1, <1>2 DEF Allocation
<1>4. QED
  BY <1>1, <1>3

\* So does a period in which no row was touched.
LEMMA SameContext ==
    ASSUME NEW q, NEW first, NEW last, NEW ts \in SUBSET Transaction,
           \A t \in Transaction \ ts : books'[t] = books[t], UNCHANGED <<flags, named>>,
           \A t \in ts : Bank[t].day \notin first..last
    PROVE  Context(q, first, last)' = Context(q, first, last)
<1> DEFINE parts(t) == {Allocation(t, k) : k \in DOMAIN Parts(t)}
           chosen == {u \in Booked : /\ Bank[u].account \in q.accounts
                                     /\ Bank[u].day \in first..last}
           rows == {a \in UNION {parts(t) : t \in chosen} : a.scope \in q.scopes}
<1>1. chosen' = chosen /\ chosen \subseteq Transaction \ ts
  BY DEF Booked
<1>2. \A t \in chosen : parts(t)' = parts(t)
  BY <1>1, SameAllocations
<1> HIDE DEF parts, chosen
<1>3. rows' = rows
  BY <1>1, <1>2
<1>4. Context(q, first, last)' =
        [rows |-> rows', days |-> last + 1 - first, inclusive |-> ~q.excludeInternal,
         accounts |-> q.accounts, whole |-> q.scopes = Scope]
  BY DEF Context, rows, parts, chosen
<1>5. Context(q, first, last) =
        [rows |-> rows, days |-> last + 1 - first, inclusive |-> ~q.excludeInternal,
         accounts |-> q.accounts, whole |-> q.scopes = Scope]
  BY DEF Context, rows, parts, chosen
<1> HIDE DEF rows
<1>6. QED
  BY <1>3, <1>4, <1>5

\* A calculation is the metric of the period and what it was in the one before.
Result(q, id) == Metric(id, CurrentContext(q))
Comparison(q, id) ==
    IF q.comparison = "none" THEN None
    ELSE Compared(Result(q, id), Metric(id, PreviousContext(q)))

LEMMA SameResults ==
    ASSUME NEW q \in Query, CurrentContext(q)' = CurrentContext(q), NEW id \in q.metrics
    PROVE  /\ Calculated(q)'[id].result = Calculated(q)[id].result
           /\ PreviousContext(q)' = PreviousContext(q) \/ q.comparison = "none"
                => Calculated(q)'[id] = Calculated(q)[id]
<1>1. Calculated(q)[id] = [result |-> Result(q, id), comparison |-> Comparison(q, id)]
  BY DEF Calculated, Result, Comparison
<1>2. Calculated(q)'[id] = [result |-> Result(q, id)', comparison |-> Comparison(q, id)']
  BY DEF Calculated, Result, Comparison
<1>3. Result(q, id)' = Result(q, id)
  BY DEF Result
<1>4. PreviousContext(q)' = PreviousContext(q) \/ q.comparison = "none"
        => Comparison(q, id)' = Comparison(q, id)
  BY <1>3 DEF Comparison
<1>5. QED
  BY <1>1, <1>2, <1>3, <1>4

\* What an invalidation in the period, or an import, left of the answers is current.
LEMMA KeptAnswersStay ==
    ASSUME NEW q \in Query, NEW ts \in SUBSET Transaction, AnswersAreCurrent,
           q \in Kept \ unaware,
           \A t \in Transaction \ ts : books'[t] = books[t], UNCHANGED <<flags, named>>,
           \A t \in ts : Bank[t].day \notin q.first..q.last,
           cache'[q] = cache[q],
           q \notin overtaken' =>
               /\ q \notin overtaken
               /\ \/ q.comparison = "none"
                  \/ \A t \in ts : Bank[t].day \notin Before(q).first..Before(q).last
    PROVE  LET now == Calculated(q)' IN
             \A id \in q.metrics : /\ cache'[q][id].result = now[id].result
                                   /\ q \notin overtaken' => cache'[q][id] = now[id]
<1>1. CurrentContext(q)' = CurrentContext(q)
  BY SameContext DEF CurrentContext
<1>2. ASSUME q \notin overtaken', NEW id \in q.metrics
      PROVE  Calculated(q)'[id] = Calculated(q)[id]
  <2>1. CASE q.comparison = "none"
    BY <1>1, <2>1, SameResults
  <2>2. CASE q.comparison # "none"
    <3>1. PreviousContext(q)' = PreviousContext(q)
      BY <1>2, <2>2, SameContext DEF PreviousContext
    <3>2. QED
      BY <1>1, <3>1, SameResults
  <2>3. QED
    BY <2>1, <2>2
<1>3. \A id \in q.metrics : /\ cache[q][id].result = Calculated(q)[id].result
                            /\ q \notin overtaken => cache[q][id] = Calculated(q)[id]
  BY DEF AnswersAreCurrent
<1>4. \A id \in q.metrics : Calculated(q)'[id].result = Calculated(q)[id].result
  BY <1>1, SameResults
<1>5. QED
  BY <1>2, <1>3, <1>4

LEMMA UntouchedAnswersStay ==
    ASSUME NEW q \in Query, AnswersAreCurrent, q \in Kept \ unaware,
           UNCHANGED <<books, flags, named>>, cache'[q] = cache[q],
           q \notin overtaken' => q \notin overtaken
    PROVE  LET now == Calculated(q)' IN
             \A id \in q.metrics : /\ cache'[q][id].result = now[id].result
                                   /\ q \notin overtaken' => cache'[q][id] = now[id]
<1> DEFINE ts == {}
<1>1. ts \in SUBSET Transaction /\ \A t \in ts : FALSE
  OBVIOUS
<1>2. \A t \in Transaction \ ts : books'[t] = books[t]
  OBVIOUS
<1> HIDE DEF ts
<1>3. QED
  BY <1>1, <1>2, KeptAnswersStay

LEMMA AskedStaysCurrent ==
    ASSUME AnswersAreCurrent, NEW asked \in SUBSET Query,
           pending' = {}, UNCHANGED <<books, flags, named>>,
           \A r \in Query : cache'[r] = IF r \in Kept THEN cache[r]
                                       ELSE IF r \in asked THEN Calculated(r) ELSE None,
           unaware' = unaware \cap Kept, overtaken' = overtaken \cap Kept
    PROVE  AnswersAreCurrent'
<1> SUFFICES ASSUME NEW q \in Query, q \in Kept' \ unaware'
             PROVE  LET now == Calculated(q)' IN
                      \A id \in q.metrics : /\ cache'[q][id].result = now[id].result
                                            /\ q \notin overtaken' => cache'[q][id] = now[id]
  BY DEF AnswersAreCurrent, Kept
<1>1. cache'[q] # None
  BY DEF Kept
<1>2. CASE q \in Kept
  <2>1. q \in Kept \ unaware /\ cache'[q] = cache[q]
        /\ (q \notin overtaken' => q \notin overtaken)
    BY <1>2
  <2>2. QED
    BY <2>1, UntouchedAnswersStay
<1>3. CASE q \notin Kept
  <2>1. cache'[q] = Calculated(q)
    BY <1>1, <1>3
  <2>2. /\ CurrentContext(q)' = CurrentContext(q)
        /\ PreviousContext(q)' = PreviousContext(q)
    <3> DEFINE ts == {}
    <3>1. ts \in SUBSET Transaction /\ \A t \in ts : FALSE
      OBVIOUS
    <3>2. \A t \in Transaction \ ts : books'[t] = books[t]
      OBVIOUS
    <3> HIDE DEF ts
    <3>3. QED
      BY <3>1, <3>2, SameContext DEF CurrentContext, PreviousContext
  <2>3. QED
    BY <2>1, <2>2, SameResults
<1>4. QED
  BY <1>2, <1>3

LEMMA ChangedStaysCurrent ==
    ASSUME WorkspaceInv, AnswersAreCurrent, Change
    PROVE  AnswersAreCurrent'
<1> SUFFICES ASSUME NEW q \in Query, q \in Kept' \ unaware'
             PROVE  LET now == Calculated(q)' IN
                      \A id \in q.metrics : /\ cache'[q][id].result = now[id].result
                                            /\ q \notin overtaken' => cache'[q][id] = now[id]
  BY DEF AnswersAreCurrent, Kept
<1>1. cache' = cache /\ cache[q] # None /\ ~Evicted(q)'
  BY DEF Kept, Change
<1>2. Announcement
  BY ChangesAreAnnounced DEF Change
<1>3. Everything \notin pending'
  BY <1>1 DEF Evicted, Everything
<1>4. Committed \subseteq Committed' /\ unaware' = unaware
  BY <1>1 DEF Change
<1>5. PICK ts \in SUBSET Transaction : Announced(ts)
  BY <1>2, <1>3, <1>4 DEF Announcement
<1>6. ~Evicted(q)
  BY <1>1, <1>5 DEF Evicted, Announced
<1>7. \A t \in ts : Bank[t].day \notin q.first..q.last
  <2> SUFFICES ASSUME NEW t \in ts PROVE Bank[t].day \notin q.first..q.last
    OBVIOUS
  <2>1. Moment(t) \in pending' /\ Moment(t).day = Bank[t].day
    BY <1>5 DEF Announced, Moment
  <2>2. ~(q.first <= Bank[t].day /\ q.last + 1 > Bank[t].day)
    BY <1>1, <2>1 DEF Evicted
  <2>3. Bank[t].day \in Int /\ q.first \in Int /\ q.last \in Int
    BY WorkspaceAssumption, AnalyticsAssumption
  <2>4. QED
    BY <2>2, <2>3
<1>8. ASSUME q \notin overtaken'
      PROVE  /\ q \notin overtaken
             /\ \/ q.comparison = "none"
                \/ \A t \in ts : Bank[t].day \notin Before(q).first..Before(q).last
  <2>1. \A t \in ts : Moment(t) \in pending' /\ Moment(t).day = Bank[t].day
    BY <1>5 DEF Announced, Moment
  <2>2. QED
    BY <1>1, <1>8, <2>1 DEF Change
<1>9. q \in Kept \ unaware
  BY <1>1, <1>4, <1>6 DEF Kept
<1>10. QED
  BY <1>1, <1>5, <1>7, <1>8, <1>9, KeptAnswersStay DEF Announced

\* What is left alone by asking.
LEMMA AskingChangesNothing ==
    ASSUME WorkspaceInv, UNCHANGED <<entities, tree, books>>
    PROVE  WorkspaceInv'
BY DEF WorkspaceInv, TreeInv, ParentsKnown, CategoriesFormATree, RowsInv, Booked, Sound,
       FlagsInv, entities, tree

\* The invariant holds in every state of the workspace and its analytics.
THEOREM AnalyticsInvariant == Spec => [](WorkspaceInv /\ AnswersAreCurrent)
<1>1. Init => WorkspaceInv /\ AnswersAreCurrent
  BY WorkspaceStarts DEF Init, AnswersAreCurrent, Kept
<1>2. WorkspaceInv /\ AnswersAreCurrent /\ [Next]_vars
        => WorkspaceInv' /\ AnswersAreCurrent'
  <2> SUFFICES ASSUME WorkspaceInv, AnswersAreCurrent, [Next]_vars
               PROVE  WorkspaceInv' /\ AnswersAreCurrent'
    OBVIOUS
  <2>1. CASE Change
    BY <2>1, WorkspaceStep, ChangedStaysCurrent DEF Change
  <2>2. ASSUME NEW q \in Query, Ask(q) PROVE WorkspaceInv' /\ AnswersAreCurrent'
    <3>1. UNCHANGED <<entities, tree, books>> /\ UNCHANGED <<books, flags, named>>
      BY <2>2 DEF Ask, entities, tree
    <3>2. \A r \in Query : cache'[r] = IF r \in Kept THEN cache[r]
                                      ELSE IF r \in {q} THEN Calculated(r) ELSE None
      BY <2>2 DEF Ask
    <3>3. AnswersAreCurrent'
      BY <2>2, <3>1, <3>2, AskedStaysCurrent, {q} \in SUBSET Query DEF Ask
    <3>4. QED
      BY <3>1, <3>3, AskingChangesNothing
  <2>3. ASSUME NEW q \in Query, AskAfresh(q) PROVE WorkspaceInv' /\ AnswersAreCurrent'
    <3>1. UNCHANGED <<entities, tree, books>> /\ UNCHANGED <<books, flags, named>>
      BY <2>3 DEF AskAfresh, entities, tree
    <3>2. \A r \in Query : cache'[r] = IF r \in Kept THEN cache[r]
                                      ELSE IF r \in {} THEN Calculated(r) ELSE None
      BY <2>3 DEF AskAfresh
    <3>3. AnswersAreCurrent'
      BY <2>3, <3>1, <3>2, AskedStaysCurrent, {} \in SUBSET Query DEF AskAfresh
    <3>4. QED
      BY <3>1, <3>3, AskingChangesNothing
  <2>4. CASE UNCHANGED vars
    <3>1. UNCHANGED <<entities, tree, books, pending, cache, unaware, overtaken, flags, named>>
      BY <2>4 DEF vars, workspace, tree, entities
    <3>2. WorkspaceInv'
      BY <3>1, AskingChangesNothing
    <3>3. \A q \in Query : Evicted(q)' = Evicted(q)
      BY <3>1 DEF Evicted
    <3>4. Kept' = Kept
      BY <3>1, <3>3 DEF Kept
    <3>5. \A q \in Kept \ unaware : q \in Query
      BY DEF Kept
    <3>6. AnswersAreCurrent'
      <4> SUFFICES ASSUME NEW q \in Query, q \in Kept \ unaware
                   PROVE  LET now == Calculated(q)' IN
                            \A id \in q.metrics :
                               /\ cache'[q][id].result = now[id].result
                               /\ q \notin overtaken' => cache'[q][id] = now[id]
        BY <3>1, <3>4, <3>5 DEF AnswersAreCurrent
      <4>1. QED
        BY <3>1, UntouchedAnswersStay
    <3>7. QED
      BY <3>2, <3>6
  <2>5. QED
    BY <2>1, <2>2, <2>3, <2>4 DEF Next
<1>3. QED
  BY <1>1, <1>2, PTL DEF Spec

\* #validateCategoryParent keeps the categories a tree: without a cycle its own
\* recursive query ends, and so do those of the analytics.
THEOREM CategoriesStayATree == Spec => []CategoriesFormATree
BY AnalyticsInvariant, PTL DEF WorkspaceInv, TreeInv

\* For any queries, periods and rows: an answer from analytics_metric_cache is what a
\* calculation would give now.  Every method tells metric_invalidations enough, and
\* #consumeInvalidations evicts enough, but for deleted imports and, in the
\* comparison, the rows of the period compared with.
THEOREM AnswersStayCurrent == Spec => []AnswersAreCurrent
BY AnalyticsInvariant, PTL

\* replaceSplits and mergeCategory: the parts of a split are what the bank booked, for
\* any parts and any merges of their categories.
THEOREM SplitsStayWhole == Spec => []SplitsAddUp
<1>1. WorkspaceInv => SplitsAddUp
  BY DEF WorkspaceInv, RowsInv, Sound, SplitsAddUp
<1>2. QED
  BY <1>1, AnalyticsInvariant, PTL
\* assertCategoryFlags: nothing spent is counted as essential and as discretionary.
THEOREM NeverTwiceSpent == Spec => []NoneTwiceSpent
<1>1. ASSUME RowsInv, FlagsInv, NEW t \in Booked, NEW k \in DOMAIN Parts(t)
      PROVE  ~({"essential", "discretionary"} \subseteq Allocation(t, k).flags)
  <2> SUFFICES ASSUME {"essential", "discretionary"} \subseteq Allocation(t, k).flags
               PROVE  FALSE
    OBVIOUS
  <2> DEFINE part == Parts(t)[k]
             c == IF part.category # None THEN part.category ELSE books[t].category
  <2>1. Sound(books[t], t)
    BY <1>1 DEF RowsInv
  <2>2. part.category \in Category \cup {None}
    <3>1. CASE books[t].splits # <<>>
      <4>1. part \in Share
        BY <2>1, <3>1 DEF Sound, Parts
      <4>2. QED
        BY <4>1 DEF Share
    <3>2. CASE books[t].splits = <<>>
      BY <2>1, <3>2 DEF Sound, Parts
    <3>3. QED
      BY <3>1, <3>2
  <2>3. Allocation(t, k).flags = {f \in Flag : Has(part, books[t], f)}
    BY DEF Allocation
  <2> HIDE DEF part
  <2>4. Has(part, books[t], "essential") /\ Has(part, books[t], "discretionary")
    BY <2>3
  <2>5. c # None /\ {"essential", "discretionary"} \subseteq flags[c]
    BY <2>4 DEF Has
  <2>6. c \in Category
    BY <2>1, <2>2, <2>5 DEF Sound
  <2>7. QED
    BY <1>1, <2>5, <2>6 DEF FlagsInv, Consistent
<1>2. WorkspaceInv => NoneTwiceSpent
  <2> SUFFICES ASSUME WorkspaceInv, NEW q \in Query, NEW r \in SpendingRows(CurrentContext(q))
               PROVE  ~({"essential", "discretionary"} \subseteq r.flags)
    BY DEF NoneTwiceSpent
  <2>1. r \in CurrentContext(q).rows
    BY DEF SpendingRows
  <2>2. PICK t \in Booked : r \in {Allocation(t, k) : k \in DOMAIN Parts(t)}
    BY <2>1 DEF CurrentContext, Context
  <2>3. QED
    BY <1>1, <2>2 DEF WorkspaceInv
<1>3. QED
  BY <1>2, AnalyticsInvariant, PTL
-----------------------------------------------------------------------------
(* Sums.  The folds of the model are recursive functions over the subsets of a  *)
(* set; their laws follow by finite induction, from the library's               *)
(* well-foundedness of strict inclusion.                                        *)

AnyOf(s) == CHOOSE x \in s : TRUE

\* g is the function that a sum of f over S is read from.
Adds(f, S, g) ==
    g = [s \in SUBSET S |-> IF s = {} THEN 0 ELSE f[AnyOf(s)] + g[s \ {AnyOf(s)}]]

SumOver(f, S) == (CHOOSE g : Adds(f, S, g))[S]

IntsOn(f, S) == \A x \in S : f[x] \in Int
Alike(e, f, S) == \A x \in S : e[x] = f[x]

LEMMA FamilyHasMinimal ==
    ASSUME NEW S, IsFiniteSet(S), NEW F, F \subseteq SUBSET S, F # {}
    PROVE  \E T \in F : \A U \in F : ~(U \subseteq T /\ U # T)
<1>1. F \subseteq FiniteSubsetsOf(S)
  BY FS_Subset DEF FiniteSubsetsOf
<1>2. PICK T \in F : \A U \in F : <<U, T>> \notin StrictSubsetOrdering(S)
  BY <1>1, FS_StrictSubsetOrderingWellFounded, WFMin
<1>3. QED
  BY <1>2 DEF StrictSubsetOrdering

LEMMA AnyOfIn == ASSUME NEW s, s # {} PROVE AnyOf(s) \in s
BY DEF AnyOf

LEMMA AddsAt ==
    ASSUME NEW f, NEW S, NEW g, Adds(f, S, g), NEW s \in SUBSET S
    PROVE  g[s] = IF s = {} THEN 0 ELSE f[AnyOf(s)] + g[s \ {AnyOf(s)}]
<1>1. PICK h : h = [u \in SUBSET S |-> IF u = {} THEN 0 ELSE f[AnyOf(u)] + g[u \ {AnyOf(u)}]]
  OBVIOUS
<1>2. h[s] = IF s = {} THEN 0 ELSE f[AnyOf(s)] + g[s \ {AnyOf(s)}]
  BY <1>1
<1>3. g = h
  BY <1>1 DEF Adds
<1>4. QED
  BY <1>2, <1>3

\* Two such functions agree where what they add agrees.
LEMMA AddsAgree ==
    ASSUME NEW S, NEW T, NEW e, NEW f, NEW g, NEW h, NEW U, U \subseteq S, U \subseteq T,
           IsFiniteSet(U), Adds(e, S, g), Adds(f, T, h), Alike(e, f, U)
    PROVE  g[U] = h[U]
<1>1. PICK F : F = {V \in SUBSET U : g[V] # h[V]}
  OBVIOUS
<1> SUFFICES ASSUME F # {} PROVE FALSE
  BY <1>1
<1>2. PICK V \in F : \A W \in F : ~(W \subseteq V /\ W # V)
  BY <1>1, FamilyHasMinimal
<1>3. V \subseteq U /\ g[V] # h[V]
  BY <1>1
<1>4. CASE V = {}
  <2>1. V \in SUBSET S /\ V \in SUBSET T
    BY <1>4
  <2>2. g[V] = 0
    BY <1>4, <2>1, AddsAt
  <2>3. h[V] = 0
    BY <1>4, <2>1, AddsAt
  <2>4. QED
    BY <1>3, <2>2, <2>3
<1>5. CASE V # {}
  <2>1. AnyOf(V) \in V
    BY <1>5, AnyOfIn
  <2>2. g[V \ {AnyOf(V)}] = h[V \ {AnyOf(V)}]
    BY <1>1, <1>2, <1>3, <2>1
  <2>3. V \in SUBSET S /\ V \in SUBSET T
    BY <1>3
  <2>4. g[V] = e[AnyOf(V)] + g[V \ {AnyOf(V)}]
    BY <1>5, <2>3, AddsAt
  <2>5. h[V] = f[AnyOf(V)] + h[V \ {AnyOf(V)}]
    BY <1>5, <2>3, AddsAt
  <2>6. QED
    BY <1>3, <2>1, <2>2, <2>4, <2>5 DEF Alike
<1>6. QED
  BY <1>4, <1>5

\* What a sum is when there is a function to read it from.
LEMMA SumFrom ==
    ASSUME NEW f, NEW S, NEW g, Adds(f, S, g), IsFiniteSet(S), NEW T \in SUBSET S,
           \E h : Adds(f, T, h)
    PROVE  SumOver(f, T) = g[T]
<1>1. PICK h : h = CHOOSE k : Adds(f, T, k)
  OBVIOUS
<1>2. Adds(f, T, h)
  BY <1>1
<1>3. IsFiniteSet(T) /\ T \subseteq T /\ T \subseteq S /\ Alike(f, f, T)
  BY FS_Subset DEF Alike
<1>4. h[T] = g[T]
  BY <1>2, <1>3, AddsAgree
<1>5. QED
  BY <1>1, <1>4 DEF SumOver

LEMMA AddsExists ==
    ASSUME NEW f, NEW S, IsFiniteSet(S)
    PROVE  \E g : Adds(f, S, g)
<1>1. PICK F : F = {T \in SUBSET S : ~\E g : Adds(f, T, g)}
  OBVIOUS
<1>0. F \subseteq SUBSET S
  BY <1>1
<1> SUFFICES ASSUME F # {} PROVE FALSE
  BY <1>1
<1>2. PICK T \in F : \A U \in F : ~(U \subseteq T /\ U # T)
  BY <1>0, FamilyHasMinimal
<1>3. T \subseteq S /\ ~\E g : Adds(f, T, g)
  BY <1>1
<1>4. \A U \in SUBSET T : U # T => \E g : Adds(f, U, g)
  BY <1>1, <1>2, <1>3
<1>5. PICK g : g = [s \in SUBSET T |->
                       IF s = {} THEN 0 ELSE f[AnyOf(s)] + SumOver(f, s \ {AnyOf(s)})]
  OBVIOUS
<1>6. ASSUME NEW u \in SUBSET T, u # T PROVE g[u] = SumOver(f, u)
  <2>1. PICK h : Adds(f, u, h)
    BY <1>4, <1>6
  <2>2. IsFiniteSet(u) /\ u \in SUBSET u
    BY <1>3, FS_Subset
  <2>3. SumOver(f, u) = h[u]
    BY <2>1, <2>2, SumFrom
  <2>4. h[u] = IF u = {} THEN 0 ELSE f[AnyOf(u)] + h[u \ {AnyOf(u)}]
    BY <2>1, <2>2, AddsAt
  <2>5. ASSUME u # {} PROVE h[u \ {AnyOf(u)}] = SumOver(f, u \ {AnyOf(u)})
    <3>1. PICK v : v = u \ {AnyOf(u)}
      OBVIOUS
    <3>2. v \in SUBSET u /\ v \in SUBSET T /\ v # T
      BY <3>1, <2>5, AnyOfIn
    <3>3. \E k : Adds(f, v, k)
      BY <3>2, <1>4
    <3>4. SumOver(f, v) = h[v]
      BY <2>1, <2>2, <3>2, <3>3, SumFrom
    <3>5. QED
      BY <3>1, <3>4
  <2>6. g[u] = IF u = {} THEN 0 ELSE f[AnyOf(u)] + SumOver(f, u \ {AnyOf(u)})
    BY <1>5
  <2>7. QED
    BY <2>3, <2>4, <2>5, <2>6
<1>7. \A s \in SUBSET T : s # {} => g[s \ {AnyOf(s)}] = SumOver(f, s \ {AnyOf(s)})
  <2> SUFFICES ASSUME NEW s \in SUBSET T, s # {}
               PROVE  g[s \ {AnyOf(s)}] = SumOver(f, s \ {AnyOf(s)})
    OBVIOUS
  <2>1. s \ {AnyOf(s)} \in SUBSET T /\ s \ {AnyOf(s)} # T
    BY AnyOfIn
  <2>2. QED
    BY <1>6, <2>1
<1>8. PICK k : k = [s \in SUBSET T |-> IF s = {} THEN 0 ELSE f[AnyOf(s)] + g[s \ {AnyOf(s)}]]
  OBVIOUS
<1>9. g = k
  BY <1>5, <1>7, <1>8
<1>10. Adds(f, T, g)
  BY <1>8, <1>9 DEF Adds
<1>11. QED
  BY <1>3, <1>10

LEMMA SumEmpty == ASSUME NEW f PROVE SumOver(f, {}) = 0
<1>1. PICK g : Adds(f, {}, g)
  BY FS_EmptySet, AddsExists
<1>2. SumOver(f, {}) = g[{}] /\ g[{}] = 0
  BY <1>1, FS_EmptySet, SumFrom, AddsAt
<1>3. QED
  BY <1>2

LEMMA SumStep ==
    ASSUME NEW f, NEW S, IsFiniteSet(S), S # {}
    PROVE  SumOver(f, S) = f[AnyOf(S)] + SumOver(f, S \ {AnyOf(S)})
<1>1. PICK g : Adds(f, S, g)
  BY AddsExists
<1>2. PICK T : T = S \ {AnyOf(S)}
  OBVIOUS
<1>3. IsFiniteSet(T) /\ T \in SUBSET S /\ S \in SUBSET S
  BY <1>2, FS_Subset
<1>4. (\E h : Adds(f, T, h)) /\ (\E h : Adds(f, S, h))
  BY <1>1, <1>3, AddsExists
<1>5. SumOver(f, S) = g[S] /\ SumOver(f, T) = g[T]
  BY <1>1, <1>3, <1>4, SumFrom
<1>6. g[S] = f[AnyOf(S)] + g[T]
  BY <1>1, <1>2, <1>3, AddsAt
<1>7. QED
  BY <1>2, <1>5, <1>6

LEMMA SumAgrees ==
    ASSUME NEW e, NEW f, NEW S, IsFiniteSet(S), Alike(e, f, S)
    PROVE  SumOver(e, S) = SumOver(f, S)
<1>1. PICK g : Adds(e, S, g)
  BY AddsExists
<1>2. PICK h : Adds(f, S, h)
  BY AddsExists
<1>3. S \subseteq S
  OBVIOUS
<1>0. g[S] = h[S]
  BY <1>1, <1>2, <1>3, AddsAgree
<1>4. SumOver(e, S) = g[S] /\ SumOver(f, S) = h[S]
  BY <1>1, <1>2, SumFrom
<1>5. QED
  BY <1>0, <1>4

LEMMA SumIsInt ==
    ASSUME NEW f, NEW S, IsFiniteSet(S), IntsOn(f, S)
    PROVE  SumOver(f, S) \in Int
<1>1. PICK F : F = {T \in SUBSET S : SumOver(f, T) \notin Int}
  OBVIOUS
<1>0. F \subseteq SUBSET S
  BY <1>1
<1> SUFFICES ASSUME F # {} PROVE FALSE
  BY <1>1
<1>2. PICK T \in F : \A U \in F : ~(U \subseteq T /\ U # T)
  BY <1>0, FamilyHasMinimal
<1>3. T \subseteq S /\ SumOver(f, T) \notin Int /\ IsFiniteSet(T)
  BY <1>1, FS_Subset
<1>4. T # {}
  BY <1>3, SumEmpty
<1>5. AnyOf(T) \in T
  BY <1>4, AnyOfIn
<1>6. SumOver(f, T \ {AnyOf(T)}) \in Int
  BY <1>1, <1>2, <1>3, <1>5
<1>7. f[AnyOf(T)] \in Int
  BY <1>3, <1>5 DEF IntsOn
<1>8. SumOver(f, T) = f[AnyOf(T)] + SumOver(f, T \ {AnyOf(T)})
  BY <1>3, <1>4, SumStep
<1>9. QED
  BY <1>3, <1>6, <1>7, <1>8

\* Any member may be added last.
LEMMA SumWithout ==
    ASSUME NEW f, NEW S, IsFiniteSet(S), IntsOn(f, S), NEW x \in S
    PROVE  SumOver(f, S) = f[x] + SumOver(f, S \ {x})
<1> DEFINE Any(T) == \A y \in T : SumOver(f, T) = f[y] + SumOver(f, T \ {y})
<1>1. PICK F : F = {T \in SUBSET S : ~Any(T)}
  OBVIOUS
<1>2. F \subseteq SUBSET S
  BY <1>1
<1> SUFFICES ASSUME F # {} PROVE FALSE
  BY <1>1
<1>3. PICK T \in F : \A U \in F : ~(U \subseteq T /\ U # T)
  BY <1>2, FamilyHasMinimal
<1>4. T \subseteq S /\ ~Any(T) /\ IsFiniteSet(T)
  BY <1>1, FS_Subset
<1>5. \A U \in SUBSET T : U # T => Any(U)
  BY <1>1, <1>3, <1>4
<1>6. PICK y \in T : SumOver(f, T) # f[y] + SumOver(f, T \ {y})
  BY <1>4
<1>7. PICK c : c = AnyOf(T)
  OBVIOUS
<1>8. c \in T /\ T # {}
  BY <1>6, <1>7, AnyOfIn
<1>9. SumOver(f, T) = f[c] + SumOver(f, T \ {c})
  BY <1>4, <1>7, <1>8, SumStep
<1>10. c # y
  BY <1>6, <1>9
<1>11. PICK R : R = T \ {c, y}
  OBVIOUS
<1>12. SumOver(f, T \ {c}) = f[y] + SumOver(f, R)
  <2>1. PICK A : A = T \ {c}
    OBVIOUS
  <2>2. A \in SUBSET T /\ A # T /\ y \in A /\ A \ {y} = R
    BY <1>8, <1>10, <1>11, <2>1
  <2>3. Any(A)
    BY <1>5, <2>2
  <2>4. QED
    BY <2>1, <2>2, <2>3
<1>13. SumOver(f, T \ {y}) = f[c] + SumOver(f, R)
  <2>1. PICK A : A = T \ {y}
    OBVIOUS
  <2>2. A \in SUBSET T /\ A # T /\ c \in A /\ A \ {c} = R
    BY <1>8, <1>10, <1>11, <2>1
  <2>3. Any(A)
    BY <1>5, <2>2
  <2>4. QED
    BY <2>1, <2>2, <2>3
<1>14. f[c] \in Int /\ f[y] \in Int
  BY <1>4, <1>8, <1>6 DEF IntsOn
<1>15. SumOver(f, R) \in Int
  <2>1. IsFiniteSet(R) /\ IntsOn(f, R)
    BY <1>4, <1>11, FS_Subset DEF IntsOn
  <2>2. QED
    BY <2>1, SumIsInt
<1>16. f[c] + (f[y] + SumOver(f, R)) = f[y] + (f[c] + SumOver(f, R))
  BY <1>14, <1>15
<1>17. QED
  BY <1>6, <1>9, <1>12, <1>13, <1>16

\* A set in two parts.
LEMMA SumInTwo ==
    ASSUME NEW f, NEW A, NEW B, IsFiniteSet(A), IsFiniteSet(B), A \cap B = {},
           IntsOn(f, A \cup B)
    PROVE  SumOver(f, A \cup B) = SumOver(f, A) + SumOver(f, B)
<1>1. PICK F : F = {T \in SUBSET A : SumOver(f, T \cup B) # SumOver(f, T) + SumOver(f, B)}
  OBVIOUS
<1>2. F \subseteq SUBSET A
  BY <1>1
<1> SUFFICES ASSUME F # {} PROVE FALSE
  BY <1>1
<1>3. PICK T \in F : \A U \in F : ~(U \subseteq T /\ U # T)
  BY <1>2, FamilyHasMinimal
<1>4. T \subseteq A /\ IsFiniteSet(T) /\ SumOver(f, T \cup B) # SumOver(f, T) + SumOver(f, B)
  BY <1>1, FS_Subset
<1>5. SumOver(f, B) \in Int
  BY SumIsInt DEF IntsOn
<1>6. T # {}
  <2>1. {} \cup B = B
    OBVIOUS
  <2>2. QED
    BY <1>4, <1>5, <2>1, SumEmpty
<1>7. PICK x \in T : TRUE
  BY <1>6
<1>8. PICK U : U = T \ {x}
  OBVIOUS
<1>9. U \subseteq T /\ U # T /\ U \in SUBSET A
  BY <1>4, <1>8
<1>10. SumOver(f, U \cup B) = SumOver(f, U) + SumOver(f, B)
  BY <1>1, <1>3, <1>9
<1>11. IntsOn(f, T) /\ SumOver(f, T) = f[x] + SumOver(f, U)
  <2>1. IntsOn(f, T)
    BY <1>4 DEF IntsOn
  <2>2. QED
    BY <1>4, <1>8, <2>1, SumWithout
<1>12. SumOver(f, T \cup B) = f[x] + SumOver(f, U \cup B)
  <2>1. PICK V : V = T \cup B
    OBVIOUS
  <2>2. IsFiniteSet(V) /\ IntsOn(f, V) /\ x \in V /\ V \ {x} = U \cup B
    BY <1>4, <1>8, <2>1, FS_Union DEF IntsOn
  <2>3. SumOver(f, V) = f[x] + SumOver(f, V \ {x})
    BY <2>2, SumWithout
  <2>4. QED
    BY <2>1, <2>2, <2>3
<1>13. f[x] \in Int /\ SumOver(f, U) \in Int
  <2>1. IsFiniteSet(U) /\ IntsOn(f, U)
    BY <1>4, <1>9, <1>11, FS_Subset DEF IntsOn
  <2>2. QED
    BY <1>11, <2>1, SumIsInt DEF IntsOn
<1>14. QED
  BY <1>4, <1>5, <1>10, <1>11, <1>12, <1>13

\* The images of the members of a set, each of them with one sign.
LEMMA SumOfImages ==
    ASSUME NEW f, NEW g, NEW S, NEW h, NEW sign \in {1, -1}, IsFiniteSet(S), IntsOn(f, S),
           \A x, y \in S : h[x] = h[y] => x = y,
           \A x \in S : g[h[x]] = IF sign = 1 THEN f[x] ELSE -f[x]
    PROVE  /\ IsFiniteSet({h[x] : x \in S})
           /\ SumOver(g, {h[x] : x \in S})
                = IF sign = 1 THEN SumOver(f, S) ELSE -SumOver(f, S)
<1> DEFINE Image(T) == {h[x] : x \in T}
           Value(T) == IF sign = 1 THEN SumOver(f, T) ELSE -SumOver(f, T)
<1>1. PICK F : F = {T \in SUBSET S : ~(IsFiniteSet(Image(T)) /\ SumOver(g, Image(T)) = Value(T))}
  OBVIOUS
<1>2. F \subseteq SUBSET S
  BY <1>1
<1> SUFFICES ASSUME F # {} PROVE FALSE
  BY <1>1
<1>3. PICK T \in F : \A U \in F : ~(U \subseteq T /\ U # T)
  BY <1>2, FamilyHasMinimal
<1>4. T \subseteq S /\ IsFiniteSet(T) /\ ~(IsFiniteSet(Image(T)) /\ SumOver(g, Image(T)) = Value(T))
  BY <1>1, FS_Subset
<1>5. T # {}
  <2>1. Image({}) = {}
    OBVIOUS
  <2>2. QED
    BY <1>4, <2>1, SumEmpty, FS_EmptySet
<1>6. PICK x \in T : TRUE
  BY <1>5
<1>7. PICK U : U = T \ {x}
  OBVIOUS
<1>8. U \subseteq T /\ U # T /\ U \in SUBSET S
  BY <1>4, <1>7
<1>9. IsFiniteSet(Image(U)) /\ SumOver(g, Image(U)) = Value(U)
  BY <1>1, <1>3, <1>8
<1>10. IntsOn(f, T) /\ SumOver(f, T) = f[x] + SumOver(f, U)
  <2>1. IntsOn(f, T)
    BY <1>4 DEF IntsOn
  <2>2. QED
    BY <1>4, <1>7, <2>1, SumWithout
<1>11. f[x] \in Int /\ SumOver(f, U) \in Int
  <2>1. IsFiniteSet(U) /\ IntsOn(f, U)
    BY <1>4, <1>8, <1>10, FS_Subset DEF IntsOn
  <2>2. QED
    BY <1>10, <2>1, SumIsInt DEF IntsOn
<1>12. IsFiniteSet(Image(T)) /\ SumOver(g, Image(T)) = g[h[x]] + SumOver(g, Image(U))
  <2>1. PICK V : V = Image(T)
    OBVIOUS
  <2>2. V = Image(U) \cup {h[x]}
    BY <1>6, <1>7, <2>1
  <2>3. IsFiniteSet(V)
    BY <1>9, <2>2, FS_AddElement
  <2>4. IntsOn(g, V)
    BY <1>4, <1>10, <2>1 DEF IntsOn
  <2>5. h[x] \in V /\ V \ {h[x]} = Image(U)
    BY <1>4, <1>6, <1>7, <2>1
  <2>6. SumOver(g, V) = g[h[x]] + SumOver(g, V \ {h[x]})
    BY <2>3, <2>4, <2>5, SumWithout
  <2>7. QED
    BY <2>1, <2>3, <2>5, <2>6
<1>13. g[h[x]] = IF sign = 1 THEN f[x] ELSE -f[x]
  BY <1>4
<1>14. SumOver(g, Image(T)) = Value(T)
  BY <1>9, <1>10, <1>11, <1>12, <1>13
<1>15. QED
  BY <1>4, <1>12, <1>14
-----------------------------------------------------------------------------
(* What came in less what went out.                                            *)
LEMMA SumOfIsSumOver == ASSUME NEW f PROVE SumOf(f) = SumOver(f, DOMAIN f)
BY DEF SumOf, MapThenSumSet, MapThenFoldSet, SumOver, Adds, AnyOf

\* The net of rows, and of what the bank booked, as sums of a function.
LEMMA NetIsSum ==
    ASSUME NEW S, NEW f, IsFiniteSet(S), \A r \in S : f[r] = Signed(r)
    PROVE  Net(S) = SumOver(f, S)
<1>1. PICK g : Adds(f, S, g)
  BY AddsExists
<1>2. \A s \in SUBSET S : s # {} => f[AnyOf(s)] = Signed(AnyOf(s))
  BY AnyOfIn
<1>3. g = [s \in SUBSET S |-> IF s = {} THEN 0
                              ELSE LET x == CHOOSE x \in s : TRUE IN Signed(x) + g[s \ {x}]]
  BY <1>1, <1>2 DEF Adds, AnyOf
<1>4. ASSUME NEW h,
             h = [s \in SUBSET S |-> IF s = {} THEN 0
                              ELSE LET x == CHOOSE x \in s : TRUE IN Signed(x) + h[s \ {x}]]
      PROVE  h[S] = SumOver(f, S)
  <2>1. Adds(f, S, h)
    BY <1>2, <1>4 DEF Adds, AnyOf
  <2>2. S \in SUBSET S
    OBVIOUS
  <2>3. QED
    BY <2>1, <2>2, SumFrom
<1>5. QED
  BY <1>3, <1>4 DEF Net, MapThenSumSet, MapThenFoldSet

LEMMA BookedIsSum ==
    ASSUME NEW S, NEW f, IsFiniteSet(S), \A t \in S : f[t] = Signed(Bank[t])
    PROVE  MapThenSumSet(LAMBDA t : Signed(Bank[t]), S) = SumOver(f, S)
<1>1. PICK g : Adds(f, S, g)
  BY AddsExists
<1>2. \A s \in SUBSET S : s # {} => f[AnyOf(s)] = Signed(Bank[AnyOf(s)])
  BY AnyOfIn
<1>3. g = [s \in SUBSET S |-> IF s = {} THEN 0
                  ELSE LET x == CHOOSE x \in s : TRUE IN Signed(Bank[x]) + g[s \ {x}]]
  BY <1>1, <1>2 DEF Adds, AnyOf
<1>4. ASSUME NEW h,
             h = [s \in SUBSET S |-> IF s = {} THEN 0
                  ELSE LET x == CHOOSE x \in s : TRUE IN Signed(Bank[x]) + h[s \ {x}]]
      PROVE  h[S] = SumOver(f, S)
  <2>1. Adds(f, S, h)
    BY <1>2, <1>4 DEF Adds, AnyOf
  <2>2. S \in SUBSET S
    OBVIOUS
  <2>3. QED
    BY <2>1, <2>2, SumFrom
<1>5. QED
  BY <1>3, <1>4 DEF MapThenSumSet, MapThenFoldSet

Allocations(t) == {Allocation(t, k) : k \in DOMAIN Parts(t)}
AllocationsOf(ts) == UNION {Allocations(t) : t \in ts}

\* The parts of a booked transaction are as much as the bank booked.
LEMMA PartsAddUp ==
    ASSUME RowsInv, NEW t \in Booked
    PROVE  /\ IsFiniteSet(DOMAIN Parts(t))
           /\ \A k \in DOMAIN Parts(t) : Parts(t)[k].amount \in Int /\ Parts(t)[k].scope \in Scope
           /\ SumOver([k \in DOMAIN Parts(t) |-> Parts(t)[k].amount], DOMAIN Parts(t))
                = Bank[t].amount
<1>1. Sound(books[t], t) /\ Bank[t].amount \in Int
  BY WorkspaceAssumption DEF RowsInv, Booked
<1>2. ASSUME books[t].splits # <<>>
      PROVE  /\ IsFiniteSet(DOMAIN Parts(t))
             /\ \A k \in DOMAIN Parts(t) : Parts(t)[k].amount \in Int /\ Parts(t)[k].scope \in Scope
             /\ SumOver([k \in DOMAIN Parts(t) |-> Parts(t)[k].amount], DOMAIN Parts(t))
                  = Bank[t].amount
  <2>1. PICK parts \in Seq(Share) : parts = books[t].splits
    BY <1>1 DEF Sound
  <2>2. Parts(t) = parts /\ Total(parts) = Bank[t].amount
    BY <1>1, <1>2, <2>1 DEF Parts, Sound
  <2>3. DOMAIN parts = 1..Len(parts) /\ Len(parts) \in Nat
    BY <2>1
  <2>4. IsFiniteSet(DOMAIN parts)
    BY <2>3, FS_Interval
  <2>5. \A k \in DOMAIN parts : parts[k] \in Share
    BY <2>1
  <2>6. PICK amounts : amounts = [k \in DOMAIN parts |-> parts[k].amount]
    OBVIOUS
  <2>7. DOMAIN amounts = DOMAIN parts /\ SumOf(amounts) = Bank[t].amount
    BY <2>2, <2>6 DEF Total
  <2>8. SumOver(amounts, DOMAIN parts) = Bank[t].amount
    BY <2>7, SumOfIsSumOver
  <2>9. QED
    BY <2>2, <2>4, <2>5, <2>6, <2>8 DEF Share
<1>3. ASSUME books[t].splits = <<>>
      PROVE  /\ IsFiniteSet(DOMAIN Parts(t))
             /\ \A k \in DOMAIN Parts(t) : Parts(t)[k].amount \in Int /\ Parts(t)[k].scope \in Scope
             /\ SumOver([k \in DOMAIN Parts(t) |-> Parts(t)[k].amount], DOMAIN Parts(t))
                  = Bank[t].amount
  <2>1. PICK part : part = [category |-> books[t].category, amount |-> Bank[t].amount,
                            scope |-> books[t].scope]
    OBVIOUS
  <2>2. part.amount = Bank[t].amount /\ part.scope \in Scope
    BY <1>1, <2>1 DEF Sound
  <2>3. Parts(t) = <<part>>
    BY <1>3, <2>1 DEF Parts
  <2>4. DOMAIN Parts(t) = {1} /\ Parts(t)[1] = part
    BY <2>3
  <2>5. PICK amounts : amounts = [k \in DOMAIN Parts(t) |-> Parts(t)[k].amount]
    OBVIOUS
  <2>6. amounts[1] = Bank[t].amount
    BY <2>2, <2>4, <2>5
  <2>7. IsFiniteSet({1}) /\ {1} \ {1} = {}
    BY FS_Singleton
  <2>8. SumOver(amounts, {1}) = amounts[1] + SumOver(amounts, {1} \ {1})
    BY <1>1, <2>6, <2>7, SumWithout DEF IntsOn
  <2>9. SumOver(amounts, {1}) = Bank[t].amount
    BY <1>1, <2>6, <2>7, <2>8, SumEmpty
  <2>10. QED
    BY <1>1, <2>2, <2>4, <2>5, <2>7, <2>9
<1>4. QED
  BY <1>2, <1>3

\* So are its allocations, each with the sign of the transaction.
LEMMA AllocationsAddUp ==
    ASSUME RowsInv, NEW t \in Booked, NEW f, \A a \in Allocations(t) : f[a] = Signed(a)
    PROVE  /\ IsFiniteSet(Allocations(t))
           /\ \A a \in Allocations(t) : a.of = t /\ a.scope \in Scope /\ Signed(a) \in Int
           /\ SumOver(f, Allocations(t)) = Signed(Bank[t])
<1>1. PICK K : K = DOMAIN Parts(t)
  OBVIOUS
<1>2. PICK amounts : amounts = [k \in K |-> Parts(t)[k].amount]
  OBVIOUS
<1>3. /\ IsFiniteSet(K) /\ IntsOn(amounts, K) /\ SumOver(amounts, K) = Bank[t].amount
      /\ \A k \in K : Parts(t)[k].scope \in Scope
  BY <1>1, <1>2, PartsAddUp DEF IntsOn
<1>4. PICK h : h = [k \in K |-> Allocation(t, k)]
  OBVIOUS
<1>5. Allocations(t) = {h[k] : k \in K}
  BY <1>1, <1>4 DEF Allocations
<1>6. ASSUME NEW k \in K
      PROVE  /\ h[k].of = t /\ h[k].part = k /\ h[k].scope \in Scope
             /\ h[k].amount = amounts[k] /\ h[k].direction = Bank[t].direction
  <2>1. h[k] = Allocation(t, k)
    BY <1>4
  <2>2. QED
    BY <1>2, <1>3, <2>1 DEF Allocation
<1>7. \A k, l \in K : h[k] = h[l] => k = l
  BY <1>6
<1>8. PICK sign \in {1, -1} : sign = 1 <=> Bank[t].direction = "credit"
  OBVIOUS
<1>9. \A k \in K : Signed(h[k]) = IF sign = 1 THEN amounts[k] ELSE -amounts[k]
  BY <1>6, <1>8 DEF Signed
<1>10. \A k \in K : f[h[k]] = IF sign = 1 THEN amounts[k] ELSE -amounts[k]
  BY <1>5, <1>9
<1>11. /\ IsFiniteSet(Allocations(t))
       /\ SumOver(f, Allocations(t)) = IF sign = 1 THEN Bank[t].amount ELSE -Bank[t].amount
  BY <1>3, <1>5, <1>7, <1>10, SumOfImages
<1>12. Signed(Bank[t]) = IF sign = 1 THEN Bank[t].amount ELSE -Bank[t].amount
  BY <1>8 DEF Signed
<1>13. \A k \in K : Signed(h[k]) \in Int
  BY <1>3, <1>9 DEF IntsOn
<1>14. QED
  BY <1>5, <1>6, <1>11, <1>12, <1>13

\* And those of several transactions.
LEMMA NetOfSeveral ==
    ASSUME RowsInv, NEW U \in SUBSET Booked, IsFiniteSet(U), NEW e, NEW f,
           \A a \in AllocationsOf(U) : f[a] = Signed(a),
           \A t \in U : e[t] = Signed(Bank[t])
    PROVE  IsFiniteSet(AllocationsOf(U)) /\ SumOver(f, AllocationsOf(U)) = SumOver(e, U)
<1> DEFINE Right(T) == /\ IsFiniteSet(AllocationsOf(T))
                       /\ SumOver(f, AllocationsOf(T)) = SumOver(e, T)
<1>1. PICK F : F = {T \in SUBSET U : ~Right(T)}
  OBVIOUS
<1>2. F \subseteq SUBSET U
  BY <1>1
<1> SUFFICES ASSUME F # {} PROVE FALSE
  BY <1>1
<1>3. PICK T \in F : \A V \in F : ~(V \subseteq T /\ V # T)
  BY <1>2, FamilyHasMinimal
<1>4. T \subseteq U /\ IsFiniteSet(T) /\ ~Right(T)
  BY <1>1, FS_Subset
<1>5. T # {}
  <2>1. AllocationsOf({}) = {}
    BY DEF AllocationsOf
  <2>2. QED
    BY <1>4, <2>1, SumEmpty, FS_EmptySet
<1>6. PICK t \in T : TRUE
  BY <1>5
<1>7. PICK V : V = T \ {t}
  OBVIOUS
<1>8. V \subseteq T /\ V # T /\ V \in SUBSET U
  BY <1>4, <1>7
<1>9. Right(V)
  BY <1>1, <1>3, <1>8
<1>10. /\ IsFiniteSet(Allocations(t)) /\ SumOver(f, Allocations(t)) = Signed(Bank[t])
       /\ \A a \in Allocations(t) : a.of = t
  <2>1. t \in Booked /\ Allocations(t) \subseteq AllocationsOf(U)
    BY <1>4 DEF AllocationsOf
  <2>2. QED
    BY <2>1, AllocationsAddUp
<1>11. AllocationsOf(T) = AllocationsOf(V) \cup Allocations(t)
  BY <1>6, <1>7 DEF AllocationsOf
<1>12. \A u \in U : \A a \in Allocations(u) : a.of = u /\ f[a] \in Int
  <2> SUFFICES ASSUME NEW u \in U PROVE \A a \in Allocations(u) : a.of = u /\ f[a] \in Int
    OBVIOUS
  <2>1. u \in Booked /\ Allocations(u) \subseteq AllocationsOf(U)
    BY DEF AllocationsOf
  <2>2. QED
    BY <2>1, AllocationsAddUp
<1>13. AllocationsOf(V) \cap Allocations(t) = {}
  BY <1>4, <1>7, <1>8, <1>12 DEF AllocationsOf
<1>14. IntsOn(f, AllocationsOf(V) \cup Allocations(t))
  BY <1>4, <1>8, <1>12 DEF IntsOn, AllocationsOf
<1>15. SumOver(f, AllocationsOf(T)) = SumOver(e, V) + Signed(Bank[t])
  BY <1>9, <1>10, <1>11, <1>13, <1>14, SumInTwo
<1>16. IntsOn(e, U)
  <2> SUFFICES ASSUME NEW u \in U PROVE e[u] \in Int
    BY DEF IntsOn
  <2>1. Bank[u].amount \in Int
    BY WorkspaceAssumption DEF Booked
  <2>2. QED
    BY <2>1 DEF Signed
<1>17. SumOver(e, T) = Signed(Bank[t]) + SumOver(e, V) /\ SumOver(e, V) \in Int
  <2>1. IntsOn(e, T) /\ IntsOn(e, V) /\ IsFiniteSet(V)
    BY <1>4, <1>8, <1>16, FS_Subset DEF IntsOn
  <2>2. QED
    BY <1>4, <1>7, <2>1, SumWithout, SumIsInt
<1>18. Signed(Bank[t]) \in Int
  BY <1>4, <1>16 DEF IntsOn
<1>19. Right(T)
  <2>1. IsFiniteSet(AllocationsOf(T))
    BY <1>9, <1>10, <1>11, FS_Union
  <2>2. QED
    BY <2>1, <1>15, <1>17, <1>18
<1>20. QED
  BY <1>4, <1>19

\* #context: through any edits, splits, merges and imports, what came in less what
\* went out of the accounts in a period is what the bank booked there.
THEOREM PeriodsNetAsBooked == Spec => []NetAsBooked
<1>1. ASSUME WorkspaceInv, NEW q \in Query, q.scopes = Scope
      PROVE  Net(CurrentContext(q).rows) = MapThenSumSet(LAMBDA t : Signed(Bank[t]),
                 {t \in Booked : /\ Bank[t].account \in q.accounts
                                 /\ Bank[t].day \in q.first..q.last})
  <2>1. PICK U : U = {t \in Booked : /\ Bank[t].account \in q.accounts
                                     /\ Bank[t].day \in q.first..q.last}
    OBVIOUS
  <2>2. U \in SUBSET Booked /\ IsFiniteSet(U)
    BY <2>1, FS_Subset, WorkspaceAssumption DEF Booked
  <2>3. PICK f : f = [a \in AllocationsOf(U) |-> Signed(a)]
    OBVIOUS
  <2>4. PICK e : e = [t \in U |-> Signed(Bank[t])]
    OBVIOUS
  <2>5. /\ \A a \in AllocationsOf(U) : f[a] = Signed(a)
        /\ \A t \in U : e[t] = Signed(Bank[t])
    BY <2>3, <2>4
  <2>6. IsFiniteSet(AllocationsOf(U)) /\ SumOver(f, AllocationsOf(U)) = SumOver(e, U)
    BY <1>1, <2>2, <2>5, NetOfSeveral DEF WorkspaceInv
  <2>7. \A a \in AllocationsOf(U) : a.scope \in Scope
    <3> SUFFICES ASSUME NEW t \in U PROVE \A a \in Allocations(t) : a.scope \in Scope
      BY DEF AllocationsOf
    <3>1. PICK g : g = [a \in Allocations(t) |-> Signed(a)]
      OBVIOUS
    <3>2. t \in Booked /\ \A a \in Allocations(t) : g[a] = Signed(a)
      BY <2>2, <3>1
    <3>3. QED
      BY <1>1, <3>2, AllocationsAddUp DEF WorkspaceInv
  <2>8. CurrentContext(q).rows = {a \in AllocationsOf(U) : a.scope \in q.scopes}
    BY <2>1 DEF CurrentContext, Context, AllocationsOf, Allocations
  <2>9. CurrentContext(q).rows = AllocationsOf(U)
    BY <1>1, <2>7, <2>8
  <2>10. Net(AllocationsOf(U)) = SumOver(f, AllocationsOf(U))
    BY <2>5, <2>6, NetIsSum
  <2>11. MapThenSumSet(LAMBDA t : Signed(Bank[t]), U) = SumOver(e, U)
    BY <2>2, <2>5, BookedIsSum
  <2>12. QED
    BY <2>1, <2>6, <2>9, <2>10, <2>11
<1>2. WorkspaceInv => NetAsBooked
  BY <1>1 DEF NetAsBooked
<1>3. QED
  BY <1>2, AnalyticsInvariant, PTL

\* The three together, for any amounts, splits and periods: the money of a period is
\* counted once.
THEOREM MoneyIsCountedOnce == Spec => []MoneyCountedOnce
BY SplitsStayWhole, NeverTwiceSpent, PeriodsNetAsBooked, PTL DEF MoneyCountedOnce
=============================================================================
