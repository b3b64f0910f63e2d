------------------------------ MODULE Workspace ------------------------------
(***************************************************************************)
(* The workspace the user arranges (packages/db/src/                       *)
(* workspace-management.ts and transaction-workspace.ts): accounts, the    *)
(* tree of categories, counterparties, and the booked transactions with    *)
(* their splits and transfers.  Every method is one SQLite transaction     *)
(* that ends with the rows it adds to metric_invalidations, which tell the *)
(* analytics (module Analytics) what they must not answer from the cache.  *)
(*                                                                         *)
(* Imports and the classification are reduced to what they write here: see *)
(* the modules Imports and Ledger.                                         *)
(***************************************************************************)
EXTENDS Integers, Sequences, FiniteSets, FiniteSetsExt

CONSTANTS
    Account, Category, Party, Transaction, Import,
    Bank,          \* Bank[t]: account, direction, amount, day and narration of t
    Rows,          \* Rows[i]: the transactions the statement of i lists
    Type, Scope, Flag,         \* transaction_type, scope, the flags of categories
    Number,                    \* account numbers
    Opened, Taxonomy,          \* the accounts and, with their flags, the categories
                               \* there are at first
    AccountEdit, CategoryEdit, PartyEdit, TransactionEdit,  \* what a user may ask for
    Selection,                 \* the transactions a user may select for an edit
    Parting(_),                \* the splits a user may ask for of a transaction
    Opinion,                   \* what the classification may find
    MaxChanges,    \* bound: changes of the workspace, and imports deleted
    None

Entity == Account \cup Category \cup Party
Share == [category : Category, amount : Int, scope : Scope]    \* a part of a split

ASSUME WorkspaceAssumption ==
    /\ None \notin Entity \cup Transaction \cup Import \cup Type
    /\ Opened \subseteq Account /\ DOMAIN Taxonomy \subseteq Category
    /\ \A c \in DOMAIN Taxonomy : ~({"essential", "discretionary"} \subseteq Taxonomy[c])
    /\ IsFiniteSet(Transaction) /\ "personal" \in Scope
    /\ \A t \in Transaction : /\ Bank[t].day \in Int /\ Bank[t].amount \in Int
                              /\ Parting(t) \subseteq Seq(Share)
    /\ \A edit \in TransactionEdit \cup Opinion :
           /\ DOMAIN edit \subseteq {"category", "party", "type", "scope"}
           /\ "category" \in DOMAIN edit => edit.category \in Category \cup {None}
           /\ "scope" \in DOMAIN edit => edit.scope \in Scope

VARIABLES
    known,       \* the accounts, categories and counterparties there are
    named,       \* their display names: their own until they are renamed
    archived,    \* archived_at of accounts and categories
    owned,       \* the accounts with is_owned
    numbers,     \* owned_account_identifiers
    parent, flags,     \* of the categories
    books,       \* transactions with their sources and active splits
    pending,     \* metric_invalidations not yet consumed
    changes      \* how often the workspace was changed

tree == <<parent, flags>>
entities == <<known, named, archived, owned, numbers>>
workspace == <<entities, tree, books, pending, changes>>

Overlay(edit, row) == [f \in DOMAIN row |-> IF f \in DOMAIN edit THEN edit[f] ELSE row[f]]

\* A boolean column as the set of rows that have it, after an edit of row x.
Marked(set, x, edit, column) ==
    IF column \notin DOMAIN edit THEN set
    ELSE IF edit[column] THEN set \cup {x} ELSE set \ {x}

Booked == {t \in Transaction : books[t] # None}

-----------------------------------------------------------------------------
(* invalidateMetrics: everything, or the moment of one transaction.            *)
Everything == [of |-> None, day |-> None]
Moment(t) == [of |-> t, day |-> Bank[t].day]

Invalidate(invalidations) ==
    /\ changes' = changes + 1
    /\ pending' = pending \cup invalidations

-----------------------------------------------------------------------------
(* Accounts.                                                                   *)
CreateAccount(a, isOwned) ==
    /\ a \in Account \ known
    /\ known' = known \cup {a}
    /\ owned' = IF isOwned THEN owned \cup {a} ELSE owned
    /\ Invalidate({Everything})
    /\ UNCHANGED <<named, archived, numbers, tree, books>>

UpdateAccount(a, edit) ==
    /\ a \in Account \cap known
    /\ named' = IF "name" \in DOMAIN edit THEN [named EXCEPT ![a] = edit.name] ELSE named
    /\ owned' = Marked(owned, a, edit, "owned")
    /\ archived' = Marked(archived, a, edit, "archived")
    /\ Invalidate({Everything})
    /\ UNCHANGED <<known, numbers, tree, books>>

\* The fingerprint of an account number is UNIQUE.
RegisterOwnedAccount(a, n) ==
    /\ a \in Account \cap known
    /\ numbers[n] = None
    /\ numbers' = [numbers EXCEPT ![n] = a]
    /\ owned' = owned \cup {a}
    /\ Invalidate({})
    /\ UNCHANGED <<known, named, archived, tree, books>>

-----------------------------------------------------------------------------
(* Categories.                                                                 *)
Usable(c) == c \in (Category \cap known) \ archived     \* #requireCategory

\* The recursive query of #validateCategoryParent: what lies below c.
Below(c) ==
    {d \in Category : \A s \in SUBSET Category :
        (\A e \in Category : parent[e] \in s \cup {c} => e \in s) => d \in s}

ParentAllowed(c, p) == Usable(p) /\ p # c /\ p \notin Below(c)

MergedFlags(c, edit) ==
    {f \in Flag : IF f \in DOMAIN edit THEN edit[f] ELSE f \in flags[c]}

\* assertCategoryFlags
Consistent(fs) == ~({"essential", "discretionary"} \subseteq fs)

CreateCategory(c, p, fs) ==
    /\ c \in Category \ known
    /\ p # None => Usable(p)
    /\ Consistent(fs)
    /\ known' = known \cup {c}
    /\ parent' = [parent EXCEPT ![c] = p]
    /\ flags' = [flags EXCEPT ![c] = fs]
    /\ Invalidate({Everything})
    /\ UNCHANGED <<named, archived, owned, numbers, books>>

FaultyUpdateCategory(c, edit) ==
    /\ c \in Category \cap known
    /\ "parent" \in DOMAIN edit /\ edit.parent # None => Usable(edit.parent) /\ edit.parent # c
    /\ parent' = IF "parent" \in DOMAIN edit THEN [parent EXCEPT ![c] = edit.parent] ELSE parent
    /\ archived' = Marked(archived, c, edit, "archived")
    /\ Invalidate({Everything})
    /\ UNCHANGED <<known, owned, numbers, books, named, flags>>

UpdateCategory(c, edit) ==
    LET fs == IF "flags" \in DOMAIN edit THEN MergedFlags(c, edit.flags) ELSE flags[c] IN
    /\ c \in Category \cap known
    /\ "parent" \in DOMAIN edit /\ edit.parent # None => ParentAllowed(c, edit.parent)
    /\ Consistent(fs)
    /\ named' = IF "name" \in DOMAIN edit THEN [named EXCEPT ![c] = edit.name] ELSE named
    /\ parent' = IF "parent" \in DOMAIN edit THEN [parent EXCEPT ![c] = edit.parent] ELSE parent
    /\ archived' = Marked(archived, c, edit, "archived")
    /\ flags' = [flags EXCEPT ![c] = fs]
    /\ Invalidate({Everything})
    /\ UNCHANGED <<known, owned, numbers, books>>

\* A part of an active set cannot be changed: the set is superseded by another.
Renamed(splits, c, d) ==
    [k \in DOMAIN splits |->
        IF splits[k].category = c THEN [splits[k] EXCEPT !.category = d] ELSE splits[k]]

MergeCategory(c, d) ==
    /\ c \in Category \cap known /\ d \in Category \cap known
    /\ ParentAllowed(c, d)
    /\ books' = [t \in Transaction |->
           IF t \notin Booked THEN None
           ELSE [books[t] EXCEPT !.category = IF @ = c THEN d ELSE @,
                                 !.splits = Renamed(@, c, d)]]
    /\ parent' = [e \in Category |-> IF parent[e] = c THEN d ELSE parent[e]]
    /\ archived' = archived \cup {c}
    /\ Invalidate({Everything})
    /\ UNCHANGED <<known, named, owned, numbers, flags>>

-----------------------------------------------------------------------------
(* Counterparties.                                                             *)
CreateCounterparty(p) ==
    /\ p \in Party \ known
    /\ known' = known \cup {p}
    /\ Invalidate({})
    /\ UNCHANGED <<named, archived, owned, numbers, tree, books>>

UpdateCounterparty(p, edit) ==
    /\ p \in Party \cap known
    /\ named' = IF "name" \in DOMAIN edit THEN [named EXCEPT ![p] = edit.name] ELSE named
    /\ Invalidate({Everything})
    /\ UNCHANGED <<known, archived, owned, numbers, tree, books>>

-----------------------------------------------------------------------------
(* Transactions.                                                               *)
ValidReferences(edit) ==
    /\ "category" \in DOMAIN edit /\ edit.category # None => Usable(edit.category)
    /\ "party" \in DOMAIN edit /\ edit.party # None => edit.party \in known

Confirmed(row) == [row EXCEPT !.manual = TRUE, !.confidence = "confirmed"]

Edited(row, edit) ==
    IF DOMAIN edit \cap {"category", "party", "type"} = {} THEN Overlay(edit, row)
    ELSE Confirmed(Overlay(edit, row))

\* updateTransaction, and bulkUpdate, which has no counterparty to set.
Edit(ts, edit) ==
    /\ ts # {} /\ ts \subseteq Booked
    /\ "party" \in DOMAIN edit => Cardinality(ts) = 1
    /\ ValidReferences(edit)
    /\ "type" \in DOMAIN edit /\ edit.type # "transfer" => \A t \in ts : books[t].pair = None
    /\ books' = [t \in Transaction |-> IF t \in ts THEN Edited(books[t], edit) ELSE books[t]]
    /\ Invalidate({Moment(t) : t \in ts})
    /\ UNCHANGED <<entities, tree>>

SumOf(amounts) == MapThenSumSet(LAMBDA k : amounts[k], DOMAIN amounts)
Total(splits) == SumOf([k \in DOMAIN splits |-> splits[k].amount])

\* validateSplitTotal
FaultyValidSplits(t, splits) ==
    /\ Len(splits) >= 2
    /\ \A k \in DOMAIN splits : splits[k].amount > 0
    /\ Total(splits) <= Bank[t].amount

ValidSplits(t, splits) ==
    /\ Len(splits) >= 2
    /\ \A k \in DOMAIN splits : splits[k].amount > 0
    /\ Total(splits) = Bank[t].amount

ReplaceSplits(t, splits) ==
    /\ t \in Booked
    /\ ValidSplits(t, splits)
    /\ \A k \in DOMAIN splits : Usable(splits[k].category)
    /\ books' = [books EXCEPT ![t] =
           [Confirmed(@) EXCEPT !.splits = splits, !.review = "reviewed"]]
    /\ Invalidate({Moment(t)})
    /\ UNCHANGED <<entities, tree>>

Transferable(t, u) ==
    /\ Bank[t].direction # Bank[u].direction /\ Bank[t].amount = Bank[u].amount
    /\ Bank[t].account # Bank[u].account /\ {Bank[t].account, Bank[u].account} \subseteq owned

ConfirmTransfer(t, u) ==
    /\ {t, u} \subseteq Booked /\ Transferable(t, u)
    /\ books[t].pair \in {None, u} /\ books[u].pair \in {None, t}
    /\ LET side(v, w) == [Confirmed(books[v]) EXCEPT
               !.type = "transfer", !.pair = w, !.review = "reviewed"]
       IN books' = [books EXCEPT ![t] = side(t, u), ![u] = side(u, t)]
    /\ Invalidate({Moment(t), Moment(u)})
    /\ UNCHANGED <<entities, tree>>

\* What the classification writes of a transaction the user has not confirmed.
\* A rule may name an archived category.
Reclassify(t, opinion) ==
    /\ t \in Booked /\ ~books[t].manual
    /\ "party" \in DOMAIN opinion => opinion.party \in known
    /\ "category" \in DOMAIN opinion => opinion.category \in known
    /\ books' = [books EXCEPT ![t] =
           [Overlay(opinion, @) EXCEPT !.confidence = "high", !.review = "needs_review"]]
    /\ Invalidate({Everything})
    /\ UNCHANGED <<entities, tree>>

-----------------------------------------------------------------------------
(* Imports.                                                                    *)
Sources(row) == row.duplicates \cup ({row.original} \ {None})
Committed == {i \in Import : \E t \in Booked : i \in Sources(books[t])}
Orphans(i) == {t \in Booked : Sources(books[t]) = {i}}

Fresh(i) ==
    [category |-> None, type |-> "unclassified", party |-> None, scope |-> "personal",
     manual |-> FALSE, confidence |-> "unknown", review |-> "unreviewed", pair |-> None,
     splits |-> <<>>, original |-> i, duplicates |-> {}]

BookedBy(i, bs) ==
    [t \in Transaction |->
        IF t \notin Rows[i] THEN bs[t]
        ELSE IF bs[t] = None THEN Fresh(i) ELSE [bs[t] EXCEPT !.duplicates = @ \cup {i}]]

Commit(i) ==
    /\ i \notin Committed
    /\ {Bank[t].account : t \in Rows[i]} \subseteq known
    /\ books' = BookedBy(i, books)
    /\ pending' = pending \cup {Everything}
    /\ UNCHANGED changes
    /\ UNCHANGED <<entities, tree>>

\* A confirmed transfer cannot lose a side (the CHECK of transactions).  The
\* invalidations of a deleted transaction go with it.
DeleteImport(i) ==
    /\ i \in Committed
    /\ \A t \in Orphans(i) : books[t].pair = None
    /\ books' = [t \in Transaction |->
           IF t \notin Booked \ Orphans(i) THEN None
           ELSE [books[t] EXCEPT !.original = IF @ = i THEN None ELSE @,
                                 !.duplicates = @ \ {i}]]
    /\ changes' = changes + 1
    /\ pending' = {p \in pending : p.of \notin Orphans(i)}
    /\ UNCHANGED <<entities, tree>>

-----------------------------------------------------------------------------
WorkspaceInit ==
    /\ known = Opened \cup DOMAIN Taxonomy
    /\ named = [e \in Entity |-> e]
    /\ archived = {}
    /\ owned = Opened
    /\ numbers = [n \in Number |-> None]
    /\ parent = [c \in Category |-> None]
    /\ flags = [c \in Category |-> IF c \in DOMAIN Taxonomy THEN Taxonomy[c] ELSE {}]
    /\ books = [t \in Transaction |-> None]
    /\ pending = {}
    /\ changes = 0

Arranged ==
    \/ \E a \in Account :
          \/ \E isOwned \in BOOLEAN : CreateAccount(a, isOwned)
          \/ \E edit \in AccountEdit : UpdateAccount(a, edit)
          \/ \E n \in Number : RegisterOwnedAccount(a, n)
    \/ \E p \in Party :
          \/ CreateCounterparty(p)
          \/ \E edit \in PartyEdit : UpdateCounterparty(p, edit)

Sorted ==
    \E c \in Category :
        \/ \E p \in Category \cup {None}, fs \in {{}, {"essential", "discretionary"}} :
              CreateCategory(c, p, fs)
        \/ \E edit \in CategoryEdit : UpdateCategory(c, edit)
        \/ \E d \in Category : MergeCategory(c, d)

Worked ==
    \/ \E ts \in Selection, edit \in TransactionEdit : Edit(ts, edit)
    \/ \E t \in Transaction :
          \/ \E splits \in Parting(t) : ReplaceSplits(t, splits)
          \/ \E u \in Transaction : ConfirmTransfer(t, u)
          \/ \E opinion \in Opinion : Reclassify(t, opinion)

WorkspaceNext ==
    \/ \E i \in Import : Commit(i)
    \/ /\ changes < MaxChanges
       /\ Arranged \/ Sorted \/ Worked \/ \E i \in Import : DeleteImport(i)

WorkspaceSpec == WorkspaceInit /\ [][WorkspaceNext]_workspace

-----------------------------------------------------------------------------
\* No category lies below itself, after any sequence of creations, moves and
\* merges: of every set of categories one has its parent outside of it.  The
\* recursive query of #validateCategoryParent ends only because of this.
CategoriesFormATree ==
    \A s \in (SUBSET Category) \ {{}} : \E c \in s : parent[c] \notin s

Parts(t) ==
    IF books[t].splits # <<>> THEN books[t].splits
    ELSE <<[category |-> books[t].category, amount |-> Bank[t].amount,
            scope |-> books[t].scope]>>

=============================================================================
