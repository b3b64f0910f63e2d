--------------------------- MODULE TransactionsPage ---------------------------
(***************************************************************************)
(* The transactions page of the web client                                 *)
(* (apps/web/src/pages/transactions-page.tsx) over the list and the edits  *)
(* of the server (packages/db/src/transaction-workspace.ts): a filtered    *)
(* list read page by page through cursors, a selection for bulk edits, and *)
(* a sheet that edits, splits or pairs one transaction.                    *)
(*                                                                         *)
(* Between the two lies the query cache (TanStack Query, external): a      *)
(* query on screen is fetched when it is missing or no longer fresh;       *)
(* invalidating a query marks its entry, and fetches it again, dropping an *)
(* answer under way, if it is on screen; but a first fetch, with no data   *)
(* yet to show, goes on, and like one nobody shows any more still lands,   *)
(* and lands as fresh.                                                     *)
(*                                                                         *)
(* Of a transaction the model keeps what cannot change (when, how much,    *)
(* which way, which account) and four columns that can: category, review   *)
(* state, pair and splits.  Narration, scope, counterparty and note are    *)
(* edited as the review state is.  Accounts are owned, the currency one.   *)
(***************************************************************************)
EXTENDS Integers, Sequences, FiniteSets, SequencesExt, Mutations

CONSTANTS
    Txn,             \* transaction ids, natural numbers: they break the ties
    Posted,          \* Posted[t]: what the statement says of t
    Category,
    Review,          \* review states
    Start,           \* Start[t]: the category t was imported with, or None
    Filters,         \* the filters a user sets: a category, or None for all
    Sorts,           \* the columns a list is sorted by
    Limit,           \* transactions on a page
    Entry,           \* what a user types into the sheet: a field and its value
    Ticks,           \* the selections a user may have made
    BulkChange,      \* what a user applies to a selection: a column and its value
    MaxSaves,        \* bound: edits the user sends
    MaxMoves,        \* bound: how often the user turns to a list, page or transaction
    MaxUnder,        \* bound: requests under way, of each kind
    None

ASSUME PageAssumption ==
    /\ Txn \subseteq Nat /\ IsFiniteSet(Txn) /\ Limit \in Nat \ {0}
    /\ Posted \in [Txn -> [occurredAt : Nat, amount : Nat, direction : {"debit", "credit"},
                           account : Nat]]
    /\ Start \in [Txn -> Category \cup {None}]
    /\ Sorts \subseteq {"occurredAt", "amount"} /\ "occurredAt" \in Sorts
    /\ None \in Filters /\ Filters \subseteq Category \cup {None}
    /\ "reviewed" \in Review /\ None \notin Category \cup Txn /\ None \notin Sorts
    /\ Entry \subseteq [field : {"category"}, value : Category \cup {None}]
                     \cup [field : {"review"}, value : Review]
    /\ Ticks \subseteq SUBSET Txn
    /\ BulkChange \subseteq [category : Category] \cup [review : Review]
    /\ MaxSaves \in Nat /\ MaxMoves \in Nat /\ MaxUnder \in Nat

VARIABLES
    rows,      \* the transactions table of the server
    archived,  \* the categories merged into another
    saves,     \* how many edits were sent
    asked,     \* mutations under way: sent, or answered and not yet received
    cache,     \* entries of the query cache, by query
    flight,    \* queries under way, with the server's answer once it is given
    search,    \* filter, sort, direction and cursor, in the address
    prior,     \* the last list that was shown: keepPreviousData
    history,   \* cursorHistory
    open,      \* selectedId: the transaction in the sheet
    form,      \* what the sheet's fields hold, and which of them the user typed
    moves,     \* how often the user turned
    still,     \* history: no row has changed since the first page of this list
    hasty      \* history: a page was left before it was there and fresh, or while the
               \* answer to an edit was on its way

server == <<rows, archived>>
page == <<search, prior, history, moves, still, hasty>>
vars == <<server, saves, asked, cache, flight, page, open, form>>

-----------------------------------------------------------------------------
(* The server: listTransactions, getTransaction. *)

First == [sort |-> None, direction |-> None, value |-> 0, id |-> 0]

SortValue(t, sort) == IF sort = "amount" THEN Posted[t].amount ELSE Posted[t].occurredAt

\* ORDER BY column, id, in one direction.
Before(direction, a, b) ==
    LET less(x, y) == x.value < y.value \/ (x.value = y.value /\ x.id < y.id)
    IN  IF direction = "desc" THEN less(b, a) ELSE less(a, b)

Cursor(t, s) ==
    [sort |-> s.sort, direction |-> s.direction, value |-> SortValue(t, s.sort), id |-> t]

Precedes(s, t, u) == Before(s.direction, Cursor(t, s), Cursor(u, s))

FaultyFollows(s, t) ==
    \/ s.cursor = First
    \/ IF s.direction = "desc" THEN SortValue(t, s.sort) < s.cursor.value
                               ELSE SortValue(t, s.sort) > s.cursor.value

Follows(s, t) == s.cursor = First \/ Before(s.direction, s.cursor, Cursor(t, s))

Matches(s, t) == s.filter = None \/ rows[t].category = s.filter

CursorValid(s) ==
    s.cursor = First \/ (s.cursor.sort = s.sort /\ s.cursor.direction = s.direction)

Detail(t) == [detail |-> t]

Hydrate(t) == [id |-> t, row |-> rows[t]]

\* The i-th row has i - 1 rows before it.
Sorted(ts, s) ==
    [i \in 1..Cardinality(ts) |->
        CHOOSE t \in ts : Cardinality({u \in ts : Precedes(s, u, t)}) = i - 1]

\* One row more than the page holds tells whether there is another page.
Listing(s) ==
    LET found == Sorted({t \in Txn : Matches(s, t) /\ Follows(s, t)}, s)
        items == SubSeq(found, 1, IF Len(found) > Limit THEN Limit ELSE Len(found))
    IN  [items |-> [i \in DOMAIN items |-> Hydrate(items[i])],
         next  |-> IF Len(found) > Limit THEN Cursor(Last(items), s) ELSE None,
         failed |-> FALSE]

\* What fails to load shows no rows.
Failed == [items |-> <<>>, next |-> None, failed |-> TRUE]

IsDetail(q) == DOMAIN q = {"detail"}

Answer(q) ==
    CASE IsDetail(q) -> Hydrate(q.detail)
      [] ~IsDetail(q) /\ CursorValid(q) -> Listing(q)
      [] OTHER -> Failed

-----------------------------------------------------------------------------
(* The query cache. *)

OnScreen(q) == q = search \/ (open # None /\ q = Detail(open))

Fresh(q) == q \in DOMAIN cache /\ cache[q].fresh

\* The entry is what the server answered after the last edit it knows of.
Settled(q) == Fresh(q) /\ ~cache[q].late /\ q \notin DOMAIN flight

With(f, q, value) == [x \in DOMAIN f \cup {q} |-> IF x = q THEN value ELSE f[x]]

Asking == [answer |-> None, late |-> FALSE]

\* useQuery shows q: it is fetched if it is missing, invalidated or older than the
\* staleTime of thirty seconds, and not under way already.
Shows(q) ==
    \/ /\ q \in DOMAIN flight \/ Fresh(q)
       /\ UNCHANGED flight
    \/ /\ q \notin DOMAIN flight /\ Cardinality(DOMAIN flight) < MaxUnder
       /\ flight' = With(flight, q, Asking)

HasData(q) == q \in DOMAIN cache /\ cache[q].data # Failed

\* What invalidating q has fetched anew: refetchQueries with cancelRefetch.
Refetched(q) == OnScreen(q) /\ (q \in DOMAIN flight => HasData(q))

Lists == {q \in DOMAIN cache \cup DOMAIN flight : ~IsDetail(q)}

\* Of the queries that are told and of those whose rows changed all the same:
\* `late' marks, for the record, entries and answers that nobody will correct.
Invalidate(told, missed) ==
    /\ cache' = [q \in DOMAIN cache |->
                   [cache[q] EXCEPT !.fresh = @ /\ q \notin told,
                                    !.late = @ \/ q \in missed]]
    /\ flight' = [q \in DOMAIN flight \cup {r \in told : OnScreen(r)} |->
                    IF q \in told /\ Refetched(q) THEN Asking
                    ELSE [flight[q] EXCEPT
                            !.late = @ \/ (q \in told \cup missed /\ flight[q].answer # None)]]

\* The server answers from the rows of that moment.
Serve(q) ==
    /\ q \in DOMAIN flight /\ flight[q].answer = None
    /\ flight' = [flight EXCEPT ![q].answer = Answer(q)]
    /\ UNCHANGED <<server, saves, asked, cache, page, open, form>>

Blank == [category |-> None, review |-> "reviewed", typed |-> {}]

FormOf(row) == [category |-> row.category, review |-> row.review, typed |-> {}]

FaultyRefill(t, data) == IF form = Blank THEN FormOf(data.row) ELSE form

\* The effect on [transaction]: other data than before fill the form anew.
Refill(t, data) ==
    IF Detail(t) \in DOMAIN cache /\ cache[Detail(t)].data = data THEN form
    ELSE FormOf(data.row)

Land(q) ==
    /\ q \in DOMAIN flight /\ flight[q].answer # None
    /\ cache' = With(cache, q, [data  |-> flight[q].answer, late |-> flight[q].late,
                                fresh |-> flight[q].answer # Failed])
    /\ flight' = [x \in DOMAIN flight \ {q} |-> flight[x]]
    /\ form' = IF open # None /\ q = Detail(open) THEN Refill(open, flight[q].answer) ELSE form
    /\ UNCHANGED <<server, saves, asked, page, open>>

-----------------------------------------------------------------------------
(* The list. *)

\* The address names the order of the list.  (Where it does not, the first click on
\* Date only puts it there.)
Init ==
    /\ rows = [t \in Txn |-> [category |-> Start[t], review |-> "unreviewed", pair |-> None,
                              splits |-> <<>>]]
    /\ archived = {} /\ saves = 0 /\ asked = {}
    /\ search = [filter |-> None, sort |-> "occurredAt", direction |-> "desc",
                 cursor |-> First]
    /\ cache = <<>> /\ flight = [q \in {search} |-> Asking]
    /\ prior = None /\ history = <<>> /\ open = None /\ form = Blank
    /\ moves = 0 /\ still = TRUE /\ hasty = FALSE

Loads(q) == q \in DOMAIN cache /\ ~cache[q].data.failed

Move(s, past) ==
    /\ moves < MaxMoves /\ open = None
    /\ search' = s /\ history' = past /\ moves' = moves + 1
    /\ prior' = IF Loads(search) THEN search ELSE prior
    /\ Shows(s)
    /\ UNCHANGED <<server, saves, asked, cache, open, form>>

\* keepPreviousData: until the list is there the last one is shown.
Shown ==
    CASE search \in DOMAIN cache -> cache[search].data
      [] search \notin DOMAIN cache /\ prior # None -> cache[prior].data
      [] OTHER -> Failed

\* transactions: the rows on screen.
Visible == {Shown.items[i].id : i \in DOMAIN Shown.items}

\* updateSearch with a patch: the cursor and the history are reset, and the
\* selection is not.
NewList(s) ==
    /\ s # search \/ history # <<>>
    /\ Move(s, <<>>)
    /\ still' = TRUE /\ hasty' = FALSE

Filter(f) == f # search.filter /\ NewList([search EXCEPT !.filter = f, !.cursor = First])

SortBy(column) ==
    NewList([search EXCEPT !.sort = column, !.cursor = First,
                           !.direction = IF search.sort = column /\ search.direction = "desc"
                                         THEN "asc" ELSE "desc"])

\* The cursor comes from what is shown, be it another list's.
NextPage ==
    /\ Shown.next # None
    /\ Move([search EXCEPT !.cursor = Shown.next], Append(history, search.cursor))
    /\ hasty' = (hasty \/ ~Settled(search) \/ \E m \in asked : m.done)
    /\ UNCHANGED still

Previous ==
    /\ history # <<>>
    /\ Move([search EXCEPT !.cursor = Last(history)], Front(history))
    /\ UNCHANGED <<still, hasty>>

-----------------------------------------------------------------------------
(* The sheet. *)

Open(t) ==
    /\ moves < MaxMoves /\ open = None /\ t \in Visible
    /\ open' = t /\ moves' = moves + 1
    /\ form' = IF Detail(t) \in DOMAIN cache THEN FormOf(cache[Detail(t)].data.row) ELSE Blank
    /\ Shows(Detail(t))
    /\ UNCHANGED <<server, saves, asked, cache, search, prior, history, still, hasty>>

Close ==
    /\ open # None
    /\ open' = None /\ form' = Blank
    /\ UNCHANGED <<server, saves, asked, cache, flight, page>>

Loaded == open # None /\ Detail(open) \in DOMAIN cache

Type(field, value) ==
    /\ Loaded /\ field \notin form.typed /\ value # form[field]
    /\ form' = [form EXCEPT ![field] = value, !.typed = @ \cup {field}]
    /\ UNCHANGED <<server, saves, asked, cache, flight, page, open>>

-----------------------------------------------------------------------------
(* Edits: a request, what the server does with it, and what the answer sets *)
(* off in the client.                                                       *)

Send(request) ==
    /\ saves < MaxSaves /\ Cardinality(asked) < MaxUnder
    /\ saves' = saves + 1
    /\ asked' = asked \cup {Spread([of |-> saves, done |-> FALSE, failed |-> FALSE], request)}
    /\ UNCHANGED <<server, cache, flight, page, open, form>>

Pending(kind) == \E m \in asked : m.kind = kind

Edit(kind, ts, change) == Send([kind |-> kind, ids |-> ts, change |-> change, sheet |-> open])

\* The forms for splits and transfers go with the sheet, and so does what they know
\* of a request under way: `turn' tells one opening of a sheet from the next.
FormPending(kind) == \E m \in asked : m.kind = kind /\ m.turn = moves

FormEdit(kind, ts, change) ==
    Send([kind |-> kind, ids |-> ts, change |-> change, sheet |-> open, turn |-> moves])

\* saveMutation sends every field of the form, typed or not.
Save ==
    /\ Loaded /\ ~Pending("save")
    /\ Edit("save", {open}, [category |-> form.category, review |-> form.review])

\* initialSplits: the saved splits, or two halves with the category there is for
\* the first.
InitialSplits(t, row, c) ==
    LET first == (Posted[t].amount + 1) \div 2
    IN  IF row.splits # <<>> THEN row.splits
        ELSE <<[amount |-> first, category |-> IF row.category = None THEN c ELSE row.category],
               [amount |-> Posted[t].amount - first, category |-> c]>>

\* A balanced table: the user chooses c where a category is missing.
SaveSplits(c) ==
    /\ Loaded /\ ~FormPending("splits") /\ Posted[open].amount > 1
    /\ FormEdit("splits", {open},
                [splits |-> InitialSplits(open, cache[Detail(open)].data.row, c)])

Opposite(t, u) ==
    /\ Posted[t].direction # Posted[u].direction /\ Posted[t].amount = Posted[u].amount
    /\ Posted[t].account # Posted[u].account

\* The candidates are the rows of the page on screen.
ConfirmTransfer(u) ==
    /\ Loaded /\ ~FormPending("pair") /\ cache[Detail(open)].data.row.pair = None
    /\ u \in Visible /\ Opposite(open, u)
    /\ FormEdit("pair", {open, u}, <<>>)

\* Rows are ticked one by one or a page at once.  No turn of the list clears the
\* ticks: what is selected may have been on any page, and not be on this one.
Selectable == Ticks \ {{}}

\* BulkToolbar: one column of every selected row.
Bulk(ts, change) ==
    /\ open = None /\ ~Pending("bulk")
    /\ Edit("bulk", ts, change)

\* TaxonomyManager: mergeCategory.
Merge(c, d) ==
    /\ open = None /\ c # d
    /\ Edit("merge", {}, [source |-> c, target |-> d])

\* Categories an edit names.
Named(m) ==
    CASE m.kind \in {"save", "bulk"} /\ "category" \in DOMAIN m.change ->
            {m.change.category} \ {None}
      [] m.kind = "splits" -> {m.change.splits[i].category : i \in DOMAIN m.change.splits}
      [] m.kind = "merge" -> {m.change.target}
      [] OTHER -> {}

Refused(m) ==
    \/ Named(m) \cap archived # {}
    \/ m.kind = "pair" /\ \E t \in m.ids : rows[t].pair \notin m.ids \cup {None}

Into(row, c, d) ==
    [row EXCEPT !.category = IF @ = c THEN d ELSE @,
                !.splits = [i \in DOMAIN @ |->
                              IF @[i].category = c THEN [@[i] EXCEPT !.category = d] ELSE @[i]]]

Edited(t, m) ==
    CASE m.kind \in {"save", "bulk"} -> Spread(m.change, rows[t])
      [] m.kind = "splits" -> [rows[t] EXCEPT !.splits = m.change.splits, !.review = "reviewed"]
      [] m.kind = "pair" -> [rows[t] EXCEPT !.pair = CHOOSE u \in m.ids : u # t,
                                            !.review = "reviewed"]
      [] m.kind = "merge" -> Into(rows[t], m.change.source, m.change.target)

Touched(m) ==
    IF m.kind # "merge" THEN m.ids
    ELSE {t \in Txn : Into(rows[t], m.change.source, m.change.target) # rows[t]}

Handle(m) ==
    /\ m \in asked /\ ~m.done
    /\ asked' = (asked \ {m}) \cup
                {[m EXCEPT !.done = TRUE, !.failed = Refused(m), !.ids = Touched(m)]}
    /\ IF Refused(m) THEN UNCHANGED <<server, still>>
       ELSE /\ rows' = [t \in Txn |-> IF t \in Touched(m) THEN Edited(t, m) ELSE rows[t]]
            /\ archived' = IF m.kind = "merge" THEN archived \cup {m.change.source} ELSE archived
            /\ still' = FALSE
    /\ UNCHANGED <<saves, cache, flight, search, prior, history, moves, hasty, open, form>>

FaultyOutdated(m) ==
    CASE m.kind = "save" -> Lists \cup (IF open = None THEN {} ELSE {Detail(open)})
      [] m.kind \in {"splits", "pair"} -> Lists \cup {Detail(m.sheet)}
      [] OTHER -> {}

\* What the answer invalidates: always the lists; the transaction that is open by
\* then, where the sheet saved; the one that was, where it split or paired; none,
\* where many changed.
Outdated(m) ==
    CASE m.kind = "save" -> Lists \cup (IF open = None THEN {} ELSE {Detail(open)})
      [] m.kind \in {"splits", "pair"} -> Lists \cup {Detail(m.sheet)}
      [] OTHER -> Lists

Receive(m) ==
    /\ m \in asked /\ m.done
    /\ asked' = asked \ {m}
    /\ IF m.failed THEN UNCHANGED <<cache, flight>>
       ELSE Invalidate(Outdated(m), {Detail(t) : t \in m.ids} \ Outdated(m))
    /\ UNCHANGED <<server, saves, page, open, form>>

-----------------------------------------------------------------------------
Served == \E q \in DOMAIN flight : Serve(q) \/ Land(q)

Turned ==
    \/ \E f \in Filters : Filter(f)
    \/ \E column \in Sorts : SortBy(column)
    \/ NextPage
    \/ Previous

Sheet ==
    \/ \E t \in Txn : Open(t)
    \/ Close
    \/ \E e \in Entry : Type(e.field, e.value)

Sent ==
    \/ Save
    \/ \E c \in Category : SaveSplits(c)
    \/ \E u \in Txn : ConfirmTransfer(u)
    \/ \E change \in BulkChange, ts \in Selectable : Bulk(ts, change)
    \/ \E c, d \in Category : Merge(c, d)

Next ==
    \/ Served
    \/ Turned
    \/ Sheet
    \/ Sent
    \/ \E m \in asked : Handle(m) \/ Receive(m)

Spec == Init /\ [][Next]_vars

-----------------------------------------------------------------------------
\* Whatever is cached as fresh is what the server would answer now, however
\* fetches, edits and their answers overtake each other - unless an edit is under
\* way, or the entry is one that the page forgets to invalidate, or one that was read
\* for the first time, or off screen, when the edit's answer came.
CacheFollowsServer ==
    (\A m \in asked : ~m.done) =>
        \A q \in DOMAIN cache : cache[q].fresh /\ ~cache[q].late => cache[q].data = Answer(q)

\* The fields of the sheet that the user did not type hold what the transaction
\* holds, so that saving the form takes nothing back.
FormShowsRow ==
    (\A m \in asked : ~m.done) /\ Loaded /\ Settled(Detail(open)) =>
        \A field \in {"category", "review"} \ form.typed : form[field] = rows[open][field]

\* The pages behind the user and the one he is on follow each other in the list:
\* with no edit in between, each of those left is as long as a page and none
\* begins where another did - unless he left one before it was there, or while the
\* answer to an edit was on its way.
PagesFollowOn ==
    ~hasty =>
        LET walk == Append(history, search.cursor)
        IN  \A i \in DOMAIN history :
              /\ walk[i + 1] \notin {walk[k] : k \in 1..i}
              /\ still => Cardinality({t \in Txn :
                                         /\ Matches(search, t)
                                         /\ Follows([search EXCEPT !.cursor = walk[i]], t)
                                         /\ ~Follows([search EXCEPT !.cursor = walk[i + 1]], t)})
                         = Limit
=============================================================================
