------------------------------ MODULE Imports ------------------------------
(***************************************************************************)
(* Statement imports (packages/db/src/import-reconciliation.ts): an upload *)
(* is saved as a preview, its rows are matched against the transactions of *)
(* its account, the user decides the doubtful matches, and the commit      *)
(* turns rows into transactions or links them to existing ones.  Each      *)
(* method is one SQLite transaction; several imports are under way at the  *)
(* same time, so what one analysed another may have changed since.         *)
(*                                                                         *)
(* A row is its bank reference (both parsers refuse a row without one) and *)
(* the fingerprint of everything else.  A transaction carries both from    *)
(* the row it was made of, and is named by that row.  All statements are   *)
(* of one institution, whose accounts differ in the masked number; an      *)
(* account is named by the import that created it.                         *)
(***************************************************************************)
EXTENDS Naturals, Sequences, FiniteSets

CONSTANTS
    Import,          \* uploads
    Statement,       \* Statement[i] is the sequence of rows of upload i
    Mask,            \* Mask[i] is its masked account number
    NoMask,          \* a statement without an account number
    None             \* SQL NULL

ASSUME ImportsAssumption ==
    /\ \A i \in Import : Statement[i] \in
           Seq([reference : STRING, fingerprint : STRING]) \ {<<>>}
    /\ None \notin Import
    /\ \A i \in Import : None \notin {i} \X DOMAIN Statement[i]

VARIABLES
    status,     \* import_batches.status
    account,    \* import_reconciliations.account_id
    match,      \* import_match_decisions, by source row
    home,       \* transactions: the account of each, None if it does not exist
    link,       \* transaction_sources: the transaction a row is linked to
    accounts,   \* the accounts, by the import that created them
    stale       \* history: the imports overtaken by another, committed or
                \* deleted between their last analysis and their own commit

vars == <<status, account, match, home, link, accounts, stale>>

Source == UNION {{i} \X DOMAIN Statement[i] : i \in Import}
Row(s) == Statement[s[1]][s[2]]
Rows(i) == {s \in Source : s[1] = i}
Transactions == {t \in Source : home[t] # None}

Class == {"new", "duplicate", "possible_duplicate", "conflict"}
Doubtful == {"possible_duplicate", "conflict"}
Decision == {"pending", "confirmed", "rejected", "skipped"}
Match == [class : Class, decision : Decision, candidate : Source \cup {None}]

Analyzed(i) == \A s \in Rows(i) : match[s] # None

Init ==
    /\ status = [i \in Import |-> "absent"]
    /\ account = [i \in Import |-> None]
    /\ match = [s \in Source |-> None]
    /\ home = [s \in Source |-> None]
    /\ link = [s \in Source |-> None]
    /\ accounts = {} /\ stale = {}

\* The preview of an upload is stored.
Save(i) ==
    /\ status[i] = "absent"
    /\ status' = [status EXCEPT ![i] = "previewed"]
    /\ UNCHANGED <<account, match, home, link, accounts, stale>>

-----------------------------------------------------------------------------
\* resolveAccount: the accounts the statement may belong to; more than one is
\* an error.
Resolved(i) == {a \in accounts : Mask[i] = NoMask \/ Mask[a] = Mask[i]}

\* matchSourceRows.  Rows whose reference is known go to a transaction with that
\* reference, one with the same fingerprint if there is one.
Known(s, existing) == {t \in existing : Row(t).reference = Row(s).reference}

FaultyExact(s, existing) == Known(s, existing)   \* fault: the reference is enough

Exact(s, existing) ==
    {t \in Known(s, existing) : Row(t).fingerprint = Row(s).fingerprint}

ByReference(i, existing, m) ==
    \A s \in Rows(i) : Known(s, existing) # {} =>
        m[s] \in IF Exact(s, existing) # {} THEN Exact(s, existing) ELSE Known(s, existing)

\* The other rows take, in their order, a transaction with their fingerprint
\* that no other row of the statement has taken.
ByFingerprint(i, existing, m) ==
    LET others == {s \in Rows(i) : Known(s, existing) = {}}
        alike(s) == {t \in existing : Row(t).fingerprint = Row(s).fingerprint}
        before(s) == {m[r] : r \in (Rows(i) \ others) \cup {r \in others : r[2] < s[2]}}
    IN \A s \in others :
           IF alike(s) \subseteq before(s) THEN m[s] = None
                                           ELSE m[s] \in alike(s) \ before(s)

Matched(s, existing, candidate) ==
    LET class == IF candidate = None THEN "new"
                 ELSE IF Known(s, existing) = {} THEN "possible_duplicate"
                 ELSE IF candidate \in Exact(s, existing) THEN "duplicate"
                 ELSE "conflict"
    IN [class |-> class, candidate |-> candidate,
        decision |-> IF class \in Doubtful THEN "pending" ELSE "confirmed"]

\* analyze, with the account the user chose (requested) or the one the statement
\* resolves to; the decisions of an earlier analysis are dropped.
Analyze(i, requested) ==
    /\ status[i] = "previewed"
    /\ requested \in accounts \/ (requested = None /\ Cardinality(Resolved(i)) <= 1)
    /\ LET chosen == IF requested # None THEN {requested} ELSE Resolved(i)
           existing == {t \in Transactions : home[t] \in chosen}
       IN /\ account' = [account EXCEPT ![i] = IF chosen = {} THEN None
                                               ELSE CHOOSE a \in chosen : TRUE]
          /\ \E m \in [Rows(i) -> existing \cup {None}] :
                /\ ByReference(i, existing, m) /\ ByFingerprint(i, existing, m)
                /\ match' = [s \in Source |-> IF s \in Rows(i)
                                              THEN Matched(s, existing, m[s])
                                              ELSE match[s]]
    /\ stale' = stale \ {i}
    /\ UNCHANGED <<status, home, link, accounts>>

DecisionFor(action) ==
    CASE action = "confirm_duplicate" -> "confirmed"
      [] action = "keep_separate" -> "rejected"
      [] action = "skip" -> "skipped"

\* applyDecisions, one doubtful row at a time; a duplicate whose candidate is
\* gone cannot be confirmed (a CHECK constraint of the table).
Decide(s, action) ==
    /\ status[s[1]] = "previewed" /\ match[s] # None
    /\ match[s].class \in Doubtful
    /\ action = "confirm_duplicate" => match[s].candidate # None
    /\ match' = [match EXCEPT ![s].decision = DecisionFor(action)]
    /\ UNCHANGED <<status, account, home, link, accounts, stale>>

\* The account a commit books into: the analysed one, the one that exists by
\* now, or a new one.  Two of them are an error.
Accounts(i) ==
    IF account[i] # None THEN {account[i]}
    ELSE IF Resolved(i) # {} THEN Resolved(i) ELSE {i}

FaultyLinks(s) ==        \* fault: books certain duplicates again
    /\ match[s].decision = "confirmed" /\ match[s].candidate # None
    /\ match[s].class # "duplicate"

Links(s) == match[s].decision = "confirmed" /\ match[s].candidate # None

\* The other imports that are analysed and not committed.
Waiting(i) == {j \in Import \ {i} : status[j] = "previewed" /\ Analyzed(j)}

\* commit
Commit(i) ==
    /\ status[i] = "previewed" /\ Analyzed(i)
    /\ \A s \in Rows(i) : match[s].decision # "pending"
    /\ Cardinality(Accounts(i)) = 1
    /\ LET into == CHOOSE a \in Accounts(i) : TRUE
           booked == {s \in Rows(i) : match[s].decision # "skipped"}
           created == {s \in booked : ~Links(s)}
       IN /\ accounts' = accounts \cup {into}
          /\ account' = [account EXCEPT ![i] = into]
          /\ home' = [s \in Source |-> IF s \in created THEN into ELSE home[s]]
          /\ link' = [s \in Source |-> IF s \in created THEN s
                                       ELSE IF s \in booked THEN match[s].candidate
                                       ELSE link[s]]
    /\ status' = [status EXCEPT ![i] = "committed"]
    /\ stale' = stale \cup Waiting(i)
    /\ UNCHANGED match

FaultyOrphans(i) == {}   \* fault: deletes the import only

\* The transactions that lose their last source with import i.
Orphans(i) ==
    {t \in Transactions : /\ \E s \in Rows(i) : link[s] = t
                          /\ \A s \in Source \ Rows(i) : link[s] # t}

\* deleteImport.  Decisions whose candidate goes lose it (ON DELETE SET NULL),
\* which the CHECK constraint allows for rejected and skipped ones only: with
\* any other the whole deletion is rolled back as IMPORT_DELETE_BLOCKED.
Blocked(i) ==
    \E s \in Source \ Rows(i) :
        /\ match[s] # None /\ match[s].candidate \in Orphans(i)
        /\ match[s].decision \in {"pending", "confirmed"}

Delete(i) ==
    /\ status[i] \in {"previewed", "committed"}
    /\ ~Blocked(i)
    /\ status' = [status EXCEPT ![i] = "deleted"]
    /\ account' = [account EXCEPT ![i] = None]
    /\ match' = [s \in Source |->
                   IF s \in Rows(i) THEN None
                   ELSE IF match[s] # None /\ match[s].candidate \in Orphans(i)
                   THEN [match[s] EXCEPT !.candidate = None] ELSE match[s]]
    /\ home' = [s \in Source |-> IF s \in Orphans(i) THEN None ELSE home[s]]
    /\ link' = [s \in Source |-> IF s \in Rows(i) THEN None ELSE link[s]]
    /\ stale' = stale \cup Waiting(i)
    /\ UNCHANGED accounts

Next ==
    \E i \in Import :
        \/ Save(i)
        \/ \E requested \in accounts \cup {None} : Analyze(i, requested)
        \/ \E s \in Rows(i), action \in {"confirm_duplicate", "keep_separate", "skip"} :
              Decide(s, action)
        \/ Commit(i)
        \/ Delete(i)

Spec == Init /\ [][Next]_vars

-----------------------------------------------------------------------------
\* The variables have the column types of the tables.
TypeOK ==
    /\ status \in [Import -> {"absent", "previewed", "committed", "deleted"}]
    /\ account \in [Import -> Import \cup {None}]
    /\ match \in [Source -> Match \cup {None}]
    /\ home \in [Source -> Import \cup {None}]
    /\ link \in [Source -> Source \cup {None}]
    /\ accounts \subseteq Import
    /\ stale \subseteq Import

\* Every transaction is evidenced by a row of an import that still exists, and
\* every row of a committed import is booked, unless the user skipped it: what
\* is deleted goes with its last source and no sooner.
BooksMatchSources ==
    /\ \A t \in Transactions : \E s \in Source : link[s] = t
    /\ \A s \in Source :
          /\ link[s] # None => link[s] \in Transactions /\ status[s[1]] = "committed"
          /\ status[s[1]] = "committed" /\ match[s].decision # "skipped" => link[s] # None

\* A row is only booked on a transaction it differs from when the user said so.
NoSilentMerge ==
    \A s \in Source :
        link[s] # None /\ Row(link[s]).fingerprint # Row(s).fingerprint
            => match[s].class = "conflict" /\ match[s].decision = "confirmed"

\* Two transactions of one account are the same bank entry, read in two statements.
BookedTwice(t, u) == t[1] # u[1] /\ home[t] = home[u] /\ Row(t) = Row(u)

\* Overlap rows are not booked twice, whatever the user decides, as long as no
\* import of the two was overtaken by another between its analysis and its commit.
FreshImportsNotDoubled ==
    \A t, u \in Transactions :
        BookedTwice(t, u) => t[1] \in stale \/ u[1] \in stale

=============================================================================
