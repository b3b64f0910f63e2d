----------------------------- MODULE MCUploads -----------------------------
EXTENDS Uploads

CONSTANTS r1, r2

Entry(reference, hour, direction, amount, lines) ==
    [reference |-> reference, day |-> 3, hour |-> hour, direction |-> direction,
     amount |-> amount, lines |-> lines]

\* Midnight and noon are where a twelve hour clock goes wrong.
Entries1 == {Entry(1, 0, "credit", 3, n) : n \in {1, 3, 7}}
Entries2 == {Entry(2, 12, "debit", 2, n) : n \in {1, 2, 4}} \cup Entries1
Savings == <<Entry(3, 15, "credit", 5, 1)>>

Statement(layout, pages, savings) ==
    [layout |-> layout, pages |-> pages, savings |-> savings, missing |-> {},
     account |-> <<"digits", 4321, 10>>, inflow |-> 3, outflow |-> 2]

Statements ==
    {Statement(layout, <<<<a, b>>>>, <<>>) :
        layout \in {"palmpay", "wide", "compact"}, a \in Entries1, b \in Entries2}
    \cup {Statement("palmpay", <<<<a>>, <<b>>>>, <<>>) : a \in Entries1, b \in Entries2}
    \cup {Statement("wide", <<<<a>>, <<b>>>>, Savings) : a \in Entries1, b \in Entries2}
    \cup {[Statement(layout, <<<<Entry(1, 0, "credit", 3, 1)>>>>, <<>>) EXCEPT !.missing = {name}] :
              layout \in {"palmpay", "wide"},
              name \in {"Total Money In", "Account Number", "Total Debit", "Period:"}}
    \cup {Statement("palmpay", <<page>>, <<>>) : page \in {<<>>, <<Entry(1, 0, "credit", 0, 1)>>}}
    \cup {Statement(layout, <<<<Entry(1, 0, "credit", 3, 3)>>>>, <<>>) : layout \in {"other", "scan"}}

Sound(s) == [statement |-> s, pdf |-> "sound", pieces |-> 1]
Plain == Statement("palmpay", <<<<Entry(1, 0, "credit", 3, 1)>>>>, <<>>)

\* One request sends anything, the other what can collide with it.
Files ==
    {Sound(s) : s \in Statements}
    \cup {[Sound(Plain) EXCEPT !.pieces = n] : n \in {0, 2, 3}}
    \cup {[Sound(Plain) EXCEPT !.pdf = p] :
             p \in {"PDF_INVALID_SIGNATURE", "PDF_ENCRYPTED", "PDF_MALFORMED"}}
    \cup {Sound(Statement("palmpay", <<<<>>, <<>>, <<>>>>, <<>>))}

Narrow == CHOOSE s \in Statements : s.layout = "compact"

Sends == [r \in Request |-> IF r = r1 THEN Files ELSE {Sound(Plain), Sound(Narrow)}]
=============================================================================
