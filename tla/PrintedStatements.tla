-------------------------- MODULE PrintedStatements --------------------------
(***************************************************************************)
(* Statements as the two banks print them, after the fixtures of the tests *)
(* (apps/server/test/palmpay-fixture.ts, opay-fixture.ts): what the        *)
(* parsers of module Statements have to read, and what they should make of *)
(* it.  A statement is a record: its layout, its pages of entries (and for *)
(* OPay those of the savings account, after the wallet's), the declared    *)
(* totals, the account and the header fields that are missing.  An entry   *)
(* is printed over as many lines as its narration needs; the timestamp and *)
(* the amount are on the middle line.                                      *)
(***************************************************************************)
EXTENDS Statements

Heading(x, y, name) == [x |-> x, y |-> y, width |-> 40, text |-> Label(name)]
Item(x, y, token) == [x |-> x, y |-> y, width |-> 40, text |-> <<token>>]

\* Line i of n, around y, with so many points between two lines.
Line(y, i, n, spacing) == y + (spacing * (n + 1 - 2 * i)) \div 2

\* A reference too long for its column is printed in two lines.
Reference(x, y, e, spacing) ==
    IF e.lines = 1
    THEN <<[x |-> x, y |-> y, width |-> 90,
            text |-> << <<"ref", e.reference, 1>>, <<"ref", e.reference, 2>> >>]>>
    ELSE [i \in 1..2 |-> Item(x, Line(y, i, 2, spacing), <<"ref", e.reference, i>>)]

Narration(x, y, e, spacing) ==
    [i \in 1..e.lines |-> Item(x, Line(y, i, e.lines, spacing), <<"word", e.reference, i>>)]

\* The middle lines of the entries of a page, from the top of the table down; the
\* height of an entry is its lines and a padding.
Middles(entries, top, spacing, padding) ==
    LET height(n) == spacing * entries[n].lines + padding
        above[n \in 0..Len(entries)] == IF n = 0 THEN 0 ELSE above[n - 1] + height(n)
    IN [n \in DOMAIN entries |-> top - above[n - 1] - height(n) \div 2]

Hour12(hour) == IF hour % 12 = 0 THEN 12 ELSE hour % 12

-----------------------------------------------------------------------------
\* PalmPay: eight points a line, labels with their values on the first page.
PalmPayEntry(e, y) ==
    <<Item(26, y, <<IF e.hour < 12 THEN "AM" ELSE "PM", e.day, Hour12(e.hour)>>)>>
    \o Narration(139, y, e, 8)
    \o <<Item(IF e.direction = "credit" THEN 252 ELSE 371, y, <<"amount", e.amount, 0>>)>>
    \o Reference(476, y, e, 8)

PalmPayHeader(s) ==
    LET field(x, at, y, name, token) ==
            <<Heading(x, y, name)>> \o IF name \in s.missing THEN <<>> ELSE <<Item(at, y, token)>>
    IN <<Heading(26, 740, "palmpay.com"), Heading(26, 694, "Account Statement")>>
       \o field(359, 500, 677, "Account Number", s.account)
       \o field(26, 139, 660, "Total Money In", <<"amount", s.inflow, 0>>)
       \o field(359, 477, 660, "Statement Period", <<"period", 1, 30>>)
       \o field(26, 139, 645, "Total Money Out", <<"amount", s.outflow, 0>>)

PalmPayPage(entries) ==
    LET y == Middles(entries, 590, 8, 16)
    IN <<Heading(26, 614, "Transaction Date"), Heading(139, 614, "Transaction Detail"),
         Heading(252, 614, "Money In (NGN)"), Heading(371, 614, "Money Out (NGN)"),
         Heading(476, 614, "Transaction ID")>>
       \o FlattenSeq([n \in DOMAIN entries |-> PalmPayEntry(entries[n], y[n])])

\* OPay: twelve points a line, values under their labels; the columns are narrower
\* in the compact layout.
OPayEntry(e, y, x) ==
    LET credit == e.direction = "credit"
        amount == <<"amount", e.amount, 0>>
    IN <<Item(71, y, <<"clock", e.day, e.hour>>), Item(x.date, y, <<"date", e.day, 0>>)>>
       \o Narration(180, y, e, 12)
       \o <<Item(x.debit, y, IF credit THEN <<"dash", 0, 0>> ELSE amount),
            Item(x.credit, y, IF credit THEN amount ELSE <<"dash", 0, 0>>),
            Item(x.balance, y, <<"amount", 7 * e.amount, 0>>)>>
       \o Reference(x.reference, y, e, 12)

OPayColumns(layout) ==
    IF layout = "compact"
    THEN [date |-> 140, debit |-> 255, credit |-> 290, balance |-> 335, reference |-> 450]
    ELSE [date |-> 132, debit |-> 301, credit |-> 339, balance |-> 378, reference |-> 477]

OPayHeader(s) ==
    LET field(x, y, name, token) ==
            <<Heading(x, y, name)>> \o IF name \in s.missing THEN <<>>
                                       ELSE <<Item(x + 4, y - 10, token)>>
    IN <<Heading(66, 720, "OPay"), Heading(241, 686, "Account Statement")>>
       \o field(224, 646, "Account Number", s.account)
       \o <<Heading(66, 579, "Wallet Account"), Heading(224, 580, "Period:")>>
       \o (IF "Period:" \in s.missing THEN <<>> ELSE <<Item(268, 580, <<"period", 1, 30>>)>>)
       \o field(66, 551, "Opening Balance", <<"amount", 0, 0>>)
       \o field(224, 551, "Total Debit", <<"amount", s.outflow, 0>>)
       \o field(224, 515, "Total Credit", <<"amount", s.inflow, 0>>)

OPayTable(entries, top, layout) ==
    LET y == Middles(entries, top, 12, 28)
        x == OPayColumns(layout)
    IN FlattenSeq([n \in DOMAIN entries |-> OPayEntry(entries[n], y[n], x)])

\* The savings account follows the wallet's last page, under a heading.
OPayPage(s, p) ==
    LET table == OPayTable(s.pages[p], 446, s.layout)
        x == OPayColumns(s.layout)
        headings == <<Heading(71, 458, "Trans. Time"), Heading(x.date, 458, "Value Date"),
                      Heading(x.balance, 458, "Balance After"),
                      Heading(x.reference, 458, "Transaction Reference")>>
    IN headings \o table
       \o IF p < Len(s.pages) \/ s.savings = <<>> THEN <<>>
          ELSE <<Heading(66, 190, "Savings Account")>> \o OPayTable(s.savings, 160, s.layout)

-----------------------------------------------------------------------------
\* The items of a statement, page by page: also of one of another bank (its table
\* like PalmPay's) and of a scanned one.
Printed(s) ==
    LET page(p) == CASE s.layout \in {"wide", "compact"} -> OPayPage(s, p)
                     [] s.layout \in {"palmpay", "other"} -> PalmPayPage(s.pages[p])
                     [] s.layout = "scan" -> <<>>
        header == CASE s.layout \in {"wide", "compact"} -> OPayHeader(s)
                    [] s.layout = "palmpay" -> PalmPayHeader(s)
                    [] s.layout \in {"scan", "other"} -> <<>>
    IN [p \in DOMAIN s.pages |-> IF p = 1 THEN header \o page(1) ELSE page(p)]

Width(s) == IF s.layout = "palmpay" THEN 595 ELSE 612

\* What a reader of the paper takes from it.
Written(e) ==
    [reference |-> << <<"ref", e.reference, 1>>, <<"ref", e.reference, 2>> >>,
     at |-> 24 * e.day + e.hour - 1, direction |-> e.direction, amount |-> e.amount,
     narration |-> [i \in 1..e.lines |-> <<"word", e.reference, i>>]]

\* The entries of the wallet, without those that repeat an earlier one.
WrittenRows(s) ==
    LET all == FlattenSeq(s.pages)
    IN {Written(all[n]) : n \in DOMAIN all}

WrittenTotal(s, direction) ==
    LET of == {r \in WrittenRows(s) : r.direction = direction}
    IN FoldSet(LAMBDA r, sum : sum + r.amount, 0, of)

\* The layouts the parsers can cope with.  OPay's reads three lines of an entry;
\* PalmPay's halves the distance between two entries, which is fair to both of
\* them while one has less than six lines more than the other, and expects five
\* lines of an entry that is alone on its page.
Legible(s) ==
    \A p \in DOMAIN s.pages :
        LET lines(n) == s.pages[p][n].lines
        IN IF s.layout = "palmpay"
           THEN /\ Len(s.pages[p]) = 1 => lines(1) <= 5
                /\ \A n \in 1..(Len(s.pages[p]) - 1) : Abs(lines(n) - lines(n + 1)) < 6
           ELSE \A n \in DOMAIN s.pages[p] : lines(n) <= 3
=============================================================================
