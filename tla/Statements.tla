----------------------------- MODULE Statements -----------------------------
(***************************************************************************)
(* Reading bank statements (apps/server/src/imports): the items of a PDF   *)
(* page, which know their place and nothing else, are put together into    *)
(* rows.  A page is the sequence of its items, in the order of the file;   *)
(* an item is its text with x, y (upwards) and width, in points.  A text   *)
(* is a sequence of tokens <<sort, n, m>>: a label of the statement, a     *)
(* word, a piece of a bank reference, "amount" (in minor units), "dash",   *)
(* the "digits" of an account (their last four, and how many), "period",   *)
(* or a timestamp, "AM" and "PM" (day, hour) in PalmPay's statements and   *)
(* "clock" (day, hour of 24) in OPay's.                                    *)
(***************************************************************************)
EXTENDS Integers, Sequences, SequencesExt

CONSTANT Null

Abs(n) == IF n < 0 THEN -n ELSE n
Higher(a, b) == a.y > b.y
Leftmost(a, b) == a.x < b.x
Label(name) == << <<name, 0, 0>> >>
Texts(items) == FlattenSeq([i \in DOMAIN items |-> items[i].text])

\* normalizeSourceTimestamp: Lagos is one hour ahead of UTC.
Utc(day, hour) == 24 * day + hour - 1

\* joinColumn: the texts between two x, line by line; what is on one line may be
\* a point apart.
InReadingOrder(a, b) == IF Abs(b.y - a.y) > 1 THEN a.y > b.y ELSE a.x < b.x

Column(items, from, to) ==
    Texts(SortSeq(SelectSeq(items, LAMBDA i : i.x >= from /\ i.x < to), InReadingOrder))

\* deduplicateExactTransactions: a row repeated in all its fields is one row.
Entries(rows) ==
    LET first == SelectSeq([n \in DOMAIN rows |-> n],
                           LAMBDA n : \A m \in 1..(n - 1) : rows[m] # rows[n])
    IN [n \in DOMAIN first |-> rows[first[n]]]

\* sumDirection
Total(rows, direction) ==
    FoldLeft(LAMBDA sum, r : IF r.direction = direction THEN sum + r.amount ELSE sum,
             0, rows)

\* parseMoneyToMinorUnits of a text without its currency sign, where it can be
\* read.
IsMoney(text) == Len(text) = 1 /\ text[1][1] = "amount"
Minor(text) == text[1][2]

\* maskAccountNumber: the last four digits, if there are four.
Masked(text) == IF text[1][3] >= 4 THEN text[1][2] ELSE 0

IsPeriod(text) == Len(text) = 1 /\ text[1][1] = "period"

\* A row that has been put together; a cell without an amount is <<>>.
Complete(r) ==
    /\ r.narration # <<>> /\ r.reference # <<>>
    /\ (r.inflow = <<>>) # (r.outflow = <<>>)

Readable(r) ==
    LET amount == r.inflow \o r.outflow
    IN Complete(r) /\ IsMoney(amount) /\ Minor(amount) # 0

Transaction(r) ==
    [reference |-> r.reference, at |-> r.at, narration |-> r.narration,
     direction |-> IF r.inflow # <<>> THEN "credit" ELSE "debit",
     amount |-> Minor(r.inflow \o r.outflow)]

Refused(code) == [error |-> code]

\* What both parsers return: rows are the rows of all pages, the header fields
\* are texts.
Normalized(rows, inflow, outflow, account) ==
    LET entries == Entries([n \in DOMAIN rows |-> Transaction(rows[n])])
        parsed == <<Total(entries, "credit"), Total(entries, "debit")>>
    IN [error |-> Null, transactions |-> entries, parsed |-> parsed,
        mask |-> IF account = <<>> THEN Null ELSE Masked(account),
        status |-> IF parsed = <<Minor(inflow), Minor(outflow)>>
                   THEN "matched" ELSE "mismatched"]

-----------------------------------------------------------------------------
\* PalmPay.  optionalHeaderValue: the first text to the right of a label.
PalmPayField(page, name) ==
    LET labels == SelectSeq(page, LAMBDA i : i.text = Label(name))
        right(l) == SortSeq(SelectSeq(page, LAMBDA i : /\ Abs(i.y - l.y) <= 2
                                                       /\ i.x > l.x + l.width), Leftmost)
    IN IF labels = <<>> \/ right(labels[1]) = <<>> THEN <<>> ELSE right(labels[1])[1].text

\* normalizePalmPayTimestamp: hours of a twelve hour clock.
Hour24(half, hour) ==
    IF half = "AM" THEN IF hour = 12 THEN 0 ELSE hour
                   ELSE IF hour = 12 THEN 12 ELSE hour + 12

FaultyBand(anchors, n) ==   \* fault: nothing below the last anchor
    LET y == anchors[n].y
        upper == IF n = 1 THEN 2 * y + 40 ELSE anchors[n - 1].y + y
    IN [upper |-> upper,
        lower |-> IF n = Len(anchors) THEN 2 * y - 1 ELSE y + anchors[n + 1].y]

\* The band of a row reaches halfway to the anchors above and below it, and at
\* the ends of the page as far as on the other side, at least 20 points.  Doubled.
Band(anchors, n) ==
    LET y == anchors[n].y
        last == n = Len(anchors)
        above == IF n = 1 THEN 40 ELSE anchors[n - 1].y - y
        below == IF last THEN 40 ELSE y - anchors[n + 1].y
    IN [upper |-> 2 * y + (IF n = 1 THEN Max({40, below}) ELSE above),
        lower |-> 2 * y - (IF last THEN Max({40, above}) ELSE below)]

\* parsePageRows
PalmPayRows(page) ==
    LET dated(i) == i.x < 125 /\ Len(i.text) = 1 /\ i.text[1][1] \in {"AM", "PM"}
        anchors == SortSeq(SelectSeq(page, dated), Higher)
        row(n) ==
            LET band == Band(anchors, n)
                items == SelectSeq(page, LAMBDA i : 2 * i.y <= band.upper /\ 2 * i.y > band.lower)
                time == anchors[n].text[1]
            IN [narration |-> Column(items, 125, 245), inflow |-> Column(items, 245, 360),
                outflow |-> Column(items, 360, 460), reference |-> Column(items, 460, 585),
                at |-> Utc(time[2], Hour24(time[1], time[3]))]
    IN [n \in DOMAIN anchors |-> row(n)]

\* parse
PalmPay(pages) ==
    LET field(name) == PalmPayField(pages[1], name)
        rows == FlattenSeq([p \in DOMAIN pages |-> PalmPayRows(pages[p])])
    IN IF ~(IsMoney(field("Total Money In")) /\ IsMoney(field("Total Money Out"))
            /\ IsPeriod(field("Statement Period")))
       THEN Refused("HEADER_INVALID")
       ELSE IF rows = <<>> \/ \E n \in DOMAIN rows : ~Readable(rows[n])
       THEN Refused("ROW_INVALID")
       ELSE Normalized(rows, field("Total Money In"), field("Total Money Out"),
                       field("Account Number"))

PalmPaySigns == {"Account Statement", "Transaction Date", "Money In (NGN)",
                 "Money Out (NGN)", "Transaction ID", "palmpay.com"}

-----------------------------------------------------------------------------
\* OPay.  belowLabelValue: the first line of text under a label.
OPayBelow(page, name) ==
    LET labels == SelectSeq(page, LAMBDA i : i.text = Label(name))
        under(l) == SelectSeq(page, LAMBDA i : /\ i.y < l.y /\ l.y - i.y <= 18
                                               /\ i.x >= l.x - 4 /\ i.x < l.x + 125)
        first(l) == SortSeq(under(l), Higher)[1].y
        line(l) == SelectSeq(under(l), LAMBDA i : Abs(i.y - first(l)) <= 2)
    IN IF labels = <<>> \/ under(labels[1]) = <<>> THEN <<>>
       ELSE Texts(SortSeq(line(labels[1]), Leftmost))

\* sameLineValue: the rest of the label's own text, or what is to its right.
OPaySameLine(page, name) ==
    LET labels == SelectSeq(page, LAMBDA i : i.text[1] = Label(name)[1])
        right(l) == SelectSeq(page, LAMBDA i : /\ Abs(i.y - l.y) <= 2
                                               /\ i.x > l.x + l.width)
    IN IF labels = <<>> THEN <<>>
       ELSE IF Len(labels[1].text) > 1 THEN Tail(labels[1].text)
       ELSE Texts(SortSeq(right(labels[1]), Leftmost))

\* moneyCell: a dash is an empty cell.
Cell(text) == IF \A n \in DOMAIN text : text[n][1] = "dash" THEN <<>> ELSE text

\* Narrow statements have the value date further right.
Compact(items) ==
    \E n \in DOMAIN items : /\ items[n].x >= 138 /\ items[n].x < 170
                            /\ Len(items[n].text) = 1 /\ items[n].text[1][1] = "date"

\* parsePageRows: a row is what is within 15 points of its timestamp.
OPayRows(page, bottom, width) ==
    LET dated(i) == /\ i.y > bottom /\ i.x >= 60 /\ i.x < 125
                    /\ Len(i.text) = 1 /\ i.text[1][1] = "clock"
        anchors == SortSeq(SelectSeq(page, dated), Higher)
        row(anchor) ==
            LET items == SelectSeq(page, LAMBDA i : Abs(i.y - anchor.y) <= 15)
                x == IF Compact(items) THEN <<250, 285, 330, 445>> ELSE <<290, 330, 370, 470>>
            IN [narration |-> Column(items, 170, x[1]), outflow |-> Cell(Column(items, x[1], x[2])),
                inflow |-> Cell(Column(items, x[2], x[3])), reference |-> Column(items, x[4], width),
                at |-> Utc(anchor.text[1][2], anchor.text[1][3])]
    IN [n \in DOMAIN anchors |-> row(anchors[n])]

\* walletTransactions: up to the heading of the savings account.
WalletRows(pages, width) ==
    LET heading(p) == SelectSeq(pages[p], LAMBDA i : i.text = Label("Savings Account"))
        read == {p \in DOMAIN pages : \A q \in 1..(p - 1) : heading(q) = <<>>}
        bottom(p) == IF heading(p) = <<>> THEN -1 ELSE heading(p)[1].y
    IN FlattenSeq([p \in read |-> OPayRows(pages[p], bottom(p), width)])

\* parse
OPay(pages, width) ==
    LET outflow == OPayBelow(pages[1], "Total Debit")
        inflow == OPayBelow(pages[1], "Total Credit")
        account == OPayBelow(pages[1], "Account Number")
        rows == WalletRows(pages, width)
    IN IF ~(IsMoney(inflow) /\ IsMoney(outflow) /\ account # <<>>
            /\ IsPeriod(OPaySameLine(pages[1], "Period:")))
       THEN Refused("HEADER_INVALID")
       ELSE IF rows = <<>> \/ \E n \in DOMAIN rows : ~Readable(rows[n])
       THEN Refused("ROW_INVALID")
       ELSE Normalized(rows, inflow, outflow, account)

OPaySigns == {"OPay", "Account Statement", "Wallet Account", "Value Date",
              "Balance After", "Transaction Reference"}

-----------------------------------------------------------------------------
\* detect: how many of six signs are on the first two pages.
Detected(pages, signs) ==
    Cardinality({s \in signs :
        \E p \in DOMAIN pages : /\ p <= 2
            /\ \E n \in DOMAIN pages[p] : \E t \in DOMAIN pages[p][n].text :
                   pages[p][n].text[t][1] = s})

\* selectParser: the surest parser, if it finds four fifths of its signs; PalmPay's
\* is the first of equals.  Then its parse.
Read(pages, width) ==
    LET palmpay == Detected(pages, PalmPaySigns)
        opay == Detected(pages, OPaySigns)
        items == FlattenSeq(pages)
    IN IF palmpay < 5 /\ opay < 5
       THEN Refused(IF Len(items) < 10 THEN "PDF_SCANNED" ELSE "PARSER_UNSUPPORTED")
       ELSE IF palmpay >= opay THEN PalmPay(pages) ELSE OPay(pages, width)
=============================================================================
