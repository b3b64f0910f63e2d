------------------------------- MODULE MCPages -------------------------------
(***************************************************************************)
(* Instances of the two pages for TLC.  The router shows one of them, so   *)
(* the runs of both are put side by side: a behaviour is one of either.    *)
(***************************************************************************)
EXTENDS TransactionsPage, ReviewPage

CONSTANTS food, fuel, j1

VARIABLE mounted   \* the page that is shown

\* The first two were made at the same time, one is the other side of the other.
Statements ==
    1 :> [occurredAt |-> 1, amount |-> 2, direction |-> "debit", account |-> 1]
      @@ 2 :> [occurredAt |-> 1, amount |-> 2, direction |-> "credit", account |-> 2]
      @@ 3 :> [occurredAt |-> 2, amount |-> 1, direction |-> "debit", account |-> 1]

Imported == 1 :> food @@ 2 :> food @@ 3 :> None
Typed == {[field |-> "category", value |-> fuel]}
Bulks == {[category |-> fuel]}

\* Two items of like narrations to review; conflicts of rules have a key of their own.
Kins == 1 :> "fare" @@ 2 :> "fare"
Waits == 1 :> food @@ 2 :> food

PagesInit == mounted \in {"transactions", "review"} /\ Init /\ ReviewInit

PagesNext ==
    /\ UNCHANGED mounted
    /\ \/ mounted = "transactions" /\ Next /\ UNCHANGED reviewVars
       \/ mounted = "review" /\ ReviewNext /\ UNCHANGED vars

PagesSpec == PagesInit /\ [][PagesNext]_<<mounted, vars, reviewVars>>
==============================================================================
