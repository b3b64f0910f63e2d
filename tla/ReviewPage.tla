------------------------------ MODULE ReviewPage ------------------------------
(***************************************************************************)
(* The review page of the web client (apps/web/src/pages/review-page.tsx)  *)
(* over the review queue of the server                                     *)
(* (packages/db/src/classification-review.ts): groups of transactions to   *)
(* decide on, ticks, the editor of a decision, the offer to undo the last  *)
(* one, and an AI run that is followed until its suggestions are there.    *)
(*                                                                         *)
(* The queue is one query (TanStack Query, external): fetched when the     *)
(* page comes up and it is missing or no longer fresh; invalidated, it is  *)
(* fetched anew and an answer under way is dropped - unless it is the      *)
(* first, which is kept and counts as fresh.  What a decision does to the  *)
(* ledger is in Ledger, what an AI run does in AiRuns: here a transaction  *)
(* is in the queue, with a suggestion or without, or it is not.            *)
(***************************************************************************)
EXTENDS Integers, Sequences, FiniteSets, FiniteSetsExt, Mutations

CONSTANTS
    Item,            \* transactions that may need review, in the order of their dates
    Kind,            \* what a group has in common: counterparty, conflict, narration
    Kin,             \* Kin[i]: the kind of item i
    Keyed,           \* kinds of which every group has the same key
    Conflict,        \* kinds whose rules contradict each other
    Hint,            \* suggestions
    Queued,          \* the queue when the page comes up for the first time
    Run,             \* AI classification jobs
    Tickable,        \* bound: the items the user may tick
    MaxTurns,        \* bound: requests sent, changes that others make, and visits
    Nothing

ASSUME ReviewAssumption ==
    /\ Item \subseteq Nat \ {0} /\ IsFiniteSet(Item) /\ Kin \in [Item -> Kind]
    /\ Conflict \subseteq Keyed /\ Keyed \subseteq Kind
    /\ Nothing \notin Hint \cup Run
    /\ \E ids \in SUBSET Item : Queued \in [ids -> Hint \cup {Nothing}]
    /\ \A ids \in SUBSET Item :
         /\ Nothing \notin [ids -> Hint \cup {Nothing}]
         /\ Nothing \notin [items : [ids -> Hint \cup {Nothing}], late : BOOLEAN, fresh : BOOLEAN]
    /\ Tickable \subseteq Item /\ MaxTurns \in Nat

VARIABLES
    queue,      \* server: the items to review and what is suggested for each
    actions,    \* server: the review actions, in order
    runs,       \* server: the AI jobs
    list,       \* the cached groups, and whether they are fresh
    reading,    \* the request for them, with the server's answer once it is given
    ticked,     \* selected: ticks, each under a group key
    editor,     \* the decision that is being made, of a group as it was shown then
    offer,      \* undoAction: the review action the page offers to undo
    looking,    \* is the page asking which job is active?
    followed,   \* aiJobId
    seen,       \* the status of that job as last polled
    sent,       \* mutations under way: sent, or handled and not yet answered
    turns,      \* tally, for the bound
    early,      \* history: the user ticked, or opened the editor, while groups were
                \* read or a request was under way
    shifted     \* history: others took an item out of the queue

queueVars == <<queue, actions, runs>>
query == <<list, reading>>
visit == <<ticked, editor, offer, looking, followed, seen>>
records == <<early, shifted>>
reviewVars == <<queueVars, query, visit, sent, turns, records>>

-----------------------------------------------------------------------------
(* The groups.  A group of like narrations is known by its first item. *)

KeyOf(q, i) ==
    [of |-> Kin[i],
     first |-> IF Kin[i] \in Keyed THEN 0 ELSE Min({j \in DOMAIN q : Kin[j] = Kin[i]})]

Groups(q) == {KeyOf(q, i) : i \in DOMAIN q}

Members(q, key) == {i \in DOMAIN q : KeyOf(q, i) = key}

Rows(q, key) == [i \in Members(q, key) |-> q[i]]

\* toReviewGroup: a suggestion all members share.
Common(q, key) ==
    LET hints == {q[i] : i \in Members(q, key)}
    IN  IF \E h \in Hint : hints = {h} THEN CHOOSE h \in Hint : hints = {h} ELSE Nothing

Without(q, ids) == [i \in DOMAIN q \ ids |-> q[i]]

Active(j) == runs[j].status = "running"

-----------------------------------------------------------------------------
(* The query of the groups. *)

Unanswered == [answer |-> Nothing, late |-> FALSE]

\* `late' marks, for the record, groups and answers from before a change that nobody
\* will correct.
LateList == IF list = Nothing THEN Nothing ELSE [list EXCEPT !.late = TRUE]
LateReading ==
    IF reading = Nothing \/ reading.answer = Nothing THEN reading
    ELSE [reading EXCEPT !.late = TRUE]

\* While there are no groups yet, the first read of them goes on, be it answered or
\* not; later ones are dropped for a new one.
Invalidated ==
    /\ list' = IF list = Nothing THEN Nothing ELSE [list EXCEPT !.fresh = FALSE]
    /\ reading' = IF list = Nothing /\ reading # Nothing THEN LateReading ELSE Unanswered

\* Another client changed the queue, or a job this page does not follow did:
\* nobody tells the page.
Unnoticed == list' = LateList /\ reading' = LateReading

ServeGroups ==
    /\ reading # Nothing /\ reading.answer = Nothing
    /\ reading' = [reading EXCEPT !.answer = [items |-> queue]]
    /\ UNCHANGED <<queueVars, list, visit, sent, turns, records>>

LandGroups ==
    /\ reading # Nothing /\ reading.answer # Nothing
    /\ list' = [items |-> reading.answer.items, late |-> reading.late, fresh |-> TRUE]
    /\ reading' = Nothing
    /\ UNCHANGED <<queueVars, visit, sent, turns, records>>

IsFresh == list # Nothing /\ list.fresh

\* The groups are on screen, and nothing that may change them is under way.
Quiet == IsFresh /\ reading = Nothing /\ sent = {}

OnPage == IF list = Nothing THEN {} ELSE Groups(list.items)

-----------------------------------------------------------------------------
(* The page. *)

ReviewInit ==
    /\ queue = Queued
    /\ actions = <<>>
    /\ runs = [j \in Run |-> [status |-> "none", of |-> {}]]
    /\ list = Nothing /\ reading = Unanswered
    /\ ticked = {} /\ editor = Nothing /\ offer = Nothing
    /\ looking = TRUE /\ followed = Nothing /\ seen = "none"
    /\ sent = {}
    /\ turns = 0
    /\ early = FALSE /\ shifted = FALSE

Turn == turns < MaxTurns /\ turns' = turns + 1

\* The job this page follows has made suggestions, and the page does not know yet.
Awaiting == followed # Nothing /\ seen = "running" /\ runs[followed].status = "succeeded"

\* The page is left and comes up again: its own state is gone, the cache is not,
\* and the answers of requests under way still refresh it.
ComeBack ==
    /\ Turn
    /\ ticked' = {} /\ editor' = Nothing /\ offer' = Nothing
    /\ looking' = TRUE /\ followed' = Nothing /\ seen' = "none"
    /\ sent' = {[m EXCEPT !.here = FALSE] : m \in sent}
    /\ list' = IF Awaiting THEN LateList ELSE list
    /\ \/ reading = Nothing /\ reading' = Unanswered
       \/ /\ reading = Nothing => IsFresh
          /\ reading' = IF Awaiting THEN LateReading ELSE reading
    /\ UNCHANGED <<queueVars, records>>

TicksOf(key) == {i \in Item : <<key, i>> \in ticked}

\* toggleSelected
Toggle(i) ==
    /\ list # Nothing /\ i \in DOMAIN list.items /\ editor = Nothing
    /\ LET tick == <<KeyOf(list.items, i), i>>
       IN  ticked' = IF tick \in ticked THEN ticked \ {tick} ELSE ticked \cup {tick}
    /\ early' = (early \/ ~Quiet)
    /\ UNCHANGED <<queueVars, query, editor, offer, looking, followed, seen, sent, turns, shifted>>

\* The buttons of a group: accept what is suggested for it, or choose.
OpenEditor(key, decision) ==
    /\ editor = Nothing /\ key \in OnPage
    /\ decision = "accept" => Common(list.items, key) # Nothing /\ key.of \notin Conflict
    /\ editor' = [key |-> key, decision |-> decision, ids |-> TicksOf(key),
                  shown |-> Rows(list.items, key)]
    /\ early' = (early \/ ~Quiet)
    /\ UNCHANGED <<queueVars, query, ticked, offer, looking, followed, seen, sent, turns, shifted>>

CloseEditor ==
    /\ editor # Nothing /\ editor' = Nothing
    /\ UNCHANGED <<queueVars, query, ticked, offer, looking, followed, seen, sent, turns, records>>

-----------------------------------------------------------------------------
(* Requests. *)

Waiting(kind) == \E m \in sent : m.kind = kind /\ m.here

Request == [of |-> turns, here |-> TRUE, done |-> FALSE, failed |-> FALSE, result |-> Nothing]

Ask(request) ==
    /\ Turn
    /\ ~Waiting(request.kind)
    /\ sent' = sent \cup {Spread(request, Request)}
    /\ UNCHANGED <<queueVars, query, visit, records>>

\* The queue this decision was made on, if it is the one the server has and the
\* group is still the one the editor shows.
Basis(key, shown) ==
    IF Quiet /\ list.items = queue /\ shown = Rows(queue, key) THEN queue ELSE Nothing

\* The button of the editor; the scope is what was ticked, or the group, now or
\* with the matches to come.
Apply(selected) ==
    /\ editor # Nothing /\ (selected => editor.ids # {})
    /\ Ask([kind |-> "apply", key |-> editor.key, decision |-> editor.decision,
            ids |-> IF selected THEN editor.ids ELSE {},
            base |-> Basis(editor.key, editor.shown)])

Ignore(key) ==
    /\ editor = Nothing /\ key \in OnPage
    /\ Ask([kind |-> "ignore", key |-> key, decision |-> "ignore", ids |-> {},
            base |-> Basis(key, Rows(list.items, key))])

UndoOffered ==
    /\ editor = Nothing /\ offer # Nothing
    /\ Ask([kind |-> "undo", action |-> offer])

\* selectedTransactionIds: all ticks that are on the page, or all that is.
ForSuggestions ==
    LET ticks == {tick[2] : tick \in ticked} \cap DOMAIN list.items
    IN  IF ticks = {} THEN DOMAIN list.items ELSE ticks

Suggest ==
    /\ editor = Nothing /\ list # Nothing /\ list.items # <<>> /\ seen # "running"
    /\ Ask([kind |-> "suggest", ids |-> ForSuggestions])

Stop ==
    /\ seen = "running"
    /\ Ask([kind |-> "stop", run |-> followed])

-----------------------------------------------------------------------------
(* What the server does with them. *)

Decides(m) == m.kind \in {"apply", "ignore"}

\* The items a decision is about, of those in the group by then.
Target(m) == IF m.ids = {} THEN Members(queue, m.key) ELSE m.ids

Rejected(m) ==
    CASE Decides(m) -> \/ Target(m) = {} \/ ~(Target(m) \subseteq Members(queue, m.key))
                       \/ m.decision = "accept" /\ Common(queue, m.key) = Nothing
      [] m.kind = "undo" -> actions[m.action].undone
      [] m.kind = "suggest" -> \E j \in Run : Active(j)
      [] m.kind = "stop" -> ~Active(m.run)

Reply(m, failed, result) ==
    sent' = (sent \ {m}) \cup {[m EXCEPT !.done = TRUE, !.failed = failed, !.result = result]}

\* applyDecision
Decide(m) ==
    /\ Decides(m) /\ ~Rejected(m)
    /\ queue' = Without(queue, Target(m))
    /\ actions' = Append(actions, [undone |-> FALSE,
                                   before |-> [i \in Target(m) |-> queue[i]]])
    /\ Reply(m, FALSE, Len(actions) + 1)
    /\ UNCHANGED runs

\* undoDecision: the items are back, with the suggestions they had.
UndoDecision(m) ==
    /\ m.kind = "undo" /\ ~Rejected(m)
    /\ queue' = Spread(actions[m.action].before, queue)
    /\ actions' = [actions EXCEPT ![m.action].undone = TRUE]
    /\ Reply(m, FALSE, Nothing)
    /\ UNCHANGED runs

StartRun(m) ==
    /\ m.kind = "suggest" /\ ~Rejected(m)
    /\ \E j \in Run :
        /\ runs[j].status = "none"
        /\ runs' = [runs EXCEPT ![j] = [status |-> "running", of |-> m.ids]]
        /\ Reply(m, FALSE, j)
    /\ UNCHANGED <<queue, actions>>

StopRun(m) ==
    /\ m.kind = "stop" /\ ~Rejected(m)
    /\ runs' = [runs EXCEPT ![m.run].status = "failed"]
    /\ Reply(m, FALSE, Nothing)
    /\ UNCHANGED <<queue, actions>>

HandleRequest(m) ==
    /\ m \in sent /\ ~m.done
    /\ \/ Decide(m) \/ UndoDecision(m) \/ StartRun(m) \/ StopRun(m)
       \/ Rejected(m) /\ Reply(m, TRUE, Nothing) /\ UNCHANGED queueVars
    /\ UNCHANGED <<query, visit, turns, records>>

-----------------------------------------------------------------------------
(* What the answers set off. *)

FaultyApplied(m) ==  \* fault: the ticks stay
    /\ editor' = Nothing /\ offer' = m.result
    /\ UNCHANGED <<ticked, looking, followed, seen>>

\* onApplied: whichever editor is open is closed, and all ticks go.
Applied(m) ==
    /\ editor' = Nothing /\ ticked' = {} /\ offer' = m.result
    /\ UNCHANGED <<looking, followed, seen>>

Ignored(m) ==
    /\ ticked' = {} /\ offer' = m.result
    /\ UNCHANGED <<editor, looking, followed, seen>>

Undone == offer' = Nothing /\ UNCHANGED <<ticked, editor, looking, followed, seen>>

Follow(j) ==
    followed' = j /\ seen' = "running" /\ UNCHANGED <<ticked, editor, offer, looking>>

\* The job that is over is left for another that is active, or that was when the
\* cache was last told.
MoveOn(status) ==
    \/ seen' = status /\ UNCHANGED <<ticked, editor, offer, looking, followed>>
    \/ \E j \in Run \ {followed} : runs[j].status # "none" /\ Follow(j)

Refreshes(m) == ~m.failed /\ (Decides(m) \/ m.kind = "undo")

FaultyRefresh ==  \* fault: no answer under way is dropped
    /\ list' = IF list = Nothing THEN Nothing ELSE [list EXCEPT !.fresh = FALSE]
    /\ reading' = IF reading = Nothing THEN Unanswered
                  ELSE IF list = Nothing THEN LateReading ELSE reading

\* refresh
Refresh == Invalidated

GetReply(m) ==
    /\ m \in sent /\ m.done /\ sent' = sent \ {m}
    /\ CASE m.failed \/ ~m.here -> UNCHANGED visit
         [] ~m.failed /\ m.here /\ m.kind = "apply" -> Applied(m)
         [] ~m.failed /\ m.here /\ m.kind = "ignore" -> Ignored(m)
         [] ~m.failed /\ m.here /\ m.kind = "undo" -> Undone
         [] ~m.failed /\ m.here /\ m.kind = "suggest" -> Follow(m.result)
         [] ~m.failed /\ m.here /\ m.kind = "stop" ->
                IF followed = m.run /\ seen = "running" THEN MoveOn("failed")
                ELSE UNCHANGED visit
    /\ IF Refreshes(m) THEN Refresh
       ELSE IF m.kind = "suggest" /\ ~m.failed /\ Awaiting THEN Unnoticed
       ELSE UNCHANGED query
    /\ UNCHANGED <<queueVars, turns, records>>

\* activeAiClassificationJob, asked when the page comes up: the job that is active,
\* if there is one and none is followed yet.
FollowActive ==
    /\ looking /\ looking' = FALSE
    /\ \/ /\ followed = Nothing
          /\ \E j \in Run : Active(j) /\ followed' = j /\ seen' = "running"
       \/ /\ followed # Nothing \/ \A j \in Run : ~Active(j)
          /\ UNCHANGED <<followed, seen>>
    /\ UNCHANGED <<queueVars, query, ticked, editor, offer, sent, turns, records>>

\* The job is polled every second until it is over; success refreshes the groups.
Poll ==
    /\ seen = "running" /\ ~Active(followed)
    /\ MoveOn(runs[followed].status)
    /\ IF runs[followed].status = "succeeded" THEN Invalidated ELSE UNCHANGED query
    /\ UNCHANGED <<queueVars, sent, turns, records>>

-----------------------------------------------------------------------------
(* The rest of the world. *)

\* A job stores its suggestions and succeeds; one that has lost its lease meanwhile
\* is tried again or has failed.
RunStores(j, h, status) ==
    /\ Active(j)
    /\ queue' = [i \in DOMAIN queue |-> IF i \in runs[j].of THEN h ELSE queue[i]]
    /\ runs' = [runs EXCEPT ![j].status = status]
    /\ IF status = "succeeded" /\ followed = j THEN UNCHANGED query ELSE Unnoticed
    /\ IF status = "running" THEN Turn
       ELSE UNCHANGED turns
    /\ UNCHANGED <<actions, visit, sent, records>>

RunFails(j) ==
    /\ Active(j)
    /\ runs' = [runs EXCEPT ![j].status = "failed"]
    /\ UNCHANGED <<queue, actions, query, visit, sent, turns, records>>

Elsewhere == Turn /\ Unnoticed

\* An import or another tab puts an item into the queue or takes one out.
Arrive(i, h) ==
    /\ i \notin DOMAIN queue /\ Elsewhere
    /\ queue' = Spread([x \in {i} |-> h], queue)
    /\ UNCHANGED <<actions, runs, visit, sent, records>>

Depart(i) ==
    /\ i \in DOMAIN queue /\ Elsewhere
    /\ queue' = Without(queue, {i})
    /\ shifted' = TRUE
    /\ UNCHANGED <<actions, runs, visit, sent, early>>

OthersRun(j) ==
    /\ Turn
    /\ runs[j].status = "none" /\ \A k \in Run : ~Active(k)
    /\ runs' = [runs EXCEPT ![j] = [status |-> "running", of |-> DOMAIN queue]]
    /\ UNCHANGED <<queue, actions, query, visit, sent, records>>

-----------------------------------------------------------------------------
Clicks ==
    \/ \E i \in Tickable : Toggle(i)
    \/ \E key \in OnPage : Ignore(key) \/ OpenEditor(key, "accept") \/ OpenEditor(key, "change")
    \/ CloseEditor
    \/ \E selected \in BOOLEAN : Apply(selected)
    \/ UndoOffered \/ Suggest \/ Stop
    \/ ComeBack

Replies ==
    \/ ServeGroups \/ LandGroups
    \/ \E m \in sent : HandleRequest(m) \/ GetReply(m)
    \/ Poll \/ FollowActive

Others ==
    \/ \E i \in Item, h \in Hint \cup {Nothing} : Arrive(i, h)
    \/ \E i \in Item : Depart(i)
    \/ \E j \in Run : RunFails(j) \/ OthersRun(j)
    \/ \E j \in Run, h \in Hint, status \in {"succeeded", "failed", "running"} :
            RunStores(j, h, status)

ReviewNext == Clicks \/ Replies \/ Others

ReviewSpec == ReviewInit /\ [][ReviewNext]_reviewVars

-----------------------------------------------------------------------------
\* The groups on the page are those of the server once every answer is in, and
\* once the AI run that is followed is known to be over, unless the queue was
\* changed behind the page, or they are the first, asked for before a change that the
\* page was told of while they were under way (refresh, the effect on the job's
\* status).
ListFollowsQueue ==
    (\A m \in sent : ~m.done) /\ ~Awaiting =>
        (IsFresh /\ ~list.late => list.items = queue)

\* A decision on the groups as the server has them is never refused: no tick or
\* editor from before is carried into it, unless something was ticked, or the editor
\* opened, while groups were read or a request was under way, or others took items
\* out of the queue.
DecisionsAreTaken ==
    ~early /\ ~shifted =>
        \A m \in sent : Decides(m) /\ ~m.done /\ m.base = queue => ~Rejected(m)
=============================================================================
