----------------------------- MODULE PagesProofs -----------------------------
(* Proofs about the two pages.                                                *)
EXTENDS TransactionsPage, ReviewPage, TLAPS, FiniteSetTheorems

Queues == UNION {[ids -> Hint \cup {Nothing}] : ids \in SUBSET Item}
Status == {"none", "running", "succeeded", "failed"}

-----------------------------------------------------------------------------
(* Records.                                                                   *)
LEMMA MarkedList ==
    ASSUME NEW l \in [items : Queues, late : BOOLEAN, fresh : BOOLEAN]
    PROVE  /\ LET n == [l EXCEPT !.fresh = FALSE]
              IN  /\ n \in [items : Queues, late : BOOLEAN, fresh : BOOLEAN]
                  /\ n.items = l.items /\ n.late = l.late /\ n.fresh = FALSE
           /\ LET n == [l EXCEPT !.late = TRUE]
              IN  /\ n \in [items : Queues, late : BOOLEAN, fresh : BOOLEAN]
                  /\ n.items = l.items /\ n.late = TRUE /\ n.fresh = l.fresh
OBVIOUS

LEMMA Answering ==
    ASSUME NEW m, NEW f, NEW r, {"kind", "here", "done", "failed", "result"} \subseteq DOMAIN m
    PROVE  LET n == [m EXCEPT !.done = TRUE, !.failed = f, !.result = r]
           IN  /\ DOMAIN n = DOMAIN m
               /\ n.done = TRUE /\ n.failed = f /\ n.result = r
               /\ \A x \in DOMAIN m \ {"done", "failed", "result"} : n[x] = m[x]
OBVIOUS

LEMMA Leaving ==
    ASSUME NEW m, "here" \in DOMAIN m
    PROVE  LET n == [m EXCEPT !.here = FALSE]
           IN  /\ DOMAIN n = DOMAIN m /\ n.here = FALSE
               /\ \A x \in DOMAIN m \ {"here"} : n[x] = m[x]
OBVIOUS

LEMMA NewRequest ==
    ASSUME NEW r, DOMAIN r \cap {"of", "here", "done", "failed", "result"} = {}
    PROVE  /\ DOMAIN Spread(r, Request) = DOMAIN r \cup {"of", "here", "done", "failed", "result"}
           /\ \A x \in DOMAIN r : Spread(r, Request)[x] = r[x]
           /\ Spread(r, Request).here = TRUE /\ Spread(r, Request).done = FALSE
           /\ Spread(r, Request).failed = FALSE
BY DEF Request, Spread


Undoable == [undone : BOOLEAN, before : Queues]

LEMMA UndoneAction ==
    ASSUME NEW a \in Seq(Undoable), NEW k \in DOMAIN a
    PROVE  LET b == [a EXCEPT ![k].undone = TRUE]
           IN  b \in Seq(Undoable) /\ DOMAIN b = DOMAIN a
<1> DEFINE r == [a[k] EXCEPT !.undone = TRUE]
           b == [a EXCEPT ![k] = r]
<1>1. a[k] \in Undoable /\ a \in [1..Len(a) -> Undoable] /\ Len(a) \in Nat /\ k \in 1..Len(a)
  OBVIOUS
<1>2. r \in Undoable
  BY <1>1 DEF Undoable
<1>3. b \in [1..Len(a) -> Undoable]
  BY <1>1, <1>2
<1>4. b \in Seq(Undoable) /\ DOMAIN b = DOMAIN a
  BY <1>1, <1>3
<1>5. b = [a EXCEPT ![k].undone = TRUE]
  OBVIOUS
<1>6. QED
  BY <1>4, <1>5

LEMMA AppendedAction ==
    ASSUME NEW a \in Seq(Undoable), NEW q \in Queues
    PROVE  LET b == Append(a, [undone |-> FALSE, before |-> q])
           IN  b \in Seq(Undoable) /\ DOMAIN a \subseteq DOMAIN b /\ Len(a) + 1 \in DOMAIN b
<1>1. \A u \in BOOLEAN : [undone |-> u, before |-> q] \in Undoable
  BY DEF Undoable
<1>2. [undone |-> FALSE, before |-> q] \in Undoable
  BY <1>1
<1>3. QED
  BY <1>2

LEMMA RunWithStatus ==
    ASSUME NEW r \in [Run -> [status : Status, of : SUBSET Item]], NEW j \in Run, NEW s \in Status
    PROVE  LET n == [r EXCEPT ![j].status = s]
           IN  /\ n \in [Run -> [status : Status, of : SUBSET Item]]
               /\ n[j].status = s /\ \A k \in Run \ {j} : n[k] = r[k]
OBVIOUS

LEMMA QueueOf ==
    ASSUME NEW q
    PROVE  /\ q \in Queues => /\ DOMAIN q \subseteq Item /\ q = [i \in DOMAIN q |-> q[i]]
                              /\ \A i \in DOMAIN q : q[i] \in Hint \cup {Nothing}
           /\ \A ids \in SUBSET Item : q \in [ids -> Hint \cup {Nothing}] => q \in Queues
BY DEF Queues

LEMMA NothingIsNoQueue == Nothing \notin Queues
BY ReviewAssumption DEF Queues

LEMMA WithoutIsQueue ==
    ASSUME NEW q \in Queues, NEW ids
    PROVE  Without(q, ids) \in Queues /\ DOMAIN Without(q, ids) = DOMAIN q \ ids
<1>1. DOMAIN q \ ids \in SUBSET Item
  BY QueueOf
<1>2. Without(q, ids) \in [DOMAIN q \ ids -> Hint \cup {Nothing}]
  BY QueueOf DEF Without
<1>3. QED
  BY <1>1, <1>2, QueueOf DEF Without

LEMMA SpreadIsQueue ==
    ASSUME NEW p \in Queues, NEW q \in Queues
    PROVE  Spread(p, q) \in Queues /\ DOMAIN Spread(p, q) = DOMAIN p \cup DOMAIN q
<1>1. DOMAIN p \cup DOMAIN q \in SUBSET Item
  BY QueueOf
<1>2. \A x \in DOMAIN p \cup DOMAIN q :
        (IF x \in DOMAIN p THEN p[x] ELSE q[x]) \in Hint \cup {Nothing}
  BY QueueOf
<1>3. Spread(p, q) \in [DOMAIN p \cup DOMAIN q -> Hint \cup {Nothing}]
  BY <1>2 DEF Spread
<1>4. QED
  BY <1>1, <1>3, QueueOf DEF Spread

LEMMA RestrictionIsQueue ==
    ASSUME NEW q \in Queues, NEW ids \in SUBSET DOMAIN q
    PROVE  [i \in ids |-> q[i]] \in Queues
<1>1. ids \in SUBSET Item
  BY QueueOf
<1>2. [i \in ids |-> q[i]] \in [ids -> Hint \cup {Nothing}]
  BY QueueOf
<1>3. QED
  BY <1>1, <1>2, QueueOf

-----------------------------------------------------------------------------
(* The review page: what its requests and the server's records look like.     *)
Common0 == {"kind", "here", "done", "failed", "result"}

Message(m) ==
    /\ Common0 \subseteq DOMAIN m
    /\ m.kind \in {"apply", "ignore", "undo", "suggest", "stop"}
    /\ Decides(m) => {"key", "decision", "ids", "base"} \subseteq DOMAIN m /\ m.ids \subseteq Item
    /\ m.kind = "undo" => "action" \in DOMAIN m
    /\ m.kind = "suggest" => "ids" \in DOMAIN m /\ m.ids \subseteq Item
    /\ m.kind = "stop" => "run" \in DOMAIN m /\ m.run \in Run

Answered(m) == m.done /\ ~m.failed

\* What a message refers to is there.
Refers(m) ==
    /\ m.kind = "undo" => m.action \in DOMAIN actions
    /\ Answered(m) =>
         /\ Decides(m) => m.result \in DOMAIN actions
         /\ m.kind = "suggest" => m.result \in Run /\ runs[m.result].status # "none"
         /\ m.kind = "stop" => runs[m.run].status = "failed"

Tables ==
    /\ queue \in Queues
    /\ actions \in Seq(Undoable)
    /\ runs \in [Run -> [status : Status, of : SUBSET Item]]

Shown0 ==
    /\ list # Nothing => list \in [items : Queues, late : BOOLEAN, fresh : BOOLEAN]
    /\ reading # Nothing =>
         /\ DOMAIN reading = {"answer", "late"} /\ reading.late \in BOOLEAN
         /\ reading.answer # Nothing => reading.answer \in [items : Queues]

FollowedInv ==
    /\ offer # Nothing => offer \in DOMAIN actions
    /\ followed # Nothing => /\ followed \in Run /\ runs[followed].status # "none"
                             /\ Active(followed) => seen = "running"
    /\ seen = "running" => followed # Nothing

SameHint(shown) == \E h \in Hint : {shown[i] : i \in DOMAIN shown} = {h}

EditorTyped ==
    editor # Nothing =>
        /\ editor.decision \in {"accept", "change"} /\ editor.ids \subseteq Item
        /\ editor.shown \in Queues /\ DOMAIN editor.shown # {}
        /\ editor.decision = "accept" => SameHint(editor.shown)

ReviewTypes ==
    /\ Tables
    /\ Shown0
    /\ FollowedInv
    /\ EditorTyped
    /\ \A m \in sent : Message(m) /\ Refers(m)

LEMMA ReviewTypesInit == ReviewInit => ReviewTypes
<1> SUFFICES ASSUME ReviewInit PROVE ReviewTypes
  OBVIOUS
<1> USE DEF ReviewInit
<1>1. queue \in Queues
  BY ReviewAssumption, QueueOf
<1>2. actions \in Seq(Undoable)
  OBVIOUS
<1>3. runs \in [Run -> [status : Status, of : SUBSET Item]]
  BY DEF Status
<1>4. Shown0
  <2>1. DOMAIN Unanswered = {"answer", "late"} /\ Unanswered.late = FALSE /\ Unanswered.answer = Nothing
    BY DEF Unanswered
  <2>2. QED
    BY <2>1 DEF Shown0
<1>5. FollowedInv /\ EditorTyped /\ \A m \in sent : Message(m) /\ Refers(m)
  BY DEF FollowedInv, EditorTyped
<1>6. QED
  BY <1>1, <1>2, <1>3, <1>4, <1>5 DEF ReviewTypes, Tables

\* The cached groups and the read of them, where only they change.
LEMMA LateListShown ==
    ASSUME Shown0, list' = LateList
    PROVE  /\ list' # Nothing => /\ list # Nothing
                                 /\ list' \in [items : Queues, late : BOOLEAN, fresh : BOOLEAN]
                                 /\ list'.late = TRUE /\ list'.items = list.items
                                 /\ list'.fresh = list.fresh
BY MarkedList DEF Shown0, LateList

LEMMA LateReadingShown ==
    ASSUME Shown0, reading' = LateReading
    PROVE  /\ reading' # Nothing =>
                 /\ reading # Nothing
                 /\ DOMAIN reading' = {"answer", "late"} /\ reading'.late \in BOOLEAN
                 /\ reading'.answer = reading.answer
                 /\ reading.answer # Nothing => reading'.late = TRUE
           /\ reading = Nothing => reading' = Nothing
<1>1. CASE reading = Nothing \/ reading.answer = Nothing
  BY <1>1 DEF LateReading, Shown0
<1>2. CASE reading # Nothing /\ reading.answer # Nothing
  <2> DEFINE n == [reading EXCEPT !.late = TRUE]
  <2>1. DOMAIN reading = {"answer", "late"}
    BY <1>2 DEF Shown0
  <2>2. DOMAIN n = DOMAIN reading /\ n.late = TRUE /\ n.answer = reading.answer
    BY <2>1
  <2>3. reading' = n
    BY <1>2 DEF LateReading
  <2>4. QED
    BY <1>2, <2>1, <2>2, <2>3
<1>3. QED
  BY <1>1, <1>2

LEMMA InvalidatedShown ==
    ASSUME Shown0, Invalidated
    PROVE  /\ Shown0'
           /\ list' # Nothing => list # Nothing /\ list'.fresh = FALSE
           /\ \/ reading'.answer = Nothing
              \/ list = Nothing /\ reading # Nothing /\ reading' = LateReading
<1>1. list # Nothing => /\ list' \in [items : Queues, late : BOOLEAN, fresh : BOOLEAN]
                        /\ list'.fresh = FALSE
  BY MarkedList DEF Invalidated, Shown0
<1>2. list = Nothing => list' = Nothing
  BY DEF Invalidated
<1>3. CASE list = Nothing /\ reading # Nothing
  <2>1. reading' = LateReading
    BY <1>3 DEF Invalidated
  <2>2. QED
    BY <1>2, <1>3, <2>1, LateReadingShown DEF Shown0
<1>4. CASE ~(list = Nothing /\ reading # Nothing)
  <2>1. reading' = Unanswered
    BY <1>4 DEF Invalidated
  <2>2. reading'.answer = Nothing /\ DOMAIN reading' = {"answer", "late"} /\ reading'.late = FALSE
    BY <2>1 DEF Unanswered
  <2>3. QED
    BY <1>1, <1>2, <2>2 DEF Shown0
<1>5. QED
  BY <1>3, <1>4

LEMMA UnnoticedShown == Shown0 /\ Unnoticed => Shown0'
<1> SUFFICES ASSUME Shown0, Unnoticed PROVE Shown0'
  OBVIOUS
<1>1. list' = LateList /\ reading' = LateReading
  BY DEF Unnoticed
<1>2. QED
  BY <1>1, LateListShown, LateReadingShown DEF Shown0

RunsGoOn ==
    \A j \in Run : /\ runs[j].status # "none" => runs'[j].status # "none"
                   /\ runs[j].status = "failed" => runs'[j].status = "failed"
                   /\ runs[j].status = "succeeded" => runs'[j].status = "succeeded"
                   /\ runs'[j].status = "running" => runs[j].status \in {"none", "running"}

ActionsGoOn == DOMAIN actions \subseteq DOMAIN actions'

LEMMA RefersFrame ==
    ASSUME NEW m, Message(m), Refers(m), RunsGoOn, ActionsGoOn
    PROVE  Refers(m)'
BY DEF Message, Refers, RunsGoOn, ActionsGoOn, Answered, Decides

LEMMA FollowedFrame ==
    ASSUME FollowedInv, RunsGoOn, ActionsGoOn, UNCHANGED <<offer, followed, seen>>
    PROVE  FollowedInv'
<1>1. offer' # Nothing => offer' \in DOMAIN actions'
  BY DEF FollowedInv, ActionsGoOn
<1>2. followed' # Nothing => /\ followed' \in Run /\ runs'[followed'].status # "none"
                             /\ Active(followed)' => seen' = "running"
  BY DEF FollowedInv, RunsGoOn, Active
<1>3. seen' = "running" => followed' # Nothing
  BY DEF FollowedInv
<1>4. QED
  BY <1>1, <1>2, <1>3 DEF FollowedInv, Active

LEMMA TablesFrame ==
    ASSUME UNCHANGED queueVars
    PROVE  RunsGoOn /\ ActionsGoOn /\ (Tables => Tables')
BY DEF queueVars, RunsGoOn, ActionsGoOn, Tables

LEMMA QueryFrame ==
    ASSUME UNCHANGED query
    PROVE  Shown0 => Shown0'
BY DEF query, Shown0

\* A message the server has handled.
LEMMA Handled ==
    ASSUME NEW m, Message(m), NEW f, NEW r,
           f = FALSE => /\ Decides(m) => r \in DOMAIN actions'
                        /\ m.kind = "suggest" => r \in Run /\ runs'[r].status # "none"
                        /\ m.kind = "stop" => runs'[m.run].status = "failed",
           m.kind = "undo" => m.action \in DOMAIN actions',
           f \in BOOLEAN,
           NEW n, n = [m EXCEPT !.done = TRUE, !.failed = f, !.result = r]
    PROVE  /\ Message(n) /\ Refers(n)'
           /\ n.kind = m.kind /\ n.done = TRUE /\ n.failed = f /\ n.result = r
           /\ n.here = m.here
<1>1. Common0 \subseteq DOMAIN m
  BY DEF Message
<1>2. /\ DOMAIN n = DOMAIN m /\ n.done = TRUE /\ n.failed = f /\ n.result = r
      /\ \A x \in DOMAIN m \ {"done", "failed", "result"} : n[x] = m[x]
  BY <1>1, Answering DEF Common0
<1>3. n.kind = m.kind /\ n.here = m.here
  BY <1>1, <1>2 DEF Common0
<1>4. Decides(n) = Decides(m)
  BY <1>3 DEF Decides
<1>5. Decides(m) => {"key", "decision", "ids", "base"} \subseteq DOMAIN n /\ n.ids \subseteq Item
  BY <1>2 DEF Message
<1>6. m.kind = "undo" => "action" \in DOMAIN n /\ n.action = m.action
  BY <1>2 DEF Message
<1>7. m.kind = "suggest" => "ids" \in DOMAIN n /\ n.ids \subseteq Item
  BY <1>2 DEF Message
<1>8. m.kind = "stop" => "run" \in DOMAIN n /\ n.run \in Run /\ n.run = m.run
  BY <1>2 DEF Message
<1>9. Message(n)
  BY <1>1, <1>2, <1>3, <1>4, <1>5, <1>6, <1>7, <1>8 DEF Message
<1>10. Refers(n)'
  BY <1>2, <1>3, <1>4, <1>6, <1>8 DEF Refers, Answered, Decides
<1>11. QED
  BY <1>2, <1>3, <1>9, <1>10

\* A message whose page was left.
LEMMA Abandoned ==
    ASSUME NEW m, Message(m), NEW n, n = [m EXCEPT !.here = FALSE]
    PROVE  /\ Message(n) /\ (Refers(m) => Refers(n))
           /\ n.here = FALSE /\ Answered(n) = Answered(m) /\ Refreshes(n) = Refreshes(m)
           /\ n.kind = m.kind /\ n.done = m.done /\ n.failed = m.failed
           /\ \A x \in DOMAIN m \ {"here"} : n[x] = m[x]
<1>1. Common0 \subseteq DOMAIN m
  BY DEF Message
<1>2. /\ DOMAIN n = DOMAIN m /\ n.here = FALSE
      /\ \A x \in DOMAIN m \ {"here"} : n[x] = m[x]
  BY <1>1, Leaving DEF Common0
<1>3. n.kind = m.kind /\ n.done = m.done /\ n.failed = m.failed /\ n.result = m.result
  BY <1>1, <1>2 DEF Common0
<1>4. Decides(n) = Decides(m)
  BY <1>3 DEF Decides
<1>5. Decides(m) => {"key", "decision", "ids", "base"} \subseteq DOMAIN n /\ n.ids \subseteq Item
  BY <1>2 DEF Message
<1>6. m.kind = "undo" => "action" \in DOMAIN n /\ n.action = m.action
  BY <1>2 DEF Message
<1>7. m.kind = "suggest" => "ids" \in DOMAIN n /\ n.ids \subseteq Item
  BY <1>2 DEF Message
<1>8. m.kind = "stop" => "run" \in DOMAIN n /\ n.run \in Run /\ n.run = m.run
  BY <1>2 DEF Message
<1>9. Message(n)
  BY <1>1, <1>2, <1>3, <1>4, <1>5, <1>6, <1>7, <1>8 DEF Message
<1>10. Answered(n) = Answered(m) /\ Refreshes(n) = Refreshes(m)
  BY <1>3 DEF Answered, Refreshes, Decides
<1>11. Refers(m) => Refers(n)
  BY <1>3, <1>4, <1>6, <1>8, <1>10 DEF Refers
<1>12. QED
  BY <1>2, <1>3, <1>9, <1>10, <1>11

\* A message just sent.
LEMMA JustSent ==
    ASSUME NEW r,
           "kind" \in DOMAIN r,
           DOMAIN r \cap {"of", "here", "done", "failed", "result"} = {},
           r.kind \in {"apply", "ignore", "undo", "suggest", "stop"},
           Decides(r) => {"key", "decision", "ids", "base"} \subseteq DOMAIN r /\ r.ids \subseteq Item,
           r.kind = "undo" => "action" \in DOMAIN r /\ r.action \in DOMAIN actions,
           r.kind = "suggest" => "ids" \in DOMAIN r /\ r.ids \subseteq Item,
           r.kind = "stop" => "run" \in DOMAIN r /\ r.run \in Run
    PROVE  LET n == Spread(r, Request)
           IN  /\ Message(n) /\ Refers(n)
               /\ n.here = TRUE /\ n.done = FALSE /\ n.failed = FALSE
               /\ \A x \in DOMAIN r : n[x] = r[x]
<1> DEFINE n == Spread(r, Request)
<1>1. /\ DOMAIN n = DOMAIN r \cup {"of", "here", "done", "failed", "result"}
      /\ \A x \in DOMAIN r : n[x] = r[x]
      /\ n.here = TRUE /\ n.done = FALSE /\ n.failed = FALSE
  BY NewRequest
<1>2. n.kind = r.kind
  BY <1>1
<1>3. Decides(n) = Decides(r)
  BY <1>2 DEF Decides
<1>4. Decides(r) => {"key", "decision", "ids", "base"} \subseteq DOMAIN n /\ n.ids \subseteq Item
  BY <1>1
<1>5. r.kind = "undo" => "action" \in DOMAIN n /\ n.action = r.action
  BY <1>1
<1>6. r.kind = "suggest" => "ids" \in DOMAIN n /\ n.ids \subseteq Item
  BY <1>1
<1>7. r.kind = "stop" => "run" \in DOMAIN n /\ n.run \in Run
  BY <1>1
<1>8. Message(n)
  BY <1>1, <1>2, <1>3, <1>4, <1>5, <1>6, <1>7 DEF Message, Common0
<1>9. Refers(n)
  BY <1>1, <1>2, <1>5 DEF Refers, Answered
<1>10. QED
  BY <1>1, <1>8, <1>9

-----------------------------------------------------------------------------
(* Every step keeps these types.                                              *)
LEMMA TypesServe == ReviewTypes /\ ServeGroups => ReviewTypes'
<1> SUFFICES ASSUME ReviewTypes, ServeGroups PROVE ReviewTypes'
  OBVIOUS
<1> USE DEF ServeGroups
<1>1. RunsGoOn /\ ActionsGoOn /\ Tables'
  BY TablesFrame DEF ReviewTypes
<1>2. FollowedInv'
  BY <1>1, FollowedFrame DEF ReviewTypes, visit
<1>3. EditorTyped' /\ \A m \in sent' : Message(m) /\ Refers(m)'
  BY <1>1, RefersFrame DEF ReviewTypes, visit, EditorTyped
<1>4. [items |-> queue] \in [items : Queues]
  BY DEF ReviewTypes, Tables
<1>5. DOMAIN reading = {"answer", "late"} /\ reading.late \in BOOLEAN
  BY DEF ReviewTypes, Shown0
<1>6. DOMAIN reading' = {"answer", "late"} /\ reading'.answer = [items |-> queue]
      /\ reading'.late = reading.late
  BY <1>5
<1>7. Shown0'
  BY <1>4, <1>5, <1>6 DEF ReviewTypes, Shown0
<1>8. QED
  BY <1>1, <1>2, <1>3, <1>7 DEF ReviewTypes

LEMMA TypesLand == ReviewTypes /\ LandGroups => ReviewTypes'
<1> SUFFICES ASSUME ReviewTypes, LandGroups PROVE ReviewTypes'
  OBVIOUS
<1> USE DEF LandGroups
<1>1. RunsGoOn /\ ActionsGoOn /\ Tables'
  BY TablesFrame DEF ReviewTypes
<1>2. FollowedInv'
  BY <1>1, FollowedFrame DEF ReviewTypes, visit
<1>3. EditorTyped' /\ \A m \in sent' : Message(m) /\ Refers(m)'
  BY <1>1, RefersFrame DEF ReviewTypes, visit, EditorTyped
<1>4. reading.answer.items \in Queues /\ reading.late \in BOOLEAN
  BY DEF ReviewTypes, Shown0
<1>5. \A l \in BOOLEAN : [items |-> reading.answer.items, late |-> l, fresh |-> TRUE]
                           \in [items : Queues, late : BOOLEAN, fresh : BOOLEAN]
  BY <1>4
<1>6. Shown0'
  BY <1>4, <1>5 DEF Shown0
<1>7. QED
  BY <1>1, <1>2, <1>3, <1>6 DEF ReviewTypes

LEMMA CommonHint ==
    ASSUME NEW q, NEW key, Common(q, key) # Nothing
    PROVE  \E h \in Hint : {q[i] : i \in Members(q, key)} = {h}
BY DEF Common

LEMMA ShownRows ==
    ASSUME NEW q \in Queues, NEW key
    PROVE  /\ Rows(q, key) \in Queues /\ DOMAIN Rows(q, key) = Members(q, key)
           /\ key \in Groups(q) => Members(q, key) # {}
           /\ Common(q, key) # Nothing => SameHint(Rows(q, key))
<1>1. Members(q, key) \in SUBSET DOMAIN q
  BY DEF Members
<1>2. Rows(q, key) \in Queues /\ DOMAIN Rows(q, key) = Members(q, key)
  BY <1>1, RestrictionIsQueue DEF Rows
<1>3. key \in Groups(q) => Members(q, key) # {}
  BY DEF Groups, Members
<1>4. {Rows(q, key)[i] : i \in DOMAIN Rows(q, key)} = {q[i] : i \in Members(q, key)}
  BY DEF Rows
<1>5. Common(q, key) # Nothing => SameHint(Rows(q, key))
  BY <1>4, CommonHint DEF SameHint
<1>6. QED
  BY <1>2, <1>3, <1>5

LEMMA TypesOpen ==
    ASSUME ReviewTypes, NEW key, NEW decision \in {"accept", "change"}, OpenEditor(key, decision)
    PROVE  ReviewTypes'
<1> USE DEF OpenEditor
<1>1. RunsGoOn /\ ActionsGoOn /\ Tables' /\ Shown0'
  BY TablesFrame, QueryFrame DEF ReviewTypes
<1>2. FollowedInv'
  BY <1>1, FollowedFrame DEF ReviewTypes
<1>3. \A m \in sent' : Message(m) /\ Refers(m)'
  BY <1>1, RefersFrame DEF ReviewTypes
<1>4. list # Nothing /\ list.items \in Queues /\ key \in Groups(list.items)
  BY DEF OnPage, ReviewTypes, Shown0
<1>5. TicksOf(key) \subseteq Item
  BY DEF TicksOf
<1>6. EditorTyped'
  BY <1>4, <1>5, ShownRows DEF EditorTyped
<1>7. QED
  BY <1>1, <1>2, <1>3, <1>6 DEF ReviewTypes

LEMMA TypesToggle ==
    ASSUME ReviewTypes, CloseEditor \/ \E i \in Tickable : Toggle(i)
    PROVE  ReviewTypes'
<1>1. UNCHANGED <<queueVars, query, offer, followed, seen, sent>> /\ (editor' = editor \/ editor' = Nothing)
  BY DEF CloseEditor, Toggle
<1>2. RunsGoOn /\ ActionsGoOn /\ Tables' /\ Shown0'
  BY <1>1, TablesFrame, QueryFrame DEF ReviewTypes
<1>3. FollowedInv'
  BY <1>1, <1>2, FollowedFrame DEF ReviewTypes
<1>4. \A m \in sent' : Message(m) /\ Refers(m)'
  BY <1>1, <1>2, RefersFrame DEF ReviewTypes
<1>5. EditorTyped'
  BY <1>1 DEF ReviewTypes, EditorTyped
<1>6. QED
  BY <1>2, <1>3, <1>4, <1>5 DEF ReviewTypes

\* What the page may ask for.
Asked(n) ==
    /\ sent' = sent \cup {n}
    /\ Message(n) /\ Refers(n)
    /\ n.here = TRUE /\ n.done = FALSE /\ n.failed = FALSE
    /\ UNCHANGED <<queueVars, query, visit, records>>

LEMMA ApplyAsks ==
    ASSUME ReviewTypes, NEW selected \in BOOLEAN, Apply(selected)
    PROVE  \E n : /\ Asked(n) /\ n.kind = "apply" /\ n.decision = editor.decision
                  /\ n.ids = IF selected THEN editor.ids ELSE {}
                  /\ n.key = editor.key /\ n.base = Basis(editor.key, editor.shown)
<1> DEFINE r == [kind |-> "apply", key |-> editor.key, decision |-> editor.decision,
                 ids |-> IF selected THEN editor.ids ELSE {},
                 base |-> Basis(editor.key, editor.shown)]
           n == Spread(r, Request)
<1>1. editor # Nothing /\ sent' = sent \cup {n} /\ UNCHANGED <<queueVars, query, visit, records>>
  BY DEF Apply, Ask
<1>2. r.ids \subseteq Item
  BY <1>1 DEF ReviewTypes, EditorTyped
<1>3. /\ Message(n) /\ Refers(n)
      /\ n.here = TRUE /\ n.done = FALSE /\ n.failed = FALSE
      /\ \A x \in DOMAIN r : n[x] = r[x]
  <2>1. DOMAIN r = {"kind", "key", "decision", "ids", "base"} /\ r.kind = "apply"
    OBVIOUS
  <2> HIDE DEF r
  <2>2. QED
    BY <1>2, <2>1, JustSent DEF Decides
<1>4. Asked(n)
  BY <1>1, <1>3 DEF Asked
<1>5. n.kind = r.kind /\ n.decision = r.decision /\ n.ids = r.ids /\ n.key = r.key /\ n.base = r.base
  BY <1>3
<1> HIDE DEF n
<1>6. QED
  BY <1>4, <1>5

LEMMA IgnoreAsks ==
    ASSUME ReviewTypes, NEW key, Ignore(key)
    PROVE  \E n : /\ Asked(n) /\ n.kind = "ignore" /\ n.decision = "ignore" /\ n.ids = {}
                  /\ n.key = key /\ n.base = Basis(key, Rows(list.items, key))
<1> DEFINE r == [kind |-> "ignore", key |-> key, decision |-> "ignore", ids |-> {},
                 base |-> Basis(key, Rows(list.items, key))]
           n == Spread(r, Request)
<1>1. sent' = sent \cup {n} /\ UNCHANGED <<queueVars, query, visit, records>>
  BY DEF Ignore, Ask
<1>2. /\ Message(n) /\ Refers(n)
      /\ n.here = TRUE /\ n.done = FALSE /\ n.failed = FALSE
      /\ \A x \in DOMAIN r : n[x] = r[x]
  <2>1. DOMAIN r = {"kind", "key", "decision", "ids", "base"} /\ r.kind = "ignore" /\ r.ids = {}
    OBVIOUS
  <2> HIDE DEF r
  <2>2. QED
    BY <2>1, JustSent DEF Decides
<1>3. Asked(n)
  BY <1>1, <1>2 DEF Asked
<1>4. n.kind = r.kind /\ n.decision = r.decision /\ n.ids = r.ids /\ n.key = r.key /\ n.base = r.base
  BY <1>2
<1> HIDE DEF n
<1>5. QED
  BY <1>3, <1>4

LEMMA OthersAsk ==
    ASSUME ReviewTypes, UndoOffered \/ Suggest \/ Stop
    PROVE  \E n : Asked(n) /\ ~Decides(n)
<1>1. ASSUME UndoOffered PROVE \E n : Asked(n) /\ ~Decides(n)
  <2> DEFINE r == [kind |-> "undo", action |-> offer]
             n == Spread(r, Request)
  <2>1. offer # Nothing /\ sent' = sent \cup {n} /\ UNCHANGED <<queueVars, query, visit, records>>
    BY <1>1 DEF UndoOffered, Ask
  <2>2. DOMAIN r = {"kind", "action"} /\ r.kind = "undo" /\ r.action = offer
    OBVIOUS
  <2>3. offer \in DOMAIN actions
    BY <2>1 DEF ReviewTypes, FollowedInv
  <2> HIDE DEF r
  <2>4. /\ Message(n) /\ Refers(n) /\ n.kind = "undo"
        /\ n.here = TRUE /\ n.done = FALSE /\ n.failed = FALSE
    BY <2>2, <2>3, JustSent DEF Decides
  <2>5. QED
    BY <2>1, <2>4 DEF Asked, Decides
<1>2. ASSUME Suggest PROVE \E n : Asked(n) /\ ~Decides(n)
  <2> DEFINE r == [kind |-> "suggest", ids |-> ForSuggestions]
             n == Spread(r, Request)
  <2>1. list # Nothing /\ sent' = sent \cup {n} /\ UNCHANGED <<queueVars, query, visit, records>>
    BY <1>2 DEF Suggest, Ask
  <2>2. DOMAIN r = {"kind", "ids"} /\ r.kind = "suggest" /\ r.ids = ForSuggestions
    OBVIOUS
  <2>3. ForSuggestions \subseteq Item
    <3>1. DOMAIN list.items \subseteq Item
      BY <2>1, QueueOf DEF ReviewTypes, Shown0
    <3>2. ForSuggestions \subseteq DOMAIN list.items
      BY DEF ForSuggestions
    <3>3. QED
      BY <3>1, <3>2
  <2> HIDE DEF r
  <2>4. /\ Message(n) /\ Refers(n) /\ n.kind = "suggest"
        /\ n.here = TRUE /\ n.done = FALSE /\ n.failed = FALSE
    BY <2>2, <2>3, JustSent DEF Decides
  <2>5. QED
    BY <2>1, <2>4 DEF Asked, Decides
<1>3. ASSUME Stop PROVE \E n : Asked(n) /\ ~Decides(n)
  <2> DEFINE r == [kind |-> "stop", run |-> followed]
             n == Spread(r, Request)
  <2>1. seen = "running" /\ sent' = sent \cup {n} /\ UNCHANGED <<queueVars, query, visit, records>>
    BY <1>3 DEF Stop, Ask
  <2>2. DOMAIN r = {"kind", "run"} /\ r.kind = "stop" /\ r.run = followed
    OBVIOUS
  <2>3. followed \in Run
    BY <2>1 DEF ReviewTypes, FollowedInv
  <2> HIDE DEF r
  <2>4. /\ Message(n) /\ Refers(n) /\ n.kind = "stop"
        /\ n.here = TRUE /\ n.done = FALSE /\ n.failed = FALSE
    BY <2>2, <2>3, JustSent DEF Decides
  <2>5. QED
    BY <2>1, <2>4 DEF Asked, Decides
<1>4. QED
  BY <1>1, <1>2, <1>3

LEMMA TypesAsk ==
    ASSUME ReviewTypes, NEW n, Asked(n)
    PROVE  ReviewTypes'
<1> USE DEF Asked
<1>1. RunsGoOn /\ ActionsGoOn /\ Tables' /\ Shown0'
  BY TablesFrame, QueryFrame DEF ReviewTypes
<1>2. FollowedInv' /\ EditorTyped'
  BY <1>1, FollowedFrame DEF ReviewTypes, visit, EditorTyped
<1>3. \A m \in sent' : Message(m) /\ Refers(m)'
  BY <1>1, RefersFrame DEF ReviewTypes
<1>4. QED
  BY <1>1, <1>2, <1>3 DEF ReviewTypes

LEMMA ComeBackShown ==
    ASSUME Shown0, ComeBack
    PROVE  Shown0'
<1>1. /\ list' # Nothing => list' \in [items : Queues, late : BOOLEAN, fresh : BOOLEAN]
  BY LateListShown DEF ComeBack, Shown0
<1>2. CASE reading = Nothing /\ reading' = Unanswered
  BY <1>1, <1>2 DEF Unanswered, Shown0
<1>3. CASE reading' = reading
  BY <1>1, <1>3 DEF Shown0
<1>4. CASE reading' = LateReading
  BY <1>1, <1>4, LateReadingShown DEF Shown0
<1>5. QED
  BY <1>2, <1>3, <1>4 DEF ComeBack

LEMMA TypesComeBack == ReviewTypes /\ ComeBack => ReviewTypes'
<1> SUFFICES ASSUME ReviewTypes, ComeBack PROVE ReviewTypes'
  OBVIOUS
<1>1. RunsGoOn /\ ActionsGoOn /\ Tables' /\ Shown0'
  BY TablesFrame, ComeBackShown DEF ReviewTypes, ComeBack
<1>2. FollowedInv' /\ EditorTyped'
  BY DEF ComeBack, FollowedInv, EditorTyped
<1>3. ASSUME NEW n \in sent' PROVE Message(n) /\ Refers(n)'
  <2>1. PICK m \in sent : n = [m EXCEPT !.here = FALSE]
    BY DEF ComeBack
  <2>2. Message(n) /\ Refers(n)
    BY <2>1, Abandoned DEF ReviewTypes
  <2>3. QED
    BY <1>1, <2>2, RefersFrame
<1>4. QED
  BY <1>1, <1>2, <1>3 DEF ReviewTypes

\* What the server's steps do to its tables.
LEMMA TablesHandle ==
    ASSUME ReviewTypes, NEW m \in sent, HandleRequest(m)
    PROVE  /\ Tables' /\ RunsGoOn /\ ActionsGoOn
           /\ \A k \in sent' : Message(k) /\ Refers(k)'
<1> USE DEF HandleRequest
<1>1. Message(m) /\ Refers(m)
  BY DEF ReviewTypes
<1>2. ASSUME NEW f \in BOOLEAN, NEW r, Reply(m, f, r), RunsGoOn, ActionsGoOn,
             f = FALSE => /\ Decides(m) => r \in DOMAIN actions'
                          /\ m.kind = "suggest" => r \in Run /\ runs'[r].status # "none"
                          /\ m.kind = "stop" => runs'[m.run].status = "failed"
      PROVE  \A k \in sent' : Message(k) /\ Refers(k)'
  <2>1. m.kind = "undo" => m.action \in DOMAIN actions'
    BY <1>1, <1>2 DEF Refers, ActionsGoOn
  <2>2. \A k \in sent : Message(k) /\ Refers(k)'
    BY <1>2, RefersFrame DEF ReviewTypes
  <2> DEFINE n == [m EXCEPT !.done = TRUE, !.failed = f, !.result = r]
  <2>3. sent' = (sent \ {m}) \cup {n}
    BY <1>2 DEF Reply
  <2> HIDE DEF n
  <2>4. Message(n) /\ Refers(n)'
    BY <1>1, <1>2, <2>1, Handled DEF n
  <2>5. QED
    BY <2>2, <2>3, <2>4
<1>3. CASE Decide(m)
  <2> USE <1>3 DEF Decide
  <2>1. queue' \in Queues
    BY WithoutIsQueue DEF ReviewTypes, Tables
  <2>2. Target(m) \subseteq DOMAIN queue
    BY DEF Rejected, Members, Decides
  <2>3. [i \in Target(m) |-> queue[i]] \in Queues
    BY <2>2, RestrictionIsQueue DEF ReviewTypes, Tables
  <2>4. actions' \in Seq(Undoable) /\ DOMAIN actions \subseteq DOMAIN actions'
        /\ Len(actions) + 1 \in DOMAIN actions'
    BY <2>3, AppendedAction DEF ReviewTypes, Tables
  <2>5. Tables' /\ RunsGoOn /\ ActionsGoOn
    BY <2>1, <2>4 DEF ReviewTypes, Tables, RunsGoOn, ActionsGoOn
  <2>6. m.kind # "suggest" /\ m.kind # "stop"
    BY DEF Decides
  <2>7. QED
    BY <1>2, <2>4, <2>5, <2>6
<1>4. CASE UndoDecision(m)
  <2> USE <1>4 DEF UndoDecision
  <2>1. m.action \in DOMAIN actions
    BY <1>1 DEF Refers
  <2>2. actions[m.action].before \in Queues
    <3>1. actions[m.action] \in Undoable
      BY <2>1 DEF ReviewTypes, Tables
    <3>2. QED
      BY <3>1 DEF Undoable
  <2>3. queue' \in Queues
    BY <2>2, SpreadIsQueue DEF ReviewTypes, Tables
  <2>4. actions' \in Seq(Undoable) /\ DOMAIN actions' = DOMAIN actions
    BY <2>1, UndoneAction DEF ReviewTypes, Tables
  <2>5. Tables' /\ RunsGoOn /\ ActionsGoOn
    BY <2>3, <2>4 DEF ReviewTypes, Tables, RunsGoOn, ActionsGoOn
  <2>6. m.kind # "suggest" /\ m.kind # "stop" /\ ~Decides(m)
    BY DEF Decides
  <2>7. QED
    BY <1>2, <2>5, <2>6
<1>5. CASE StartRun(m)
  <2>1. PICK j \in Run : /\ runs[j].status = "none"
                         /\ runs' = [runs EXCEPT ![j] = [status |-> "running", of |-> m.ids]]
                         /\ Reply(m, FALSE, j)
    BY <1>5 DEF StartRun
  <2>2. m.kind = "suggest" /\ m.ids \subseteq Item /\ UNCHANGED <<queue, actions>>
    BY <1>1, <1>5 DEF StartRun, Message
  <2>3. [status |-> "running", of |-> m.ids] \in [status : Status, of : SUBSET Item]
    BY <2>2 DEF Status
  <2>4. /\ runs' \in [Run -> [status : Status, of : SUBSET Item]]
        /\ runs'[j].status = "running" /\ \A k \in Run \ {j} : runs'[k] = runs[k]
    BY <2>1, <2>3 DEF ReviewTypes, Tables
  <2>5. Tables' /\ RunsGoOn /\ ActionsGoOn
    BY <2>1, <2>2, <2>4 DEF ReviewTypes, Tables, RunsGoOn, ActionsGoOn
  <2>6. m.kind # "stop" /\ ~Decides(m)
    BY <2>2 DEF Decides
  <2>7. QED
    BY <1>2, <2>1, <2>4, <2>5, <2>6
<1>6. CASE StopRun(m)
  <2> USE <1>6 DEF StopRun
  <2>1. m.run \in Run /\ "failed" \in Status
    BY <1>1 DEF Message, Status
  <2>2. runs[m.run].status = "running"
    BY DEF Rejected, Decides, Active
  <2>3. /\ runs' \in [Run -> [status : Status, of : SUBSET Item]]
        /\ runs'[m.run].status = "failed" /\ \A k \in Run \ {m.run} : runs'[k] = runs[k]
    BY <2>1, RunWithStatus DEF ReviewTypes, Tables
  <2>4. Tables' /\ RunsGoOn /\ ActionsGoOn
    BY <2>1, <2>2, <2>3 DEF ReviewTypes, Tables, RunsGoOn, ActionsGoOn
  <2>5. m.kind # "suggest" /\ ~Decides(m)
    BY DEF Decides
  <2>6. QED
    BY <1>2, <2>3, <2>4, <2>5
<1>7. CASE Rejected(m) /\ Reply(m, TRUE, Nothing) /\ UNCHANGED queueVars
  BY <1>2, <1>7, TablesFrame DEF ReviewTypes
<1>8. QED
  BY <1>3, <1>4, <1>5, <1>6, <1>7

LEMMA TypesHandle ==
    ASSUME ReviewTypes, NEW m \in sent, HandleRequest(m)
    PROVE  ReviewTypes'
<1>1. UNCHANGED <<query, visit, turns, records>>
  BY DEF HandleRequest
<1>2. Shown0' /\ FollowedInv' /\ EditorTyped'
  BY <1>1, TablesHandle, QueryFrame, FollowedFrame DEF ReviewTypes, visit, EditorTyped
<1>3. QED
  BY <1>2, TablesHandle DEF ReviewTypes

\* Another job is followed.
LEMMA FollowTyped ==
    ASSUME FollowedInv, NEW j \in Run, runs[j].status # "none", Follow(j), UNCHANGED queueVars
    PROVE  FollowedInv'
BY ReviewAssumption DEF Follow, FollowedInv, queueVars, Active

LEMMA MoveOnTyped ==
    ASSUME FollowedInv, Tables, followed # Nothing, ~Active(followed),
           NEW status, status # "running", MoveOn(status), UNCHANGED queueVars
    PROVE  /\ FollowedInv' /\ UNCHANGED editor
<1>1. CASE seen' = status /\ UNCHANGED <<ticked, editor, offer, looking, followed>>
  BY <1>1 DEF FollowedInv, queueVars, Active
<1>2. CASE \E j \in Run \ {followed} : runs[j].status # "none" /\ Follow(j)
  BY <1>2, FollowTyped DEF Follow
<1>3. QED
  BY <1>1, <1>2 DEF MoveOn

LEMMA TypesGetReply ==
    ASSUME ReviewTypes, NEW m \in sent, GetReply(m)
    PROVE  ReviewTypes'
<1> USE DEF GetReply
<1>1. Message(m) /\ Refers(m) /\ m.done
  BY DEF ReviewTypes
<1>2. RunsGoOn /\ ActionsGoOn /\ Tables'
  BY TablesFrame DEF ReviewTypes
<1>3. \A k \in sent' : Message(k) /\ Refers(k)'
  BY <1>2, RefersFrame DEF ReviewTypes
<1>4. Shown0'
  BY InvalidatedShown, UnnoticedShown, QueryFrame DEF ReviewTypes, Refresh
<1>5. FollowedInv' /\ EditorTyped'
  <2>1. CASE UNCHANGED visit
    BY <1>2, <2>1, FollowedFrame DEF ReviewTypes, visit, EditorTyped
  <2>2. CASE ~m.failed /\ m.here /\ Decides(m)
    <3>1. m.result \in DOMAIN actions
      BY <1>1, <2>2 DEF Refers, Answered
    <3>2. offer' = m.result /\ UNCHANGED <<followed, seen>> /\ (editor' = editor \/ editor' = Nothing)
      BY <2>2 DEF Decides, Applied, Ignored
    <3>3. QED
      BY <3>1, <3>2 DEF ReviewTypes, FollowedInv, EditorTyped, queueVars, Active
  <2>3. CASE ~m.failed /\ m.here /\ m.kind = "undo"
    BY <2>3 DEF Undone, ReviewTypes, FollowedInv, EditorTyped, queueVars, Active
  <2>4. CASE ~m.failed /\ m.here /\ m.kind = "suggest"
    <3>1. m.result \in Run /\ runs[m.result].status # "none"
      BY <1>1, <2>4 DEF Refers, Answered
    <3>2. Follow(m.result)
      BY <2>4
    <3>3. QED
      BY <3>1, <3>2, FollowTyped DEF ReviewTypes, EditorTyped, Follow
  <2>5. CASE ~m.failed /\ m.here /\ m.kind = "stop" /\ followed = m.run /\ seen = "running"
    <3>1. runs[m.run].status = "failed" /\ followed # Nothing
      BY <1>1, <2>5 DEF Refers, Answered, ReviewTypes, FollowedInv
    <3>2. MoveOn("failed") /\ ~Active(followed)
      BY <2>5, <3>1 DEF Active
    <3>3. QED
      BY <3>1, <3>2, MoveOnTyped DEF ReviewTypes, EditorTyped
  <2>6. QED
    BY <1>1, <2>1, <2>2, <2>3, <2>4, <2>5 DEF Message, Decides
<1>6. QED
  BY <1>2, <1>3, <1>4, <1>5 DEF ReviewTypes

LEMMA TypesFollowActive == ReviewTypes /\ FollowActive => ReviewTypes'
<1> SUFFICES ASSUME ReviewTypes, FollowActive PROVE ReviewTypes'
  OBVIOUS
<1>1. RunsGoOn /\ ActionsGoOn /\ Tables' /\ Shown0'
  BY TablesFrame, QueryFrame DEF ReviewTypes, FollowActive
<1>2. \A k \in sent' : Message(k) /\ Refers(k)'
  BY <1>1, RefersFrame DEF ReviewTypes, FollowActive
<1>3. FollowedInv' /\ EditorTyped'
  <2>1. EditorTyped' /\ (offer' # Nothing => offer' \in DOMAIN actions')
    BY DEF FollowActive, ReviewTypes, FollowedInv, EditorTyped, queueVars
  <2>2. CASE UNCHANGED <<followed, seen>>
    <3>1. UNCHANGED <<offer, followed, seen>> /\ FollowedInv
      BY <2>2 DEF FollowActive, ReviewTypes
    <3>2. QED
      BY <2>1, <3>1, <1>1, FollowedFrame
  <2>3. CASE \E j \in Run : Active(j) /\ followed' = j /\ seen' = "running"
    <3>1. PICK j \in Run : Active(j) /\ followed' = j /\ seen' = "running"
      BY <2>3
    <3>2. runs'[j].status = "running" /\ j # Nothing
      BY <3>1, ReviewAssumption DEF Active, FollowActive, queueVars
    <3>3. QED
      BY <2>1, <3>1, <3>2 DEF FollowedInv
  <2>4. QED
    BY <2>1, <2>2, <2>3 DEF FollowActive
<1>4. QED
  BY <1>1, <1>2, <1>3 DEF ReviewTypes

LEMMA TypesPoll == ReviewTypes /\ Poll => ReviewTypes'
<1> SUFFICES ASSUME ReviewTypes, Poll PROVE ReviewTypes'
  OBVIOUS
<1> USE DEF Poll
<1>1. RunsGoOn /\ ActionsGoOn /\ Tables'
  BY TablesFrame DEF ReviewTypes
<1>2. Shown0'
  BY InvalidatedShown, QueryFrame DEF ReviewTypes
<1>3. \A k \in sent' : Message(k) /\ Refers(k)'
  BY <1>1, RefersFrame DEF ReviewTypes
<1>4. followed # Nothing /\ ~Active(followed) /\ runs[followed].status # "running"
  BY DEF ReviewTypes, FollowedInv, Active
<1>5. MoveOn(runs[followed].status)
  OBVIOUS
<1>6. FollowedInv' /\ UNCHANGED editor
  BY <1>4, <1>5, MoveOnTyped DEF ReviewTypes
<1>7. EditorTyped'
  BY <1>6 DEF ReviewTypes, EditorTyped
<1>8. QED
  BY <1>1, <1>2, <1>3, <1>6, <1>7 DEF ReviewTypes

\* What others do: the page's own state is left alone.
OthersKeep ==
    ReviewTypes /\ RunsGoOn /\ ActionsGoOn /\ Tables' /\ UNCHANGED <<visit, sent>>

LEMMA TypesOthersKeep ==
    ASSUME OthersKeep, Unnoticed \/ UNCHANGED query
    PROVE  ReviewTypes'
<1> USE DEF OthersKeep
<1>1. Shown0'
  BY UnnoticedShown, QueryFrame DEF ReviewTypes
<1>2. FollowedInv' /\ EditorTyped'
  BY FollowedFrame DEF ReviewTypes, visit, EditorTyped
<1>3. \A k \in sent' : Message(k) /\ Refers(k)'
  BY RefersFrame DEF ReviewTypes
<1>4. QED
  BY <1>1, <1>2, <1>3 DEF ReviewTypes

\* A job that is active gets another status.
LEMMA RunEnds ==
    ASSUME ReviewTypes, NEW j \in Run, Active(j), NEW status \in Status \ {"none"},
           runs' = [runs EXCEPT ![j].status = status]
    PROVE  /\ runs' \in [Run -> [status : Status, of : SUBSET Item]]
           /\ runs'[j].status = status /\ \A k \in Run \ {j} : runs'[k] = runs[k]
           /\ RunsGoOn
<1>1. /\ runs' \in [Run -> [status : Status, of : SUBSET Item]]
      /\ runs'[j].status = status /\ \A k \in Run \ {j} : runs'[k] = runs[k]
  BY RunWithStatus DEF ReviewTypes, Tables
<1>2. RunsGoOn
  BY <1>1 DEF RunsGoOn, Active
<1>3. QED
  BY <1>1, <1>2

LEMMA StoresKeeps ==
    ASSUME ReviewTypes, NEW j \in Run, NEW h \in Hint,
           NEW status \in {"succeeded", "failed", "running"}, RunStores(j, h, status)
    PROVE  OthersKeep /\ DOMAIN queue' = DOMAIN queue /\ runs'[j].status = status
           /\ \A k \in Run \ {j} : runs'[k] = runs[k]
<1> USE DEF RunStores
<1>1. DOMAIN queue \subseteq Item /\ \A i \in DOMAIN queue : queue[i] \in Hint \cup {Nothing}
  BY QueueOf DEF ReviewTypes, Tables
<1>2. queue' \in [DOMAIN queue -> Hint \cup {Nothing}] /\ DOMAIN queue' = DOMAIN queue
  BY <1>1
<1>3. queue' \in Queues
  BY <1>1, <1>2, QueueOf
<1>4. status \in Status \ {"none"}
  BY DEF Status
<1>5. /\ runs' \in [Run -> [status : Status, of : SUBSET Item]]
      /\ runs'[j].status = status /\ \A k \in Run \ {j} : runs'[k] = runs[k]
      /\ RunsGoOn
  BY <1>4, RunEnds
<1>6. ActionsGoOn /\ Tables'
  BY <1>3, <1>5 DEF ActionsGoOn, Tables, ReviewTypes
<1>7. QED
  BY <1>2, <1>5, <1>6 DEF OthersKeep

LEMMA FailsKeeps ==
    ASSUME ReviewTypes, NEW j \in Run, RunFails(j)
    PROVE  OthersKeep /\ runs'[j].status = "failed" /\ \A k \in Run \ {j} : runs'[k] = runs[k]
<1> USE DEF RunFails
<1>1. "failed" \in Status \ {"none"}
  BY DEF Status
<1>2. /\ runs' \in [Run -> [status : Status, of : SUBSET Item]]
      /\ runs'[j].status = "failed" /\ \A k \in Run \ {j} : runs'[k] = runs[k]
      /\ RunsGoOn
  BY <1>1, RunEnds
<1>3. ActionsGoOn /\ Tables'
  BY <1>2 DEF ActionsGoOn, Tables, ReviewTypes
<1>4. QED
  BY <1>2, <1>3 DEF OthersKeep

LEMMA OthersRunKeeps ==
    ASSUME ReviewTypes, NEW j \in Run, OthersRun(j)
    PROVE  OthersKeep /\ runs[j].status = "none" /\ \A k \in Run \ {j} : runs'[k] = runs[k]
<1> USE DEF OthersRun
<1>1. [status |-> "running", of |-> DOMAIN queue] \in [status : Status, of : SUBSET Item]
  BY QueueOf DEF ReviewTypes, Tables, Status
<1>2. /\ runs' \in [Run -> [status : Status, of : SUBSET Item]]
      /\ runs'[j].status = "running" /\ \A k \in Run \ {j} : runs'[k] = runs[k]
  BY <1>1 DEF ReviewTypes, Tables
<1>3. ActionsGoOn /\ Tables' /\ RunsGoOn
  BY <1>2 DEF ActionsGoOn, Tables, ReviewTypes, RunsGoOn
<1>4. QED
  BY <1>2, <1>3 DEF OthersKeep

LEMMA ArriveKeeps ==
    ASSUME ReviewTypes, NEW i \in Item, NEW h \in Hint \cup {Nothing}, Arrive(i, h)
    PROVE  OthersKeep /\ DOMAIN queue \subseteq DOMAIN queue'
<1> USE DEF Arrive
<1>1. [x \in {i} |-> h] \in Queues
  BY QueueOf
<1>2. queue' \in Queues /\ DOMAIN queue' = DOMAIN [x \in {i} |-> h] \cup DOMAIN queue
  BY <1>1, SpreadIsQueue DEF ReviewTypes, Tables
<1>3. ActionsGoOn /\ RunsGoOn /\ Tables'
  BY <1>2 DEF ActionsGoOn, RunsGoOn, Tables, ReviewTypes
<1>4. QED
  BY <1>2, <1>3 DEF OthersKeep

LEMMA DepartKeeps ==
    ASSUME ReviewTypes, NEW i \in Item, Depart(i)
    PROVE  OthersKeep
<1> USE DEF Depart
<1>1. queue' \in Queues
  BY WithoutIsQueue DEF ReviewTypes, Tables
<1>2. ActionsGoOn /\ RunsGoOn /\ Tables'
  BY <1>1 DEF ActionsGoOn, RunsGoOn, Tables, ReviewTypes
<1>3. QED
  BY <1>2 DEF OthersKeep

LEMMA TypesOthers == ReviewTypes /\ Others => ReviewTypes'
<1> SUFFICES ASSUME ReviewTypes, Others PROVE ReviewTypes'
  OBVIOUS
<1>1. ASSUME NEW i \in Item, NEW h \in Hint \cup {Nothing}, Arrive(i, h) PROVE ReviewTypes'
  BY <1>1, ArriveKeeps, TypesOthersKeep DEF Arrive, Elsewhere
<1>2. ASSUME NEW i \in Item, Depart(i) PROVE ReviewTypes'
  BY <1>2, DepartKeeps, TypesOthersKeep DEF Depart, Elsewhere
<1>3. ASSUME NEW j \in Run, RunFails(j) PROVE ReviewTypes'
  BY <1>3, FailsKeeps, TypesOthersKeep DEF RunFails
<1>4. ASSUME NEW j \in Run, OthersRun(j) PROVE ReviewTypes'
  BY <1>4, OthersRunKeeps, TypesOthersKeep DEF OthersRun
<1>5. ASSUME NEW j \in Run, NEW h \in Hint, NEW status \in {"succeeded", "failed", "running"},
             RunStores(j, h, status)
      PROVE  ReviewTypes'
  BY <1>5, StoresKeeps, TypesOthersKeep DEF RunStores
<1>6. QED
  BY <1>1, <1>2, <1>3, <1>4, <1>5 DEF Others

LEMMA TypesReview == ReviewTypes /\ [ReviewNext]_reviewVars => ReviewTypes'
<1> SUFFICES ASSUME ReviewTypes, [ReviewNext]_reviewVars PROVE ReviewTypes'
  OBVIOUS
<1>1. CASE Clicks
  <2>1. ASSUME NEW key \in OnPage, Ignore(key) PROVE ReviewTypes'
    BY <2>1, IgnoreAsks, TypesAsk
  <2>2. ASSUME NEW selected \in BOOLEAN, Apply(selected) PROVE ReviewTypes'
    BY <2>2, ApplyAsks, TypesAsk
  <2>3. CASE UndoOffered \/ Suggest \/ Stop
    BY <2>3, OthersAsk, TypesAsk
  <2>4. ASSUME NEW key \in OnPage, OpenEditor(key, "accept") \/ OpenEditor(key, "change")
        PROVE  ReviewTypes'
    BY <2>4, TypesOpen
  <2>5. QED
    BY <1>1, <2>1, <2>2, <2>3, <2>4, TypesToggle, TypesComeBack DEF Clicks
<1>2. CASE Replies
  BY <1>2, TypesServe, TypesLand, TypesHandle, TypesGetReply, TypesPoll, TypesFollowActive DEF Replies
<1>3. CASE UNCHANGED reviewVars
  <2>1. UNCHANGED <<queueVars, query, visit, sent>>
    BY <1>3 DEF reviewVars
  <2>2. OthersKeep
    BY <2>1, TablesFrame DEF OthersKeep, ReviewTypes
  <2>3. QED
    BY <2>1, <2>2, TypesOthersKeep
<1>4. QED
  BY <1>1, <1>2, <1>3, TypesOthers DEF ReviewNext

-----------------------------------------------------------------------------
(* The groups and the queue.                                                  *)

\* An answer the page has not seen yet will make it read the groups anew.
Stale(m) == Answered(m) /\ Refreshes(m)

HasAnswer == reading # Nothing /\ reading.answer # Nothing

ListInv ==
    ~Awaiting /\ (\A m \in sent : ~Stale(m)) =>
        /\ IsFresh /\ ~list.late => list.items = queue
        /\ HasAnswer /\ ~reading.late => reading.answer.items = queue

\* What is shown, or about to be, is there unless others took it out.
NothingGone ==
    ~shifted /\ (\A m \in sent : ~Stale(m)) =>
        /\ IsFresh => DOMAIN list.items \subseteq DOMAIN queue
        /\ HasAnswer => DOMAIN reading.answer.items \subseteq DOMAIN queue

\* Before there are groups there is nothing to decide on.
Idle == editor = Nothing /\ offer = Nothing /\ \A m \in sent : m.kind \in {"suggest", "stop"}

NothingYet == list = Nothing => Idle

ReviewInv == ReviewTypes /\ ListInv /\ NothingGone /\ NothingYet

LEMMA ReviewInvInit == ReviewInit => ReviewInv
<1> SUFFICES ASSUME ReviewInit PROVE ReviewInv
  OBVIOUS
<1>1. list = Nothing /\ reading.answer = Nothing
  BY DEF ReviewInit, Unanswered
<1>2. ListInv /\ NothingGone /\ NothingYet
  BY <1>1 DEF ListInv, NothingGone, IsFresh, HasAnswer, NothingYet, Idle, ReviewInit
<1>3. QED
  BY <1>2, ReviewTypesInit DEF ReviewInv

LEMMA AwaitingStays ==
    ASSUME FollowedInv, RunsGoOn, UNCHANGED <<followed, seen>>
    PROVE  Awaiting => Awaiting'
BY DEF FollowedInv, RunsGoOn, Awaiting

\* Nothing that matters here changes.
LEMMA InvFrame ==
    ASSUME ReviewInv, UNCHANGED <<queue, query>>, shifted => shifted',
           Awaiting => Awaiting',
           (\E m \in sent : Stale(m)) => \E m \in sent' : Stale(m)
    PROVE  ListInv' /\ NothingGone'
BY DEF ReviewInv, ListInv, NothingGone, IsFresh, HasAnswer, query, Stale, Answered, Refreshes, Decides

LEMMA InvServe == ReviewInv /\ ServeGroups => ListInv' /\ NothingGone'
<1> SUFFICES ASSUME ReviewInv, ServeGroups PROVE ListInv' /\ NothingGone'
  OBVIOUS
<1>1. DOMAIN reading = {"answer", "late"}
  BY DEF ServeGroups, ReviewInv, ReviewTypes, Shown0
<1>2. reading'.answer = [items |-> queue]
  BY <1>1 DEF ServeGroups
<1>3. reading'.answer.items = queue /\ UNCHANGED <<queueVars, list, sent, followed, seen, shifted>>
  BY <1>2 DEF ServeGroups, visit, records
<1>4. UNCHANGED <<queue, Awaiting>>
  BY <1>3 DEF queueVars, Awaiting
<1>5. QED
  BY <1>3, <1>4 DEF ReviewInv, ListInv, NothingGone, IsFresh, HasAnswer, Stale, Answered, Refreshes, Decides

LEMMA InvLand == ReviewInv /\ LandGroups => ListInv' /\ NothingGone'
<1> SUFFICES ASSUME ReviewInv, LandGroups PROVE ListInv' /\ NothingGone'
  OBVIOUS
<1>1. /\ HasAnswer /\ list'.items = reading.answer.items /\ list'.late = reading.late
      /\ reading' = Nothing /\ UNCHANGED <<queueVars, sent, followed, seen, shifted>>
  BY DEF LandGroups, HasAnswer, visit, records
<1>2. UNCHANGED <<queue, Awaiting>>
  BY <1>1 DEF queueVars, Awaiting
<1>3. QED
  BY <1>1, <1>2 DEF ReviewInv, ListInv, NothingGone, IsFresh, HasAnswer, Stale, Answered, Refreshes, Decides

LEMMA InvAsk == ASSUME ReviewInv, NEW n, Asked(n) PROVE ListInv' /\ NothingGone'
<1>1. UNCHANGED <<queue, query, shifted, Awaiting>> /\ sent \subseteq sent'
  BY DEF Asked, queueVars, visit, records, Awaiting
<1>2. QED
  BY <1>1, InvFrame

LEMMA InvComeBack == ReviewInv /\ ComeBack => ListInv' /\ NothingGone'
<1> SUFFICES ASSUME ReviewInv, ComeBack PROVE ListInv' /\ NothingGone'
  OBVIOUS
<1> USE DEF ComeBack
<1>1. Shown0 /\ \A m \in sent : Message(m)
  BY DEF ReviewInv, ReviewTypes
<1>2. (\E m \in sent : Stale(m)) => \E n \in sent' : Stale(n)
  <2> SUFFICES ASSUME NEW m \in sent, Stale(m) PROVE \E n \in sent' : Stale(n)
    OBVIOUS
  <2> DEFINE n == [m EXCEPT !.here = FALSE]
  <2>1. n \in sent'
    OBVIOUS
  <2> HIDE DEF n
  <2>2. Answered(n) /\ Refreshes(n)
    BY <1>1, Abandoned DEF n, Stale
  <2>3. QED
    BY <2>1, <2>2 DEF Stale
<1>3. UNCHANGED <<queue, shifted>>
  BY DEF queueVars, records
<1>4. list' = LateList => /\ list' # Nothing => /\ list # Nothing /\ list'.late = TRUE
                                                /\ list'.items = list.items
                                                /\ list'.fresh = list.fresh
  BY <1>1, LateListShown
<1>5. reading' = LateReading =>
        /\ HasAnswer' => HasAnswer /\ reading'.answer = reading.answer /\ reading'.late = TRUE
  BY <1>1, LateReadingShown DEF HasAnswer
<1>6. reading' = Unanswered => ~HasAnswer'
  BY DEF HasAnswer, Unanswered
<1>7. IsFresh' => IsFresh /\ list'.items = list.items
  BY <1>4 DEF IsFresh
<1>8. HasAnswer' => HasAnswer /\ reading'.answer = reading.answer
  BY <1>5, <1>6 DEF HasAnswer
<1>9. Awaiting => (list' # Nothing => list'.late = TRUE) /\ (HasAnswer' => reading'.late = TRUE)
  BY <1>4, <1>5, <1>6
<1>10. ~Awaiting => (list' # Nothing => list'.late = list.late) /\ (HasAnswer' => reading'.late = reading.late)
  BY <1>6
<1>11. ListInv'
  BY <1>2, <1>3, <1>7, <1>8, <1>9, <1>10
  DEF ReviewInv, ListInv, IsFresh, Stale, Answered, Refreshes, Decides
<1>12. NothingGone'
  BY <1>2, <1>3, <1>7, <1>8 DEF ReviewInv, NothingGone, Stale, Answered, Refreshes, Decides
<1>13. QED
  BY <1>11, <1>12

LEMMA InvHandle == ASSUME ReviewInv, NEW m \in sent, HandleRequest(m) PROVE ListInv' /\ NothingGone'
<1> USE DEF HandleRequest
<1>1. UNCHANGED <<query, followed, seen, shifted>>
  BY DEF visit, records
<1>2. RunsGoOn /\ FollowedInv /\ Message(m)
  BY TablesHandle DEF ReviewInv, ReviewTypes
<1>3. Awaiting => Awaiting'
  BY <1>1, <1>2, AwaitingStays
<1>4. ASSUME NEW f \in BOOLEAN, NEW r, Reply(m, f, r)
      PROVE  /\ (\E k \in sent : Stale(k)) => \E k \in sent' : Stale(k)
             /\ f = FALSE /\ (Decides(m) \/ m.kind = "undo") => \E k \in sent' : Stale(k)
  <2> DEFINE n == [m EXCEPT !.done = TRUE, !.failed = f, !.result = r]
  <2>1. sent' = (sent \ {m}) \cup {n}
    BY <1>4 DEF Reply
  <2> HIDE DEF n
  <2>2. n.kind = m.kind /\ n.done = TRUE /\ n.failed = f
    <3>1. Common0 \subseteq DOMAIN m
      BY <1>2 DEF Message
    <3>2. /\ DOMAIN n = DOMAIN m /\ n.done = TRUE /\ n.failed = f
          /\ \A x \in DOMAIN m \ {"done", "failed", "result"} : n[x] = m[x]
      BY <3>1, Answering DEF Common0, n
    <3>3. QED
      BY <3>1, <3>2 DEF Common0
  <2>3. ~Stale(m)
    BY DEF Stale, Answered
  <2>4. f = FALSE /\ (Decides(m) \/ m.kind = "undo") => Stale(n)
    BY <2>2 DEF Stale, Answered, Refreshes, Decides
  <2>5. QED
    BY <2>1, <2>3, <2>4
<1>5. CASE Decide(m) \/ UndoDecision(m)
  <2>1. \E k \in sent' : Stale(k)
    BY <1>4, <1>5 DEF Decide, UndoDecision
  <2>2. QED
    BY <2>1 DEF ListInv, NothingGone, Stale, Answered, Refreshes, Decides
<1>6. CASE StartRun(m) \/ StopRun(m) \/ (Rejected(m) /\ Reply(m, TRUE, Nothing) /\ UNCHANGED queueVars)
  <2>1. UNCHANGED queue /\ (\E f \in BOOLEAN : \E r : Reply(m, f, r))
    BY <1>6 DEF StartRun, StopRun, queueVars
  <2>2. (\E k \in sent : Stale(k)) => \E k \in sent' : Stale(k)
    BY <1>4, <2>1
  <2>3. QED
    BY <1>1, <1>3, <2>1, <2>2, InvFrame
<1>7. QED
  BY <1>5, <1>6

LEMMA InvUnnoticed ==
    ASSUME ReviewInv, Unnoticed, shifted => shifted', DOMAIN queue \subseteq DOMAIN queue' \/ shifted',
           (\E m \in sent : Stale(m)) => \E m \in sent' : Stale(m)
    PROVE  ListInv' /\ NothingGone'
<1>1. Shown0 /\ list' = LateList /\ reading' = LateReading
  BY DEF Unnoticed, ReviewInv, ReviewTypes
<1>2. IsFresh' => IsFresh /\ list'.items = list.items /\ list'.late = TRUE
  BY <1>1, LateListShown DEF IsFresh
<1>3. HasAnswer' => HasAnswer /\ reading'.answer = reading.answer /\ reading'.late = TRUE
  BY <1>1, LateReadingShown DEF HasAnswer
<1>4. QED
  BY <1>2, <1>3 DEF ReviewInv, ListInv, NothingGone, Stale, Answered, Refreshes, Decides

\* What a first read under way is told of changes none of its items.
LEMMA InvInvalidated ==
    ASSUME ReviewInv, Invalidated,
           list = Nothing => UNCHANGED <<queue, shifted, sent>>
    PROVE  ListInv' /\ NothingGone'
<1>1. ~IsFresh'
  BY InvalidatedShown DEF ReviewInv, ReviewTypes, IsFresh
<1>2. CASE reading'.answer = Nothing
  BY <1>1, <1>2 DEF ListInv, NothingGone, HasAnswer
<1>3. CASE list = Nothing /\ reading # Nothing /\ reading' = LateReading
  <2>1. HasAnswer' => HasAnswer /\ reading'.answer = reading.answer /\ reading'.late = TRUE
    BY <1>3, LateReadingShown DEF HasAnswer, ReviewInv, ReviewTypes
  <2>2. UNCHANGED <<queue, shifted, sent>>
    BY <1>3
  <2>3. ListInv'
    BY <1>1, <2>1 DEF ListInv
  <2>4. NothingGone'
    BY <1>1, <2>1, <2>2 DEF ReviewInv, NothingGone, Stale, Answered, Refreshes, Decides
  <2>5. QED
    BY <2>3, <2>4
<1>4. QED
  BY <1>2, <1>3, InvalidatedShown DEF ReviewInv, ReviewTypes

LEMMA InvGetReply == ASSUME ReviewInv, NEW m \in sent, GetReply(m) PROVE ListInv' /\ NothingGone'
<1> USE DEF GetReply
<1>1. CASE Refreshes(m)
  <2>1. m.kind \notin {"suggest", "stop"}
    BY <1>1 DEF Refreshes, Decides
  <2>2. list # Nothing
    BY <2>1 DEF ReviewInv, NothingYet, Idle
  <2>3. Invalidated
    BY <1>1 DEF Refresh
  <2>4. QED
    BY <2>2, <2>3, InvInvalidated
<1>2. CASE ~Refreshes(m)
  <2>1. (\E k \in sent : Stale(k)) => \E k \in sent' : Stale(k)
    BY <1>2 DEF Stale
  <2>2. UNCHANGED <<queueVars, queue, shifted>>
    BY DEF queueVars, records
  <2>3. CASE m.kind = "suggest" /\ ~m.failed /\ Awaiting
    BY <1>2, <2>1, <2>2, <2>3, InvUnnoticed
  <2>4. CASE ~(m.kind = "suggest" /\ ~m.failed /\ Awaiting)
    <3>1. UNCHANGED query
      BY <1>2, <2>4
    <3>2. Awaiting => Awaiting'
      <4>1. CASE UNCHANGED visit
        BY <2>2, <4>1 DEF visit, Awaiting, queueVars
      <4>2. CASE ~m.failed /\ m.here /\ m.kind = "stop"
        <5>1. followed = m.run /\ seen = "running" => runs[followed].status = "failed"
          BY <4>2 DEF ReviewInv, ReviewTypes, Refers, Answered
        <5>2. followed = m.run /\ seen = "running" => ~Awaiting
          BY <5>1 DEF Awaiting
        <5>3. QED
          BY <4>1, <4>2, <5>2
      <4>3. QED
        BY <1>2, <2>4, <4>1, <4>2 DEF Refreshes, Decides, ReviewInv, ReviewTypes, Message
    <3>3. QED
      BY <2>1, <2>2, <3>1, <3>2, InvFrame
  <2>5. QED
    BY <2>3, <2>4
<1>3. QED
  BY <1>1, <1>2

LEMMA InvFollow == ReviewInv /\ (FollowActive \/ Poll) => ListInv' /\ NothingGone'
<1> SUFFICES ASSUME ReviewInv, FollowActive \/ Poll PROVE ListInv' /\ NothingGone'
  OBVIOUS
<1>1. CASE FollowActive
  <2>1. UNCHANGED <<queue, query, runs, sent, shifted>>
    BY <1>1 DEF FollowActive, queueVars, records
  <2>2. Awaiting => Awaiting'
    BY <1>1, <2>1 DEF FollowActive, Awaiting
  <2>3. QED
    BY <2>1, <2>2, InvFrame
<1>2. CASE Poll
  <2>1. CASE runs[followed].status = "succeeded"
    <3>1. Invalidated /\ UNCHANGED <<queue, shifted, sent>>
      BY <1>2, <2>1 DEF Poll, queueVars, records
    <3>2. QED
      BY <3>1, InvInvalidated
  <2>2. CASE runs[followed].status # "succeeded"
    <3>1. ~Awaiting /\ UNCHANGED <<queue, query, sent, shifted>>
      BY <1>2, <2>2 DEF Poll, Awaiting, queueVars, records
    <3>2. QED
      BY <3>1, InvFrame
  <2>3. QED
    BY <2>1, <2>2
<1>3. QED
  BY <1>1, <1>2

LEMMA InvOthers == ReviewInv /\ Others => ListInv' /\ NothingGone'
<1> SUFFICES ASSUME ReviewInv, Others PROVE ListInv' /\ NothingGone'
  OBVIOUS
<1>1. ASSUME NEW i \in Item, NEW h \in Hint \cup {Nothing}, Arrive(i, h)
      PROVE  ListInv' /\ NothingGone'
  <2>1. DOMAIN queue \subseteq DOMAIN queue' /\ Unnoticed /\ UNCHANGED <<sent, shifted>>
    BY <1>1, ArriveKeeps DEF Arrive, Elsewhere, records, ReviewInv
  <2>2. QED
    BY <2>1, InvUnnoticed
<1>2. ASSUME NEW i \in Item, Depart(i) PROVE ListInv' /\ NothingGone'
  BY <1>2, InvUnnoticed DEF Depart, Elsewhere
<1>3. ASSUME UNCHANGED <<queue, query, visit, sent, records>>, RunsGoOn
      PROVE  ListInv' /\ NothingGone'
  <2>1. UNCHANGED <<queue, query, sent, followed, seen, shifted>>
    BY <1>3 DEF visit, records
  <2>2. Awaiting => Awaiting'
    BY <2>1, <1>3, AwaitingStays DEF ReviewInv, ReviewTypes
  <2>3. QED
    BY <2>1, <2>2, InvFrame
<1>4. ASSUME NEW j \in Run, RunFails(j) PROVE ListInv' /\ NothingGone'
  BY <1>3, <1>4, FailsKeeps DEF RunFails, OthersKeep, ReviewInv
<1>5. ASSUME NEW j \in Run, OthersRun(j) PROVE ListInv' /\ NothingGone'
  BY <1>3, <1>5, OthersRunKeeps DEF OthersRun, OthersKeep, ReviewInv
<1>6. ASSUME NEW j \in Run, NEW h \in Hint, NEW status \in {"succeeded", "failed", "running"},
             RunStores(j, h, status)
      PROVE  ListInv' /\ NothingGone'
  <2>1. /\ DOMAIN queue' = DOMAIN queue /\ UNCHANGED <<sent, followed, seen, shifted>>
        /\ runs'[j].status = status
    BY <1>6, StoresKeeps DEF RunStores, visit, records, ReviewInv
  <2>2. CASE Unnoticed
    BY <2>1, <2>2, InvUnnoticed
  <2>3. CASE status = "succeeded" /\ followed = j /\ UNCHANGED query
    <3>1. seen = "running" /\ followed # Nothing
      BY <1>6, <2>3, ReviewAssumption DEF RunStores, ReviewInv, ReviewTypes, FollowedInv
    <3>2. Awaiting'
      BY <2>1, <2>3, <3>1 DEF Awaiting
    <3>3. NothingGone'
      BY <2>1, <2>3
      DEF query, ReviewInv, NothingGone, IsFresh, HasAnswer, Stale, Answered, Refreshes, Decides
    <3>4. QED
      BY <3>2, <3>3 DEF ListInv
  <2>4. QED
    BY <1>6, <2>2, <2>3 DEF RunStores
<1>7. QED
  BY <1>1, <1>2, <1>4, <1>5, <1>6 DEF Others

LEMMA YetFrame ==
    ASSUME NothingYet, list' = Nothing => list = Nothing, UNCHANGED <<editor, offer>>,
           \A m \in sent' : m.kind \in {"suggest", "stop"} \/ \E k \in sent : k.kind = m.kind
    PROVE  NothingYet'
BY DEF NothingYet, Idle

\* Groups once read are there.
LEMMA NoListIsNothing ==
    ASSUME NEW l \in [items : Queues, late : BOOLEAN, fresh : BOOLEAN]
    PROVE  l # Nothing
<1>1. PICK ids \in SUBSET Item : l.items \in [ids -> Hint \cup {Nothing}]
  BY DEF Queues
<1>2. l \in [items : [ids -> Hint \cup {Nothing}], late : BOOLEAN, fresh : BOOLEAN]
  BY <1>1
<1>3. QED
  BY <1>2, ReviewAssumption

LEMMA YetClicks == ReviewInv /\ Clicks => NothingYet'
<1> SUFFICES ASSUME ReviewInv, Clicks PROVE NothingYet'
  OBVIOUS
<1>1. NothingYet
  BY DEF ReviewInv
<1>2. CASE list # Nothing /\ ~ComeBack
  <2>1. UNCHANGED list
    BY <1>2 DEF Clicks, Toggle, Ignore, OpenEditor, CloseEditor, Apply, UndoOffered, Suggest, Stop,
                Ask, query
  <2>2. QED
    BY <1>2, <2>1 DEF NothingYet
<1>3. CASE list = Nothing /\ ~ComeBack
  <2>1. Idle /\ OnPage = {} /\ UNCHANGED <<editor, offer>>
    BY <1>1, <1>3 DEF NothingYet, OnPage, Idle, Clicks, Toggle, CloseEditor, Apply, UndoOffered,
                      Suggest, Stop, Ask, visit
  <2>2. CASE Stop
    <3>1. PICK n : n = Spread([kind |-> "stop", run |-> followed], Request)
      OBVIOUS
    <3>2. sent' = sent \cup {n}
      BY <2>2, <3>1 DEF Stop, Ask
    <3>3. n.kind = "stop"
      <4> DEFINE r == [kind |-> "stop", run |-> followed]
      <4>1. DOMAIN r = {"kind", "run"} /\ r.kind = "stop"
        OBVIOUS
      <4> HIDE DEF r
      <4>2. Spread(r, Request).kind = r.kind
        BY <4>1, NewRequest
      <4>3. QED
        BY <3>1, <4>1, <4>2 DEF r
    <3>4. QED
      BY <2>1, <3>2, <3>3 DEF NothingYet, Idle
  <2>3. CASE ~Stop
    <3>1. UNCHANGED sent
      BY <1>3, <2>1, <2>3 DEF Idle, Clicks, Toggle, CloseEditor, Apply, UndoOffered, Suggest
    <3>2. QED
      BY <2>1, <3>1 DEF NothingYet, Idle
  <2>4. QED
    BY <2>2, <2>3
<1>4. CASE ComeBack
  <2>1. list' = Nothing => list = Nothing
    BY <1>4, NoListIsNothing, MarkedList DEF ComeBack, LateList, ReviewInv, ReviewTypes, Shown0
  <2>2. ASSUME NEW n \in sent' PROVE \E m \in sent : n.kind = m.kind
    <3>1. PICK m \in sent : n = [m EXCEPT !.here = FALSE]
      BY <1>4 DEF ComeBack
    <3>2. n.kind = m.kind
      BY <3>1, Abandoned DEF ReviewInv, ReviewTypes
    <3>3. QED
      BY <3>2
  <2>3. editor' = Nothing /\ offer' = Nothing
    BY <1>4 DEF ComeBack
  <2>4. QED
    BY <1>1, <2>1, <2>2, <2>3 DEF NothingYet, Idle
<1>5. QED
  BY <1>2, <1>3, <1>4

LEMMA HandledKinds ==
    ASSUME ReviewTypes, NEW m \in sent, HandleRequest(m)
    PROVE  \A n \in sent' : \E k \in sent : k.kind = n.kind
<1>1. ASSUME NEW f, NEW r, Reply(m, f, r)
      PROVE  \A n \in sent' : \E k \in sent : k.kind = n.kind
  <2>1. PICK a : a = [m EXCEPT !.done = TRUE, !.failed = f, !.result = r]
    OBVIOUS
  <2>2. sent' = (sent \ {m}) \cup {a}
    BY <1>1, <2>1 DEF Reply
  <2>3. Common0 \subseteq DOMAIN m
    BY DEF ReviewTypes, Message
  <2>4. a.kind = m.kind
    BY <2>1, <2>3, Answering DEF Common0
  <2>5. QED
    BY <2>2, <2>4
<1>2. \E f, r : Reply(m, f, r)
  BY DEF HandleRequest, Decide, UndoDecision, StartRun, StopRun
<1>3. QED
  BY <1>1, <1>2

LEMMA YetReplies == ReviewInv /\ Replies => NothingYet'
<1> SUFFICES ASSUME ReviewInv, Replies PROVE NothingYet'
  OBVIOUS
<1>1. NothingYet /\ Shown0
  BY DEF ReviewInv, ReviewTypes
<1>2. CASE ServeGroups
  BY <1>1, <1>2, YetFrame DEF ServeGroups, visit
<1>3. CASE LandGroups
  <2>1. list' \in [items : Queues, late : BOOLEAN, fresh : BOOLEAN]
    BY <1>1, <1>3 DEF LandGroups, Shown0
  <2>2. list' # Nothing
    BY <2>1, NoListIsNothing
  <2>3. QED
    BY <2>2 DEF NothingYet
<1>4. ASSUME NEW m \in sent, HandleRequest(m) PROVE NothingYet'
  <2>1. UNCHANGED <<list, editor, offer>>
    BY <1>4 DEF HandleRequest, query, visit
  <2>2. \A n \in sent' : \E k \in sent : k.kind = n.kind
    BY <1>4, HandledKinds DEF ReviewInv
  <2>3. QED
    BY <1>1, <2>1, <2>2, YetFrame
<1>5. ASSUME NEW m \in sent, GetReply(m) PROVE NothingYet'
  <2>1. list' = Nothing => list = Nothing
    <3>1. CASE Invalidated
      BY <1>1, <3>1, NoListIsNothing, MarkedList DEF Invalidated, Shown0
    <3>2. CASE Unnoticed
      BY <1>1, <3>2, NoListIsNothing, MarkedList DEF Unnoticed, LateList, Shown0
    <3>3. QED
      BY <1>5, <3>1, <3>2 DEF GetReply, Refresh, query
  <2>2. sent' \subseteq sent
    BY <1>5 DEF GetReply
  <2>3. CASE list # Nothing
    BY <2>1, <2>3 DEF NothingYet
  <2>4. CASE list = Nothing
    <3>1. Idle
      BY <1>1, <2>4 DEF NothingYet
    <3>2. m.kind \in {"suggest", "stop"}
      BY <3>1 DEF Idle
    <3>3. UNCHANGED <<editor, offer>>
      BY <1>5, <3>2 DEF GetReply, visit, Follow, MoveOn
    <3>4. QED
      BY <2>2, <3>1, <3>3 DEF NothingYet, Idle
  <2>5. QED
    BY <2>3, <2>4
<1>6. CASE Poll
  <2>1. UNCHANGED <<editor, offer, sent>>
    BY <1>6 DEF Poll, MoveOn, Follow
  <2>2. list' = Nothing => list = Nothing
    <3>1. CASE Invalidated
      BY <1>1, <3>1, NoListIsNothing, MarkedList DEF Invalidated, Shown0
    <3>2. QED
      BY <1>6, <3>1 DEF Poll, query
  <2>3. QED
    BY <1>1, <2>1, <2>2, YetFrame
<1>7. CASE FollowActive
  BY <1>1, <1>7, YetFrame DEF FollowActive, query
<1>8. QED
  BY <1>2, <1>3, <1>4, <1>5, <1>6, <1>7 DEF Replies

LEMMA YetOthers == ReviewInv /\ Others => NothingYet'
<1> SUFFICES ASSUME ReviewInv, Others PROVE NothingYet'
  OBVIOUS
<1>1. NothingYet /\ Shown0
  BY DEF ReviewInv, ReviewTypes
<1>2. UNCHANGED <<visit, sent>> /\ (UNCHANGED query \/ Unnoticed)
  BY DEF Others, Arrive, Depart, RunFails, OthersRun, RunStores, Elsewhere
<1>3. list' = Nothing => list = Nothing
  <2>1. CASE Unnoticed
    BY <1>1, <2>1, NoListIsNothing, MarkedList DEF Unnoticed, LateList, Shown0
  <2>2. QED
    BY <1>2, <2>1 DEF query
<1>4. QED
  BY <1>1, <1>2, <1>3, YetFrame DEF visit

LEMMA InvReview == ReviewInv /\ [ReviewNext]_reviewVars => ReviewInv'
<1> SUFFICES ASSUME ReviewInv, [ReviewNext]_reviewVars PROVE ReviewInv'
  OBVIOUS
<1>1. ReviewTypes' /\ NothingYet'
  <2>1. UNCHANGED reviewVars => NothingYet'
    BY YetFrame DEF reviewVars, query, visit, ReviewInv
  <2>2. QED
    BY <2>1, TypesReview, YetClicks, YetReplies, YetOthers DEF ReviewInv, ReviewNext
<1>2. CASE Clicks
  <2>1. CASE \E key \in OnPage : Ignore(key)
    BY <1>1, <2>1, IgnoreAsks, InvAsk DEF ReviewInv
  <2>2. CASE \E selected \in BOOLEAN : Apply(selected)
    BY <1>1, <2>2, ApplyAsks, InvAsk DEF ReviewInv
  <2>3. CASE UndoOffered \/ Suggest \/ Stop
    BY <1>1, <2>3, OthersAsk, InvAsk DEF ReviewInv
  <2>4. CASE \/ CloseEditor \/ \E i \in Tickable : Toggle(i)
             \/ \E key \in OnPage : OpenEditor(key, "accept") \/ OpenEditor(key, "change")
    <3>1. UNCHANGED <<queue, query, sent, shifted, Awaiting>>
      BY <2>4 DEF CloseEditor, Toggle, OpenEditor, queueVars, records, Awaiting
    <3>2. QED
      BY <1>1, <3>1, InvFrame DEF ReviewInv
  <2>5. QED
    BY <1>1, <1>2, <2>1, <2>2, <2>3, <2>4, InvComeBack DEF Clicks, ReviewInv
<1>3. CASE Replies
  BY <1>1, <1>3, InvServe, InvLand, InvHandle, InvGetReply, InvFollow DEF Replies, ReviewInv
<1>4. CASE Others
  BY <1>1, <1>4, InvOthers DEF ReviewInv
<1>5. CASE UNCHANGED reviewVars
  <2>1. UNCHANGED <<queue, query, sent, shifted, Awaiting>>
    BY <1>5 DEF reviewVars, queueVars, visit, records, Awaiting
  <2>2. QED
    BY <1>1, <2>1, InvFrame DEF ReviewInv
<1>6. QED
  BY <1>2, <1>3, <1>4, <1>5 DEF ReviewNext

\* The review page (review-page.tsx): the list it shows, the answers it waits for and
\* what it has heard of them, for any items, groups and AI jobs.
THEOREM ReviewInvariant == ReviewSpec => []ReviewInv
<1>1. ReviewInit => ReviewInv
  BY ReviewInvInit
<1>2. ReviewInv /\ [ReviewNext]_reviewVars => ReviewInv'
  BY InvReview
<1>3. QED
  BY <1>1, <1>2, PTL DEF ReviewSpec

\* The invalidations of review-page.tsx are enough: once every answer is in, the groups
\* on the page are those of the queue.
THEOREM ListIsTheQueue == ReviewSpec => []ListFollowsQueue
<1>1. ReviewInv => ListFollowsQueue
  BY DEF ReviewInv, ListInv, ListFollowsQueue, Stale, Answered
<1>2. QED
  BY <1>1, ReviewInvariant, PTL

-----------------------------------------------------------------------------
(* Decisions, and the ticks and the editor they come from.                    *)
Orderly == ~early /\ ~shifted

\* A decision was taken that the page has not heard of.
Taken == \E m \in sent : Answered(m) /\ Decides(m)

\* Item i belongs where it was ticked: to the group of its kind.
Held(i, key) == i \in Item /\ key.of = Kin[i]

\* What is ticked is in the queue until a decision of this visit takes it out.
TicksInv ==
    Orderly /\ ticked # {} =>
        /\ \A m \in sent : Decides(m) => m.here
        /\ \A tick \in ticked :
             /\ Held(tick[2], tick[1])
             /\ tick[2] \in DOMAIN queue \/ Taken

\* The same of the ticks the editor was opened with: the decision is its own, and
\* its answer closes the editor.
EditorInv ==
    Orderly /\ editor # Nothing =>
        /\ \A m \in sent : Decides(m) => m.kind = "apply" /\ m.here
        /\ \A i \in editor.ids : Held(i, editor.key) /\ (i \in DOMAIN queue \/ Taken)

About(m, q) == IF m.ids = {} THEN Members(q, m.key) ELSE m.ids

Allowed(m, q) ==
    /\ About(m, q) # {} /\ About(m, q) \subseteq Members(q, m.key)
    /\ m.decision = "accept" => SameHint(Rows(q, m.key))

BaseInv ==
    Orderly => \A m \in sent : Decides(m) /\ m.base # Nothing => Allowed(m, m.base)

DecisionInv == TicksInv /\ EditorInv /\ BaseInv

LEMMA DecisionFrame ==
    ASSUME DecisionInv, Orderly' => Orderly, UNCHANGED <<ticked, editor, sent>>,
           DOMAIN queue \subseteq DOMAIN queue'
    PROVE  DecisionInv'
<1>1. Taken' = Taken
  BY DEF Taken, Answered, Decides
<1>2. TicksInv'
  BY <1>1 DEF DecisionInv, TicksInv, Held, Decides
<1>3. EditorInv'
  BY <1>1 DEF DecisionInv, EditorInv, Held, Decides
<1>4. BaseInv'
  BY DEF DecisionInv, BaseInv, Allowed, About, Decides, Members, KeyOf, Rows, SameHint
<1>5. QED
  BY <1>2, <1>3, <1>4 DEF DecisionInv

LEMMA QuietHasNoneTaken == Quiet => sent = {} /\ ~Taken /\ IsFresh
BY DEF Quiet, Taken

LEMMA DecisionToggle ==
    ASSUME ReviewInv, DecisionInv, NEW i \in Tickable, Toggle(i)
    PROVE  DecisionInv'
<1> USE DEF Toggle
<1>1. editor' = Nothing /\ UNCHANGED <<queue, sent>>
  BY DEF queueVars
<1>2. CASE ~Orderly'
  BY <1>2 DEF DecisionInv, TicksInv, EditorInv, BaseInv
<1>3. CASE Orderly'
  <2>1. Orderly /\ Quiet /\ sent = {} /\ ~Taken
    BY <1>3, QuietHasNoneTaken DEF Orderly
  <2>2. DOMAIN list.items \subseteq DOMAIN queue
    BY <2>1, QuietHasNoneTaken DEF ReviewInv, NothingGone, Orderly
  <2> DEFINE tick == <<KeyOf(list.items, i), i>>
  <2>3. tick[1].of = Kin[i] /\ tick[2] = i /\ i \in Item /\ i \in DOMAIN queue
    BY <2>2, ReviewAssumption DEF KeyOf
  <2>4. ticked' \subseteq ticked \cup {tick}
    OBVIOUS
  <2> HIDE DEF tick
  <2>5. \A t \in ticked' : Held(t[2], t[1]) /\ t[2] \in DOMAIN queue
    BY <2>1, <2>3, <2>4 DEF DecisionInv, TicksInv, Held
  <2>6. TicksInv'
    BY <1>1, <2>1, <2>5 DEF TicksInv, Held
  <2>7. QED
    BY <1>1, <2>1, <2>6 DEF DecisionInv, EditorInv, BaseInv
<1>4. QED
  BY <1>2, <1>3

LEMMA DecisionOpen ==
    ASSUME ReviewInv, DecisionInv, NEW key, NEW decision, OpenEditor(key, decision)
    PROVE  DecisionInv'
<1> USE DEF OpenEditor
<1>1. UNCHANGED <<queue, sent, ticked>> /\ editor'.ids = TicksOf(key) /\ editor'.key = key
  BY DEF queueVars
<1>2. CASE ~Orderly'
  BY <1>2 DEF DecisionInv, TicksInv, EditorInv, BaseInv
<1>3. CASE Orderly'
  <2>1. Orderly /\ Quiet /\ sent = {} /\ ~Taken
    BY <1>3, QuietHasNoneTaken DEF Orderly
  <2>2. ASSUME NEW i \in TicksOf(key) PROVE Held(i, key) /\ i \in DOMAIN queue
    <3>1. <<key, i>> \in ticked
      BY <2>2 DEF TicksOf
    <3>2. <<key, i>>[1] = key /\ <<key, i>>[2] = i
      OBVIOUS
    <3>3. QED
      BY <2>1, <3>1, <3>2 DEF DecisionInv, TicksInv
  <2>3. EditorInv'
    BY <1>1, <2>1, <2>2 DEF EditorInv, Held
  <2>4. TicksInv' /\ BaseInv'
    BY <1>1, <2>1 DEF DecisionInv, TicksInv, BaseInv, Held
  <2>5. QED
    BY <2>3, <2>4 DEF DecisionInv
<1>4. QED
  BY <1>2, <1>3

\* All items of a kind are in one group.
LEMMA OneGroupPerKind ==
    ASSUME NEW q, NEW i, NEW j, Kin[i] = Kin[j]
    PROVE  KeyOf(q, i) = KeyOf(q, j)
BY DEF KeyOf

LEMMA HeldIsMember ==
    ASSUME NEW q, NEW key, Members(q, key) # {}, NEW i \in DOMAIN q, Held(i, key)
    PROVE  i \in Members(q, key)
<1>1. PICK j : j \in Members(q, key)
  OBVIOUS
<1>2. key = KeyOf(q, j) /\ key.of = Kin[j]
  BY <1>1 DEF Members, KeyOf
<1>3. KeyOf(q, i) = key
  BY <1>2, OneGroupPerKind DEF Held
<1>4. QED
  BY <1>3 DEF Members

LEMMA BasisIs ==
    ASSUME NEW key, NEW shown, Basis(key, shown) # Nothing
    PROVE  Quiet /\ list.items = queue /\ shown = Rows(queue, key) /\ Basis(key, shown) = queue
BY DEF Basis

LEMMA DecisionAsk ==
    ASSUME DecisionInv, NEW n, Asked(n),
           Orderly /\ Decides(n) => /\ editor # Nothing => n.kind = "apply"
                                    /\ n.base # Nothing => Allowed(n, n.base)
    PROVE  DecisionInv'
<1> USE DEF Asked
<1>1. UNCHANGED <<queue, ticked, editor, Orderly>>
  BY DEF queueVars, visit, records, Orderly
<1>2. Taken => Taken'
  BY DEF Taken, Answered, Decides
<1>3. TicksInv'
  BY <1>1, <1>2 DEF DecisionInv, TicksInv, Held, Decides
<1>4. EditorInv'
  BY <1>1, <1>2 DEF DecisionInv, EditorInv, Held, Decides
<1>5. BaseInv'
  <2>1. ASSUME Orderly, NEW m \in sent', Decides(m), m.base # Nothing PROVE Allowed(m, m.base)
    BY <2>1 DEF DecisionInv, BaseInv
  <2>2. QED
    BY <1>1, <2>1 DEF BaseInv, Decides
<1>6. QED
  BY <1>3, <1>4, <1>5 DEF DecisionInv

LEMMA DecisionApply ==
    ASSUME ReviewInv, DecisionInv, NEW selected \in BOOLEAN, Apply(selected)
    PROVE  DecisionInv'
<1>1. PICK n : /\ Asked(n) /\ n.kind = "apply" /\ n.decision = editor.decision
               /\ n.ids = IF selected THEN editor.ids ELSE {}
               /\ n.key = editor.key /\ n.base = Basis(editor.key, editor.shown)
  BY ApplyAsks DEF ReviewInv
<1>2. editor # Nothing /\ (selected => editor.ids # {}) /\ EditorTyped /\ Tables
  BY DEF Apply, ReviewInv, ReviewTypes
<1>3. ASSUME Orderly, n.base # Nothing PROVE Allowed(n, n.base)
  <2>1. Quiet /\ editor.shown = Rows(queue, n.key) /\ n.base = queue
    BY <1>1, <1>3, BasisIs
  <2>2. DOMAIN editor.shown = Members(queue, n.key) /\ Members(queue, n.key) # {}
    BY <1>2, <2>1, ShownRows DEF EditorTyped, Tables
  <2>3. \A i \in editor.ids : Held(i, n.key) /\ i \in DOMAIN queue
    BY <1>1, <1>2, <1>3, <2>1, QuietHasNoneTaken DEF DecisionInv, EditorInv
  <2>4. \A i \in editor.ids : i \in Members(queue, n.key)
    BY <2>2, <2>3, HeldIsMember
  <2>5. About(n, queue) # {} /\ About(n, queue) \subseteq Members(queue, n.key)
    BY <1>1, <1>2, <2>2, <2>4 DEF About
  <2>6. n.decision = "accept" => SameHint(Rows(queue, n.key))
    BY <1>1, <1>2, <2>1 DEF EditorTyped
  <2>7. QED
    BY <2>1, <2>5, <2>6 DEF Allowed
<1>4. QED
  BY <1>1, <1>3, DecisionAsk

LEMMA DecisionIgnore ==
    ASSUME ReviewInv, DecisionInv, NEW key, Ignore(key), key \in OnPage
    PROVE  DecisionInv'
<1>1. PICK n : /\ Asked(n) /\ n.kind = "ignore" /\ n.decision = "ignore" /\ n.ids = {}
               /\ n.key = key /\ n.base = Basis(key, Rows(list.items, key))
  BY IgnoreAsks DEF ReviewInv
<1>2. editor = Nothing /\ Tables
  BY DEF Ignore, ReviewInv, ReviewTypes
<1>3. ASSUME n.base # Nothing PROVE Allowed(n, n.base)
  <2>1. Quiet /\ list.items = queue /\ n.base = queue
    BY <1>1, <1>3, BasisIs
  <2>2. key \in Groups(queue)
    BY <2>1 DEF OnPage
  <2>3. Members(queue, key) # {}
    BY <1>2, <2>2, ShownRows DEF Tables
  <2>4. QED
    BY <1>1, <2>1, <2>3 DEF Allowed, About
<1>4. QED
  BY <1>1, <1>2, <1>3, DecisionAsk

\* A decision that only changed in who waits for it, or in its answer.
Same(n, m) ==
    /\ n.kind = m.kind /\ n.key = m.key /\ n.ids = m.ids
    /\ n.decision = m.decision /\ n.base = m.base

LEMMA AllowedSame ==
    ASSUME NEW n, NEW m, Same(n, m), NEW q
    PROVE  Allowed(n, q) = Allowed(m, q) /\ Decides(n) = Decides(m)
BY DEF Same, Allowed, About, Decides

LEMMA BaseKept ==
    ASSUME BaseInv, Orderly' => Orderly,
           \A n \in sent' : Decides(n) => n \in sent \/ \E m \in sent : Same(n, m)
    PROVE  BaseInv'
<1>1. ASSUME Orderly, NEW n \in sent', Decides(n), n.base # Nothing PROVE Allowed(n, n.base)
  <2>1. PICK m \in sent : n = m \/ Same(n, m)
    BY <1>1
  <2>2. Decides(m) /\ m.base = n.base /\ Allowed(n, n.base) = Allowed(m, m.base)
    BY <1>1, <2>1, AllowedSame DEF Same
  <2>3. QED
    BY <1>1, <2>2 DEF BaseInv
<1>2. QED
  BY <1>1 DEF BaseInv, Decides

LEMMA DecisionComeBack ==
    ASSUME ReviewInv, DecisionInv, ComeBack
    PROVE  DecisionInv'
<1> USE DEF ComeBack
<1>1. ticked' = {} /\ editor' = Nothing /\ Orderly' = Orderly
  BY DEF records, Orderly
<1>2. ASSUME NEW n \in sent', Decides(n) PROVE \E m \in sent : Same(n, m)
  <2>1. PICK m \in sent : n = [m EXCEPT !.here = FALSE]
    OBVIOUS
  <2>2. Message(m)
    BY DEF ReviewInv, ReviewTypes
  <2>3. n.kind = m.kind /\ \A x \in DOMAIN m \ {"here"} : n[x] = m[x]
    BY <2>1, <2>2, Abandoned
  <2>4. {"key", "decision", "ids", "base"} \subseteq DOMAIN m
    BY <1>2, <2>2, <2>3 DEF Message, Decides
  <2>5. Same(n, m)
    BY <2>3, <2>4 DEF Same
  <2>6. QED
    BY <2>5
<1>3. BaseInv'
  BY <1>1, <1>2, BaseKept DEF DecisionInv
<1>4. QED
  BY <1>1, <1>3 DEF DecisionInv, TicksInv, EditorInv

LEMMA DecisionHandle ==
    ASSUME ReviewInv, DecisionInv, NEW m \in sent, HandleRequest(m)
    PROVE  DecisionInv'
<1> USE DEF HandleRequest
<1>1. UNCHANGED <<ticked, editor, Orderly>> /\ Message(m) /\ ~Answered(m)
  BY DEF visit, records, Orderly, ReviewInv, ReviewTypes, Answered
<1>2. PICK f, r : f \in BOOLEAN /\ Reply(m, f, r) /\ (Decide(m) => f = FALSE)
  BY DEF Decide, UndoDecision, StartRun, StopRun
<1> DEFINE n == [m EXCEPT !.done = TRUE, !.failed = f, !.result = r]
<1>3. sent' = (sent \ {m}) \cup {n}
  BY <1>2 DEF Reply
<1>4. /\ n.kind = m.kind /\ n.here = m.here /\ n.done = TRUE /\ n.failed = f
      /\ Decides(m) => Same(n, m)
  <2>1. Common0 \subseteq DOMAIN m
    BY <1>1 DEF Message
  <2>2. /\ DOMAIN n = DOMAIN m /\ n.done = TRUE /\ n.failed = f
        /\ \A x \in DOMAIN m \ {"done", "failed", "result"} : n[x] = m[x]
    BY <2>1, Answering DEF Common0
  <2>3. Decides(m) => {"key", "decision", "ids", "base"} \subseteq DOMAIN m
    BY <1>1 DEF Message
  <2> HIDE DEF n
  <2>4. n.kind = m.kind /\ n.here = m.here
    BY <2>1, <2>2 DEF Common0
  <2>5. Decides(m) => Same(n, m)
    BY <2>2, <2>3, <2>4 DEF Same
  <2>6. QED
    BY <2>2, <2>4, <2>5
<1> HIDE DEF n
<1>5. Decides(n) = Decides(m)
  BY <1>4 DEF Decides
<1>6. BaseInv'
  <2>1. \A k \in sent' : Decides(k) => k \in sent \/ \E l \in sent : Same(k, l)
    BY <1>3, <1>4, <1>5
  <2>2. QED
    BY <1>1, <2>1, BaseKept DEF DecisionInv
<1>7. \A k \in sent' : Decides(k) => \E l \in sent : Decides(l) /\ k.kind = l.kind /\ k.here = l.here
  BY <1>3, <1>4, <1>5
<1>8. Taken => Taken'
  BY <1>1, <1>3 DEF Taken, Answered, Decides
<1>9. DOMAIN queue \subseteq DOMAIN queue' \/ Taken'
  <2>1. CASE Decide(m)
    <3>1. Answered(n) /\ Decides(n)
      BY <1>2, <1>4, <1>5, <2>1 DEF Answered, Decide
    <3>2. Taken'
      BY <1>3, <3>1 DEF Taken, Answered, Decides
    <3>3. QED
      BY <3>2
  <2>2. CASE UndoDecision(m)
    <3>1. m.action \in DOMAIN actions /\ queue \in Queues
      BY <2>2 DEF ReviewInv, ReviewTypes, Refers, UndoDecision, Tables
    <3>2. actions[m.action] \in Undoable
      BY <3>1 DEF ReviewInv, ReviewTypes, Tables
    <3>3. actions[m.action].before \in Queues
      BY <3>2 DEF Undoable
    <3>4. QED
      BY <2>2, <3>1, <3>3, SpreadIsQueue DEF UndoDecision
  <2>3. CASE ~Decide(m) /\ ~UndoDecision(m)
    <3>1. UNCHANGED queue
      BY <2>3 DEF StartRun, StopRun, queueVars
    <3>2. QED
      BY <3>1
  <2>4. QED
    BY <2>1, <2>2, <2>3
<1>10. TicksInv'
  <2>1. ASSUME Orderly, ticked # {}
        PROVE  /\ \A k \in sent' : Decides(k) => k.here
               /\ \A t \in ticked : Held(t[2], t[1]) /\ (t[2] \in DOMAIN queue' \/ Taken')
    BY <1>7, <1>8, <1>9, <2>1 DEF DecisionInv, TicksInv
  <2>2. QED
    BY <1>1, <2>1 DEF TicksInv, Decides, Held
<1>11. EditorInv'
  <2>1. ASSUME Orderly, editor # Nothing
        PROVE  /\ \A k \in sent' : Decides(k) => k.kind = "apply" /\ k.here
               /\ \A i \in editor.ids : Held(i, editor.key) /\ (i \in DOMAIN queue' \/ Taken')
    BY <1>7, <1>8, <1>9, <2>1 DEF DecisionInv, EditorInv
  <2>2. QED
    BY <1>1, <2>1 DEF EditorInv, Decides, Held
<1>12. QED
  BY <1>6, <1>10, <1>11 DEF DecisionInv

LEMMA DecisionGetReply ==
    ASSUME ReviewInv, DecisionInv, NEW m \in sent, GetReply(m)
    PROVE  DecisionInv'
<1> USE DEF GetReply
<1>1. UNCHANGED <<queue, Orderly>> /\ Message(m) /\ sent' = sent \ {m} /\ m.done
  BY DEF queueVars, records, Orderly, ReviewInv, ReviewTypes
<1>2. BaseInv'
  BY <1>1, BaseKept DEF DecisionInv
<1>3. CASE Answered(m) /\ Decides(m)
  <2>1. ~m.here => UNCHANGED <<ticked, editor>>
    BY DEF visit
  <2>2. m.here => ticked' = {} /\ (m.kind = "apply" => editor' = Nothing)
                             /\ (m.kind = "ignore" => UNCHANGED editor)
    BY <1>3 DEF Answered, Decides, Applied, Ignored
  <2>3. Orderly /\ ticked # {} => m.here
    BY <1>3 DEF DecisionInv, TicksInv
  <2>4. Orderly /\ editor # Nothing => m.here /\ m.kind = "apply"
    BY <1>3 DEF DecisionInv, EditorInv
  <2>5. TicksInv'
    BY <1>1, <2>1, <2>2, <2>3 DEF TicksInv
  <2>6. EditorInv'
    BY <1>1, <1>3, <2>1, <2>2, <2>4 DEF EditorInv, Decides
  <2>7. QED
    BY <1>2, <2>5, <2>6 DEF DecisionInv
<1>4. CASE ~(Answered(m) /\ Decides(m))
  <2>1. Taken => Taken'
    BY <1>1, <1>4 DEF Taken, Answered, Decides
  <2>2. UNCHANGED <<ticked, editor>>
    <3>1. CASE m.failed \/ ~m.here
      BY <3>1 DEF visit
    <3>2. CASE ~m.failed /\ m.here
      BY <1>1, <1>4, <3>2 DEF Message, Answered, Decides, Undone, Follow, MoveOn, visit
    <3>3. QED
      BY <3>1, <3>2
  <2>3. TicksInv'
    BY <1>1, <2>1, <2>2 DEF DecisionInv, TicksInv, Held, Decides
  <2>4. EditorInv'
    BY <1>1, <2>1, <2>2 DEF DecisionInv, EditorInv, Held, Decides
  <2>5. QED
    BY <1>2, <2>3, <2>4 DEF DecisionInv
<1>5. QED
  BY <1>3, <1>4

LEMMA DecisionOthers == ReviewInv /\ DecisionInv /\ Others => DecisionInv'
<1> SUFFICES ASSUME ReviewInv, DecisionInv, Others PROVE DecisionInv'
  OBVIOUS
<1>1. ASSUME NEW i \in Item, Depart(i) PROVE DecisionInv'
  <2>1. ~Orderly'
    BY <1>1 DEF Depart, Orderly
  <2>2. QED
    BY <2>1 DEF DecisionInv, TicksInv, EditorInv, BaseInv
<1>2. ASSUME UNCHANGED <<visit, sent, records>>, DOMAIN queue \subseteq DOMAIN queue' PROVE DecisionInv'
  BY <1>2, DecisionFrame DEF visit, records, Orderly
<1>3. ASSUME NEW i \in Item, NEW h \in Hint \cup {Nothing}, Arrive(i, h) PROVE DecisionInv'
  BY <1>2, <1>3, ArriveKeeps DEF Arrive, ReviewInv
<1>4. ASSUME NEW j \in Run, RunFails(j) \/ OthersRun(j) PROVE DecisionInv'
  BY <1>2, <1>4 DEF RunFails, OthersRun
<1>5. ASSUME NEW j \in Run, NEW h \in Hint, NEW status \in {"succeeded", "failed", "running"},
             RunStores(j, h, status)
      PROVE  DecisionInv'
  BY <1>2, <1>5, StoresKeeps DEF RunStores, ReviewInv
<1>6. QED
  BY <1>1, <1>3, <1>4, <1>5 DEF Others

LEMMA DecisionStep == ReviewInv /\ DecisionInv /\ [ReviewNext]_reviewVars => DecisionInv'
<1> SUFFICES ASSUME ReviewInv, DecisionInv, [ReviewNext]_reviewVars PROVE DecisionInv'
  OBVIOUS
<1>1. CASE Clicks
  <2>1. CASE UndoOffered \/ Suggest \/ Stop
    BY <2>1, OthersAsk, DecisionAsk DEF ReviewInv
  <2>2. CASE CloseEditor
    <3>1. editor' = Nothing /\ UNCHANGED <<queue, ticked, sent, Orderly, Taken>>
      BY <2>2 DEF CloseEditor, queueVars, records, Orderly, Taken
    <3>2. QED
      BY <3>1 DEF DecisionInv, TicksInv, EditorInv, BaseInv
  <2>3. CASE \E key \in OnPage : Ignore(key)
    BY <2>3, DecisionIgnore
  <2>4. CASE \E key \in OnPage : OpenEditor(key, "accept") \/ OpenEditor(key, "change")
    BY <2>4, DecisionOpen
  <2>5. QED
    BY <1>1, <2>1, <2>2, <2>3, <2>4, DecisionToggle, DecisionApply, DecisionComeBack DEF Clicks
<1>2. CASE Replies
  <2>1. CASE ServeGroups \/ LandGroups \/ Poll \/ FollowActive
    <3>1. UNCHANGED <<queue, sent, ticked, editor, Orderly>>
      BY <2>1 DEF ServeGroups, LandGroups, Poll, FollowActive, queueVars, visit, records, Orderly,
                  MoveOn, Follow
    <3>2. QED
      BY <3>1, DecisionFrame
  <2>2. QED
    BY <1>2, <2>1, DecisionHandle, DecisionGetReply DEF Replies
<1>3. CASE UNCHANGED reviewVars
  <2>1. UNCHANGED <<queue, sent, ticked, editor, Orderly>>
    BY <1>3 DEF reviewVars, queueVars, visit, records, Orderly
  <2>2. QED
    BY <2>1, DecisionFrame
<1>4. QED
  BY <1>1, <1>2, <1>3, DecisionOthers DEF ReviewNext

\* The review page: ticks, the open editor and the requests that are under way speak of
\* groups as the page shows them.
THEOREM DecisionInvariant == ReviewSpec => []DecisionInv
<1>1. ReviewInit => DecisionInv
  BY DEF ReviewInit, DecisionInv, TicksInv, EditorInv, BaseInv
<1>2. ReviewInv /\ DecisionInv /\ [ReviewNext]_reviewVars => DecisionInv'
  BY DecisionStep
<1>3. QED
  BY <1>1, <1>2, ReviewInvariant, PTL DEF ReviewSpec

\* decide and applyAccepted: the server never refuses a decision for groups that have
\* changed, as long as nobody ticks or opens anything while answers are awaited.
THEOREM DecisionsTaken == ReviewSpec => []DecisionsAreTaken
<1>1. ReviewInv /\ DecisionInv => DecisionsAreTaken
  <2> SUFFICES ASSUME ReviewInv, DecisionInv, Orderly, NEW m \in sent, Decides(m), m.base = queue
               PROVE  ~Rejected(m)
    BY DEF DecisionsAreTaken, Orderly
  <2>1. queue # Nothing
    BY NothingIsNoQueue DEF ReviewInv, ReviewTypes, Tables
  <2>2. Allowed(m, queue)
    BY <2>1 DEF DecisionInv, BaseInv
  <2>3. Target(m) = About(m, queue)
    BY DEF Target, About
  <2>4. ASSUME SameHint(Rows(queue, m.key)) PROVE Common(queue, m.key) # Nothing
    <3> DEFINE hints == {queue[i] : i \in Members(queue, m.key)}
    <3>1. \E h \in Hint : hints = {h}
      BY <2>4 DEF SameHint, Rows
    <3>2. (CHOOSE h \in Hint : hints = {h}) \in Hint
      BY <3>1
    <3>3. Common(queue, m.key) \in Hint
      BY <3>1, <3>2 DEF Common
    <3>4. QED
      BY <3>3, ReviewAssumption
  <2>5. QED
    BY <2>2, <2>3, <2>4 DEF Allowed, Rejected, Decides
<1>2. QED
  BY <1>1, ReviewInvariant, DecisionInvariant, PTL

-----------------------------------------------------------------------------
(* The transactions page: its queries and the answers to them.                *)
EntryFields == {"data", "late", "fresh"}
FetchFields == {"answer", "late"}
EditFields == {"done", "failed", "ids"}

LEMMA MarkedEntry ==
    ASSUME NEW e, DOMAIN e = EntryFields, NEW f, NEW l
    PROVE  LET n == [e EXCEPT !.fresh = f, !.late = l]
           IN  DOMAIN n = EntryFields /\ n.data = e.data /\ n.fresh = f /\ n.late = l
BY DEF EntryFields

LEMMA MarkedFetch ==
    ASSUME NEW e, DOMAIN e = FetchFields, NEW l
    PROVE  LET n == [e EXCEPT !.late = l]
           IN  DOMAIN n = FetchFields /\ n.answer = e.answer /\ n.late = l
BY DEF FetchFields

LEMMA ServedFetch ==
    ASSUME NEW e, DOMAIN e = FetchFields, NEW a
    PROVE  LET n == [e EXCEPT !.answer = a]
           IN  DOMAIN n = FetchFields /\ n.answer = a /\ n.late = e.late
BY DEF FetchFields

LEMMA HandledEdit ==
    ASSUME NEW m, EditFields \subseteq DOMAIN m, NEW f, NEW ids
    PROVE  LET n == [m EXCEPT !.done = TRUE, !.failed = f, !.ids = ids]
           IN  DOMAIN n = DOMAIN m /\ n.done = TRUE /\ n.failed = f /\ n.ids = ids
BY DEF EditFields

LEMMA AskingFetch ==
    DOMAIN Asking = FetchFields /\ Asking.answer = None /\ Asking.late = FALSE
BY DEF Asking, FetchFields

SearchFields == {"filter", "sort", "direction", "cursor"}

Query(q) == DOMAIN q = SearchFields \/ \E t \in Txn : q = Detail(t)

PageTypes ==
    /\ DOMAIN search = SearchFields
    /\ open # None => open \in Txn
    /\ \A q \in DOMAIN cache : Query(q) /\ DOMAIN cache[q] = EntryFields
    /\ \A q \in DOMAIN flight : Query(q) /\ DOMAIN flight[q] = FetchFields
    /\ \A m \in asked : EditFields \subseteq DOMAIN m

\* The server has taken an edit, and the page does not know.
Untold(m) == m.done /\ ~m.failed

\* The edit may have changed what a query answers.
Affects(m, q) == IsDetail(q) => q.detail \in m.ids

Uptodate(q) == \A m \in asked : Untold(m) => ~Affects(m, q)

CacheInv ==
    /\ \A q \in DOMAIN cache :
         cache[q].fresh /\ ~cache[q].late /\ Uptodate(q) => cache[q].data = Answer(q)
    /\ \A q \in DOMAIN flight :
         flight[q].answer # None /\ ~flight[q].late /\ Uptodate(q) => flight[q].answer = Answer(q)

FormFields == {"category", "review"}

FormInv ==
    /\ DOMAIN form = {"category", "review", "typed"}
    /\ Loaded => \A field \in FormFields \ form.typed :
                    form[field] = cache[Detail(open)].data.row[field]

PageInv == PageTypes /\ CacheInv /\ FormInv

LEMMA DetailIs ==
    /\ \A t : IsDetail(Detail(t)) /\ Detail(t).detail = t
    /\ \A q : DOMAIN q = SearchFields => ~IsDetail(q)
<1>1. \A t : DOMAIN Detail(t) = {"detail"} /\ Detail(t).detail = t
  BY DEF Detail
<1>2. SearchFields # {"detail"}
  BY DEF SearchFields
<1>3. QED
  BY <1>1, <1>2 DEF IsDetail

\* Answers change with the rows they are made of.
LEMMA AnswerFrame ==
    ASSUME NEW q, Query(q),
           rows' = rows \/ (IsDetail(q) /\ rows'[q.detail] = rows[q.detail])
    PROVE  Answer(q)' = Answer(q)
<1>1. CASE IsDetail(q)
  <2>1. Answer(q) = Hydrate(q.detail) /\ Answer(q)' = Hydrate(q.detail)'
    BY <1>1 DEF Answer
  <2>2. Hydrate(q.detail)' = Hydrate(q.detail)
    BY <1>1 DEF Hydrate
  <2>3. QED
    BY <2>1, <2>2
<1>2. CASE ~IsDetail(q)
  <2>1. Listing(q)' = Listing(q)
    BY <1>2 DEF Listing, Matches, Hydrate
  <2>2. Failed' = Failed /\ CursorValid(q)' = CursorValid(q)
    BY DEF Failed, CursorValid
  <2>3. QED
    BY <1>2, <2>1, <2>2 DEF Answer
<1>3. QED
  BY <1>1, <1>2

LEMMA PageInit == Init => PageInv
<1> SUFFICES ASSUME Init PROVE PageInv
  OBVIOUS
<1> USE DEF Init
<1>1. DOMAIN search = SearchFields
  BY DEF SearchFields
<1>2. DOMAIN flight = {search} /\ flight[search] = Asking /\ DOMAIN cache = {}
  OBVIOUS
<1>3. PageTypes
  BY <1>1, <1>2, AskingFetch DEF PageTypes, Query
<1>4. CacheInv
  BY <1>2, AskingFetch DEF CacheInv
<1>5. FormInv
  BY DEF FormInv, Blank, Loaded
<1>6. QED
  BY <1>3, <1>4, <1>5 DEF PageInv

\* Nothing changes but that queries are asked, or edits sent.
LEMMA CacheFrame ==
    ASSUME PageTypes, CacheInv, UNCHANGED <<rows, cache>>,
           \A m \in asked : Untold(m) => m \in asked',
           \A q \in DOMAIN flight' : \/ q \in DOMAIN flight /\ flight'[q] = flight[q]
                                     \/ Query(q) /\ flight'[q] = Asking
    PROVE  CacheInv'
<1>1. ASSUME NEW q, Uptodate(q)' PROVE Uptodate(q)
  BY <1>1 DEF Uptodate, Untold, Affects, IsDetail
<1>2. \A q \in DOMAIN cache \cup DOMAIN flight : Answer(q)' = Answer(q)
  BY AnswerFrame DEF PageTypes
<1>3. ASSUME NEW q \in DOMAIN cache', cache'[q].fresh, ~cache'[q].late, Uptodate(q)'
      PROVE  cache'[q].data = Answer(q)'
  BY <1>1, <1>2, <1>3 DEF CacheInv
<1>4. ASSUME NEW q \in DOMAIN flight', flight'[q].answer # None, ~flight'[q].late, Uptodate(q)'
      PROVE  flight'[q].answer = Answer(q)'
  <2>1. q \in DOMAIN flight /\ flight'[q] = flight[q]
    BY <1>4, AskingFetch
  <2>2. QED
    BY <1>1, <1>2, <1>4, <2>1 DEF CacheInv
<1>5. QED
  BY <1>3, <1>4 DEF CacheInv

LEMMA FormFrame ==
    ASSUME FormInv, UNCHANGED <<form, open>>,
           \A q \in DOMAIN cache' : q \in DOMAIN cache /\ cache'[q].data = cache[q].data
    PROVE  FormInv'
<1>1. Loaded' => Loaded /\ cache'[Detail(open)].data = cache[Detail(open)].data
  BY DEF Loaded, Detail
<1>2. QED
  BY <1>1 DEF FormInv, Detail

LEMMA ShowsTyped ==
    ASSUME PageTypes, NEW s, Query(s), Shows(s)
    PROVE  \A q \in DOMAIN flight' : \/ q \in DOMAIN flight /\ flight'[q] = flight[q]
                                     \/ Query(q) /\ flight'[q] = Asking
BY DEF Shows, With

LEMMA PageTurned == PageInv /\ Turned => PageInv'
<1> SUFFICES ASSUME PageInv, Turned PROVE PageInv'
  OBVIOUS
<1>1. PageTypes /\ CacheInv /\ FormInv
  BY DEF PageInv
<1>2. PICK s, past : Move(s, past) /\ DOMAIN s = SearchFields
  <2>1. DOMAIN search = SearchFields
    BY <1>1 DEF PageTypes
  <2>2. ASSUME NEW f, Filter(f) PROVE \E s, past : Move(s, past) /\ DOMAIN s = SearchFields
    <3> DEFINE s == [search EXCEPT !.filter = f, !.cursor = First]
    <3>1. DOMAIN s = DOMAIN search
      OBVIOUS
    <3>2. Move(s, <<>>)
      BY <2>2 DEF Filter, NewList
    <3> HIDE DEF s
    <3>3. QED
      BY <2>1, <3>1, <3>2
  <2>3. ASSUME NEW column, SortBy(column)
        PROVE  \E s, past : Move(s, past) /\ DOMAIN s = SearchFields
    <3> DEFINE d == IF search.sort = column /\ search.direction = "desc" THEN "asc" ELSE "desc"
               s == [search EXCEPT !.sort = column, !.cursor = First, !.direction = d]
    <3>1. DOMAIN s = DOMAIN search
      OBVIOUS
    <3>2. Move(s, <<>>)
      BY <2>3 DEF SortBy, NewList
    <3> HIDE DEF s
    <3>3. QED
      BY <2>1, <3>1, <3>2
  <2>4. ASSUME NextPage PROVE \E s, past : Move(s, past) /\ DOMAIN s = SearchFields
    BY <2>1, <2>4 DEF NextPage
  <2>5. ASSUME Previous PROVE \E s, past : Move(s, past) /\ DOMAIN s = SearchFields
    BY <2>1, <2>5 DEF Previous
  <2>6. QED
    BY <2>2, <2>3, <2>4, <2>5 DEF Turned
<1>3. search' = s /\ Shows(s) /\ UNCHANGED <<rows, asked, cache, open, form>>
  BY <1>2 DEF Move, server
<1>4. \A q \in DOMAIN flight' : \/ q \in DOMAIN flight /\ flight'[q] = flight[q]
                                \/ Query(q) /\ flight'[q] = Asking
  BY <1>1, <1>2, <1>3, ShowsTyped DEF Query
<1>5. PageTypes'
  BY <1>1, <1>2, <1>3, <1>4, AskingFetch DEF PageTypes, Query, Detail
<1>6. CacheInv'
  BY <1>1, <1>3, <1>4, CacheFrame
<1>7. FormInv'
  BY <1>1, <1>3, FormFrame
<1>8. QED
  BY <1>5, <1>6, <1>7 DEF PageInv

LEMMA FormFilled ==
    ASSUME NEW row
    PROVE  /\ DOMAIN FormOf(row) = {"category", "review", "typed"} /\ FormOf(row).typed = {}
           /\ \A field \in FormFields : FormOf(row)[field] = row[field]
BY DEF FormOf, FormFields

LEMMA FormAfterTyping ==
    ASSUME FormInv, NEW field \in FormFields, NEW value, Type(field, value)
    PROVE  FormInv'
<1> DEFINE f == [form EXCEPT ![field] = value]
           n == [f EXCEPT !.typed = form.typed \cup {field}]
<1>1. DOMAIN form = {"category", "review", "typed"} /\ field # "typed"
  BY DEF FormInv, FormFields
<1>2. form' = n /\ UNCHANGED <<cache, open>>
  BY <1>1 DEF Type
<1>3. DOMAIN f = DOMAIN form /\ \A g \in DOMAIN form \ {field} : f[g] = form[g]
  OBVIOUS
<1> HIDE DEF f
<1>4. /\ DOMAIN n = DOMAIN f /\ \A g \in DOMAIN f \ {"typed"} : n[g] = f[g]
      /\ n.typed = form.typed \cup {field}
  BY <1>1, <1>3
<1> HIDE DEF n
<1>5. \A g \in FormFields \ {field} : n[g] = form[g]
  BY <1>1, <1>3, <1>4 DEF FormFields
<1>6. Loaded' = Loaded
  BY <1>2 DEF Loaded, Detail
<1>7. QED
  BY <1>1, <1>2, <1>3, <1>4, <1>5, <1>6 DEF FormInv, Detail

LEMMA PageSheet == PageInv /\ Sheet => PageInv'
<1> SUFFICES ASSUME PageInv, Sheet PROVE PageInv'
  OBVIOUS
<1>1. PageTypes /\ CacheInv /\ FormInv
  BY DEF PageInv
<1>2. ASSUME NEW t \in Txn, Open(t) PROVE PageInv'
  <2> USE DEF Open
  <2>1. Query(Detail(t)) /\ open' = t /\ UNCHANGED <<rows, asked, cache, search>>
    BY <1>2 DEF Query, server
  <2>2. \A q \in DOMAIN flight' : \/ q \in DOMAIN flight /\ flight'[q] = flight[q]
                                  \/ Query(q) /\ flight'[q] = Asking
    BY <1>1, <1>2, <2>1, ShowsTyped
  <2>3. PageTypes'
    BY <1>1, <1>2, <2>1, <2>2, AskingFetch DEF PageTypes, Query, Detail
  <2>4. CacheInv'
    BY <1>1, <2>1, <2>2, CacheFrame
  <2>5. FormInv'
    <3>1. CASE Detail(t) \in DOMAIN cache
      <4>1. form' = FormOf(cache[Detail(t)].data.row)
        BY <1>2, <3>1
      <4>2. QED
        BY <2>1, <4>1, FormFilled DEF FormInv, Detail
    <3>2. CASE Detail(t) \notin DOMAIN cache
      <4>1. form' = Blank /\ ~Loaded'
        BY <1>2, <2>1, <3>2 DEF Loaded, Detail
      <4>2. DOMAIN Blank = {"category", "review", "typed"}
        BY DEF Blank
      <4>3. QED
        BY <4>1, <4>2 DEF FormInv
    <3>3. QED
      BY <3>1, <3>2
  <2>6. QED
    BY <2>3, <2>4, <2>5 DEF PageInv
<1>3. CASE Close
  <2> USE DEF Close
  <2>1. open' = None /\ form' = Blank /\ UNCHANGED <<rows, asked, cache, flight, search>>
    BY <1>3 DEF server, page
  <2>2. PageTypes' /\ CacheInv'
    BY <1>1, <2>1, CacheFrame DEF PageTypes, Query, Detail
  <2>3. FormInv'
    BY <2>1 DEF FormInv, Loaded, Blank
  <2>4. QED
    BY <2>2, <2>3 DEF PageInv
<1>4. ASSUME NEW e \in Entry, Type(e.field, e.value) PROVE PageInv'
  <2> USE DEF Type
  <2>1. UNCHANGED <<rows, asked, cache, flight, search, open>>
    BY <1>4 DEF server, page
  <2>2. PageTypes' /\ CacheInv'
    BY <1>1, <2>1, CacheFrame DEF PageTypes, Query, Detail
  <2>3. e.field \in FormFields
    BY PageAssumption DEF FormFields
  <2>4. FormInv'
    BY <1>1, <1>4, <2>3, FormAfterTyping
  <2>5. QED
    BY <2>2, <2>4 DEF PageInv
<1>5. QED
  BY <1>2, <1>3, <1>4 DEF Sheet

LEMMA PageServe == ASSUME PageInv, NEW p \in DOMAIN flight, Serve(p) PROVE PageInv'
<1> USE DEF Serve
<1>1. PageTypes /\ CacheInv /\ FormInv
  BY DEF PageInv
<1>2. UNCHANGED <<rows, asked, cache, search, open, form>>
  BY DEF server, page
<1> DEFINE n == [flight[p] EXCEPT !.answer = Answer(p)]
<1>3. flight' = [flight EXCEPT ![p] = n]
  OBVIOUS
<1>4. DOMAIN n = FetchFields /\ n.answer = Answer(p)
  BY <1>1, ServedFetch DEF PageTypes
<1> HIDE DEF n
<1>5. /\ DOMAIN flight' = DOMAIN flight /\ flight'[p] = n
      /\ \A q \in DOMAIN flight \ {p} : flight'[q] = flight[q]
  BY <1>3
<1>6. PageTypes'
  BY <1>1, <1>2, <1>4, <1>5 DEF PageTypes, Query, Detail
<1>7. \A q \in DOMAIN cache \cup DOMAIN flight : Answer(q)' = Answer(q) /\ Uptodate(q)' = Uptodate(q)
  BY <1>1, <1>2, AnswerFrame DEF PageTypes, Uptodate, Untold, Affects, IsDetail
<1>8. CacheInv'
  BY <1>1, <1>2, <1>4, <1>5, <1>7 DEF CacheInv
<1>9. FormInv'
  BY <1>1, <1>2, FormFrame
<1>10. QED
  BY <1>6, <1>8, <1>9 DEF PageInv

LEMMA PageLand == ASSUME PageInv, NEW p \in DOMAIN flight, Land(p) PROVE PageInv'
<1> USE DEF Land
<1>1. PageTypes /\ CacheInv /\ FormInv
  BY DEF PageInv
<1>2. UNCHANGED <<rows, asked, search, open>>
  BY DEF server, page
<1> DEFINE e == [data |-> flight[p].answer, late |-> flight[p].late,
                 fresh |-> flight[p].answer # Failed]
<1>3. /\ DOMAIN cache' = DOMAIN cache \cup {p} /\ cache'[p] = e
      /\ \A q \in DOMAIN cache \ {p} : cache'[q] = cache[q]
      /\ DOMAIN flight' = DOMAIN flight \ {p}
      /\ \A q \in DOMAIN flight \ {p} : flight'[q] = flight[q]
  BY DEF With
<1>4. DOMAIN e = EntryFields /\ e.data = flight[p].answer /\ e.late = flight[p].late
  BY DEF EntryFields
<1> HIDE DEF e
<1>5. PageTypes'
  BY <1>1, <1>2, <1>3, <1>4 DEF PageTypes, Query, Detail
<1>6. \A q \in DOMAIN cache \cup DOMAIN flight : Answer(q)' = Answer(q) /\ Uptodate(q)' = Uptodate(q)
  BY <1>1, <1>2, AnswerFrame DEF PageTypes, Uptodate, Untold, Affects, IsDetail
<1>7. CacheInv'
  BY <1>1, <1>2, <1>3, <1>4, <1>6 DEF CacheInv
<1>8. FormInv'
  <2>1. CASE open # None /\ p = Detail(open)
    <3>1. cache'[p].data = flight[p].answer /\ form' = Refill(open, flight[p].answer)
      BY <1>3, <1>4, <2>1
    <3>2. CASE Detail(open) \in DOMAIN cache /\ cache[Detail(open)].data = flight[p].answer
      <4>1. form' = form /\ Loaded
        BY <2>1, <3>1, <3>2 DEF Refill, Loaded
      <4>2. QED
        BY <1>1, <1>2, <2>1, <3>1, <3>2, <4>1 DEF FormInv, Detail
    <3>3. CASE ~(Detail(open) \in DOMAIN cache /\ cache[Detail(open)].data = flight[p].answer)
      <4>1. form' = FormOf(flight[p].answer.row)
        BY <3>1, <3>3 DEF Refill
      <4>2. QED
        BY <1>2, <2>1, <3>1, <4>1, FormFilled DEF FormInv, Detail
    <3>4. QED
      BY <3>2, <3>3
  <2>2. CASE ~(open # None /\ p = Detail(open))
    <3>1. form' = form
      BY <2>2
    <3>2. Loaded' => Loaded /\ cache'[Detail(open)] = cache[Detail(open)]
      BY <1>2, <1>3, <2>2 DEF Loaded, Detail
    <3>3. QED
      BY <1>1, <1>2, <3>1, <3>2 DEF FormInv, Detail
  <2>3. QED
    BY <2>1, <2>2
<1>9. QED
  BY <1>5, <1>7, <1>8 DEF PageInv

LEMMA PageSent == PageInv /\ Sent => PageInv'
<1> SUFFICES ASSUME PageInv, Sent PROVE PageInv'
  OBVIOUS
<1>1. PageTypes /\ CacheInv /\ FormInv
  BY DEF PageInv
<1>2. \E kind, ts, change : Edit(kind, ts, change) \/ FormEdit(kind, ts, change)
  BY DEF Sent, Save, SaveSplits, ConfirmTransfer, Bulk, Merge
<1>3. \E r : "ids" \in DOMAIN r /\ "done" \notin DOMAIN r /\ Send(r)
  BY <1>2 DEF Edit, FormEdit
<1>4. PICK r : "ids" \in DOMAIN r /\ "done" \notin DOMAIN r /\ Send(r)
  BY <1>3
<1>5. PICK m : m = Spread([of |-> saves, done |-> FALSE, failed |-> FALSE], r)
  OBVIOUS
<1>6. asked' = asked \cup {m} /\ UNCHANGED <<rows, cache, flight, search, open, form>>
  BY <1>4, <1>5 DEF Send, server, page
<1>7. EditFields \subseteq DOMAIN m /\ m.done = FALSE
  BY <1>4, <1>5 DEF Spread, EditFields
<1>8. PageTypes'
  BY <1>1, <1>6, <1>7 DEF PageTypes, Query, Detail
<1>9. CacheInv'
  BY <1>1, <1>6, <1>7, CacheFrame
<1>10. FormInv'
  BY <1>1, <1>6, FormFrame
<1>11. QED
  BY <1>8, <1>9, <1>10 DEF PageInv

LEMMA PageHandle == ASSUME PageInv, NEW m \in asked, Handle(m) PROVE PageInv'
<1> USE DEF Handle
<1>1. PageTypes /\ CacheInv /\ FormInv
  BY DEF PageInv
<1>2. UNCHANGED <<cache, flight, search, open, form>>
  OBVIOUS
<1> DEFINE n == [m EXCEPT !.done = TRUE, !.failed = Refused(m), !.ids = Touched(m)]
<1>3. asked' = (asked \ {m}) \cup {n} /\ ~Untold(m)
  BY DEF Untold
<1>4. DOMAIN n = DOMAIN m /\ n.done = TRUE /\ n.failed = Refused(m) /\ n.ids = Touched(m)
  BY <1>1, HandledEdit DEF PageTypes
<1> HIDE DEF n
<1>5. PageTypes'
  BY <1>1, <1>2, <1>3, <1>4 DEF PageTypes, Query, Detail
<1>6. FormInv'
  BY <1>1, <1>2, FormFrame
<1>7. CacheInv'
  <2>1. CASE Refused(m)
    <3>1. UNCHANGED rows
      BY <2>1 DEF server
    <3>2. QED
      BY <1>1, <1>2, <1>3, <3>1, CacheFrame
  <2>2. CASE ~Refused(m)
    <3>1. Untold(n) /\ \A t \in Txn \ Touched(m) : rows'[t] = rows[t]
      BY <1>4, <2>2 DEF Untold
    <3>2. ASSUME NEW q, Query(q), Uptodate(q)' PROVE Uptodate(q) /\ Answer(q)' = Answer(q)
      <4>1. Uptodate(q)
        BY <1>3, <3>2 DEF Uptodate, Untold, Affects, IsDetail
      <4>2. ~Affects(n, q)
        BY <1>3, <3>1, <3>2 DEF Uptodate, Untold, Affects, IsDetail
      <4>3. IsDetail(q) /\ q.detail \notin Touched(m)
        BY <1>4, <4>2 DEF Affects
      <4>4. q.detail \in Txn
        BY <3>2, <4>3, DetailIs DEF Query
      <4>5. QED
        BY <3>1, <3>2, <4>1, <4>3, <4>4, AnswerFrame
    <3>3. \A q \in DOMAIN cache \cup DOMAIN flight : Uptodate(q)' => Uptodate(q) /\ Answer(q)' = Answer(q)
      BY <1>1, <3>2 DEF PageTypes
    <3>4. QED
      BY <1>1, <1>2, <3>3 DEF CacheInv
  <2>3. QED
    BY <2>1, <2>2
<1>8. QED
  BY <1>5, <1>6, <1>7 DEF PageInv

LEMMA PageReceive == ASSUME PageInv, NEW m \in asked, Receive(m) PROVE PageInv'
<1> USE DEF Receive
<1>1. PageTypes /\ CacheInv /\ FormInv
  BY DEF PageInv
<1>2. asked' = asked \ {m} /\ UNCHANGED <<rows, search, open, form>>
  BY DEF server, page
<1>3. CASE m.failed
  <2>1. UNCHANGED <<cache, flight>>
    BY <1>3
  <2>2. PageTypes'
    BY <1>1, <1>2, <2>1 DEF PageTypes, Query, Detail
  <2>3. CacheInv'
    BY <1>1, <1>2, <1>3, <2>1, CacheFrame DEF Untold
  <2>4. FormInv'
    BY <1>1, <1>2, <2>1, FormFrame
  <2>5. QED
    BY <2>2, <2>3, <2>4 DEF PageInv
<1>4. CASE ~m.failed
  <2> DEFINE told == Outdated(m)
             missed == {Detail(t) : t \in m.ids} \ told
  <2>1. Invalidate(told, missed)
    BY <1>4
  <2>2. Lists \subseteq told
    BY DEF Outdated
  <2>3. \A t \in m.ids : Detail(t) \in told \cup missed
    OBVIOUS
  <2> HIDE DEF told, missed
  <2> DEFINE entry(q) == [cache[q] EXCEPT !.fresh = cache[q].fresh /\ q \notin told,
                                          !.late = cache[q].late \/ q \in missed]
             fetch(q) == [flight[q] EXCEPT
                            !.late = flight[q].late \/ (q \in told \cup missed /\ flight[q].answer # None)]
  <2>4. /\ DOMAIN cache' = DOMAIN cache
        /\ \A q \in DOMAIN cache : cache'[q] = entry(q)
    BY <2>1 DEF Invalidate
  <2>5. \A q \in DOMAIN cache : /\ DOMAIN cache'[q] = EntryFields /\ cache'[q].data = cache[q].data
                                /\ cache'[q].fresh = (cache[q].fresh /\ q \notin told)
                                /\ cache'[q].late = (cache[q].late \/ q \in missed)
    <3> SUFFICES ASSUME NEW q \in DOMAIN cache
                 PROVE  /\ DOMAIN cache'[q] = EntryFields /\ cache'[q].data = cache[q].data
                        /\ cache'[q].fresh = (cache[q].fresh /\ q \notin told)
                        /\ cache'[q].late = (cache[q].late \/ q \in missed)
      OBVIOUS
    <3>1. DOMAIN cache[q] = EntryFields
      BY <1>1 DEF PageTypes
    <3>2. /\ DOMAIN entry(q) = EntryFields /\ entry(q).data = cache[q].data
          /\ entry(q).fresh = (cache[q].fresh /\ q \notin told)
          /\ entry(q).late = (cache[q].late \/ q \in missed)
      BY <3>1, MarkedEntry
    <3>3. QED
      BY <2>4, <3>2
  <2>6. \A q \in DOMAIN flight' : \/ q \in told /\ OnScreen(q) /\ flight'[q] = Asking
                                  \/ q \in DOMAIN flight /\ flight'[q] = fetch(q)
    <3> SUFFICES ASSUME NEW q \in DOMAIN flight'
                 PROVE  \/ q \in told /\ OnScreen(q) /\ flight'[q] = Asking
                        \/ q \in DOMAIN flight /\ flight'[q] = fetch(q)
      OBVIOUS
    <3>1. q \in DOMAIN flight \cup {r \in told : OnScreen(r)}
      BY <2>1 DEF Invalidate
    <3>2. CASE q \in told /\ Refetched(q)
      BY <2>1, <3>1, <3>2 DEF Invalidate, Refetched
    <3>3. CASE ~(q \in told /\ Refetched(q))
      <4>1. q \in DOMAIN flight
        BY <3>1, <3>3 DEF Refetched
      <4>2. flight'[q] = fetch(q)
        BY <2>1, <3>1, <3>3 DEF Invalidate
      <4>3. QED
        BY <4>1, <4>2
    <3>4. QED
      BY <3>2, <3>3
  <2>7. \A q \in DOMAIN flight : /\ DOMAIN fetch(q) = FetchFields /\ fetch(q).answer = flight[q].answer
                                 /\ fetch(q).late = (flight[q].late \/
                                                      (q \in told \cup missed /\ flight[q].answer # None))
    BY <1>1, MarkedFetch DEF PageTypes
  <2> HIDE DEF entry, fetch
  <2>8. \A q : OnScreen(q) => Query(q)
    BY <1>1 DEF OnScreen, Query, PageTypes
  <2>9. PageTypes'
    BY <1>1, <1>2, <2>4, <2>5, <2>6, <2>7, <2>8, AskingFetch DEF PageTypes, Query, Detail
  <2>10. FormInv'
    BY <1>1, <1>2, <2>4, <2>5, FormFrame
  <2>11. \A q \in DOMAIN cache \cup DOMAIN flight : Answer(q)' = Answer(q)
    BY <1>1, <1>2, AnswerFrame DEF PageTypes
  <2>12. ASSUME NEW q \in DOMAIN cache \cup DOMAIN flight, q \notin told, q \notin missed, Uptodate(q)'
         PROVE  Uptodate(q)
    <3>1. IsDetail(q)
      BY <2>2, <2>12 DEF Lists
    <3>2. PICK t \in Txn : q = Detail(t)
      BY <1>1, <3>1, DetailIs DEF PageTypes, Query
    <3>3. t \notin m.ids
      BY <2>3, <2>12, <3>2
    <3>4. ~Affects(m, q)
      BY <3>1, <3>2, <3>3, DetailIs DEF Affects
    <3>5. QED
      BY <1>2, <2>12, <3>4 DEF Uptodate, Untold, Affects, IsDetail
  <2>13. ASSUME NEW q \in DOMAIN cache', cache'[q].fresh, ~cache'[q].late, Uptodate(q)'
         PROVE  cache'[q].data = Answer(q)'
    <3>1. q \in DOMAIN cache /\ cache[q].fresh /\ ~cache[q].late /\ q \notin told /\ q \notin missed
      BY <2>4, <2>5, <2>13
    <3>2. Uptodate(q)
      BY <2>12, <2>13, <3>1
    <3>3. QED
      BY <1>1, <2>5, <2>11, <3>1, <3>2 DEF CacheInv
  <2>14. ASSUME NEW q \in DOMAIN flight', flight'[q].answer # None, ~flight'[q].late, Uptodate(q)'
         PROVE  flight'[q].answer = Answer(q)'
    <3>1. q \in DOMAIN flight /\ flight'[q] = fetch(q)
      BY <2>6, <2>14, AskingFetch
    <3>2. ~flight[q].late /\ q \notin told /\ q \notin missed /\ flight'[q].answer = flight[q].answer
      BY <2>7, <2>14, <3>1
    <3>3. Uptodate(q)
      BY <2>12, <2>14, <3>1, <3>2
    <3>4. QED
      BY <1>1, <2>11, <2>14, <3>1, <3>2, <3>3 DEF CacheInv
  <2>15. CacheInv'
    BY <2>13, <2>14 DEF CacheInv
  <2>16. QED
    BY <2>9, <2>10, <2>15 DEF PageInv
<1>5. QED
  BY <1>3, <1>4

LEMMA PageStep == PageInv /\ [Next]_vars => PageInv'
<1> SUFFICES ASSUME PageInv, [Next]_vars PROVE PageInv'
  OBVIOUS
<1>1. CASE UNCHANGED vars
  <2>1. UNCHANGED <<rows, asked, cache, flight, search, open, form>>
    BY <1>1 DEF vars, server, page
  <2>2. PageTypes'
    BY <2>1 DEF PageInv, PageTypes, Query, Detail
  <2>3. CacheInv' /\ FormInv'
    BY <2>1, CacheFrame, FormFrame DEF PageInv
  <2>4. QED
    BY <2>2, <2>3 DEF PageInv
<1>2. CASE Served
  BY <1>2, PageServe, PageLand DEF Served
<1>3. CASE \E m \in asked : Handle(m) \/ Receive(m)
  BY <1>3, PageHandle, PageReceive
<1>4. QED
  BY <1>1, <1>2, <1>3, PageTurned, PageSheet, PageSent DEF Next

\* The transactions page (transactions-page.tsx): the query cache, the answers under way
\* and the form of the sheet, for any transactions, filters and page sizes.
THEOREM PageInvariant == Spec => []PageInv
<1>1. Init => PageInv
  BY PageInit
<1>2. PageInv /\ [Next]_vars => PageInv'
  BY PageStep
<1>3. QED
  BY <1>1, <1>2, PTL DEF Spec

\* The invalidations of transactions-page.tsx are enough: what the cache holds as fresh is
\* what the server would answer, however answers overtake each other.
THEOREM CacheIsTheServer == Spec => []CacheFollowsServer
<1>1. PageInv => CacheFollowsServer
  BY DEF PageInv, CacheInv, CacheFollowsServer, Uptodate, Untold
<1>2. QED
  BY <1>1, PageInvariant, PTL

\* The reset of the form: saving it never takes back a change the user did not make.
THEOREM FormIsTheRow == Spec => []FormShowsRow
<1>1. PageInv => FormShowsRow
  <2> SUFFICES ASSUME PageInv, \A m \in asked : ~m.done, Loaded, Settled(Detail(open)),
                      NEW field \in {"category", "review"} \ form.typed
               PROVE  form[field] = rows[open][field]
    BY DEF FormShowsRow
  <2>1. form[field] = cache[Detail(open)].data.row[field]
    BY DEF PageInv, FormInv, FormFields
  <2>2. cache[Detail(open)].data = Answer(Detail(open))
    BY DEF PageInv, CacheInv, Settled, Fresh, Uptodate, Untold
  <2>3. Answer(Detail(open)) = Hydrate(open)
    BY DetailIs DEF Answer
  <2>4. QED
    BY <2>1, <2>2, <2>3 DEF Hydrate
<1>2. QED
  BY <1>1, PageInvariant, PTL

-----------------------------------------------------------------------------
(* The pages a user walks through follow each other.                          *)
SearchType(s) == DOMAIN s = SearchFields /\ s.sort \in Sorts

\* The rows that come after a cursor, in the order of the list s; where it begins.
From(c, s, t) == c = First \/ Before(s.direction, c, Cursor(t, s))

IsCursor(c, s) == \E t \in Txn : c = Cursor(t, s)

Between(s, a, b) == {t \in Txn : Matches(s, t) /\ From(a, s, t) /\ ~From(b, s, t)}

LEMMA CursorFacts ==
    ASSUME NEW s, SearchType(s), NEW t \in Txn
    PROVE  /\ Cursor(t, s).value \in Nat /\ Cursor(t, s).id = t /\ t \in Nat
           /\ Cursor(t, s) # First
<1>1. SortValue(t, s.sort) \in Nat /\ t \in Nat
  BY PageAssumption DEF SortValue
<1>2. Cursor(t, s).sort # First.sort
  BY PageAssumption DEF Cursor, First, SearchType
<1>3. QED
  BY <1>1, <1>2 DEF Cursor

\* A list is in one order.
LEMMA OneOrder ==
    ASSUME NEW s, SearchType(s), NEW t \in Txn, NEW u \in Txn
    PROVE  /\ ~Precedes(s, t, t)
           /\ t # u => Precedes(s, t, u) \/ Precedes(s, u, t)
           /\ Precedes(s, t, u) => ~Precedes(s, u, t)
BY CursorFacts DEF Precedes, Before

LEMMA OrderIsTransitive ==
    ASSUME NEW s, SearchType(s), NEW a, IsCursor(a, s), NEW b, IsCursor(b, s),
           NEW c, IsCursor(c, s), Before(s.direction, a, b), Before(s.direction, b, c)
    PROVE  Before(s.direction, a, c)
<1>1. PICK t \in Txn, u \in Txn, v \in Txn :
          a = Cursor(t, s) /\ b = Cursor(u, s) /\ c = Cursor(v, s)
  BY DEF IsCursor
<1>2. /\ a.value \in Nat /\ b.value \in Nat /\ c.value \in Nat
      /\ a.id \in Nat /\ b.id \in Nat /\ c.id \in Nat
  BY <1>1, CursorFacts
<1>3. QED
  BY <1>2 DEF Before

\* The cursor a list is read from does not change its order.
LEMMA OtherCursor ==
    ASSUME NEW s, SearchType(s), NEW c, NEW z, z = [s EXCEPT !.cursor = c]
    PROVE  /\ SearchType(z) /\ z.cursor = c /\ z.direction = s.direction
           /\ \A t : Cursor(t, z) = Cursor(t, s)
           /\ \A t : Follows(z, t) <=> From(c, s, t)
           /\ \A a, t : From(a, z, t) <=> From(a, s, t)
           /\ \A a : IsCursor(a, z) <=> IsCursor(a, s)
           /\ \A a, b : Between(z, a, b) = Between(s, a, b)
<1>1. /\ DOMAIN z = SearchFields /\ z.cursor = c /\ z.sort = s.sort
      /\ z.direction = s.direction /\ z.filter = s.filter
  BY DEF SearchType, SearchFields
<1>2. \A t : Cursor(t, z) = Cursor(t, s)
  BY <1>1 DEF Cursor
<1>3. \A a, t : From(a, z, t) <=> From(a, s, t)
  BY <1>1, <1>2 DEF From
<1>4. \A t : Follows(z, t) <=> From(c, s, t)
  BY <1>1, <1>2 DEF From, Follows
<1>5. \A a : IsCursor(a, z) <=> IsCursor(a, s)
  BY <1>2 DEF IsCursor
<1>6. \A t : Matches(z, t) <=> Matches(s, t)
  BY <1>1 DEF Matches
<1>7. \A a, b : Between(z, a, b) = Between(s, a, b)
  BY <1>3, <1>6 DEF Between
<1>8. QED
  BY <1>1, <1>2, <1>3, <1>4, <1>5, <1>7 DEF SearchType

LEMMA SearchIsItsCursor ==
    ASSUME NEW s, SearchType(s), NEW t
    PROVE  Follows(s, t) <=> From(s.cursor, s, t)
BY DEF Follows, From

-----------------------------------------------------------------------------
(* Of n rows in order there is one with k rows before it, for every k below n. *)
Ahead(F, s, t) == {u \in F : Precedes(s, u, t)}

LEMMA AheadFinite ==
    ASSUME NEW F \in SUBSET Txn, NEW s, NEW t
    PROVE  /\ IsFiniteSet(F) /\ IsFiniteSet(Ahead(F, s, t))
           /\ Cardinality(F) \in Nat /\ Cardinality(Ahead(F, s, t)) \in Nat
<1>1. IsFiniteSet(F)
  BY PageAssumption, FS_Subset
<1>2. IsFiniteSet(Ahead(F, s, t))
  BY <1>1, FS_Subset DEF Ahead
<1>3. QED
  BY <1>1, <1>2, FS_CardinalityType

LEMMA RankGrows ==
    ASSUME NEW F \in SUBSET Txn, NEW s, SearchType(s), NEW t \in F, NEW u \in F,
           Precedes(s, t, u)
    PROVE  Cardinality(Ahead(F, s, t)) < Cardinality(Ahead(F, s, u))
<1>1. \A v \in Ahead(F, s, t) : Precedes(s, v, u)
  <2> TAKE v \in Ahead(F, s, t)
  <2>1. v \in F /\ Precedes(s, v, t)
    BY DEF Ahead
  <2>2. IsCursor(Cursor(v, s), s) /\ IsCursor(Cursor(t, s), s) /\ IsCursor(Cursor(u, s), s)
    BY <2>1 DEF IsCursor
  <2>3. QED
    BY <2>1, <2>2, OrderIsTransitive DEF Precedes
<1>2. t \in Ahead(F, s, u) /\ t \notin Ahead(F, s, t)
  BY OneOrder DEF Ahead
<1>3. Ahead(F, s, t) \subseteq Ahead(F, s, u) \ {t}
  BY <1>1, <1>2 DEF Ahead
<1>4. IsFiniteSet(Ahead(F, s, u)) /\ Cardinality(Ahead(F, s, u)) \in Nat
      /\ Cardinality(Ahead(F, s, t)) \in Nat
  BY AheadFinite
<1>5. IsFiniteSet(Ahead(F, s, u) \ {t})
      /\ Cardinality(Ahead(F, s, u) \ {t}) = Cardinality(Ahead(F, s, u)) - 1
  BY <1>2, <1>4, FS_RemoveElement
<1>6. Cardinality(Ahead(F, s, t)) <= Cardinality(Ahead(F, s, u) \ {t})
  BY <1>3, <1>5, FS_Subset
<1>7. QED
  BY <1>4, <1>5, <1>6

LEMMA RankExists ==
    ASSUME NEW F \in SUBSET Txn, NEW s, SearchType(s), NEW k \in Nat, k < Cardinality(F)
    PROVE  \E t \in F : Cardinality(Ahead(F, s, t)) = k
<1>1. PICK n \in Nat : n = Cardinality(F) /\ IsFiniteSet(F)
  BY AheadFinite
<1>2. PICK f : f = [t \in F |-> Cardinality(Ahead(F, s, t))]
  OBVIOUS
<1>3. ASSUME NEW t \in F PROVE f[t] \in 0..n - 1
  <2>1. Ahead(F, s, t) \subseteq F \ {t}
    BY OneOrder DEF Ahead
  <2>2. IsFiniteSet(F \ {t}) /\ Cardinality(F \ {t}) = n - 1
    BY <1>1, FS_RemoveElement
  <2>3. Cardinality(Ahead(F, s, t)) <= n - 1 /\ Cardinality(Ahead(F, s, t)) \in Nat
    BY <2>1, <2>2, FS_Subset, AheadFinite
  <2>4. QED
    BY <1>2, <2>3
<1>4. ASSUME NEW t \in F, NEW u \in F, t # u PROVE f[t] # f[u]
  <2>1. Precedes(s, t, u) \/ Precedes(s, u, t)
    BY <1>4, OneOrder
  <2>2. \A v \in F : Cardinality(Ahead(F, s, v)) \in Nat
    BY AheadFinite
  <2>3. QED
    BY <1>2, <2>1, <2>2, RankGrows
<1>5. f \in Injection(F, 0..n - 1)
  BY <1>2, <1>3, <1>4 DEF Injection, IsInjective
<1>6. IsFiniteSet(0..n - 1) /\ Cardinality(0..n - 1) = n
  <2>1. Cardinality(0..n - 1) = IF 0 > n - 1 THEN 0 ELSE (n - 1) - 0 + 1
    BY FS_Interval
  <2>2. IsFiniteSet(0..n - 1)
    BY FS_Interval
  <2>3. QED
    BY <2>1, <2>2
<1>7. f \in Surjection(F, 0..n - 1)
  BY <1>1, <1>5, <1>6, FS_Injection
<1>8. k \in 0..n - 1
  BY <1>1
<1>9. PICK t \in F : f[t] = k
  BY <1>7, <1>8 DEF Surjection
<1>10. QED
  BY <1>2, <1>9

LEMMA RowsInOrder ==
    ASSUME NEW F \in SUBSET Txn, NEW s, SearchType(s)
    PROVE  /\ Sorted(F, s) \in [1..Cardinality(F) -> F]
           /\ Len(Sorted(F, s)) = Cardinality(F)
           /\ \A i \in 1..Cardinality(F) : Cardinality(Ahead(F, s, Sorted(F, s)[i])) = i - 1
<1>1. PICK n \in Nat : n = Cardinality(F)
  BY AheadFinite
<1>2. PICK found : found = Sorted(F, s)
  OBVIOUS
<1>3. found = [i \in 1..n |-> CHOOSE t \in F : Cardinality(Ahead(F, s, t)) = i - 1]
  BY <1>1, <1>2 DEF Sorted, Ahead
<1>4. ASSUME NEW i \in 1..n PROVE found[i] \in F /\ Cardinality(Ahead(F, s, found[i])) = i - 1
  <2>1. i - 1 \in Nat /\ i - 1 < Cardinality(F)
    BY <1>1
  <2>2. \E t \in F : Cardinality(Ahead(F, s, t)) = i - 1
    BY <2>1, RankExists
  <2>3. found[i] = CHOOSE t \in F : Cardinality(Ahead(F, s, t)) = i - 1
    BY <1>3
  <2>4. QED
    BY <2>2, <2>3
<1>5. found \in [1..n -> F]
  BY <1>3, <1>4
<1>6. Len(found) = n
  BY <1>1, <1>5
<1>7. QED
  BY <1>1, <1>2, <1>4, <1>5, <1>6

\* Where a list has another page, the cursor to it is that of a row, and Limit rows lie
\* between the two cursors.
LEMMA NextFollows ==
    ASSUME NEW s, SearchType(s), Listing(s).next # None
    PROVE  \E x \in Txn : /\ Listing(s).next = Cursor(x, s)
                          /\ From(s.cursor, s, x)
                          /\ Cardinality(Between(s, s.cursor, Cursor(x, s))) = Limit
<1>1. PICK F : F = {t \in Txn : Matches(s, t) /\ Follows(s, t)}
  OBVIOUS
<1>2. F \in SUBSET Txn
  BY <1>1
<1>3. PICK n \in Nat : n = Cardinality(F)
  BY <1>2, AheadFinite
<1>4. PICK found : found = Sorted(F, s)
  OBVIOUS
<1>5. /\ found \in [1..n -> F] /\ Len(found) = n
      /\ \A i \in 1..n : Cardinality(Ahead(F, s, found[i])) = i - 1
  BY <1>2, <1>3, <1>4, RowsInOrder
<1>6. PICK items : items = SubSeq(found, 1, IF Len(found) > Limit THEN Limit ELSE Len(found))
  OBVIOUS
<1>7. Listing(s).next = IF n > Limit THEN Cursor(Last(items), s) ELSE None
  BY <1>1, <1>4, <1>5, <1>6 DEF Listing
<1>8. Limit \in Nat /\ 0 < Limit /\ Limit < n
  BY <1>3, <1>7, PageAssumption
<1>9. Last(items) = found[Limit]
  <2>1. found \in Seq(F)
    BY <1>3, <1>5
  <2>2. items = SubSeq(found, 1, Limit)
    BY <1>5, <1>6, <1>8
  <2>3. Len(items) = Limit /\ items[Limit] = found[Limit]
    BY <2>1, <2>2, <1>5, <1>8
  <2>4. QED
    BY <2>3 DEF Last
<1>10. PICK x : x = found[Limit]
  OBVIOUS
<1>11. x \in F /\ Cardinality(Ahead(F, s, x)) = Limit - 1
  BY <1>5, <1>8, <1>10
<1>12. Listing(s).next = Cursor(x, s)
  BY <1>7, <1>8, <1>9, <1>10
<1>13. Cursor(x, s) # First
  BY <1>2, <1>11, CursorFacts
<1>14. Between(s, s.cursor, Cursor(x, s)) = Ahead(F, s, x) \cup {x}
  <2>1. \A t \in Txn : t \in F <=> Matches(s, t) /\ From(s.cursor, s, t)
    BY <1>1, SearchIsItsCursor
  <2>2. \A t \in Txn : From(Cursor(x, s), s, t) <=> Precedes(s, x, t)
    BY <1>13 DEF From, Precedes
  <2>3. \A t \in Txn : ~Precedes(s, x, t) <=> t = x \/ Precedes(s, t, x)
    BY <1>2, <1>11, OneOrder
  <2>4. \A t : t \in Between(s, s.cursor, Cursor(x, s)) <=> t \in F /\ ~Precedes(s, x, t)
    BY <1>2, <2>1, <2>2 DEF Between
  <2>5. \A t : t \in Ahead(F, s, x) \cup {x} <=> t \in F /\ ~Precedes(s, x, t)
    BY <1>2, <1>11, <2>3 DEF Ahead
  <2>6. QED
    BY <2>4, <2>5
<1>15. Cardinality(Ahead(F, s, x) \cup {x}) = Limit
  <2>1. x \notin Ahead(F, s, x)
    BY <1>2, <1>11, OneOrder DEF Ahead
  <2>2. Cardinality(Ahead(F, s, x) \cup {x}) = Cardinality(Ahead(F, s, x)) + 1
    BY <1>2, <2>1, AheadFinite, FS_AddElement
  <2>3. QED
    BY <1>8, <1>11, <2>2
<1>16. From(s.cursor, s, x) /\ x \in Txn
  BY <1>1, <1>11, SearchIsItsCursor
<1>17. QED
  BY <1>12, <1>14, <1>15, <1>16

-----------------------------------------------------------------------------
(* The walk: the cursors of the pages behind the user, and of the one he is on. *)
Walk == Append(history, search.cursor)

\* It begins at the first page and goes on through rows of the list, in its order.
Steps(s, w) ==
    /\ w[1] = First
    /\ \A i \in 2..Len(w) : IsCursor(w[i], s)
    /\ \A i \in 2..Len(w) : \A k \in 2..i - 1 : Before(s.direction, w[k], w[i])

WholePages(s, w) == \A i \in 1..Len(w) - 1 : Cardinality(Between(s, w[i], w[i + 1])) = Limit

WalkInv ==
    /\ search.sort \in Sorts
    /\ \E S : history \in Seq(S)
    /\ ~hasty => /\ Steps(search, Walk)
                 /\ still => WholePages(search, Walk)

LEMMA WalkFacts ==
    ASSUME NEW h, \E S : h \in Seq(S), NEW c
    PROVE  /\ Len(h) \in Nat /\ DOMAIN h = 1..Len(h)
           /\ Len(Append(h, c)) = Len(h) + 1
           /\ \A i \in 1..Len(h) : Append(h, c)[i] = h[i]
           /\ Append(h, c)[Len(h) + 1] = c
           /\ \E S : Append(h, c) \in Seq(S)
<1>1. PICK S : h \in Seq(S)
  OBVIOUS
<1>2. h \in Seq(S \cup {c}) /\ c \in S \cup {c}
  BY <1>1
<1>3. Append(h, c) \in Seq(S \cup {c})
  BY <1>2
<1>4. QED
  BY <1>1, <1>2, <1>3

\* One page further: a cursor of the list that lies ahead of the last one.
LEMMA OneFurther ==
    ASSUME NEW s, SearchType(s), NEW h, \E S : h \in Seq(S), NEW a, NEW x \in Txn,
           From(a, s, x), Steps(s, Append(h, a))
    PROVE  Steps(s, Append(Append(h, a), Cursor(x, s)))
<1> DEFINE w == Append(h, a)
           n == Len(h) + 1
           b == Cursor(x, s)
           v == Append(w, b)
<1>1. Len(h) \in Nat /\ Len(w) = n /\ w[n] = a /\ \E S : w \in Seq(S)
  BY WalkFacts
<1> HIDE DEF w
<1>2. Len(v) = n + 1 /\ v[n + 1] = b /\ \A i \in 1..n : v[i] = w[i]
  BY <1>1, WalkFacts
<1> HIDE DEF v
<1>3. Steps(s, w)
  BY DEF w
<1>4. IsCursor(b, s)
  BY DEF IsCursor
<1>5. v[1] = First
  BY <1>1, <1>2, <1>3 DEF Steps
<1>6. ASSUME NEW i \in 2..n + 1 PROVE IsCursor(v[i], s)
  <2>1. i \in 2..n \/ i = n + 1
    BY <1>1, <1>6
  <2>2. QED
    BY <1>1, <1>2, <1>3, <1>4, <2>1 DEF Steps
<1>7. ASSUME NEW i \in 2..n + 1, NEW k \in 2..i - 1 PROVE Before(s.direction, v[k], v[i])
  <2>1. CASE i # n + 1
    BY <1>1, <1>2, <1>3, <2>1 DEF Steps
  <2>2. CASE i = n + 1
    <3>1. k \in 2..n /\ n \in 2..n /\ n \in Nat
      BY <1>1, <2>2
    <3>2. IsCursor(w[k], s) /\ IsCursor(a, s) /\ v[k] = w[k]
      BY <1>1, <1>2, <1>3, <3>1 DEF Steps
    <3>3. a # First
      BY <3>2, CursorFacts DEF IsCursor
    <3>4. Before(s.direction, a, b)
      BY <3>3 DEF From
    <3>5. CASE k = n
      BY <1>1, <1>2, <2>2, <3>4, <3>2, <3>5
    <3>6. CASE k # n
      <4>1. k \in 2..n - 1
        BY <3>1, <3>6
      <4>2. Before(s.direction, w[k], w[n])
        BY <1>1, <1>3, <3>1, <4>1 DEF Steps
      <4>3. Before(s.direction, w[k], b)
        BY <1>1, <1>4, <3>2, <3>4, <4>2, OrderIsTransitive
      <4>4. QED
        BY <1>2, <2>2, <3>2, <4>3
    <3>7. QED
      BY <3>5, <3>6
  <2>3. QED
    BY <2>1, <2>2
<1>8. QED
  BY <1>2, <1>5, <1>6, <1>7 DEF Steps, v, w

\* One page back.
LEMMA AllButLast ==
    ASSUME NEW h, \E S : h \in Seq(S), h # <<>>
    PROVE  Append(Front(h), Last(h)) = h /\ \E S : Front(h) \in Seq(S)
<1>1. PICK S : h \in Seq(S)
  OBVIOUS
<1>2. Front(h) \in Seq(S) /\ Append(Front(h), Last(h)) = h
  BY <1>1 DEF Front, Last
<1>3. QED
  BY <1>2

LEMMA OneBack ==
    ASSUME NEW s, NEW h, \E S : h \in Seq(S), NEW c, Steps(s, Append(h, c)), h # <<>>
    PROVE  Steps(s, h)
<1> DEFINE w == Append(h, c)
<1>1. /\ Len(h) \in Nat /\ Len(w) = Len(h) + 1 /\ \A i \in 1..Len(h) : w[i] = h[i]
  BY WalkFacts
<1> HIDE DEF w
<1>2. Len(h) > 0
  BY <1>1
<1>3. Steps(s, w)
  BY DEF w
<1>4. QED
  BY <1>1, <1>2, <1>3 DEF Steps

\* What a list is does not depend on the cursor it is read from.
LEMMA SameSteps ==
    ASSUME NEW s, SearchType(s), NEW c, NEW z, z = [s EXCEPT !.cursor = c], NEW w
    PROVE  /\ Steps(z, w) <=> Steps(s, w)
           /\ WholePages(z, w) <=> WholePages(s, w)
<1>1. /\ \A i : IsCursor(w[i], z) <=> IsCursor(w[i], s)
      /\ \A a, b : Between(z, a, b) = Between(s, a, b)
      /\ z.direction = s.direction
  BY OtherCursor
<1>2. Steps(z, w) <=> Steps(s, w)
  BY <1>1 DEF Steps
<1>3. WholePages(z, w) <=> WholePages(s, w)
  BY <1>1 DEF WholePages
<1>4. QED
  BY <1>2, <1>3

LEMMA WalkInit == Init => WalkInv
<1> SUFFICES ASSUME Init PROVE WalkInv
  OBVIOUS
<1>1. search.sort \in Sorts /\ search.cursor = First /\ history = <<>>
  BY PageAssumption DEF Init
<1>2. \A S : <<>> \in Seq(S)
  OBVIOUS
<1>3. Walk = <<First>>
  BY <1>1 DEF Walk
<1>4. Steps(search, <<First>>) /\ WholePages(search, <<First>>)
  BY DEF Steps, WholePages
<1>5. QED
  BY <1>1, <1>2, <1>3, <1>4 DEF WalkInv

\* The rows may change where `still' is gone.
LEMMA WalkFrame ==
    ASSUME WalkInv, UNCHANGED <<search, history, hasty>>,
           UNCHANGED <<rows, still>> \/ still' = FALSE
    PROVE  WalkInv'
<1>1. PICK s, w : s = search /\ w = Walk
  OBVIOUS
<1>2. s = search' /\ w = Walk'
  BY <1>1 DEF Walk
<1>3. search'.sort \in Sorts /\ \E S : history' \in Seq(S)
  BY DEF WalkInv
<1>4. Steps(s, w) => Steps(s, w)'
  BY DEF Steps, IsCursor, Cursor, SortValue, Before, First
<1>5. still' => (WholePages(s, w) => WholePages(s, w)')
  <2>1. still' => \A t : Matches(s, t)' <=> Matches(s, t)
    BY DEF Matches
  <2>2. still' => \A a, b : Between(s, a, b)' = Between(s, a, b)
    BY <2>1 DEF Between, From, Before, Cursor, SortValue, First
  <2>3. QED
    BY <2>2 DEF WholePages
<1>6. ~hasty' => Steps(s, w)' /\ (still' => WholePages(s, w)')
  BY <1>1, <1>4, <1>5 DEF WalkInv
<1>7. QED
  BY <1>2, <1>3, <1>6 DEF WalkInv

LEMMA WalkMoved ==
    ASSUME NEW s, NEW past, Move(s, past)
    PROVE  /\ search' = s /\ history' = past /\ Walk' = Append(past, s.cursor)
           /\ UNCHANGED rows
BY DEF Move, Walk, server

\* What the walk asks for may be read off the rows, which a turn leaves alone.
LEMMA WalkTurned ==
    ASSUME NEW s, s = search', NEW w, w = Walk', UNCHANGED rows,
           s.sort \in Sorts, \E S : history' \in Seq(S),
           ~hasty' => Steps(s, w) /\ (still' => WholePages(s, w))
    PROVE  WalkInv'
<1>1. Steps(s, w) => Steps(s, w)'
  BY DEF Steps, IsCursor, Cursor, SortValue, Before, First
<1>2. WholePages(s, w) => WholePages(s, w)'
  BY DEF WholePages, Between, Matches, From, Before, Cursor, SortValue, First
<1>3. QED
  BY <1>1, <1>2 DEF WalkInv

LEMMA WalkNewList ==
    ASSUME NEW s, NewList(s), s.sort \in Sorts, s.cursor = First
    PROVE  WalkInv'
<1>1. search' = s /\ history' = <<>> /\ Walk' = Append(<<>>, s.cursor) /\ UNCHANGED rows
  BY WalkMoved DEF NewList
<1>2. PICK w : w = Append(<<>>, s.cursor)
  OBVIOUS
<1>3. w = <<First>>
  BY <1>2
<1>4. Steps(s, w) /\ WholePages(s, w)
  BY <1>3 DEF Steps, WholePages
<1>5. \E S : history' \in Seq(S)
  BY <1>1
<1>6. QED
  BY <1>1, <1>2, <1>4, <1>5, WalkTurned

\* A page left when it was there and fresh, with no answer to an edit on its way, is
\* what the server lists now.
LEMMA LeftAsItIs ==
    ASSUME PageInv, Settled(search), \A m \in asked : ~m.done, Shown.next # None
    PROVE  Listing(search).next = Shown.next
<1>1. search \in DOMAIN cache /\ cache[search].data = Answer(search)
  BY DEF PageInv, CacheInv, Settled, Fresh, Uptodate, Untold
<1>2. Shown = Answer(search)
  BY <1>1 DEF Shown
<1>3. ~IsDetail(search)
  BY DetailIs DEF PageInv, PageTypes
<1>4. Failed.next = None
  BY DEF Failed
<1>5. Answer(search) = Listing(search) \/ Answer(search) = Failed
  BY <1>3 DEF Answer
<1>6. QED
  BY <1>2, <1>4, <1>5

LEMMA WalkNextPage == ASSUME PageInv, WalkInv, NextPage PROVE WalkInv'
<1>1. PICK s : s = search
  OBVIOUS
<1>2. PICK c : c = Shown.next
  OBVIOUS
<1>3. PICK z : z = [s EXCEPT !.cursor = c]
  OBVIOUS
<1>4. SearchType(s)
  BY <1>1 DEF PageInv, PageTypes, WalkInv, SearchType
<1>5. SearchType(z) /\ z.cursor = c
  BY <1>3, <1>4, OtherCursor
<1>6. Walk = Append(history, s.cursor)
  BY <1>1 DEF Walk
<1>7. PICK w : w = Append(Walk, c)
  OBVIOUS
<1>8. search' = z /\ history' = Walk /\ Walk' = w /\ UNCHANGED rows
  <2>1. Move(z, Walk)
    BY <1>1, <1>2, <1>3, <1>6 DEF NextPage
  <2>2. QED
    BY <1>5, <1>7, <2>1, WalkMoved
<1>9. \E S : history \in Seq(S)
  BY DEF WalkInv
<1>10. \E S : Walk \in Seq(S)
  BY <1>6, <1>9, WalkFacts
<1>11. ASSUME ~hasty' PROVE Steps(z, w) /\ (still' => WholePages(z, w))
  <2>1. ~hasty /\ Settled(search) /\ \A m \in asked : ~m.done
    BY <1>11 DEF NextPage
  <2>2. Shown.next # None /\ still' = still
    BY DEF NextPage
  <2>3. Listing(s).next = c /\ c # None
    BY <1>1, <1>2, <2>1, <2>2, LeftAsItIs
  <2>4. PICK x \in Txn : /\ c = Cursor(x, s) /\ From(s.cursor, s, x)
                         /\ Cardinality(Between(s, s.cursor, Cursor(x, s))) = Limit
    BY <1>4, <2>3, NextFollows
  <2>5. Steps(s, Append(history, s.cursor)) /\ (still => WholePages(s, Append(history, s.cursor)))
    BY <1>1, <1>6, <2>1 DEF WalkInv
  <2>6. Steps(s, w)
    BY <1>4, <1>6, <1>7, <1>9, <2>4, <2>5, OneFurther
  <2>7. ASSUME still PROVE WholePages(s, w)
    <3>1. /\ Len(history) \in Nat /\ Len(Walk) = Len(history) + 1
          /\ Walk[Len(history) + 1] = s.cursor
      BY <1>6, <1>9, WalkFacts
    <3>2. /\ Len(w) = Len(Walk) + 1 /\ w[Len(Walk) + 1] = c
          /\ \A i \in 1..Len(Walk) : w[i] = Walk[i]
      BY <1>7, <1>10, WalkFacts
    <3>3. WholePages(s, Walk)
      BY <1>6, <2>5, <2>7
    <3>4. ASSUME NEW i \in 1..Len(w) - 1
          PROVE  Cardinality(Between(s, w[i], w[i + 1])) = Limit
      <4>1. CASE i = Len(Walk)
        BY <2>4, <3>1, <3>2, <4>1
      <4>2. CASE i # Len(Walk)
        <5>1. i \in 1..Len(Walk) - 1 /\ i \in 1..Len(Walk) /\ i + 1 \in 1..Len(Walk)
          BY <3>1, <3>2, <4>2
        <5>2. w[i] = Walk[i] /\ w[i + 1] = Walk[i + 1]
          BY <3>2, <5>1
        <5>3. QED
          BY <3>3, <5>1, <5>2 DEF WholePages
      <4>3. QED
        BY <4>1, <4>2
    <3>5. QED
      BY <3>4 DEF WholePages
  <2>8. QED
    BY <1>3, <1>4, <2>2, <2>6, <2>7, SameSteps
<1>12. z.sort \in Sorts
  BY <1>5 DEF SearchType
<1>13. QED
  BY <1>8, <1>10, <1>11, <1>12, WalkTurned

LEMMA WalkPrevious == ASSUME PageInv, WalkInv, Previous PROVE WalkInv'
<1>1. PICK s : s = search
  OBVIOUS
<1>2. PICK c : c = Last(history)
  OBVIOUS
<1>3. PICK z : z = [s EXCEPT !.cursor = c]
  OBVIOUS
<1>4. SearchType(s)
  BY <1>1 DEF PageInv, PageTypes, WalkInv, SearchType
<1>5. SearchType(z) /\ z.cursor = c
  BY <1>3, <1>4, OtherCursor
<1>6. /\ search' = z /\ history' = Front(history) /\ Walk' = Append(Front(history), c)
      /\ UNCHANGED rows
  <2>1. Move(z, Front(history))
    BY <1>1, <1>2, <1>3 DEF Previous
  <2>2. QED
    BY <1>5, <2>1, WalkMoved
<1>7. history # <<>> /\ UNCHANGED <<still, hasty>>
  BY DEF Previous
<1>8. \E S : history \in Seq(S)
  BY DEF WalkInv
<1>9. Append(Front(history), Last(history)) = history /\ \E S : Front(history) \in Seq(S)
  BY <1>7, <1>8, AllButLast
<1>10. PICK w : w = history
  OBVIOUS
<1>11. w = Walk'
  BY <1>2, <1>6, <1>9, <1>10
<1>12. ASSUME ~hasty' PROVE Steps(z, w) /\ (still' => WholePages(z, w))
  <2>1. Steps(s, Append(w, s.cursor)) /\ (still => WholePages(s, Append(w, s.cursor)))
    BY <1>1, <1>7, <1>10, <1>12 DEF WalkInv, Walk
  <2>2. Steps(s, w)
    BY <1>7, <1>8, <1>10, <2>1, OneBack
  <2>3. /\ Len(w) \in Nat /\ Len(Append(w, s.cursor)) = Len(w) + 1
        /\ \A i \in 1..Len(w) : Append(w, s.cursor)[i] = w[i]
    BY <1>8, <1>10, WalkFacts
  <2>4. still => WholePages(s, w)
    BY <2>1, <2>3 DEF WholePages
  <2>5. QED
    BY <1>3, <1>4, <1>7, <2>2, <2>4, SameSteps
<1>13. z.sort \in Sorts
  BY <1>5 DEF SearchType
<1>14. QED
  BY <1>6, <1>9, <1>11, <1>12, <1>13, WalkTurned

LEMMA WalkStep == PageInv /\ WalkInv /\ [Next]_vars => WalkInv'
<1> SUFFICES ASSUME PageInv, WalkInv, [Next]_vars PROVE WalkInv'
  OBVIOUS
<1>1. ASSUME NEW f \in Filters, Filter(f) PROVE WalkInv'
  <2>1. PICK z : z = [search EXCEPT !.filter = f, !.cursor = First]
    OBVIOUS
  <2>2. z.cursor = First /\ z.sort = search.sort
    BY <2>1 DEF PageInv, PageTypes, SearchFields
  <2>3. QED
    BY <1>1, <2>1, <2>2, WalkNewList DEF Filter, WalkInv
<1>2. ASSUME NEW column \in Sorts, SortBy(column) PROVE WalkInv'
  <2>1. PICK d : d = IF search.sort = column /\ search.direction = "desc" THEN "asc" ELSE "desc"
    OBVIOUS
  <2>2. PICK z : z = [search EXCEPT !.sort = column, !.cursor = First, !.direction = d]
    OBVIOUS
  <2>3. z.cursor = First /\ z.sort = column
    BY <2>2 DEF PageInv, PageTypes, SearchFields
  <2>4. NewList(z)
    BY <1>2, <2>1, <2>2 DEF SortBy
  <2>5. QED
    BY <2>3, <2>4, WalkNewList
<1>3. CASE Turned
  BY <1>1, <1>2, <1>3, WalkNextPage, WalkPrevious DEF Turned
<1>4. CASE Served
  BY <1>4, WalkFrame DEF Served, Serve, Land, page, server
<1>5. CASE Sheet
  BY <1>5, WalkFrame DEF Sheet, Open, Close, Type, page, server
<1>6. CASE Sent
  BY <1>6, WalkFrame
     DEF Sent, Save, SaveSplits, ConfirmTransfer, Bulk, Merge, Edit, FormEdit, Send, page, server
<1>7. CASE \E m \in asked : Handle(m) \/ Receive(m)
  <2>1. ASSUME NEW m \in asked, Handle(m) PROVE WalkInv'
    BY <2>1, WalkFrame DEF Handle, server
  <2>2. ASSUME NEW m \in asked, Receive(m) PROVE WalkInv'
    BY <2>2, WalkFrame DEF Receive, page, server
  <2>3. QED
    BY <1>7, <2>1, <2>2
<1>8. CASE UNCHANGED vars
  BY <1>8, WalkFrame DEF vars, page, server
<1>9. QED
  BY <1>3, <1>4, <1>5, <1>6, <1>7, <1>8 DEF Next

\* Back and next (cursorHistory of transactions-page.tsx, the cursor of
\* listTransactions): however the user turns, filters and sorts, and whatever edits are
\* under way, the pages behind him follow each other in the list and none is shown twice.
THEOREM PagesAreInOrder == Spec => []PagesFollowOn
<1>1. PageInv /\ WalkInv => PagesFollowOn
  <2> SUFFICES ASSUME PageInv, WalkInv, ~hasty, NEW i \in DOMAIN history
               PROVE  /\ Walk[i + 1] \notin {Walk[k] : k \in 1..i}
                      /\ still => Cardinality({t \in Txn :
                                     /\ Matches(search, t)
                                     /\ Follows([search EXCEPT !.cursor = Walk[i]], t)
                                     /\ ~Follows([search EXCEPT !.cursor = Walk[i + 1]], t)})
                                 = Limit
    BY DEF PagesFollowOn, Walk
  <2>1. SearchType(search)
    BY DEF PageInv, PageTypes, WalkInv, SearchType
  <2>2. Steps(search, Walk) /\ (still => WholePages(search, Walk))
    BY DEF WalkInv
  <2>3. Len(Walk) \in Nat /\ i \in 1..Len(Walk) - 1 /\ Len(Walk) > 1
    <3>1. \E S : history \in Seq(S)
      BY DEF WalkInv
    <3>2. QED
      BY <3>1, WalkFacts DEF Walk
  <2>4. Walk[i + 1] # First
    <3>1. IsCursor(Walk[i + 1], search)
      BY <2>2, <2>3 DEF Steps
    <3>2. QED
      BY <2>1, <3>1, CursorFacts DEF IsCursor
  <2>5. ASSUME NEW k \in 1..i PROVE Walk[i + 1] # Walk[k]
    <3>1. CASE k = 1
      BY <2>2, <2>4, <3>1 DEF Steps
    <3>2. CASE k # 1
      <4>1. k \in 2..i /\ i + 1 \in 2..Len(Walk) /\ k \in 2..(i + 1) - 1
        BY <2>3, <3>2
      <4>2. Before(search.direction, Walk[k], Walk[i + 1]) /\ IsCursor(Walk[i + 1], search)
        BY <2>2, <4>1 DEF Steps
      <4>3. PICK t \in Txn : Walk[i + 1] = Cursor(t, search)
        BY <4>2 DEF IsCursor
      <4>4. ~Precedes(search, t, t)
        BY <2>1, OneOrder
      <4>5. QED
        BY <4>2, <4>3, <4>4 DEF Precedes
    <3>3. QED
      BY <3>1, <3>2
  <2>6. \A a, t : Follows([search EXCEPT !.cursor = a], t) <=> From(a, search, t)
    BY <2>1, OtherCursor
  <2>7. {t \in Txn : /\ Matches(search, t)
                     /\ Follows([search EXCEPT !.cursor = Walk[i]], t)
                     /\ ~Follows([search EXCEPT !.cursor = Walk[i + 1]], t)}
        = Between(search, Walk[i], Walk[i + 1])
    BY <2>6 DEF Between
  <2>8. still => Cardinality(Between(search, Walk[i], Walk[i + 1])) = Limit
    BY <2>2, <2>3 DEF WholePages
  <2>9. QED
    BY <2>5, <2>7, <2>8
<1>2. Init => WalkInv
  BY WalkInit
<1>3. PageInv /\ WalkInv /\ [Next]_vars => WalkInv'
  BY WalkStep
<1>4. QED
  BY <1>1, <1>2, <1>3, PageInvariant, PTL DEF Spec
=============================================================================
