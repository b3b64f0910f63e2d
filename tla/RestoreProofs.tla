------------------------- MODULE RestoreProofs -------------------------
(* Proofs about backups: for any numbers of backups, any retention settings and any *)
(* schedule, what is kept and why; and about restoring one in place: for any numbers *)
(* of restores, crashes and failing steps, and any keys, the workspace last in      *)
(* service is not lost, and after a fault the code recovers from, the server starts *)
(* on it.                                                                           *)
EXTENDS Restore, Backups, TLAPS, FiniteSetTheorems, NaturalsInduction, WellFoundedInduction

-----------------------------------------------------------------------------
(* The retention rule at any time, and what it never does.                     *)
\* Retained, at the time s instead of now.
YoungAt(copies, s) == {b \in DOMAIN copies : UtcDay(s) - UtcDay(copies[b]) < Daily}
OldAt(copies, s) == {b \in DOMAIN copies : UtcDay(s) - UtcDay(copies[b]) >= Daily}
DailyAt(copies, s) == NewestPer([b \in YoungAt(copies, s) |-> UtcDay(copies[b])],
                                 Cardinality(YoungAt(copies, s)) + 1)
WeeklyAt(copies, s) == NewestPer([b \in OldAt(copies, s) |-> Week(copies[b])], Weekly)
MonthlyOf(copies) == NewestPer([b \in DOMAIN copies |-> Month(copies[b])], Monthly)
RetainedAt(copies, s) == DailyAt(copies, s) \cup WeeklyAt(copies, s) \cup MonthlyOf(copies)

LEMMA RetainedNow ==
    ASSUME NEW copies
    PROVE  Retained(copies) = RetainedAt(copies, now)
  BY DEF Retained, RetainedAt, DailyAt, WeeklyAt, MonthlyOf, YoungAt, OldAt, Age

Creations(f) == 
    /\ IsFiniteSet(DOMAIN f)
    /\ \A b \in DOMAIN f : f[b] \in Nat

LEMMA DivFacts ==
    ASSUME NEW a \in Nat, NEW n \in Nat \ {0}
    PROVE  a \div n \in Nat
  BY SMTT(30)

LEMMA DivMonotone ==
    ASSUME NEW a \in Nat, NEW b \in Nat, a <= b, NEW n \in Nat \ {0}
    PROVE  a \div n <= b \div n
  BY SMTT(30)

LEMMA CalendarFacts ==
    ASSUME NEW t \in Nat
    PROVE  /\ LocalDate(t) \in Nat /\ UtcDay(t) \in Nat /\ Week(t) \in Nat /\ Month(t) \in Nat
           /\ \A s \in Nat : t <= s => LocalDate(t) <= LocalDate(s) /\ UtcDay(t) <= UtcDay(s)
<1>1. /\ Slots \in Nat \ {0} /\ DaysPerWeek \in Nat \ {0} /\ DaysPerMonth \in Nat \ {0}
      /\ UtcAhead \in Nat
  BY BackupsAssumption
<1>2. t + UtcAhead \in Nat
  BY <1>1
<1>3. UtcDay(t) \in Nat /\ LocalDate(t) \in Nat
  BY <1>1, <1>2, DivFacts DEF UtcDay, LocalDate
<1>4. Week(t) \in Nat /\ Month(t) \in Nat
  BY <1>1, <1>3, DivFacts DEF Week, Month
<1>5. ASSUME NEW s \in Nat, t <= s
      PROVE  LocalDate(t) <= LocalDate(s) /\ UtcDay(t) <= UtcDay(s)
  <2>1. s + UtcAhead \in Nat /\ t + UtcAhead <= s + UtcAhead
    BY <1>1, <1>5
  <2>2. QED
    BY <1>1, <1>2, <1>5, <2>1, DivMonotone DEF UtcDay, LocalDate
<1>6. QED
  BY <1>3, <1>4, <1>5

\* The groups newer than b's.
Newer(group, b) == {group[c] : c \in {d \in DOMAIN group : d > b}}

LEMMA NewerFinite ==
    ASSUME NEW group, IsFiniteSet(DOMAIN group), NEW b
    PROVE  /\ IsFiniteSet(Newer(group, b)) /\ Cardinality(Newer(group, b)) \in Nat
           /\ Cardinality(Newer(group, b)) <= Cardinality(DOMAIN group)
<1>1. PICK D : D = {d \in DOMAIN group : d > b}
  OBVIOUS
<1>2. IsFiniteSet(D) /\ Cardinality(D) <= Cardinality(DOMAIN group)
  BY <1>1, FS_Subset
<1>3. PICK f : f = [c \in D |-> group[c]]
  OBVIOUS
<1>4. f \in Surjection(D, Newer(group, b))
  BY <1>1, <1>3 DEF Surjection, Newer
<1>5. IsFiniteSet(Newer(group, b)) /\ Cardinality(Newer(group, b)) <= Cardinality(D)
  BY <1>2, <1>4, FS_Surjection
<1>6. Cardinality(Newer(group, b)) \in Nat /\ Cardinality(D) \in Nat
      /\ Cardinality(DOMAIN group) \in Nat
  BY <1>2, <1>5, FS_CardinalityType
<1>7. QED
  BY <1>2, <1>5, <1>6

\* With fewer backups, one that was kept is still the newest of its group, and there
\* are no more groups before it.
LEMMA FewerKeep ==
    ASSUME NEW f, NEW g, IsFiniteSet(DOMAIN g), DOMAIN f \subseteq DOMAIN g,
           \A c \in DOMAIN f : f[c] = g[c],
           NEW n \in Nat, NEW b \in DOMAIN f, b \in NewestPer(g, n)
    PROVE  b \in NewestPer(f, n)
<1>1. IsFiniteSet(DOMAIN f)
  BY FS_Subset
<1>2. Newer(f, b) \subseteq Newer(g, b)
  BY DEF Newer
<1>3. IsFiniteSet(Newer(g, b)) /\ Cardinality(Newer(g, b)) \in Nat
      /\ Cardinality(Newer(f, b)) \in Nat
  BY <1>1, NewerFinite
<1>4. Cardinality(Newer(f, b)) <= Cardinality(Newer(g, b))
  BY <1>2, <1>3, FS_Subset
<1>5. g[b] \notin Newer(g, b) /\ Cardinality(Newer(g, b)) < n
  BY DEF NewestPer, Newer
<1>6. f[b] \notin Newer(f, b) /\ Cardinality(Newer(f, b)) < n
  BY <1>2, <1>3, <1>4, <1>5
<1>7. QED
  BY <1>6 DEF NewestPer, Newer

\* A backup that the rule would keep at a later time among more backups is one that it
\* keeps now among these: retention does not forget what it will ask for.
LEMMA RetentionIsPatient ==
    ASSUME NEW p, Creations(p), NEW S \in SUBSET DOMAIN p,
           NEW s \in Nat, NEW t \in Nat, s <= t,
           NEW b \in S, b \in RetainedAt(p, t)
    PROVE  b \in RetainedAt([c \in S |-> p[c]], s)
<1>1. PICK q : q = [c \in S |-> p[c]]
  OBVIOUS
<1>2. DOMAIN q = S /\ (\A c \in S : q[c] = p[c]) /\ IsFiniteSet(S)
  BY <1>1, FS_Subset DEF Creations
<1>3. /\ UtcDay(s) \in Nat /\ UtcDay(t) \in Nat /\ UtcDay(s) <= UtcDay(t)
      /\ \A c \in DOMAIN p : UtcDay(p[c]) \in Nat
      /\ Daily \in Nat /\ Weekly \in Nat /\ Monthly \in Nat
  BY CalendarFacts, BackupsAssumption DEF Creations
<1>4. ASSUME b \in MonthlyOf(p) PROVE b \in MonthlyOf(q)
  <2>1. PICK g : g = [c \in DOMAIN p |-> Month(p[c])]
    OBVIOUS
  <2>2. PICK f : f = [c \in DOMAIN q |-> Month(q[c])]
    OBVIOUS
  <2>3. DOMAIN g = DOMAIN p /\ DOMAIN f = S /\ \A c \in S : f[c] = g[c]
    BY <2>1, <2>2, <1>2
  <2>4. b \in NewestPer(g, Monthly)
    BY <1>4, <2>1 DEF MonthlyOf
  <2>5. b \in NewestPer(f, Monthly)
    BY <2>3, <2>4, <1>3, FewerKeep DEF Creations
  <2>6. QED
    BY <2>2, <2>5 DEF MonthlyOf
<1>5. ASSUME NEW r \in Nat, UtcDay(r) \in Nat,
             b \in YoungAt(q, r),
             \A c \in S : c > b => UtcDay(p[c]) # UtcDay(p[b])
      PROVE  b \in DailyAt(q, r)
  <2>1. PICK Y : Y = YoungAt(q, r)
    OBVIOUS
  <2>2. Y \subseteq S /\ IsFiniteSet(Y) /\ Cardinality(Y) \in Nat
    BY <2>1, <1>2, FS_Subset, FS_CardinalityType DEF YoungAt
  <2>3. PICK f : f = [c \in Y |-> UtcDay(q[c])]
    OBVIOUS
  <2>4. DOMAIN f = Y /\ \A c \in Y : f[c] = UtcDay(p[c])
    BY <2>3, <2>2, <1>2
  <2>5. f[b] \notin Newer(f, b)
    BY <2>1, <2>2, <2>4, <1>5 DEF Newer
  <2>6. Cardinality(Newer(f, b)) < Cardinality(Y) + 1
    BY <2>2, <2>4, NewerFinite
  <2>7. b \in NewestPer(f, Cardinality(Y) + 1)
    BY <2>1, <2>4, <2>5, <2>6, <1>5 DEF NewestPer, Newer
  <2>8. QED
    BY <2>1, <2>3, <2>7 DEF DailyAt
<1>6. ASSUME b \in DailyAt(p, t) PROVE b \in DailyAt(q, s)
  <2>1. PICK f : f = [c \in YoungAt(p, t) |-> UtcDay(p[c])]
    OBVIOUS
  <2>2. DOMAIN f = YoungAt(p, t) /\ \A c \in YoungAt(p, t) : f[c] = UtcDay(p[c])
    BY <2>1
  <2>3. b \in YoungAt(p, t) /\ f[b] \notin Newer(f, b)
    BY <1>6, <2>1, <2>2 DEF DailyAt, NewestPer, Newer
  <2>4. UtcDay(t) - UtcDay(p[b]) < Daily
    BY <2>3 DEF YoungAt
  <2>5. ASSUME NEW c \in S, c > b PROVE UtcDay(p[c]) # UtcDay(p[b])
    <3>1. SUFFICES ASSUME UtcDay(p[c]) = UtcDay(p[b]) PROVE FALSE
      OBVIOUS
    <3>2. c \in YoungAt(p, t)
      BY <2>4, <3>1 DEF YoungAt
    <3>3. f[c] \in Newer(f, b) /\ f[c] = f[b]
      BY <2>2, <2>3, <2>5, <3>1, <3>2 DEF Newer
    <3>4. QED
      BY <2>3, <3>3
  <2>6. UtcDay(s) - UtcDay(p[b]) < Daily
    BY <1>3, <2>4
  <2>7. b \in YoungAt(q, s)
    BY <1>2, <2>6 DEF YoungAt
  <2>8. QED
    BY <2>5, <2>7, <1>3, <1>5
<1>7. ASSUME b \in WeeklyAt(p, t) PROVE b \in DailyAt(q, s) \cup WeeklyAt(q, s)
  <2>1. PICK g : g = [c \in OldAt(p, t) |-> Week(p[c])]
    OBVIOUS
  <2>2. DOMAIN g = OldAt(p, t) /\ \A c \in OldAt(p, t) : g[c] = Week(p[c])
    BY <2>1
  <2>3. b \in NewestPer(g, Weekly)
    BY <1>7, <2>1 DEF WeeklyAt
  <2>4. b \in OldAt(p, t) /\ g[b] \notin Newer(g, b)
    BY <2>2, <2>3 DEF NewestPer, Newer
  <2>5. UtcDay(t) - UtcDay(p[b]) >= Daily
    BY <2>4 DEF OldAt
  <2>6. ASSUME UtcDay(s) - UtcDay(p[b]) >= Daily PROVE b \in WeeklyAt(q, s)
    <3>1. PICK f : f = [c \in OldAt(q, s) |-> Week(q[c])]
      OBVIOUS
    <3>2. b \in OldAt(q, s)
      BY <1>2, <2>6 DEF OldAt
    <3>3. OldAt(q, s) \subseteq OldAt(p, t) /\ OldAt(q, s) \subseteq S
      BY <1>2, <1>3 DEF OldAt
    <3>4. DOMAIN f = OldAt(q, s) /\ \A c \in OldAt(q, s) : f[c] = g[c]
      BY <3>1, <3>3, <2>2, <1>2
    <3>5. IsFiniteSet(OldAt(p, t))
      BY FS_Subset DEF OldAt, Creations
    <3>6. b \in NewestPer(f, Weekly)
      BY <2>2, <2>3, <3>2, <3>3, <3>4, <3>5, <1>3, FewerKeep
    <3>7. QED
      BY <3>1, <3>6 DEF WeeklyAt
  <2>7. ASSUME UtcDay(s) - UtcDay(p[b]) < Daily PROVE b \in DailyAt(q, s)
    <3>1. ASSUME NEW c \in S, c > b PROVE UtcDay(p[c]) # UtcDay(p[b])
      <4>1. SUFFICES ASSUME UtcDay(p[c]) = UtcDay(p[b]) PROVE FALSE
        OBVIOUS
      <4>2. c \in OldAt(p, t)
        BY <2>5, <4>1 DEF OldAt
      <4>3. Week(p[c]) = Week(p[b])
        BY <4>1 DEF Week
      <4>4. g[c] \in Newer(g, b) /\ g[c] = g[b]
        BY <2>2, <2>4, <3>1, <4>2, <4>3 DEF Newer
      <4>5. QED
        BY <2>4, <4>4
    <3>2. b \in YoungAt(q, s)
      BY <1>2, <2>7 DEF YoungAt
    <3>3. QED
      BY <3>1, <3>2, <1>3, <1>5
  <2>8. QED
    BY <2>6, <2>7, <1>3
<1>8. b \in RetainedAt(q, s)
  BY <1>4, <1>6, <1>7 DEF RetainedAt
<1>9. QED
  BY <1>1, <1>8

\* The newest backup is kept at any time.
LEMMA NewestIsRetained ==
    ASSUME NEW p, Creations(p), NEW b \in DOMAIN p, \A c \in DOMAIN p : ~(c > b), NEW t
    PROVE  b \in RetainedAt(p, t)
<1>1. PICK g : g = [c \in DOMAIN p |-> Month(p[c])]
  OBVIOUS
<1>2. DOMAIN g = DOMAIN p
  BY <1>1
<1>3. Newer(g, b) = {}
  BY <1>2 DEF Newer
<1>4. g[b] \notin Newer(g, b) /\ Cardinality(Newer(g, b)) < Monthly
  BY <1>3, FS_EmptySet, BackupsAssumption
<1>5. b \in NewestPer(g, Monthly)
  BY <1>2, <1>4 DEF NewestPer, Newer
<1>6. QED
  BY <1>1, <1>5 DEF MonthlyOf, RetainedAt

LEMMA NewestExists ==
    ASSUME NEW m \in Nat, NEW S \in SUBSET (1..m), S # {}
    PROVE  \E b \in S : \A c \in S : c <= b
<1>1. PICK R : R = OpToRel(<, Nat)
  OBVIOUS
<1>2. IsWellFoundedOn(R, Nat)
  BY <1>1, NatLessThanWellFounded
<1>3. R = {ss \in Nat \X Nat : ss[1] < ss[2]}
  BY <1>1 DEF OpToRel
<1>4. PICK D : D = {m - b : b \in S}
  OBVIOUS
<1>5. D \subseteq Nat /\ D # {}
  <2>1. \A b \in S : m - b \in Nat
    OBVIOUS
  <2>2. QED
    BY <1>4, <2>1
<1>6. PICK r \in D : \A q \in D : <<q, r>> \notin R
  BY <1>2, <1>5, WFMin
<1>7. PICK b \in S : r = m - b
  BY <1>4
<1>8. ASSUME NEW c \in S PROVE c <= b
  <2>1. m - c \in D /\ <<m - c, r>> \notin R
    BY <1>4, <1>6
  <2>2. <<m - c, r>> \in Nat \X Nat
    BY <1>5, <2>1
  <2>3. m - c < r => <<m - c, r>> \in R
    BY <1>3, <2>2
  <2>4. QED
    BY <1>7, <2>1, <2>3
<1>9. QED
  BY <1>8

-----------------------------------------------------------------------------
(* The inductive invariant.                                                    *)
BackupRow == [kind : {"scheduled", "manual", "pre_upgrade"}, created : Nat,
              validation : {"pending", "valid", "failed"}, stored : BOOLEAN]

Made == {"writing", "copied", "validating", "validated", "failing", "cleaning"}
JobStage == {"none", "locked"} \cup Made

RowsInv ==
    /\ now \in Nat /\ totals \in [manual : Nat, made : Nat, faults : Nat]
    /\ DOMAIN records \subseteq 1..totals.made
    /\ \A b \in DOMAIN records : records[b] \in BackupRow
    /\ \A b \in DOMAIN records : records[b].kind = "scheduled" => records[b].stored
    /\ files \subseteq 1..totals.made /\ temps \subseteq 1..totals.made

\* The backup that is made is the last one, and its row says how far it has come.
JobInv ==
    /\ job \in [at : JobStage, kind : {"none", "scheduled", "manual"}, id : Nat]
    /\ job.at = "none" => job = NoJob
    /\ job.kind = "none" => job.at = "none"
    /\ job.at = "locked" => job.id = 0
    /\ job.at \in Made =>
           /\ job.id = totals.made /\ job.id \in DOMAIN records
           /\ records[job.id].kind = job.kind /\ records[job.id].stored
           /\ job.kind = "scheduled" => records[job.id].created = now
           /\ records[job.id].validation =
                  IF job.at = "failing" THEN "failed"
                  ELSE IF job.at # "cleaning" THEN "pending"
                  ELSE records[job.id].validation
    /\ job.at \in {"validating", "validated"} => job.id \in files
    /\ job.at = "cleaning" /\ records[job.id].validation = "valid" => job.id \in files
    /\ job.at = "cleaning" /\ job.id \in files =>
           records[job.id].validation = "valid" \/ job.id \in stuck

TickInv ==
    /\ tick \in [at : {"idle", "backing", "selecting", "pruning", "removed"}, doomed : SUBSET Nat]
    /\ tick.at = "idle" => tick = IdleTick
    /\ tick.at = "backing" <=> job.kind = "scheduled"
    /\ tick.at \notin {"pruning", "removed"} => tick.doomed = {}
    /\ tick.doomed \subseteq DOMAIN ValidScheduled
    /\ tick.at = "removed" => tick.doomed # {} /\ NextDoomed \notin files

SendingInv ==
    /\ \A b \in sending : b \in DOMAIN records /\ records[b].kind = "manual"
    /\ job.at \in Made => job.id \notin sending
    /\ boot # "up" => job = NoJob /\ tick = IdleTick /\ sending = {}

\* The history of creations grows with the clock, a date at a time.
PastInv ==
    /\ past = [b \in DOMAIN past |-> past[b]] /\ DOMAIN past \subseteq 1..totals.made
    /\ \A b \in DOMAIN past : past[b] \in Nat /\ past[b] <= now
    /\ \A b, c \in DOMAIN past : b <= c => past[b] <= past[c]
    /\ \A b \in DOMAIN ValidScheduled : b \in DOMAIN past /\ past[b] = records[b].created

OnePerDate == \A b, c \in DOMAIN past : LocalDate(past[b]) = LocalDate(past[c]) => b = c

\* A backup the scheduler has asked for is the first of its date.
FirstOfDate ==
    job.kind = "scheduled" /\ job.at # "cleaning" =>
        /\ job.at # "locked" => job.id \notin DOMAIN past
        /\ \A b \in DOMAIN past : LocalDate(past[b]) # LocalDate(now)

\* Retention has left, and will leave, what the rule asks for now or at any later time.
Safe == {b \in DOMAIN ValidScheduled : b \in files /\ b \notin tick.doomed}

KeptInv == \A t \in Nat : now <= t => RetainedAt(past, t) \subseteq Safe

HistoryInv == PastInv /\ OnePerDate /\ FirstOfDate /\ KeptInv

UpgradeInv == boot = "saved" => schema \in upgrades

BackupsInv == RowsInv /\ JobInv /\ TickInv /\ SendingInv /\ HistoryInv /\ UpgradeInv
              /\ FilesAccountedFor

-----------------------------------------------------------------------------
(* What the parts of the invariant give.                                       *)
ValidRow(rs, b) == rs[b].kind = "scheduled" /\ rs[b].validation = "valid" /\ rs[b].stored

LEMMA ValidFacts ==
    /\ DOMAIN ValidScheduled = {b \in DOMAIN records : ValidRow(records, b)}
    /\ \A b \in DOMAIN ValidScheduled : ValidScheduled[b] = records[b].created
  BY DEF ValidScheduled, ValidRow

LEMMA ValidFactsNext ==
    DOMAIN ValidScheduled' = {b \in DOMAIN records' : ValidRow(records', b)}
  BY DEF ValidScheduled, ValidRow

LEMMA PastFacts ==
    ASSUME RowsInv, PastInv
    PROVE  Creations(past)
<1>1. IsFiniteSet(1..totals.made)
  BY FS_Interval DEF RowsInv
<1>2. IsFiniteSet(DOMAIN past)
  BY <1>1, FS_Subset DEF PastInv
<1>3. QED
  BY <1>2 DEF Creations, PastInv

\* The newest backup of all has its row.
LEMMA NewestIsThere ==
    ASSUME RowsInv, PastInv, KeptInv, DOMAIN past # {}
    PROVE  \E m \in DOMAIN ValidScheduled : m \in DOMAIN past /\ \A b \in DOMAIN past : b <= m
<1>1. PICK m \in DOMAIN past : \A b \in DOMAIN past : b <= m
  BY NewestExists DEF RowsInv, PastInv
<1>2. \A b \in DOMAIN past : ~(b > m)
  BY <1>1 DEF RowsInv, PastInv
<1>3. m \in RetainedAt(past, now)
  BY <1>2, PastFacts, NewestIsRetained
<1>4. m \in DOMAIN ValidScheduled
  BY <1>3 DEF KeptInv, Safe, RowsInv
<1>5. QED
  BY <1>1, <1>4

\* So the scheduler sees a backup of today, whatever retention has removed.
LEMMA DoneTodayIsSeen ==
    ASSUME RowsInv, PastInv, KeptInv,
           NEW c \in DOMAIN past, LocalDate(past[c]) = LocalDate(now)
    PROVE  DoneToday
<1>1. PICK m \in DOMAIN ValidScheduled : m \in DOMAIN past /\ \A b \in DOMAIN past : b <= m
  BY NewestIsThere
<1>2. \A u \in LastScheduled : \E b \in DOMAIN ValidScheduled : u = records[b].created
  BY ValidFacts DEF LastScheduled, RowsInv, ValidRow
<1>3. past[m] \in LastScheduled
  BY <1>1, ValidFacts DEF LastScheduled, PastInv, ValidRow
<1>4. \A u \in LastScheduled : u <= past[m]
  BY <1>1, <1>2 DEF PastInv
<1>5. past[c] \in Nat /\ past[m] \in Nat /\ now \in Nat /\ past[c] <= past[m] /\ past[m] <= now
  BY <1>1 DEF PastInv, RowsInv
<1>6. LocalDate(past[m]) = LocalDate(now)
  <2>1. /\ LocalDate(past[c]) \in Nat /\ LocalDate(past[m]) \in Nat /\ LocalDate(now) \in Nat
        /\ LocalDate(past[c]) <= LocalDate(past[m])
    BY <1>5, CalendarFacts
  <2>2. LocalDate(past[m]) <= LocalDate(now)
    BY <1>5, CalendarFacts
  <2>3. QED
    BY <2>1, <2>2
<1>7. QED
  BY <1>3, <1>4, <1>6 DEF DoneToday

LEMMA KeptStep ==
    ASSUME KeptInv, now \in Nat, now' \in Nat, now <= now', past' = past, Safe \subseteq Safe'
    PROVE  KeptInv'
  BY DEF KeptInv

LEMMA NextDoomedIsDoomed ==
    ASSUME RowsInv, TickInv, tick.doomed # {}
    PROVE  NextDoomed \in tick.doomed
<1>1. tick.doomed \in SUBSET (1..totals.made) /\ totals.made \in Nat
  BY ValidFacts DEF RowsInv, TickInv
<1>2. \E b \in tick.doomed : \A c \in tick.doomed : c <= b
  BY <1>1, NewestExists
<1>3. QED
  BY <1>2 DEF NextDoomed

\* What a step keeps that leaves the rows and the history alone.
LEMMA SameRows ==
    ASSUME RowsInv, records' = records
    PROVE  /\ DOMAIN ValidScheduled' = DOMAIN ValidScheduled
           /\ (files \subseteq files' /\ tick'.doomed = tick.doomed => Safe \subseteq Safe')
  BY ValidFacts, ValidFactsNext DEF Safe

LEMMA SamePast ==
    ASSUME RowsInv, PastInv, OnePerDate, records' = records, past' = past,
           now' \in Nat, now <= now', totals'.made = totals.made
    PROVE  PastInv' /\ OnePerDate'
<1>1. DOMAIN ValidScheduled' = DOMAIN ValidScheduled
  BY SameRows
<1>2. \A b \in DOMAIN past : past[b] <= now'
  BY DEF RowsInv, PastInv
<1>3. PastInv'
  BY <1>1, <1>2 DEF PastInv
<1>4. QED
  BY <1>3 DEF OnePerDate

LEMMA InvInit == BackupsInit => BackupsInv
<1> SUFFICES ASSUME BackupsInit PROVE BackupsInv
  OBVIOUS
<1>1. now = 0 /\ boot = "up" /\ records = <<>> /\ files = {} /\ temps = {} /\ job = NoJob
      /\ tick = IdleTick /\ sending = {} /\ past = <<>>
      /\ totals = [manual |-> 0, made |-> 0, faults |-> 0]
  BY DEF BackupsInit
<1>2. DOMAIN records = {} /\ DOMAIN past = {}
  BY <1>1
<1>3. DOMAIN ValidScheduled = {}
  BY <1>2, ValidFacts
<1>4. RowsInv
  BY <1>1, <1>2 DEF RowsInv
<1>5. JobInv /\ SendingInv /\ UpgradeInv
  BY <1>1 DEF JobInv, SendingInv, UpgradeInv, NoJob, JobStage, Made
<1>6. TickInv
  BY <1>1, <1>3 DEF TickInv, NoJob, IdleTick
<1>7. PastInv /\ OnePerDate /\ FirstOfDate
  BY <1>1, <1>2, <1>3 DEF PastInv, OnePerDate, FirstOfDate, NoJob
<1>8. \A t : RetainedAt(past, t) = {}
  BY <1>2 DEF RetainedAt, DailyAt, WeeklyAt, MonthlyOf, NewestPer, YoungAt, OldAt
<1>9. KeptInv
  BY <1>8 DEF KeptInv
<1>10. FilesAccountedFor
  BY <1>1 DEF FilesAccountedFor
<1>11. QED
  BY <1>4, <1>5, <1>6, <1>7, <1>9, <1>10 DEF BackupsInv, HistoryInv

-----------------------------------------------------------------------------
(* Every step preserves it: the clock and the scheduler.                       *)
LEMMA TimePassesPreserves == BackupsInv /\ TimePasses => BackupsInv'
<1> SUFFICES ASSUME BackupsInv, TimePasses PROVE BackupsInv'
  OBVIOUS
<1> USE DEF BackupsInv, HistoryInv
<1>1. /\ now \in Nat /\ now' = now + 1
      /\ UNCHANGED <<boot, records, files, temps, job, tick, sending, release, schema, upgrades,
                     past, strays, stuck, totals>>
      /\ \/ job = NoJob /\ tick = IdleTick
         \/ job.at = "locked" /\ job.kind = "scheduled" /\ LocalDate(now') # LocalDate(now)
  BY DEF TimePasses, service, install, RowsInv
<1>2. DOMAIN ValidScheduled' = DOMAIN ValidScheduled /\ Safe \subseteq Safe'
  BY <1>1, SameRows
<1>3. RowsInv' /\ SendingInv' /\ UpgradeInv' /\ FilesAccountedFor'
  BY <1>1, <1>2 DEF RowsInv, SendingInv, Made, NoJob, UpgradeInv, FilesAccountedFor
<1>4. JobInv'
  BY <1>1 DEF JobInv, NoJob, JobStage, Made
<1>5. TickInv'
  BY <1>1, <1>2 DEF TickInv, NextDoomed
<1>6. PastInv' /\ OnePerDate'
  BY <1>1, SamePast
<1>7. FirstOfDate'
  <2>1. SUFFICES ASSUME job.kind = "scheduled", job.at = "locked", NEW b \in DOMAIN past
                 PROVE  LocalDate(past[b]) # LocalDate(now')
    BY <1>1 DEF FirstOfDate, NoJob
  <2>2. past[b] \in Nat /\ past[b] <= now /\ now' \in Nat /\ now <= now'
    BY <1>1 DEF PastInv
  <2>3. /\ LocalDate(past[b]) \in Nat /\ LocalDate(now) \in Nat /\ LocalDate(now') \in Nat
        /\ LocalDate(past[b]) <= LocalDate(now) /\ LocalDate(now) <= LocalDate(now')
    BY <1>1, <2>2, CalendarFacts
  <2>4. QED
    BY <1>1, <2>1, <2>3 DEF NoJob
<1>8. KeptInv'
  BY <1>1, <1>2, KeptStep
<1>9. QED
  BY <1>3, <1>4, <1>5, <1>6, <1>7, <1>8

LEMMA TickPreserves == BackupsInv /\ Tick => BackupsInv'
<1> SUFFICES ASSUME BackupsInv, Tick PROVE BackupsInv'
  OBVIOUS
<1> USE DEF BackupsInv, HistoryInv
<1>1. /\ boot = "up" /\ tick = IdleTick /\ job = NoJob /\ ~DoneToday
      /\ tick' = [at |-> "backing", doomed |-> {}]
      /\ job' = [at |-> "locked", kind |-> "scheduled", id |-> 0]
      /\ UNCHANGED <<now, boot, records, files, temps, sending, release, schema, upgrades,
                     past, strays, stuck, totals>>
  BY DEF Tick, Due, install, IdleTick, TickInv
<1>2. DOMAIN ValidScheduled' = DOMAIN ValidScheduled /\ Safe \subseteq Safe'
  BY <1>1, SameRows DEF IdleTick
<1>3. RowsInv' /\ SendingInv' /\ UpgradeInv'
  BY <1>1 DEF RowsInv, SendingInv, Made, NoJob, UpgradeInv
<1>4. JobInv' /\ TickInv'
  BY <1>1 DEF JobInv, JobStage, Made, TickInv
<1>5. PastInv' /\ OnePerDate'
  BY <1>1, SamePast DEF RowsInv
<1>6. FirstOfDate'
  BY <1>1, DoneTodayIsSeen DEF FirstOfDate
<1>7. KeptInv'
  BY <1>1, <1>2, KeptStep DEF RowsInv
<1>8. FilesAccountedFor'
  BY <1>1, <1>2 DEF FilesAccountedFor, NoJob
<1>9. QED
  BY <1>3, <1>4, <1>5, <1>6, <1>7, <1>8

LEMMA ManualBackupPreserves == BackupsInv /\ ManualBackup => BackupsInv'
<1> SUFFICES ASSUME BackupsInv, ManualBackup PROVE BackupsInv'
  OBVIOUS
<1> USE DEF BackupsInv, HistoryInv
<1>1. /\ boot = "up" /\ job = NoJob /\ totals'.made = totals.made
      /\ job' = [at |-> "locked", kind |-> "manual", id |-> 0]
      /\ UNCHANGED <<now, boot, records, files, temps, tick, sending, release, schema, upgrades,
                     past, strays, stuck>>
  BY DEF ManualBackup, install
<1>2. DOMAIN ValidScheduled' = DOMAIN ValidScheduled /\ Safe \subseteq Safe'
  BY <1>1, SameRows
<1>3. RowsInv' /\ SendingInv' /\ UpgradeInv'
  <2>1. totals' \in [manual : Nat, made : Nat, faults : Nat]
    BY DEF ManualBackup, RowsInv
  <2>2. QED
    BY <1>1, <2>1 DEF RowsInv, SendingInv, Made, NoJob, UpgradeInv
<1>4. JobInv'
  BY <1>1 DEF JobInv, JobStage, Made
<1>5. TickInv'
  BY <1>1, <1>2 DEF TickInv, NextDoomed, NoJob
<1>6. PastInv' /\ OnePerDate'
  BY <1>1, SamePast DEF RowsInv
<1>7. FirstOfDate'
  BY <1>1 DEF FirstOfDate
<1>8. KeptInv'
  BY <1>1, <1>2, KeptStep DEF RowsInv
<1>9. FilesAccountedFor'
  BY <1>1, <1>2 DEF FilesAccountedFor, NoJob
<1>10. QED
  BY <1>3, <1>4, <1>5, <1>6, <1>7, <1>8, <1>9

-----------------------------------------------------------------------------
(* Making a backup.                                                            *)
LEMMA InsertRecordPreserves == BackupsInv /\ InsertRecord => BackupsInv'
<1> SUFFICES ASSUME BackupsInv, InsertRecord PROVE BackupsInv'
  OBVIOUS
<1> USE DEF BackupsInv, HistoryInv
<1>1. PICK b \in Nat : b = totals.made + 1
  BY DEF RowsInv
<1>2. /\ job.at = "locked" /\ totals'.made = b
      /\ records' = [c \in DOMAIN records \cup {b} |->
                        IF c = b THEN NewRow(job.kind) ELSE records[c]]
      /\ job' = [at |-> "writing", kind |-> job.kind, id |-> b]
      /\ UNCHANGED <<now, boot, files, temps, tick, sending, release, schema, upgrades,
                     past, strays, stuck>>
  BY <1>1 DEF InsertRecord, install, RowsInv, JobInv
<1>3. /\ job.kind \in {"scheduled", "manual"} /\ boot = "up" /\ job.id = 0
      /\ b \notin DOMAIN records /\ b \notin files /\ b \notin temps /\ b \notin DOMAIN past
      /\ \A c \in DOMAIN past : c < b
  BY <1>1, <1>2 DEF JobInv, SendingInv, RowsInv, PastInv, NoJob
<1>4. PICK row \in BackupRow : row = NewRow(job.kind)
  <2>1. (IF job.kind = "scheduled" THEN now ELSE 0) \in Nat
    BY DEF RowsInv
  <2>2. QED
    BY <1>3, <2>1 DEF NewRow, BackupRow
<1>5. row.validation = "pending" /\ row.kind = job.kind /\ row.stored
      /\ (job.kind = "scheduled" => row.created = now)
  BY <1>4 DEF NewRow
<1>6. /\ DOMAIN records' = DOMAIN records \cup {b} /\ records'[b] = row
      /\ \A c \in DOMAIN records : records'[c] = records[c]
  BY <1>2, <1>3, <1>4
<1>7. DOMAIN ValidScheduled' = DOMAIN ValidScheduled
  BY <1>5, <1>6, <1>3, ValidFacts, ValidFactsNext DEF ValidRow
<1>8. Safe' = Safe
  BY <1>2, <1>7 DEF Safe
<1>9. RowsInv'
  <2>1. totals' \in [manual : Nat, made : Nat, faults : Nat]
    BY <1>1, <1>2 DEF InsertRecord, RowsInv
  <2>2. 1..totals.made \subseteq 1..b /\ b \in 1..b
    BY <1>1, <1>2 DEF RowsInv
  <2>3. QED
    BY <2>1, <2>2, <1>2, <1>4, <1>5, <1>6 DEF RowsInv
<1>10. JobInv'
  BY <1>2, <1>3, <1>5, <1>6 DEF JobInv, JobStage, Made
<1>11. TickInv' /\ SendingInv' /\ UpgradeInv'
  BY <1>2, <1>3, <1>6, <1>7 DEF TickInv, NextDoomed, SendingInv, Made, NoJob, UpgradeInv
<1>12. PastInv'
  <2>1. \A c \in DOMAIN ValidScheduled : c \in DOMAIN records /\ records'[c] = records[c]
    BY <1>6, ValidFacts
  <2>2. 1..totals.made \subseteq 1..b
    BY <1>1, <1>2 DEF RowsInv
  <2>3. QED
    BY <1>2, <1>7, <2>1, <2>2 DEF PastInv
<1>13. OnePerDate' /\ FirstOfDate'
  BY <1>2, <1>3 DEF OnePerDate, FirstOfDate
<1>14. KeptInv'
  BY <1>2, <1>8, KeptStep DEF RowsInv
<1>15. FilesAccountedFor'
  BY <1>2, <1>3, <1>6, <1>7 DEF FilesAccountedFor, RowsInv
<1>16. QED
  BY <1>9, <1>10, <1>11, <1>12, <1>13, <1>14, <1>15

LEMMA TakeSnapshotPreserves == BackupsInv /\ TakeSnapshot => BackupsInv'
<1> SUFFICES ASSUME BackupsInv, TakeSnapshot PROVE BackupsInv'
  OBVIOUS
<1> USE DEF BackupsInv, HistoryInv
<1>1. /\ job.at = "writing" /\ temps' = temps \cup {job.id}
      /\ job' = [at |-> "copied", kind |-> job.kind, id |-> job.id]
      /\ UNCHANGED <<now, boot, records, files, tick, sending, release, schema, upgrades,
                     past, strays, stuck, totals>>
  BY DEF TakeSnapshot, install, JobInv
<1>2. DOMAIN ValidScheduled' = DOMAIN ValidScheduled /\ Safe \subseteq Safe'
  BY <1>1, SameRows
<1>3. /\ job.kind \in {"scheduled", "manual"} /\ boot = "up"
      /\ job.id = totals.made /\ job.id \in DOMAIN records
  BY <1>1 DEF JobInv, SendingInv, NoJob, Made
<1>4. RowsInv'
  BY <1>1, <1>3 DEF RowsInv
<1>5. JobInv'
  BY <1>1, <1>3 DEF JobInv, JobStage, Made
<1>6. TickInv' /\ SendingInv' /\ UpgradeInv'
  BY <1>1, <1>2, <1>3 DEF TickInv, NextDoomed, SendingInv, Made, NoJob, UpgradeInv
<1>7. PastInv' /\ OnePerDate'
  BY <1>1, SamePast DEF RowsInv
<1>8. FirstOfDate'
  BY <1>1 DEF FirstOfDate
<1>9. KeptInv'
  BY <1>1, <1>2, KeptStep DEF RowsInv
<1>10. FilesAccountedFor'
  BY <1>1, <1>2 DEF FilesAccountedFor
<1>11. QED
  BY <1>4, <1>5, <1>6, <1>7, <1>8, <1>9, <1>10

LEMMA WriteContainerPreserves == BackupsInv /\ WriteContainer => BackupsInv'
<1> SUFFICES ASSUME BackupsInv, WriteContainer PROVE BackupsInv'
  OBVIOUS
<1> USE DEF BackupsInv, HistoryInv
<1>1. /\ job.at = "copied" /\ files' = files \cup {job.id}
      /\ job' = [at |-> "validating", kind |-> job.kind, id |-> job.id]
      /\ UNCHANGED <<now, boot, records, temps, tick, sending, release, schema, upgrades,
                     past, strays, stuck, totals>>
  BY DEF WriteContainer, install, JobInv
<1>2. DOMAIN ValidScheduled' = DOMAIN ValidScheduled /\ Safe \subseteq Safe'
  BY <1>1, SameRows
<1>3. /\ job.kind \in {"scheduled", "manual"} /\ boot = "up"
      /\ job.id = totals.made /\ job.id \in DOMAIN records
      /\ records[job.id].validation = "pending" /\ records[job.id].stored
  BY <1>1 DEF JobInv, SendingInv, NoJob, Made
<1>4. RowsInv'
  BY <1>1, <1>3 DEF RowsInv
<1>5. JobInv'
  BY <1>1, <1>3 DEF JobInv, JobStage, Made
<1>6. TickInv'
  <2>1. job.id \notin DOMAIN ValidScheduled
    BY <1>3, ValidFacts DEF ValidRow
  <2>2. tick.at = "removed" => NextDoomed # job.id
    BY <2>1, NextDoomedIsDoomed DEF TickInv
  <2>3. QED
    BY <1>1, <1>2, <2>2 DEF TickInv, NextDoomed
<1>7. SendingInv' /\ UpgradeInv'
  BY <1>1, <1>3 DEF SendingInv, Made, NoJob, UpgradeInv
<1>8. PastInv' /\ OnePerDate'
  BY <1>1, SamePast DEF RowsInv
<1>9. FirstOfDate'
  BY <1>1 DEF FirstOfDate
<1>10. KeptInv'
  BY <1>1, <1>2, KeptStep DEF RowsInv
<1>11. FilesAccountedFor'
  BY <1>1, <1>2, <1>3 DEF FilesAccountedFor
<1>12. QED
  BY <1>4, <1>5, <1>6, <1>7, <1>8, <1>9, <1>10, <1>11

LEMMA ValidatePreserves == BackupsInv /\ Validate => BackupsInv'
<1> SUFFICES ASSUME BackupsInv, Validate PROVE BackupsInv'
  OBVIOUS
<1> USE DEF BackupsInv, HistoryInv
<1>1. /\ job.at = "validating"
      /\ job' = [at |-> "validated", kind |-> job.kind, id |-> job.id]
      /\ UNCHANGED <<now, boot, records, files, temps, tick, sending, release, schema, upgrades,
                     past, strays, stuck, totals>>
  BY DEF Validate, install, JobInv
<1>2. DOMAIN ValidScheduled' = DOMAIN ValidScheduled /\ Safe \subseteq Safe'
  BY <1>1, SameRows
<1>3. boot = "up"
  BY <1>1 DEF SendingInv, NoJob
<1>4. RowsInv'
  BY <1>1 DEF RowsInv
<1>5. JobInv'
  BY <1>1 DEF JobInv, JobStage, Made
<1>6. TickInv' /\ SendingInv' /\ UpgradeInv'
  BY <1>1, <1>2, <1>3 DEF TickInv, NextDoomed, SendingInv, Made, NoJob, UpgradeInv
<1>7. PastInv' /\ OnePerDate'
  BY <1>1, SamePast DEF RowsInv
<1>8. FirstOfDate'
  BY <1>1 DEF FirstOfDate
<1>9. KeptInv'
  BY <1>1, <1>2, KeptStep DEF RowsInv
<1>10. FilesAccountedFor'
  BY <1>1, <1>2 DEF FilesAccountedFor
<1>11. QED
  BY <1>4, <1>5, <1>6, <1>7, <1>8, <1>9, <1>10

\* A backup that has become valid is the newest, and the first of its date.
LEMMA CompletedPreserves == BackupsInv /\ Completed => BackupsInv'
<1> SUFFICES ASSUME BackupsInv, Completed PROVE BackupsInv'
  OBVIOUS
<1> USE DEF BackupsInv, HistoryInv
<1>1. PICK b : b = job.id
  OBVIOUS
<1>2. /\ job.at = "validated"
      /\ records' = [records EXCEPT ![b].validation = "valid"]
      /\ past' = IF job.kind # "scheduled" THEN past
                 ELSE [c \in DOMAIN past \cup {b} |-> IF c = b THEN records[b].created ELSE past[c]]
      /\ job' = [at |-> "cleaning", kind |-> job.kind, id |-> b]
      /\ UNCHANGED <<now, boot, files, temps, tick, sending, release, schema, upgrades,
                     strays, stuck, totals>>
  BY <1>1 DEF Completed, install, JobInv
<1>3. /\ job.kind \in {"scheduled", "manual"} /\ boot = "up"
      /\ b = totals.made /\ b \in DOMAIN records /\ b \in files
      /\ records[b].validation = "pending" /\ records[b].kind = job.kind
      /\ (job.kind = "scheduled" => records[b].created = now) /\ records[b].stored
  BY <1>1, <1>2 DEF JobInv, SendingInv, NoJob, Made
<1>4. /\ DOMAIN records' = DOMAIN records
      /\ records'[b] = [records[b] EXCEPT !.validation = "valid"]
      /\ \A c \in DOMAIN records : c # b => records'[c] = records[c]
  BY <1>2, <1>3
<1>5. /\ records'[b] \in BackupRow /\ records'[b].validation = "valid"
      /\ records'[b].kind = job.kind /\ records'[b].created = records[b].created
      /\ records'[b].stored = records[b].stored
  BY <1>3, <1>4 DEF RowsInv, BackupRow
<1>6. DOMAIN ValidScheduled' =
          IF job.kind = "scheduled" THEN DOMAIN ValidScheduled \cup {b} ELSE DOMAIN ValidScheduled
  <2>1. ValidRow(records', b) <=> job.kind = "scheduled"
    BY <1>3, <1>5 DEF ValidRow, RowsInv
  <2>2. ~ValidRow(records, b) /\ \A c \in DOMAIN records :
            c # b => (ValidRow(records', c) <=> ValidRow(records, c))
    BY <1>3, <1>4 DEF ValidRow
  <2>3. QED
    BY <1>3, <1>4, <2>1, <2>2, ValidFacts, ValidFactsNext
<1>7. b \notin DOMAIN ValidScheduled
  BY <1>3, ValidFacts DEF ValidRow
<1>8. RowsInv'
  BY <1>2, <1>3, <1>4, <1>5 DEF RowsInv
<1>9. JobInv'
  <2>1. /\ job'.at = "cleaning" /\ job'.kind = job.kind /\ job'.id = b /\ b \in Nat
        /\ job' \in [at : JobStage, kind : {"none", "scheduled", "manual"}, id : Nat]
    BY <1>1, <1>2, <1>3 DEF JobInv, JobStage, Made
  <2>2. b \in files' /\ b = totals'.made /\ records'[b].stored /\ now' = now
    BY <1>2, <1>3, <1>5
  <2>3. QED
    BY <1>3, <1>4, <1>5, <2>1, <2>2 DEF JobInv, Made
<1>10. TickInv'
  BY <1>2, <1>6 DEF TickInv, NextDoomed
<1>11. SendingInv' /\ UpgradeInv'
  BY <1>1, <1>2, <1>3, <1>4, <1>5 DEF SendingInv, Made, NoJob, UpgradeInv
<1>12. FirstOfDate'
  BY <1>2 DEF FirstOfDate
<1>13. FilesAccountedFor'
  BY <1>1, <1>2, <1>4, <1>5, <1>6 DEF FilesAccountedFor
<1>14. ASSUME job.kind = "manual" PROVE PastInv' /\ OnePerDate' /\ KeptInv'
  <2>1. past' = past /\ DOMAIN ValidScheduled' = DOMAIN ValidScheduled
    BY <1>2, <1>6, <1>14
  <2>2. \A c \in DOMAIN ValidScheduled : c \in DOMAIN records /\ records'[c] = records[c]
    BY <1>4, <1>7, ValidFacts
  <2>3. PastInv' /\ OnePerDate'
    <3>1. \A c \in DOMAIN ValidScheduled' : c \in DOMAIN past' /\ past'[c] = records'[c].created
      BY <2>1, <2>2 DEF PastInv
    <3>2. PastInv'
      BY <1>2, <2>1, <3>1 DEF PastInv
    <3>3. OnePerDate'
      BY <1>2, <2>1 DEF OnePerDate
    <3>4. QED
      BY <3>2, <3>3
  <2>4. Safe' = Safe
    BY <1>2, <2>1 DEF Safe
  <2>5. KeptInv'
    BY <1>2, <2>1, <2>4, KeptStep DEF RowsInv
  <2>6. QED
    BY <2>3, <2>5
<1>15. ASSUME job.kind = "scheduled" PROVE PastInv' /\ OnePerDate' /\ KeptInv'
  <2>1. /\ DOMAIN past' = DOMAIN past \cup {b} /\ past'[b] = now
        /\ \A c \in DOMAIN past : c # b => past'[c] = past[c]
        /\ DOMAIN ValidScheduled' = DOMAIN ValidScheduled \cup {b}
    BY <1>2, <1>3, <1>6, <1>15
  <2>2. b \notin DOMAIN past /\ \A c \in DOMAIN past : LocalDate(past[c]) # LocalDate(now)
    BY <1>1, <1>2, <1>15 DEF FirstOfDate
  <2>3. \A c \in DOMAIN past : past'[c] = past[c] /\ c < b /\ c \in Nat
    BY <2>1, <2>2, <1>3 DEF PastInv, RowsInv
  <2>4. b \in Nat /\ now \in Nat
    BY <1>3 DEF RowsInv
  <2>5. PastInv'
    <3>1. DOMAIN past' \subseteq 1..totals'.made /\ past' = [c \in DOMAIN past' |-> past'[c]]
      BY <2>1, <1>2, <1>3, <1>15 DEF PastInv, RowsInv
    <3>2. \A c \in DOMAIN past' : past'[c] \in Nat /\ past'[c] <= now'
      BY <2>1, <2>3, <2>4, <1>2 DEF PastInv
    <3>3. \A c, d \in DOMAIN past' : c <= d => past'[c] <= past'[d]
      <4>1. SUFFICES ASSUME NEW c \in DOMAIN past', NEW d \in DOMAIN past', c <= d
                     PROVE  past'[c] <= past'[d]
        OBVIOUS
      <4>2. CASE d = b
        BY <4>2, <2>1, <3>2, <1>2
      <4>3. CASE d # b
        <5>1. d \in DOMAIN past /\ c # b
          BY <4>1, <4>3, <2>1, <2>3, <2>4
        <5>2. QED
          BY <4>1, <5>1, <2>1, <2>3 DEF PastInv
      <4>4. QED
        BY <4>2, <4>3
    <3>4. \A c \in DOMAIN ValidScheduled' : c \in DOMAIN past' /\ past'[c] = records'[c].created
      <4>1. \A c \in DOMAIN ValidScheduled :
                c \in DOMAIN past /\ past[c] = records[c].created /\ c \in DOMAIN records
        BY ValidFacts DEF PastInv
      <4>2. past'[b] = records'[b].created
        BY <2>1, <1>3, <1>5, <1>15
      <4>3. \A c \in DOMAIN ValidScheduled : records'[c] = records[c]
        BY <4>1, <1>4, <1>7
      <4>4. QED
        BY <4>1, <4>2, <4>3, <2>1, <2>3
    <3>5. QED
      BY <3>1, <3>2, <3>3, <3>4 DEF PastInv
  <2>6. OnePerDate'
    BY <2>1, <2>2, <2>3 DEF OnePerDate
  <2>7. Safe \cup {b} \subseteq Safe'
    <3>1. b \notin tick.doomed
      BY <1>7 DEF TickInv
    <3>2. QED
      BY <2>1, <3>1, <1>2, <1>3 DEF Safe
  <2>8. KeptInv'
    <3>1. SUFFICES ASSUME NEW t \in Nat, now <= t, NEW c \in RetainedAt(past', t)
                   PROVE  c \in Safe'
      BY <1>2 DEF KeptInv
    <3>2. RowsInv' /\ PastInv'
      BY <1>8, <2>5
    <3>3. IsFiniteSet(1..totals'.made) /\ DOMAIN past' \subseteq 1..totals'.made
      <4>1. IsFiniteSet(1..totals.made)
        BY FS_Interval DEF RowsInv
      <4>2. QED
        BY <4>1, <3>2, <1>2 DEF PastInv
    <3>4. Creations(past')
      BY <3>2, <3>3, FS_Subset DEF Creations, PastInv
    <3>5. c \in DOMAIN past'
      BY <3>1 DEF RetainedAt, DailyAt, WeeklyAt, MonthlyOf, NewestPer, YoungAt, OldAt
    <3>6. CASE c \in DOMAIN past
      <4>1. PICK S \in SUBSET DOMAIN past' : S = DOMAIN past
        BY <2>1
      <4>2. c \in RetainedAt([d \in S |-> past'[d]], t)
        BY <3>1, <3>4, <3>6, <4>1, RetentionIsPatient
      <4>4. past = [d \in DOMAIN past |-> past[d]]
        BY DEF PastInv
      <4>5. [d \in S |-> past'[d]] = past
        BY <2>3, <4>1, <4>4
      <4>6. c \in RetainedAt(past, t)
        BY <4>2, <4>5
      <4>7. QED
        BY <3>1, <4>6, <2>7 DEF KeptInv
    <3>7. CASE c = b
      BY <3>7, <2>7
    <3>8. QED
      BY <3>5, <3>6, <3>7, <2>1
  <2>9. QED
    BY <2>5, <2>6, <2>8
<1>16. QED
  BY <1>3, <1>8, <1>9, <1>10, <1>11, <1>12, <1>13, <1>14, <1>15

LEMMA MarkedFailurePreserves ==
    BackupsInv /\ BackupFails /\ job'.at = "failing" => BackupsInv'
<1> SUFFICES ASSUME BackupsInv, BackupFails, job'.at = "failing" PROVE BackupsInv'
  OBVIOUS
<1> USE DEF BackupsInv, HistoryInv
<1>1. PICK b : b = job.id
  OBVIOUS
<1>2. /\ job.at \in {"writing", "copied", "validating", "validated"}
      /\ records' = [records EXCEPT ![b].validation = "failed"]
      /\ job' = [at |-> "failing", kind |-> job.kind, id |-> b]
      /\ totals' \in [manual : Nat, made : Nat, faults : Nat] /\ totals'.made = totals.made
      /\ UNCHANGED <<now, boot, files, temps, tick, sending, release, schema, upgrades,
                     past, strays, stuck>>
  BY <1>1 DEF BackupFails, Fault, install, JobInv, RowsInv
<1>3. /\ job.kind \in {"scheduled", "manual"} /\ boot = "up"
      /\ b = totals.made /\ b \in DOMAIN records
      /\ records[b].validation = "pending" /\ records[b].kind = job.kind
      /\ (job.kind = "scheduled" => records[b].created = now)
  BY <1>1, <1>2 DEF JobInv, SendingInv, NoJob, Made
<1>4. /\ DOMAIN records' = DOMAIN records
      /\ records'[b] = [records[b] EXCEPT !.validation = "failed"]
      /\ \A c \in DOMAIN records : c # b => records'[c] = records[c]
  BY <1>2, <1>3
<1>5. /\ records'[b] \in BackupRow /\ records'[b].validation = "failed"
      /\ records'[b].kind = job.kind /\ records'[b].created = records[b].created
      /\ records'[b].stored = records[b].stored
  BY <1>3, <1>4 DEF RowsInv, BackupRow
<1>6. DOMAIN ValidScheduled' = DOMAIN ValidScheduled /\ b \notin DOMAIN ValidScheduled
  <2>1. ~ValidRow(records', b) /\ ~ValidRow(records, b)
    BY <1>3, <1>5 DEF ValidRow
  <2>2. \A c \in DOMAIN records : c # b => (ValidRow(records', c) <=> ValidRow(records, c))
    BY <1>4 DEF ValidRow
  <2>3. QED
    BY <1>4, <2>1, <2>2, ValidFacts, ValidFactsNext
<1>7. Safe' = Safe
  BY <1>2, <1>6 DEF Safe
<1>8. RowsInv'
  BY <1>2, <1>3, <1>4, <1>5 DEF RowsInv
<1>9. JobInv'
  BY <1>1, <1>2, <1>3, <1>4, <1>5 DEF JobInv, JobStage, Made
<1>10. TickInv'
  BY <1>2, <1>6 DEF TickInv, NextDoomed
<1>11. SendingInv' /\ UpgradeInv'
  BY <1>1, <1>2, <1>3, <1>4, <1>5 DEF SendingInv, Made, NoJob, UpgradeInv
<1>12. FirstOfDate'
  BY <1>1, <1>2 DEF FirstOfDate
<1>13. PastInv' /\ OnePerDate'
  <2>1. \A c \in DOMAIN ValidScheduled : c \in DOMAIN records /\ records'[c] = records[c]
    BY <1>4, <1>6, ValidFacts
  <2>2. QED
    BY <1>2, <1>6, <2>1 DEF PastInv, OnePerDate
<1>14. KeptInv'
  BY <1>2, <1>7, KeptStep DEF RowsInv
<1>15. FilesAccountedFor'
  BY <1>1, <1>2, <1>4, <1>5, <1>6 DEF FilesAccountedFor
<1>16. QED
  BY <1>8, <1>9, <1>10, <1>11, <1>12, <1>13, <1>14, <1>15

\* The record could not be written: the row stays pending, with its container.
LEMMA UnmarkedFailurePreserves ==
    BackupsInv /\ BackupFails /\ job'.at # "failing" => BackupsInv'
<1> SUFFICES ASSUME BackupsInv, BackupFails, job'.at # "failing" PROVE BackupsInv'
  OBVIOUS
<1> USE DEF BackupsInv, HistoryInv
<1>1. /\ job.at \in {"writing", "copied", "validating", "validated"}
      /\ job' = [at |-> "cleaning", kind |-> job.kind, id |-> job.id]
      /\ stuck' = stuck \cup {job.id}
      /\ totals' \in [manual : Nat, made : Nat, faults : Nat] /\ totals'.made = totals.made
      /\ UNCHANGED <<now, boot, records, files, temps, tick, sending, release, schema, upgrades,
                     past, strays>>
  BY DEF BackupFails, Fault, install, JobInv, RowsInv
<1>2. DOMAIN ValidScheduled' = DOMAIN ValidScheduled /\ Safe \subseteq Safe'
  BY <1>1, SameRows
<1>3. boot = "up"
  BY <1>1 DEF SendingInv, NoJob
<1>4. RowsInv'
  BY <1>1 DEF RowsInv
<1>5. JobInv'
  BY <1>1 DEF JobInv, JobStage, Made
<1>6. TickInv' /\ SendingInv' /\ UpgradeInv'
  BY <1>1, <1>2, <1>3 DEF TickInv, NextDoomed, SendingInv, Made, NoJob, UpgradeInv
<1>7. PastInv' /\ OnePerDate'
  BY <1>1, SamePast DEF RowsInv
<1>8. FirstOfDate'
  BY <1>1 DEF FirstOfDate
<1>9. KeptInv'
  BY <1>1, <1>2, KeptStep DEF RowsInv
<1>10. FilesAccountedFor'
  BY <1>1, <1>2 DEF FilesAccountedFor
<1>11. QED
  BY <1>4, <1>5, <1>6, <1>7, <1>8, <1>9, <1>10

\* Nor could the container be removed: the row says so.
LEMMA RemovalFailsPreserves == BackupsInv /\ RemovalFails => BackupsInv'
<1> SUFFICES ASSUME BackupsInv, RemovalFails PROVE BackupsInv'
  OBVIOUS
<1> USE DEF BackupsInv, HistoryInv
<1>1. /\ job.at = "failing" /\ stuck' = stuck \cup {job.id}
      /\ job' = [at |-> "cleaning", kind |-> job.kind, id |-> job.id]
      /\ UNCHANGED <<now, boot, records, files, temps, tick, sending, release, schema, upgrades,
                     past, strays, totals>>
  BY DEF RemovalFails, install, JobInv
<1>2. DOMAIN ValidScheduled' = DOMAIN ValidScheduled /\ Safe \subseteq Safe'
  BY <1>1, SameRows
<1>3. boot = "up" /\ records[job.id].validation = "failed"
  BY <1>1 DEF SendingInv, NoJob, JobInv, Made
<1>4. RowsInv'
  BY <1>1 DEF RowsInv
<1>5. JobInv'
  BY <1>1, <1>3 DEF JobInv, JobStage, Made
<1>6. TickInv' /\ SendingInv' /\ UpgradeInv'
  BY <1>1, <1>2, <1>3 DEF TickInv, NextDoomed, SendingInv, Made, NoJob, UpgradeInv
<1>7. PastInv' /\ OnePerDate'
  BY <1>1, SamePast DEF RowsInv
<1>8. FirstOfDate'
  BY <1>1 DEF FirstOfDate
<1>9. KeptInv'
  BY <1>1, <1>2, KeptStep DEF RowsInv
<1>10. FilesAccountedFor'
  BY <1>1, <1>2 DEF FilesAccountedFor
<1>11. QED
  BY <1>4, <1>5, <1>6, <1>7, <1>8, <1>9, <1>10

\* The backup ends without its row, or with its files: so does the tick that asked
\* for it.
LEMMA EndedJobPreserves ==
    BackupsInv /\ (BackupRefused \/ CleanUpFails) => BackupsInv'
<1> SUFFICES ASSUME BackupsInv, BackupRefused \/ CleanUpFails PROVE BackupsInv'
  OBVIOUS
<1> USE DEF BackupsInv, HistoryInv
<1>1. /\ job.at \in {"locked", "cleaning"} /\ job' = NoJob /\ tick' = EndedTick
      /\ stuck \subseteq stuck' /\ (job.at = "cleaning" => job.id \in stuck')
      /\ totals' \in [manual : Nat, made : Nat, faults : Nat] /\ totals'.made = totals.made
      /\ UNCHANGED <<now, boot, records, files, temps, sending, release, schema, upgrades,
                     past, strays>>
  BY DEF BackupRefused, CleanUpFails, Fault, install, RowsInv
<1>2. boot = "up" /\ job.kind \in {"scheduled", "manual"} /\ (job.at = "locked" => job.id = 0)
  BY <1>1 DEF SendingInv, NoJob, JobInv
<1>3. /\ job.kind = "manual" => tick' = tick /\ tick.at # "backing"
      /\ job.kind = "scheduled" => tick' = IdleTick /\ tick.doomed = {}
  BY <1>1, <1>2 DEF EndedTick, TickInv
<1>4. DOMAIN ValidScheduled' = DOMAIN ValidScheduled
  BY <1>1, SameRows
<1>5. Safe \subseteq Safe'
  BY <1>1, <1>2, <1>3, SameRows DEF IdleTick
<1>6. RowsInv' /\ UpgradeInv'
  BY <1>1 DEF RowsInv, UpgradeInv
<1>7. JobInv' /\ SendingInv'
  BY <1>1, <1>2 DEF JobInv, JobStage, Made, NoJob, SendingInv
<1>8. TickInv'
  <2>1. CASE job.kind = "manual"
    BY <1>1, <1>3, <1>4, <2>1 DEF TickInv, NextDoomed, NoJob
  <2>2. CASE job.kind = "scheduled"
    BY <1>1, <1>3, <2>2 DEF TickInv, NoJob, IdleTick
  <2>3. QED
    BY <1>2, <2>1, <2>2
<1>9. PastInv' /\ OnePerDate'
  BY <1>1, SamePast DEF RowsInv
<1>10. FirstOfDate'
  BY <1>1 DEF FirstOfDate, NoJob
<1>11. KeptInv'
  BY <1>1, <1>5, KeptStep DEF RowsInv
<1>12. FilesAccountedFor'
  <2>1. \A c \in files \cup temps : c # 0
    BY DEF RowsInv
  <2>2. QED
    BY <1>1, <1>2, <1>4, <2>1 DEF FilesAccountedFor
<1>13. QED
  BY <1>6, <1>7, <1>8, <1>9, <1>10, <1>11, <1>12

LEMMA RemoveFailedPreserves == BackupsInv /\ RemoveFailed => BackupsInv'
<1> SUFFICES ASSUME BackupsInv, RemoveFailed PROVE BackupsInv'
  OBVIOUS
<1> USE DEF BackupsInv, HistoryInv
<1>1. /\ job.at = "failing" /\ files' = files \ {job.id}
      /\ job' = [at |-> "cleaning", kind |-> job.kind, id |-> job.id]
      /\ UNCHANGED <<now, boot, records, temps, tick, sending, release, schema, upgrades,
                     past, strays, stuck, totals>>
  BY DEF RemoveFailed, install, JobInv
<1>2. /\ job.kind \in {"scheduled", "manual"} /\ boot = "up"
      /\ job.id = totals.made /\ job.id \in DOMAIN records
      /\ records[job.id].validation = "failed"
  BY <1>1 DEF JobInv, SendingInv, NoJob, Made
<1>3. DOMAIN ValidScheduled' = DOMAIN ValidScheduled /\ job.id \notin DOMAIN ValidScheduled
  BY <1>1, <1>2, SameRows, ValidFacts DEF ValidRow
<1>4. Safe \subseteq Safe'
  BY <1>1, <1>3 DEF Safe
<1>5. RowsInv'
  BY <1>1 DEF RowsInv
<1>6. JobInv'
  BY <1>1, <1>2 DEF JobInv, JobStage, Made
<1>7. TickInv' /\ SendingInv' /\ UpgradeInv'
  BY <1>1, <1>2, <1>3 DEF TickInv, NextDoomed, SendingInv, Made, NoJob, UpgradeInv
<1>8. PastInv' /\ OnePerDate'
  BY <1>1, SamePast DEF RowsInv
<1>9. FirstOfDate'
  BY <1>1 DEF FirstOfDate
<1>10. KeptInv'
  BY <1>1, <1>4, KeptStep DEF RowsInv
<1>11. FilesAccountedFor'
  BY <1>1, <1>3 DEF FilesAccountedFor
<1>12. QED
  BY <1>5, <1>6, <1>7, <1>8, <1>9, <1>10, <1>11

LEMMA CleanUpPreserves == BackupsInv /\ CleanUp => BackupsInv'
<1> SUFFICES ASSUME BackupsInv, CleanUp PROVE BackupsInv'
  OBVIOUS
<1> USE DEF BackupsInv, HistoryInv
<1>1. PICK b : b = job.id
  OBVIOUS
<1>2. PICK valid \in BOOLEAN : valid <=> records[b].validation = "valid"
  OBVIOUS
<1>3. /\ job.at = "cleaning" /\ job' = NoJob /\ temps' = temps \ {b}
      /\ tick' = IF job.kind = "scheduled" /\ valid THEN [tick EXCEPT !.at = "selecting"]
                 ELSE EndedTick
      /\ sending' = IF job.kind = "manual" /\ valid THEN sending \cup {b} ELSE sending
      /\ UNCHANGED <<now, boot, records, files, release, schema, upgrades, past, strays, stuck, totals>>
  BY <1>1, <1>2 DEF CleanUp, install
<1>4. /\ job.kind \in {"scheduled", "manual"} /\ boot = "up"
      /\ b = totals.made /\ b \in DOMAIN records /\ records[b].kind = job.kind
      /\ (valid => b \in files) /\ (b \in files => valid \/ b \in stuck)
  BY <1>1, <1>2, <1>3 DEF JobInv, SendingInv, NoJob, Made
<1>5. DOMAIN ValidScheduled' = DOMAIN ValidScheduled
  BY <1>3, SameRows
<1>6. /\ job.kind = "manual" => tick' = tick
      /\ job.kind = "scheduled" /\ valid => tick' = [at |-> "selecting", doomed |-> {}]
      /\ job.kind = "scheduled" /\ ~valid => tick' = IdleTick
      /\ job.kind = "scheduled" => tick.at = "backing" /\ tick.doomed = {}
  BY <1>3, <1>4 DEF TickInv, EndedTick
<1>7. tick'.doomed = tick.doomed
  BY <1>4, <1>6 DEF IdleTick
<1>8. Safe \subseteq Safe'
  BY <1>3, <1>7, SameRows
<1>9. RowsInv'
  BY <1>3 DEF RowsInv
<1>10. JobInv'
  BY <1>3 DEF JobInv, JobStage, Made, NoJob
<1>11. TickInv'
  <2>1. CASE job.kind = "manual"
    BY <1>3, <1>5, <1>6, <2>1 DEF TickInv, NextDoomed, NoJob
  <2>2. CASE job.kind = "scheduled"
    BY <1>2, <1>3, <1>6, <2>2 DEF TickInv, NoJob, IdleTick
  <2>3. QED
    BY <1>4, <2>1, <2>2
<1>12. SendingInv' /\ UpgradeInv'
  BY <1>3, <1>4 DEF SendingInv, Made, NoJob, UpgradeInv
<1>13. PastInv' /\ OnePerDate'
  BY <1>3, SamePast DEF RowsInv
<1>14. FirstOfDate'
  BY <1>3 DEF FirstOfDate, NoJob
<1>15. KeptInv'
  BY <1>3, <1>8, KeptStep DEF RowsInv
<1>16. FilesAccountedFor'
  <2>1. valid /\ job.kind = "scheduled" => b \in DOMAIN ValidScheduled
    BY <1>2, <1>4, ValidFacts DEF ValidRow, RowsInv
  <2>2. valid /\ job.kind = "manual" => b \in sending'
    BY <1>3
  <2>3. sending \subseteq sending'
    BY <1>3
  <2>4. \A c \in files' \ strays' :
            /\ c \in DOMAIN records' /\ records'[c].stored
            /\ c \in DOMAIN ValidScheduled' \cup sending' \cup stuck'
    BY <1>1, <1>3, <1>4, <1>5, <2>1, <2>2, <2>3 DEF FilesAccountedFor
  <2>5. QED
    BY <1>1, <1>3, <2>4 DEF FilesAccountedFor
<1>17. QED
  BY <1>9, <1>10, <1>11, <1>12, <1>13, <1>14, <1>15, <1>16

-----------------------------------------------------------------------------
(* Retention, and the manual backups that are sent.                            *)
LEMMA SelectDoomedPreserves == BackupsInv /\ SelectDoomed => BackupsInv'
<1> SUFFICES ASSUME BackupsInv, SelectDoomed PROVE BackupsInv'
  OBVIOUS
<1> USE DEF BackupsInv, HistoryInv
<1>1. /\ tick.at = "selecting" /\ tick.doomed = {}
      /\ tick' = [at |-> "pruning", doomed |-> DOMAIN ValidScheduled \ Retained(ValidScheduled)]
      /\ UNCHANGED <<now, boot, records, files, temps, job, sending, release, schema, upgrades,
                     past, strays, stuck, totals>>
  BY DEF SelectDoomed, install, TickInv
<1>2. DOMAIN ValidScheduled' = DOMAIN ValidScheduled
  BY <1>1, SameRows
<1>3. boot = "up" /\ job.kind # "scheduled"
  BY <1>1 DEF SendingInv, TickInv, IdleTick
<1>4. RowsInv' /\ JobInv' /\ UpgradeInv' /\ SendingInv'
  BY <1>1, <1>3 DEF RowsInv, JobInv, UpgradeInv, SendingInv, Made, NoJob
<1>5. TickInv'
  <2>1. DOMAIN ValidScheduled \subseteq Nat
    BY ValidFacts DEF RowsInv
  <2>2. QED
    BY <1>1, <1>2, <1>3, <2>1 DEF TickInv
<1>6. PastInv' /\ OnePerDate'
  BY <1>1, SamePast DEF RowsInv
<1>7. FirstOfDate'
  BY <1>1 DEF FirstOfDate
<1>8. KeptInv'
  <2>1. SUFFICES ASSUME NEW t \in Nat, now <= t, NEW b \in RetainedAt(past, t)
                 PROVE  b \in Safe'
    BY <1>1 DEF KeptInv
  <2>2. b \in DOMAIN ValidScheduled /\ b \in files
    BY <2>1 DEF KeptInv, Safe
  <2>3. PICK S \in SUBSET DOMAIN past : S = DOMAIN ValidScheduled
    BY DEF PastInv
  <2>4. b \in RetainedAt([c \in S |-> past[c]], now)
    BY <2>1, <2>2, <2>3, PastFacts, RetentionIsPatient DEF RowsInv
  <2>5. [c \in S |-> past[c]] = ValidScheduled
    BY <2>3, ValidFacts DEF PastInv, ValidScheduled
  <2>6. b \in Retained(ValidScheduled)
    BY <2>4, <2>5, RetainedNow
  <2>7. QED
    BY <1>1, <1>2, <2>2, <2>6 DEF Safe
<1>9. FilesAccountedFor'
  BY <1>1, <1>2 DEF FilesAccountedFor
<1>10. QED
  BY <1>4, <1>5, <1>6, <1>7, <1>8, <1>9

LEMMA RemoveDoomedPreserves == BackupsInv /\ RemoveDoomed => BackupsInv'
<1> SUFFICES ASSUME BackupsInv, RemoveDoomed PROVE BackupsInv'
  OBVIOUS
<1> USE DEF BackupsInv, HistoryInv
<1>1. PICK b : b = NextDoomed
  OBVIOUS
<1>2. /\ tick.at = "pruning" /\ tick.doomed # {} /\ files' = files \ {b}
      /\ tick' = [at |-> "removed", doomed |-> tick.doomed]
      /\ UNCHANGED <<now, boot, records, temps, job, sending, release, schema, upgrades,
                     past, strays, stuck, totals>>
  BY <1>1 DEF RemoveDoomed, install, TickInv
<1>3. b \in tick.doomed /\ b \in DOMAIN ValidScheduled
  BY <1>1, <1>2, NextDoomedIsDoomed DEF TickInv
<1>4. DOMAIN ValidScheduled' = DOMAIN ValidScheduled
  BY <1>2, SameRows
<1>5. boot = "up" /\ job.kind # "scheduled"
  BY <1>2 DEF SendingInv, TickInv, IdleTick
<1>6. NextDoomed' = NextDoomed
  BY <1>2 DEF NextDoomed
<1>7. job.at \in Made => job.id # b
  BY <1>3, <1>5, ValidFacts DEF JobInv, ValidRow
<1>8. RowsInv' /\ UpgradeInv' /\ SendingInv'
  BY <1>2, <1>5 DEF RowsInv, UpgradeInv, SendingInv, Made, NoJob
<1>9. JobInv'
  BY <1>2, <1>7 DEF JobInv, Made
<1>10. TickInv'
  BY <1>1, <1>2, <1>4, <1>5, <1>6 DEF TickInv
<1>11. PastInv' /\ OnePerDate'
  BY <1>2, SamePast DEF RowsInv
<1>12. FirstOfDate'
  BY <1>2 DEF FirstOfDate
<1>13. Safe \subseteq Safe'
  BY <1>2, <1>3, <1>4 DEF Safe
<1>14. KeptInv'
  BY <1>2, <1>13, KeptStep DEF RowsInv
<1>15. FilesAccountedFor'
  BY <1>2, <1>4 DEF FilesAccountedFor
<1>16. QED
  BY <1>8, <1>9, <1>10, <1>11, <1>12, <1>14, <1>15

LEMMA DeleteRecordPreserves == BackupsInv /\ DeleteRecord => BackupsInv'
<1> SUFFICES ASSUME BackupsInv, DeleteRecord PROVE BackupsInv'
  OBVIOUS
<1> USE DEF BackupsInv, HistoryInv
<1>1. PICK b : b = NextDoomed
  OBVIOUS
<1>2. /\ tick.at = "removed"
      /\ records' = [c \in DOMAIN records \ {b} |-> records[c]]
      /\ tick' = [at |-> "pruning", doomed |-> tick.doomed \ {b}]
      /\ UNCHANGED <<now, boot, files, temps, job, sending, release, schema, upgrades,
                     past, strays, stuck, totals>>
  BY <1>1 DEF DeleteRecord, install
<1>3. b \in tick.doomed /\ b \in DOMAIN ValidScheduled /\ b \notin files
  BY <1>1, <1>2, NextDoomedIsDoomed DEF TickInv
<1>4. /\ b \in DOMAIN records /\ records[b].kind = "scheduled"
      /\ records[b].validation = "valid"
  BY <1>3, ValidFacts DEF ValidRow
<1>5. /\ DOMAIN records' = DOMAIN records \ {b}
      /\ \A c \in DOMAIN records' : records'[c] = records[c]
  BY <1>2
<1>6. DOMAIN ValidScheduled' = DOMAIN ValidScheduled \ {b}
  BY <1>5, ValidFacts, ValidFactsNext DEF ValidRow
<1>7. boot = "up" /\ job.kind # "scheduled"
  BY <1>2 DEF SendingInv, TickInv, IdleTick
<1>8. job.at \in Made => job.id # b
  BY <1>4, <1>7 DEF JobInv
<1>9. RowsInv' /\ UpgradeInv'
  BY <1>2, <1>5, <1>7 DEF RowsInv, UpgradeInv
<1>10. SendingInv'
  BY <1>2, <1>4, <1>5, <1>7 DEF SendingInv
<1>11. JobInv'
  BY <1>2, <1>5, <1>8 DEF JobInv, Made
<1>12. TickInv'
  BY <1>2, <1>6, <1>7 DEF TickInv
<1>13. PastInv' /\ OnePerDate'
  <2>1. \A c \in DOMAIN ValidScheduled' : c \in DOMAIN ValidScheduled /\ records'[c] = records[c]
    BY <1>5, <1>6, ValidFacts
  <2>2. \A c \in DOMAIN ValidScheduled' : c \in DOMAIN past' /\ past'[c] = records'[c].created
    BY <1>2, <2>1 DEF PastInv
  <2>3. PastInv'
    BY <1>2, <2>2 DEF PastInv
  <2>4. OnePerDate'
    BY <1>2 DEF OnePerDate
  <2>5. QED
    BY <2>3, <2>4
<1>14. FirstOfDate'
  BY <1>2 DEF FirstOfDate
<1>15. Safe \subseteq Safe'
  BY <1>2, <1>3, <1>6 DEF Safe
<1>16. KeptInv'
  BY <1>2, <1>15, KeptStep DEF RowsInv
<1>17. FilesAccountedFor'
  BY <1>2, <1>3, <1>6 DEF FilesAccountedFor
<1>18. QED
  BY <1>9, <1>10, <1>11, <1>12, <1>13, <1>14, <1>16, <1>17

\* Retention has removed all it would, or gives up for this time.
LEMMA TickEndsPreserves == BackupsInv /\ (TickEnds \/ RetentionFails) => BackupsInv'
<1> SUFFICES ASSUME BackupsInv, TickEnds \/ RetentionFails PROVE BackupsInv'
  OBVIOUS
<1> USE DEF BackupsInv, HistoryInv
<1>1. /\ tick.at \in {"pruning", "removed"} /\ tick' = IdleTick
      /\ totals' \in [manual : Nat, made : Nat, faults : Nat] /\ totals'.made = totals.made
      /\ UNCHANGED <<now, boot, records, files, temps, job, sending, release, schema, upgrades,
                     past, strays, stuck>>
  BY DEF TickEnds, RetentionFails, Fault, install, RowsInv
<1>2. DOMAIN ValidScheduled' = DOMAIN ValidScheduled /\ Safe \subseteq Safe'
  BY <1>1, SameRows DEF Safe, IdleTick
<1>3. boot = "up" /\ job.kind # "scheduled"
  BY <1>1 DEF SendingInv, TickInv, IdleTick
<1>4. RowsInv' /\ JobInv' /\ UpgradeInv' /\ SendingInv'
  BY <1>1, <1>3 DEF RowsInv, JobInv, UpgradeInv, SendingInv, Made, NoJob
<1>5. TickInv'
  BY <1>1, <1>3 DEF TickInv, IdleTick
<1>6. PastInv' /\ OnePerDate'
  BY <1>1, SamePast DEF RowsInv
<1>7. FirstOfDate'
  BY <1>1 DEF FirstOfDate
<1>8. KeptInv'
  BY <1>1, <1>2, KeptStep DEF RowsInv
<1>9. FilesAccountedFor'
  BY <1>1, <1>2 DEF FilesAccountedFor
<1>10. QED
  BY <1>4, <1>5, <1>6, <1>7, <1>8, <1>9

LEMMA SendsPreserves == ASSUME BackupsInv, NEW b \in sending, Sends(b) PROVE BackupsInv'
<1> USE DEF BackupsInv, HistoryInv
<1>1. b \in DOMAIN records /\ records[b].kind = "manual" /\ boot = "up"
  BY DEF SendingInv
<1>2. b \notin DOMAIN ValidScheduled
  BY <1>1, ValidFacts DEF ValidRow
<1>3. ASSUME RemoveSent(b) PROVE BackupsInv'
  <2>1. /\ files' = files \ {b}
        /\ UNCHANGED <<now, boot, records, temps, job, tick, sending, release, schema, upgrades,
                       past, strays, stuck, totals>>
    BY <1>3 DEF RemoveSent, install
  <2>2. DOMAIN ValidScheduled' = DOMAIN ValidScheduled
    BY <2>1, SameRows
  <2>3. job.at \in Made => job.id # b
    BY DEF SendingInv
  <2>4. RowsInv' /\ SendingInv' /\ UpgradeInv'
    BY <2>1 DEF RowsInv, SendingInv, Made, NoJob, UpgradeInv
  <2>5. JobInv'
    BY <2>1, <2>3 DEF JobInv, Made
  <2>6. TickInv'
    BY <2>1, <2>2 DEF TickInv, NextDoomed
  <2>7. PastInv' /\ OnePerDate'
    BY <2>1, SamePast DEF RowsInv
  <2>8. FirstOfDate'
    BY <2>1 DEF FirstOfDate
  <2>9. KeptInv'
    <3>1. Safe \subseteq Safe'
      BY <1>2, <2>1, <2>2 DEF Safe
    <3>2. QED
      BY <2>1, <3>1, KeptStep DEF RowsInv
  <2>10. FilesAccountedFor'
    BY <2>1, <2>2 DEF FilesAccountedFor
  <2>11. QED
    BY <2>4, <2>5, <2>6, <2>7, <2>8, <2>9, <2>10
<1>4. ASSUME ForgetSent(b) PROVE BackupsInv'
  <2>1. /\ b \notin files /\ records' = [records EXCEPT ![b].stored = FALSE]
        /\ sending' = sending \ {b}
        /\ UNCHANGED <<now, boot, files, temps, job, tick, release, schema, upgrades,
                       past, strays, stuck, totals>>
    BY <1>4 DEF ForgetSent, install
  <2>2. /\ DOMAIN records' = DOMAIN records
        /\ records'[b] = [records[b] EXCEPT !.stored = FALSE]
        /\ \A c \in DOMAIN records : c # b => records'[c] = records[c]
    BY <1>1, <2>1
  <2>3. /\ records'[b] \in BackupRow /\ records'[b].kind = "manual"
        /\ records'[b].validation = records[b].validation
    <3>1. records[b] \in BackupRow
      BY <1>1 DEF RowsInv
    <3>2. records'[b] = [kind |-> records[b].kind, created |-> records[b].created,
                         validation |-> records[b].validation, stored |-> FALSE]
      BY <2>2, <3>1 DEF BackupRow
    <3>3. QED
      BY <1>1, <3>1, <3>2 DEF BackupRow
  <2>4. DOMAIN ValidScheduled' = DOMAIN ValidScheduled
    BY <1>1, <2>2, <2>3, ValidFacts, ValidFactsNext DEF ValidRow
  <2>5. RowsInv'
    BY <2>1, <2>2, <2>3 DEF RowsInv
  <2>6. JobInv'
    <3>1. job.at \in Made => job.id # b /\ job.id \in DOMAIN records
      BY DEF SendingInv, JobInv
    <3>2. job.at \in Made => records'[job.id] = records[job.id]
      BY <2>2, <3>1
    <3>3. job.at = "cleaning" => job.at \in Made
      BY DEF Made
    <3>4. QED
      BY <2>1, <2>2, <3>1, <3>2, <3>3 DEF JobInv
  <2>7. TickInv'
    BY <2>1, <2>4 DEF TickInv, NextDoomed
  <2>8. SendingInv' /\ UpgradeInv'
    BY <1>1, <2>1, <2>2 DEF SendingInv, Made, NoJob, UpgradeInv
  <2>9. PastInv' /\ OnePerDate'
    <3>1. \A c \in DOMAIN ValidScheduled : c \in DOMAIN records /\ records'[c] = records[c]
      BY <1>2, <2>2, ValidFacts
    <3>2. QED
      BY <2>1, <2>4, <3>1 DEF PastInv, OnePerDate
  <2>10. FirstOfDate'
    BY <2>1 DEF FirstOfDate
  <2>11. KeptInv'
    <3>1. Safe' = Safe
      BY <2>1, <2>4 DEF Safe
    <3>2. QED
      BY <2>1, <3>1, KeptStep DEF RowsInv
  <2>12. FilesAccountedFor'
    BY <2>1, <2>4 DEF FilesAccountedFor
  <2>13. QED
    BY <2>5, <2>6, <2>7, <2>8, <2>9, <2>10, <2>11, <2>12
<1>5. QED
  BY <1>3, <1>4 DEF Sends

\* A manual container that is not sent keeps its row, which names it.
LEMMA SendingFailsPreserves ==
    ASSUME BackupsInv, NEW b \in sending, SendingFails(b) PROVE BackupsInv'
<1> USE DEF BackupsInv, HistoryInv
<1>1. /\ sending' = sending \ {b} /\ stuck' = stuck \cup {b}
      /\ totals' \in [manual : Nat, made : Nat, faults : Nat] /\ totals'.made = totals.made
      /\ UNCHANGED <<now, boot, records, files, temps, job, tick, release, schema, upgrades,
                     past, strays>>
  BY DEF SendingFails, Fault, install, RowsInv
<1>2. DOMAIN ValidScheduled' = DOMAIN ValidScheduled /\ Safe \subseteq Safe'
  BY <1>1, SameRows
<1>3. RowsInv'
  BY <1>1 DEF RowsInv
<1>4. JobInv'
  BY <1>1 DEF JobInv, Made
<1>5. TickInv'
  BY <1>1, <1>2 DEF TickInv, NextDoomed
<1>6. SendingInv' /\ UpgradeInv'
  BY <1>1 DEF SendingInv, Made, NoJob, UpgradeInv
<1>7. PastInv' /\ OnePerDate'
  BY <1>1, SamePast DEF RowsInv
<1>8. FirstOfDate'
  BY <1>1 DEF FirstOfDate
<1>9. KeptInv'
  BY <1>1, <1>2, KeptStep DEF RowsInv
<1>10. FilesAccountedFor'
  BY <1>1, <1>2 DEF FilesAccountedFor
<1>11. QED
  BY <1>3, <1>4, <1>5, <1>6, <1>7, <1>8, <1>9, <1>10

-----------------------------------------------------------------------------
(* Crashes, restores and upgrades.                                             *)
LEMMA HaltPreserves == BackupsInv /\ Halt => BackupsInv'
<1> SUFFICES ASSUME BackupsInv, Halt PROVE BackupsInv'
  OBVIOUS
<1> USE DEF BackupsInv, HistoryInv
<1>1. /\ boot' = "down" /\ job' = NoJob /\ tick' = IdleTick /\ sending' = {}
      /\ strays' = strays \cup ((sending \cup {job.id}) \cap (files \cup temps))
      /\ totals' \in [manual : Nat, made : Nat, faults : Nat] /\ totals'.made = totals.made
      /\ UNCHANGED <<now, records, files, temps, release, schema, upgrades, past, stuck>>
  BY DEF Halt, Fault, install, RowsInv
<1>2. DOMAIN ValidScheduled' = DOMAIN ValidScheduled
  BY <1>1, SameRows
<1>3. Safe \subseteq Safe'
  BY <1>1, <1>2 DEF Safe, IdleTick
<1>4. RowsInv' /\ SendingInv' /\ UpgradeInv'
  BY <1>1 DEF RowsInv, SendingInv, UpgradeInv, Made, NoJob
<1>5. JobInv' /\ TickInv'
  BY <1>1 DEF JobInv, JobStage, Made, NoJob, TickInv, IdleTick
<1>6. PastInv' /\ OnePerDate'
  BY <1>1, SamePast DEF RowsInv
<1>7. FirstOfDate'
  BY <1>1 DEF FirstOfDate, NoJob
<1>8. KeptInv'
  BY <1>1, <1>3, KeptStep DEF RowsInv
<1>9. FilesAccountedFor'
  <2>1. \A b \in files \ strays :
            /\ b \in DOMAIN records /\ records[b].stored
            /\ b \in DOMAIN ValidScheduled \/ b \in sending \cup {job.id} \/ b \in stuck
    BY DEF FilesAccountedFor
  <2>2. \A b \in files' \ strays' :
            /\ b \in DOMAIN records' /\ records'[b].stored
            /\ b \in DOMAIN ValidScheduled' \/ b \in stuck'
    BY <1>1, <1>2, <2>1
  <2>3. temps' \subseteq strays' \cup stuck'
    BY <1>1 DEF FilesAccountedFor
  <2>4. QED
    BY <2>2, <2>3 DEF FilesAccountedFor
<1>10. QED
  BY <1>4, <1>5, <1>6, <1>7, <1>8, <1>9

LEMMA HistoryScrubbedPreserves == BackupsInv /\ HistoryScrubbed => BackupsInv'
<1> SUFFICES ASSUME BackupsInv, HistoryScrubbed PROVE BackupsInv'
  OBVIOUS
<1> USE DEF BackupsInv, HistoryInv
<1>1. /\ boot = "down" /\ records' = <<>> /\ past' = <<>> /\ strays' = strays \cup files
      /\ UNCHANGED <<now, boot, files, temps, job, tick, sending, release, schema, upgrades, stuck,
                     totals>>
  BY DEF HistoryScrubbed, install
<1>2. job = NoJob /\ tick = IdleTick /\ sending = {}
  BY <1>1 DEF SendingInv
<1>3. DOMAIN records' = {} /\ DOMAIN past' = {} /\ DOMAIN ValidScheduled' = {}
  BY <1>1, ValidFactsNext
<1>4. RowsInv' /\ SendingInv' /\ UpgradeInv'
  BY <1>1, <1>2, <1>3 DEF RowsInv, SendingInv, UpgradeInv, Made, NoJob
<1>5. JobInv' /\ TickInv'
  BY <1>1, <1>2 DEF JobInv, JobStage, Made, NoJob, TickInv, IdleTick
<1>6. PastInv' /\ OnePerDate' /\ FirstOfDate'
  BY <1>1, <1>2, <1>3 DEF PastInv, OnePerDate, FirstOfDate, NoJob
<1>7. \A t : RetainedAt(past', t) = {}
  BY <1>3 DEF RetainedAt, DailyAt, WeeklyAt, MonthlyOf, NewestPer, YoungAt, OldAt
<1>8. KeptInv'
  BY <1>7 DEF KeptInv
<1>9. FilesAccountedFor'
  BY <1>1 DEF FilesAccountedFor
<1>10. QED
  BY <1>4, <1>5, <1>6, <1>8, <1>9

\* The steps of a server start that write no row.
LEMMA StartingPreserves ==
    BackupsInv /\ (Upgrade \/ Start \/ SaveBeforeMigration \/ MigrateSchema) => BackupsInv'
<1> SUFFICES ASSUME BackupsInv, Upgrade \/ Start \/ SaveBeforeMigration \/ MigrateSchema
             PROVE  BackupsInv'
  OBVIOUS
<1> USE DEF BackupsInv, HistoryInv
<1>1. /\ UNCHANGED <<now, records, files, temps, job, tick, sending, past, strays, stuck, totals>>
      /\ boot # "up"
  BY DEF Upgrade, Start, SaveBeforeMigration, MigrateSchema, service
<1>2. UpgradeInv'
  BY DEF Upgrade, Start, SaveBeforeMigration, MigrateSchema, UpgradeInv, install
<1>3. DOMAIN ValidScheduled' = DOMAIN ValidScheduled /\ Safe \subseteq Safe'
  BY <1>1, SameRows
<1>4. job = NoJob /\ tick = IdleTick /\ sending = {}
  BY <1>1 DEF SendingInv
<1>5. RowsInv' /\ SendingInv' /\ JobInv'
  BY <1>1, <1>4 DEF RowsInv, SendingInv, Made, NoJob, JobInv, JobStage
<1>6. TickInv'
  BY <1>1, <1>3 DEF TickInv, NextDoomed
<1>7. PastInv' /\ OnePerDate'
  BY <1>1, SamePast DEF RowsInv
<1>8. FirstOfDate'
  BY <1>1 DEF FirstOfDate
<1>9. KeptInv'
  BY <1>1, <1>3, KeptStep DEF RowsInv
<1>10. FilesAccountedFor'
  BY <1>1, <1>3 DEF FilesAccountedFor
<1>11. QED
  BY <1>2, <1>5, <1>6, <1>7, <1>8, <1>9, <1>10

LEMMA RecordUpgradePreserves == BackupsInv /\ RecordUpgrade => BackupsInv'
<1> SUFFICES ASSUME BackupsInv, RecordUpgrade PROVE BackupsInv'
  OBVIOUS
<1> USE DEF BackupsInv, HistoryInv
<1>1. PICK b \in Nat : b = totals.made + 1
  BY DEF RowsInv
<1>2. PICK row : row = [NewRow("pre_upgrade") EXCEPT !.validation = "valid"]
  OBVIOUS
<1>3. row = [kind |-> "pre_upgrade", created |-> 0, validation |-> "valid", stored |-> TRUE]
  BY <1>2 DEF NewRow
<1>4. /\ boot = "migrated" /\ boot' = "up"
      /\ records' = [c \in DOMAIN records \cup {b} |-> IF c = b THEN row ELSE records[c]]
      /\ totals' \in [manual : Nat, made : Nat, faults : Nat] /\ totals'.made = b
      /\ UNCHANGED <<now, files, temps, job, tick, sending, release, schema, upgrades, past, strays,
                     stuck>>
  BY <1>1, <1>2 DEF RecordUpgrade, install, RowsInv
<1>5. job = NoJob /\ tick = IdleTick /\ sending = {}
  BY <1>4 DEF SendingInv
<1>6. /\ DOMAIN records' = DOMAIN records \cup {b} /\ records'[b] = row
      /\ \A c \in DOMAIN records : c # b /\ records'[c] = records[c]
      /\ b \notin DOMAIN records /\ row \in BackupRow
  BY <1>1, <1>3, <1>4 DEF RowsInv, BackupRow
<1>7. DOMAIN ValidScheduled' = DOMAIN ValidScheduled
  BY <1>3, <1>6, ValidFacts, ValidFactsNext DEF ValidRow
<1>8. Safe' = Safe
  BY <1>4, <1>7 DEF Safe
<1>9. 1..totals.made \subseteq 1..b /\ b \in 1..b
  BY <1>1 DEF RowsInv
<1>10. RowsInv'
  BY <1>3, <1>4, <1>6, <1>9 DEF RowsInv
<1>11. JobInv' /\ TickInv'
  BY <1>4, <1>5 DEF JobInv, JobStage, Made, NoJob, TickInv, IdleTick
<1>12. SendingInv' /\ UpgradeInv'
  BY <1>4, <1>5 DEF SendingInv, Made, NoJob, UpgradeInv
<1>13. PastInv'
  <2>1. \A c \in DOMAIN ValidScheduled : c \in DOMAIN records /\ records'[c] = records[c]
    BY <1>6, ValidFacts
  <2>2. QED
    BY <1>4, <1>7, <1>9, <2>1 DEF PastInv
<1>14. OnePerDate' /\ FirstOfDate'
  BY <1>4, <1>5 DEF OnePerDate, FirstOfDate, NoJob
<1>15. KeptInv'
  BY <1>4, <1>8, KeptStep DEF RowsInv
<1>16. FilesAccountedFor'
  BY <1>4, <1>6, <1>7 DEF FilesAccountedFor
<1>17. QED
  BY <1>10, <1>11, <1>12, <1>13, <1>14, <1>15, <1>16

LEMMA BackupsStutter == BackupsInv /\ UNCHANGED backupsVars => BackupsInv'
<1> SUFFICES ASSUME BackupsInv, UNCHANGED backupsVars PROVE BackupsInv'
  OBVIOUS
<1> USE DEF BackupsInv, HistoryInv
<1>1. UNCHANGED <<now, boot, records, files, temps, job, tick, sending, release, schema, upgrades,
                  past, strays, stuck, totals>>
  BY DEF backupsVars, service, install
<1>2. DOMAIN ValidScheduled' = DOMAIN ValidScheduled /\ Safe \subseteq Safe'
  BY <1>1, SameRows
<1>3. RowsInv' /\ SendingInv' /\ JobInv' /\ UpgradeInv'
  BY <1>1 DEF RowsInv, SendingInv, JobInv, UpgradeInv
<1>4. TickInv'
  BY <1>1, <1>2 DEF TickInv, NextDoomed
<1>5. PastInv' /\ OnePerDate' /\ FirstOfDate'
  BY <1>1, SamePast DEF RowsInv, FirstOfDate
<1>6. KeptInv'
  BY <1>1, <1>2, KeptStep DEF RowsInv
<1>7. FilesAccountedFor'
  BY <1>1, <1>2 DEF FilesAccountedFor
<1>8. QED
  BY <1>3, <1>4, <1>5, <1>6, <1>7

-----------------------------------------------------------------------------
(* The theorems.                                                               *)
\* Rows, container files, the running backup, the scheduler's retention and the history
\* of scheduled backups agree in every reachable state (backup-service.ts,
\* backup-scheduler.ts, SecurityService.create).
THEOREM BackupsInvariant == BackupsSpec => []BackupsInv
<1>1. BackupsInv /\ [BackupsNext]_backupsVars => BackupsInv'
  <2> SUFFICES ASSUME BackupsInv, [BackupsNext]_backupsVars PROVE BackupsInv'
    OBVIOUS
  <2>1. ASSUME TimePasses \/ Tick \/ ManualBackup PROVE BackupsInv'
    BY <2>1, TimePassesPreserves, TickPreserves, ManualBackupPreserves
  <2>2. ASSUME Creates PROVE BackupsInv'
    BY <2>2, InsertRecordPreserves, TakeSnapshotPreserves, WriteContainerPreserves,
       ValidatePreserves, CompletedPreserves, RemoveFailedPreserves, CleanUpPreserves DEF Creates
  <2>3. ASSUME Prunes PROVE BackupsInv'
    BY <2>3, SelectDoomedPreserves, RemoveDoomedPreserves, DeleteRecordPreserves,
       TickEndsPreserves DEF Prunes
  <2>4. ASSUME Boots \/ Upgrade PROVE BackupsInv'
    BY <2>4, StartingPreserves, RecordUpgradePreserves DEF Boots
  <2>5. ASSUME NEW b \in sending, Sends(b) \/ SendingFails(b) PROVE BackupsInv'
    BY <2>5, SendsPreserves, SendingFailsPreserves
  <2>6. ASSUME Halt \/ HistoryScrubbed PROVE BackupsInv'
    BY <2>6, HaltPreserves, HistoryScrubbedPreserves
  <2>7. ASSUME Fails PROVE BackupsInv'
    BY <2>7, MarkedFailurePreserves, UnmarkedFailurePreserves, RemovalFailsPreserves,
       EndedJobPreserves, TickEndsPreserves DEF Fails
  <2>8. QED
    BY <2>1, <2>2, <2>3, <2>4, <2>5, <2>6, <2>7, BackupsStutter DEF BackupsNext
<1>2. QED
  BY <1>1, InvInit, PTL DEF BackupsSpec

\* Retention forgets nothing it would keep, and makes one valid scheduled backup a date
\* (backup-service.ts:270-287 and 414-455, backup-scheduler.ts:40-43).
THEOREM RetentionForgetsNothing == BackupsSpec => []ScheduledBackupsKept
<1>1. BackupsInv => ScheduledBackupsKept
  <2> SUFFICES ASSUME BackupsInv PROVE ScheduledBackupsKept
    OBVIOUS
  <2>1. Retained(past) \subseteq Safe
    BY RetainedNow DEF BackupsInv, HistoryInv, KeptInv, RowsInv
  <2>2. QED
    BY <2>1 DEF ScheduledBackupsKept, Safe, BackupsInv, HistoryInv, OnePerDate
<1>2. QED
  BY <1>1, BackupsInvariant, PTL

\* Every container has a row that names it, and is kept for a reason: it is a valid
\* scheduled backup, is being made, sent or removed, or was left behind by a step that
\* failed; only crashes, shutdowns and restores lose track of others
\* (backup-service.ts:188-231, 254-287, backup-routes.ts:28-31).
THEOREM FilesHaveAReason == BackupsSpec => []FilesAccountedFor
<1>1. BackupsInv => FilesAccountedFor
  BY DEF BackupsInv
<1>2. QED
  BY <1>1, BackupsInvariant, PTL

\* No database is migrated before a container of the schema it leaves is complete
\* (security-service.ts:99-114).
THEOREM UpgradesCanBeUndone == BackupsSpec => WayBack
<1>1. BackupsInv /\ [BackupsNext]_backupsVars
        => [schema' # schema => schema \in upgrades]_backupsVars
  <2> SUFFICES ASSUME BackupsInv, BackupsNext, schema' # schema PROVE schema \in upgrades
    BY DEF backupsVars, install
  <2>1. ASSUME NEW b \in sending, Sends(b) \/ SendingFails(b) PROVE FALSE
    BY <2>1 DEF Sends, RemoveSent, ForgetSent, SendingFails, install
  <2>2. ~Fails
    BY DEF Fails, BackupRefused, BackupFails, RemovalFails, CleanUpFails, RetentionFails, install
  <2>3. MigrateSchema
    BY <2>1, <2>2 DEF BackupsNext, TimePasses, Tick, ManualBackup, Halt, HistoryScrubbed,
       Upgrade, Creates, InsertRecord, TakeSnapshot, WriteContainer, Validate, Completed,
       RemoveFailed, CleanUp, Prunes, SelectDoomed, RemoveDoomed, DeleteRecord, TickEnds, Boots,
       Start, SaveBeforeMigration, RecordUpgrade, install
  <2>4. QED
    BY <2>3 DEF MigrateSchema, BackupsInv, UpgradeInv
<1>2. QED
  BY <1>1, BackupsInvariant, PTL DEF BackupsSpec, WayBack

-----------------------------------------------------------------------------
(* The inductive invariant.                                                    *)
CommandStage == TryStage \cup UndoStage

\* Before the command has read the backup; while it has not moved a database; while
\* nothing was moved aside by its undoing.
Early == {"verify", "finish-key", "finish-files", "finish-journal", "extract"}
Untouched == Early \cup {"guard", "safety", "journal", "displace"}
Forward == TryStage \cup {"undo-aside"}
Staged == {"guard", "safety", "journal", "displace", "install"}
Journaled == {"displace", "install", "key", "migrate", "clean", "commit"}
Restored == {"key", "migrate", "clean", "commit"}
Keyed == {"migrate", "clean", "commit"}
Finishing == {"finish-key", "finish-files", "finish-journal"}

Unused(m) ==
    /\ disk.files[Staging(m)] = NoFile
    /\ disk.files[Rollback(m)] = NoFile
    /\ disk.files[Interrupted(m)] = NoFile

\* Whatever is on the disk was put there by a command so far, and a database that was
\* renamed to make room for another one was backed up before.
FromSoFar(d) == d # NoFile => d.from \in 0..tally.restores

PathsInv ==
    /\ \A p \in Path : FromSoFar(disk.files[p])
    /\ FromSoFar(owned)
    /\ \A m \in Attempt : m \notin 0..tally.restores => Unused(m)
    /\ \A m \in Attempt : disk.files[Staging(m)] # NoFile => disk.files[Staging(m)].from = m
    /\ \A m \in Attempt : disk.files[Rollback(m)] \in backups \cup {NoFile}

\* The journal names the files of one command, and nothing is moved aside twice.
JournalInv ==
    disk.journal # NoJournal =>
        /\ \E m \in Attempt : disk.journal.rollback \in {Rollback(m), NoFile}
        /\ \E m \in Attempt : m \in 0..tally.restores /\ disk.journal.interrupted = Interrupted(m)
        /\ Exists(disk.journal.rollback) /\ Exists(disk.journal.interrupted)
             => LiveFile = NoFile

OwnJournal ==
    /\ disk.journal # NoJournal
    /\ disk.journal.rollback = IF op.existing THEN Rollback(op.n) ELSE NoFile
    /\ disk.journal.interrupted = Interrupted(op.n)

Backup == [from |-> op.n, key |-> op.key]

\* Where a command is, and what it has done so far.
NumberInv ==
    /\ op.at \in CommandStage =>
           /\ op.n = tally.restores /\ op.n \in Attempt /\ op.key \in Key
           /\ owned # NoFile => owned.from # op.n
           /\ Exists(Rollback(op.n)) =>
                  /\ op.existing /\ OwnJournal
                  /\ LiveFile = NoFile \/ LiveFile.from = op.n
    /\ op.at \in Early =>
           disk.files[Staging(op.n)] = NoFile /\ ~op.existing /\ op.previous = NoKey

ForwardInv ==
    /\ op.at \in Forward => disk.files[Interrupted(op.n)] = NoFile
    /\ op.at \in Untouched => disk.files[Rollback(op.n)] = NoFile
    /\ op.at = "guard" => ~op.existing /\ op.previous = NoKey
    /\ op.at \in Staged => disk.files[Staging(op.n)] = Backup
    /\ op.at \in {"safety", "displace"} => op.existing
    /\ op.at = "safety" => LiveFile # NoFile
    /\ op.at \in {"journal", "displace"} /\ op.existing => LiveFile \in backups
    /\ op.at \in {"journal", "install"} /\ ~op.existing => LiveFile = NoFile
    /\ op.at = "install" => LiveFile = NoFile
    /\ op.at \in Journaled => OwnJournal
    /\ op.at \in Restored => LiveFile = Backup
    /\ op.at \in Keyed => disk.key = op.key

BackInv ==
    /\ op.at = "undo-back" => Exists(Rollback(op.n))
    /\ op.at \in Finishing => disk.journal # NoJournal /\ CanOpen(Live, op.key)
    /\ op.at \in {"finish-files", "finish-journal"} => disk.key = op.key
    /\ op.at = "start-back" =>
           disk.journal # NoJournal /\ Exists(disk.journal.rollback) /\ LiveFile = NoFile
    /\ op.at = "start-open" => disk.journal = NoJournal

RestoreInv ==
    TypeOK /\ PathsInv /\ JournalInv /\ NumberInv /\ ForwardInv /\ BackInv
           /\ SafetyBackupFirst

\* What holds of the workspace in service while every fault was one the code
\* recovers from: it is in its place, or moved to where it is put back from.
InPlace == LiveFile = owned /\ disk.key = owned.key
Displaced(p) == Exists(p) /\ disk.files[p] = owned /\ disk.key = owned.key

IdleReach ==
    IF disk.journal = NoJournal THEN InPlace
    ELSE Opens \/ Displaced(disk.journal.rollback)

TryReach ==
    /\ op.at \notin Finishing
    /\ op.at \in Untouched \ {"displace"} => disk.journal = NoJournal
    /\ op.at \in Untouched => InPlace
    /\ op.at \in {"safety", "journal", "displace", "install", "key", "migrate", "clean"}
         => op.existing /\ op.previous = owned.key
    /\ op.at \in {"install", "key", "migrate", "clean"}
         => disk.files[Rollback(op.n)] = owned
    /\ op.at \in {"install", "key"} => disk.key = owned.key
    /\ disk.kind = "secret-file" /\ op.at # "commit" => disk.key = owned.key

UndoReach ==
    /\ op.previous \in {NoKey, owned.key}
    /\ op.previous = NoKey => disk.key = owned.key
    /\ tally.errors = 0 \/ disk.kind = "secret-file" => disk.key = owned.key
    /\ op.at = "undo-aside" =>
           IF op.existing /\ Exists(Rollback(op.n)) THEN disk.files[Rollback(op.n)] = owned
           ELSE InPlace
    /\ op.at = "undo-back" => LiveFile = NoFile /\ disk.files[Rollback(op.n)] = owned
    /\ op.at = "undo-key" => LiveFile = owned
    /\ op.at = "undo-journal" => InPlace

StartReach ==
    IF op.at = "start-back" THEN Displaced(disk.journal.rollback) ELSE InPlace

Reach ==
    /\ op.at = "idle" => IdleReach
    /\ op.at \in TryStage => TryReach
    /\ op.at \in UndoStage => UndoReach
    /\ op.at \in StartStage => StartReach

\* An orderly behaviour has crashes or failing steps, not both.
ReachInv ==
    orderly => /\ tally.crashes = 0 \/ tally.errors = 0
               /\ owned # NoFile => Reach
-----------------------------------------------------------------------------
(* Names, and what the primitive changes of disk and process do.               *)
LEMMA PathFacts ==
    /\ Live \in Path /\ NoFile \notin Path
    /\ \A m \in Attempt : /\ {Staging(m), Rollback(m), Interrupted(m)} \subseteq Path
                          /\ Live \notin {Staging(m), Rollback(m), Interrupted(m)}
    /\ \A m, n \in Attempt :
           /\ Staging(m) # Rollback(n) /\ Staging(m) # Interrupted(n)
           /\ Rollback(m) # Interrupted(n)
           /\ (Staging(m) = Staging(n) \/ Rollback(m) = Rollback(n)
               \/ Interrupted(m) = Interrupted(n)) => m = n
BY NamesAssumption DEF Path, Live, Staging, Rollback, Interrupted

LEMMA GotoFacts ==
    ASSUME op \in Process, NEW s \in Stage, Goto(s)
    PROVE  /\ op' \in Process /\ op'.at = s
           /\ op'.n = op.n /\ op'.key = op.key /\ op'.replace = op.replace
           /\ op'.existing = op.existing /\ op'.previous = op.previous
BY DEF Goto, Process

LEMMA GuardFacts ==
    ASSUME op \in Process, NEW s \in Stage, NEW e \in BOOLEAN, NEW k \in Key \cup {NoKey},
           op' = [op EXCEPT !.existing = e, !.previous = k, !.at = s]
    PROVE  /\ op' \in Process /\ op'.n = op.n /\ op'.key = op.key
           /\ op'.existing = e /\ op'.previous = k /\ op'.at = s
BY DEF Process

LEMMA IdleFacts == Idle \in Process /\ Idle.at = "idle"
<1>1. 0 \in 0..MaxRestores /\ FALSE \in BOOLEAN /\ "idle" \in Stage
  BY RestoreAssumption DEF Stage
<1>2. QED
  BY <1>1 DEF Idle, Process

LEMMA MoveFacts ==
    ASSUME disk \in Disk, NEW p \in Path, NEW q \in Path, p # q, Move(p, q)
    PROVE  /\ disk' \in Disk
           /\ disk'.files[q] = disk.files[p] /\ disk'.files[p] = NoFile
           /\ \A r \in Path \ {p, q} : disk'.files[r] = disk.files[r]
           /\ disk'.journal = disk.journal /\ disk'.kind = disk.kind /\ disk'.key = disk.key
BY DEF Move, Disk

LEMMA RemoveFacts ==
    ASSUME disk \in Disk, NEW p \in Path \cup {NoFile}, Remove(p)
    PROVE  /\ disk' \in Disk
           /\ \A r \in Path : disk'.files[r] = IF r = p THEN NoFile ELSE disk.files[r]
           /\ disk'.journal = disk.journal /\ disk'.kind = disk.kind /\ disk'.key = disk.key
BY PathFacts DEF Remove, Disk

LEMMA JournalFacts ==
    ASSUME disk \in Disk, NEW j \in Journal \cup {NoJournal}, disk' = [disk EXCEPT !.journal = j]
    PROVE  /\ disk' \in Disk /\ disk'.files = disk.files /\ disk'.journal = j
           /\ disk'.kind = disk.kind /\ disk'.key = disk.key
BY DEF Disk

LEMMA KeyFacts ==
    ASSUME disk \in Disk, NEW k \in Key \cup {NoKey}, disk' = [disk EXCEPT !.key = k]
    PROVE  /\ disk' \in Disk /\ disk'.files = disk.files /\ disk'.journal = disk.journal
           /\ disk'.kind = disk.kind /\ disk'.key = k
BY DEF Disk

LEMMA FileFacts ==
    ASSUME disk \in Disk, NEW p \in Path, NEW d \in Database \cup {NoFile},
           disk' = [disk EXCEPT !.files[p] = d]
    PROVE  /\ disk' \in Disk
           /\ \A r \in Path : disk'.files[r] = IF r = p THEN d ELSE disk.files[r]
           /\ disk'.journal = disk.journal /\ disk'.kind = disk.kind /\ disk'.key = disk.key
BY DEF Disk

LEMMA EndsFacts ==
    ASSUME disk \in Disk, op.n \in Attempt, Ends
    PROVE  /\ disk' \in Disk
           /\ \A r \in Path : disk'.files[r] = IF r = Staging(op.n) THEN NoFile ELSE disk.files[r]
           /\ disk'.journal = NoJournal /\ disk'.kind = disk.kind /\ disk'.key = disk.key
           /\ op' \in Process /\ op'.at = "idle"
<1>1. Staging(op.n) \in Path
  BY PathFacts
<1>2. QED
  BY <1>1, IdleFacts DEF Ends, Disk
-----------------------------------------------------------------------------
(* Every step keeps the invariant.                                             *)
LEMMA SameDiskKeeps ==
    ASSUME RestoreInv, UNCHANGED <<disk, owned>>, backups \subseteq backups',
           tally'.restores = tally.restores
    PROVE  PathsInv' /\ JournalInv' /\ SafetyBackupFirst'
BY DEF RestoreInv, PathsInv, FromSoFar, Unused, JournalInv, SafetyBackupFirst, Exists, LiveFile

LEMMA BackupFacts ==
    ASSUME RestoreInv, op.at \in CommandStage
    PROVE  Backup \in Database /\ Backup # NoFile /\ Backup.from = op.n /\ Backup.key = op.key
<1>1. op.n \in 0..MaxRestores /\ op.key \in Key
  BY RestoreAssumption DEF RestoreInv, NumberInv, Attempt
<1>2. QED
  BY <1>1, NamesAssumption DEF Backup, Database

LEMMA SafetyKeeps ==
    ASSUME RestoreInv, ReachInv, Safety
    PROVE  RestoreInv' /\ ReachInv'
<1>1. /\ op' \in Process /\ op'.at = "journal"
      /\ op'.n = op.n /\ op'.key = op.key /\ op'.replace = op.replace
      /\ op'.existing = op.existing /\ op'.previous = op.previous
  <2>1. Goto("journal") /\ "journal" \in Stage
    BY DEF Safety, Stage, TryStage, UndoStage, StartStage
  <2>2. QED
    BY <2>1, GotoFacts DEF RestoreInv, TypeOK
<1>2. /\ op.at = "safety" /\ backups' = backups \cup {LiveFile} /\ LiveFile = disk.files[Live]
      /\ LiveFile \in Database /\ UNCHANGED <<disk, owned, tally, orderly>>
  BY PathFacts DEF Safety, At, LiveFile, RestoreInv, TypeOK, Disk, ForwardInv
<1>3. TypeOK'
  BY <1>1, <1>2 DEF RestoreInv, TypeOK
<1>4. PathsInv' /\ JournalInv' /\ SafetyBackupFirst'
  BY <1>1, <1>2, SameDiskKeeps
<1>5. NumberInv'
  BY <1>1, <1>2 DEF RestoreInv, NumberInv, ForwardInv, Exists, CommandStage, TryStage, Early,
         Untouched
<1>6. ForwardInv'
  BY <1>1, <1>2 DEF RestoreInv, ForwardInv, Backup, LiveFile, TryStage, Untouched, Forward,
         Staged, Journaled, Restored, Keyed
<1>7. BackInv'
  BY <1>1 DEF BackInv, Finishing
<1>8. ReachInv'
  BY <1>1, <1>2 DEF ReachInv, Reach, TryReach, UndoReach, StartReach, InPlace, LiveFile, TryStage,
         Untouched, Finishing
<1>9. QED
  BY <1>3, <1>4, <1>5, <1>6, <1>7, <1>8 DEF RestoreInv

LEMMA MigrateKeeps ==
    ASSUME RestoreInv, ReachInv, Migrate
    PROVE  RestoreInv' /\ ReachInv'
<1>1. op.at = "migrate" /\ Opens /\ Goto("clean")
  <2>1. op.at = "migrate" /\ LiveFile = Backup /\ disk.key = op.key /\ op.at \in CommandStage
    BY DEF Migrate, At, RestoreInv, ForwardInv, Restored, Keyed, CommandStage, TryStage
  <2>2. Opens
    BY <2>1, BackupFacts, PathFacts DEF Opens, CanOpen, Exists, LiveFile
  <2>3. QED
    BY <2>1, <2>2 DEF Migrate
<1>2. /\ op' \in Process /\ op'.at = "clean"
      /\ op'.n = op.n /\ op'.key = op.key /\ op'.replace = op.replace
      /\ op'.existing = op.existing /\ op'.previous = op.previous
  <2>1. Goto("clean") /\ "clean" \in Stage
    BY <1>1 DEF Migrate, Stage, TryStage, UndoStage, StartStage
  <2>2. QED
    BY <2>1, GotoFacts DEF RestoreInv, TypeOK
<1>3. UNCHANGED <<owned, backups, tally, orderly>> /\ UNCHANGED disk
  BY DEF Migrate, SameHistory, SameDisk
<1>4. TypeOK'
  BY <1>1, <1>2, <1>3 DEF RestoreInv, TypeOK
<1>5. PathsInv' /\ JournalInv' /\ SafetyBackupFirst'
  BY <1>1, <1>2, <1>3, SameDiskKeeps
<1>6. NumberInv'
  BY <1>1, <1>2, <1>3 DEF RestoreInv, NumberInv, OwnJournal, Exists, LiveFile, CommandStage,
         TryStage, Early
<1>7. ForwardInv'
  BY <1>1, <1>2, <1>3 DEF RestoreInv, ForwardInv, OwnJournal, Backup, LiveFile, TryStage, Early,
         Untouched, Forward, Staged, Journaled, Restored, Keyed
<1>8. BackInv'
  BY <1>2 DEF BackInv, Finishing
<1>9. ReachInv'
  BY <1>1, <1>2, <1>3 DEF ReachInv, Reach, TryReach, TryStage, UndoStage, StartStage, Early,
         Untouched, Finishing
<1>10. QED
  BY <1>4, <1>5, <1>6, <1>7, <1>8, <1>9 DEF RestoreInv

LEMMA DisplaceKeeps ==
    ASSUME RestoreInv, ReachInv, Displace
    PROVE  RestoreInv' /\ ReachInv'
<1>1. /\ disk' \in Disk /\ disk'.files[Rollback(op.n)] = LiveFile /\ disk'.files[Live] = NoFile
      /\ \A r \in Path \ {Live, Rollback(op.n)} : disk'.files[r] = disk.files[r]
      /\ disk'.journal = disk.journal /\ disk'.kind = disk.kind /\ disk'.key = disk.key
  <2>1. op.n \in Attempt /\ Move(Live, Rollback(op.n)) /\ disk \in Disk
    BY DEF Displace, At, RestoreInv, TypeOK, NumberInv, CommandStage, TryStage
  <2>2. QED
    BY <2>1, MoveFacts, PathFacts DEF LiveFile
<1>2. /\ op' \in Process /\ op'.at = "install"
      /\ op'.n = op.n /\ op'.key = op.key /\ op'.replace = op.replace
      /\ op'.existing = op.existing /\ op'.previous = op.previous
  <2>1. Goto("install") /\ "install" \in Stage
    BY DEF Displace, Stage, TryStage, UndoStage, StartStage
  <2>2. QED
    BY <2>1, GotoFacts DEF RestoreInv, TypeOK
<1>3. op.at = "displace" /\ UNCHANGED <<owned, backups, tally, orderly>>
  BY DEF Displace, SameHistory, At
<1>4. TypeOK'
  BY <1>1, <1>2, <1>3 DEF RestoreInv, TypeOK
<1>5. PathsInv'
  BY <1>1, <1>3, PathFacts DEF RestoreInv, TypeOK, PathsInv, FromSoFar, Unused, NumberInv,
         ForwardInv, LiveFile, CommandStage, TryStage
<1>6. JournalInv'
  BY <1>1, <1>3 DEF RestoreInv, JournalInv, LiveFile
<1>7. SafetyBackupFirst'
  BY <1>1, <1>3, PathFacts DEF RestoreInv, SafetyBackupFirst, PathsInv, NumberInv, LiveFile,
         CommandStage, TryStage
<1>8. NumberInv'
  BY <1>1, <1>2, <1>3 DEF RestoreInv, NumberInv, ForwardInv, OwnJournal, LiveFile, CommandStage,
         TryStage, Early, Journaled
<1>9. ForwardInv'
  BY <1>1, <1>2, <1>3, PathFacts DEF RestoreInv, NumberInv, ForwardInv, OwnJournal, Backup,
         LiveFile, CommandStage, TryStage, Early, Untouched, Forward, Staged, Journaled, Restored,
         Keyed
<1>10. BackInv'
  BY <1>2 DEF BackInv, Finishing
<1>11. ReachInv'
  BY <1>1, <1>2, <1>3 DEF ReachInv, Reach, TryReach, UndoReach, InPlace, TryStage, StartStage,
         Early, Untouched, Finishing
<1>12. QED
  BY <1>4, <1>5, <1>6, <1>7, <1>8, <1>9, <1>10, <1>11 DEF RestoreInv

LEMMA InstallKeeps ==
    ASSUME RestoreInv, ReachInv, Install
    PROVE  RestoreInv' /\ ReachInv'
<1>1. /\ disk' \in Disk /\ disk'.files[Live] = disk.files[Staging(op.n)]
      /\ disk'.files[Staging(op.n)] = NoFile
      /\ \A r \in Path \ {Live, Staging(op.n)} : disk'.files[r] = disk.files[r]
      /\ disk'.journal = disk.journal /\ disk'.kind = disk.kind /\ disk'.key = disk.key
  <2>1. op.n \in Attempt /\ Move(Staging(op.n), Live) /\ disk \in Disk
    BY DEF Install, At, RestoreInv, TypeOK, NumberInv, CommandStage, TryStage
  <2>2. QED
    BY <2>1, MoveFacts, PathFacts DEF LiveFile
<1>2. /\ op' \in Process /\ op'.at = "key"
      /\ op'.n = op.n /\ op'.key = op.key /\ op'.replace = op.replace
      /\ op'.existing = op.existing /\ op'.previous = op.previous
  <2>1. Goto("key") /\ "key" \in Stage
    BY DEF Install, Stage, TryStage, UndoStage, StartStage
  <2>2. QED
    BY <2>1, GotoFacts DEF RestoreInv, TypeOK
<1>3. op.at = "install" /\ UNCHANGED <<owned, backups, tally, orderly>>
  BY DEF Install, SameHistory, At
<1>4. TypeOK'
  BY <1>1, <1>2, <1>3 DEF RestoreInv, TypeOK
<1>5. PathsInv'
  BY <1>1, <1>3, PathFacts DEF RestoreInv, PathsInv, FromSoFar, Unused, NumberInv, CommandStage,
         TryStage
<1>6. JournalInv'
  BY <1>1, <1>3, PathFacts DEF RestoreInv, JournalInv, ForwardInv, OwnJournal, Exists, TryStage,
         Forward, Journaled
<1>7. SafetyBackupFirst'
  BY <1>1, <1>3, PathFacts DEF RestoreInv, SafetyBackupFirst, ForwardInv, LiveFile
<1>8. NumberInv'
  BY <1>1, <1>2, <1>3, PathFacts DEF RestoreInv, NumberInv, PathsInv, OwnJournal, Exists,
         LiveFile, CommandStage, TryStage, Early
<1>9. ForwardInv'
  BY <1>1, <1>2, <1>3, PathFacts DEF RestoreInv, NumberInv, ForwardInv, OwnJournal, Backup,
         LiveFile, CommandStage, TryStage, Early, Untouched, Forward, Staged, Journaled, Keyed
<1>10. BackInv'
  BY <1>2 DEF BackInv, Finishing
<1>11. ReachInv'
  BY <1>1, <1>2, <1>3, PathFacts DEF RestoreInv, ReachInv, Reach, TryReach, UndoReach, NumberInv,
         CommandStage, TryStage, StartStage, Early, Untouched, Finishing
<1>12. QED
  BY <1>4, <1>5, <1>6, <1>7, <1>8, <1>9, <1>10, <1>11 DEF RestoreInv

LEMMA BeginKeeps ==
    ASSUME RestoreInv, ReachInv, NEW k \in Key, NEW replace \in BOOLEAN,
           Begin(k, replace)
    PROVE  RestoreInv' /\ ReachInv'
<1>1. /\ op' \in Process /\ op'.at = "verify" /\ op'.n = tally.restores + 1 /\ op'.key = k
      /\ op'.existing = FALSE /\ op'.previous = NoKey
  <2>1. tally.restores + 1 \in 0..MaxRestores /\ "verify" \in Stage
    BY RestoreAssumption DEF Begin, RestoreInv, TypeOK, Stage, TryStage
  <2>2. QED
    BY <2>1 DEF Begin, Idle, Process
<1>2. /\ op.at = "idle" /\ UNCHANGED <<disk, owned, backups>>
      /\ tally'.restores = tally.restores + 1 /\ tally.restores \in Nat
      /\ tally.restores + 1 \in Attempt
      /\ tally'.crashes = tally.crashes /\ tally'.errors = tally.errors
      /\ tally' \in [restores : 0..MaxRestores, crashes : 0..MaxCrashes, errors : 0..MaxErrors]
      /\ orderly' = (orderly /\ (disk.journal = NoJournal \/ Refuses)) /\ orderly' \in BOOLEAN
  BY RestoreAssumption DEF Begin, RestoreInv, TypeOK, At, Attempt
<1>3. /\ op'.n \in Attempt /\ Unused(op'.n) /\ op'.n = tally'.restores
      /\ owned # NoFile => owned.from # op'.n
  <2>1. op'.n \notin 0..tally.restores
    BY <1>1, <1>2
  <2>2. QED
    BY <1>1, <1>2, <2>1 DEF RestoreInv, PathsInv, FromSoFar
<1>4. orderly' => /\ orderly
                  /\ owned # NoFile => disk.journal = NoJournal /\ InPlace
  <2>1. orderly /\ owned # NoFile => IdleReach
    BY <1>2 DEF ReachInv, Reach
  <2>2. IdleReach /\ Refuses => disk.journal = NoJournal
    BY DEF IdleReach, Refuses, Finalizes, RollsBack, Displaced, CanOpen, Opens
  <2>3. QED
    BY <1>2, <2>1, <2>2 DEF IdleReach
<1>5. TypeOK'
  BY <1>1, <1>2, <1>3, <1>4 DEF RestoreInv, TypeOK
<1>6. PathsInv'
  BY <1>2 DEF RestoreInv, PathsInv, FromSoFar, Unused
<1>7. JournalInv'
  BY <1>2 DEF RestoreInv, JournalInv, Exists, LiveFile
<1>8. SafetyBackupFirst'
  BY <1>2 DEF RestoreInv, SafetyBackupFirst
<1>9. NumberInv'
  BY <1>1, <1>2, <1>3 DEF NumberInv, Unused, Exists
<1>10. ForwardInv'
  BY <1>1, <1>2, <1>3 DEF ForwardInv, Unused, Staged, Journaled, Restored, Keyed
<1>11. BackInv'
  BY <1>1 DEF BackInv, Finishing
<1>12. ReachInv'
  <2>1. orderly' /\ owned # NoFile => TryReach'
    BY <1>1, <1>2, <1>4 DEF TryReach, InPlace, LiveFile, Finishing
  <2>2. QED
    BY <1>1, <1>2, <2>1 DEF ReachInv, Reach, UndoStage, StartStage
<1>13. QED
  BY <1>5, <1>6, <1>7, <1>8, <1>9, <1>10, <1>11, <1>12 DEF RestoreInv

LEMMA VerifyKeeps ==
    ASSUME RestoreInv, ReachInv, Verify
    PROVE  RestoreInv' /\ ReachInv'
<1>1. /\ op' \in Process /\ op'.n = op.n /\ op'.key = op.key /\ op'.replace = op.replace
      /\ op'.existing = op.existing /\ op'.previous = op.previous
      /\ IF disk.journal # NoJournal /\ CanOpen(Live, op.key)
         THEN op'.at = "finish-key" ELSE op'.at = "extract"
  <2>1. {"finish-key", "extract"} \subseteq Stage
    BY DEF Stage, TryStage
  <2>2. QED
    BY <2>1, GotoFacts DEF Verify, RestoreInv, TypeOK
<1>2. op.at = "verify" /\ UNCHANGED <<owned, backups, tally, orderly>> /\ UNCHANGED disk
  BY DEF Verify, At, SameHistory, SameDisk
<1>3. TypeOK'
  BY <1>1, <1>2 DEF RestoreInv, TypeOK
<1>4. PathsInv' /\ JournalInv' /\ SafetyBackupFirst'
  BY <1>1, <1>2, SameDiskKeeps
<1>5. NumberInv'
  BY <1>1, <1>2 DEF RestoreInv, NumberInv, Exists, CommandStage, TryStage, Early
<1>6. ForwardInv'
  BY <1>1, <1>2 DEF RestoreInv, ForwardInv, TryStage, Early, Untouched, Forward, Staged,
         Journaled, Restored, Keyed
<1>7. BackInv'
  BY <1>1, <1>2 DEF BackInv, CanOpen, Exists, Finishing
<1>8. ReachInv'
  BY <1>1, <1>2 DEF ReachInv, Reach, TryReach, StartReach, InPlace, LiveFile, TryStage, UndoStage,
         Early, Untouched, Finishing
<1>9. QED
  BY <1>3, <1>4, <1>5, <1>6, <1>7, <1>8 DEF RestoreInv

LEMMA FinishKeyKeeps ==
    ASSUME RestoreInv, ReachInv, SaveKey("finish-key", "finish-files")
    PROVE  RestoreInv' /\ ReachInv'
<1>1. /\ disk' \in Disk /\ disk'.files = disk.files /\ disk'.journal = disk.journal
      /\ disk'.kind = disk.kind
      /\ disk'.key = IF disk.kind = "secret-file" THEN disk.key ELSE op.key
  <2>1. disk \in Disk /\ op.key \in Key \cup {NoKey}
    BY DEF RestoreInv, TypeOK, Process
  <2>2. (IF disk.kind = "secret-file" THEN disk.key ELSE op.key) \in Key \cup {NoKey}
    BY <2>1 DEF Disk
  <2>3. disk' = [disk EXCEPT !.key = IF disk.kind = "secret-file" THEN disk.key ELSE op.key]
    BY DEF SaveKey
  <2>4. QED
    BY <2>1, <2>2, <2>3, KeyFacts
<1>2. /\ op' \in Process /\ op'.n = op.n /\ op'.key = op.key /\ op'.replace = op.replace
      /\ op'.existing = op.existing /\ op'.previous = op.previous
      /\ IF disk.kind = "secret-file" /\ disk.key # op.key
         THEN op'.at = "undo-aside" ELSE op'.at = "finish-files"
  <2>1. {"finish-files", "undo-aside"} \subseteq Stage
    BY DEF Stage, TryStage, UndoStage
  <2>2. QED
    BY <2>1, GotoFacts DEF SaveKey, Throws, RestoreInv, TypeOK
<1>3. op.at = "finish-key" /\ UNCHANGED <<owned, backups, tally, orderly>>
  BY DEF SaveKey, At, SameHistory, SameDisk
<1>4. TypeOK'
  BY <1>1, <1>2, <1>3 DEF RestoreInv, TypeOK
<1>5. PathsInv'
  BY <1>1, <1>3 DEF RestoreInv, PathsInv, FromSoFar, Unused
<1>6. JournalInv'
  BY <1>1, <1>3 DEF RestoreInv, JournalInv, Exists, LiveFile
<1>7. SafetyBackupFirst'
  BY <1>1, <1>3 DEF RestoreInv, SafetyBackupFirst
<1>8. NumberInv'
  BY <1>1, <1>2, <1>3 DEF RestoreInv, NumberInv, Exists, CommandStage, TryStage, Early
<1>9. ForwardInv'
  BY <1>1, <1>2, <1>3 DEF RestoreInv, ForwardInv, TryStage, Early, Untouched, Forward, Staged,
         Journaled, Restored, Keyed
<1>10. BackInv'
  BY <1>1, <1>2, <1>3 DEF RestoreInv, BackInv, CanOpen, Exists, Finishing
<1>11. ReachInv'
  BY <1>3 DEF ReachInv, Reach, TryReach, TryStage, Finishing
<1>12. QED
  BY <1>4, <1>5, <1>6, <1>7, <1>8, <1>9, <1>10, <1>11 DEF RestoreInv

LEMMA KeyKeeps ==
    ASSUME RestoreInv, ReachInv, SaveKey("key", "migrate")
    PROVE  RestoreInv' /\ ReachInv'
<1>1. /\ disk' \in Disk /\ disk'.files = disk.files /\ disk'.journal = disk.journal
      /\ disk'.kind = disk.kind
      /\ disk'.key = IF disk.kind = "secret-file" THEN disk.key ELSE op.key
  <2>1. disk \in Disk /\ op.key \in Key \cup {NoKey}
    BY DEF RestoreInv, TypeOK, Process
  <2>2. (IF disk.kind = "secret-file" THEN disk.key ELSE op.key) \in Key \cup {NoKey}
    BY <2>1 DEF Disk
  <2>3. disk' = [disk EXCEPT !.key = IF disk.kind = "secret-file" THEN disk.key ELSE op.key]
    BY DEF SaveKey
  <2>4. QED
    BY <2>1, <2>2, <2>3, KeyFacts
<1>2. /\ op' \in Process /\ op'.n = op.n /\ op'.key = op.key /\ op'.replace = op.replace
      /\ op'.existing = op.existing /\ op'.previous = op.previous
      /\ IF disk.kind = "secret-file" /\ disk.key # op.key
         THEN op'.at = "undo-aside" ELSE op'.at = "migrate"
  <2>1. {"migrate", "undo-aside"} \subseteq Stage
    BY DEF Stage, TryStage, UndoStage
  <2>2. QED
    BY <2>1, GotoFacts DEF SaveKey, Throws, RestoreInv, TypeOK
<1>3. op.at = "key" /\ UNCHANGED <<owned, backups, tally, orderly>>
  BY DEF SaveKey, At, SameHistory, SameDisk
<1>4. TypeOK'
  BY <1>1, <1>2, <1>3 DEF RestoreInv, TypeOK
<1>5. PathsInv'
  BY <1>1, <1>3 DEF RestoreInv, PathsInv, FromSoFar, Unused
<1>6. JournalInv'
  BY <1>1, <1>3 DEF RestoreInv, JournalInv, Exists, LiveFile
<1>7. SafetyBackupFirst'
  BY <1>1, <1>3 DEF RestoreInv, SafetyBackupFirst
<1>8. NumberInv'
  BY <1>1, <1>2, <1>3 DEF RestoreInv, NumberInv, OwnJournal, Exists, LiveFile, CommandStage,
         TryStage, Early
<1>9. ForwardInv'
  BY <1>1, <1>2, <1>3 DEF RestoreInv, ForwardInv, OwnJournal, Backup, LiveFile, TryStage, Early,
         Untouched, Forward, Staged, Journaled, Restored, Keyed
<1>10. BackInv'
  BY <1>2 DEF BackInv, Finishing
<1>11. ReachInv'
  BY <1>1, <1>2, <1>3, PathFacts DEF RestoreInv, ReachInv, Reach, TryReach, UndoReach, NumberInv,
         Exists, CommandStage, TryStage, UndoStage, StartStage, Early, Untouched, Finishing
<1>12. QED
  BY <1>4, <1>5, <1>6, <1>7, <1>8, <1>9, <1>10, <1>11 DEF RestoreInv

LEMMA FinishFilesKeeps ==
    ASSUME RestoreInv, ReachInv, FinishFiles
    PROVE  RestoreInv' /\ ReachInv'
<1>1. /\ disk' \in Disk /\ disk.journal.rollback \in Path \cup {NoFile}
      /\ disk.journal # NoJournal
      /\ \A r \in Path : disk'.files[r] = IF r = disk.journal.rollback THEN NoFile ELSE disk.files[r]
      /\ disk'.journal = disk.journal /\ disk'.kind = disk.kind /\ disk'.key = disk.key
  <2>1. disk \in Disk /\ disk.journal # NoJournal /\ Remove(disk.journal.rollback)
    BY DEF FinishFiles, At, RestoreInv, TypeOK, BackInv, Finishing
  <2>2. disk.journal.rollback \in Path \cup {NoFile}
    BY <2>1 DEF Disk, Journal
  <2>3. QED
    BY <2>1, <2>2, RemoveFacts
<1>2. /\ op' \in Process /\ op'.at = "finish-journal"
      /\ op'.n = op.n /\ op'.key = op.key /\ op'.replace = op.replace
      /\ op'.existing = op.existing /\ op'.previous = op.previous
  <2>1. Goto("finish-journal") /\ "finish-journal" \in Stage
    BY DEF FinishFiles, Stage, TryStage, UndoStage, StartStage
  <2>2. QED
    BY <2>1, GotoFacts DEF RestoreInv, TypeOK
<1>3. op.at = "finish-files" /\ UNCHANGED <<owned, backups, tally, orderly>>
  BY DEF FinishFiles, At, SameHistory, SameDisk
<1>4. disk.journal.rollback # Live
  BY <1>1, PathFacts DEF RestoreInv, JournalInv
<1>5. TypeOK'
  BY <1>1, <1>2, <1>3, <1>4 DEF RestoreInv, TypeOK
<1>6. PathsInv'
  BY <1>1, <1>3, PathFacts DEF RestoreInv, PathsInv, FromSoFar, Unused
<1>7. JournalInv'
  BY <1>1, <1>3 DEF RestoreInv, JournalInv, Exists
<1>8. SafetyBackupFirst'
  BY <1>1, <1>3, PathFacts DEF RestoreInv, SafetyBackupFirst, PathsInv, JournalInv
<1>9. NumberInv'
  BY <1>1, <1>2, <1>3, PathFacts DEF RestoreInv, NumberInv, Exists, CommandStage, TryStage, Early
<1>10. ForwardInv'
  BY <1>1, <1>2, <1>3, PathFacts DEF RestoreInv, NumberInv, ForwardInv, OwnJournal, Exists,
         CommandStage, TryStage, Forward, Staged, Journaled, Restored, Keyed
<1>11. BackInv'
  BY <1>1, <1>2, <1>3, <1>4, PathFacts DEF RestoreInv, BackInv, CanOpen, Exists, Finishing
<1>12. ReachInv'
  BY <1>1, <1>3 DEF ReachInv, Reach, TryReach, TryStage, Early, Untouched
<1>13. QED
  BY <1>5, <1>6, <1>7, <1>8, <1>9, <1>10, <1>11, <1>12 DEF RestoreInv

LEMMA ExtractKeeps ==
    ASSUME RestoreInv, ReachInv, Extract
    PROVE  RestoreInv' /\ ReachInv'
<1>1. /\ disk' \in Disk /\ Backup \in Database /\ Backup # NoFile /\ Backup.from = op.n
      /\ Backup.key = op.key
      /\ \A r \in Path : disk'.files[r] = IF r = Staging(op.n) THEN Backup ELSE disk.files[r]
      /\ disk'.journal = disk.journal /\ disk'.kind = disk.kind /\ disk'.key = disk.key
  <2>1. op.n \in Attempt /\ op.at \in CommandStage
    BY DEF Extract, At, RestoreInv, NumberInv, CommandStage, TryStage
  <2>2. disk' = [disk EXCEPT !.files[Staging(op.n)] = Backup]
    BY DEF Extract, Backup
  <2>3. Backup \in Database /\ Backup # NoFile /\ Backup.from = op.n /\ Backup.key = op.key
    BY <2>1, BackupFacts
  <2>4. disk \in Disk /\ Staging(op.n) \in Path
    BY <2>1, PathFacts DEF RestoreInv, TypeOK
  <2> HIDE DEF Backup
  <2>5. QED
    BY <2>2, <2>3, <2>4, FileFacts
<1>2. /\ op' \in Process /\ op'.at = "guard"
      /\ op'.n = op.n /\ op'.key = op.key /\ op'.replace = op.replace
      /\ op'.existing = op.existing /\ op'.previous = op.previous
  <2>1. Goto("guard") /\ "guard" \in Stage
    BY DEF Extract, Stage, TryStage, UndoStage, StartStage
  <2>2. QED
    BY <2>1, GotoFacts DEF RestoreInv, TypeOK
<1>3. op.at = "extract" /\ UNCHANGED <<owned, backups, tally, orderly>>
  BY DEF Extract, At, SameHistory, SameDisk
<1>4. TypeOK'
  BY <1>1, <1>2, <1>3 DEF RestoreInv, TypeOK
<1>5. PathsInv'
  BY <1>1, <1>3, PathFacts DEF RestoreInv, TypeOK, PathsInv, FromSoFar, Unused, NumberInv,
         CommandStage, TryStage
<1>6. JournalInv'
  BY <1>1, <1>3, PathFacts DEF RestoreInv, JournalInv, NumberInv, Exists, LiveFile, CommandStage,
         TryStage
<1>7. SafetyBackupFirst'
  BY <1>1, <1>3 DEF RestoreInv, SafetyBackupFirst, PathsInv, NumberInv, CommandStage, TryStage
<1>8. NumberInv'
  BY <1>1, <1>2, <1>3, PathFacts DEF RestoreInv, NumberInv, Exists, CommandStage, TryStage, Early
<1>9. ForwardInv'
  BY <1>1, <1>2, <1>3, PathFacts DEF RestoreInv, NumberInv, ForwardInv, Backup, Exists,
         CommandStage, TryStage, Early, Forward, Journaled, Restored, Keyed
<1>10. BackInv'
  BY <1>2 DEF BackInv, Finishing
<1>11. ReachInv'
  BY <1>1, <1>2, <1>3, PathFacts DEF RestoreInv, ReachInv, Reach, TryReach, UndoReach, StartReach,
         InPlace, NumberInv, LiveFile, TryStage, Early, Untouched, Finishing
<1>12. QED
  BY <1>4, <1>5, <1>6, <1>7, <1>8, <1>9, <1>10, <1>11 DEF RestoreInv

LEMMA GuardKeeps ==
    ASSUME RestoreInv, ReachInv, Guard
    PROVE  RestoreInv' /\ ReachInv'
<1>1. /\ op' \in Process /\ op'.n = op.n /\ op'.key = op.key
      /\ op'.existing = Exists(Live)
      /\ op'.previous = IF Exists(Live) /\ op.replace THEN disk.key ELSE NoKey
      /\ op'.at = IF Exists(Live) /\ ~(op.replace /\ Opens) THEN "undo-aside"
                  ELSE IF Exists(Live) THEN "safety" ELSE "journal"
  <2> DEFINE at == IF Exists(Live) /\ ~(op.replace /\ Opens) THEN "undo-aside"
                    ELSE IF Exists(Live) THEN "safety" ELSE "journal"
             existing == Exists(Live)
             previous == IF Exists(Live) /\ op.replace THEN disk.key ELSE NoKey
  <2>1. op' = [op EXCEPT !.existing = existing, !.previous = previous, !.at = at]
    BY DEF Guard
  <2>2. existing \in BOOLEAN
    BY DEF Exists
  <2>3. previous \in Key \cup {NoKey}
    BY DEF RestoreInv, TypeOK, Disk
  <2>4. at \in Stage
    BY DEF Stage, TryStage, UndoStage
  <2>5. op \in Process
    BY DEF RestoreInv, TypeOK
  <2> HIDE DEF at, existing, previous
  <2>6. /\ op' \in Process /\ op'.n = op.n /\ op'.key = op.key
        /\ op'.existing = existing /\ op'.previous = previous /\ op'.at = at
    BY <2>1, <2>2, <2>3, <2>4, <2>5, GuardFacts
  <2>7. QED
    BY <2>6 DEF at, existing, previous
<1>2. op.at = "guard" /\ UNCHANGED <<owned, backups, tally, orderly>> /\ UNCHANGED disk
  BY DEF Guard, At, SameHistory, SameDisk
<1>3. TypeOK'
  BY <1>1, <1>2 DEF RestoreInv, TypeOK
<1>4. PathsInv' /\ JournalInv' /\ SafetyBackupFirst'
  BY <1>1, <1>2, SameDiskKeeps
<1>5. NumberInv'
  BY <1>1, <1>2 DEF RestoreInv, NumberInv, ForwardInv, Exists, CommandStage, TryStage, Early
<1>6. ForwardInv'
  BY <1>1, <1>2, PathFacts DEF RestoreInv, NumberInv, ForwardInv, Backup, Exists, LiveFile,
         CommandStage, TryStage, Forward, Staged, Journaled, Restored, Keyed
<1>7. BackInv'
  BY <1>1 DEF BackInv, Finishing
<1>8. ReachInv'
  BY <1>1, <1>2, PathFacts DEF RestoreInv, ReachInv, Reach, TryReach, UndoReach, StartReach,
         InPlace, ForwardInv, Exists, LiveFile, TryStage, Untouched, Finishing
<1>9. QED
  BY <1>3, <1>4, <1>5, <1>6, <1>7, <1>8 DEF RestoreInv

LEMMA WriteJournalKeeps ==
    ASSUME RestoreInv, ReachInv, WriteJournal
    PROVE  RestoreInv' /\ ReachInv'
<1>1. /\ disk' \in Disk /\ disk'.files = disk.files /\ disk'.kind = disk.kind
      /\ disk'.key = disk.key /\ disk'.journal # NoJournal
      /\ disk'.journal.rollback = IF op.existing THEN Rollback(op.n) ELSE NoFile
      /\ disk'.journal.interrupted = Interrupted(op.n)
      /\ op.n \in Attempt
  <2> DEFINE back == IF op.existing THEN Rollback(op.n) ELSE NoFile
             j == [rollback |-> back, interrupted |-> Interrupted(op.n)]
  <2>1. op.n \in Attempt /\ disk \in Disk
    BY DEF WriteJournal, At, RestoreInv, TypeOK, NumberInv, CommandStage, TryStage
  <2>2. back \in Path \cup {NoFile} /\ Interrupted(op.n) \in Path
    BY <2>1, PathFacts
  <2>3. disk' = [disk EXCEPT !.journal = j]
    BY DEF WriteJournal
  <2> HIDE DEF back
  <2>4. j \in Journal /\ j.rollback = back /\ j.interrupted = Interrupted(op.n)
    BY <2>2 DEF Journal
  <2> HIDE DEF j
  <2>5. QED
    BY <2>1, <2>3, <2>4, JournalFacts, NamesAssumption DEF back
<1>2. /\ op' \in Process /\ op'.n = op.n /\ op'.key = op.key /\ op'.replace = op.replace
      /\ op'.existing = op.existing /\ op'.previous = op.previous
      /\ IF op.existing THEN op'.at = "displace" ELSE op'.at = "install"
  <2>1. {"displace", "install"} \subseteq Stage
    BY DEF Stage, TryStage
  <2>2. QED
    BY <2>1, GotoFacts DEF WriteJournal, RestoreInv, TypeOK
<1>3. op.at = "journal" /\ UNCHANGED <<owned, backups, tally, orderly>>
  BY DEF WriteJournal, At, SameHistory, SameDisk
<1>4. op.n \in 0..tally.restores
  BY RestoreAssumption, <1>3 DEF RestoreInv, TypeOK, NumberInv, CommandStage, TryStage, Attempt
<1>5. TypeOK'
  BY <1>1, <1>2, <1>3, <1>4 DEF RestoreInv, TypeOK
<1>6. PathsInv'
  BY <1>1, <1>3 DEF RestoreInv, PathsInv, FromSoFar, Unused
<1>7. JournalInv'
  BY <1>1, <1>3, <1>4 DEF RestoreInv, JournalInv, NumberInv, OwnJournal, Exists, LiveFile,
         CommandStage, TryStage
<1>8. SafetyBackupFirst'
  BY <1>1, <1>3 DEF RestoreInv, SafetyBackupFirst
<1>9. NumberInv'
  BY <1>1, <1>2, <1>3 DEF RestoreInv, NumberInv, ForwardInv, Exists, CommandStage, TryStage,
         Early, Untouched
<1>10. ForwardInv'
  BY <1>1, <1>2, <1>3 DEF RestoreInv, ForwardInv, OwnJournal, Backup, LiveFile, TryStage,
         Untouched, Forward, Staged, Restored, Keyed
<1>11. BackInv'
  BY <1>2 DEF BackInv, Finishing
<1>12. ReachInv'
  BY <1>1, <1>2, <1>3 DEF ReachInv, Reach, TryReach, UndoReach, StartReach, InPlace, LiveFile,
         TryStage, Untouched, Finishing
<1>13. QED
  BY <1>5, <1>6, <1>7, <1>8, <1>9, <1>10, <1>11, <1>12 DEF RestoreInv

LEMMA CleanKeeps ==
    ASSUME RestoreInv, ReachInv, Clean
    PROVE  RestoreInv' /\ ReachInv'
<1>1. /\ disk' \in Disk /\ op.n \in Attempt
      /\ \A r \in Path : disk'.files[r] = IF r = Rollback(op.n) THEN NoFile ELSE disk.files[r]
      /\ disk'.journal = disk.journal /\ disk'.kind = disk.kind /\ disk'.key = disk.key
  <2>1. disk \in Disk /\ op.n \in Attempt /\ Remove(Rollback(op.n))
    BY DEF Clean, At, RestoreInv, TypeOK, NumberInv, CommandStage, TryStage
  <2>2. QED
    BY <2>1, RemoveFacts, PathFacts
<1>2. /\ op' \in Process /\ op'.at = "commit"
      /\ op'.n = op.n /\ op'.key = op.key /\ op'.replace = op.replace
      /\ op'.existing = op.existing /\ op'.previous = op.previous
  <2>1. Goto("commit") /\ "commit" \in Stage
    BY DEF Clean, Stage, TryStage, UndoStage, StartStage
  <2>2. QED
    BY <2>1, GotoFacts DEF RestoreInv, TypeOK
<1>3. op.at = "clean" /\ UNCHANGED <<owned, backups, tally, orderly>>
  BY DEF Clean, At, SameHistory, SameDisk
<1>4. TypeOK'
  BY <1>1, <1>2, <1>3 DEF RestoreInv, TypeOK
<1>5. PathsInv'
  BY <1>1, <1>3, PathFacts DEF RestoreInv, PathsInv, FromSoFar, Unused
<1>6. JournalInv'
  BY <1>1, <1>3, PathFacts DEF RestoreInv, JournalInv, Exists, LiveFile
<1>7. SafetyBackupFirst'
  BY <1>1, <1>3 DEF RestoreInv, SafetyBackupFirst, PathsInv
<1>8. NumberInv'
  BY <1>1, <1>2, <1>3, PathFacts DEF RestoreInv, NumberInv, Exists, CommandStage, TryStage, Early
<1>9. ForwardInv'
  BY <1>1, <1>2, <1>3, PathFacts DEF RestoreInv, ForwardInv, OwnJournal, Backup, LiveFile,
         TryStage, Forward, Staged, Journaled, Restored, Keyed
<1>10. BackInv'
  BY <1>2 DEF BackInv, Finishing
<1>11. ReachInv'
  BY <1>2, <1>3 DEF ReachInv, Reach, TryReach, UndoStage, StartStage, Early, Untouched, Finishing
<1>12. QED
  BY <1>4, <1>5, <1>6, <1>7, <1>8, <1>9, <1>10, <1>11 DEF RestoreInv

LEMMA CommitKeeps ==
    ASSUME RestoreInv, ReachInv, Commit
    PROVE  RestoreInv' /\ ReachInv'
<1>1. /\ disk' \in Disk /\ op.n \in Attempt /\ op' \in Process /\ op'.at = "idle"
      /\ \A r \in Path : disk'.files[r] = IF r = Staging(op.n) THEN NoFile ELSE disk.files[r]
      /\ disk'.journal = NoJournal /\ disk'.kind = disk.kind /\ disk'.key = disk.key
  <2>1. disk \in Disk /\ op.n \in Attempt /\ Ends
    BY DEF Commit, RestoreInv, TypeOK, NumberInv, CommandStage, TryStage
  <2>2. QED
    BY <2>1, EndsFacts
<1>2. /\ op.at \in {"commit", "finish-journal"} /\ owned' = LiveFile
      /\ UNCHANGED <<backups, tally, orderly>>
  BY DEF Commit
<1>3. /\ Backup \in Database /\ Backup # NoFile /\ Backup.key = op.key
  <2>1. op.at \in CommandStage
    BY <1>2 DEF CommandStage, TryStage
  <2>2. QED
    BY <2>1, BackupFacts
<1>4. owned' \in Database /\ Opens
  BY <1>2, <1>3, PathFacts DEF RestoreInv, TypeOK, Disk, ForwardInv, BackInv, Restored, Keyed,
         Finishing, Opens, CanOpen, Exists, LiveFile
<1>5. TypeOK'
  BY <1>1, <1>2, <1>3, <1>4 DEF RestoreInv, TypeOK
<1>6. PathsInv'
  BY <1>1, <1>2, PathFacts DEF RestoreInv, PathsInv, FromSoFar, Unused, LiveFile
<1>7. JournalInv'
  BY <1>1 DEF JournalInv
<1>8. SafetyBackupFirst'
  BY <1>1, <1>2, PathFacts DEF SafetyBackupFirst, LiveFile
<1>9. NumberInv'
  BY <1>1 DEF NumberInv, CommandStage, TryStage, UndoStage, Early
<1>10. ForwardInv'
  BY <1>1 DEF ForwardInv, TryStage, Early, Untouched, Forward, Staged, Journaled, Restored, Keyed
<1>11. BackInv'
  BY <1>1 DEF BackInv, Finishing
<1>12. ReachInv'
  BY <1>1, <1>2, <1>4, PathFacts DEF ReachInv, Reach, IdleReach, StartReach, InPlace, Opens,
         CanOpen, LiveFile, TryStage, UndoStage
<1>13. QED
  BY <1>5, <1>6, <1>7, <1>8, <1>9, <1>10, <1>11, <1>12 DEF RestoreInv

LEMMA UndoAsideKeeps ==
    ASSUME RestoreInv, ReachInv, UndoAside
    PROVE  RestoreInv' /\ ReachInv'
<1>1. /\ disk' \in Disk /\ op.n \in Attempt
      /\ disk'.journal = disk.journal /\ disk'.kind = disk.kind /\ disk'.key = disk.key
      /\ IF op.existing /\ Exists(Rollback(op.n))
         THEN /\ disk'.files[Live] = NoFile
              /\ disk'.files[Interrupted(op.n)] = disk.files[Live]
              /\ \A r \in Path \ {Live, Interrupted(op.n)} : disk'.files[r] = disk.files[r]
         ELSE disk' = disk
  <2>1. op.n \in Attempt /\ disk \in Disk /\ disk.files[Interrupted(op.n)] = NoFile
    BY DEF UndoAside, At, RestoreInv, TypeOK, NumberInv, ForwardInv, CommandStage, UndoStage,
           Forward
  <2>2. CASE op.existing /\ Exists(Rollback(op.n)) /\ Exists(Live)
    <3>1. Move(Live, Interrupted(op.n))
      BY <2>2 DEF UndoAside
    <3>2. QED
      BY <2>1, <2>2, <3>1, MoveFacts, PathFacts
  <2>3. CASE op.existing /\ Exists(Rollback(op.n)) /\ ~Exists(Live)
    BY <2>1, <2>3, PathFacts DEF UndoAside, SameDisk, Exists
  <2>4. CASE ~(op.existing /\ Exists(Rollback(op.n)))
    BY <2>1, <2>4 DEF UndoAside, SameDisk
  <2>5. QED
    BY <2>2, <2>3, <2>4
<1>2. /\ op' \in Process /\ op'.n = op.n /\ op'.key = op.key /\ op'.replace = op.replace
      /\ op'.existing = op.existing /\ op'.previous = op.previous
      /\ IF op.existing /\ Exists(Rollback(op.n)) THEN op'.at = "undo-back" ELSE op'.at = "undo-key"
  <2>1. {"undo-back", "undo-key"} \subseteq Stage
    BY DEF Stage, UndoStage
  <2>2. QED
    BY <2>1, GotoFacts DEF UndoAside, RestoreInv, TypeOK
<1>3. op.at = "undo-aside" /\ UNCHANGED <<owned, backups, tally, orderly>>
  BY DEF UndoAside, At, SameHistory, SameDisk
<1>4. TypeOK'
  BY <1>1, <1>2, <1>3 DEF RestoreInv, TypeOK
<1>5. PathsInv'
  BY <1>1, <1>3, PathFacts DEF RestoreInv, TypeOK, PathsInv, FromSoFar, Unused, NumberInv,
         CommandStage, UndoStage
<1>6. JournalInv'
  BY <1>1, <1>3 DEF RestoreInv, JournalInv, Exists, LiveFile
<1>7. SafetyBackupFirst'
  BY <1>1, <1>3, PathFacts DEF RestoreInv, SafetyBackupFirst, ForwardInv, Forward
<1>8. NumberInv'
  BY <1>1, <1>2, <1>3 DEF RestoreInv, NumberInv, OwnJournal, Exists, LiveFile, CommandStage,
         UndoStage, Early
<1>9. ForwardInv'
  BY <1>2 DEF ForwardInv, TryStage, Early, Untouched, Forward, Staged, Journaled, Restored, Keyed
<1>10. BackInv'
  BY <1>1, <1>2, PathFacts DEF BackInv, Exists, Finishing
<1>11. ReachInv'
  BY <1>1, <1>2, <1>3, PathFacts DEF ReachInv, Reach, UndoReach, InPlace, LiveFile, TryStage,
         UndoStage, StartStage
<1>12. QED
  BY <1>4, <1>5, <1>6, <1>7, <1>8, <1>9, <1>10, <1>11 DEF RestoreInv

LEMMA UndoBackKeeps ==
    ASSUME RestoreInv, ReachInv, UndoBack
    PROVE  RestoreInv' /\ ReachInv'
<1>1. /\ disk' \in Disk /\ disk'.files[Live] = disk.files[Rollback(op.n)] /\ disk'.files[Rollback(op.n)] = NoFile
      /\ \A r \in Path \ {Rollback(op.n), Live} : disk'.files[r] = disk.files[r]
      /\ disk'.journal = disk.journal /\ disk'.kind = disk.kind /\ disk'.key = disk.key
  <2>1. op.n \in Attempt /\ Move(Rollback(op.n), Live) /\ disk \in Disk
    BY DEF UndoBack, At, RestoreInv, TypeOK, NumberInv, CommandStage, TryStage, UndoStage
  <2>2. QED
    BY <2>1, MoveFacts, PathFacts DEF LiveFile
<1>2. /\ op' \in Process /\ op'.at = "undo-key"
      /\ op'.n = op.n /\ op'.key = op.key /\ op'.replace = op.replace
      /\ op'.existing = op.existing /\ op'.previous = op.previous
  <2>1. Goto("undo-key") /\ "undo-key" \in Stage
    BY DEF UndoBack, Stage, TryStage, UndoStage, StartStage
  <2>2. QED
    BY <2>1, GotoFacts DEF RestoreInv, TypeOK
<1>3. op.at = "undo-back" /\ UNCHANGED <<owned, backups, tally, orderly>>
  BY DEF UndoBack, At, SameHistory, SameDisk
<1>4. op.n \in Attempt
  BY <1>3 DEF RestoreInv, NumberInv, CommandStage, UndoStage
<1>5. TypeOK'
  BY <1>1, <1>2, <1>3, <1>4 DEF RestoreInv, TypeOK
<1>6. PathsInv'
  BY <1>1, <1>3, <1>4, PathFacts DEF RestoreInv, PathsInv, FromSoFar, Unused
<1>7. JournalInv'
  BY <1>1, <1>3 DEF RestoreInv, JournalInv, NumberInv, BackInv, OwnJournal, Exists, CommandStage,
         UndoStage
<1>8. SafetyBackupFirst'
  BY <1>1, <1>3, PathFacts DEF RestoreInv, SafetyBackupFirst, NumberInv, BackInv, LiveFile,
         CommandStage, UndoStage
<1>9. NumberInv'
  BY <1>1, <1>2, <1>3 DEF RestoreInv, NumberInv, Exists, CommandStage, UndoStage, Early
<1>10. ForwardInv'
  BY <1>1, <1>2 DEF ForwardInv, TryStage, Forward, Staged, Journaled, Restored, Keyed
<1>11. BackInv'
  BY <1>2 DEF BackInv, Finishing
<1>12. ReachInv'
  BY <1>1, <1>2, <1>3 DEF ReachInv, Reach, UndoReach, LiveFile, TryStage, UndoStage, StartStage
<1>13. QED
  BY <1>5, <1>6, <1>7, <1>8, <1>9, <1>10, <1>11, <1>12 DEF RestoreInv

LEMMA UndoKeyKeeps ==
    ASSUME RestoreInv, ReachInv, UndoKey
    PROVE  RestoreInv' /\ ReachInv'
<1>1. /\ disk' \in Disk /\ disk'.files = disk.files /\ disk'.journal = disk.journal
      /\ disk'.kind = disk.kind
      /\ disk'.key = IF op.previous = NoKey \/ disk.kind = "secret-file"
                     THEN disk.key ELSE op.previous
  <2> DEFINE k == IF op.previous = NoKey \/ disk.kind = "secret-file"
                   THEN disk.key ELSE op.previous
  <2>1. disk \in Disk /\ k \in Key \cup {NoKey}
    BY DEF RestoreInv, TypeOK, Process, Disk
  <2>2. disk' = [disk EXCEPT !.key = k]
    BY DEF UndoKey
  <2> HIDE DEF k
  <2>3. disk' \in Disk /\ disk'.files = disk.files /\ disk'.journal = disk.journal
        /\ disk'.kind = disk.kind /\ disk'.key = k
    BY <2>1, <2>2, KeyFacts
  <2>4. QED
    BY <2>3 DEF k
<1>2. /\ op' \in Process /\ op'.at = "undo-journal"
      /\ op'.n = op.n /\ op'.key = op.key /\ op'.replace = op.replace
      /\ op'.existing = op.existing /\ op'.previous = op.previous
  <2>1. Goto("undo-journal") /\ "undo-journal" \in Stage
    BY DEF UndoKey, Stage, TryStage, UndoStage, StartStage
  <2>2. QED
    BY <2>1, GotoFacts DEF RestoreInv, TypeOK
<1>3. op.at = "undo-key" /\ UNCHANGED <<owned, backups, tally, orderly>>
  BY DEF UndoKey, At, SameHistory, SameDisk
<1>4. TypeOK'
  BY <1>1, <1>2, <1>3 DEF RestoreInv, TypeOK
<1>5. PathsInv'
  BY <1>1, <1>3 DEF RestoreInv, PathsInv, FromSoFar, Unused
<1>6. JournalInv'
  BY <1>1, <1>3 DEF RestoreInv, JournalInv, Exists, LiveFile
<1>7. SafetyBackupFirst'
  BY <1>1, <1>3 DEF RestoreInv, SafetyBackupFirst
<1>8. NumberInv'
  BY <1>1, <1>2, <1>3 DEF RestoreInv, NumberInv, OwnJournal, Exists, LiveFile, CommandStage,
         UndoStage, Early
<1>9. ForwardInv'
  BY <1>2 DEF ForwardInv, TryStage, Early, Untouched, Forward, Staged, Journaled, Restored, Keyed
<1>10. BackInv'
  BY <1>2 DEF BackInv, Finishing
<1>11. ReachInv'
  BY <1>1, <1>2, <1>3 DEF ReachInv, Reach, UndoReach, StartReach, InPlace, LiveFile, TryStage,
         UndoStage
<1>12. QED
  BY <1>4, <1>5, <1>6, <1>7, <1>8, <1>9, <1>10, <1>11 DEF RestoreInv

LEMMA UndoJournalKeeps ==
    ASSUME RestoreInv, ReachInv, UndoJournal
    PROVE  RestoreInv' /\ ReachInv'
<1>1. /\ disk' \in Disk /\ op.n \in Attempt /\ op' \in Process /\ op'.at = "idle"
      /\ \A r \in Path : disk'.files[r] = IF r = Staging(op.n) THEN NoFile ELSE disk.files[r]
      /\ disk'.journal = NoJournal /\ disk'.kind = disk.kind /\ disk'.key = disk.key
  <2>1. disk \in Disk /\ op.n \in Attempt /\ Ends
    BY DEF UndoJournal, At, RestoreInv, TypeOK, NumberInv, CommandStage, UndoStage
  <2>2. QED
    BY <2>1, EndsFacts
<1>2. op.at = "undo-journal" /\ UNCHANGED <<owned, backups, tally, orderly>>
  BY DEF UndoJournal, At, SameHistory, SameDisk
<1>3. TypeOK'
  BY <1>1, <1>2 DEF RestoreInv, TypeOK
<1>4. PathsInv'
  BY <1>1, <1>2, PathFacts DEF RestoreInv, PathsInv, FromSoFar, Unused
<1>5. JournalInv'
  BY <1>1 DEF JournalInv
<1>6. SafetyBackupFirst'
  BY <1>1, <1>2 DEF RestoreInv, SafetyBackupFirst, PathsInv, NumberInv, CommandStage, UndoStage
<1>7. NumberInv'
  BY <1>1 DEF NumberInv, CommandStage, TryStage, UndoStage, Early
<1>8. ForwardInv'
  BY <1>1 DEF ForwardInv, TryStage, Early, Untouched, Forward, Staged, Journaled, Restored, Keyed
<1>9. BackInv'
  BY <1>1 DEF BackInv, Finishing
<1>10. ReachInv'
  BY <1>1, <1>2, PathFacts DEF ReachInv, Reach, IdleReach, UndoReach, StartReach, InPlace,
         LiveFile, TryStage, UndoStage
<1>11. QED
  BY <1>3, <1>4, <1>5, <1>6, <1>7, <1>8, <1>9, <1>10 DEF RestoreInv

LEMMA StartFinalizesKeeps ==
    ASSUME RestoreInv, ReachInv, StartFinalizes
    PROVE  RestoreInv' /\ ReachInv'
<1>1. /\ disk' \in Disk /\ disk.journal.rollback \in Path \cup {NoFile}
      /\ disk.journal # NoJournal /\ Opens
      /\ \A r \in Path : disk'.files[r] = IF r = disk.journal.rollback THEN NoFile ELSE disk.files[r]
      /\ disk'.journal = disk.journal /\ disk'.kind = disk.kind /\ disk'.key = disk.key
  <2>1. disk \in Disk /\ disk.journal # NoJournal /\ Opens /\ Remove(disk.journal.rollback)
    BY DEF StartFinalizes, Finalizes, RestoreInv, TypeOK
  <2>2. disk.journal.rollback \in Path \cup {NoFile}
    BY <2>1 DEF Disk, Journal
  <2>3. QED
    BY <2>1, <2>2, RemoveFacts
<1>2. /\ op' \in Process /\ op'.at = "start-journal"
      /\ op'.n = op.n /\ op'.key = op.key /\ op'.replace = op.replace
      /\ op'.existing = op.existing /\ op'.previous = op.previous
  <2>1. Goto("start-journal") /\ "start-journal" \in Stage
    BY DEF StartFinalizes, Stage, TryStage, UndoStage, StartStage
  <2>2. QED
    BY <2>1, GotoFacts DEF RestoreInv, TypeOK
<1>3. /\ op.at = "idle" /\ owned' = LiveFile /\ LiveFile \in Database
      /\ UNCHANGED <<backups, tally, orderly>>
  BY <1>1, PathFacts DEF StartFinalizes, At, RestoreInv, TypeOK, Disk, Opens, CanOpen, Exists,
         LiveFile
<1>4. disk.journal.rollback # Live
  BY <1>1, PathFacts DEF RestoreInv, JournalInv
<1>5. TypeOK'
  BY <1>1, <1>2, <1>3, <1>4 DEF RestoreInv, TypeOK
<1>6. PathsInv'
  BY <1>1, <1>3, PathFacts DEF RestoreInv, PathsInv, FromSoFar, Unused, LiveFile
<1>7. JournalInv'
  BY <1>1, <1>3 DEF RestoreInv, JournalInv, Exists
<1>8. SafetyBackupFirst'
  BY <1>1, <1>3, <1>4, PathFacts DEF SafetyBackupFirst, LiveFile
<1>9. NumberInv'
  BY <1>2 DEF NumberInv, CommandStage, TryStage, UndoStage, Early
<1>10. ForwardInv'
  BY <1>2 DEF ForwardInv, TryStage, Early, Untouched, Forward, Staged, Journaled, Restored, Keyed
<1>11. BackInv'
  BY <1>2 DEF BackInv, Finishing
<1>12. ReachInv'
  BY <1>1, <1>2, <1>3, <1>4, PathFacts DEF ReachInv, Reach, StartReach, InPlace, Opens, CanOpen,
         LiveFile, TryStage, UndoStage
<1>13. QED
  BY <1>5, <1>6, <1>7, <1>8, <1>9, <1>10, <1>11, <1>12 DEF RestoreInv

LEMMA StartRollsBackKeeps ==
    ASSUME RestoreInv, ReachInv, StartRollsBack
    PROVE  RestoreInv' /\ ReachInv'
<1>1. /\ disk' \in Disk /\ disk.journal # NoJournal /\ ~Opens
      /\ CanOpen(disk.journal.rollback, disk.key)
      /\ disk'.journal = disk.journal /\ disk'.kind = disk.kind /\ disk'.key = disk.key
      /\ disk'.files[Live] = NoFile
      /\ disk.files[Live] # NoFile => disk.files[disk.journal.interrupted] = NoFile
      /\ disk'.files[disk.journal.interrupted] =
            IF disk.files[Live] # NoFile THEN disk.files[Live]
            ELSE disk.files[disk.journal.interrupted]
      /\ \A r \in Path \ {Live, disk.journal.interrupted} : disk'.files[r] = disk.files[r]
  <2>1. disk \in Disk /\ RollsBack
    BY DEF StartRollsBack, RestoreInv, TypeOK
  <2>2. /\ disk.journal # NoJournal /\ ~Opens /\ CanOpen(disk.journal.rollback, disk.key)
        /\ Exists(disk.journal.rollback)
    BY <2>1 DEF RollsBack, CanOpen
  <2>3. PICK m \in Attempt : disk.journal.interrupted = Interrupted(m)
    BY <2>2 DEF RestoreInv, JournalInv
  <2>4. /\ Interrupted(m) \in Path /\ Interrupted(m) # Live /\ Live \in Path
        /\ Interrupted(m) # NoFile /\ Live # NoFile
    BY PathFacts
  <2>5. disk.files[Live] # NoFile => disk.files[Interrupted(m)] = NoFile
    BY <2>2, <2>3, <2>4 DEF RestoreInv, JournalInv, Exists, LiveFile
  <2>6. CASE disk.files[Live] # NoFile
    <3>1. Move(Live, Interrupted(m))
      BY <2>3, <2>4, <2>6 DEF StartRollsBack, Exists
    <3>2. QED
      BY <2>1, <2>2, <2>3, <2>4, <2>5, <2>6, <3>1, MoveFacts
  <2>7. CASE disk.files[Live] = NoFile
    BY <2>1, <2>2, <2>3, <2>4, <2>7 DEF StartRollsBack, Exists, SameDisk
  <2>8. QED
    BY <2>6, <2>7
<1>2. /\ op' \in Process /\ op'.at = "start-back"
      /\ op'.n = op.n /\ op'.key = op.key /\ op'.replace = op.replace
      /\ op'.existing = op.existing /\ op'.previous = op.previous
  <2>1. Goto("start-back") /\ "start-back" \in Stage
    BY DEF StartRollsBack, Stage, TryStage, UndoStage, StartStage
  <2>2. QED
    BY <2>1, GotoFacts DEF RestoreInv, TypeOK
<1>3. op.at = "idle" /\ UNCHANGED <<owned, backups, tally, orderly>>
  BY DEF StartRollsBack, At, SameHistory, SameDisk
<1>4. \E m \in Attempt : m \in 0..tally.restores /\ disk.journal.interrupted = Interrupted(m)
  BY <1>1 DEF RestoreInv, JournalInv
<1>5. \E m \in Attempt : disk.journal.rollback \in {Rollback(m), NoFile}
  BY <1>1 DEF RestoreInv, JournalInv
<1>6. /\ disk'.files[disk.journal.rollback] = disk.files[disk.journal.rollback]
      /\ disk.journal.rollback # NoFile /\ disk.files[disk.journal.rollback] # NoFile
  BY <1>1, <1>4, <1>5, PathFacts DEF CanOpen, Exists
<1>7. TypeOK'
  BY <1>1, <1>2, <1>3, <1>4, <1>5, <1>6 DEF RestoreInv, TypeOK
<1>8. PathsInv'
  <2>1. PICK m \in Attempt : m \in 0..tally.restores /\ disk.journal.interrupted = Interrupted(m)
    BY <1>4
  <2>2. \A n \in Attempt : /\ disk'.files[Staging(n)] = disk.files[Staging(n)]
                            /\ disk'.files[Rollback(n)] = disk.files[Rollback(n)]
    BY <1>1, <2>1, PathFacts
  <2>3. \A n \in Attempt : disk'.files[Interrupted(n)] =
          IF n = m /\ disk.files[Live] # NoFile THEN disk.files[Live] ELSE disk.files[Interrupted(n)]
    BY <1>1, <2>1, PathFacts
  <2>4. \A p \in Path : FromSoFar(disk'.files[p])
    <3>1. \A p \in Path : FromSoFar(disk.files[p])
      BY DEF RestoreInv, PathsInv
    <3>2. \A p \in Path : disk'.files[p] \in {disk.files[p], disk.files[Live], NoFile}
      BY <1>1, <2>1, PathFacts
    <3>3. QED
      BY <3>1, <3>2, PathFacts DEF FromSoFar
  <2>5. QED
    BY <1>3, <2>1, <2>2, <2>3, <2>4 DEF RestoreInv, PathsInv, FromSoFar, Unused
<1>9. JournalInv'
  BY <1>1, <1>3 DEF RestoreInv, JournalInv, LiveFile
<1>10. SafetyBackupFirst'
  BY <1>1, <1>3, <1>4, PathFacts DEF RestoreInv, SafetyBackupFirst
<1>11. NumberInv'
  BY <1>2 DEF NumberInv, CommandStage, TryStage, UndoStage, Early
<1>12. ForwardInv'
  BY <1>2 DEF ForwardInv, TryStage, Early, Untouched, Forward, Staged, Journaled, Restored, Keyed
<1>13. BackInv'
  BY <1>1, <1>2, <1>6 DEF BackInv, Exists, LiveFile, Finishing
<1>14. ReachInv'
  BY <1>1, <1>2, <1>3, <1>6 DEF ReachInv, Reach, IdleReach, StartReach, Displaced, Exists,
         TryStage, UndoStage
<1>15. QED
  BY <1>7, <1>8, <1>9, <1>10, <1>11, <1>12, <1>13, <1>14 DEF RestoreInv

LEMMA StartMovesBackKeeps ==
    ASSUME RestoreInv, ReachInv, StartMovesBack
    PROVE  RestoreInv' /\ ReachInv'
<1>1. /\ disk' \in Disk /\ disk.journal # NoJournal
      /\ disk'.files[Live] = disk.files[disk.journal.rollback]
      /\ disk'.files[disk.journal.rollback] = NoFile
      /\ \A r \in Path \ {Live, disk.journal.rollback} : disk'.files[r] = disk.files[r]
      /\ disk'.journal = disk.journal /\ disk'.kind = disk.kind /\ disk'.key = disk.key
  <2>1. disk \in Disk /\ disk.journal # NoJournal /\ Exists(disk.journal.rollback)
        /\ Move(disk.journal.rollback, Live)
    BY DEF StartMovesBack, At, RestoreInv, TypeOK, BackInv
  <2>2. PICK m \in Attempt : disk.journal.rollback = Rollback(m)
    BY <2>1 DEF RestoreInv, JournalInv, Exists
  <2>3. QED
    BY <2>1, <2>2, MoveFacts, PathFacts
<1>2. /\ op' \in Process /\ op'.at = "start-journal"
      /\ op'.n = op.n /\ op'.key = op.key /\ op'.replace = op.replace
      /\ op'.existing = op.existing /\ op'.previous = op.previous
  <2>1. Goto("start-journal") /\ "start-journal" \in Stage
    BY DEF StartMovesBack, Stage, TryStage, UndoStage, StartStage
  <2>2. QED
    BY <2>1, GotoFacts DEF RestoreInv, TypeOK
<1>3. op.at = "start-back" /\ UNCHANGED <<owned, backups, tally, orderly>>
  BY DEF StartMovesBack, At, SameHistory, SameDisk
<1>4. \E m \in Attempt : disk.journal.rollback = Rollback(m)
  BY <1>1, <1>3 DEF RestoreInv, JournalInv, BackInv, Exists
<1>5. TypeOK'
  BY <1>1, <1>2, <1>3, <1>4 DEF RestoreInv, TypeOK
<1>6. PathsInv'
  BY <1>1, <1>3, <1>4, PathFacts DEF RestoreInv, PathsInv, FromSoFar, Unused
<1>7. JournalInv'
  BY <1>1, <1>3 DEF RestoreInv, JournalInv, Exists
<1>8. SafetyBackupFirst'
  BY <1>1, <1>3, PathFacts DEF RestoreInv, SafetyBackupFirst, BackInv, LiveFile
<1>9. NumberInv'
  BY <1>2 DEF NumberInv, CommandStage, TryStage, UndoStage, Early
<1>10. ForwardInv'
  BY <1>2 DEF ForwardInv, TryStage, Early, Untouched, Forward, Staged, Journaled, Restored, Keyed
<1>11. BackInv'
  BY <1>2 DEF BackInv, Finishing
<1>12. ReachInv'
  BY <1>1, <1>2, <1>3 DEF ReachInv, Reach, StartReach, InPlace, Displaced, LiveFile, TryStage,
         UndoStage, StartStage
<1>13. QED
  BY <1>5, <1>6, <1>7, <1>8, <1>9, <1>10, <1>11, <1>12 DEF RestoreInv

LEMMA StartRemovesJournalKeeps ==
    ASSUME RestoreInv, ReachInv, StartRemovesJournal
    PROVE  RestoreInv' /\ ReachInv'
<1>1. /\ disk' \in Disk /\ disk'.files = disk.files /\ disk'.journal = NoJournal
      /\ disk'.kind = disk.kind /\ disk'.key = disk.key
  BY JournalFacts DEF StartRemovesJournal, RestoreInv, TypeOK
<1>2. /\ op' \in Process /\ op'.at = "start-open"
      /\ op'.n = op.n /\ op'.key = op.key /\ op'.replace = op.replace
      /\ op'.existing = op.existing /\ op'.previous = op.previous
  <2>1. Goto("start-open") /\ "start-open" \in Stage
    BY DEF StartRemovesJournal, Stage, TryStage, UndoStage, StartStage
  <2>2. QED
    BY <2>1, GotoFacts DEF RestoreInv, TypeOK
<1>3. op.at = "start-journal" /\ UNCHANGED <<owned, backups, tally, orderly>>
  BY DEF StartRemovesJournal, At, SameHistory, SameDisk
<1>4. TypeOK'
  BY <1>1, <1>2, <1>3 DEF RestoreInv, TypeOK
<1>5. PathsInv'
  BY <1>1, <1>3 DEF RestoreInv, PathsInv, FromSoFar, Unused
<1>6. JournalInv'
  BY <1>1 DEF JournalInv
<1>7. SafetyBackupFirst'
  BY <1>1, <1>3 DEF RestoreInv, SafetyBackupFirst
<1>8. NumberInv'
  BY <1>2 DEF NumberInv, CommandStage, TryStage, UndoStage, Early
<1>9. ForwardInv'
  BY <1>2 DEF ForwardInv, TryStage, Early, Untouched, Forward, Staged, Journaled, Restored, Keyed
<1>10. BackInv'
  BY <1>1, <1>2 DEF BackInv, Finishing
<1>11. ReachInv'
  BY <1>1, <1>2, <1>3 DEF ReachInv, Reach, StartReach, InPlace, LiveFile, TryStage, UndoStage,
         StartStage
<1>12. QED
  BY <1>4, <1>5, <1>6, <1>7, <1>8, <1>9, <1>10, <1>11 DEF RestoreInv

LEMMA StartOpensKeeps ==
    ASSUME RestoreInv, ReachInv, StartOpens
    PROVE  RestoreInv' /\ ReachInv'
<1>1. op' \in Process /\ op'.at = "idle"
  BY IdleFacts DEF StartOpens
<1>2. /\ op.at = "start-open" \/ (op.at = "idle" /\ disk.journal = NoJournal)
      /\ disk.journal = NoJournal /\ Opens /\ owned' = LiveFile /\ LiveFile \in Database
      /\ UNCHANGED <<disk, backups, tally, orderly>>
  BY PathFacts DEF StartOpens, At, RestoreInv, TypeOK, BackInv, Disk, Opens, CanOpen, Exists,
         LiveFile
<1>3. TypeOK'
  BY <1>1, <1>2 DEF RestoreInv, TypeOK
<1>4. PathsInv'
  BY <1>2, PathFacts DEF RestoreInv, PathsInv, FromSoFar, Unused, LiveFile
<1>5. JournalInv'
  BY <1>2 DEF JournalInv
<1>6. SafetyBackupFirst'
  BY <1>2, PathFacts DEF SafetyBackupFirst, LiveFile
<1>7. NumberInv'
  BY <1>1 DEF NumberInv, CommandStage, TryStage, UndoStage, Early
<1>8. ForwardInv'
  BY <1>1 DEF ForwardInv, TryStage, Early, Untouched, Forward, Staged, Journaled, Restored, Keyed
<1>9. BackInv'
  BY <1>1 DEF BackInv, Finishing
<1>10. ReachInv'
  BY <1>1, <1>2 DEF ReachInv, Reach, IdleReach, StartReach, InPlace, Opens, CanOpen, LiveFile,
         TryStage, UndoStage
<1>11. QED
  BY <1>3, <1>4, <1>5, <1>6, <1>7, <1>8, <1>9, <1>10 DEF RestoreInv

LEMMA CrashKeeps ==
    ASSUME RestoreInv, ReachInv, Crash
    PROVE  RestoreInv' /\ ReachInv'
<1>1. op' \in Process /\ op'.at = "idle"
  BY IdleFacts DEF Crash
<1>2. /\ op.at # "idle" /\ op.at \in Stage /\ UNCHANGED <<disk, owned, backups>>
      /\ tally' \in [restores : 0..MaxRestores, crashes : 0..MaxCrashes, errors : 0..MaxErrors]
      /\ tally'.restores = tally.restores /\ tally'.errors = tally.errors
      /\ orderly' \in BOOLEAN /\ (orderly' => orderly /\ tally.errors = 0)
  <2>1. tally.crashes + 1 \in 0..MaxCrashes
    BY RestoreAssumption DEF Crash, RestoreInv, TypeOK
  <2>2. tally' \in [restores : 0..MaxRestores, crashes : 0..MaxCrashes, errors : 0..MaxErrors]
        /\ tally'.restores = tally.restores /\ tally'.errors = tally.errors
    BY <2>1 DEF Crash, RestoreInv, TypeOK
  <2>3. op.at # "idle" /\ op.at \in Stage /\ UNCHANGED <<disk, owned, backups>>
    BY DEF Crash, At, RestoreInv, TypeOK, Process
  <2>4. orderly' \in BOOLEAN /\ (orderly' => orderly /\ tally.errors = 0)
    BY DEF Crash, RestoreInv, TypeOK
  <2>5. QED
    BY <2>2, <2>3, <2>4
<1>3. TypeOK'
  BY <1>1, <1>2 DEF RestoreInv, TypeOK
<1>4. PathsInv' /\ JournalInv' /\ SafetyBackupFirst'
  BY <1>1, <1>2, SameDiskKeeps
<1>5. NumberInv'
  BY <1>1 DEF NumberInv, CommandStage, TryStage, UndoStage, Early
<1>6. ForwardInv'
  BY <1>1 DEF ForwardInv, TryStage, Early, Untouched, Forward, Staged, Journaled, Restored, Keyed
<1>7. BackInv'
  BY <1>1 DEF BackInv, Finishing
<1>8. ReachInv'
  <2>1. ASSUME orderly', owned # NoFile PROVE IdleReach
    <3>1. Reach /\ orderly /\ tally.errors = 0
      BY <1>2, <2>1 DEF ReachInv
    <3>2. InPlace => IdleReach
      BY <2>1, PathFacts DEF InPlace, IdleReach, Opens, CanOpen, Exists, LiveFile
    <3>3. CASE op.at \in {"verify", "finish-key", "finish-files", "finish-journal", "extract",
                         "guard", "safety", "journal", "displace"}
      BY <3>1, <3>2, <3>3 DEF Reach, TryReach, TryStage, Untouched, Early
    <3>4. CASE op.at \in {"install", "key"}
      <4>1. op.existing /\ disk.files[Rollback(op.n)] = owned /\ disk.key = owned.key
        BY <3>1, <3>4 DEF Reach, TryReach, TryStage
      <4>2. OwnJournal /\ op.n \in Attempt
        BY <3>4 DEF RestoreInv, ForwardInv, NumberInv, Journaled, CommandStage, TryStage
      <4>3. QED
        BY <2>1, <4>1, <4>2, PathFacts DEF OwnJournal, IdleReach, Displaced, Exists
    <3>5. CASE op.at \in Keyed
      <4>1. op.at \in CommandStage /\ LiveFile = Backup /\ disk.key = op.key /\ OwnJournal
        BY <3>5 DEF RestoreInv, ForwardInv, Keyed, Restored, Journaled, CommandStage, TryStage
      <4>2. Opens
        BY <4>1, BackupFacts, PathFacts DEF Opens, CanOpen, Exists, LiveFile
      <4>3. QED
        BY <4>1, <4>2 DEF IdleReach, OwnJournal
    <3>6. CASE op.at \in UndoStage
      <4>1. op.n \in Attempt /\ (Exists(Rollback(op.n)) => op.existing /\ OwnJournal)
        BY <3>6 DEF RestoreInv, NumberInv, CommandStage
      <4>2. UndoReach /\ disk.key = owned.key
        BY <3>1, <3>6 DEF Reach, UndoReach
      <4>3. CASE disk.files[Rollback(op.n)] = owned
        BY <2>1, <4>1, <4>2, <4>3, PathFacts DEF OwnJournal, IdleReach, Displaced, Exists
      <4>4. CASE LiveFile = owned
        BY <3>2, <4>2, <4>4 DEF InPlace
      <4>5. QED
        BY <3>6, <4>2, <4>3, <4>4 DEF UndoReach, UndoStage, InPlace
    <3>7. CASE op.at \in StartStage
      BY <3>1, <3>2, <3>7 DEF Reach, StartReach, IdleReach, RestoreInv, BackInv, StartStage
    <3>8. QED
      BY <1>2, <3>3, <3>4, <3>5, <3>6, <3>7 DEF Stage, TryStage, Keyed
  <2>2. IdleReach' = IdleReach
    BY <1>2 DEF IdleReach, InPlace, Opens, CanOpen, Displaced, Exists, LiveFile
  <2>3. QED
    BY <1>1, <1>2, <2>1, <2>2 DEF ReachInv, Reach, TryStage, UndoStage, StartStage
<1>9. QED
  BY <1>3, <1>4, <1>5, <1>6, <1>7, <1>8 DEF RestoreInv

LEMMA StepFailsKeeps ==
    ASSUME RestoreInv, ReachInv, StepFails
    PROVE  RestoreInv' /\ ReachInv'
<1>1. /\ op' \in Process /\ op'.n = op.n /\ op'.key = op.key /\ op'.replace = op.replace
      /\ op'.existing = op.existing /\ op'.previous = op.previous
      /\ \/ op.at \in TryStage /\ op'.at = "undo-aside"
         \/ op.at = "undo-aside" /\ op.existing /\ Exists(Rollback(op.n)) /\ op'.at = "undo-back"
         \/ op.at = "undo-back" /\ op'.at = "undo-key"
         \/ op.at = "undo-key" /\ op'.at = "undo-journal"
  <2>1. UndoStage \subseteq Stage /\ op \in Process
    BY DEF Stage, RestoreInv, TypeOK
  <2>2. QED
    BY <2>1, GotoFacts DEF StepFails, Throws, At, UndoStage
<1>2. /\ UNCHANGED <<disk, owned, backups>>
      /\ tally' \in [restores : 0..MaxRestores, crashes : 0..MaxCrashes, errors : 0..MaxErrors]
      /\ tally'.restores = tally.restores /\ tally'.crashes = tally.crashes
      /\ tally'.errors = tally.errors + 1 /\ tally.errors \in Nat
      /\ orderly' \in BOOLEAN
      /\ (orderly' => orderly /\ tally.crashes = 0 /\ op.at \in TryStage \ {"commit"})
  <2>1. tally.errors + 1 \in 0..MaxErrors /\ tally.errors \in Nat
    BY RestoreAssumption DEF StepFails, RestoreInv, TypeOK
  <2>2. tally' \in [restores : 0..MaxRestores, crashes : 0..MaxCrashes, errors : 0..MaxErrors]
        /\ tally'.restores = tally.restores /\ tally'.crashes = tally.crashes
        /\ tally'.errors = tally.errors + 1
    BY <2>1 DEF StepFails, RestoreInv, TypeOK
  <2>3. UNCHANGED <<disk, owned, backups>>
    BY DEF StepFails
  <2>4. orderly' \in BOOLEAN
        /\ (orderly' => orderly /\ tally.crashes = 0 /\ op.at \in TryStage \ {"commit"})
    BY DEF StepFails, RestoreInv, TypeOK
  <2>5. QED
    BY <2>1, <2>2, <2>3, <2>4
<1>3. TypeOK'
  BY <1>1, <1>2 DEF RestoreInv, TypeOK
<1>4. PathsInv' /\ JournalInv' /\ SafetyBackupFirst'
  BY <1>1, <1>2, SameDiskKeeps
<1>5. NumberInv'
  BY <1>1, <1>2 DEF RestoreInv, NumberInv, OwnJournal, Exists, LiveFile, CommandStage, UndoStage,
         Early
<1>6. ForwardInv'
  BY <1>1, <1>2 DEF RestoreInv, ForwardInv, TryStage, Early, Untouched, Forward, Staged,
         Journaled, Restored, Keyed
<1>7. BackInv'
  BY <1>1, <1>2 DEF BackInv, Exists, Finishing
<1>8. ReachInv'
  <2>1. ASSUME orderly', owned # NoFile PROVE UndoReach' /\ op'.at = "undo-aside"
    <3>1. Reach /\ orderly /\ op.at \in TryStage \ {"commit"} /\ op'.at = "undo-aside"
      BY <1>1, <1>2, <2>1 DEF ReachInv, TryStage
    <3>2. TryReach
      BY <3>1 DEF Reach
    <3>3. op'.previous \in {NoKey, owned.key} /\ (op'.previous = NoKey => disk.key = owned.key)
      <4>1. CASE op.at \in Early \cup {"guard"}
        BY <1>1, <3>2, <4>1 DEF TryReach, InPlace, RestoreInv, NumberInv, ForwardInv, Untouched
      <4>2. CASE op.at \in {"safety", "journal", "displace", "install", "key", "migrate", "clean"}
        <5>1. owned.key # NoKey
          BY <2>1, RestoreAssumption DEF RestoreInv, TypeOK, Database
        <5>2. QED
          BY <1>1, <3>2, <4>2, <5>1 DEF TryReach
      <4>3. QED
        BY <3>1, <4>1, <4>2 DEF TryStage, Early
    <3>4. disk.kind = "secret-file" => disk.key = owned.key
      BY <3>1, <3>2 DEF TryReach
    <3>5. IF op.existing /\ Exists(Rollback(op.n)) THEN disk.files[Rollback(op.n)] = owned ELSE InPlace
      <4>1. CASE op.at \in Untouched
        BY <3>2, <4>1 DEF TryReach, RestoreInv, ForwardInv, Exists
      <4>2. CASE op.at \in {"install", "key", "migrate", "clean"}
        <5>1. op.n \in Attempt
          BY <3>1 DEF RestoreInv, NumberInv, CommandStage
        <5>2. QED
          BY <2>1, <3>2, <4>2, <5>1, PathFacts DEF TryReach, Exists
      <4>3. QED
        BY <3>1, <4>1, <4>2 DEF TryStage, Untouched, Early
    <3>6. tally'.errors # 0
      BY <1>2
    <3>7. QED
      BY <1>1, <1>2, <3>1, <3>3, <3>4, <3>5, <3>6 DEF UndoReach, InPlace, Exists, LiveFile
  <2>2. QED
    BY <1>2, <2>1 DEF ReachInv, Reach, TryStage, UndoStage, StartStage
<1>9. QED
  BY <1>3, <1>4, <1>5, <1>6, <1>7, <1>8 DEF RestoreInv

LEMMA InvStarts == Init => RestoreInv /\ ReachInv
<1> SUFFICES ASSUME Init PROVE RestoreInv /\ ReachInv
  OBVIOUS
<1>1. PICK kind \in {"keyring", "secret-file"}, k \in Key, found \in BOOLEAN :
        /\ owned = IF found THEN [from |-> 0, key |-> k] ELSE NoFile
        /\ disk = [files |-> [p \in Path |-> IF p = Live THEN owned ELSE NoFile],
                   journal |-> NoJournal, kind |-> kind,
                   key |-> IF found \/ kind = "secret-file" THEN k ELSE NoKey]
  BY DEF Init
<1>2. /\ op = Idle /\ op.at = "idle" /\ op \in Process /\ backups = {} /\ orderly = TRUE
      /\ tally = [restores |-> 0, crashes |-> 0, errors |-> 0]
  BY IdleFacts DEF Init
<1>3. owned \in Database \cup {NoFile} /\ (owned # NoFile => owned.from = 0 /\ owned.key = k /\ found)
  BY <1>1, NamesAssumption, RestoreAssumption DEF Database
<1>4. /\ \A p \in Path : disk.files[p] = IF p = Live THEN owned ELSE NoFile
      /\ disk.journal = NoJournal
      /\ disk.key = IF found \/ kind = "secret-file" THEN k ELSE NoKey
  BY <1>1
<1>5. disk \in Disk
  <2>1. [p \in Path |-> IF p = Live THEN owned ELSE NoFile] \in [Path -> Database \cup {NoFile}]
    BY <1>3
  <2>2. (IF found \/ kind = "secret-file" THEN k ELSE NoKey) \in Key \cup {NoKey}
    OBVIOUS
  <2>3. QED
    BY <1>1, <2>1, <2>2 DEF Disk
<1>6. /\ tally.restores = 0 /\ tally.crashes = 0 /\ tally.errors = 0
      /\ tally \in [restores : 0..MaxRestores, crashes : 0..MaxCrashes, errors : 0..MaxErrors]
  BY <1>2, RestoreAssumption
<1>7. TypeOK
  BY <1>2, <1>3, <1>5, <1>6 DEF TypeOK
<1>8. PathsInv /\ JournalInv /\ SafetyBackupFirst
  <2>1. \A m \in Attempt : Unused(m)
    BY <1>4, PathFacts DEF Unused
  <2>2. FromSoFar(owned) /\ \A p \in Path : FromSoFar(disk.files[p])
    BY <1>3, <1>4, <1>6 DEF FromSoFar
  <2>3. QED
    BY <1>4, <2>1, <2>2, PathFacts DEF PathsInv, JournalInv, SafetyBackupFirst, Unused
<1>9. NumberInv /\ ForwardInv /\ BackInv
  BY <1>2 DEF NumberInv, ForwardInv, BackInv, CommandStage, TryStage, UndoStage, Early, Untouched,
         Forward, Staged, Journaled, Restored, Keyed, Finishing
<1>10. ReachInv
  BY <1>2, <1>3, <1>4, PathFacts DEF ReachInv, Reach, IdleReach, InPlace, LiveFile, TryStage,
         UndoStage, StartStage
<1>11. QED
  BY <1>7, <1>8, <1>9, <1>10 DEF RestoreInv

LEMMA StutterKeeps ==
    ASSUME RestoreInv, ReachInv, UNCHANGED vars
    PROVE  RestoreInv' /\ ReachInv'
<1>1. PathsInv' /\ JournalInv' /\ SafetyBackupFirst'
  BY SameDiskKeeps DEF vars
<1>2. TypeOK' /\ NumberInv' /\ ForwardInv' /\ BackInv'
  BY DEF vars, RestoreInv, TypeOK, NumberInv, ForwardInv, BackInv, CanOpen, Exists, LiveFile,
         OwnJournal, Backup
<1>3. ReachInv'
  BY DEF vars, ReachInv, Reach, IdleReach, TryReach, UndoReach, StartReach, InPlace, Displaced,
         Opens, CanOpen, Exists, LiveFile
<1>4. QED
  BY <1>1, <1>2, <1>3 DEF RestoreInv

\* The inductive invariant: where the files of each command are, what its journal names,
\* and, while the faults are those the code recovers from, where the workspace in
\* service is at every await of restorePortableBackup and of its recovery.
THEOREM RestoreInvariant == Spec => [](RestoreInv /\ ReachInv)
<1>1. RestoreInv /\ ReachInv /\ [Next]_vars => (RestoreInv /\ ReachInv)'
  <2> SUFFICES ASSUME RestoreInv, ReachInv, [Next]_vars PROVE RestoreInv' /\ ReachInv'
    OBVIOUS
  <2>1. CASE Command
    BY <2>1, BeginKeeps, VerifyKeeps, FinishKeyKeeps, FinishFilesKeeps, ExtractKeeps, GuardKeeps,
       SafetyKeeps, WriteJournalKeeps, DisplaceKeeps, InstallKeeps, KeyKeeps, MigrateKeeps,
       CleanKeeps, CommitKeeps, UndoAsideKeeps, UndoBackKeeps, UndoKeyKeeps, UndoJournalKeeps
       DEF Command
  <2>2. CASE ServerStart
    BY <2>2, StartFinalizesKeeps, StartRollsBackKeeps, StartMovesBackKeeps,
       StartRemovesJournalKeeps, StartOpensKeeps DEF ServerStart
  <2>3. CASE StepFails \/ Crash
    BY <2>3, StepFailsKeeps, CrashKeeps
  <2>4. CASE UNCHANGED vars
    BY <2>4, StutterKeeps
  <2>5. QED
    BY <2>1, <2>2, <2>3, <2>4 DEF Next
<1>2. QED
  BY <1>1, InvStarts, PTL DEF Spec

\* For any number of restores, crashes and failing steps, whatever their order: the
\* workspace in service is in one of the files, or a pre_restore backup of it was made.
THEOREM SafetyBackupComesFirst == Spec => []SafetyBackupFirst
BY RestoreInvariant, PTL DEF RestoreInv

\* What the journal is for: after any crashes, or any failing steps of the restores
\* themselves, the workspace is in its place or where the journal will move it back from.
THEOREM WorkspaceStaysInReach == Spec => []WorkspaceWithinReach
<1>1. RestoreInv /\ ReachInv => WorkspaceWithinReach
  <2> SUFFICES ASSUME RestoreInv, ReachInv, orderly, owned # NoFile
               PROVE  \/ LiveFile = owned \/ Opens
                      \/ /\ disk.journal # NoJournal /\ Exists(disk.journal.rollback)
                         /\ disk.files[disk.journal.rollback] = owned
    BY DEF WorkspaceWithinReach
  <2>1. Reach /\ op.at \in Stage
    BY DEF ReachInv, RestoreInv, TypeOK, Process
  <2>2. CASE op.at = "idle"
    BY <2>1, <2>2 DEF Reach, IdleReach, InPlace, Displaced
  <2>3. CASE op.at \in Untouched
    BY <2>1, <2>3 DEF Reach, TryReach, InPlace, TryStage, Untouched, Early
  <2>4. CASE op.at \in {"install", "key"}
    BY <2>1, <2>4, PathFacts DEF Reach, TryReach, TryStage, RestoreInv, NumberInv, CommandStage,
                                 OwnJournal, Exists
  <2>5. CASE op.at \in Keyed
    <3>1. op.at \in CommandStage /\ LiveFile = Backup /\ disk.key = op.key
      BY <2>5 DEF RestoreInv, ForwardInv, Keyed, Restored, CommandStage, TryStage
    <3>2. QED
      BY <3>1, BackupFacts, PathFacts DEF Opens, CanOpen, Exists, LiveFile
  <2>6. CASE op.at \in UndoStage
    BY <2>1, <2>6, PathFacts DEF Reach, UndoReach, UndoStage, RestoreInv, NumberInv, CommandStage,
                                 OwnJournal, InPlace, Exists
  <2>7. CASE op.at \in StartStage
    BY <2>1, <2>7 DEF Reach, StartReach, StartStage, RestoreInv, BackInv, InPlace, Displaced
  <2>8. QED
    BY <2>1, <2>2, <2>3, <2>4, <2>5, <2>6, <2>7 DEF Stage, TryStage, Untouched, Early, Keyed
<1>2. QED
  BY <1>1, RestoreInvariant, PTL

\* recoverInterruptedRestore is never at a loss: after such a fault the next start
\* finalizes the restore, rolls it back, or finds the database as it was.
THEOREM ServerStartsAfterAFault == Spec => []StartsAfterAFault
<1>1. RestoreInv /\ ReachInv => StartsAfterAFault
  <2> SUFFICES ASSUME RestoreInv, ReachInv, orderly, op.at = "idle", owned # NoFile
               PROVE  IF disk.journal = NoJournal THEN Opens ELSE ~Refuses
    BY DEF StartsAfterAFault, At
  <2>1. IdleReach
    BY DEF ReachInv, Reach
  <2>2. CASE disk.journal = NoJournal
    BY <2>1, <2>2, PathFacts DEF IdleReach, InPlace, Opens, CanOpen, Exists, LiveFile
  <2>3. CASE disk.journal # NoJournal
    BY <2>1, <2>3 DEF IdleReach, Displaced, Refuses, Finalizes, RollsBack, CanOpen
  <2>4. QED
    BY <2>2, <2>3
<1>2. QED
  BY <1>1, RestoreInvariant, PTL
=============================================================================
