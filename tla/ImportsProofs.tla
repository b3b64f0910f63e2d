------------------------- MODULE ImportsProofs -------------------------
(* Proofs about uploads, for any requests, files and limits, and about what becomes *)
(* of them as imports: for any statements, of any length, in any number.            *)
EXTENDS Uploads, Imports, TLAPS

-----------------------------------------------------------------------------
(* The upload of a statement, up to the preview.                               *)
BatchOK(r) ==
    batch[r] # Null =>
        /\ {"file", "status"} \subseteq DOMAIN batch[r]
        /\ batch[r].file = file[r] /\ batch[r].status \in Live
        /\ step[r] \in {"done", "answered"}

\* Of two uploads of one file that are past their checks, one has seen the other.
Noticed(q, r) ==
    file[q] = file[r] /\ step[r] = "reading" /\ (step[q] = "reading" \/ batch[q] # Null)
        => q \in overlapped \/ r \in overlapped

UploadsInv ==
    /\ step \in [Request -> Step]
    /\ DOMAIN batch = Request
    /\ \A r \in Request : BatchOK(r)
    /\ \A q, r \in Request : q # r => Noticed(q, r)
    /\ OneImportPerFile

\* What most steps do: no upload passes its check and nothing is saved.
LEMMA KeptWithoutSaving ==
    ASSUME UploadsInv, step' \in [Request -> Step],
           UNCHANGED <<file, batch, overlapped>>,
           \A r \in Request : step'[r] = "reading" => step[r] = "reading",
           \A r \in Request : step[r] \in {"done", "answered"} => step'[r] \in {"done", "answered"}
    PROVE  UploadsInv'
BY DEF UploadsInv, BatchOK, Noticed, OneImportPerFile

LEMMA KeptByOwnSteps ==
    ASSUME UploadsInv, NEW r \in Request,
           \/ Refuse(r) \/ MakeDirectory(r) \/ Open(r) \/ OpenFails(r)
           \/ Piece(r) \/ Interrupt(r) \/ WriteFails(r) \/ Finish(r) \/ GiveUp(r)
           \/ SaveFails(r) \/ Dispose(r) \/ RemoveFails(r)
    PROVE  UploadsInv'
<1>1. UNCHANGED <<file, batch, overlapped>>
  BY DEF Refuse, MakeDirectory, Open, OpenFails, Piece, Interrupt, WriteFails, Finish, GiveUp,
         SaveFails, Dispose, RemoveFails
<1>2. \/ UNCHANGED step
      \/ \E s \in Step \ {"reading"} :
            /\ step' = [step EXCEPT ![r] = s]
            /\ step[r] \in {"done", "answered"} => s = "answered"
  BY DEF Refuse, MakeDirectory, Open, OpenFails, Piece, Interrupt, WriteFails, Finish, GiveUp,
         SaveFails, Dispose, RemoveFails, Answered, GoesOn, Step
<1>3. QED
  BY <1>1, <1>2, KeptWithoutSaving DEF UploadsInv

LEMMA KeptByCrash ==
    ASSUME UploadsInv, Crash
    PROVE  UploadsInv'
BY KeptWithoutSaving DEF UploadsInv, Crash, Step

LEMMA KeptByCheck ==
    ASSUME UploadsInv, NEW r \in Request, Check(r)
    PROVE  UploadsInv'
<1>1. CASE Duplicates(file[r]) # {}
  BY <1>1 DEF UploadsInv, Check, BatchOK, Noticed, OneImportPerFile, Step
<1>2. CASE Duplicates(file[r]) = {}
  <2>1. \A q \in Request : batch[q] # Null => file[q] # file[r]
    BY <1>2 DEF UploadsInv, BatchOK, Duplicates
  <2>2. step' = [step EXCEPT ![r] = "reading"] /\ UNCHANGED <<file, batch>>
    BY <1>2 DEF Check, GoesOn
  <2>3. /\ overlapped \subseteq overlapped'
        /\ \A q \in Request \ {r} :
              step[q] = "reading" /\ file[q] = file[r] => r \in overlapped'
    BY DEF Check
  <2>4. \A q \in Request : BatchOK(q)'
    BY <2>1, <2>2 DEF UploadsInv, BatchOK
  <2>5. ASSUME NEW p \in Request, NEW q \in Request, p # q PROVE Noticed(p, q)'
    BY <2>1, <2>2, <2>3, <2>5 DEF UploadsInv, Noticed
  <2>6. QED
    BY <2>2, <2>3, <2>4, <2>5 DEF UploadsInv, OneImportPerFile, Step
<1>3. QED
  BY <1>1, <1>2

LEMMA KeptBySave ==
    ASSUME UploadsInv, NEW r \in Request, SavePreview(r)
    PROVE  UploadsInv'
<1>1. step[r] = "reading" /\ step' = [step EXCEPT ![r] = "done"]
      /\ UNCHANGED <<file, overlapped>>
  BY DEF SavePreview
<1> DEFINE p == Preview(file[r], Reading(file[r]))
<1>2. UNCHANGED batch \/ batch' = [batch EXCEPT ![r] = p]
  BY DEF SavePreview
<1> HIDE DEF p
<1>3. CASE UNCHANGED batch
  BY <1>1, <1>3, KeptWithoutSaving DEF UploadsInv, Step
<1>4. CASE batch' = [batch EXCEPT ![r] = p]
  <2>0. {"file", "status"} \subseteq DOMAIN p /\ p.file = file[r] /\ p.status \in Live
    BY DEF p, Preview, Live
  <2>1. \A q \in Request : BatchOK(q)'
    BY <1>1, <1>4, <2>0 DEF UploadsInv, BatchOK
  <2>2. \A q \in Request \ {r} :
            batch[q] # Null /\ file[q] = file[r] => q \in overlapped \/ r \in overlapped
    BY <1>1 DEF UploadsInv, Noticed
  <2>3. ASSUME NEW q \in Request, NEW s \in Request, q # s PROVE Noticed(q, s)'
    BY <1>1, <1>4, <2>3 DEF UploadsInv, Noticed
  <2>4. OneImportPerFile'
    BY <1>1, <1>4, <2>1, <2>2 DEF UploadsInv, OneImportPerFile, BatchOK
  <2>5. QED
    BY <1>1, <1>4, <2>1, <2>3, <2>4 DEF UploadsInv, Step
<1>5. QED
  BY <1>2, <1>3, <1>4

LEMMA KeptByCommit ==
    ASSUME UploadsInv, NEW r \in Request, CommitPreview(r)
    PROVE  UploadsInv'
<1> DEFINE b == [batch[r] EXCEPT !.status = "committed"]
<1>1. /\ batch[r] # Null /\ batch' = [batch EXCEPT ![r] = b]
      /\ UNCHANGED <<step, file, overlapped>>
  BY DEF CommitPreview
<1>2. {"file", "status"} \subseteq DOMAIN batch[r]
  BY <1>1 DEF UploadsInv, BatchOK
<1>3. {"file", "status"} \subseteq DOMAIN b /\ b.file = batch[r].file /\ b.status \in Live
  BY <1>2 DEF Live
<1>4. \A q \in Request : BatchOK(q)' /\ (batch'[q] # Null => batch[q] # Null)
  BY <1>1, <1>3 DEF UploadsInv, BatchOK
<1>5. ASSUME NEW p \in Request, NEW q \in Request, p # q PROVE Noticed(p, q)'
  BY <1>1, <1>4, <1>5 DEF UploadsInv, Noticed
<1>6. OneImportPerFile'
  BY <1>1, <1>3, <1>4 DEF UploadsInv, OneImportPerFile
<1>7. QED
  BY <1>1, <1>4, <1>5, <1>6 DEF UploadsInv

LEMMA KeptByDelete ==
    ASSUME UploadsInv, NEW r \in Request, DeleteImport(r)
    PROVE  UploadsInv'
BY DEF UploadsInv, DeleteImport, BatchOK, Noticed, OneImportPerFile

\* Uploads: where a request stands, its directory, and which previews overlapping requests
\* have seen, for any number of requests and files.
THEOREM UploadsInvariant == UploadsSpec => []UploadsInv
<1>1. UploadsInit => UploadsInv
  BY DEF UploadsInit, UploadsInv, BatchOK, Noticed, OneImportPerFile, Step
<1>2. UploadsInv /\ [UploadsNext]_uploadsVars => UploadsInv'
  <2> SUFFICES ASSUME UploadsInv, [UploadsNext]_uploadsVars PROVE UploadsInv'
    OBVIOUS
  <2>1. ASSUME NEW r \in Request,
               \/ Refuse(r) \/ MakeDirectory(r) \/ Open(r) \/ OpenFails(r)
               \/ Piece(r) \/ Interrupt(r) \/ WriteFails(r) \/ Finish(r) \/ GiveUp(r)
               \/ SaveFails(r) \/ Dispose(r) \/ RemoveFails(r)
        PROVE  UploadsInv'
    BY <2>1, KeptByOwnSteps
  <2>2. ASSUME NEW r \in Request, Check(r) PROVE UploadsInv'
    BY <2>2, KeptByCheck
  <2>3. ASSUME NEW r \in Request, SavePreview(r) PROVE UploadsInv'
    BY <2>3, KeptBySave
  <2>4. ASSUME NEW r \in Request, CommitPreview(r) PROVE UploadsInv'
    BY <2>4, KeptByCommit
  <2>5. ASSUME NEW r \in Request, DeleteImport(r) PROVE UploadsInv'
    BY <2>5, KeptByDelete
  <2>6. CASE Crash
    BY <2>6, KeptByCrash
  <2>7. CASE UNCHANGED uploadsVars
    BY <2>7 DEF uploadsVars, UploadsInv, BatchOK, Noticed, OneImportPerFile
  <2>8. QED
    BY <2>1, <2>2, <2>3, <2>4, <2>5, <2>6, <2>7 DEF UploadsNext
<1>3. QED
  BY <1>1, <1>2, PTL DEF UploadsSpec

\* Uploads of a file that do not overlap are imported once, whatever else is
\* uploaded, fails, is committed or deleted in between.
THEOREM ImportedOnce == UploadsSpec => []OneImportPerFile
<1>1. UploadsInv => OneImportPerFile
  BY DEF UploadsInv
<1>2. QED
  BY <1>1, UploadsInvariant, PTL

-----------------------------------------------------------------------------
\* The directories that are there belong to uploads under way, or were abandoned.
DirectoryInv == step \in [Request -> Step] /\ directory \subseteq Request /\ TemporaryFilesGo

LEMMA DirectoryKept ==
    ASSUME DirectoryInv, NEW r \in Request,
           \/ Refuse(r) \/ MakeDirectory(r) \/ Open(r) \/ OpenFails(r)
           \/ Piece(r) \/ Interrupt(r) \/ WriteFails(r) \/ Finish(r) \/ GiveUp(r)
           \/ Check(r) \/ SavePreview(r) \/ SaveFails(r) \/ Dispose(r) \/ RemoveFails(r)
           \/ CommitPreview(r) \/ DeleteImport(r)
    PROVE  DirectoryInv'
<1>1. CASE \/ Refuse(r) \/ Open(r) \/ Piece(r) \/ Interrupt(r) \/ WriteFails(r) \/ Finish(r)
           \/ Check(r) \/ SavePreview(r) \/ SaveFails(r) \/ CommitPreview(r) \/ DeleteImport(r)
  <2>1. UNCHANGED <<directory, abandoned>>
    BY <1>1 DEF Refuse, Open, Piece, Interrupt, WriteFails, Finish, Check, SavePreview, SaveFails,
                CommitPreview, DeleteImport
  <2>2. \/ UNCHANGED step
        \/ step[r] = "idle" /\ step' = [step EXCEPT ![r] = "answered"]
        \/ \E s \in {"receiving", "interrupted", "received", "reading", "done"} :
              step' = [step EXCEPT ![r] = s] /\ step[r] # "idle" /\ step[r] # "answered"
    BY <1>1 DEF Refuse, Open, Piece, Interrupt, WriteFails, Finish, Check, SavePreview, SaveFails,
                CommitPreview, DeleteImport, Answered, GoesOn
  <2>3. QED
    BY <2>1, <2>2 DEF DirectoryInv, TemporaryFilesGo, Step
<1>2. CASE MakeDirectory(r)
  BY <1>2 DEF DirectoryInv, TemporaryFilesGo, Step, MakeDirectory, GoesOn
<1>3. CASE OpenFails(r) \/ RemoveFails(r)
  <2>1. /\ step' = [step EXCEPT ![r] = "answered"]
        /\ abandoned' = abandoned \cup {r} /\ UNCHANGED directory
    BY <1>3 DEF OpenFails, RemoveFails, Answered
  <2>2. QED
    BY <2>1 DEF DirectoryInv, TemporaryFilesGo, Step
<1>4. CASE GiveUp(r) \/ Dispose(r)
  <2>1. /\ step' = [step EXCEPT ![r] = "answered"]
        /\ directory' = directory \ {r} /\ UNCHANGED abandoned
    BY <1>4 DEF GiveUp, Dispose, Answered, GoesOn
  <2>2. QED
    BY <2>1 DEF DirectoryInv, TemporaryFilesGo, Step
<1>5. QED
  BY <1>1, <1>2, <1>3, <1>4

\* Whatever ends an upload takes its directory with it; only a failing disk or the
\* death of the process leaves one.
THEOREM DirectoriesGo == UploadsSpec => []TemporaryFilesGo
<1>1. UploadsInit => DirectoryInv
  BY DEF UploadsInit, DirectoryInv, TemporaryFilesGo, Step
<1>2. DirectoryInv /\ [UploadsNext]_uploadsVars => DirectoryInv'
  <2>1. DirectoryInv /\ Crash => DirectoryInv'
    BY DEF Crash, DirectoryInv, TemporaryFilesGo, Step
  <2>2. DirectoryInv /\ UNCHANGED uploadsVars => DirectoryInv'
    BY DEF uploadsVars, DirectoryInv, TemporaryFilesGo
  <2>3. QED
    BY <2>1, <2>2, DirectoryKept DEF UploadsNext
<1>3. DirectoryInv => TemporaryFilesGo
  BY DEF DirectoryInv
<1>4. QED
  BY <1>1, <1>2, <1>3, PTL DEF UploadsSpec

-----------------------------------------------------------------------------
(* The import of its rows.                                                     *)
LEMMA SourceFacts ==
    /\ None \notin Source /\ None \notin Import
    /\ \A s \in Source : s[1] \in Import /\ s \in Rows(s[1])
    /\ \A i \in Import : \A s \in Rows(i) : s \in Source /\ s[1] = i
BY ImportsAssumption DEF Source, Rows

\* A match is with a transaction that exists, and one that is not called a
\* conflict is with a transaction the row does not differ from.
MatchOK(s) ==
    match[s] # None /\ match[s].candidate # None =>
        /\ match[s].candidate \in Transactions
        /\ match[s].class # "conflict" =>
              Row(match[s].candidate).fingerprint = Row(s).fingerprint

ImportsInv ==
    /\ TypeOK
    /\ \A s \in Source : MatchOK(s)
    /\ BooksMatchSources
    /\ NoSilentMerge

\* The match that an analysis gives to a row.
LEMMA MatchedIsMatch ==
    ASSUME NEW s \in Source, NEW existing \in SUBSET Source, NEW c \in existing \cup {None}
    PROVE  Matched(s, existing, c) \in Match /\ Matched(s, existing, c).candidate = c
BY DEF Matched, Match, Class, Doubtful, Decision

LEMMA MatchedIsAlike ==
    ASSUME NEW i \in Import, NEW existing \in SUBSET Source,
           NEW m \in [Rows(i) -> existing \cup {None}],
           ByReference(i, existing, m), ByFingerprint(i, existing, m),
           NEW s \in Rows(i), m[s] # None,
           Matched(s, existing, m[s]).class # "conflict"
    PROVE  Row(m[s]).fingerprint = Row(s).fingerprint
<1>1. CASE Known(s, existing) = {}
  <2>1. m[s] \in {t \in existing : Row(t).fingerprint = Row(s).fingerprint}
    BY <1>1 DEF ByFingerprint
  <2>2. QED
    BY <2>1
<1>2. CASE Known(s, existing) # {}
  BY <1>2 DEF Matched, Exact
<1>3. QED
  BY <1>1, <1>2

LEMMA InvInit == Init => ImportsInv
BY SourceFacts DEF Init, ImportsInv, TypeOK, MatchOK, BooksMatchSources, NoSilentMerge, Transactions

LEMMA InvSave ==
    ASSUME ImportsInv, NEW i \in Import, Save(i)
    PROVE  ImportsInv'
<1>1. TypeOK'
  BY DEF ImportsInv, TypeOK, Save
<1>2. UNCHANGED <<match, home, link>> /\ Transactions' = Transactions
  BY DEF Save, Transactions
<1>3. \A s \in Source : status[s[1]] = "committed" <=> status'[s[1]] = "committed"
  BY SourceFacts DEF ImportsInv, TypeOK, Save
<1>4. QED
  BY <1>1, <1>2, <1>3 DEF ImportsInv, MatchOK, BooksMatchSources, NoSilentMerge

LEMMA InvAnalyze ==
    ASSUME ImportsInv, NEW i \in Import, NEW requested \in accounts \cup {None},
           Analyze(i, requested)
    PROVE  ImportsInv'
<1> DEFINE chosen == IF requested # None THEN {requested} ELSE Resolved(i)
           existing == {t \in Transactions : home[t] \in chosen}
<1>1. PICK m \in [Rows(i) -> existing \cup {None}] :
          /\ ByReference(i, existing, m) /\ ByFingerprint(i, existing, m)
          /\ match' = [s \in Source |-> IF s \in Rows(i) THEN Matched(s, existing, m[s])
                                        ELSE match[s]]
  BY DEF Analyze
<1>2. existing \subseteq Transactions /\ Transactions \subseteq Source
  BY DEF Transactions
<1>3. /\ UNCHANGED <<status, home, link, accounts>> /\ Transactions' = Transactions
      /\ status[i] = "previewed" /\ stale' \subseteq stale
  BY DEF Analyze, Transactions
<1>4. \A s \in Rows(i) : match'[s] \in Match /\ match'[s].candidate = m[s]
  BY <1>1, <1>2, MatchedIsMatch, SourceFacts
<1>5. \A s \in Source \ Rows(i) : match'[s] = match[s]
  BY <1>1
<1>6. account' \in [Import -> Import \cup {None}]
  <2>1. chosen \subseteq Import
    BY DEF ImportsInv, TypeOK, Resolved
  <2>2. account' = [account EXCEPT ![i] = IF chosen = {} THEN None ELSE CHOOSE a \in chosen : TRUE]
    BY DEF Analyze
  <2>3. QED
    BY <2>1, <2>2 DEF ImportsInv, TypeOK
<1>7. TypeOK'
  <2>1. match' \in [Source -> Match \cup {None}]
    BY <1>1, <1>4, <1>5, SourceFacts DEF ImportsInv, TypeOK
  <2>2. QED
    BY <1>3, <1>6, <2>1 DEF ImportsInv, TypeOK
<1>8. \A s \in Source : MatchOK(s)'
  <2>1. ASSUME NEW s \in Rows(i) PROVE MatchOK(s)'
    <3>1. m[s] # None => m[s] \in Transactions
      BY <1>2
    <3>2. m[s] # None /\ match'[s].class # "conflict"
             => Row(m[s]).fingerprint = Row(s).fingerprint
      BY <1>1, <1>2, MatchedIsAlike, SourceFacts
    <3>3. QED
      BY <1>3, <1>4, <3>1, <3>2 DEF MatchOK, Row
  <2>2. ASSUME NEW s \in Source \ Rows(i) PROVE MatchOK(s)'
    BY <1>3, <1>5, <2>2 DEF ImportsInv, MatchOK, Row
  <2>3. QED
    BY <2>1, <2>2
<1>9. \A s \in Source : status[s[1]] = "committed" \/ link[s] # None => match'[s] = match[s]
  BY <1>3, <1>5, SourceFacts DEF ImportsInv, BooksMatchSources
<1>10. BooksMatchSources' /\ NoSilentMerge'
  BY <1>3, <1>9 DEF ImportsInv, BooksMatchSources, NoSilentMerge, Row
<1>11. QED
  BY <1>7, <1>8, <1>10 DEF ImportsInv

LEMMA InvDecide ==
    ASSUME ImportsInv, NEW i \in Import, NEW s \in Rows(i),
           NEW action \in {"confirm_duplicate", "keep_separate", "skip"}, Decide(s, action)
    PROVE  ImportsInv'
<1> DEFINE decided == [match[s] EXCEPT !.decision = DecisionFor(action)]
<1>1. /\ s \in Source /\ status[s[1]] = "previewed" /\ match[s] \in Match
      /\ match' = [match EXCEPT ![s] = decided]
      /\ UNCHANGED <<status, account, home, link, accounts, stale>>
  BY SourceFacts DEF ImportsInv, TypeOK, Decide
<1>2. /\ decided \in Match
      /\ decided.class = match[s].class /\ decided.candidate = match[s].candidate
  BY <1>1 DEF Match, Decision, DecisionFor
<1>3. TypeOK'
  BY <1>1, <1>2 DEF ImportsInv, TypeOK
<1>4. Transactions' = Transactions /\ link[s] = None
  BY <1>1 DEF Transactions, ImportsInv, BooksMatchSources
<1>5. \A r \in Source : MatchOK(r)'
  <2>1. ASSUME NEW r \in Source, r # s PROVE MatchOK(r)'
    <3>1. match'[r] = match[r]
      BY <1>1, <2>1
    <3>2. QED
      BY <1>4, <3>1 DEF ImportsInv, MatchOK, Row
  <2>2. MatchOK(s)'
    <3>1. match'[s] = decided
      BY <1>1 DEF ImportsInv, TypeOK
    <3>2. match[s] # None
      BY DEF Decide
    <3>3. QED
      BY <1>1, <1>2, <1>4, <3>1, <3>2 DEF ImportsInv, MatchOK, Row
  <2>3. QED
    BY <2>1, <2>2
<1>6. \A r \in Source : status[r[1]] = "committed" \/ link[r] # None => match'[r] = match[r]
  BY <1>1, <1>4
<1>7. BooksMatchSources' /\ NoSilentMerge'
  BY <1>1, <1>4, <1>6 DEF ImportsInv, BooksMatchSources, NoSilentMerge, Row
<1>8. QED
  BY <1>3, <1>5, <1>7 DEF ImportsInv

LEMMA InvCommit ==
    ASSUME ImportsInv, NEW i \in Import, Commit(i)
    PROVE  ImportsInv'
<1> DEFINE into == CHOOSE a \in Accounts(i) : TRUE
           booked == {s \in Rows(i) : match[s].decision # "skipped"}
           created == {s \in booked : ~Links(s)}
<1>1. into \in Import
  <2>1. Accounts(i) \subseteq Import
    BY DEF Accounts, Resolved, ImportsInv, TypeOK
  <2>2. Accounts(i) # {}
    BY DEF Accounts
  <2>3. QED
    BY <2>1, <2>2
<1>2. /\ status[i] = "previewed" /\ status' = [status EXCEPT ![i] = "committed"]
      /\ home' = [s \in Source |-> IF s \in created THEN into ELSE home[s]]
      /\ link' = [s \in Source |-> IF s \in created THEN s
                                   ELSE IF s \in booked THEN match[s].candidate ELSE link[s]]
      /\ account' = [account EXCEPT ![i] = into] /\ accounts' = accounts \cup {into}
      /\ stale' \subseteq stale \cup Import /\ UNCHANGED match
  BY DEF Commit, Waiting
<1> HIDE DEF into
<1>3. /\ created \subseteq booked /\ booked \subseteq Rows(i) /\ Rows(i) \subseteq Source
      /\ \A s \in Source : s \in Rows(i) <=> s[1] = i
  BY SourceFacts DEF Rows
<1>4. /\ \A s \in Rows(i) : match[s] \in Match /\ match[s] # None /\ link[s] = None
      /\ \A s \in Source \ Rows(i) : status'[s[1]] = status[s[1]] /\ link'[s] = link[s]
  BY <1>2, <1>3, SourceFacts DEF ImportsInv, TypeOK, BooksMatchSources, Commit, Analyzed
<1>5. ASSUME NEW s \in booked \ created
      PROVE  /\ match[s].candidate \in Transactions /\ link'[s] = match[s].candidate
             /\ match[s].decision = "confirmed"
  <2>1. s \in Rows(i) /\ s \in Source /\ s \in booked /\ Links(s)
    BY <1>3, <1>5
  <2>2. match[s].candidate \in Transactions /\ match[s].decision = "confirmed"
    BY <1>4, <2>1 DEF Links, ImportsInv, MatchOK
  <2>3. QED
    BY <1>2, <1>5, <2>1, <2>2
<1>6. Transactions' = Transactions \cup created
  BY <1>1, <1>2, <1>3, SourceFacts DEF Transactions
<1>7. TypeOK'
  <2>1. \A s \in Source : link'[s] \in Source \cup {None}
    BY <1>2, <1>3, <1>5 DEF ImportsInv, TypeOK, Transactions
  <2>2. QED
    BY <1>1, <1>2, <1>3, <2>1 DEF ImportsInv, TypeOK
<1>8. \A s \in Source : MatchOK(s)'
  BY <1>2, <1>6 DEF ImportsInv, MatchOK, Row
<1>9. BooksMatchSources'
  <2>1. \A t \in Transactions' : \E s \in Source : link'[s] = t
    <3>1. ASSUME NEW t \in Transactions PROVE \E s \in Source : link'[s] = t
      <4>1. PICK s \in Source : link[s] = t
        BY DEF ImportsInv, BooksMatchSources
      <4>2. s \notin Rows(i)
        BY <1>4, <4>1, SourceFacts DEF Transactions
      <4>3. QED
        BY <1>4, <4>1, <4>2
    <3>2. \A t \in created : link'[t] = t
      BY <1>2, <1>3
    <3>3. QED
      BY <1>3, <1>6, <3>1, <3>2
  <2>2. ASSUME NEW s \in Source, link'[s] # None
        PROVE  link'[s] \in Transactions' /\ status'[s[1]] = "committed"
    <3>1. CASE s \in booked
      BY <1>2, <1>3, <1>5, <1>6, <3>1 DEF ImportsInv, TypeOK
    <3>2. CASE s \notin booked
      <4>1. s \notin Rows(i) /\ link[s] # None
        BY <1>2, <1>3, <1>4, <2>2, <3>2
      <4>2. QED
        BY <1>4, <1>6, <4>1 DEF ImportsInv, BooksMatchSources
    <3>3. QED
      BY <3>1, <3>2
  <2>3. ASSUME NEW s \in Source, status'[s[1]] = "committed", match'[s].decision # "skipped"
        PROVE  link'[s] # None
    <3>1. CASE s \in Rows(i)
      <4>1. s \in booked
        BY <1>2, <2>3, <3>1
      <4>2. CASE s \in created
        BY <1>2, <1>3, <4>1, <4>2, SourceFacts
      <4>3. CASE s \notin created
        BY <1>5, <4>1, <4>3, SourceFacts DEF Transactions
      <4>4. QED
        BY <4>2, <4>3
    <3>2. CASE s \notin Rows(i)
      BY <1>2, <1>4, <2>3, <3>2 DEF ImportsInv, BooksMatchSources
    <3>3. QED
      BY <3>1, <3>2
  <2>4. QED
    BY <2>1, <2>2, <2>3 DEF BooksMatchSources
<1>10. NoSilentMerge'
  <2>1. ASSUME NEW s \in Source, link'[s] # None,
               Row(link'[s]).fingerprint # Row(s).fingerprint
        PROVE  match[s].class = "conflict" /\ match[s].decision = "confirmed"
    <3>1. CASE s \in booked \ created
      <4>1. s \in Rows(i) /\ match[s] # None /\ match[s].candidate # None
        BY <1>3, <1>4, <1>5, <3>1, SourceFacts DEF Transactions
      <4>2. QED
        BY <1>5, <2>1, <3>1, <4>1 DEF ImportsInv, MatchOK
    <3>2. CASE s \in created
      BY <1>2, <1>3, <2>1, <3>2
    <3>3. CASE s \notin booked
      BY <1>2, <1>3, <2>1, <3>3 DEF ImportsInv, NoSilentMerge
    <3>4. QED
      BY <3>1, <3>2, <3>3
  <2>2. QED
    BY <1>2, <2>1 DEF NoSilentMerge, Row
<1>11. QED
  BY <1>7, <1>8, <1>9, <1>10 DEF ImportsInv

LEMMA InvDelete ==
    ASSUME ImportsInv, NEW i \in Import, Delete(i)
    PROVE  ImportsInv'
<1>1. /\ status' = [status EXCEPT ![i] = "deleted"]
      /\ account' = [account EXCEPT ![i] = None]
      /\ match' = [s \in Source |->
                     IF s \in Rows(i) THEN None
                     ELSE IF match[s] # None /\ match[s].candidate \in Orphans(i)
                     THEN [match[s] EXCEPT !.candidate = None] ELSE match[s]]
      /\ home' = [s \in Source |-> IF s \in Orphans(i) THEN None ELSE home[s]]
      /\ link' = [s \in Source |-> IF s \in Rows(i) THEN None ELSE link[s]]
      /\ stale' \subseteq stale \cup Import
      /\ UNCHANGED accounts
  BY DEF Delete, Waiting
<1>2. \A s \in Source : s \in Rows(i) <=> s[1] = i
  BY SourceFacts DEF Rows
<1>3. Transactions' = Transactions \ Orphans(i) /\ Transactions \subseteq Source
  BY <1>1, SourceFacts DEF Transactions
<1>4. \A s \in Source \ Rows(i) :
         /\ link'[s] = link[s] /\ link[s] \notin Orphans(i)
         /\ status'[s[1]] = status[s[1]]
  BY <1>1, <1>2, SourceFacts DEF Orphans, ImportsInv, TypeOK
<1>5. ASSUME NEW s \in Source \ Rows(i), match[s] # None
      PROVE  /\ match'[s] \in Match
             /\ match'[s].class = match[s].class /\ match'[s].decision = match[s].decision
             /\ match'[s].candidate \in {match[s].candidate, None} \ Orphans(i)
  <2> DEFINE released == [match[s] EXCEPT !.candidate = None]
  <2>1. match[s] \in Match
    BY <1>5 DEF ImportsInv, TypeOK
  <2>2. /\ released \in Match /\ released.candidate = None
        /\ released.class = match[s].class /\ released.decision = match[s].decision
    BY <2>1 DEF Match
  <2>3. match'[s] = IF match[s].candidate \in Orphans(i) THEN released ELSE match[s]
    BY <1>1, <1>5
  <2>4. None \notin Orphans(i)
    BY SourceFacts DEF Orphans, Transactions
  <2>5. QED
    BY <2>1, <2>2, <2>3, <2>4
<1>6. \A s \in Rows(i) : match'[s] = None /\ link'[s] = None
  BY <1>1, SourceFacts
<1>7. \A s \in Source \ Rows(i) : match[s] = None => match'[s] = None
  BY <1>1
<1>8. TypeOK'
  <2>1. match' \in [Source -> Match \cup {None}]
    <3>1. \A s \in Source : match'[s] \in Match \cup {None}
      BY <1>5, <1>6, <1>7
    <3>2. QED
      BY <1>1, <3>1
  <2>2. QED
    BY <1>1, <2>1 DEF ImportsInv, TypeOK
<1>9. \A s \in Source : MatchOK(s)'
  <2>1. ASSUME NEW s \in Source \ Rows(i), match[s] # None PROVE MatchOK(s)'
    BY <1>3, <1>5, <2>1 DEF ImportsInv, MatchOK, Row
  <2>2. ASSUME NEW s \in Source, match'[s] = None PROVE MatchOK(s)'
    BY <2>2 DEF MatchOK
  <2>3. QED
    BY <1>6, <1>7, <2>1, <2>2
<1>10. BooksMatchSources'
  <2>1. ASSUME NEW t \in Transactions' PROVE \E s \in Source : link'[s] = t
    <3>1. PICK s \in Source : link[s] = t
      BY <1>3 DEF ImportsInv, BooksMatchSources
    <3>2. \E r \in Source \ Rows(i) : link[r] = t
      BY <1>3, <3>1, SourceFacts DEF Orphans
    <3>3. QED
      BY <1>4, <3>2
  <2>2. ASSUME NEW s \in Source, link'[s] # None
        PROVE  link'[s] \in Transactions' /\ status'[s[1]] = "committed"
    BY <1>3, <1>4, <1>6, <2>2 DEF ImportsInv, BooksMatchSources
  <2>3. ASSUME NEW s \in Source, status'[s[1]] = "committed", match'[s].decision # "skipped"
        PROVE  link'[s] # None
    <3>1. s \notin Rows(i) /\ status[s[1]] = "committed" /\ link'[s] = link[s]
      BY <1>1, <1>2, <1>4, <2>3 DEF ImportsInv, TypeOK
    <3>2. match[s] # None => match[s].decision # "skipped"
      BY <1>5, <2>3, <3>1
    <3>3. match[s] = None => match'[s] = match[s]
      BY <1>7, <3>1
    <3>4. QED
      BY <2>3, <3>1, <3>2, <3>3 DEF ImportsInv, BooksMatchSources
  <2>4. QED
    BY <2>1, <2>2, <2>3 DEF BooksMatchSources
<1>11. NoSilentMerge'
  <2>1. ASSUME NEW s \in Source, link'[s] # None,
               Row(link'[s]).fingerprint # Row(s).fingerprint
        PROVE  match'[s].class = "conflict" /\ match'[s].decision = "confirmed"
    <3>1. s \notin Rows(i) /\ link'[s] = link[s]
      BY <1>4, <1>6, <2>1
    <3>2. match[s].class = "conflict" /\ match[s].decision = "confirmed"
      BY <2>1, <3>1 DEF ImportsInv, NoSilentMerge
    <3>3. match[s] = None => match'[s] = match[s]
      BY <1>7, <3>1
    <3>4. QED
      BY <1>5, <3>1, <3>2, <3>3
  <2>2. QED
    BY <2>1 DEF NoSilentMerge, Row
<1>12. QED
  BY <1>8, <1>9, <1>10, <1>11 DEF ImportsInv

\* Imports: the invariant holds in every state, whatever previews, analyses,
\* decisions, commits and deletions come between each other.
THEOREM ImportsInvariant == Spec => []ImportsInv
<1>1. ImportsInv /\ [Next]_vars => ImportsInv'
  <2> SUFFICES ASSUME ImportsInv, [Next]_vars PROVE ImportsInv'
    OBVIOUS
  <2>1. CASE UNCHANGED vars
    BY <2>1 DEF vars, ImportsInv, TypeOK, MatchOK, BooksMatchSources, NoSilentMerge,
                Transactions, Row
  <2>2. ASSUME NEW i \in Import, Save(i) PROVE ImportsInv'
    BY <2>2, InvSave
  <2>3. ASSUME NEW i \in Import, NEW requested \in accounts \cup {None}, Analyze(i, requested)
        PROVE ImportsInv'
    BY <2>3, InvAnalyze
  <2>4. ASSUME NEW i \in Import, NEW s \in Rows(i),
               NEW action \in {"confirm_duplicate", "keep_separate", "skip"}, Decide(s, action)
        PROVE ImportsInv'
    BY <2>4, InvDecide
  <2>5. ASSUME NEW i \in Import, Commit(i) PROVE ImportsInv'
    BY <2>5, InvCommit
  <2>6. ASSUME NEW i \in Import, Delete(i) PROVE ImportsInv'
    BY <2>6, InvDelete
  <2>7. QED
    BY <2>1, <2>2, <2>3, <2>4, <2>5, <2>6 DEF Next
<1>2. QED
  BY InvInit, <1>1, PTL DEF Spec

\* commit and deleteImport keep the ledger in step with its evidence: every
\* transaction has a row of an existing import behind it, and every row of a
\* committed import that was not skipped is booked.
THEOREM BooksHaveEvidence == Spec => []BooksMatchSources
BY ImportsInvariant, PTL DEF ImportsInv

\* A row is linked to a transaction it differs from only where the user
\* confirmed a conflict (matchSourceRows, applyDecisions, commit).
THEOREM MergesAreConfirmed == Spec => []NoSilentMerge
BY ImportsInvariant, PTL DEF ImportsInv

-----------------------------------------------------------------------------
(* Imports that nothing has overtaken book no entry twice.                    *)
Over == {"committed", "deleted"}

\* Transactions and accounts are of imports that are over.
HomesInv ==
    /\ \A t \in Transactions : home[t] \in accounts /\ status[t[1]] \in Over
    /\ \A a \in accounts : status[a] \in Over
    /\ \A j \in Import : account[j] \in accounts \cup {None}
    /\ \A j \in Import : status[j] = "absent" => \A s \in Rows(j) : match[s] = None

\* An import that is analysed and not overtaken knows its account, and has matched
\* each entry that is booked there already.
Seen(j) ==
    /\ account[j] = None => Resolved(j) = {}
    /\ \A s \in Rows(j), t \in Transactions :
          home[t] = account[j] /\ Row(t) = Row(s) => match[s].class = "duplicate" /\ Links(s)

SeenInv == \A j \in Import : status[j] = "previewed" /\ Analyzed(j) /\ j \notin stale => Seen(j)

FreshInv == HomesInv /\ SeenInv /\ FreshImportsNotDoubled

LEMMA StatementHasRow == \A i \in Import : \E s \in Rows(i) : TRUE
<1> TAKE i \in Import
<1>1. 1 \in DOMAIN Statement[i]
  BY ImportsAssumption
<1>2. <<i, 1>> \in Source /\ <<i, 1>>[1] = i
  BY <1>1 DEF Source
<1>3. QED
  BY <1>2 DEF Rows

LEMMA FreshSave == ASSUME ImportsInv, FreshInv, NEW i \in Import, Save(i) PROVE FreshInv'
<1>1. /\ status[i] = "absent" /\ status' = [status EXCEPT ![i] = "previewed"]
      /\ UNCHANGED <<account, match, home, link, accounts, stale>>
      /\ status \in [Import -> {"absent", "previewed", "committed", "deleted"}]
  BY DEF Save, ImportsInv, TypeOK
<1>2. Transactions' = Transactions /\ \A j \in Import : j # i => status'[j] = status[j]
  BY <1>1 DEF Transactions
<1>3. \A t \in Transactions : t[1] \in Import /\ t[1] # i
  BY <1>1, SourceFacts DEF FreshInv, HomesInv, Over, Transactions
<1>4. \A a \in accounts : a \in Import /\ a # i
  BY <1>1 DEF FreshInv, HomesInv, Over, ImportsInv, TypeOK
<1>5. HomesInv'
  BY <1>1, <1>2, <1>3, <1>4 DEF FreshInv, HomesInv, Over
<1>6. ~Analyzed(i)'
  BY <1>1, StatementHasRow DEF Analyzed, FreshInv, HomesInv, Rows
<1>7. SeenInv'
  BY <1>1, <1>2, <1>6 DEF FreshInv, SeenInv, Seen, Analyzed, Resolved, Links, Row, Rows
<1>8. FreshImportsNotDoubled'
  BY <1>1, <1>2 DEF FreshInv, FreshImportsNotDoubled, BookedTwice, Row
<1>9. QED
  BY <1>5, <1>7, <1>8 DEF FreshInv

LEMMA FreshAnalyze ==
    ASSUME ImportsInv, FreshInv, NEW i \in Import, NEW requested \in accounts \cup {None},
           Analyze(i, requested)
    PROVE  FreshInv'
<1> DEFINE chosen == IF requested # None THEN {requested} ELSE Resolved(i)
           existing == {t \in Transactions : home[t] \in chosen}
<1>1. PICK m \in [Rows(i) -> existing \cup {None}] :
          /\ ByReference(i, existing, m) /\ ByFingerprint(i, existing, m)
          /\ match' = [s \in Source |-> IF s \in Rows(i) THEN Matched(s, existing, m[s])
                                        ELSE match[s]]
  BY DEF Analyze
<1>2. /\ UNCHANGED <<status, home, link, accounts>> /\ Transactions' = Transactions
      /\ status[i] = "previewed" /\ stale' = stale \ {i}
      /\ account' = [account EXCEPT ![i] = IF chosen = {} THEN None
                                           ELSE CHOOSE a \in chosen : TRUE]
      /\ account \in [Import -> Import \cup {None}]
  BY DEF Analyze, Transactions, ImportsInv, TypeOK
<1>3. chosen \subseteq accounts /\ accounts \subseteq Import
  BY DEF Resolved, ImportsInv, TypeOK
<1>4. /\ chosen = {} => account'[i] = None /\ Resolved(i) = {}
      /\ chosen # {} => account'[i] \in chosen
      /\ \A j \in Import \ {i} : account'[j] = account[j]
  BY <1>2
<1>5. \A j \in Import : j # i => \A s \in Rows(j) : s \notin Rows(i) /\ match'[s] = match[s]
  BY <1>1, SourceFacts
<1>6. HomesInv'
  <2>1. \A j \in Import : account'[j] \in accounts \cup {None}
    BY <1>3, <1>4 DEF FreshInv, HomesInv
  <2>2. \A j \in Import : status[j] = "absent" => \A s \in Rows(j) : match'[s] = None
    BY <1>2, <1>5 DEF FreshInv, HomesInv
  <2>3. QED
    BY <1>2, <2>1, <2>2 DEF FreshInv, HomesInv, Rows
<1>7. Seen(i)'
  <2>1. account'[i] = None => Resolved(i) = {}
    BY <1>3, <1>4, ImportsAssumption
  <2>2. ASSUME NEW s \in Rows(i), NEW t \in Transactions, home[t] = account'[i], Row(t) = Row(s)
        PROVE  match'[s].class = "duplicate" /\ match'[s].decision = "confirmed"
               /\ match'[s].candidate # None
    <3>1. t \in existing
      BY <1>4, <2>2 DEF Transactions
    <3>2. t \in Exact(s, existing) /\ t \in Known(s, existing)
      BY <2>2, <3>1 DEF Exact, Known
    <3>3. m[s] \in Exact(s, existing) /\ m[s] # None
      BY <1>1, <3>2, SourceFacts DEF ByReference, Exact, Known, Transactions
    <3>4. match'[s] = Matched(s, existing, m[s])
      BY <1>1, SourceFacts
    <3>5. QED
      BY <3>2, <3>3, <3>4 DEF Matched, Doubtful
  <2>3. QED
    BY <1>2, <2>1, <2>2 DEF Seen, Resolved, Links, Row, Rows
<1>8. ASSUME NEW j \in Import, j # i, status'[j] = "previewed", Analyzed(j)', j \notin stale'
      PROVE  Seen(j)'
  <2>1. Seen(j)
    BY <1>2, <1>5, <1>8 DEF FreshInv, SeenInv, Analyzed, Rows
  <2>2. QED
    BY <1>2, <1>4, <1>5, <1>8, <2>1 DEF Seen, Resolved, Links, Row, Rows
<1>9. FreshImportsNotDoubled'
  <2>1. \A t \in Transactions : t[1] # i
    BY <1>2 DEF FreshInv, HomesInv, Over
  <2>2. QED
    BY <1>2, <2>1 DEF FreshInv, FreshImportsNotDoubled, BookedTwice, Row
<1>10. QED
  BY <1>6, <1>7, <1>8, <1>9 DEF FreshInv, SeenInv

LEMMA FreshDecide ==
    ASSUME ImportsInv, FreshInv, NEW i \in Import, NEW s \in Rows(i),
           NEW action \in {"confirm_duplicate", "keep_separate", "skip"}, Decide(s, action)
    PROVE  FreshInv'
<1>1. /\ s \in Source /\ status[s[1]] = "previewed" /\ match[s] \in Match
      /\ match[s].class \in Doubtful
      /\ match' = [match EXCEPT ![s].decision = DecisionFor(action)]
      /\ UNCHANGED <<status, account, home, link, accounts, stale>> /\ s[1] = i /\ match[s] # None
  BY SourceFacts DEF ImportsInv, TypeOK, Decide
<1>2. Transactions' = Transactions
  BY <1>1 DEF Transactions
<1>3. \A r \in Source : r # s => match'[r] = match[r]
  BY <1>1
<1>4. match'[s].class = match[s].class
  <2>1. match'[s] = [match[s] EXCEPT !.decision = DecisionFor(action)]
    BY <1>1 DEF ImportsInv, TypeOK
  <2>2. QED
    BY <1>1, <2>1 DEF Match
<1>5. HomesInv'
  BY <1>1, <1>2, <1>3, SourceFacts DEF FreshInv, HomesInv, Rows
<1>6. SeenInv'
  BY <1>1, <1>2, <1>3, <1>4, SourceFacts
     DEF FreshInv, SeenInv, Seen, Analyzed, Resolved, Links, Row, Rows, Doubtful
<1>7. FreshImportsNotDoubled'
  BY <1>1, <1>2 DEF FreshInv, FreshImportsNotDoubled, BookedTwice, Row
<1>8. QED
  BY <1>5, <1>6, <1>7 DEF FreshInv

\* A commit books into the account the rows were matched against, or a new one.
LEMMA CommitsInto ==
    ASSUME ImportsInv, FreshInv, NEW i \in Import, Commit(i)
    PROVE  \E into \in Import, created \in SUBSET Rows(i) :
             /\ home' = [s \in Source |-> IF s \in created THEN into ELSE home[s]]
             /\ account' = [account EXCEPT ![i] = into] /\ accounts' = accounts \cup {into}
             /\ status' = [status EXCEPT ![i] = "committed"]
             /\ stale' = stale \cup Waiting(i) /\ UNCHANGED match
             /\ status[i] = "previewed" /\ Analyzed(i)
             /\ into \in accounts \cup {i}
             /\ account[i] # None => into = account[i]
             /\ account[i] = None => into \in Resolved(i) \cup {i}
             /\ account[i] = None /\ Resolved(i) = {} => into = i
             /\ \A s \in created : ~Links(s)
<1> DEFINE into == CHOOSE a \in Accounts(i) : TRUE
           booked == {s \in Rows(i) : match[s].decision # "skipped"}
           created == {s \in booked : ~Links(s)}
<1>1. /\ home' = [s \in Source |-> IF s \in created THEN into ELSE home[s]]
      /\ account' = [account EXCEPT ![i] = into] /\ accounts' = accounts \cup {into}
      /\ status' = [status EXCEPT ![i] = "committed"]
      /\ stale' = stale \cup Waiting(i) /\ UNCHANGED match
      /\ status[i] = "previewed" /\ Analyzed(i)
  BY DEF Commit
<1>2. into \in Accounts(i)
  BY DEF Accounts
<1> HIDE DEF into
<1>3. /\ into \in accounts \cup {i}
      /\ account[i] # None => into = account[i]
      /\ account[i] = None => into \in Resolved(i) \cup {i}
      /\ account[i] = None /\ Resolved(i) = {} => into = i
  BY <1>2 DEF Accounts, Resolved, FreshInv, HomesInv
<1>4. created \subseteq Rows(i) /\ (\A s \in created : ~Links(s)) /\ into \in Import
  BY <1>3 DEF ImportsInv, TypeOK
<1> HIDE DEF created
<1>5. QED
  BY <1>1, <1>3, <1>4

LEMMA FreshCommit == ASSUME ImportsInv, FreshInv, NEW i \in Import, Commit(i) PROVE FreshInv'
<1>1. PICK into \in Import, created \in SUBSET Rows(i) :
        /\ home' = [s \in Source |-> IF s \in created THEN into ELSE home[s]]
        /\ account' = [account EXCEPT ![i] = into] /\ accounts' = accounts \cup {into}
        /\ status' = [status EXCEPT ![i] = "committed"]
        /\ stale' = stale \cup Waiting(i) /\ UNCHANGED match
        /\ status[i] = "previewed" /\ Analyzed(i)
        /\ into \in accounts \cup {i}
        /\ account[i] # None => into = account[i]
        /\ account[i] = None => into \in Resolved(i) \cup {i}
        /\ account[i] = None /\ Resolved(i) = {} => into = i
        /\ \A s \in created : ~Links(s)
  BY CommitsInto
<1>2. /\ status'[i] = "committed" /\ \A j \in Import \ {i} : status'[j] = status[j]
      /\ account'[i] = into /\ \A j \in Import \ {i} : account'[j] = account[j]
  BY <1>1 DEF ImportsInv, TypeOK
<1>3. /\ Transactions' = Transactions \cup created /\ created \subseteq Source
      /\ \A t \in created : home'[t] = into /\ t[1] = i
      /\ \A t \in Transactions : home'[t] = home[t] /\ t \notin created /\ t[1] \in Import
      /\ Transactions \subseteq Source
  <2>1. \A t \in Transactions : t \in Source /\ t[1] \in Import /\ t[1] # i
    BY <1>1, SourceFacts DEF FreshInv, HomesInv, Over, Transactions
  <2>2. created \subseteq Source /\ \A t \in created : t[1] = i
    BY SourceFacts
  <2>3. \A t \in Source : home'[t] # None <=> t \in created \/ home[t] # None
    BY <1>1, SourceFacts
  <2>4. Transactions' = Transactions \cup created
    BY <2>2, <2>3 DEF Transactions
  <2>5. QED
    BY <1>1, <2>1, <2>2, <2>4
<1>4. HomesInv'
  <2>1. \A t \in Transactions' : home'[t] \in accounts' /\ status'[t[1]] \in Over
    BY <1>1, <1>2, <1>3 DEF FreshInv, HomesInv, Over
  <2>2. \A a \in accounts' : status'[a] \in Over
    BY <1>1, <1>2 DEF FreshInv, HomesInv, Over, ImportsInv, TypeOK
  <2>3. \A j \in Import : account'[j] \in accounts' \cup {None}
    BY <1>1, <1>2 DEF FreshInv, HomesInv
  <2>4. \A j \in Import : status'[j] = "absent" => \A s \in Rows(j) : match'[s] = None
    BY <1>1, <1>2 DEF FreshInv, HomesInv
  <2>5. QED
    BY <2>1, <2>2, <2>3, <2>4 DEF HomesInv, Rows
<1>5. SeenInv'
  <2>1. \A j \in Import : ~(status'[j] = "previewed" /\ Analyzed(j) /\ j \notin stale')
    BY <1>1, <1>2 DEF Waiting
  <2>2. QED
    BY <1>1, <2>1 DEF SeenInv, Analyzed, Rows
<1>6. FreshImportsNotDoubled'
  <2>1. ASSUME NEW t \in Transactions, NEW u \in created, home[t] = into, Row(t) = Row(u),
               i \notin stale
        PROVE  FALSE
    <3>1. Seen(i)
      BY <1>1, <2>1 DEF FreshInv, SeenInv
    <3>2. account[i] # None
      <4>1. SUFFICES ASSUME account[i] = None PROVE FALSE
        OBVIOUS
      <4>2. into = i
        BY <1>1, <3>1, <4>1 DEF Seen
      <4>3. i \in accounts
        BY <2>1, <4>2 DEF FreshInv, HomesInv
      <4>4. QED
        BY <1>1, <4>3 DEF FreshInv, HomesInv, Over
    <3>3. Links(u)
      BY <1>1, <2>1, <3>1, <3>2 DEF Seen
    <3>4. QED
      BY <1>1, <2>1, <3>3
  <2>2. \A t, u \in Transactions :
           t[1] # u[1] /\ home[t] = home[u] /\ Row(t) = Row(u) => t[1] \in stale \/ u[1] \in stale
    BY DEF FreshInv, FreshImportsNotDoubled, BookedTwice
  <2>3. ASSUME NEW t \in Transactions', NEW u \in Transactions',
               t[1] # u[1], home'[t] = home'[u], Row(t) = Row(u)
        PROVE  t[1] \in stale' \/ u[1] \in stale'
    <3>1. CASE t \in Transactions /\ u \in Transactions
      BY <1>1, <1>3, <2>2, <2>3, <3>1
    <3>2. CASE t \in Transactions /\ u \in created
      BY <1>1, <1>3, <2>1, <2>3, <3>2
    <3>3. CASE t \in created /\ u \in Transactions
      BY <1>1, <1>3, <2>1, <2>3, <3>3
    <3>4. CASE t \in created /\ u \in created
      BY <1>3, <2>3, <3>4
    <3>5. QED
      BY <1>3, <3>1, <3>2, <3>3, <3>4
  <2>4. QED
    BY <2>3 DEF FreshImportsNotDoubled, BookedTwice, Row
<1>7. QED
  BY <1>4, <1>5, <1>6 DEF FreshInv

LEMMA FreshDelete == ASSUME ImportsInv, FreshInv, NEW i \in Import, Delete(i) PROVE FreshInv'
<1>1. /\ status[i] \in {"previewed", "committed"}
      /\ status' = [status EXCEPT ![i] = "deleted"] /\ account' = [account EXCEPT ![i] = None]
      /\ match' = [s \in Source |->
                     IF s \in Rows(i) THEN None
                     ELSE IF match[s] # None /\ match[s].candidate \in Orphans(i)
                     THEN [match[s] EXCEPT !.candidate = None] ELSE match[s]]
      /\ home' = [s \in Source |-> IF s \in Orphans(i) THEN None ELSE home[s]]
      /\ stale' = stale \cup Waiting(i) /\ UNCHANGED accounts
  BY DEF Delete
<1>2. /\ status'[i] = "deleted" /\ \A j \in Import \ {i} : status'[j] = status[j]
      /\ account'[i] = None /\ \A j \in Import \ {i} : account'[j] = account[j]
  BY <1>1 DEF ImportsInv, TypeOK
<1>3. /\ Transactions' \subseteq Transactions /\ Transactions \subseteq Source
      /\ \A t \in Transactions' : home'[t] = home[t] /\ t[1] \in Import
  BY <1>1, SourceFacts DEF Transactions
<1>4. HomesInv'
  <2>1. ASSUME NEW t \in Transactions' PROVE home'[t] \in accounts' /\ status'[t[1]] \in Over
    <3>1. t \in Transactions /\ home'[t] = home[t] /\ t[1] \in Import
      BY <1>3
    <3>2. home[t] \in accounts /\ status[t[1]] \in Over
      BY <3>1 DEF FreshInv, HomesInv
    <3>3. status'[t[1]] \in Over
      BY <1>2, <3>1, <3>2 DEF Over
    <3>4. QED
      BY <1>1, <3>1, <3>2, <3>3
  <2>2. \A a \in accounts' : status'[a] \in Over
    BY <1>1, <1>2 DEF FreshInv, HomesInv, Over, ImportsInv, TypeOK
  <2>3. \A j \in Import : account'[j] \in accounts' \cup {None}
    BY <1>1, <1>2 DEF FreshInv, HomesInv
  <2>4. ASSUME NEW j \in Import, status'[j] = "absent", NEW s \in Rows(j) PROVE match'[s] = None
    <3>1. match[s] = None /\ s \in Source
      BY <1>2, <2>4, SourceFacts DEF FreshInv, HomesInv
    <3>2. QED
      BY <1>1, <3>1
  <2>5. QED
    BY <2>1, <2>2, <2>3, <2>4 DEF HomesInv, Rows
<1>5. SeenInv'
  <2>1. ASSUME NEW j \in Import, status'[j] = "previewed", Analyzed(j)' PROVE j \in stale'
    <3>1. j # i /\ status[j] = "previewed"
      BY <1>2, <2>1
    <3>2. \A s \in Rows(j) : match[s] = None => match'[s] = None
      BY <1>1, SourceFacts
    <3>3. Analyzed(j)
      BY <2>1, <3>2 DEF Analyzed, Rows
    <3>4. QED
      BY <1>1, <3>1, <3>3 DEF Waiting
  <2>2. QED
    BY <2>1 DEF SeenInv
<1>6. FreshImportsNotDoubled'
  <2>1. \A t, u \in Transactions :
           t[1] # u[1] /\ home[t] = home[u] /\ Row(t) = Row(u) => t[1] \in stale \/ u[1] \in stale
    BY DEF FreshInv, FreshImportsNotDoubled, BookedTwice
  <2>2. QED
    BY <1>1, <1>3, <2>1 DEF FreshImportsNotDoubled, BookedTwice, Row
<1>7. QED
  BY <1>4, <1>5, <1>6 DEF FreshInv

\* No bank entry is booked twice from overlapping statements, for any statements: an
\* exact match is always found and linked, unless another import was committed or
\* deleted between the analysis and the commit (analyze, commit, deleteImport).
THEOREM OverlapIsBookedOnce == Spec => []FreshImportsNotDoubled
<1>1. Init => FreshInv
  BY SourceFacts DEF Init, FreshInv, HomesInv, SeenInv, FreshImportsNotDoubled, Transactions
<1>2. ImportsInv /\ FreshInv /\ [Next]_vars => FreshInv'
  <2> SUFFICES ASSUME ImportsInv, FreshInv, [Next]_vars PROVE FreshInv'
    OBVIOUS
  <2>1. CASE UNCHANGED vars
    BY <2>1 DEF vars, FreshInv, HomesInv, SeenInv, Seen, FreshImportsNotDoubled, BookedTwice,
                Transactions, Row, Rows, Analyzed, Resolved, Links
  <2>2. QED
    BY <2>1, FreshSave, FreshAnalyze, FreshDecide, FreshCommit, FreshDelete DEF Next
<1>3. FreshInv => FreshImportsNotDoubled
  BY DEF FreshInv
<1>4. QED
  BY <1>1, <1>2, <1>3, ImportsInvariant, PTL DEF Spec
=============================================================================
