---------------------------- MODULE SecurityProofs ----------------------------
(***************************************************************************)
(* Proofs about setup, sessions and the database key, for any number of    *)
(* requests and crashes.                                                   *)
(***************************************************************************)
EXTENDS Security, TLAPS

Still == {"idle", "prepared", "over"}
Resetting == {"resetting", "keyless"}
Creating == {"hashing", "absent"}
Rekeying == {"saving-backup", "rekeying"}
Signing == {"login", "changing"}

\* Requests under way need a running server, the recovery command a stopped one,
\* and the key is changed by one request at a time.
Processes ==
    /\ \A r \in Request : req[r].at \notin Still => up
    /\ \A r \in Request : At(r, "login") => req[r].seen # None
    /\ \A r \in Request : At(r, "changing") => req[r].base # None
    /\ ~up => handle = None
    /\ cli.at # "idle" => ~up /\ file # None /\ cli.by \in Request
    /\ cli.at # "idle" /\ ~cli.saved => cli.previous = provider
    /\ \A r, q \in Request : req[r].at \in Rekeying /\ req[q].at \in Rekeying => r = q

\* Where the key that opens the database is.
OpensInv ==
    ~crossed =>
        /\ up => Opens
        /\ cli.at = "opened" => Opens
        /\ ~torn /\ cli.at = "idle" => Opens
        /\ ~torn /\ cli.at # "idle" => cli.previous = db[file].key

\* Who is alone with the database.
AloneInv ==
    ~crossed =>
        /\ Prepared => file = handle
        /\ \A r \in Request : req[r].at \in Resetting =>
             /\ ~Prepared
             /\ \A q \in Request \ {r} : req[q].at \notin Resetting \cup Creating
        /\ \A r \in Request : At(r, "keyless") => file = None
        /\ \A r \in Request : req[r].at \in Rekeying \cup Signing => Ready

\* A login that the password was not changed under has seen the one in force.
LoginInv ==
    ~crossed => \A r \in Request : At(r, "login") =>
                    r \in overtaken \/ req[r].seen = db[handle].password

\* Before the key changes it is in a backup, and a kit opens the one or the other.
KitsInv ==
    ~crossed =>
        /\ file # None => db[file].key \in kits \/ backups \cap kits # {}
        /\ \A r \in Request : At(r, "rekeying") => db[handle].key \in backups

SecurityInv ==
    /\ TypeOK /\ Processes /\ OpensInv /\ AloneInv /\ LoginInv /\ KitsInv
    /\ CredentialsReadable /\ SessionsFollowPassword

-----------------------------------------------------------------------------
(* Records.                                                                   *)
LEMMA MovedRequest ==
    ASSUME NEW f \in [Request -> RequestState], NEW r \in Request, NEW s \in Stage
    PROVE  LET n == [f EXCEPT ![r].at = s]
           IN  /\ n \in [Request -> RequestState]
               /\ n[r].at = s /\ n[r].kit = f[r].kit /\ n[r].seen = f[r].seen /\ n[r].base = f[r].base
               /\ \A q \in Request \ {r} : n[q] = f[q]
<1> DEFINE e == [f[r] EXCEPT !.at = s]
           n == [f EXCEPT ![r] = e]
<1>1. f[r] \in RequestState
  OBVIOUS
<1>2. e \in RequestState /\ e.at = s /\ e.kit = f[r].kit /\ e.seen = f[r].seen /\ e.base = f[r].base
  BY <1>1 DEF RequestState
<1> HIDE DEF e
<1>3. n \in [Request -> RequestState] /\ n[r] = e /\ \A q \in Request \ {r} : n[q] = f[q]
  BY <1>2
<1> USE DEF e
<1>4. n = [f EXCEPT ![r].at = s]
  OBVIOUS
<1> HIDE DEF e
<1>5. QED
  BY <1>2, <1>3, <1>4

LEMMA DatabaseSessions ==
    ASSUME NEW e \in Database, NEW s \in SUBSET (Origin \X Origin)
    PROVE  LET n == [e EXCEPT !.sessions = s]
           IN  /\ n \in Database /\ n.sessions = s /\ n.key = e.key /\ n.complete = e.complete
               /\ n.password = e.password /\ n.credential = e.credential
BY DEF Database

LEMMA DatabasePassword ==
    ASSUME NEW e \in Database, NEW p \in Origin
    PROVE  LET n == [e EXCEPT !.password = p]
           IN  /\ n \in Database /\ n.sessions = e.sessions /\ n.key = e.key
               /\ n.complete = e.complete /\ n.password = p /\ n.credential = e.credential
BY DEF Database

LEMMA DatabaseCredential ==
    ASSUME NEW e \in Database, NEW c \in Key \cup {None}
    PROVE  LET n == [e EXCEPT !.credential = c]
           IN  /\ n \in Database /\ n.sessions = e.sessions /\ n.key = e.key /\ n.complete = e.complete
               /\ n.password = e.password /\ n.credential = c
BY DEF Database

LEMMA DatabaseKey ==
    ASSUME NEW e \in Database, NEW k \in Key
    PROVE  LET n == [e EXCEPT !.key = k]
           IN  /\ n \in Database /\ n.sessions = e.sessions /\ n.key = k
               /\ n.complete = e.complete /\ n.password = e.password /\ n.credential = e.credential
BY DEF Database

LEMMA DatabaseComplete ==
    ASSUME NEW e \in Database
    PROVE  LET n == [e EXCEPT !.complete = TRUE]
           IN  /\ n \in Database /\ n.sessions = e.sessions /\ n.key = e.key /\ n.complete = TRUE
               /\ n.password = e.password /\ n.credential = e.credential
BY DEF Database

Databases == [Origin -> Database]
Openers == SUBSET (Origin \X Origin)

LEMMA OneDatabase ==
    ASSUME NEW d \in Databases, NEW o \in Origin, NEW e \in Database
    PROVE  LET n == [d EXCEPT ![o] = e]
           IN  n \in Databases /\ n[o] = e /\ \A p \in Origin \ {o} : n[p] = d[p]
BY DEF Databases

LEMMA NewSessions ==
    ASSUME NEW d \in Databases, NEW o \in Origin, NEW s \in Openers
    PROVE  LET n == [d EXCEPT ![o].sessions = s]
           IN  /\ n \in Databases /\ n[o].sessions = s
               /\ \A p \in Origin : /\ n[p].key = d[p].key /\ n[p].complete = d[p].complete
                                    /\ n[p].credential = d[p].credential
                                    /\ n[p].password = d[p].password
                                    /\ p # o => n[p] = d[p]
<1> DEFINE e == [d[o] EXCEPT !.sessions = s]
           n == [d EXCEPT ![o] = e]
<1>1. d[o] \in Database
  BY DEF Databases
<1>2. /\ e \in Database /\ e.sessions = s /\ e.key = d[o].key /\ e.complete = d[o].complete
      /\ e.password = d[o].password /\ e.credential = d[o].credential
  BY <1>1, DatabaseSessions DEF Openers
<1>3. n = [d EXCEPT ![o].sessions = s]
  OBVIOUS
<1> HIDE DEF e
<1>4. n \in Databases /\ n[o] = e /\ \A p \in Origin \ {o} : n[p] = d[p]
  BY <1>2, OneDatabase
<1> HIDE DEF n
<1>5. QED
  BY <1>2, <1>3, <1>4

LEMMA NewPassword ==
    ASSUME db \in Databases, NEW o \in Origin, NEW s \in Openers, NEW w \in Origin,
           db' = [db EXCEPT ![o].password = w, ![o].sessions = s]
    PROVE  /\ db' \in Databases /\ db'[o].sessions = s /\ db'[o].password = w
           /\ \A p \in Origin : /\ db'[p].key = db[p].key /\ db'[p].complete = db[p].complete
                                /\ db'[p].credential = db[p].credential
                                /\ p # o => db'[p] = db[p]
<1> DEFINE f == [db[o] EXCEPT !.password = w]
           e == [f EXCEPT !.sessions = s]
           n == [db EXCEPT ![o] = e]
<1>1. db \in Databases /\ db[o] \in Database
  BY DEF Databases
<1>2. /\ e \in Database /\ e.sessions = s /\ e.key = db[o].key /\ e.complete = db[o].complete
      /\ e.password = w /\ e.credential = db[o].credential
  <2>1. /\ f \in Database /\ f.key = db[o].key /\ f.complete = db[o].complete
        /\ f.password = w /\ f.credential = db[o].credential
    BY <1>1, DatabasePassword
  <2> HIDE DEF f
  <2>2. QED
    BY <2>1, DatabaseSessions DEF Openers
<1>3. db' = n
  BY DEF Databases
<1> HIDE DEF e
<1>4. n \in Databases /\ n[o] = e /\ \A p \in Origin \ {o} : n[p] = db[p]
  BY ONLY <1>1, <1>2, OneDatabase
<1> HIDE DEF n
<1>5. QED
  BY <1>2, <1>3, <1>4

LEMMA NewCredential ==
    ASSUME NEW d \in Databases, NEW o \in Origin, NEW c \in Key \cup {None}
    PROVE  LET n == [d EXCEPT ![o].credential = c]
           IN  /\ n \in Databases /\ n[o].credential = c
               /\ \A p \in Origin : /\ n[p].key = d[p].key /\ n[p].complete = d[p].complete
                                    /\ n[p].sessions = d[p].sessions
                                    /\ n[p].password = d[p].password
                                    /\ p # o => n[p] = d[p]
<1> DEFINE e == [d[o] EXCEPT !.credential = c]
           n == [d EXCEPT ![o] = e]
<1>1. d[o] \in Database
  BY DEF Databases
<1>2. /\ e \in Database /\ e.sessions = d[o].sessions /\ e.key = d[o].key
      /\ e.complete = d[o].complete /\ e.password = d[o].password /\ e.credential = c
  BY <1>1, DatabaseCredential
<1>3. n = [d EXCEPT ![o].credential = c]
  OBVIOUS
<1> HIDE DEF e
<1>4. n \in Databases /\ n[o] = e /\ \A p \in Origin \ {o} : n[p] = d[p]
  BY <1>2, OneDatabase
<1> HIDE DEF n
<1>5. QED
  BY <1>2, <1>3, <1>4

LEMMA NewKey ==
    ASSUME db \in Databases, NEW o \in Origin, NEW c \in Key \cup {None}, NEW k \in Key,
           db' = [db EXCEPT ![o].credential = c, ![o].key = k]
    PROVE  /\ db' \in Databases /\ db'[o].credential = c /\ db'[o].key = k
           /\ \A p \in Origin : /\ db'[p].complete = db[p].complete
                                /\ db'[p].sessions = db[p].sessions
                                /\ db'[p].password = db[p].password
                                /\ p # o => db'[p] = db[p]
<1> DEFINE f == [db[o] EXCEPT !.credential = c]
           e == [f EXCEPT !.key = k]
           n == [db EXCEPT ![o] = e]
<1>1. db \in Databases /\ db[o] \in Database
  BY DEF Databases
<1>2. /\ e \in Database /\ e.sessions = db[o].sessions /\ e.key = k
      /\ e.complete = db[o].complete /\ e.password = db[o].password /\ e.credential = c
  <2>1. /\ f \in Database /\ f.sessions = db[o].sessions /\ f.complete = db[o].complete
        /\ f.password = db[o].password /\ f.credential = c
    BY <1>1, DatabaseCredential
  <2> HIDE DEF f
  <2>2. QED
    BY <2>1, DatabaseKey
<1>3. db' = n
  BY DEF Databases
<1> HIDE DEF e
<1>4. n \in Databases /\ n[o] = e /\ \A p \in Origin \ {o} : n[p] = db[p]
  BY ONLY <1>1, <1>2, OneDatabase
<1> HIDE DEF n
<1>5. QED
  BY <1>2, <1>3, <1>4

LEMMA NowComplete ==
    ASSUME NEW d \in Databases, NEW o \in Origin
    PROVE  LET n == [d EXCEPT ![o].complete = TRUE]
           IN  /\ n \in Databases /\ n[o].complete = TRUE
               /\ \A p \in Origin : /\ n[p].key = d[p].key /\ n[p].credential = d[p].credential
                                    /\ n[p].sessions = d[p].sessions
                                    /\ n[p].password = d[p].password
                                    /\ p # o => n[p] = d[p]
<1> DEFINE e == [d[o] EXCEPT !.complete = TRUE]
           n == [d EXCEPT ![o] = e]
<1>1. d[o] \in Database
  BY DEF Databases
<1>2. /\ e \in Database /\ e.sessions = d[o].sessions /\ e.key = d[o].key
      /\ e.complete = TRUE /\ e.password = d[o].password /\ e.credential = d[o].credential
  BY <1>1, DatabaseComplete
<1>3. n = [d EXCEPT ![o].complete = TRUE]
  OBVIOUS
<1> HIDE DEF e
<1>4. n \in Databases /\ n[o] = e /\ \A p \in Origin \ {o} : n[p] = d[p]
  BY <1>2, OneDatabase
<1> HIDE DEF n
<1>5. QED
  BY <1>2, <1>3, <1>4

-----------------------------------------------------------------------------
(* Steps that leave the keys alone, of a request r or of none.                *)
LEMMA OpensIs ==
    Opens = (file # None => provider # None /\ provider = db[file].key)
BY DEF Opens

Ordinary(r) ==
    /\ UNCHANGED <<provider, up, handle, cli, kits, torn, crossed>>
    /\ file' = file \/ (file' = None /\ crossed /\ cli.at = "idle")
    /\ backups \subseteq backups'
    /\ db' \in Databases
    /\ \A x \in Origin : db'[x].key = db[x].key /\ (db[x].complete => db'[x].complete)
    /\ \A q \in Request : q # r => req'[q] = req[q]
    /\ r \in Request =>
         /\ req'[r].at \notin Still => up
         /\ req'[r].at = "login" => req'[r].seen # None
         /\ req'[r].at = "changing" => req'[r].base # None
         /\ req'[r].at \notin Resetting
         /\ req'[r].at \in Creating => req[r].at \in Creating
         /\ req'[r].at \in Rekeying \cup Signing => Ready
         /\ req'[r].at = "rekeying" => db[handle].key \in backups'
         /\ req'[r].at \in Rekeying => \A q \in Request \ {r} : req[q].at \notin Rekeying

LEMMA OrdinaryKeeps ==
    ASSUME SecurityInv, NEW r, Ordinary(r)
    PROVE  Processes' /\ OpensInv' /\ AloneInv' /\ KitsInv'
<1> USE DEF Ordinary
<1>1. /\ file \in Origin \cup {None} /\ handle \in Origin \cup {None}
      /\ Processes /\ OpensInv /\ AloneInv /\ KitsInv
  BY DEF SecurityInv, TypeOK
<1>2. Processes'
  BY <1>1 DEF Processes, At
<1>3. Ready => Ready'
  BY <1>1 DEF Ready
<1>4. OpensInv'
  BY <1>1 DEF OpensInv, Opens, Processes
<1>5. AloneInv'
  BY <1>1, <1>3 DEF AloneInv, At, Prepared, Still, Resetting, Creating, Rekeying, Signing
<1>6. KitsInv'
  <2>1. CASE crossed
    BY <2>1 DEF KitsInv
  <2>2. CASE ~crossed
    <3>1. \A q \in Request : q # r /\ req[q].at = "rekeying" => handle \in Origin
      BY <1>1, <2>2 DEF AloneInv, Ready, Rekeying
    <3>2. r \in Request /\ req'[r].at = "rekeying" => handle \in Origin
      BY <1>1, <2>2 DEF Ready, Rekeying
    <3>3. file' # None => db'[file'].key \in kits' \/ backups' \cap kits' # {}
      BY <1>1, <2>2 DEF KitsInv
    <3>4. \A q \in Request : req'[q].at = "rekeying" => db'[handle'].key \in backups'
      BY <1>1, <2>2, <3>1, <3>2 DEF KitsInv, At
    <3>5. QED
      BY <3>3, <3>4 DEF KitsInv, At
  <2>3. QED
    BY <2>1, <2>2
<1>7. QED
  BY <1>2, <1>4, <1>5, <1>6

\* Sessions and logins, where passwords stay.
LEMMA SameSessions ==
    ASSUME SecurityInv, crossed => crossed', overtaken \subseteq overtaken',
           \A x \in Origin : /\ db'[x].password = db[x].password
                             /\ \A s \in db'[x].sessions :
                                  s \in db[x].sessions \/ crossed \/ s[2] = db[x].password
                                  \/ s[1] \in overtaken
    PROVE  SessionsFollowPassword'
BY DEF SecurityInv, SessionsFollowPassword

LEMMA SameLogins ==
    ASSUME SecurityInv, crossed => crossed', overtaken \subseteq overtaken',
           \A q \in Request : req'[q].at = "login" =>
               \/ /\ req'[q] = req[q] /\ handle' = handle
                  /\ handle \in Origin => db'[handle].password = db[handle].password
               \/ req'[q].seen = db'[handle'].password
    PROVE  LoginInv'
<1>1. \A q \in Request : ~crossed /\ req[q].at = "login" => handle \in Origin
  BY DEF SecurityInv, TypeOK, AloneInv, Ready, Signing
<1>2. QED
  BY <1>1 DEF SecurityInv, LoginInv, At

LEMMA SameCredentials ==
    ASSUME SecurityInv, torn => torn',
           \A x \in Origin : db'[x].key = db[x].key /\ db'[x].credential = db[x].credential
    PROVE  CredentialsReadable'
BY DEF SecurityInv, CredentialsReadable

LEMMA OrdinaryStep ==
    ASSUME SecurityInv, NEW r, Ordinary(r), req' \in [Request -> RequestState],
           UNCHANGED <<kind, open, crashes>>, token' \in BOOLEAN, backups' \subseteq Key,
           overtaken' \subseteq Request,
           SessionsFollowPassword', LoginInv', CredentialsReadable'
    PROVE  SecurityInv'
<1>1. TypeOK'
  BY DEF SecurityInv, TypeOK, Ordinary, Databases
<1>2. QED
  BY <1>1, OrdinaryKeeps DEF SecurityInv

LEMMA GotoIs ==
    ASSUME TypeOK, NEW r \in Request, NEW s \in Stage, Goto(r, s)
    PROVE  /\ req' \in [Request -> RequestState]
           /\ req'[r].at = s /\ req'[r].kit = req[r].kit
           /\ req'[r].seen = req[r].seen /\ req'[r].base = req[r].base
           /\ \A q \in Request \ {r} : req'[q] = req[q]
BY MovedRequest DEF Goto, TypeOK

LEMMA Stages ==
    /\ Still \cup Resetting \cup Creating \cup Rekeying \cup Signing \subseteq Stage
    /\ "checking" \in Stage /\ "confirming" \in Stage /\ "consuming" \in Stage
BY DEF Still, Resetting, Creating, Rekeying, Signing, Stage

\* A request that only goes on, not to sign in nor to reset.
LEMMA PureMove ==
    ASSUME SecurityInv, NEW r \in Request, NEW s \in Stage \ (Resetting \cup Signing), Goto(r, s),
           UNCHANGED <<kind, provider, db, up, handle, open, cli, kits, crossed, torn,
                       overtaken, crashes>>,
           token' \in {token, FALSE},
           file' = file \/ (file' = None /\ crossed /\ cli.at = "idle"),
           backups \subseteq backups', backups' \subseteq Key,
           s \notin Still => up,
           s \in Creating => req[r].at \in Creating,
           s \in Rekeying => Ready /\ \A q \in Request \ {r} : req[q].at \notin Rekeying,
           s = "rekeying" => db[handle].key \in backups'
    PROVE  SecurityInv'
<1>1. TypeOK
  BY DEF SecurityInv
<1>2. /\ req' \in [Request -> RequestState] /\ req'[r].at = s
      /\ \A q \in Request \ {r} : req'[q] = req[q]
  BY <1>1, GotoIs
<1>3. db' \in Databases
  BY <1>1 DEF TypeOK, Databases
<1>4. Ordinary(r)
  BY <1>2, <1>3 DEF Ordinary, Signing
<1>5. SessionsFollowPassword' /\ CredentialsReadable'
  BY SameSessions, SameCredentials
<1>6. LoginInv'
  BY <1>2, SameLogins DEF Signing
<1>7. QED
  BY <1>1, <1>2, <1>4, <1>5, <1>6, OrdinaryStep DEF TypeOK

LEMMA InvPrepareSetup == ASSUME SecurityInv, NEW r \in Request, PrepareSetup(r) PROVE SecurityInv'
<1>1. "checking" \in Stage \ (Resetting \cup Signing) /\ "checking" \notin Creating \cup Rekeying
  BY Stages DEF Resetting, Signing, Creating, Rekeying
<1>2. backups \subseteq Key
  BY DEF SecurityInv, TypeOK
<1>3. QED
  BY <1>1, <1>2, PureMove DEF PrepareSetup, disk, history

LEMMA OverIs == "over" \in Stage \ (Resetting \cup Signing) /\ "over" \in Still
                /\ "over" \notin Creating \cup Rekeying
BY Stages DEF Still, Resetting, Signing, Creating, Rekeying

LEMMA InvOver ==
    ASSUME SecurityInv, NEW r \in Request, Goto(r, "over"),
           UNCHANGED <<disk, up, handle, open, cli, history>>
    PROVE  SecurityInv'
<1>1. backups \subseteq Key
  BY DEF SecurityInv, TypeOK
<1>2. QED
  BY <1>1, OverIs, PureMove DEF disk, history

LEMMA InvLookForDatabase == ASSUME SecurityInv, NEW r \in Request, LookForDatabase(r) PROVE SecurityInv'
<1>1. CASE file = None
  <2>1. "absent" \in Stage \ (Resetting \cup Signing) /\ "absent" \notin Rekeying
    BY Stages DEF Resetting, Signing, Creating, Rekeying
  <2>2. backups \subseteq Key /\ up /\ req[r].at \in Creating
    BY DEF SecurityInv, TypeOK, Processes, LookForDatabase, At, Still, Creating
  <2>3. QED
    BY <1>1, <2>1, <2>2, PureMove DEF LookForDatabase, disk, history
<1>2. CASE file # None
  BY <1>2, InvOver DEF LookForDatabase
<1>3. QED
  BY <1>1, <1>2

LEMMA InvCreateFails == ASSUME SecurityInv, NEW r \in Request, CreateFails(r) PROVE SecurityInv'
<1>1. backups \subseteq Key /\ up /\ cli.at = "idle"
  BY DEF SecurityInv, TypeOK, Processes, CreateFails, At, Still
<1>2. ~crossed => provider = db[file].key
  BY <1>1 DEF SecurityInv, OpensInv, Opens, CreateFails
<1>3. file' = file \/ (file' = None /\ crossed /\ cli.at = "idle")
  BY <1>1, <1>2 DEF CreateFails
<1>4. QED
  BY <1>1, <1>3, OverIs, PureMove DEF CreateFails, history

LEMMA InvRekeyWaits ==
    ASSUME SecurityInv, NEW r \in Request,
           BeginRekey(r) \/ SaveBackup(r) \/ RekeyUndone(r) \/ RekeyRefused(r)
    PROVE  SecurityInv'
<1>1. backups \subseteq Key /\ (Ready => db[handle].key \in Key)
  BY DEF SecurityInv, TypeOK, Ready, Database
<1>2. CASE BeginRekey(r)
  <2>1. /\ "saving-backup" \in Stage \ (Resetting \cup Signing) /\ "saving-backup" \notin Creating
        /\ Sessions # {} => Ready
    BY Stages DEF Resetting, Signing, Creating, Rekeying, Sessions
  <2>2. QED
    BY <1>1, <1>2, <2>1, PureMove DEF BeginRekey, disk, history, Rekeying
<1>3. CASE SaveBackup(r)
  <2>1. /\ "rekeying" \in Stage \ (Resetting \cup Signing) /\ "rekeying" \notin Creating
    BY Stages DEF Resetting, Signing, Creating, Rekeying
  <2>2. up /\ \A q \in Request \ {r} : req[q].at \notin Rekeying
    BY <1>3 DEF SecurityInv, Processes, SaveBackup, At, Still, Rekeying
  <2>3. file' = file /\ backups \subseteq backups' /\ backups' \subseteq Key /\ db[handle].key \in backups'
    BY <1>1, <1>3 DEF SaveBackup, disk
  <2>4. /\ Goto(r, "rekeying") /\ Ready /\ backups \subseteq backups'
        /\ UNCHANGED <<kind, provider, file, db, token, up, handle, open, cli, kits, crossed,
                       torn, overtaken, crashes>>
    BY <1>3 DEF SaveBackup, disk
  <2>5. QED
    BY <2>1, <2>2, <2>3, <2>4, PureMove
<1>4. CASE RekeyUndone(r) \/ RekeyRefused(r)
  BY <1>4, InvOver DEF RekeyUndone, RekeyRefused
<1>5. QED
  BY <1>2, <1>3, <1>4

LEMMA BegunRequest ==
    ASSUME TypeOK, NEW r \in Request, NEW s \in Stage, handle \in Origin,
           req' = [req EXCEPT ![r] = [@ EXCEPT !.at = s, !.base = handle,
                                               !.seen = db[handle].password]]
    PROVE  /\ req' \in [Request -> RequestState]
           /\ req'[r].at = s /\ req'[r].base = handle /\ req'[r].seen = db[handle].password
           /\ \A q \in Request \ {r} : req'[q] = req[q]
<1> DEFINE w == db[handle].password
           e == [req[r] EXCEPT !.at = s, !.base = handle, !.seen = w]
<1>1. req[r] \in RequestState /\ req \in [Request -> RequestState] /\ w \in Origin
  BY DEF TypeOK, Database
<1> HIDE DEF w
<1>2. e \in RequestState /\ e.at = s /\ e.base = handle /\ e.seen = w
  BY <1>1 DEF RequestState
<1>3. req' = [req EXCEPT ![r] = e]
  BY DEF w
<1> HIDE DEF e
<1>4. QED
  BY <1>1, <1>2, <1>3 DEF w

LEMMA ConfirmingRequest ==
    ASSUME TypeOK, NEW r \in Request, NEW q \in Request, handle \in Origin,
           req' = [req EXCEPT ![r] = [@ EXCEPT !.at = "confirming", !.kit = req[q].kit,
                                               !.base = handle]]
    PROVE  /\ req' \in [Request -> RequestState]
           /\ req'[r].at = "confirming"
           /\ \A p \in Request \ {r} : req'[p] = req[p]
<1> DEFINE k == req[q].kit
           e == [req[r] EXCEPT !.at = "confirming", !.kit = k, !.base = handle]
<1>1. req[r] \in RequestState /\ req \in [Request -> RequestState] /\ k \in Key \cup {None}
  BY DEF TypeOK, RequestState
<1> HIDE DEF k
<1>2. e \in RequestState /\ e.at = "confirming"
  BY <1>1 DEF RequestState, Stage
<1>3. req' = [req EXCEPT ![r] = e]
  BY DEF k
<1> HIDE DEF e
<1>4. QED
  BY <1>1, <1>2, <1>3

\* A request that reads the password and sets out to verify it.
LEMMA InvSigning ==
    ASSUME SecurityInv, NEW r \in Request, NEW s \in Signing, up, Ready,
           req' = [req EXCEPT ![r] = [@ EXCEPT !.at = s, !.base = handle,
                                               !.seen = db[handle].password]],
           UNCHANGED <<disk, up, handle, open, cli, history>>
    PROVE  SecurityInv'
<1> USE DEF disk, history
<1>1. /\ handle \in Origin /\ None \notin Origin /\ db \in Databases /\ db[handle].password \in Origin
      /\ req \in [Request -> RequestState] /\ TypeOK
  BY SecurityAssumption DEF SecurityInv, TypeOK, Ready, Databases, Database, Origin
<1>2. s \in Stage /\ s \notin Resetting \cup Creating \cup Rekeying
  BY Stages DEF Resetting, Creating, Rekeying, Signing
<1>3. /\ req' \in [Request -> RequestState]
      /\ req'[r].at = s /\ req'[r].base = handle /\ req'[r].seen = db[handle].password
      /\ \A q \in Request \ {r} : req'[q] = req[q]
  BY <1>1, <1>2, BegunRequest
<1>4. Ordinary(r)
  BY <1>1, <1>2, <1>3 DEF Ordinary, Rekeying
<1>5. SessionsFollowPassword' /\ CredentialsReadable'
  BY SameSessions, SameCredentials
<1>6. LoginInv'
  BY <1>1, <1>3, SameLogins
<1>7. QED
  BY <1>1, <1>3, <1>4, <1>5, <1>6, OrdinaryStep DEF TypeOK

LEMMA InvLogin == ASSUME SecurityInv, NEW r \in Request, Login(r) PROVE SecurityInv'
BY InvSigning DEF Login, Signing

LEMMA InvChangePassword ==
    ASSUME SecurityInv, NEW r \in Request, ChangePassword(r) PROVE SecurityInv'
<1>1. Ready
  BY DEF ChangePassword, Sessions
<1>2. QED
  BY <1>1, InvSigning DEF ChangePassword, Signing

LEMMA InvCompleteSetup ==
    ASSUME SecurityInv, NEW r \in Request, NEW q \in Request, CompleteSetup(r, q)
    PROVE  SecurityInv'
<1> USE DEF disk, history
<1>1. /\ handle \in Origin /\ db \in Databases /\ TypeOK
      /\ req \in [Request -> RequestState] /\ req[q].kit \in Key \cup {None}
  BY DEF SecurityInv, TypeOK, Prepared, CompleteSetup, Databases, RequestState
<1>2. "confirming" \notin Resetting \cup Creating \cup Rekeying \cup Signing
  BY DEF Resetting, Creating, Rekeying, Signing
<1>3. /\ req' \in [Request -> RequestState]
      /\ req'[r].at = "confirming"
      /\ \A p \in Request \ {r} : req'[p] = req[p]
  BY <1>1, ConfirmingRequest DEF CompleteSetup
<1>4. Ordinary(r)
  BY <1>1, <1>2, <1>3 DEF Ordinary, CompleteSetup, Rekeying
<1>5. SessionsFollowPassword' /\ CredentialsReadable'
  BY SameSessions, SameCredentials DEF CompleteSetup
<1>6. LoginInv'
  BY <1>1, <1>3, SameLogins DEF CompleteSetup
<1>7. QED
  BY <1>1, <1>3, <1>4, <1>5, <1>6, OrdinaryStep DEF TypeOK, CompleteSetup

LEMMA InvConfirmSetup == ASSUME SecurityInv, NEW r \in Request, ConfirmSetup(r) PROVE SecurityInv'
<1>1. CASE Prepared /\ handle = req[r].base /\ handle \in open
  <2>1. /\ handle \in Origin /\ db \in Databases /\ TypeOK /\ up
    BY <1>1 DEF SecurityInv, TypeOK, Prepared, ConfirmSetup, Databases, Processes, At, Still
  <2>2. "consuming" \in Stage /\ "consuming" \notin Resetting \cup Creating \cup Rekeying \cup Signing
    BY DEF Resetting, Creating, Rekeying, Signing, Stage
  <2>3. Goto(r, "consuming") /\ db' = [db EXCEPT ![handle].complete = TRUE]
    BY <1>1 DEF ConfirmSetup
  <2>4. /\ db' \in Databases
        /\ \A x \in Origin : /\ db'[x].key = db[x].key /\ db'[x].credential = db[x].credential
                             /\ db'[x].sessions = db[x].sessions
                             /\ db'[x].password = db[x].password
                             /\ db[x].complete => db'[x].complete
    <3> DEFINE n == [db EXCEPT ![handle].complete = TRUE]
    <3>1. /\ n \in Databases /\ n[handle].complete = TRUE
          /\ \A p \in Origin : /\ n[p].key = db[p].key /\ n[p].credential = db[p].credential
                               /\ n[p].sessions = db[p].sessions
                               /\ n[p].password = db[p].password
                               /\ p # handle => n[p] = db[p]
      BY <2>1, NowComplete
    <3>2. db' = n
      BY <2>3
    <3> HIDE DEF n
    <3>3. QED
      BY <3>1, <3>2
  <2>5. /\ req' \in [Request -> RequestState] /\ req'[r].at = "consuming"
        /\ \A p \in Request \ {r} : req'[p] = req[p]
    BY <2>1, <2>2, <2>3, GotoIs
  <2>6. /\ UNCHANGED <<kind, provider, file, token, up, handle, open, cli>>
        /\ UNCHANGED <<kits, backups, crossed, torn, overtaken, crashes>>
    BY DEF ConfirmSetup, history
  <2>7. Ordinary(r)
    BY <2>1, <2>2, <2>4, <2>5, <2>6 DEF Ordinary, Rekeying
  <2>8. SessionsFollowPassword' /\ CredentialsReadable'
    BY <2>4, <2>6, SameSessions, SameCredentials
  <2>9. LoginInv'
    BY <2>2, <2>4, <2>5, <2>6, SameLogins
  <2>10. QED
    BY <2>1, <2>5, <2>6, <2>7, <2>8, <2>9, OrdinaryStep DEF TypeOK
<1>2. CASE ~(Prepared /\ handle = req[r].base /\ handle \in open)
  BY <1>2, InvOver DEF ConfirmSetup, disk
<1>3. QED
  BY <1>1, <1>2

\* A step that changes the sessions of the open database, and nothing else but
\* the token and where the request is.
LEMMA InvSessions ==
    ASSUME SecurityInv, NEW r, NEW s \in Openers, Ready,
           db' = [db EXCEPT ![handle].sessions = s],
           \A x \in s : \/ x \in db[handle].sessions \/ crossed
                        \/ x[2] = db[handle].password \/ x[1] \in overtaken,
           r \in Request => Goto(r, "over"),
           r \notin Request => UNCHANGED req,
           token' \in BOOLEAN,
           UNCHANGED <<kind, provider, file, up, handle, open, cli, history>>
    PROVE  SecurityInv'
<1> USE DEF history
<1>1. handle \in Origin /\ db \in Databases /\ TypeOK /\ req \in [Request -> RequestState]
  BY DEF SecurityInv, TypeOK, Ready, Databases
<1>2. /\ db' \in Databases /\ db'[handle].sessions = s
      /\ \A p \in Origin : /\ db'[p].key = db[p].key /\ db'[p].complete = db[p].complete
                           /\ db'[p].credential = db[p].credential
                           /\ db'[p].password = db[p].password
                           /\ p # handle => db'[p] = db[p]
  <2> DEFINE n == [db EXCEPT ![handle].sessions = s]
  <2>1. /\ n \in Databases /\ n[handle].sessions = s
        /\ \A p \in Origin : /\ n[p].key = db[p].key /\ n[p].complete = db[p].complete
                             /\ n[p].credential = db[p].credential
                             /\ n[p].password = db[p].password
                             /\ p # handle => n[p] = db[p]
    <3>1. s \in Openers
      OBVIOUS
    <3>2. QED
      BY ONLY <1>1, <3>1, NewSessions
  <2>2. db' = n
    OBVIOUS
  <2> HIDE DEF n
  <2>3. QED
    BY <2>1, <2>2
<1>3. /\ req' \in [Request -> RequestState]
      /\ \A q \in Request : q # r => req'[q] = req[q]
      /\ r \in Request => req'[r].at = "over"
  BY <1>1, OverIs, GotoIs
<1>4. Ordinary(r)
  BY <1>2, <1>3, OverIs DEF Ordinary, Still, Resetting, Creating, Rekeying, Signing
<1>5. \A x \in Origin : \A y \in db'[x].sessions :
          \/ y \in db[x].sessions \/ crossed
          \/ y[2] = db[x].password \/ y[1] \in overtaken
  BY <1>1, <1>2
<1>6. SessionsFollowPassword' /\ CredentialsReadable'
  BY <1>2, <1>5, SameSessions, SameCredentials
<1>7. LoginInv'
  BY <1>1, <1>2, <1>3, SameLogins
<1>8. QED
  BY <1>1, <1>3, <1>4, <1>6, <1>7, OrdinaryStep DEF TypeOK

\* A session that is added.
LEMMA InvWithSession ==
    ASSUME SecurityInv, NEW r \in Request, NEW w \in Origin,
           db' = WithSession(r, w), Goto(r, "over"), token' \in {token, FALSE},
           Ready => crossed \/ w = db[handle].password \/ r \in overtaken,
           UNCHANGED <<kind, provider, file, up, handle, open, cli, history>>
    PROVE  SecurityInv'
<1>1. CASE Ready
  <2> DEFINE s == db[handle].sessions \cup {<<r, w>>}
  <2>1. handle \in Origin /\ db[handle].sessions \in Openers /\ token' \in BOOLEAN
    BY <1>1 DEF SecurityInv, TypeOK, Ready, Database, Openers
  <2>2. s \in Openers
    BY <2>1 DEF Openers, Origin
  <2>3. db' = [db EXCEPT ![handle].sessions = s]
    BY <1>1 DEF WithSession
  <2>4. \A x \in s : \/ x \in db[handle].sessions \/ crossed
                     \/ x[2] = db[handle].password \/ x[1] \in overtaken
    BY <1>1
  <2> HIDE DEF s
  <2>5. QED
    BY <1>1, <2>1, <2>2, <2>3, <2>4, InvSessions
<1>2. CASE ~Ready
  <2>1. db' = db /\ backups \subseteq Key
    BY <1>2 DEF SecurityInv, WithSession, TypeOK
  <2>2. QED
    BY <2>1, OverIs, PureMove DEF history
<1>3. QED
  BY <1>1, <1>2

LEMMA InvConsumeToken == ASSUME SecurityInv, NEW r \in Request, ConsumeToken(r) PROVE SecurityInv'
<1>1. CASE Ready
  <2> DEFINE w == db[handle].password
  <2>1. w \in Origin
    BY <1>1 DEF SecurityInv, TypeOK, Ready, Database
  <2>2. /\ db' = WithSession(r, w) /\ Goto(r, "over") /\ token' \in {token, FALSE}
        /\ UNCHANGED <<kind, provider, file, up, handle, open, cli, history>>
    BY <1>1 DEF ConsumeToken
  <2>3. w = db[handle].password
    OBVIOUS
  <2> HIDE DEF w
  <2>4. QED
    BY <2>1, <2>2, <2>3, InvWithSession
<1>2. CASE ~Ready
  <2>1. db' = db /\ backups \subseteq Key
    BY <1>2 DEF SecurityInv, ConsumeToken, TypeOK
  <2>2. QED
    BY <2>1, OverIs, PureMove DEF ConsumeToken, history
<1>3. QED
  BY <1>1, <1>2

LEMMA InvLoginVerified == ASSUME SecurityInv, NEW r \in Request, LoginVerified(r) PROVE SecurityInv'
<1> DEFINE w == req[r].seen
<1>1. w \in Origin
  BY DEF SecurityInv, TypeOK, Processes, LoginVerified, At, RequestState
<1>2. crossed \/ w = db[handle].password \/ r \in overtaken
  BY DEF SecurityInv, LoginInv, LoginVerified
<1>3. /\ db' = WithSession(r, w) /\ Goto(r, "over") /\ token' \in {token, FALSE}
      /\ UNCHANGED <<kind, provider, file, up, handle, open, cli, history>>
  BY DEF LoginVerified
<1> HIDE DEF w
<1>4. QED
  BY <1>1, <1>2, <1>3, InvWithSession

LEMMA InvRevokeSessions == ASSUME SecurityInv, NEW gone, RevokeSessions(gone) PROVE SecurityInv'
<1> DEFINE s == db[handle].sessions \ gone
<1>1. s \in Openers /\ token' \in BOOLEAN
  BY DEF SecurityInv, TypeOK, Ready, Database, Openers, RevokeSessions
<1>2. /\ db' = [db EXCEPT ![handle].sessions = s] /\ Ready /\ UNCHANGED req
      /\ UNCHANGED <<kind, provider, file, up, handle, open, cli, history>>
  BY DEF RevokeSessions, process
<1>3. \A x \in s : x \in db[handle].sessions
  OBVIOUS
<1>4. None \notin Request
  BY SecurityAssumption
<1> HIDE DEF s
<1>5. QED
  BY <1>1, <1>2, <1>3, <1>4, InvSessions

LEMMA InvSaveCredential == ASSUME SecurityInv, SaveCredential PROVE SecurityInv'
<1> USE DEF history
<1> DEFINE c == db[handle].key
           n == [db EXCEPT ![handle].credential = c]
<1>1. /\ handle \in Origin /\ db \in Databases /\ TypeOK /\ c \in Key
      /\ c \in Key \cup {None} /\ None \notin Request
  BY SecurityAssumption
     DEF SecurityInv, TypeOK, Ready, Databases, SaveCredential, Sessions, Database
<1>2. /\ db' = n /\ c = db[handle].key
      /\ UNCHANGED <<kind, provider, file, token, up, handle, open, req, cli>>
      /\ UNCHANGED <<kits, backups, crossed, torn, overtaken, crashes>>
  BY DEF SaveCredential, process
<1> HIDE DEF c
<1>3. /\ n \in Databases /\ n[handle].credential = c
      /\ \A p \in Origin : /\ n[p].key = db[p].key /\ n[p].complete = db[p].complete
                           /\ n[p].sessions = db[p].sessions
                           /\ n[p].password = db[p].password
                           /\ p # handle => n[p] = db[p]
  BY ONLY <1>1, NewCredential
<1> HIDE DEF n
<1>4. Ordinary(None)
  BY <1>1, <1>2, <1>3 DEF Ordinary
<1>5. SessionsFollowPassword'
  BY <1>2, <1>3, SameSessions
<1>6. LoginInv'
  BY <1>1, <1>2, <1>3, SameLogins
<1>7. CredentialsReadable'
  BY <1>2, <1>3 DEF SecurityInv, CredentialsReadable
<1>8. QED
  BY <1>1, <1>2, <1>4, <1>5, <1>6, <1>7, OrdinaryStep DEF TypeOK

LEMMA InvPasswordHashed == ASSUME SecurityInv, NEW r \in Request, PasswordHashed(r) PROVE SecurityInv'
<1> USE DEF history
<1> DEFINE o == req[r].base
           s == {<<r, r>>}
<1>1. /\ db \in Databases /\ TypeOK /\ o \in Origin /\ s \in Openers /\ r \in Origin
      /\ At(r, "changing")
  BY DEF SecurityInv, TypeOK, Databases, PasswordHashed, Processes, RequestState, Openers,
         Origin, At
<1>2. /\ db' = [db EXCEPT ![o].password = r, ![o].sessions = s]
      /\ Goto(r, "over") /\ o = req[r].base
      /\ overtaken' = overtaken
           \cup {q \in Request \ {r} : req[q].at \in {"login", "changing"}}
      /\ UNCHANGED <<kind, provider, file, token, up, handle, open, cli>>
      /\ UNCHANGED <<kits, backups, crossed, torn, crashes>>
  BY DEF PasswordHashed
<1> HIDE DEF o
<1>3. s = {<<r, r>>}
  OBVIOUS
<1> HIDE DEF s
<1>4. /\ db' \in Databases /\ db'[o].sessions = s /\ db'[o].password = r
      /\ \A p \in Origin : /\ db'[p].key = db[p].key /\ db'[p].complete = db[p].complete
                           /\ db'[p].credential = db[p].credential
                           /\ p # o => db'[p] = db[p]
  BY <1>1, <1>2, NewPassword
<1>5. /\ req' \in [Request -> RequestState] /\ req'[r].at = "over"
      /\ \A q \in Request \ {r} : req'[q] = req[q]
  BY <1>1, <1>2, OverIs, GotoIs
<1>6. Ordinary(r)
  BY <1>2, <1>4, <1>5, OverIs DEF Ordinary, Still, Resetting, Creating, Rekeying, Signing
<1>7. CredentialsReadable'
  BY <1>2, <1>4, SameCredentials
<1>8. SessionsFollowPassword'
  <2>1. \A y \in db'[o].sessions : y[2] = db'[o].password
    BY <1>3, <1>4
  <2>2. \A x \in Origin \ {o} : db'[x] = db[x]
    BY <1>4
  <2>3. overtaken \subseteq overtaken'
    BY <1>2
  <2>4. crossed' = crossed /\ SessionsFollowPassword
    BY <1>2 DEF SecurityInv
  <2>5. ASSUME ~crossed, NEW x \in Origin, NEW y \in db'[x].sessions
        PROVE  y[2] = db'[x].password \/ y[1] \in overtaken'
    <3>1. CASE x = o
      BY <2>1, <3>1
    <3>2. CASE x # o
      BY <2>2, <2>3, <2>4, <2>5, <3>2 DEF SessionsFollowPassword
    <3>3. QED
      BY <3>1, <3>2
  <2>6. QED
    BY <2>4, <2>5 DEF SessionsFollowPassword
<1>9. LoginInv'
  <2>1. \A q \in Request : req'[q].at = "login" => q \in overtaken'
    BY <1>1, <1>2, <1>5 DEF At
  <2>2. QED
    BY <2>1 DEF LoginInv, At
<1>10. QED
  BY <1>1, <1>2, <1>5, <1>6, <1>7, <1>8, <1>9, OrdinaryStep DEF TypeOK

-----------------------------------------------------------------------------
(* A setup that goes on.                                                      *)
SettingUp(r, s) ==
    /\ Goto(r, s) /\ s \in Resetting \cup Creating /\ up
    /\ UNCHANGED <<kind, db, token, up, cli, kits, backups, torn, overtaken, crashes>>
    /\ handle' \in {handle, None} /\ file' \in {file, None} /\ open' \subseteq open
    /\ provider' \in {provider, None} /\ crossed' \in BOOLEAN /\ (crossed => crossed')

LEMMA SettingUpKeeps ==
    ASSUME SecurityInv, NEW r \in Request, NEW s, SettingUp(r, s)
    PROVE  /\ TypeOK' /\ Processes' /\ SessionsFollowPassword' /\ CredentialsReadable'
           /\ cli.at = "idle"
           /\ req'[r].at = s /\ \A q \in Request \ {r} : req'[q] = req[q]
           /\ s \notin Rekeying \cup Signing
<1> USE DEF SettingUp
<1>1. TypeOK /\ Processes /\ s \in Stage /\ s \notin Rekeying \cup Signing
  BY Stages DEF SecurityInv, Resetting, Creating, Rekeying, Signing
<1>2. /\ req' \in [Request -> RequestState] /\ req'[r].at = s
      /\ \A q \in Request \ {r} : req'[q] = req[q]
  BY <1>1, GotoIs
<1>3. TypeOK'
  BY <1>1, <1>2 DEF TypeOK
<1>4. Processes'
  BY <1>1, <1>2 DEF Processes, At, Rekeying, Signing
<1>5. SessionsFollowPassword' /\ CredentialsReadable'
  BY SameSessions, SameCredentials
<1>6. cli.at = "idle"
  BY <1>1 DEF Processes
<1>7. QED
  BY <1>1, <1>2, <1>3, <1>4, <1>5, <1>6

LEMMA InvPrepareChecked == ASSUME SecurityInv, NEW r \in Request, PrepareChecked(r) PROVE SecurityInv'
<1> USE DEF disk, history
<1>1. TypeOK /\ Processes /\ OpensInv /\ AloneInv /\ LoginInv /\ KitsInv /\ up /\ crossed \in BOOLEAN
  BY DEF SecurityInv, TypeOK, PrepareChecked, Processes, At, Still
<1>2. CASE Ready
  BY <1>2, InvOver DEF PrepareChecked, BeginReset, BeginHashing, Prepared, Ready
<1>3. CASE ~Ready /\ Prepared /\ BeginReset(r)
  <2>1. SettingUp(r, "resetting")
    BY <1>1, <1>3 DEF BeginReset, SettingUp, Resetting, Underway
  <2>2. /\ TypeOK' /\ Processes' /\ SessionsFollowPassword' /\ CredentialsReadable'
        /\ cli.at = "idle" /\ "resetting" \notin Rekeying \cup Signing
        /\ req'[r].at = "resetting" /\ \A q \in Request \ {r} : req'[q] = req[q]
    BY <2>1, SettingUpKeeps
  <2>3. /\ handle' = None /\ UNCHANGED <<file, provider, db, up, cli, kits, backups, torn>>
        /\ ~crossed' => ~crossed /\ \A q \in Request : req[q].at \notin Creating
    BY <1>3 DEF BeginReset, Underway, Creating
  <2>4. ~crossed' => \A q \in Request : req[q].at \notin Resetting \cup Rekeying \cup Signing
    BY <1>1, <1>3, <2>3 DEF AloneInv
  <2>5. OpensInv'
    BY <1>1, <2>3 DEF OpensInv, Opens
  <2>6. AloneInv'
    BY <2>2, <2>3, <2>4 DEF AloneInv, Prepared, At, Resetting
  <2>7. LoginInv' /\ KitsInv'
    BY <1>1, <2>2, <2>3, <2>4 DEF LoginInv, KitsInv, At, Rekeying, Signing
  <2>8. QED
    BY <2>2, <2>5, <2>6, <2>7 DEF SecurityInv
<1>4. CASE ~Prepared /\ BeginHashing(r)
  <2>1. SettingUp(r, "hashing")
    BY <1>1, <1>4 DEF BeginHashing, SettingUp, Creating, Underway
  <2>2. /\ TypeOK' /\ Processes' /\ SessionsFollowPassword' /\ CredentialsReadable'
        /\ cli.at = "idle" /\ "hashing" \notin Rekeying \cup Signing
        /\ req'[r].at = "hashing" /\ \A q \in Request \ {r} : req'[q] = req[q]
    BY <2>1, SettingUpKeeps
  <2>3. /\ UNCHANGED <<file, handle, provider, db, up, cli, kits, backups, torn, overtaken>>
        /\ ~crossed' => ~crossed /\ \A q \in Request : req[q].at \notin Resetting
    BY <1>4 DEF BeginHashing, Underway, Resetting
  <2>4. OpensInv'
    BY <1>1, <2>3 DEF OpensInv, Opens
  <2>5. AloneInv'
    BY <1>1, <2>2, <2>3 DEF AloneInv, Prepared, Ready, At, Resetting
  <2>6. LoginInv' /\ KitsInv'
    BY <1>1, <2>2, <2>3 DEF LoginInv, KitsInv, At, Rekeying, Signing
  <2>7. QED
    BY <2>2, <2>4, <2>5, <2>6 DEF SecurityInv
<1>5. QED
  BY <1>2, <1>3, <1>4 DEF PrepareChecked

LEMMA InvResetFiles == ASSUME SecurityInv, NEW r \in Request, ResetFiles(r) PROVE SecurityInv'
<1> USE DEF disk, history
<1>1. TypeOK /\ Processes /\ OpensInv /\ AloneInv /\ LoginInv /\ KitsInv /\ up /\ crossed \in BOOLEAN
  BY DEF SecurityInv, TypeOK, ResetFiles, Processes, At, Still
<1>2. SettingUp(r, "keyless")
  BY <1>1 DEF ResetFiles, SettingUp, Resetting
<1>3. /\ TypeOK' /\ Processes' /\ SessionsFollowPassword' /\ CredentialsReadable'
      /\ cli.at = "idle" /\ "keyless" \notin Rekeying \cup Signing
      /\ req'[r].at = "keyless" /\ \A q \in Request \ {r} : req'[q] = req[q]
  BY <1>2, SettingUpKeeps
<1>4. /\ file' = None
      /\ UNCHANGED <<handle, provider, db, up, cli, kits, backups, torn, overtaken, crossed>>
  BY DEF ResetFiles
<1>5. ~crossed => ~Prepared /\ \A q \in Request \ {r} : req[q].at \notin Resetting \cup Creating
  BY <1>1 DEF AloneInv, ResetFiles, At, Resetting
<1>6. OpensInv'
  BY <1>1, <1>3, <1>4 DEF OpensInv, Opens
<1>7. AloneInv'
  BY <1>1, <1>3, <1>4, <1>5 DEF AloneInv, Prepared, Ready, At
<1>8. LoginInv' /\ KitsInv'
  BY <1>1, <1>3, <1>4 DEF LoginInv, KitsInv, At, Rekeying, Signing
<1>9. QED
  BY <1>3, <1>6, <1>7, <1>8 DEF SecurityInv

LEMMA InvResetKey == ASSUME SecurityInv, NEW r \in Request, ResetKey(r) PROVE SecurityInv'
<1> USE DEF disk, history
<1>1. TypeOK /\ Processes /\ OpensInv /\ AloneInv /\ LoginInv /\ KitsInv /\ up /\ crossed \in BOOLEAN
  BY DEF SecurityInv, TypeOK, ResetKey, Processes, At, Still
<1>2. SettingUp(r, "hashing")
  BY <1>1 DEF ResetKey, SettingUp, Creating
<1>3. /\ TypeOK' /\ Processes' /\ SessionsFollowPassword' /\ CredentialsReadable'
      /\ cli.at = "idle" /\ "hashing" \notin Rekeying \cup Signing
      /\ req'[r].at = "hashing" /\ \A q \in Request \ {r} : req'[q] = req[q]
  BY <1>2, SettingUpKeeps
<1>4. UNCHANGED <<file, handle, db, up, cli, kits, backups, torn, overtaken, crossed>>
  BY DEF ResetKey
<1>5. ~crossed => /\ file = None
                  /\ \A q \in Request \ {r} : req[q].at \notin Resetting \cup Creating
  BY <1>1 DEF AloneInv, ResetKey, At, Resetting
<1>6. OpensInv'
  BY <1>1, <1>3, <1>4, <1>5 DEF OpensInv, Opens
<1>7. AloneInv'
  BY <1>1, <1>3, <1>4, <1>5 DEF AloneInv, Prepared, Ready, At, Resetting
<1>8. LoginInv' /\ KitsInv'
  BY <1>1, <1>3, <1>4 DEF LoginInv, KitsInv, At, Rekeying, Signing
<1>9. QED
  BY <1>3, <1>6, <1>7, <1>8 DEF SecurityInv

LEMMA NewWorkspaceIs ==
    ASSUME NEW r \in Request, NEW k \in Key
    PROVE  LET n == NewWorkspace(r, k)
           IN  /\ n \in Database /\ n.key = k /\ n.password = r
               /\ n.sessions = {} /\ n.credential = None
BY DEF NewWorkspace, Database, Key, Origin

LEMMA CreatedRequest ==
    ASSUME TypeOK, NEW r \in Request, NEW k \in Key, NEW s \in Stage,
           req' = [req EXCEPT ![r].at = s, ![r].kit = k]
    PROVE  /\ req' \in [Request -> RequestState] /\ req'[r].at = s
           /\ \A q \in Request \ {r} : req'[q] = req[q]
<1> DEFINE f == [req[r] EXCEPT !.at = s]
           e == [f EXCEPT !.kit = k]
<1>1. req[r] \in RequestState /\ req \in [Request -> RequestState]
  BY DEF TypeOK
<1>2. f \in RequestState /\ f.at = s
  BY <1>1 DEF RequestState
<1>3. req' = [req EXCEPT ![r] = e]
  BY <1>1
<1> HIDE DEF f
<1>4. e \in RequestState /\ e.at = s
  BY <1>2 DEF RequestState
<1> HIDE DEF e
<1>5. QED
  BY <1>1, <1>3, <1>4

LEMMA InvCreateWorkspace ==
    ASSUME SecurityInv, NEW r \in Request, CreateWorkspace(r) PROVE SecurityInv'
<1> DEFINE key == IF provider = None THEN r ELSE provider
           e == NewWorkspace(r, key)
<1>1. /\ TypeOK /\ Processes /\ OpensInv /\ AloneInv /\ LoginInv /\ KitsInv
      /\ up /\ cli.at = "idle" /\ db \in Databases /\ r \in Origin
      /\ req[r].at = "absent" /\ file = None
  BY DEF SecurityInv, TypeOK, CreateWorkspace, Processes, At, Still, Databases, Origin
<1>2. key \in Key
  BY <1>1 DEF TypeOK, Key
<1>3. /\ req' = [req EXCEPT ![r].at = "prepared", ![r].kit = key]
      /\ provider' = key /\ file' = r /\ handle' = r /\ open' = open \cup {r}
      /\ db' = [db EXCEPT ![r] = e] /\ kits' = kits \cup {key}
      /\ UNCHANGED <<kind, token, up, cli, backups, crossed, torn, overtaken, crashes>>
  BY DEF CreateWorkspace
<1> HIDE DEF key
<1>4. /\ e \in Database /\ e.key = key /\ e.password = r
      /\ e.sessions = {} /\ e.credential = None
  BY <1>2, NewWorkspaceIs
<1> HIDE DEF e
<1>5. /\ db' \in Databases /\ db'[r] = e
      /\ \A p \in Origin \ {r} : db'[p] = db[p]
  <2> DEFINE n == [db EXCEPT ![r] = e]
  <2>1. n \in Databases /\ n[r] = e /\ \A p \in Origin \ {r} : n[p] = db[p]
    BY ONLY <1>1, <1>4, OneDatabase
  <2>2. db' = n
    BY <1>3
  <2> HIDE DEF n
  <2>3. QED
    BY <2>1, <2>2
<1>6. /\ req' \in [Request -> RequestState] /\ req'[r].at = "prepared"
      /\ \A q \in Request \ {r} : req'[q] = req[q]
  BY <1>1, <1>2, <1>3, CreatedRequest DEF Stage
<1>7. ~crossed => \A q \in Request : req[q].at \notin Resetting \cup Rekeying \cup Signing
  <2>1. ~crossed => ~Prepared
    BY <1>1 DEF AloneInv, Prepared
  <2>2. req[r].at \in Creating /\ req[r].at \notin Resetting
    BY <1>1 DEF Creating, Resetting
  <2>3. QED
    BY <1>1, <2>1, <2>2 DEF AloneInv, Prepared, Ready
<1>8. "prepared" \notin Resetting \cup Creating \cup Rekeying \cup Signing /\ "prepared" \in Still
  BY DEF Resetting, Creating, Rekeying, Signing, Still
<1>9. key # None
  BY <1>2, SecurityAssumption DEF Key, Origin
<1>10. TypeOK'
  BY <1>1, <1>2, <1>3, <1>5, <1>6 DEF TypeOK, Databases
<1>11. Processes'
  BY <1>1, <1>3, <1>6, <1>8 DEF Processes, At, Signing
<1>12. OpensInv'
  BY <1>1, <1>3, <1>4, <1>5, <1>9 DEF OpensInv, Opens
<1>13. AloneInv'
  BY <1>3, <1>6, <1>7, <1>8 DEF AloneInv, Prepared, At, Resetting
<1>14. LoginInv'
  BY <1>3, <1>6, <1>7, <1>8 DEF LoginInv, At, Signing
<1>15. KitsInv'
  BY <1>3, <1>4, <1>5, <1>6, <1>7, <1>8 DEF KitsInv, At, Rekeying
<1>16. CredentialsReadable'
  BY <1>3, <1>4, <1>5 DEF SecurityInv, CredentialsReadable
<1>17. SessionsFollowPassword'
  BY <1>3, <1>4, <1>5 DEF SecurityInv, SessionsFollowPassword
<1>18. QED
  BY <1>10, <1>11, <1>12, <1>13, <1>14, <1>15, <1>16, <1>17 DEF SecurityInv

\* PRAGMA rekey and its hook, whichever of them a crash leaves.
LEMMA RekeyedIs ==
    ASSUME SecurityInv, NEW r \in Request, Ready, db' \in {RekeyHooked(r), RekeyPragma(r)}
    PROVE  /\ db' \in Databases
           /\ \A p \in Origin : /\ db'[p].complete = db[p].complete
                                /\ db'[p].sessions = db[p].sessions
                                /\ db'[p].password = db[p].password
                                /\ p # handle => db'[p] = db[p]
           /\ db'[handle].credential \in {None, r}
           /\ db' = RekeyPragma(r) => db'[handle].key = r
<1> DEFINE c == Rotated(r)
<1>1. handle \in Origin /\ db \in Databases /\ r \in Key /\ r # None
  BY SecurityAssumption DEF SecurityInv, TypeOK, Ready, Databases, Key, Origin
<1>2. c \in Key \cup {None} /\ c \in {None, r}
  BY <1>1 DEF Rotated
<1>3. CASE db' = RekeyPragma(r)
  <2>1. db' = [db EXCEPT ![handle].credential = c, ![handle].key = r]
    BY <1>3 DEF RekeyPragma
  <2> HIDE DEF c
  <2>2. /\ db' \in Databases /\ db'[handle].credential = c /\ db'[handle].key = r
        /\ \A p \in Origin : /\ db'[p].complete = db[p].complete
                             /\ db'[p].sessions = db[p].sessions
                             /\ db'[p].password = db[p].password
                             /\ p # handle => db'[p] = db[p]
    BY <1>1, <1>2, <2>1, NewKey
  <2>3. QED
    BY <1>2, <2>2
<1>4. CASE db' = RekeyHooked(r) /\ db' # RekeyPragma(r)
  <2> DEFINE n == [db EXCEPT ![handle].credential = c]
  <2>1. db' = n
    BY <1>4 DEF RekeyHooked
  <2> HIDE DEF c
  <2>2. /\ n \in Databases /\ n[handle].credential = c
        /\ \A p \in Origin : /\ n[p].key = db[p].key /\ n[p].complete = db[p].complete
                             /\ n[p].sessions = db[p].sessions
                             /\ n[p].password = db[p].password
                             /\ p # handle => n[p] = db[p]
    BY ONLY <1>1, <1>2, NewCredential
  <2> HIDE DEF n
  <2>3. QED
    BY <1>2, <1>4, <2>1, <2>2
<1>5. QED
  BY <1>3, <1>4

LEMMA RekeyAt ==
    ASSUME SecurityInv, NEW r \in Request, At(r, "rekeying")
    PROVE  /\ up /\ cli.at = "idle"
           /\ \A q \in Request \ {r} : req[q].at \notin Rekeying
           /\ ~crossed => file = handle /\ db[handle].key \in backups
BY DEF SecurityInv, Processes, AloneInv, KitsInv, At, Still, Rekeying, Prepared, Ready

LEMMA InvRekey == ASSUME SecurityInv, NEW r \in Request, Rekey(r) PROVE SecurityInv'
<1>1. /\ TypeOK /\ Processes /\ OpensInv /\ AloneInv /\ LoginInv /\ KitsInv /\ Ready
      /\ handle \in Origin /\ r \in Key /\ r # None
  BY SecurityAssumption DEF SecurityInv, TypeOK, Rekey, Ready, Key, Origin
<1>2. /\ up /\ cli.at = "idle"
      /\ \A q \in Request \ {r} : req[q].at \notin Rekeying
      /\ ~crossed => file = handle /\ db[handle].key \in backups
  BY RekeyAt DEF Rekey
<1>3. /\ db' \in Databases
      /\ \A p \in Origin : /\ db'[p].complete = db[p].complete
                           /\ db'[p].sessions = db[p].sessions
                           /\ db'[p].password = db[p].password
                           /\ p # handle => db'[p] = db[p]
      /\ db'[handle].credential \in {None, r}
      /\ db'[handle].key = r
  BY <1>1, RekeyedIs DEF Rekey
<1>4. /\ provider' = r /\ kits' = kits \cup {r}
      /\ UNCHANGED <<kind, file, token, up, handle, open, cli, backups, crossed, torn,
                     overtaken, crashes>>
  BY DEF Rekey
<1>5. /\ req' \in [Request -> RequestState] /\ req'[r].at = "over"
      /\ \A q \in Request \ {r} : req'[q] = req[q]
  BY <1>1, CreatedRequest DEF Rekey, Stage
<1>6. "over" \notin Resetting \cup Creating \cup Rekeying \cup Signing /\ "over" \in Still
  BY OverIs DEF Signing, Resetting
<1>7. TypeOK'
  BY <1>1, <1>3, <1>4, <1>5 DEF TypeOK, Databases
<1>8. Processes'
  BY <1>1, <1>2, <1>4, <1>5, <1>6 DEF Processes, At, Signing
<1>9. OpensInv'
  BY <1>1, <1>2, <1>3, <1>4 DEF OpensInv, Opens
<1>10. Ready'
  BY <1>1, <1>3, <1>4 DEF Ready
<1>11. AloneInv'
  BY <1>1, <1>4, <1>5, <1>6, <1>10 DEF AloneInv, Prepared, At
<1>12. LoginInv'
  BY <1>1, <1>3, <1>4, <1>5, <1>6 DEF LoginInv, At, Signing
<1>13. KitsInv'
  BY <1>1, <1>2, <1>3, <1>4, <1>5, <1>6 DEF KitsInv, At, Rekeying
<1>14. CredentialsReadable'
  BY <1>1, <1>3, <1>4 DEF SecurityInv, CredentialsReadable
<1>15. SessionsFollowPassword'
  BY <1>3, <1>4 DEF SecurityInv, SessionsFollowPassword
<1>16. QED
  BY <1>7, <1>8, <1>9, <1>11, <1>12, <1>13, <1>14, <1>15 DEF SecurityInv

-----------------------------------------------------------------------------
(* The process ends and starts, and the recovery command runs.                *)
LEMMA DiesIs ==
    ASSUME SecurityInv, up, Dies
    PROVE  /\ req' \in [Request -> RequestState] /\ \A q \in Request : req'[q].at \in Still
           /\ crashes' \in 0..MaxCrashes /\ up' = FALSE /\ handle' = None /\ open' = {}
           /\ cli.at = "idle"
<1>1. TypeOK /\ Processes
  BY DEF SecurityInv
<1>2. ASSUME NEW q \in Request PROVE req'[q] \in RequestState /\ req'[q].at \in Still
  <2>1. req[q] \in RequestState
    BY <1>1 DEF TypeOK
  <2>2. CASE At(q, "idle") \/ At(q, "prepared")
    BY <2>1, <2>2 DEF Dies, Still, At
  <2>3. CASE ~(At(q, "idle") \/ At(q, "prepared"))
    <3> DEFINE e == [req[q] EXCEPT !.at = "over"]
    <3>1. e \in RequestState /\ e.at = "over"
      BY <2>1 DEF RequestState, Stage
    <3>2. req'[q] = e
      BY <2>3 DEF Dies
    <3> HIDE DEF e
    <3>3. QED
      BY <3>1, <3>2 DEF Still
  <2>4. QED
    BY <2>2, <2>3
<1>3. req' \in [Request -> RequestState]
  <2>1. req' = [q \in Request |-> req'[q]]
    BY DEF Dies
  <2>2. QED
    BY <1>2, <2>1
<1>4. crashes' \in 0..MaxCrashes
  BY <1>1, SecurityAssumption DEF Dies, TypeOK
<1>5. cli.at = "idle"
  BY <1>1 DEF Processes
<1>6. QED
  BY <1>2, <1>3, <1>4, <1>5 DEF Dies

\* Nothing is under way and the server has stopped.
LEMMA Stopped ==
    ASSUME SecurityInv, \A q \in Request : req'[q].at \in Still, handle' = None,
           up' = FALSE, cli' = cli, cli.at = "idle"
    PROVE  Processes' /\ AloneInv' /\ LoginInv'
<1>1. Still \cap (Resetting \cup Rekeying \cup Signing) = {}
  BY DEF Still, Resetting, Rekeying, Signing
<1>2. Processes'
  BY <1>1 DEF Processes, At, Still, Rekeying
<1>3. AloneInv' /\ LoginInv'
  BY <1>1 DEF AloneInv, LoginInv, At, Prepared, Signing, Resetting
<1>4. QED
  BY <1>2, <1>3

LEMMA InvCrash == ASSUME SecurityInv, Crash PROVE SecurityInv'
<1> USE DEF disk
<1>1. up /\ Dies /\ UNCHANGED <<disk, cli, kits, backups, crossed, torn, overtaken>>
  BY DEF Crash
<1>2. TypeOK /\ OpensInv /\ KitsInv
  BY DEF SecurityInv
<1>3. /\ req' \in [Request -> RequestState] /\ \A q \in Request : req'[q].at \in Still
      /\ crashes' \in 0..MaxCrashes /\ up' = FALSE /\ handle' = None /\ open' = {}
      /\ cli.at = "idle"
  BY <1>1, DiesIs
<1>4. TypeOK'
  BY <1>1, <1>2, <1>3 DEF TypeOK
<1>5. Processes' /\ AloneInv' /\ LoginInv'
  BY <1>1, <1>3, Stopped
<1>6. OpensInv'
  BY <1>1, <1>2, <1>3 DEF OpensInv, Opens
<1>7. KitsInv'
  BY <1>1, <1>2, <1>3 DEF KitsInv, At, Still
<1>8. SessionsFollowPassword' /\ CredentialsReadable'
  BY <1>1, SameSessions, SameCredentials
<1>9. QED
  BY <1>4, <1>5, <1>6, <1>7, <1>8 DEF SecurityInv

LEMMA InvRekeyDies == ASSUME SecurityInv, NEW r \in Request, RekeyDies(r) PROVE SecurityInv'
<1>1. /\ TypeOK /\ OpensInv /\ KitsInv /\ Ready /\ up /\ Dies /\ At(r, "rekeying")
      /\ handle \in Origin /\ r \in Key /\ r # None
  BY SecurityAssumption DEF SecurityInv, TypeOK, RekeyDies, Ready, Key, Origin
<1>2. ~crossed => file = handle /\ db[handle].key \in backups
  BY <1>1, RekeyAt
<1>3. /\ req' \in [Request -> RequestState] /\ \A q \in Request : req'[q].at \in Still
      /\ crashes' \in 0..MaxCrashes /\ up' = FALSE /\ handle' = None /\ open' = {}
      /\ cli.at = "idle"
  BY <1>1, DiesIs
<1>4. /\ db' \in Databases
      /\ \A p \in Origin : /\ db'[p].complete = db[p].complete
                           /\ db'[p].sessions = db[p].sessions
                           /\ db'[p].password = db[p].password
                           /\ p # handle => db'[p] = db[p]
      /\ db'[handle].credential \in {None, r}
      /\ db' = RekeyPragma(r) => db'[handle].key = r
  BY <1>1, RekeyedIs DEF RekeyDies
<1>5. /\ torn' = (torn \/ provider' = provider) /\ provider' \in {provider, r}
      /\ ~torn' => ~torn /\ provider' = r /\ db' = RekeyPragma(r)
      /\ UNCHANGED <<kind, file, token, cli, kits, backups, crossed, overtaken>>
  BY DEF RekeyDies
<1>6. TypeOK'
  <2>1. torn' \in BOOLEAN
    BY <1>1, <1>5 DEF TypeOK
  <2>2. QED
    BY <1>1, <1>3, <1>4, <1>5, <2>1 DEF TypeOK, Databases
<1>7. Processes' /\ AloneInv' /\ LoginInv'
  BY <1>3, <1>5, Stopped
<1>8. OpensInv'
  BY <1>1, <1>2, <1>3, <1>4, <1>5 DEF OpensInv, Opens
<1>9. KitsInv'
  <2>1. ~crossed => backups \cap kits # {}
    <3>1. handle # None
      BY <1>1 DEF Ready
    <3>2. ~crossed => db[handle].key \in kits \/ backups \cap kits # {}
      BY <1>1, <1>2, <3>1 DEF KitsInv
    <3>3. ~crossed => db[handle].key \in backups
      BY <1>2
    <3>4. QED
      BY <3>2, <3>3
  <2>2. QED
    BY <1>3, <1>5, <2>1 DEF KitsInv, At, Still
<1>10. CredentialsReadable'
  BY <1>1, <1>4, <1>5 DEF SecurityInv, CredentialsReadable
<1>11. SessionsFollowPassword'
  BY <1>4, <1>5 DEF SecurityInv, SessionsFollowPassword
<1>12. QED
  BY <1>6, <1>7, <1>8, <1>9, <1>10, <1>11 DEF SecurityInv

LEMMA InvStart == ASSUME SecurityInv, Start PROVE SecurityInv'
<1> USE DEF history
<1>1. TypeOK /\ Processes /\ OpensInv /\ KitsInv
  BY DEF SecurityInv
<1>2. /\ ~up /\ cli.at = "idle" /\ Opens /\ up' = TRUE /\ handle' = file
      /\ open' = {file} \ {None} /\ token' = (token \/ file = None \/ ~db[file].complete)
      /\ UNCHANGED <<kind, provider, file, db, req, cli>>
      /\ UNCHANGED <<kits, backups, crossed, torn, overtaken, crashes>>
  BY DEF Start
<1>3. \A q \in Request : req[q].at \in Still
  BY <1>1, <1>2 DEF Processes
<1>4. Still \cap (Resetting \cup Rekeying \cup Signing) = {}
  BY DEF Still, Resetting, Rekeying, Signing
<1>5. TypeOK'
  <2>1. token' \in BOOLEAN
    BY <1>2
  <2>2. file \in Origin \cup {None} /\ open' \subseteq Origin
    BY <1>1, <1>2 DEF TypeOK
  <2>3. QED
    BY <1>1, <1>2, <2>1, <2>2 DEF TypeOK
<1>6. Processes'
  BY <1>1, <1>2, <1>3, <1>4 DEF Processes, At, Signing
<1>7. OpensInv'
  BY <1>1, <1>2 DEF OpensInv, Opens
<1>8. AloneInv' /\ LoginInv'
  BY <1>2, <1>3, <1>4 DEF AloneInv, LoginInv, At, Prepared, Signing, Resetting
<1>9. KitsInv'
  BY <1>1, <1>2, <1>3, <1>4 DEF KitsInv, At, Rekeying
<1>10. SessionsFollowPassword' /\ CredentialsReadable'
  BY <1>2, SameSessions, SameCredentials
<1>11. QED
  BY <1>5, <1>6, <1>7, <1>8, <1>9, <1>10 DEF SecurityInv

Commands == [at : {"idle", "saved", "opened"}, by : Request \cup {None},
             previous : Key \cup {None}, saved : BOOLEAN]

LEMMA NoCommandIs == NoCommand \in Commands /\ NoCommand.at = "idle"
BY DEF NoCommand, Commands

LEMMA OpenedCommand ==
    ASSUME NEW c \in Commands
    PROVE  LET n == [c EXCEPT !.at = "opened"]
           IN  /\ n \in Commands /\ n.at = "opened" /\ n.by = c.by
               /\ n.previous = c.previous /\ n.saved = c.saved
BY DEF Commands

LEMMA SavedCommand ==
    ASSUME NEW r \in Request, NEW k \in Key \cup {None}, NEW b \in BOOLEAN
    PROVE  LET n == [at |-> "saved", by |-> r, previous |-> k, saved |-> b]
           IN  /\ n \in Commands /\ n.at = "saved" /\ n.by = r
               /\ n.previous = k /\ n.saved = b
BY DEF Commands

\* The command runs alone: what is left to show of its steps.
LEMMA Alone ==
    ASSUME SecurityInv, ~up, UNCHANGED <<kind, token, up, handle, open, file>>,
           UNCHANGED <<kits, backups, crossed, overtaken>>,
           cli' \in Commands, provider' \in Key \cup {None}, db' \in Databases,
           req' \in [Request -> RequestState], \A q \in Request : req'[q].at \in Still,
           torn' \in BOOLEAN, crashes' \in 0..MaxCrashes,
           \A p \in Origin : db'[p].key = db[p].key
    PROVE  TypeOK' /\ AloneInv' /\ LoginInv' /\ KitsInv'
<1>1. TypeOK /\ Processes /\ KitsInv
  BY DEF SecurityInv
<1>2. Still \cap (Resetting \cup Rekeying \cup Signing) = {} /\ handle' = None
  BY <1>1 DEF Still, Resetting, Rekeying, Signing, Processes
<1>3. TypeOK'
  BY <1>1 DEF TypeOK, Commands, Databases
<1>4. AloneInv' /\ LoginInv'
  BY <1>2 DEF AloneInv, LoginInv, At, Prepared, Signing, Resetting
<1>5. KitsInv'
  <2>1. file # None => file \in Origin
    BY <1>1 DEF TypeOK
  <2>2. QED
    BY <1>1, <1>2, <2>1 DEF KitsInv, At, Rekeying
<1>6. QED
  BY <1>3, <1>4, <1>5

LEMMA InvRecoverSave ==
    ASSUME SecurityInv, NEW r \in Request, NEW k \in Key, RecoverSave(r, k) PROVE SecurityInv'
<1> USE DEF history
<1> DEFINE was == provider
           b == (provider # k)
<1>1. TypeOK /\ Processes /\ OpensInv
  BY DEF SecurityInv
<1>2. /\ ~up /\ cli.at = "idle" /\ file # None /\ Goto(r, "over")
      /\ provider' = k
      /\ UNCHANGED <<kind, file, db, token, up, handle, open>>
      /\ UNCHANGED <<kits, backups, crossed, torn, overtaken, crashes>>
  BY DEF RecoverSave
<1>3. /\ req' \in [Request -> RequestState] /\ req'[r].at = "over"
      /\ \A q \in Request \ {r} : req'[q] = req[q]
  BY <1>1, <1>2, OverIs, GotoIs
<1>4. \A q \in Request : req'[q].at \in Still
  BY <1>1, <1>2, <1>3, OverIs DEF Processes
<1>5. /\ cli' \in Commands /\ cli'.at = "saved" /\ cli'.by = r
      /\ cli'.previous = provider /\ cli'.saved = (provider # k)
  <2>1. was \in Key \cup {None} /\ b \in BOOLEAN
    BY <1>1 DEF TypeOK
  <2>2. cli' = [at |-> "saved", by |-> r, previous |-> was, saved |-> b]
    BY DEF RecoverSave
  <2>3. was = provider /\ b = (provider # k)
    OBVIOUS
  <2> HIDE DEF was, b
  <2>4. QED
    BY <2>1, <2>2, <2>3, SavedCommand
<1>6. TypeOK' /\ AloneInv' /\ LoginInv' /\ KitsInv'
  BY <1>1, <1>2, <1>3, <1>4, <1>5, Alone DEF TypeOK, Databases
<1>7. Processes'
  BY <1>1, <1>2, <1>4, <1>5 DEF Processes, At, Still, Rekeying
<1>8. OpensInv'
  BY <1>1, <1>2, <1>5 DEF OpensInv, Opens
<1>9. SessionsFollowPassword' /\ CredentialsReadable'
  BY <1>2, SameSessions, SameCredentials
<1>10. QED
  BY <1>6, <1>7, <1>8, <1>9 DEF SecurityInv

LEMMA InvRecoverOpen == ASSUME SecurityInv, RecoverOpen PROVE SecurityInv'
<1> USE DEF disk, history
<1>1. TypeOK /\ Processes /\ OpensInv /\ cli \in Commands
  BY DEF SecurityInv, TypeOK, Commands
<1>2. /\ cli.at = "saved" /\ Opens /\ cli' = [cli EXCEPT !.at = "opened"]
      /\ UNCHANGED <<kind, provider, file, db, token, up, handle, open, req>>
      /\ UNCHANGED <<kits, backups, crossed, torn, overtaken, crashes>>
  BY DEF RecoverOpen
<1>3. ~up /\ \A q \in Request : req[q].at \in Still
  BY <1>1, <1>2 DEF Processes
<1>4. /\ cli' \in Commands /\ cli'.at = "opened" /\ cli'.by = cli.by
      /\ cli'.previous = cli.previous /\ cli'.saved = cli.saved
  <2> DEFINE n == [cli EXCEPT !.at = "opened"]
  <2>1. /\ n \in Commands /\ n.at = "opened" /\ n.by = cli.by
        /\ n.previous = cli.previous /\ n.saved = cli.saved
    BY ONLY <1>1, OpenedCommand
  <2>2. cli' = n
    BY <1>2
  <2> HIDE DEF n
  <2>3. QED
    BY <2>1, <2>2
<1>5. TypeOK' /\ AloneInv' /\ LoginInv' /\ KitsInv'
  BY <1>1, <1>2, <1>3, <1>4, Alone DEF TypeOK, Databases
<1>6. Processes'
  BY <1>1, <1>2, <1>3, <1>4 DEF Processes, At, Still, Rekeying
<1>7. OpensInv'
  BY <1>1, <1>2, <1>3, <1>4 DEF OpensInv, Opens
<1>8. SessionsFollowPassword' /\ CredentialsReadable'
  BY <1>2, SameSessions, SameCredentials
<1>9. QED
  BY <1>5, <1>6, <1>7, <1>8 DEF SecurityInv

LEMMA RecoveredIs ==
    ASSUME db \in Databases, NEW o \in Origin, NEW w \in Origin,
           db' = [db EXCEPT ![o] = [@ EXCEPT !.password = w, !.sessions = {}]]
    PROVE  /\ db' \in Databases /\ db'[o].sessions = {}
           /\ \A p \in Origin : /\ db'[p].key = db[p].key /\ db'[p].credential = db[p].credential
                                /\ p # o => db'[p] = db[p]
<1> DEFINE f == [db[o] EXCEPT !.password = w]
           e == [f EXCEPT !.sessions = {}]
           n == [db EXCEPT ![o] = e]
<1>1. db \in Databases /\ db[o] \in Database
  BY DEF Databases
<1>2. e \in Database /\ e.sessions = {} /\ e.key = db[o].key /\ e.credential = db[o].credential
  <2>1. f \in Database /\ f.key = db[o].key /\ f.credential = db[o].credential
    BY <1>1, DatabasePassword
  <2> HIDE DEF f
  <2> DEFINE s == {}
  <2>2. s \in SUBSET (Origin \X Origin) /\ s = {} /\ e = [f EXCEPT !.sessions = s]
    OBVIOUS
  <2> HIDE DEF s, e
  <2>3. QED
    BY <2>1, <2>2, DatabaseSessions
<1>3. db' = n
  BY DEF Databases
<1> HIDE DEF e
<1>4. n \in Databases /\ n[o] = e /\ \A p \in Origin \ {o} : n[p] = db[p]
  BY ONLY <1>1, <1>2, OneDatabase
<1> HIDE DEF n
<1>5. QED
  BY <1>2, <1>3, <1>4

LEMMA InvRecoverFinish == ASSUME SecurityInv, RecoverFinish PROVE SecurityInv'
<1> USE DEF history
<1>1. TypeOK /\ Processes /\ OpensInv /\ db \in Databases
  BY DEF SecurityInv, TypeOK, Databases
<1>2. /\ cli.at = "opened" /\ cli' = NoCommand
      /\ db' = [db EXCEPT ![file] = [@ EXCEPT !.password = cli.by, !.sessions = {}]]
      /\ UNCHANGED <<kind, provider, file, token, up, handle, open, req>>
      /\ UNCHANGED <<kits, backups, crossed, torn, overtaken, crashes>>
  BY DEF RecoverFinish
<1>3. /\ ~up /\ (\A q \in Request : req[q].at \in Still)
      /\ file \in Origin /\ cli.by \in Origin
  BY <1>1, <1>2 DEF Processes, TypeOK, Origin
<1>4. /\ db' \in Databases /\ db'[file].sessions = {}
      /\ \A p \in Origin : /\ db'[p].key = db[p].key /\ db'[p].credential = db[p].credential
                           /\ p # file => db'[p] = db[p]
  <2> DEFINE w == cli.by
  <2>1. db' = [db EXCEPT ![file] = [@ EXCEPT !.password = w, !.sessions = {}]] /\ w \in Origin
    BY <1>2, <1>3
  <2> HIDE DEF w
  <2>2. QED
    BY <1>1, <1>3, <2>1, RecoveredIs
<1>5. cli' \in Commands /\ cli'.at = "idle"
  BY <1>2, NoCommandIs
<1>6. TypeOK' /\ AloneInv' /\ LoginInv' /\ KitsInv'
  BY <1>1, <1>2, <1>3, <1>4, <1>5, Alone DEF TypeOK
<1>7. Processes'
  BY <1>1, <1>2, <1>3, <1>5 DEF Processes, At, Still, Rekeying
<1>8. OpensInv'
  BY <1>1, <1>2, <1>3, <1>4, <1>5 DEF OpensInv, Opens
<1>9. SessionsFollowPassword'
  BY <1>2, <1>3, <1>4 DEF SecurityInv, SessionsFollowPassword
<1>10. CredentialsReadable'
  BY <1>2, <1>4, SameCredentials
<1>11. QED
  BY <1>6, <1>7, <1>8, <1>9, <1>10 DEF SecurityInv

LEMMA InvRecoverFails == ASSUME SecurityInv, RecoverFails PROVE SecurityInv'
<1> USE DEF history
<1>1. /\ TypeOK /\ Processes /\ OpensInv /\ db \in Databases
      /\ cli.previous \in Key \cup {None}
  BY DEF SecurityInv, TypeOK, Databases
<1>2. /\ cli.at # "idle" /\ cli' = NoCommand
      /\ provider' = IF cli.saved THEN cli.previous ELSE provider
      /\ UNCHANGED <<kind, file, db, token, up, handle, open, req>>
      /\ UNCHANGED <<kits, backups, crossed, torn, overtaken, crashes>>
  BY DEF RecoverFails
<1>3. /\ ~up /\ (\A q \in Request : req[q].at \in Still)
      /\ file \in Origin /\ db[file].key \in Key /\ None \notin Key
  BY <1>1, <1>2, SecurityAssumption DEF Processes, TypeOK, Origin, Key, Database
<1>4. cli' \in Commands /\ cli'.at = "idle" /\ provider' = cli.previous
  BY <1>1, <1>2, NoCommandIs DEF Processes
<1>5. TypeOK' /\ AloneInv' /\ LoginInv' /\ KitsInv'
  BY <1>1, <1>2, <1>3, <1>4, Alone DEF TypeOK
<1>6. Processes'
  BY <1>1, <1>2, <1>3, <1>4 DEF Processes, At, Still, Rekeying
<1>7. OpensInv'
  BY <1>1, <1>2, <1>3, <1>4 DEF OpensInv, Opens
<1>8. SessionsFollowPassword' /\ CredentialsReadable'
  BY <1>2, SameSessions, SameCredentials
<1>9. QED
  BY <1>5, <1>6, <1>7, <1>8 DEF SecurityInv

LEMMA InvRecoverDies == ASSUME SecurityInv, RecoverDies PROVE SecurityInv'
<1> USE DEF disk
<1>1. TypeOK /\ Processes /\ OpensInv /\ db \in Databases
  BY DEF SecurityInv, TypeOK, Databases
<1>2. /\ cli.at # "idle" /\ crashes < MaxCrashes /\ crashes' = crashes + 1
      /\ cli' = NoCommand /\ torn' = (torn \/ ~Opens)
      /\ UNCHANGED <<kind, provider, file, db, token, up, handle, open, req>>
      /\ UNCHANGED <<kits, backups, crossed, overtaken>>
  BY DEF RecoverDies
<1>3. ~up /\ \A q \in Request : req[q].at \in Still
  BY <1>1, <1>2 DEF Processes
<1>4. cli' \in Commands /\ cli'.at = "idle" /\ crashes' \in 0..MaxCrashes
  BY <1>1, <1>2, NoCommandIs, SecurityAssumption DEF TypeOK
<1>5. torn' \in BOOLEAN /\ (~torn' => ~torn /\ Opens)
  BY <1>1, <1>2 DEF TypeOK
<1>6. TypeOK' /\ AloneInv' /\ LoginInv' /\ KitsInv'
  BY <1>1, <1>2, <1>3, <1>4, <1>5, Alone DEF TypeOK
<1>7. Processes'
  BY <1>1, <1>2, <1>3, <1>4 DEF Processes, At, Still, Rekeying
<1>8. OpensInv'
  BY <1>1, <1>2, <1>3, <1>4, <1>5 DEF OpensInv, Opens
<1>9. SessionsFollowPassword' /\ CredentialsReadable'
  BY <1>2, <1>5, SameSessions, SameCredentials
<1>10. QED
  BY <1>6, <1>7, <1>8, <1>9 DEF SecurityInv

-----------------------------------------------------------------------------
LEMMA InvInit == Init => SecurityInv
<1> SUFFICES ASSUME Init PROVE SecurityInv
  OBVIOUS
<1>1. None \notin Origin /\ First \in Origin
  BY SecurityAssumption DEF Origin
<1>2. PICK existing \in BOOLEAN :
        /\ file = IF existing THEN First ELSE None
        /\ handle = file
        /\ open = {file} \ {None}
        /\ provider = IF existing \/ kind = "secret-file" THEN First ELSE None
        /\ token = ~existing
        /\ kits = IF existing THEN {First} ELSE {}
        /\ db = [o \in Origin |->
                   [key |-> First, complete |-> existing /\ o = First,
                    password |-> First,
                    sessions |-> IF existing /\ o = First THEN {<<First, First>>} ELSE {},
                    credential |-> None]]
  BY DEF Init
<1>3. /\ kind \in {"keyring", "secret-file"} /\ up = TRUE
      /\ req = [r \in Request |-> Fresh] /\ cli = NoCommand /\ backups = {}
      /\ crossed = FALSE /\ torn = FALSE /\ overtaken = {} /\ crashes = 0
  BY DEF Init
<1>4. /\ db \in Databases
      /\ \A o \in Origin : /\ db[o].key = First /\ db[o].password = First
                           /\ db[o].credential = None
                           /\ db[o].sessions \subseteq {<<First, First>>}
  <2>1. ASSUME NEW o \in Origin
        PROVE  /\ db[o] \in Database /\ db[o].key = First /\ db[o].password = First
               /\ db[o].credential = None /\ db[o].sessions \subseteq {<<First, First>>}
    <3> DEFINE s == IF existing /\ o = First THEN {<<First, First>>} ELSE {}
               b == (existing /\ o = First)
    <3>1. s \in Openers /\ s \subseteq {<<First, First>>} /\ b \in BOOLEAN
      BY <1>1 DEF Openers
    <3>2. db[o] = [key |-> First, complete |-> b, password |-> First, sessions |-> s,
                   credential |-> None]
      BY <1>2
    <3> HIDE DEF s, b
    <3>3. QED
      BY <1>1, <3>1, <3>2 DEF Database, Key, Openers
  <2>2. db = [o \in Origin |-> db[o]]
    BY <1>2
  <2>3. QED
    BY <2>1, <2>2 DEF Databases
<1>5. req \in [Request -> RequestState] /\ \A r \in Request : req[r].at = "idle"
  <2>1. Fresh \in RequestState /\ Fresh.at = "idle"
    BY DEF Fresh, RequestState, Stage
  <2>2. QED
    BY <1>3, <2>1
<1>6. cli \in Commands /\ cli.at = "idle"
  BY <1>3, NoCommandIs
<1>7. TypeOK
  <2>1. /\ provider \in Key \cup {None} /\ file \in Origin \cup {None}
        /\ handle \in Origin \cup {None} /\ open \subseteq Origin
        /\ kits \subseteq Key
    BY <1>1, <1>2 DEF Key
  <2>2. token \in BOOLEAN
    BY <1>2
  <2>3. backups \subseteq Key /\ overtaken \subseteq Request /\ crashes \in 0..MaxCrashes
    BY <1>3, SecurityAssumption
  <2>4. QED
    BY <1>3, <1>4, <1>5, <1>6, <2>1, <2>2, <2>3 DEF TypeOK, Databases, Commands
<1>8. "idle" \in Still /\ "idle" \notin Resetting \cup Rekeying \cup Signing
  BY DEF Still, Resetting, Rekeying, Signing
<1>9. Processes
  BY <1>3, <1>5, <1>6, <1>8 DEF Processes, At
<1>10. Opens
  BY <1>1, <1>2, <1>4 DEF Opens
<1>11. OpensInv
  BY <1>6, <1>10 DEF OpensInv
<1>12. AloneInv /\ LoginInv
  BY <1>2, <1>5, <1>8 DEF AloneInv, LoginInv, At
<1>13. KitsInv
  BY <1>1, <1>2, <1>4, <1>5, <1>8 DEF KitsInv, At
<1>14. CredentialsReadable
  BY <1>4 DEF CredentialsReadable
<1>15. SessionsFollowPassword
  <2>1. \A o \in Origin : \A s \in db[o].sessions : s = <<First, First>> /\ db[o].password = First
    BY <1>4
  <2>2. \A o \in Origin : \A s \in db[o].sessions : s[2] = db[o].password
    BY <2>1
  <2>3. QED
    BY <2>2 DEF SessionsFollowPassword
<1>16. QED
  BY <1>7, <1>9, <1>11, <1>12, <1>13, <1>14, <1>15 DEF SecurityInv

LEMMA InvStutter == ASSUME SecurityInv, UNCHANGED vars PROVE SecurityInv'
BY DEF SecurityInv, TypeOK, Processes, OpensInv, Opens, AloneInv, LoginInv, KitsInv, At, Prepared,
       Ready, CredentialsReadable, SessionsFollowPassword, vars, disk, process, history

LEMMA InvStep == SecurityInv /\ [Next]_vars => SecurityInv'
<1> SUFFICES ASSUME SecurityInv, [Next]_vars PROVE SecurityInv'
  OBVIOUS
<1>1. ASSUME NEW r \in Request, Setup(r) PROVE SecurityInv'
  BY <1>1, InvPrepareSetup, InvPrepareChecked, InvResetFiles, InvResetKey, InvLookForDatabase,
     InvCreateWorkspace, InvCreateFails, InvCompleteSetup, InvConfirmSetup, InvConsumeToken
     DEF Setup
<1>2. ASSUME NEW r \in Request, SessionRequest(r) PROVE SecurityInv'
  BY <1>2, InvLogin, InvLoginVerified, InvChangePassword, InvPasswordHashed DEF SessionRequest
<1>3. ASSUME NEW r \in Request, RekeyRequest(r) PROVE SecurityInv'
  BY <1>3, InvRekeyWaits, InvRekey, InvRekeyDies DEF RekeyRequest
<1>4. ASSUME NEW gone, RevokeSessions(gone) PROVE SecurityInv'
  BY <1>4, InvRevokeSessions
<1>5. CASE SaveCredential \/ Crash \/ Start
  BY <1>5, InvSaveCredential, InvCrash, InvStart
<1>6. CASE (\E r \in Request, k \in Key : RecoverSave(r, k))
           \/ RecoverOpen \/ RecoverFinish \/ RecoverFails \/ RecoverDies
  BY <1>6, InvRecoverSave, InvRecoverOpen, InvRecoverFinish, InvRecoverFails, InvRecoverDies
<1>7. CASE UNCHANGED vars
  BY <1>7, InvStutter
<1>8. QED
  BY <1>1, <1>2, <1>3, <1>4, <1>5, <1>6, <1>7 DEF Next

-----------------------------------------------------------------------------
\* The invariant of the module, with the shapes of its variables.
THEOREM SecurityInvariant == Spec => []SecurityInv
<1>1. Init => SecurityInv
  BY InvInit
<1>2. SecurityInv /\ [Next]_vars => SecurityInv'
  BY InvStep
<1>3. QED
  BY <1>1, <1>2, PTL DEF Spec

\* The server runs on the database under its path, and the key the provider has
\* opens it, except after a crash inside a rekey or a recovery, and except when a
\* setup went on while another one was being reset (prepareSetup, rekeyDatabase,
\* recoverWorkspace).
THEOREM ServerStartsAgain == Spec => []StartsAgain
<1>1. SecurityInv => StartsAgain
  BY DEF SecurityInv, OpensInv, AloneInv, StartsAgain
<1>2. QED
  BY <1>1, SecurityInvariant, PTL

\* The user's kits open the database, or one of the pre_rekey backups: no crash
\* leaves a workspace that nobody can read.
THEOREM WorkspaceStaysRecoverable == Spec => []WorkspaceRecoverable
<1>1. SecurityInv => WorkspaceRecoverable
  BY DEF SecurityInv, KitsInv, WorkspaceRecoverable
<1>2. QED
  BY <1>1, SecurityInvariant, PTL

\* The credentials in a database are encrypted under its key, whether a rekey was
\* finished or undone (rekeyDatabase and its hooks).
THEOREM CredentialsStayReadable == Spec => []CredentialsReadable
<1>1. SecurityInv => CredentialsReadable
  BY DEF SecurityInv
<1>2. QED
  BY <1>1, SecurityInvariant, PTL

\* No session outlives the password it was opened with, but those of a login that
\* the change of the password overtook (login, changePassword).
THEOREM SessionsHaveThePassword == Spec => []SessionsFollowPassword
<1>1. SecurityInv => SessionsFollowPassword
  BY DEF SecurityInv
<1>2. QED
  BY <1>1, SecurityInvariant, PTL
=============================================================================
