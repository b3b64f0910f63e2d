------------------------------ MODULE Security ------------------------------
(***************************************************************************)
(* Setup, sessions and the database key                                    *)
(* (apps/server/src/security/security-service.ts, setup-token.ts and       *)
(* maintenance-recovery.ts, packages/db/src/encrypted-database.ts and      *)
(* key-providers.ts).                                                      *)
(*                                                                         *)
(* One request does one thing.  What it brings into being (a database, a   *)
(* key, a password, a session) is named after it; those of a workspace     *)
(* that is there from the start are named First.  Requests interleave at   *)
(* file operations and password hashing.  The keyring and SQLite are       *)
(* called without waiting, so a stretch of code that only awaits these is  *)
(* one action; a crash may still come inside it.                           *)
(***************************************************************************)
EXTENDS Naturals

CONSTANTS
    Request,       \* requests to the server and runs of the recovery command
    First,         \* names what is there from the start
    None,
    MaxCrashes     \* bound: crashes and shutdowns

ASSUME SecurityAssumption ==
    /\ First \notin Request /\ None \notin Request \cup {First}
    /\ MaxCrashes \in Nat

Origin == Request \cup {First}

VARIABLES
    kind,      \* the kind of the key provider
    provider,  \* the key it holds, or None
    file,      \* the database under the configured path, or None
    db,        \* every database made so far, on the path or unlinked
    token,     \* does the setup token file exist?
    up,        \* is the server running?
    handle,    \* #database: the database of the open connection, or None
    open,      \* the databases with a connection that is not closed
    req,       \* where each request is, with its local variables
    cli,       \* the recovery command
    kits,      \* history: keys that are in a recovery kit the user was given
    backups,   \* history: keys of the pre_rekey backups
    crossed,   \* history: did a setup go on while another one was being reset?
    torn,      \* history: did a crash leave key, provider and credentials apart?
    overtaken, \* history: requests that the password was changed under
    crashes    \* tally, for the bound

disk == <<kind, provider, file, db, token>>
process == <<up, handle, open, req, cli>>
history == <<kits, backups, crossed, torn, overtaken, crashes>>
vars == <<disk, process, history>>

Key == Origin
\* sessions: who opened it, and the password that was shown for it.
\* credential: the key the AI credentials in the database are encrypted under.
Database == [key : Key, complete : BOOLEAN, password : Origin,
             sessions : SUBSET (Origin \X Origin), credential : Key \cup {None}]
Stage == {"idle", "checking", "resetting", "keyless", "hashing", "absent", "prepared",
          "confirming", "consuming", "login", "changing", "saving-backup", "rekeying",
          "over"}
\* kit: the key in the recovery kit this browser tab shows.  seen: the password
\* hash that was read before an await.  base: the database it was read from.
RequestState == [at : Stage, kit : Key \cup {None}, seen : Origin \cup {None},
                 base : Origin \cup {None}]
Fresh == [at |-> "idle", kit |-> None, seen |-> None, base |-> None]
NoCommand == [at |-> "idle", by |-> None, previous |-> None, saved |-> FALSE]

At(r, stage) == req[r].at = stage
Goto(r, stage) == req' = [req EXCEPT ![r].at = stage]
Prepared == handle # None
Ready == handle # None /\ db[handle].complete
Sessions == IF Ready THEN db[handle].sessions ELSE {}

\* A workspace as prepareSetup inserts it, and a session as #createSession does.
NewWorkspace(r, key) == [key |-> key, complete |-> FALSE, password |-> r,
                         sessions |-> {}, credential |-> None]
WithSession(r, password) ==
    IF Ready THEN [db EXCEPT ![handle].sessions = @ \cup {<<r, password>>}] ELSE db

\* A fresh data directory, or one with a workspace in use.  The secret file of
\* the self-hosted mode is mounted before the first start.
Init ==
    /\ kind \in {"keyring", "secret-file"}
    /\ \E existing \in BOOLEAN :
        /\ file = IF existing THEN First ELSE None
        /\ handle = file
        /\ open = {file} \ {None}
        /\ provider = IF existing \/ kind = "secret-file" THEN First ELSE None
        /\ token = ~existing
        /\ kits = IF existing THEN {First} ELSE {}
        /\ db = [o \in Origin |->
                   [key |-> First, complete |-> existing /\ o = First,
                    password |-> First,
                    sessions |-> IF existing /\ o = First THEN {<<First, First>>} ELSE {},
                    credential |-> None]]
    /\ up = TRUE
    /\ req = [r \in Request |-> Fresh]
    /\ cli = NoCommand
    /\ backups = {}
    /\ crossed = FALSE /\ torn = FALSE
    /\ overtaken = {}
    /\ crashes = 0

-----------------------------------------------------------------------------
(* Setup.                                                                  *)

\* prepareSetup: the token is read.
PrepareSetup(r) ==
    /\ up /\ At(r, "idle") /\ token
    /\ Goto(r, "checking")
    /\ UNCHANGED <<disk, up, handle, open, cli, history>>

\* What follows the await: refuse, close a setup nobody confirmed, or go on.
Underway(stages) == \E q \in Request : req[q].at \in stages

BeginReset(r) ==
    /\ Goto(r, "resetting")
    /\ open' = open \ {handle} /\ handle' = None
    /\ crossed' = (crossed \/ Underway({"hashing", "absent"}))
    /\ UNCHANGED <<disk, up, cli, kits, backups, torn, overtaken, crashes>>

BeginHashing(r) ==
    /\ Goto(r, "hashing")
    /\ crossed' = (crossed \/ Underway({"resetting", "keyless"}))
    /\ UNCHANGED <<disk, up, handle, open, cli, kits, backups, torn, overtaken, crashes>>

PrepareChecked(r) ==
    /\ At(r, "checking")
    /\ \/ Ready /\ Goto(r, "over") /\ UNCHANGED <<disk, up, handle, open, cli, history>>
       \/ ~Ready /\ Prepared /\ BeginReset(r)
       \/ ~Prepared /\ BeginHashing(r)

\* #resetIncompleteSetup: the files go, with an await, then the key.
ResetFiles(r) ==
    /\ At(r, "resetting") /\ Goto(r, "keyless")
    /\ file' = None
    /\ UNCHANGED <<kind, provider, db, token, up, handle, open, cli, history>>

ResetKey(r) ==
    /\ At(r, "keyless") /\ Goto(r, "hashing")
    /\ provider' = IF kind = "secret-file" THEN provider ELSE None
    /\ UNCHANGED <<kind, file, db, token, up, handle, open, cli, history>>

\* The password is hashed; createEncryptedDatabase looks whether there is a
\* database, then awaits the creation of the directory.
LookForDatabase(r) ==
    /\ At(r, "hashing")
    /\ Goto(r, IF file = None THEN "absent" ELSE "over")
    /\ UNCHANGED <<disk, up, handle, open, cli, history>>

\* The rest of createEncryptedDatabase and of prepareSetup.  A database that
\* has appeared meanwhile is opened: with its own key the insertion of a second
\* owner fails and the connection is closed, with another one it cannot be read,
\* and the file is unlinked, with the key if it was a new one.
CreateWorkspace(r) ==
    LET key == IF provider = None THEN r ELSE provider IN
    /\ At(r, "absent") /\ file = None
    /\ req' = [req EXCEPT ![r].at = "prepared", ![r].kit = key]
    /\ provider' = key
    /\ file' = r /\ handle' = r /\ open' = open \cup {r}
    /\ db' = [db EXCEPT ![r] = NewWorkspace(r, key)]
    /\ kits' = kits \cup {key}
    /\ UNCHANGED <<kind, token, up, cli, backups, crossed, torn, overtaken, crashes>>

CreateFails(r) ==
    /\ At(r, "absent") /\ file # None /\ Goto(r, "over")
    /\ file' = IF provider = db[file].key THEN file ELSE None
    /\ UNCHANGED <<kind, provider, db, token, up, handle, open, cli, history>>

\* completeSetup, with the kit that the tab of request q shows as saved.
CompleteSetup(r, q) ==
    /\ up /\ At(r, "idle") /\ At(q, "prepared")
    /\ Prepared /\ ~Ready /\ token
    /\ req' = [req EXCEPT ![r] = [@ EXCEPT !.at = "confirming", !.kit = req[q].kit,
                                           !.base = handle]]
    /\ UNCHANGED <<disk, up, handle, open, cli, history>>

\* After the await the workspace is looked up again; the update goes to the
\* connection taken before, and throws if that is closed.
ConfirmSetup(r) ==
    /\ At(r, "confirming")
    /\ IF Prepared /\ handle = req[r].base /\ handle \in open
       THEN Goto(r, "consuming") /\ db' = [db EXCEPT ![handle].complete = TRUE]
       ELSE Goto(r, "over") /\ UNCHANGED db
    /\ UNCHANGED <<kind, provider, file, token, up, handle, open, cli, history>>

ConsumeToken(r) ==
    /\ At(r, "consuming") /\ Goto(r, "over")
    /\ token' = FALSE
    /\ db' = IF Ready THEN WithSession(r, db[handle].password) ELSE db
    /\ UNCHANGED <<kind, provider, file, up, handle, open, cli, history>>

-----------------------------------------------------------------------------
(* Sessions.                                                               *)

\* login: the hash is read, and verified with an await.
Login(r) ==
    /\ up /\ At(r, "idle") /\ Ready
    /\ req' = [req EXCEPT ![r] = [@ EXCEPT !.at = "login", !.base = handle,
                                           !.seen = db[handle].password]]
    /\ UNCHANGED <<disk, up, handle, open, cli, history>>

LoginVerified(r) ==
    /\ At(r, "login") /\ Goto(r, "over")
    /\ db' = WithSession(r, req[r].seen)
    /\ UNCHANGED <<kind, provider, file, token, up, handle, open, cli, history>>

\* logout and revokeAllSessions.
RevokeSessions(gone) ==
    /\ up /\ Ready
    /\ db' = [db EXCEPT ![handle].sessions = @ \ gone]
    /\ UNCHANGED <<kind, provider, file, token, process, history>>

\* changePassword: two awaits (verification and hashing), then one transaction.
ChangePassword(r) ==
    /\ up /\ At(r, "idle") /\ Sessions # {}
    /\ req' = [req EXCEPT ![r] = [@ EXCEPT !.at = "changing", !.base = handle,
                                           !.seen = db[handle].password]]
    /\ UNCHANGED <<disk, up, handle, open, cli, history>>

FaultyPasswordHashed(r) ==  \* fault: the other sessions stay
    /\ At(r, "changing") /\ Goto(r, "over")
    /\ db' = [db EXCEPT ![req[r].base].password = r,
                        ![req[r].base].sessions = @ \cup {<<r, r>>}]
    /\ overtaken' = overtaken \cup {q \in Request \ {r} : req[q].at \in {"login", "changing"}}
    /\ UNCHANGED <<kind, provider, file, token, up, handle, open, cli, kits, backups,
                   crossed, torn, crashes>>

PasswordHashed(r) ==
    /\ At(r, "changing") /\ Goto(r, "over")
    /\ db' = [db EXCEPT ![req[r].base].password = r,
                        ![req[r].base].sessions = {<<r, r>>}]
    /\ overtaken' = overtaken \cup {q \in Request \ {r} : req[q].at \in {"login", "changing"}}
    /\ UNCHANGED <<kind, provider, file, token, up, handle, open, cli, kits, backups,
                   crossed, torn, crashes>>

-----------------------------------------------------------------------------
(* The database key.                                                       *)

\* AiProviderStore.saveCredential in the self-hosted mode; in the other the
\* credentials are in the keyring.
SaveCredential ==
    /\ up /\ Sessions # {} /\ kind = "secret-file"
    /\ db' = [db EXCEPT ![handle].credential = db[handle].key]
    /\ UNCHANGED <<kind, provider, file, token, process, history>>

\* The rekey route: one at a time, by the maintenance coordinator.
BeginRekey(r) ==
    /\ up /\ At(r, "idle") /\ Sessions # {}
    /\ \A q \in Request : req[q].at \notin {"saving-backup", "rekeying"}
    /\ Goto(r, "saving-backup")
    /\ UNCHANGED <<disk, up, handle, open, cli, history>>

FaultySaveBackup(r) ==  \* fault: goes on without the pre_rekey backup
    /\ At(r, "saving-backup") /\ Ready /\ Goto(r, "rekeying")
    /\ UNCHANGED <<disk, up, handle, open, cli, history>>

SaveBackup(r) ==
    /\ At(r, "saving-backup") /\ Ready /\ Goto(r, "rekeying")
    /\ backups' = backups \cup {db[handle].key}
    /\ UNCHANGED <<disk, up, handle, open, cli, kits, crossed, torn, overtaken, crashes>>

\* What rekeyDatabase has changed after each of its steps: the hook that
\* re-encrypts the credentials, PRAGMA rekey, and keyProvider.save.
Rotated(r) == IF db[handle].credential = None THEN None ELSE r
RekeyHooked(r) == [db EXCEPT ![handle].credential = Rotated(r)]
RekeyPragma(r) == [db EXCEPT ![handle].credential = Rotated(r), ![handle].key = r]

Rekey(r) ==
    /\ At(r, "rekeying") /\ Ready /\ kind = "keyring"
    /\ req' = [req EXCEPT ![r].at = "over", ![r].kit = r]
    /\ db' = RekeyPragma(r)
    /\ provider' = r
    /\ kits' = kits \cup {r}
    /\ UNCHANGED <<kind, file, token, up, handle, open, cli, backups, crossed, torn,
                   overtaken, crashes>>

\* The provider does not take the key (a secret file never does): the database
\* is rekeyed back, and the hooks are run the other way round.
FaultyRekeyUndone(r) ==  \* fault: the hooks are not run back
    /\ At(r, "rekeying") /\ Ready /\ Goto(r, "over")
    /\ db' = RekeyHooked(r)
    /\ UNCHANGED <<kind, provider, file, token, up, handle, open, cli, history>>

RekeyUndone(r) ==
    /\ At(r, "rekeying") /\ Goto(r, "over")
    /\ UNCHANGED <<disk, up, handle, open, cli, history>>

\* The password or the backup fails first.
RekeyRefused(r) ==
    /\ At(r, "saving-backup") /\ Goto(r, "over")
    /\ UNCHANGED <<disk, up, handle, open, cli, history>>

-----------------------------------------------------------------------------
(* The process.                                                            *)

\* What a crash or a shutdown leaves: pages stay open in their tabs.
Dies ==
    /\ crashes < MaxCrashes /\ crashes' = crashes + 1
    /\ up' = FALSE /\ handle' = None /\ open' = {}
    /\ req' = [r \in Request |-> IF At(r, "idle") \/ At(r, "prepared") THEN req[r]
                                 ELSE [req[r] EXCEPT !.at = "over"]]

Crash ==
    /\ up /\ Dies
    /\ UNCHANGED <<disk, cli, kits, backups, crossed, torn, overtaken>>

RekeyDies(r) ==
    /\ up /\ At(r, "rekeying") /\ Ready /\ Dies
    /\ \/ db' = RekeyHooked(r) /\ UNCHANGED provider
       \/ db' = RekeyPragma(r) /\ UNCHANGED provider
       \/ db' = RekeyPragma(r) /\ provider' = r /\ kind = "keyring"
    /\ torn' = (torn \/ provider' = provider)
    /\ UNCHANGED <<kind, file, token, cli, kits, backups, crossed, overtaken>>

\* SecurityService.create; without the right key the server does not start.
Opens == file # None => provider # None /\ provider = db[file].key

Start ==
    /\ ~up /\ cli.at = "idle" /\ Opens
    /\ up' = TRUE
    /\ handle' = file /\ open' = {file} \ {None}
    /\ token' = (token \/ file = None \/ ~db[file].complete)
    /\ UNCHANGED <<kind, provider, file, db, req, cli, history>>

-----------------------------------------------------------------------------
(* recoverWorkspace, run with the server stopped.                          *)

RecoverSave(r, k) ==
    /\ ~up /\ cli.at = "idle" /\ At(r, "idle") /\ k \in kits /\ file # None
    /\ provider = k \/ kind = "keyring"       \* a secret file refuses to be saved
    /\ Goto(r, "over")
    /\ cli' = [at |-> "saved", by |-> r, previous |-> provider, saved |-> provider # k]
    /\ provider' = k
    /\ UNCHANGED <<kind, file, db, token, up, handle, open, history>>

RecoverOpen ==
    /\ cli.at = "saved" /\ Opens
    /\ cli' = [cli EXCEPT !.at = "opened"]
    /\ UNCHANGED <<disk, up, handle, open, req, history>>

RecoverFinish ==
    /\ cli.at = "opened"
    /\ cli' = NoCommand
    /\ db' = [db EXCEPT ![file] = [@ EXCEPT !.password = cli.by, !.sessions = {}]]
    /\ UNCHANGED <<kind, provider, file, token, up, handle, open, req, history>>

FaultyRecoverFails ==  \* fault: the key stays in the provider
    /\ cli.at \in {"saved", "opened"}
    /\ cli' = NoCommand
    /\ UNCHANGED <<disk, up, handle, open, req, history>>

RecoverFails ==
    /\ cli.at \in {"saved", "opened"}
    /\ cli' = NoCommand
    /\ provider' = IF cli.saved THEN cli.previous ELSE provider
    /\ UNCHANGED <<kind, file, db, token, up, handle, open, req, history>>

RecoverDies ==
    /\ cli.at # "idle" /\ crashes < MaxCrashes /\ crashes' = crashes + 1
    /\ cli' = NoCommand
    /\ torn' = (torn \/ ~Opens)
    /\ UNCHANGED <<disk, up, handle, open, req, kits, backups, crossed, overtaken>>

-----------------------------------------------------------------------------
Setup(r) ==
    \/ PrepareSetup(r) \/ PrepareChecked(r) \/ ResetFiles(r) \/ ResetKey(r)
    \/ LookForDatabase(r) \/ CreateWorkspace(r) \/ CreateFails(r)
    \/ (\E q \in Request : CompleteSetup(r, q)) \/ ConfirmSetup(r) \/ ConsumeToken(r)

SessionRequest(r) ==
    Login(r) \/ LoginVerified(r) \/ ChangePassword(r) \/ PasswordHashed(r)

RekeyRequest(r) ==
    \/ BeginRekey(r) \/ SaveBackup(r) \/ Rekey(r)
    \/ RekeyUndone(r) \/ RekeyRefused(r) \/ RekeyDies(r)

Next ==
    \/ \E r \in Request : Setup(r) \/ SessionRequest(r) \/ RekeyRequest(r)
    \/ (\E s \in Sessions : RevokeSessions({s})) \/ RevokeSessions(Sessions)
    \/ SaveCredential
    \/ Crash \/ Start
    \/ (\E r \in Request, k \in Key : RecoverSave(r, k))
    \/ RecoverOpen \/ RecoverFinish \/ RecoverFails \/ RecoverDies

Spec == Init /\ [][Next]_vars

-----------------------------------------------------------------------------
(* Properties.                                                             *)

\* The variables have the shapes the code gives them.
TypeOK ==
    /\ kind \in {"keyring", "secret-file"}
    /\ provider \in Key \cup {None}
    /\ file \in Origin \cup {None} /\ handle \in Origin \cup {None}
    /\ db \in [Origin -> Database]
    /\ token \in BOOLEAN /\ up \in BOOLEAN /\ open \subseteq Origin
    /\ req \in [Request -> RequestState]
    /\ cli \in [at : {"idle", "saved", "opened"}, by : Request \cup {None},
                previous : Key \cup {None}, saved : BOOLEAN]
    /\ kits \subseteq Key /\ backups \subseteq Key
    /\ crossed \in BOOLEAN /\ torn \in BOOLEAN
    /\ overtaken \subseteq Request /\ crashes \in 0..MaxCrashes

\* The server runs on the database under its path and can be started again with
\* the key the provider has: no setup, failed rekey or failed recovery, nor a
\* crash in one of them, takes the two apart, as long as no crash falls into the
\* few steps that change both and no setup goes on while another is being reset.
StartsAgain ==
    ~torn /\ ~crossed =>
        /\ Prepared => file = handle
        /\ cli.at = "idle" => Opens

\* Even such a crash leaves the user a way back: the key that opens the database
\* is in a recovery kit, or a backup from before the rekey can be restored with one.
WorkspaceRecoverable ==
    ~crossed /\ file # None /\ db[file].complete =>
        db[file].key \in kits \/ backups \cap kits # {}

\* The AI credentials in the database can be decrypted with its key, after a
\* rekey that failed as well.
CredentialsReadable ==
    ~torn => \A o \in Origin : db[o].credential \in {None, db[o].key}

\* A session that is not revoked was opened with the password in force, unless
\* the password changed while the request that opened it was under way, or a
\* setup has replaced the database under the request.
SessionsFollowPassword ==
    ~crossed => \A o \in Origin : \A s \in db[o].sessions :
                    s[2] = db[o].password \/ s[1] \in overtaken

=============================================================================
