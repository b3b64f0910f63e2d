# SpendLens: specifications in TLA+

SpendLens is a local-first analyser of bank statements: a Node server (`apps/server`) over one
encrypted SQLite database (`packages/db`), a web client (`apps/web`) and two command line tools.
This directory specifies the parts of it whose correctness depends on the order of steps: what runs
at the same time, what a crash leaves behind, which state is still current when it is used. The
modules are checked with TLC on small instances, and all of their properties but four are proved with
TLAPS for every value of the constants.

## 1. The system

One server process owns the database. `better-sqlite3` is synchronous, so the JavaScript between two
`await`s, and with it every transaction, is atomic with respect to the other requests of the process.
What interleaves is everything around an `await` (files, AI providers, password hashing, uploads), the
requests of several browser tabs, the answers the browser is waiting for, the command line tools, and
crashes.

| Component | State | Operations | What makes it correct | Modules |
|---|---|---|---|---|
| Job queue (`packages/db/src/job-queue.ts`) | table `jobs` with leases | enqueue, enqueueExclusive, claim, heartbeat, updateProgress, complete, fail, cancel, recoverAbandoned | a job is tried a bounded number of times, is worked on by its lease owner only, and never changes once it is over | `JobLifecycle`, `JobQueue` |
| Job worker (`jobs/job-worker.ts`) | timer, run in flight | start, stop, stopAndDrain, runOnce | every queued job settles; a run whose lease is gone has no effect | `JobWorker` |
| Maintenance coordinator (`backups/maintenance-coordinator.ts`) | flag per process, lock file | run (backup, restore, rekey, upgrade), guards | one operation at a time, worker paused meanwhile, no lock left behind | `Maintenance` |
| Portable restore (`backups/restore-service.ts`) | database files, journal, key provider | restorePortableBackup, recoverInterruptedRestore | the workspace in service is never lost | `Restore` |
| Backup service and scheduler (`backups/`) | `backup_records`, containers, timer | create, download, remove, retention, daily tick, upgrade at start | the scheduled backups of the retention rule are kept; every file is accounted for; there is a way back from an upgrade | `Backups` |
| Database keys, setup and sessions (`security/`, `encrypted-database.ts`, `key-providers.ts`) | database key, key provider, kits, AI credentials, sessions | setup, login, logout, changePassword, rekey, recover | the provider's key opens the database, a kit recovers it, a session has the password in force | `Security` |
| Import pipeline (`imports/`) | upload directories, previews | upload, read, parse, save, remove | a file is read as it was printed, imported once, and its temporary copy goes | `Statements`, `PrintedStatements`, `Uploads` |
| Import reconciliation (`import-reconciliation.ts`) | batches, match decisions, transactions and their sources, accounts | analyze, applyDecisions, commit, deleteImport | every bank entry is booked once, nothing is merged unasked | `Imports` |
| Classification engine and review (`classification-engine.ts`, `classification-review.ts`) | rules, a verdict per transaction, review actions | rules made, changed, deleted, reordered; review groups decided, remembered as rules, undone | what the user confirmed stays; verdicts are those of the rules in force; an undone decision leaves no trace | `Wording`, `Ledger` |
| AI classification (`ai/`, `ai-provider-store.ts`) | runs, suggestions, provider settings and key | settings, job handler, retries, accept, undo | what is sent follows the settings as saved; a suggestion shown is about the transaction as it is; every run ends in the books | `AiRuns` |
| Transaction workspace, workspace management (`transaction-workspace.ts`, `workspace-management.ts`) | transactions, splits, pairs, accounts, categories, counterparties | edits, splits, transfers, re-parenting, merging, archiving | splits add up, the categories stay a tree | `Workspace`, `Ledger` |
| Analytics (`analytics-engine.ts`) | `analytics_metric_cache`, `metric_invalidations` | query | an answer from the cache is what a calculation would give now | `Metrics`, `Analytics` |
| Web client (`transactions-page.tsx`, `review-page.tsx`) | query cache, forms, ticks | filter, page, select, save, decide, undo | what is on the screen is what the server has; a decision is about what was shown | `TransactionsPage`, `ReviewPage`, `Mutations` |

How they meet: an upload becomes the preview of an import, whose commit books transactions that the
classification, the user and the AI provider then work on; routes enqueue AI jobs, the worker runs
them; backup, restore, rekey and upgrade run inside the maintenance coordinator, whose guard drains
the worker; a server start first recovers an interrupted restore, then opens the database with the
key provider and makes a backup before it migrates; every method that changes the workspace tells
`metric_invalidations` what the analytics must recalculate; the pages see all of this through a cache
of their own. `PROJECT.json` lists every component with its sources, and under `hazards` what is hard
to test in it, at its line.

## 2. The modules

A definition called `Faulty...` is a broken variant of the definition after it. No behaviour uses it;
each shows that one property notices one plausible bug. `MC...` modules give the constants their
values for TLC, `...Proofs` modules hold theorems. Modules proved about side by side (`Maintenance` with
`JobWorker`, `Uploads` with `Imports`, `Backups` with `Restore`, the two pages) share no names: there
`MaintenanceNext`, `UploadsSpec` or `backupsVars` stand for what other modules call `Next`, `Spec` and
`vars`. A variable called a *history* is read by no
guard: it remembers something for a property, usually a situation in which the code gives no
guarantee. A property of the form `~history => P` says how far the guarantee goes; section 4 lists
these situations.

**Job queue and workers.** `jobs[j]` is the row with primary key `j`. Times are relative:
`availableIn` and `leaseLeft` are the ticks until `available_at` and `lease_expires_at`, and
`TimePasses` is a tick of `Date.now()`. `availableIn` goes below zero (down to `-Horizon`) because
`claim` orders by it. Each method is one action; `Enqueue` has the unique index on the idempotency
key as its guard, `Fail` and `RecoverAbandoned` the two branches of their `CASE` expressions.
`max_attempts` is the same for all jobs, as it is in the one place that enqueues. `run[w]` is what the
loop of worker `w` is doing: `runOnce` is `Recover`, then `ClaimNext` or `NothingToClaim`, then
`HandlerMissing` or `StartHandler`; an open handler may renew its lease, be told at a checkpoint that
its lease is gone, return or throw, after any time. `Tick` moves the clock whether event loops are
served or not; `late` remembers that a worker's loop missed a due timer in its present run, or that a
heartbeat of its interval threw: the interval is then cleared and the handler goes on. `Die` is
a crash, or the loss of the database handle at shutdown. `JobLifecycle` is what the queue promises,
without leases or clocks: `JobQueue` implements it, and `AiRuns` uses it in place of the queue.

**Maintenance.** `at[c]` is where call `c` of `run` stands; `open`, writing the record, reading it and
removing the file are separate steps. The lock file is the inode of the call that created it, so a
call whose file was removed by another writes its record into nothing. `ProcessDies` kills a process
with its calls and leaves the file. Writing, syncing and removing may fail. The worker is three numbers:
whether it is started, pending timers, runs in flight. `overlapped` remembers whether two calls were
ever between the check of the flag and the start of the task together.

**Restore.** `disk` is what survives a crash: which database is under which name, the journal, the
key provider and its key. A database is the key that opens it and the restore that put it there. `op`
is the process with its local variables. Every `await` of `restorePortableBackup`, of its catch block
and of `recoverInterruptedRestore` that changes the disk is one action; `Crash` may come between any
two, and `StepFails` makes a step throw (in the catch block: be dropped). Both kinds of key provider
are initial states, with and without a workspace. The journal's `phase` is left out because nothing
reads it. Backups are complete and unmodified; what verification finds is `StepFails` at "verify". The
command is documented as offline, so the server does not run during it. `orderly` remembers whether
all faults so far are of the kinds the code recovers from: crashes, each followed by a server start
before the next restore, or failing steps, but not of the last step (the removal of the journal) nor
of the catch block.

**Backups.** A backup is its number in the order of creation; rows and containers change in different
steps. `createVerifiedBackup` is followed await by await, the scheduler's minute tick, the retention
rule (`Retained`), downloads, removal and the upgrade at start with its release state. Times are slots
of a day; `TimePasses` only when no backup runs, except over midnight before the row is made. A crash
(`Halt`) leaves pending rows, temporary files or containers without a row (`strays`). Each step may
also fail while the server goes on: `BackupRefused` before there is a row, `BackupFails` after it, with
or without its mark in the row, `RemovalFails` in the catch block, `CleanUpFails` in the finally block
(also after a valid backup, whose tick or download is then given up), `RetentionFails` and
`SendingFails`. `stuck` remembers the backups whose files such a step has left behind; nothing but
retention, for a scheduled one that is valid, removes them later. The `.partial` file of the writer
comes and goes with the container.

**Security.** One request does one thing: setup, login, change of the password, rekey; the recovery
command runs while the server does not. Requests interleave at file operations and password hashing.
The keyring and SQLite are called synchronously, so the hook, the `PRAGMA rekey` and the saved key are
one action, inside which a crash may still fall (`torn`). AI credentials are in the database only with
the secret-file provider, whose `save` throws: a rekey there is always undone. `crossed` remembers two
setups that overlapped, `overtaken` the logins whose password was changed under them.

**Uploads and parsers.** `Statements` is both parsers over positioned text items of several pages:
bands, columns, balances, totals, exact repeats. `PrintedStatements` (external, after the fixtures of
the tests) prints the statements they are meant to read, and `Legible` says which layouts they can
cope with: OPay rows of up to three lines within 15 points, PalmPay neighbours that differ by less
than six lines. `Uploads` is an upload piece by piece with its deadline, its directory, the duplicate
check before the awaited parse, the save and the removal, for overlapping requests with failing file
operations and a crash.

**Imports.** All statements are of one institution. A row is its bank reference and the fingerprint of
the rest; a transaction is named by the row it was made of and an account by the import that created
it. `home[t]` is the account of a transaction, `link[s]` the transaction a row is booked on
(`transaction_sources`), `match[s]` the row of `import_match_decisions`. `Analyze` picks any assignment
that `matchSourceRows` may produce: rows with a known reference first, then the others by fingerprint
among the transactions not yet taken. `Commit` and `Delete` have the foreign keys and CHECK constraints
that act in them. `stale` remembers the imports that another commit or deletion overtook between their
analysis and their commit.

**Ledger and Wording.** `ledger[t]` is the row of a booked transaction with its decision row
(`verdict`), the AI suggestion still current and `origin`, what `#automaticBaseline` finds by walking
back over the automatic revisions. `Evaluate` is `#evaluateCandidate` in its order: the user's
decision, a confirmed transfer, the rules, the bank's wording, the history by counterparty, then by
narration; `Persist` is `#persistEvaluation`. Every method is one action: a guard is either an error
of the code or a constraint that makes its statement fail. `Decide` refreshes the queue, remembers the
decision as a rule (which reclassifies the group) and then applies it, in the order of
`applyDecision`. `Wording` is what the code reads out of a narration: its key, the similarity of two,
conditions, the bank's wording and the pattern that remembers a group. A narration is a sequence of
words in one normal form; conditions see whole words.

**AiRuns.** Provider settings with their key in the keyring, the handler of a classification job from
one request to the next, its retries, the suggestions it stores and what the review shows of them. A
change of a transaction is a new version of it. Histories: `torn` (the settings were saved and the
keyring then failed), `annotated` (an undo that re-dates a suggestion), `killed` (runs whose handler
died), `lapsed` (the lease ran out between storing and completing).

**Workspace, Metrics, Analytics.** `Workspace` is what the user arranges: accounts, the tree of
categories, counterparties, and the booked transactions with their splits and transfers; each method
ends with the rows it adds to `metric_invalidations`. `Metrics` is the registry of the analytics, each
metric a function of the allocations of a period, and `Analytics` the query: select, calculate, compare
with another period, keep the answer, evict what was invalidated. `overtaken` remembers answers whose
compared period was changed, `unaware` those given before an import was deleted.

**TransactionsPage, ReviewPage, Mutations.** The two pages over their query cache. TanStack Query is
external: a query on screen is fetched when it is missing or not fresh; invalidating it marks its
entry and fetches it again, dropping an answer under way if there is data to show meanwhile. A first
read, with no data yet, goes on instead (`Refetched`, `Invalidated`), and what it brings counts as
fresh; answers land in any order. `Mutations` is
what both know of requests that change something. The transactions page filters, sorts, pages through
cursors, selects, saves and edits in bulk; the review page ticks groups, opens the editor, decides,
undoes, and follows an AI run, while others take items out of the queue. The address names the order
of the list from the start: where it names none, the first click on Date puts the order shown into it,
which the model leaves out. `late`, `hasty`, `early` and `shifted` are histories; `turn` in a request
tells one opening of the sheet from the next, because the forms for splits and transfers forget a
request under way when the sheet is closed.

## 3. Runs

| Run | Question | Bounds | States | Result |
|---|---|---|---|---|
| `workers` | Are leases a fence between attempts, does the table implement the lifecycle, does every job settle? | 2 jobs, 2 workers, 2 types (one exclusive, one without a handler), 2 attempts, lease of 2 ticks, heartbeat every tick | 134 500 | holds |
| `maintenance` | One operation at a time, worker paused and resumed, no lock left behind? | 2 calls in the server, 1 in the command line tool | 68 000 | holds |
| `restore_faults` | Is a workspace ever out of reach, or the next start at a loss? | 3 restores, 2 keys, 2 crashes, 2 failing steps | 239 000 | holds |
| `restore_retry` | Is the journal of an interrupted restore kept until the database opens? | 2 restores, 1 crash, 1 failing step | 3 400 | violated |
| `backups` | Does retention keep what its rule selects, is every file accounted for, is there a way back from an upgrade, is a due backup made? | 12 slots of time, 3 a day; rule of 1 day, 2 weeks, 2 months with weeks of 2 and months of 4 days; 1 manual backup, 2 releases, 1 fault | 164 100 | holds |
| `security` | Does the server start again, can the workspace be recovered, are credentials readable, do sessions follow the password? | 4 requests, 2 crashes | 56 000 | holds |
| `uploads` | Are statements read as printed, files imported once, directories removed? | 2 requests, 109 and 2 files, 2 pieces, 2 pages, 1 fault | 185 000 | holds |
| `imports` | Do books and sources agree, is nothing merged unasked, no overlap booked twice? | 4 statements, 6 rows, 2 account numbers and one statement without | 92 000 | holds |
| `ledger` | Do confirmed values, verdicts, pairs and undo survive any order of rules, edits, AI answers and decisions? | 2 transactions of one counterparty, 2 categories, 3 types, 2 rules, 2 decisions, 3 changes | 242 000 | holds |
| `ai` | Is what is sent as the settings say, what is shown current, every run accounted for? | 1 job of 2 attempts, 2 transactions, 2 secrets, 4 changes, 2 saves, 2 runs, 1 fault | 1 436 000 | holds |
| `analytics` | Is the cache current, money counted once, the categories a tree? | 3 accounts, 3 categories, 1 counterparty, 3 transactions, 2 imports, 3 changes | 120 000 | holds |
| `pages` | Does the screen follow the server, and are decisions about what was shown? | 3 rows, 2 to a page, 1 save, 3 moves; 2 items, 1 AI job, 3 turns | 2 273 200 | holds |

Two more runs are inside others: the assumption `WordingAgrees` of `MCLedger` compares the operators
of `Wording` with definitions of their own over short texts, and `MetricsAgree` of `MCAnalytics` every
metric with one of its own.

Why these bounds. Two workers and two jobs let a lease pass from one worker to another and back while a
second job competes. Three maintenance calls are an owner of the lock, one that finds it stale, and one
that comes while the second removes it. Three restores are an interrupted one, a second over its
leftovers, and a third over both. Twelve slots are four days: a backup passes from the daily to the
weekly class and a week and a month begin under it, but no more weeks or months have backups than the
rule keeps; what happens beyond its limits is proved (`RetentionForgetsNothing`), not run. Four requests
are a setup, a login, and a rekey and a change of the password that overlap with it. The four statements
share a bank entry inside one account, payments alike but for their reference, a reference reused for a
different entry, and an account number; one has no number and may belong to either account. Three
changes let a decision of `Ledger` be overtaken by one more change before it is undone, and two rules
can conflict. Three rows at two a page are the least with a second page that an edit moves a row to. A
situation that needs one more (a transfer that competes for one side of another, a fourth move on the
page of transactions) is not in the bounds; what section 5 lists as proved does not depend on them.

Deadlock is checked for the workers and the ledger; the other systems end when their bounded commands,
calls and uploads are used up, and their configurations say so.

**Fairness.** `JobWorker!LiveSpec` assumes that time passes, that the loop is scheduled again after
every run (`#schedule` in the `finally` block), and that a handler ends some day (every provider
request has a timeout). Strong fairness of `ClaimNext` excludes only a process that dies again and
again between its recovery and its claim. `MaintenanceLiveSpec` assumes that file operations, tasks
and runs in flight end; a call need not be made and a timer need not fire. `BackupsLiveSpec` assumes
that the interval of a running server goes on, that a stopped server is started again, and that file
operations end. Requests, clocks of the other modules, heartbeats, crashes and faults are not fair.

### What the violated run shows

`restore_retry` (restore-service.ts:197). A restore dies after the workspace's database was renamed
aside and before the restored one took its name. The start would roll it back. If instead the command
is run again and fails early, for lack of space for instance, its catch block removes the journal of
the first attempt. No journal and no database: the next start offers setup.

## 4. How far the guarantees go

The histories of the modules leave out situations in which the code promises nothing. They are limits
of the code a reader should know:

- maintenance-coordinator.ts:70: a lock file that has no record yet counts as stale, so a second
  operation that comes between the two removes it and runs at the same time (`overlapped`).
- restore-service.ts: a failure to remove the journal after the rollback database is gone saves the
  previous key under the restored database; a crash inside the catch block between its rename and its
  key makes the start refuse; an error dropped by `rollbackRestore` is followed by the removal of the
  journal all the same (`orderly`). `SafetyBackupFirst` holds in all of them.
- import-reconciliation.ts:253: two overlapping statements that are both analysed before either is
  committed are both booked in full (`stale`).
- classification-review.ts:274: remembering an accepted AI suggestion creates the rule first; where
  another rule outranks it, that rule's classification is stored as what the user accepted.
  classification-engine.ts:351: a rule that tests the type and sets it does not match what it
  classified, so deleting it leaves that classification behind. classification-review.ts:981: a
  remembered rule may miss narrations of its group whose shared words come in another order, and
  narrations without words give a pattern that matches everything.
- security-service.ts:260 and 318: overlapping setups reset each other (`crossed`), and a tab may
  confirm the recovery kit another tab prepared. A crash inside a rekey or a recovery leaves the
  provider with the old key (`torn`); a kit still opens a backup. A login that was checking the old
  password while it was changed gets its session (`overtaken`).
- job-worker.ts:115: a heartbeat that throws, for a busy database for instance, ends the interval: the
  lease is not renewed any more, unless by the handler, and the job may be tried again while its
  handler goes on (`late`). The fence holds all the same.
- backup-service.ts:220, 224 and 261, backup-routes.ts:30: a removal or a reading that fails leaves the
  container of a failed backup, payload and validation files, or the container of a download, and
  nothing tries again (`stuck`). A valid scheduled backup whose payload cannot be removed is kept, but
  its tick ends without retention.
- backup-service.ts:66: the status searches the newest 20 rows for a backup to show. A restore empties
  `backup_records`, so earlier containers are strays afterwards.
- ai-provider-store.ts: settings are written before the key, so a keyring that fails leaves a row
  without its key (`torn`); a handler that dies leaves its run "running" (`killed`); an undo re-dates a
  suggestion (`annotated`).
- analytics-engine.ts:1800: eviction looks at the current period of an answer, not at the one it was
  compared with (`overtaken`). `deleteImport`, `registerOwnedAccount` and `createCounterparty` announce
  nothing of their own, and the deletion of an import takes its pending invalidations with it
  (`unaware`).
- main.tsx:16: a query that is invalidated while it is read for the first time is not read again: its
  answer may be from before the change, and counts as fresh for thirty seconds. So the transactions
  page may show a list from before an edit whose answer it has, and the review page groups from before
  the end of an AI run it followed (`late`). The same goes for every outdated entry that counts as
  fresh: thirty seconds, the next invalidation or a reload end it.
- transactions-page.tsx: an answer that lands after its query left the screen is kept as fresh
  (`late`); Next pressed twice while a page is still a placeholder skips one, and Next pressed while the
  answer to an edit is on its way goes on from a list as it was before the edit (`hasty`).
- review-page.tsx: ticks and the editor may be out of date when they were set during a fetch or while
  a request was under way (`early`), or when others took items out of the queue (`shifted`); the offer
  to undo is lost when an undo and a decision cross; an answer that comes late closes the editor of
  another group; an AI run that failed after it had stored suggestions is not fetched.
- opay-parser.ts, palmpay-parser.ts: `Legible` says which layouts are read; repeated rows that are
  equal in everything are one.

## 5. Proofs

Proved by TLAPS for all values of the constants that satisfy the named assumptions of their modules:
any number of jobs, workers, calls, requests, statements, transactions, rules, backups, categories,
items and rows, any lease, limit or page size, and any number of crashes and faults. The assumptions say
what the code gives (a lease is longer than a heartbeat interval, names of files differ, rows have
amounts, tables are finite, `None` is the name of nothing).

**`JobWorkerProofs`.** First the maintenance lock. `NoOrphanLock` holds whatever overlaps. The rest is
conditional on no two calls acquiring the lock together: the parts of `Serial` then say that the file
names its keeper, nobody is about to remove a keeper's file, the worker has at most one turn, and is
stopped during a task. `HostsAlive` ties calls to processes.

Then the queue. `QueueInv` is the invariant of the table alone, whoever calls its methods.
`OneActivePerExclusiveType` is not inductive by itself: recovery and failure put running jobs back into
the queue, which is harmless only because rows keep their type and an absent row is entered through
`NoneActive`. `TerminalRowsAreFinal` and `QueueImplementsLifecycle` are the action property and the
refinement: every method maps to one abstract step per row, or none. `WorkerInv` adds
`LeaseFencesAttempt`: a worker that holds the lease of its job is running that job's latest attempt,
because only `Claim` gives a lease and counts the attempt in the same statement.
`LateAnswersAreDropped` and `LeasesAreNotRevived` follow. `ServedHandlersKeepTheirJobs` needs the
timing: the invariant `ServedInv` says that the lease of a run whose loop is served outlasts the ticks
to its next heartbeat, from the assumption that an interval is shorter than a lease.

**`RestoreProofs`.** First the backups. `ScheduledBackupsKept` asks that retention, which sees only the
backups that are left, keeps what the rule would select among all there ever were. That rests on
`RetentionIsPatient`: a backup that the rule would select at a later time among more backups, it selects
now among fewer. So `KeptInv`, which says of every later time that what the rule would ask for then is
still there, is inductive. `NewestIsRetained` makes `OnePerDate` inductive: the newest backup is never
removed, so the scheduler sees that today has one. `FilesAccountedFor` needs where the running backup,
the downloads and the removals stand (`RowsInv`, `JobInv`, `TickInv`, `SendingInv`) and which of their
steps has failed: a container without a crash behind it is named by its row, and is either a valid
scheduled backup, under way or `stuck`. `WayBack` needs that the release state is saved after its
container is complete.

Then the restores. What needs no condition: `PathsInv` (each command has file names of its own, a
rollback file is a database that was backed up), `JournalInv` (the journal names files of one command,
and never both a rollback and an interrupted database while one is under its name), `NumberInv`,
`ForwardInv` and `BackInv` (what each stage may rely on), and with them `SafetyBackupFirst` after any
faults. `ReachInv` says, for each stage while faults were orderly, where the workspace in service is:
in its place, or under the name the journal moves it back from, with the key that opens it.
`WorkspaceStaysInReach` and `ServerStartsAfterAFault` follow from it.

**`SecurityProofs`.** `Processes` says which requests exclude each other and the recovery command,
`OpensInv` where the key of the database is, `AloneInv` who is alone with the database during a setup,
`LoginInv` what a login has seen, `KitsInv` that the key is in a backup before it changes. The four
properties of the run follow.

**`ImportsProofs`.** Of two uploads of one file past their checks, one has noticed the other
(`Noticed`), hence `ImportedOnce`; `DirectoriesGo` needs only where each request stands. `MatchOK`: a
stored match is with a transaction that exists, and alike unless it is called a conflict; with it
`BooksHaveEvidence` and `MergesAreConfirmed`. `OverlapIsBookedOnce` needs `HomesInv` (accounts and
transactions are of imports that are over) and `SeenInv`: an analysis that nothing has overtaken has
matched every entry its account already has.

**`LedgerProofs`.** Every method is a change of rows and rules followed by evaluations of some
transactions in some order; lemmas say once what an evaluation and a sequence of them leave alone.
`PairsInv` is the types and that a pair is one on both sides, also where a third transaction competes
for one of them. `ManualKept` is an action property of each method. `NamesInv` adds which rules a
verdict, a snapshot and a decision may name, and that no rule belongs to two decisions; from it
`UndoLeavesNoTrace`: the rule that an undo deletes is the decision's own, and whatever else it had
matched is evaluated after the group has its snapshots back. `RulesAreInForce` says that re-evaluating
only what a changed rule matched before or matches now is enough: a verdict is that of the rules that
match, or has no winner and no conflicts where none does (`Settled`), so it depends on no other rule;
and of the rules that match one is outranked by none (`TopExists`). It needs that no rule tests the
type, see section 4.

**`AiRunsProofs`.** `AiInv` is inductive in its parts together. `SettingsInv` and `RequestInv` tie the key
and the endpoint in use to those saved together; `ReadInv` and `SuggestionInv` say that whatever carries
the version of a transaction was made of it as it is, through answers, edits, decisions and undos;
`DecisionInv` that a suggestion that an undo shows again is the one the decision was made on;
`OutcomeInv` that a run has suggestions only if its job has succeeded or is about to, unless its handler
died or its lease ran out.

**`AnalyticsProofs`**, over `Workspace`. `CategoriesStayATree`: the parents of a category that has any
are known, and what is below a category stays below it when another is moved or merged; this uses that
the guard of the code excludes what is below the moved category. `AnswersStayCurrent` is the largest:
`ChangesAreAnnounced` says that a method that changes a transaction also announces a moment of it, or
announces everything, and `KeptAnswersStay` that an answer no announcement evicts has the same
allocations before and after. `MoneyIsCountedOnce`: `RowsInv` and `FlagsInv` give the parts of a
transaction and their flags, and sums do the rest: the net of a period is taken apart by transaction
(`SumInTwo`) and each transaction by its parts (`SumOfImages`).

**`PagesProofs`.** The two pages side by side. `PageInv` relates every cache entry and every answer
under way to the server's rows: what is not marked stale, and what will land as fresh, is what the
server would answer, up to the changes that will invalidate it. `PagesAreInOrder` adds `WalkInv`: the
cursors behind the user ascend in the order of the list, and between two of them lies a whole page. A
row is where its rank says, the number of rows ahead of it: ranks grow along the order (`RankGrows`),
every rank is taken (`RankExists`), so the cursor of a full page is that of a row, with as many rows
before it as the page shows (`NextFollows`). `ReviewInv` does for the queue what `PageInv` does for the
list, and `DecisionInv` for ticks, editor and requests: they name groups as the page shows them. A
first read that an invalidation keeps is marked `late` if it is answered by then and needs no mark if
it is not; `NothingYet` says that no decision can be under way while there are no groups, so that such
a read brings back nothing the user has decided.

Finite induction. The library states it for an operator, which no installed prover can instantiate.
Where a proof needs it, it takes a minimal counterexample instead: strict inclusion of the subsets of
a finite set is well founded, so a family of them that is not empty has a minimal one
(`NonemptyHasMinimal`, `FamilyHasMinimal`). Sums are that way too: the folds of the community modules
are recursive functions over subsets, `AddsExists` shows that the function is there, `AddsAgree` that
there is one only, and the laws are about `SumOver`, which takes a function in place of the operator.

Proof attempts changed the model where it was wrong or said less than it could:

- `DecisionsAreTaken` held within the bounds of the run but not beyond, because an editor opened while a
  request was under way was not counted as early.
- `PagesFollowOn` held within the bounds but fails with a fourth move: an edit that the server has made
  and the page has not heard of leaves a list in the cache that Next goes on from. `hasty` counts it now.
- The steps of a rekey were possible outside of a ready server.
- `WorkspaceRecoverable` and `FreshImportsNotDoubled` had exceptions they did not need.
- An earlier property that a merged category stays without transactions was withdrawn, because the undo
  of a decision may choose such a category again.
- The listing of `TransactionsPage` is defined by ranks and not by a sorting operator no prover sees
  into; constants have types where only a comment said so.

### Only model-checked

- Liveness: `EveryJobSettles`, `WorkerResumes`, `DueBackupIsMade`; it needs fairness and `ENABLED`.
- `ReadAsPrinted`, and with it the parsers: what a recursive definition over pages of items makes of a
  printed statement, for every statement, is an induction over the layout. `WordingAgrees` and
  `MetricsAgree` likewise compare definitions over bounded inputs.

## 6. Not modelled

The container format and its cryptography, the redaction of prompts, both rate limiters, expiry of
sessions, CSRF tokens and cookies, formatting and validation (contracts), the audit log, the other pages
of the client, `listModels` and `testConnection`: I/O and data without control the properties depend on.
One currency and one time zone; `income.variability` (a square root) is left out of the metrics, and so
is the comparison with a period of the user's choice (analytics-engine.ts:1815-1820): `Before` is the
period before. Of `Workspace`: edits of the narration and the review state
(transaction-workspace.ts:404-411), which announce what the other edits do. Of `Imports`: archived
accounts and the flag that confirms an unreconciled statement. Of `Ledger`: edits of the counterparty
and the narration, archived categories; `Suggest` is an AI run in one step (`AiRuns` has its steps), and
the history has fewer than the five hundred confirmed transactions the engine reads of it
(classification-engine.ts:649). Of `Security`: `RekeyUndone` is the net effect of the hook's rollback,
not its steps. Of `Statements`: a PalmPay amount that cannot be read makes its row invalid, where the
code fails the whole import (palmpay-parser.ts:154); the rows of OPay's savings account, the dates of a
timestamp (they are values). Of the pages: network failures, reloads, garbage collection of the cache,
the effect of a remembered rule on other items. A rename or a keyring write is atomic; so is the removal
of a database with its `-wal` and `-shm` files, except where a step fails.

## 7. Plan

What was planned is modelled, checked and, but for the four properties above, proved. Worth doing next:

1. The parsers: that `ReadAsPrinted` holds for every legible statement, by induction over its rows,
   once a prover with induction is at hand; until then larger sets of statements in `MCUploads`.
2. The limits of section 4 that a small change of the code would remove (`stale`, `overtaken` of the
   comparison, the journal of `restore_retry`): drop the history from the property and prove it.
3. Expiry of sessions and the rate limiters, if they get state that outlives a request.
