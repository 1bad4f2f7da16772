# Verification of HydroQualiSense (InvoiceApp)

TLA+ models of the concurrent core of the application, the TLC
configurations that check them on small instances, and TLAPS proofs of what
matters most for every value of the constants.

Run everything from this directory:

    tlc -workers 2 -config MCWorkspaceLoadCache.cfg MCWorkspaceLoadCache
    tlapm WorkspaceLoadCacheProofs.tla

`PROJECT.json` lists the components, runs, findings, hazards and theorems, and
maps every definition to the lines it stands for.

## 1. The system

A React client, an Express server (`src/server.ts`) and a Supabase Postgres
database with row-level security, transactional functions and realtime events;
files live in an object store (Supabase Storage, S3 or R2). One company may be
used by several sessions at once; several server processes may run.

| Component | State it keeps | Operations | What is hard | What makes it correct |
|---|---|---|---|---|
| Workspace refresh scheduler (`lib/workspaceSync.ts` 365-507) | pending groups, debounce timer, refresh in flight, idle waiters | request, flush, cancel, dispose, whenIdle | requests during a refresh; cancel against an armed timer; flush awaiting a refresh | nothing asked for is lost; one refresh at a time; waiters wake |
| Realtime, fallback on browser signals, session controller (rest of the file), first load and refresh handler (`App.tsx` 640-1070) | channel, pending signals and cooldown, session generation, loads in flight | setSession, requestRefresh, dispose, event handlers | events lost while disconnected; offline; loads that outlive their session or overlap | the view becomes fresh and never goes back; nothing of a session that ended |
| Load cache (`lib/workspaceLoadCache.ts`) | entries with data, generation, promise; LRU order | get, getOrLoad, invalidateGroup, invalidateCompany, clear | overlapping loads of one key settle in any order | bounded; superseded or discarded data does not come back |
| Invoice editing (`App.tsx`, `persistence.ts`, `utils/saveSequencing.ts`, `utils/remoteConflict.ts`) | drafts, autosave timers, edit revisions, save queues, last persisted versions, save state | edit, autosave, explicit save, refresh, navigation | autosave, refresh and other sessions interleave at every await | edits are neither lost nor silently overwrite others; the indicator tells the truth |
| Migration to S3 (`server/storage/migrationService.ts`, `lib/storage/migration.ts`) | migration records with lease, pointers, objects in two buckets | discover, claim, copy, verify, switch, record | several workers, crashes, leases, failing calls | the authoritative pointer resolves to the right bytes |
| Upload and compensation (`storageRouter.ts`, `storageCompensation.ts`) | objects and rows | upload, deduplicate, compensate | object before row; delete after check | no row without object, one document per content, no orphan unsaid |
| Backup replication (`lib/storage/backup.ts`, `backupService.ts`) | replica manifests | register, claim, replicate, verify, reconcile | leases without fencing, ignored errors | what is registered is copied and verified, or reported |
| Database backup, retention | manifests, encrypted dumps | export, drill, prune | external processes | the last good backup is kept |
| Document delivery, messaging (`server/messaging`, three migrations) | intents by idempotency key, audits | claim, send, complete, check the status | the provider's answer is lost; requests are repeated; the message goes on meanwhile | one call per key; the history is true and complete in the end |
| Access management, access recovery | roles, sessions | grant, revoke, refresh | last administrator; overlapping refreshes | never no administrator; no stale access |
| Supplier invoices, expenses, cash and settlement (SQL) | bank transactions, matches, invoices, expenses | verify, settle, reverse, transfer, correct, void, delete | several rows locked one after the other; retries; deadlocks | nothing is paid out beyond its amount or to what was voided; evidence is never rewritten |
| Purchase orders, receipts, invoice matching (SQL) | orders, receipts, matches | write, release, receive, void, close, match | checks that read what they do not lock | no more received than ordered; an invoice matched once |
| Warehouse (SQL) | items, append-only movements | move, reverse, change an item | stock is a sum over movements; reused keys | no stock below zero; a receipt or reversal counts once |
| Client billing and collections (SQL) | billings, collections | issue, collect, void | cumulative amounts | sums stay within the contract |
| Payroll, RFQs, subcontracts, engineering, templates, workbooks, extraction, assistant, AI credentials | rows, drafts | many | mostly data validation | |
| UI, demo, build, QA, marketing | | | | |

How they interact: realtime events and the browser's focus and online signals
*call* the scheduler; the scheduler calls the refresh handler of `App.tsx`, which loads
groups *through* the load cache and applies the result to the shared refs that
invoice editing reads; saves go to Postgres, whose changes come back as realtime
events of every session. Uploads write the rows whose pointers the migration
switches, and the buckets that backups read. Users' calls of database functions run as
transactions of their own that share the tables of invoices, orders and
receipts; e-mails carry orders that such calls may withdraw.

## 2. Modules

| Module | Models | Composes |
|---|---|---|
| `RefreshQueue` | what the scheduler promises: groups owed, refresh running, closed | |
| `WorkspaceSyncScheduler` | `createWorkspaceSyncScheduler`, each callback an action | `INSTANCE RefreshQueue` as its abstraction |
| `WorkspaceSyncSchedulerProofs` | proofs | |
| `WorkspaceLoadCache` | `createWorkspaceLoadCache`, its loaders and the server | |
| `WorkspaceLoadCacheProofs` | proofs | |
| `WorkspaceFreshness` | realtime channel, browser signals, session controller, first load, refresh handler and the loads they share | `EXTENDS RefreshQueue`, the scheduler's abstraction, for what lies between requests and refreshes |
| `WorkspaceFreshnessProofs` | proofs | |
| `InvoiceEditing` | editing, save queue, conflict check, refresh, other sessions | |
| `InvoiceEditingProofs` | proofs | |
| `StorageMigration` | discovery, claims, the migration step, crashes, time | |
| `StorageMigrationProofs` | proofs | |
| `BackupReplication` | manifests of the copies in the backup store, the workers that copy and verify, crashes, time | |
| `SourceUpload` | upload of invoice sources with compensation, and registration of their backup | `EXTENDS BackupReplication`: the same objects and manifests |
| `SourceUploadProofs` | proofs | |
| `RowLocks` | row locks of PostgreSQL and its deadlock detector | |
| `Tally` | sums over rows | |
| `SupplierLedger` | bank transactions, matches, invoices, expenses: for each function its locks, checks and writes | `EXTENDS RowLocks, Tally` |
| `PurchaseOrders` | orders, receipts, matches with invoices | `EXTENDS SupplierLedger`, whose invoices it matches |
| `Warehouse` | items and movements | `EXTENDS PurchaseOrders`, whose receipts it posts |
| `CompanyDatabase` | the sessions that run these calls at the same time | `EXTENDS Warehouse` |
| `CompanyDatabaseProofs` | proofs | |
| `DocumentDelivery` | requests to send, the delivery history, the providers | `EXTENDS CompanyDatabase`: the orders that e-mails carry change meanwhile |
| `DocumentDeliveryProofs` | proofs | |
| `MC*` | instances for TLC | |

Code runs to its next `await` without interruption, so the unit of atomicity is
the stretch between two awaits: one action each. A call of Supabase or of an
object store takes effect at one moment; where the call's effect and its
answer can be separated by another actor, they are two actions.

**WorkspaceSyncScheduler.** `pendingGroups`, `refreshing` and `disposed` are the
closure's variables; `timer` counts the ticks left (`NoTimer`: none armed);
`running` are the groups of the refresh in flight, `activePromise` being present
exactly while `refreshing`; `flusher` and `waiter` follow the callers of `flush`
(before, awaiting the running refresh, ready to go on) and `whenIdle`.
`RefreshSettles` is the `finally` block: it re-arms the timer for groups asked
for meanwhile. Handlers that throw before their first await are left out, the
only handler (`App.tsx` 1042) is async.

**WorkspaceLoadCache.** `entries` is the map, keyed by owner (user and company)
and group; the access sequence is kept as the order it defines (`newer[k]`: the
entries accessed after `k`); data is the version of the server's rows it shows.
`loads` are the loaders in flight; each reads the server at one moment and
settles at a later one. `invalidated` and `discarded` are history variables. The
clock is abstracted: any loaded entry may be found expired.

**WorkspaceFreshness.** The scheduler is represented by what it promises:
`owed`, `active` and `closed` are `RefreshQueue`'s variables, and each action
that requests, begins or ends a refresh contains `Ask`, `Begin` or `End`.
`fallback` is the state of `createWorkspaceSyncFallback`, `generation` is
`workspaceGenerationRef`, `closed` says that nobody is signed in. A load carries
the session it was begun for (its token) and the callers that joined it; the data
of a group is a version, `server` in the database and `view` on the screen. A
load consists of several queries: it shows at least what the first one found, so
one moment of reading is the weakest case. `SignOut` is `handleSignOut` together
with the cleanup of the session effect and the clearing of the cache, which React
runs when the session is gone; every session of the model ends that way. `due` is a history variable: the version the
client was told of and has neither shown nor failed to load. `Groups` are those
the user may read.

**InvoiceEditing.** A row's content is the set of edits it contains, `updated_at`
the index of its write in `committed`. `persisted` is the sequence of maps that
`lastPersistedRef` has held: a queued save holds on to the map that was current
when it was queued, as the call in `App.tsx` 2717 passes the map by reference.
A save goes through *queued*, *reading*, *writing*, *finishing*.
`SelectedInvoiceRef` is the constant `None` because the code creates that ref
with null and never assigns it.

**StorageMigration.** `pointer` is `source_documents`' provider and key, `target`
the digest of each target object, `records` the migration records in order of
creation with the age of their claim, `worker` each request's local state
(phase, batch, record in hand, age of the batch). Time passes in `Tick`, which
ages leases and batches together. A worker that crashes keeps nothing. Where
`CallsFail`, a call may end in an error and a write that does may have taken effect
or not: an insert or a claim is passed over (a row so claimed waits for its lease),
a copy counts as failed, a switch is put down for a retry though the document may
have moved, an outcome is not looked at.

**BackupReplication.** `objects` and `replicas` are the two stores, `manifests`
the rows of `document_backup_replicas` in order of creation, each with the age of
its claim; `worker` is one call of `replicateAndVerifyManifest` each, from its
claim to its last UPDATE. Every action is one call of the database or of a store:
it is `Sound` or a `Fault`, and a write that faults may have taken effect. Ages
and attempts are counted up to the limit they are compared with. An UPDATE that
the unique index refuses changes nothing, as the code ignores its error.

**SourceUpload.** One request each of `POST /manual-source`, whose `phase` is the
call it makes next. `rows` and `registration` are the columns of
`source_documents` that matter. A request has a key of its own, so requests,
objects and rows share their identity; `Content` gives the digest of their bytes.
The answers are `document`, `unstored` (an error before or at the put),
`failed` and `unclean` (an INSERT error after successful or failed cleanup),
`unregistered` (stored, backup not registered) and `crashed`. A backup is
configured and the primary store is S3, as reconciliation requires.

**SupplierLedger, PurchaseOrders, Warehouse, CompanyDatabase.** A call of a
database function is a record (`op` and its arguments). Each of the three ledger
modules says of a call which rows it locks and in which order (`...Plan`), what
makes it raise once the first *k* of them are locked (`...Refused`), when it
finds its work done and answers (`...Answered`), which unique index refuses it
(`...KeyTaken`) and what it writes (`...Write`). `CompanyDatabase` runs them:
`at` counts the rows a session has locked, `passed` says that the checks behind
the last of them are done, `held` are its locks. Under READ COMMITTED each
statement sees what was committed when it began, and `FOR UPDATE` re-reads the row
it waited for; so the checks that follow a lock are one step (`Pass`), the wait
for the next row another (`Lock`), and the writes with the commit a last one
(`Commit`), as nobody sees them before. Amounts are small numbers, added up by
counting units. A transfer's two match rows are one, as they are written and
reversed together; the unique index leaves an invoice one linked expense, which
has its place in the model from the start.

**DocumentDelivery.** `request` is one client's request with the call it makes
next (`phase`); `intent` and `audits` are the rows of `document_send_intents` and
`document_send_audits` by idempotency key; `outbox` is where the provider has the
message, and `handed` a history variable: the messages it was given under each
key. `Call` is the request to the provider with its answer: taken with a status,
rejected, or no answer in time, in which case the provider may have the message,
may get it later (`TRAVELLING`) or never. `Lose` ends a request at any await.
`Advance` is the provider, of which `Becomes` supposes that a message moves from
accepted to sent to delivered, may fail or be cancelled on the way and does not
come back. `reference` says that the history knows the provider's name of the
message: the gateway's is derived from the key by the trigger of
`20260912073000_android_sms_reconciliation_reference.sql`, the others come with the
answer. Only text messages have a status check.

## 3. Runs

Deadlock is checked in `scheduler`, `source_upload`, the migration runs and the
runs with the database (where only the end of all calls, `Done`, goes on for
ever); the others end because edits, writes or generations are bounded.

| Run | Question | Instance, and why it is enough |
|---|---|---|
| `scheduler` | is anything pending stranded, any timer idle, any waiter asleep; are requests taken up, do `flush` and `whenIdle` return, is `RefreshQueue` implemented? | 2 groups, 2 flush calls, 1 waiter, a debounce of 2 ticks: requests overlap, add to and repeat what is pending and running, and two flushes await one refresh |
| `load_cache` | does old data ever come back, is the bound kept? | 3 owners with 1 group, room for 2 entries, 2 server versions, 4 generations: an invalidation, an eviction or an identity change between two overlapping loads of one key. As each property speaks of one key, the server's data changes for one key in a behaviour (`OneKeyChanges`) |
| `freshness` | does what the client was told of get to the screen, does the screen ever go back, does anything happen after sign-out? | 1 group, 2 versions, 2 sessions, a save at any time: an event during the first load, during a refresh, and for a change that a load in flight has missed; a load of one session that settles in the next. Groups share only the refreshes that load them together, and the proofs are for any groups |
| `editing` | are saves in order and free of races, is 'saved' true, does 'saving' end? | 2 own edits, 1 remote edit, 2 refreshes, 1 explicit save, navigation, failing calls; one invoice, as the queues of different invoices are independent |
| `migration` | do pointers resolve, does a record have one worker, is a switch final? | 2 workers, 2 documents of the same bytes (one source lost), 1 crash, any call may fail with or without taking effect, batches no longer than the lease |
| `migration_live` | are documents migrated in the end? | 1 crash, no other failures |
| `source_upload` | does every row have its object, do equal uploads get one document, is nothing left behind unsaid, is every registered backup settled? | 2 uploads of the same bytes, 2 workers, 2 attempts, one fault of any call or a crash anywhere, leases that end at the next tick, reconciliation of the first manifest. One fault reaches every error path; two were explored for the invariants alone (1.3 million states), which are proved for any number |
| `database` | is anything used beyond its amount, is evidence kept and believed, does a retry count once, do calls block each other? | 2 sessions make 6 calls of one of five mixes (`Obligation`, `Statements`, `Ordering`, `Purchasing`, `Stock`), each a group of calls about the same rows, amounts of 1 and 2: two calls overlap at every lock, after up to four that prepare the tables |
| `delivery` | can a message be sent twice, is the history true, is the outcome learned? | 2 clients of one user, 1 key, 3 messages (through the gateway, PhilSMS, an e-mail with an order), 2 posts, 1 request that dies, an order cancelled at any time. Keys share nothing; two keys were explored for the invariants alone (5.3 million states), which are proved for any number |

Three runs show disagreements between the code and what it says:

| Run | What it shows |
|---|---|
| `editing_overwrite` | a refresh renews the expected version under a queued save of an older draft, which then overwrites another session's edit without the message of `persistence.ts` 835 |
| `migration_lease` | claims carry the time the batch began (`migrationService.ts` 347, 387): a record claimed late in a long batch can be claimed again at once |
| `order_close` | the guard of closing an order sums its receipts without locking them (`20260910014343_...sql` 44), and voiding a receipt does not lock the order: an order is closed with a quantity outstanding |

Seen while modelling, without a run of their own:

* `selectedInvoiceRef` (`App.tsx` 276) is never assigned, so a refresh replaces
  the draft of the selected invoice that `remoteConflict.ts` 67 says is protected.
* The failed save of an unedited invoice leaves 'saving' (undefined is compared
  with 0 at `App.tsx` 2732), which disables the buttons the message asks to use.
* A refresh joins the load that a save has in flight (`workspaceLoadCache.ts` 350)
  though it may have read too early, and nothing asks again;
  `docs/workspace-sync-audit.md` 64 asks for a rerun.
* Only `handleSignOut` counts up `workspaceGenerationRef` (`App.tsx` 2781). A
  session that ends otherwise, as its token expires or another tab signs out
  (`CompanyAccessContext.tsx` 181), loses its cache and its screen (`App.tsx`
  1005-1010) but not its number: if the same user then returns to the same company
  while one of its loads is in flight, that load passes `canApplyWorkspaceLoad`
  (`remoteConflict.ts` 25), of which `docs/workspace-sync-audit.md` 36 speaks as
  comparing a "monotonic request generation", and may show data older than the new
  session's.
* An ignored bank transaction can still be settled. The void of an invoice looks
  only at evidence that names the invoice, not at that of its linked expense, though
  `docs/ENGORYX_FINANCIAL_SETTLEMENT_INTEGRATION.md` 204 speaks of settlement
  evidence in general. A reopened invoice can be edited below what was settled for
  it: `NewEvidenceIsSound` speaks of the moment of settlement for that reason.
* A receipt can be voided after its order was closed or its goods were posted; a
  repeated receipt is answered without comparing its lines.
* A status check that fails replaces `SENT` by `UNKNOWN`, and a late `ACCEPTED` is
  then stored, though the completing functions refuse to "move backwards". An
  e-mail whose order is cancelled between claim and completion can never be
  completed, because the trigger looks at the order on every UPDATE: it stays
  `PENDING`, and e-mails have no status check. A key whose request died before the
  call stays `PENDING` too.

### Properties

*Scheduler.* `NoLostWakeup`, `RequestedIsTakenUp`, `FlushReturns`,
`ImplementsRefreshQueue`. *Cache.* `PromisesAreLive`, `LoadedSinceInvalidation`,
`DiscardedStaysGone`, `DataMovesForward`. *Freshness.* `OneLoadPerGroup`,
`SignedOutIsEmpty`, `ViewMovesForward`, both for sessions that end by
`handleSignOut`; `RequestsAreServed`: what the client was
told of, even while offline, is shown in the end, provided that the browser comes
back online for good, the load does not fail, and no refresh shares a load with a
save. It does not speak of changes whose events were lost: the code asks for
nothing when the channel is back. *Editing.* `RevisionsInOrder`, `NoRaceOverwrite`
(a write lands only on the version that was checked), `SavedIsDurable`,
`SavingSettles`. *Migration.* `PointerResolves`, `OneWorkerPerRecord`,
`RecordTellsPointer`, `EventuallyMigrated`; `SwitchIsFinal`: no worker, however
late, changes a record whose switch was recorded, or moves the pointer again.
*Upload and backup.*
`CommittedResolves`, `OneDocumentPerContent`, `CleanEndLeavesNoOrphan`;
`RegisteredIsSettled`: a registered backup is verified or given up in the end,
though not for good, as a late worker may reopen it. *Database.* `NotOverdrawn`,
`NewEvidenceIsSound`, `ReviewTellsEvidence`, `VoidedTargetsAreFree`,
`EvidenceOnlyReverses`; `NotOverReceived`, `NewMatchIsSound`; `StockIsCovered`,
`CountedOnce`; `DeadlocksAreKnown`: transactions wait for each other in a circle
only through a verification, which locks an invoice before its expense, or a
movement that asks for the one recorded under its key while it holds the
movement it takes back (two such, each with the other's key) or, repeated, the
item. *Delivery.* `OneCallPerKey`; `HistoryIsTrue`: no status of the
history or its audits is one the provider did not report or that no longer
stands, in particular `FAILED`, which invites a new attempt; `OutcomeIsLearned`.
Type invariants are proved; two of them are checked as well. Each property is stated in
words above its definition, and `PROJECT.json` names for each a mutation of the
code that it catches.

Hazards for which the code makes no promise, so that no property covers them:
requests that keep postponing the debounce (`workspaceSync.ts` 405), a refresh
that throws (437) or joins a load, events lost while the channel was down (580), a
save that fails halfway through its tables (`persistence.ts` 888), a migration
attempt that is not stored (`migrationService.ts` 540), uploads that crash
(`storageRouter.ts` 331), reconciliation that reads the same first rows again
(`backupService.ts` 318).

### Fairness

* Scheduler: the timer runs and fires, a refresh settles (the handler awaits
  loads that end or fail), a resumed flush goes on (a microtask). No fairness
  for callers: `RequestedIsTakenUp` supposes that requests eventually stop,
  because each re-arms the debounce.
* Freshness: calls are answered or fail, the timer of the fallback and a due
  online event fire, and the scheduler reaches its refresh, because its debounce
  (250 ms) is shorter than the cooldown between signals (5 s) and changes of the
  data are bounded. No fairness for the connection, the channel, users or signals.
* Editing: timers fire and requests are answered or fail. Users, other sessions
  and refreshes owe nothing.
* Migration: time passes, a worker's calls are answered, and the endpoint is
  called again. The claim's choice among records is fair because it follows
  `created_at`.
* Upload and backup: a request and a replication that began go on, time passes,
  and `/replicate-backup` is called again and again. It is an operator's call
  (`storageRouter.ts` 606), so this supposes an operator or a job that makes it;
  the attempt that a registration starts itself is one of these calls. No
  fairness for crashes and reconciliation.
* Delivery: a request that began goes on, unless it is lost. The panel offers
  "Check status" for every text message that has a reference and is not delivered
  (`CommunicationHistoryPanel.tsx` 81), so the sender is supposed to come back to
  each (strong fairness, as checks overlap with other requests), and a provider
  that is asked again and again to answer in the end. No fairness for the
  provider's own progress, posts or losses: `OutcomeIsLearned` speaks of messages
  whose fate is decided.
* Database: none. A call may wait for ever, and all its properties are safety.

## 4. Proofs

All for every value of the constants, from the named assumptions of the modules.

* `WorkspaceSyncSchedulerProofs`: `NothingStranded`, `TimerAlwaysHasWork`,
  `WakeupsAreNotLost`, `TypeCorrect`, and `SchedulerRefinesQueue`, the safety
  part of the refinement. The invariant adds that `running` is empty when no
  refresh is in flight, that a disposed scheduler has neither timer nor pending
  groups, and that a waiter waits only while there is work.
* `WorkspaceLoadCacheProofs`: `CacheBounded`, `PromisesStayLive`,
  `LoadedDataIsCurrent`, `DiscardedDataIsGone`, `DataOnlyMovesForward`,
  `CacheTypeCorrect`. The invariant says what the code's comments leave implicit:
  generations are given out in order and no two loads of a key share one
  (`Numbered`), hence at most one load is current, and what the current load has
  read is at least as new as the entry and as all that was done to its key
  (`Ordered`).
* `WorkspaceFreshnessProofs`: `LoadsAreShared`, `NothingAfterSignOut`,
  `ScreenMovesForward`, `FreshnessTypeCorrect`. The invariant adds `LoadsAreNew`:
  what a load of this session has read is at least what is shown, which holds
  because a session has one load per group (so nothing else changes the group
  before it settles) and because loads of earlier sessions stay of earlier
  sessions. Every step is first reduced to one of seven shapes by what it does to
  loads, screen and session (`Shapes`).
* `InvoiceEditingProofs`: `SavesReachRowsInOrder`, `NoSaveRacesAnEdit`,
  `SavedTellsTheTruth`, `EditingIsTyped`, for any invoices and numbers of edits,
  saves and refreshes. The invariant says what a save relies on when it writes:
  only the oldest save of an invoice is under way (`QueueKept`), the row is the
  last write in the invoice's history (`LastWritten`), and revisions ascend from
  that history through the queue to the armed timer (`Sequenced`). A write that
  finds the row at the version it read therefore comes after all others and
  brings no older revision. Steps are grouped by what they do to drafts, queue
  and history: an edit, a new save, a save that goes on or ends, another
  session's write, and the rest.
* `StorageMigrationProofs`: `PointersResolve`, whatever the lengths of batches
  and leases, crashes and failures, because the pointer is switched only after
  the worker compared the stored object with the document's digest and because
  no step replaces an object that has the bytes some document needs; and
  `MigrationTypeCorrect`. `RecordsAreHeldOnce`, `RecordsTellPointers` and
  `SwitchesAreFinal` suppose that a batch ends within the lease
  (`MaxBatch <= Lease`): the code does not see to it, the run `migration_lease`
  shows what happens otherwise, and the theorems say that nothing else is needed.
  Their invariant `Owned` relates each claim to the age of its worker's batch
  (`Holds`): a record in a worker's hands is as old as that batch, too young to be
  claimed again, and only its worker changes it or switches its document, of which
  one record at a time is open (`OneActive`).
* `SourceUploadProofs`: `UploadsCommitObjects`, `NoSilentOrphans` and
  `SameBytesSameDocument`, for any requests, workers and number of faults. The
  invariant says for each phase where the request's own object and row are
  (`Placed`), which its own steps keep and no other step disturbs (`OnlyOwn`,
  `BackupLeavesUploads`); and that a request that has adopted a document
  adopted an upload's row of its content, of which the index admits one
  (`Agreement`). `VerifiedBackupsExist` says the same of the other end: a manifest
  reported as `VERIFIED` has its copy, although an UPDATE checks no claim, since
  only a worker that has found the copy writes that state and copies are not
  deleted. No run checks it, because the code checks twice, after the copy and
  again at the verification, and no single slip breaks it. `UploadAndBackupAreTyped`.
* `CompanyDatabaseProofs`, for any number of sessions and any calls. The argument
  is that what a call has checked stays true until it writes, because it holds the
  lock of the row that any other call would need to change it. So the invariants
  say which locks a session holds at each point of its plan (`Locked`; with it
  `LocksAreExclusive` and `TypesAreKept`) and what it has therefore seen that is
  still so.
  - `ReceiptsStayWithinOrders`: of its order and the room left in it
    (`OrderChecked`). `AllocationsStayWithinAmounts`, `EvidenceIsKept`: of its bank
    transaction (`TxChecked`) and of the two sides of a transfer. `NoEarlyReceipts`
    and `TransfersArePairs` tie rows together that are written by different calls.
    The sums need that a row added, dropped or reversed changes them by its amount.
  - `VoidedTargetsStayFree`, `EvidenceIsSound`: of the target it settles, voids or
    deletes, with all evidence for it (`TargetsKept`). An expense and the invoice
    behind it are one obligation, and a settlement of either has locked both.
  - `ReviewsTellEvidence`: every function that changes a match also writes the
    status of its transactions, each of which it holds (`ReviewKept`, on top of the
    invariant of the sums).
  - `MatchesAreSound`: of its invoice and order, which shared locks keep as they
    are; the matches of the invoice they do not keep, so that part rests on the
    unique index.
  - `StockIsAlwaysCovered`: of the item, whose stock is In - Out, and of what each
    project holds (`StockKept`); a movement once recorded does not change.
    `MovementsCountOnce` rests on unique indexes alone.
  - `OnlyKnownDeadlocks`: tables have a rank, and except for the calls the property
    names a session waits only for a row of a higher rank than those it holds, or
    of the same rank and a higher number (`HeldInOrder`). In a circle without these
    calls somebody waits for one of the rows it holds, and so for a lower one than
    it does: what the circle waits for would descend for ever. A movement at any
    other point holds what nobody else waits for (`MoveHolds`).
* `DocumentDeliveryProofs`: `KeysAreCalledOnce`, `HistoryTellsTheTruth`,
  `DeliveryTypesAreKept`. A request about to call the provider is the only one of
  its key and nothing was handed over before (`Claimed`, `NothingEarly`); a request
  about to complete carries an answer that still stands (`Warranted`), because what
  was once true of a message stays true while the provider goes on (`Standing`).
  Most steps change neither history nor provider (`Quiet`) and are treated as one.

Only model-checked: liveness (`RequestedIsTakenUp`, `FlushReturns`,
`RequestsAreServed`, `SavingSettles`, `EventuallyMigrated`, `RegisteredIsSettled`,
`OutcomeIsLearned`, and the fairness part of `ImplementsRefreshQueue`), as fairness
is out of the prover's reach. Every other property of the passing runs is proved.
What the three runs with a violation show is refuted by TLC and not claimed.

## 5. Not modelled

Within modelled components:

* Client: the indicator of the sync status; a change of user or company without
  sign-out (the tokens compare both); a session that ends without `handleSignOut`
  (see section 3); a refresh callback that throws
  synchronously; cache keys as text; verification, re-extraction, archive and
  deletion of invoices in `App.tsx`; the line items and review events of a save
  beyond "they may fail".
* Storage: a call that takes effect only after its failure was seen, such as the
  INSERT of an upload after compensation has looked for it, or the UPDATE that
  switches a document after the next worker has switched it;
  failures to sign a preview address, which change nothing; backup copies changed
  by others; migration of several domains and the reporting endpoints.
* Database: accounts and their lock, the creation of transactions and items,
  archiving, currencies, permissions, the withholding basis, batches, payroll
  runs, subcontract claims and client collections as targets; orders of several
  lines, vendors, units and the archive of projects in the checks of receipts,
  matches and movements; the tolerance of 0.005 in comparisons; the key-share
  locks of foreign keys; the trigger of `20260906132222_...sql` 1076-1165.
* Delivery: the older Gmail path, the rate limit, permissions, client invoices as
  attachments, users who check another's message (refused), the list of the
  history (the latest 100). An e-mail intent that is `CANCELLED` may be claimed
  again, but Brevo never reports that status. The 409 answer of the gateway is not
  reached, as no key is sent twice. An answer that names the message but not a
  status the adapter knows is taken as no answer. That a provider answers a
  message it has taken with 4xx or, for PhilSMS, with an empty body is not
  supposed: the adapters would call it `FAILED`.

Whole components: see `PROJECT.json`, each with its reason. Most of the source are
React components, parsers, templates and demo data, which keep no state that
several actors share.

## 6. Plan

What is left, in this order:

1. `LeasedWork`, an abstract specification of claimed work that
   `StorageMigration` and `BackupReplication` should implement while work is
   shorter than leases, and the refinements; `SourceUpload` composed with
   `StorageMigration` through the buckets.
2. The last administrator, and the client's side of access recovery; client
   billing as further targets of settlement.
3. Proofs: the safety part of the refinements of `LeasedWork`, which for
   `StorageMigration` follows from `Owned`, once that specification is written.
