# A formal model of viveCServer

viveCServer is the sync server of the Vive notebook app: a Go program in front
of PostgreSQL that keeps one tree of notebooks, sections, pages and their
contents per account and lets several devices of the account push and pull
changes. This directory holds TLA+ models of the parts of it that are hard to
get right, the TLC runs that check them on small instances, and TLAPS proofs of
the properties that matter most, for instances of any size.

All paths below are relative to the repository; line numbers are in
`PROJECT.json`, which maps every definition to the code it stands for.

## 1. The system

### Components

| component | code | state it keeps | operations |
|---|---|---|---|
| sync engine, push | `internal/syncengine`, `internal/store/synctables.go`, `changecontext.go` | `accounts.change_seq`; eight synced tables, each row with a `version` and the `change_seq` that last wrote it; `applied_batches` | `ApplyChangeBatch` |
| sync engine, pull | the same | none; the client keeps a cursor, `devices.last_pulled_seq` remembers the cursor it presented | `PullFilteredChanges`, `PullChanges` |
| purge log, erasure | `internal/store/purges.go`, `adminstats.go` | `purges`: id, sequence | `DeleteArchivedNotebook`, `StopHostingCloudNotebook`, `PrunePurges` |
| notebook shelf | `internal/store/notebooks.go` | `deleted_at`, `closed`, `cloud_only` of a notebook | `RetainOnDelete` |
| blobs: uploads | `internal/httpapi/blobs.go`, `internal/blob` | `blobs` rows (who holds which digest, when it was marked), `accounts.storage_bytes`, files by digest, a lock per digest | `handleUploadBlob`, `publishBlob` |
| blobs: references | `pagecontent.go`, `attachments.go`, `migrations/` | `page_blob_refs`, `attachments` | part of a push |
| blobs: sweeper | `internal/blobsweep`, `internal/store/blobs.go` | marks | `SweepOnce` |
| change streams | `internal/changefeed`, `internal/httpapi/changewatch.go` | in memory: subscribers with a channel of one event | `Subscribe`, `Publish`, `Revoke`, `Disconnect`, `handleWatchChanges` |
| devices | `internal/store/devices.go`, `internal/httpapi/devices.go`, `authmiddleware.go` | `devices`: token, revocation, `last_pulled_seq` | register, revoke, remove, authenticate |
| admin panel, credentials | `internal/httpapi/admin.go`, `accounts.go`, `internal/store/adminsessions.go`, `accounts.go`, `internal/auth`, `cmd/vivecserver` | `accounts.password_hash`, `admin_sessions`, the slots of password derivation | set up, sign in, rehash, sign out, reset the password |
| connection pool, migrations, start and shutdown, live log, HTTP plumbing | the rest | none that outlives a request, or none the above depends on | |

### How they interact

* Every writer of an account's log (push, erasure, stop-hosting) runs in one
  transaction under the account's advisory lock, takes the next `change_seq`
  and writes all its rows with it. So one push is one sequence. Under the same
  lock a push first looks for the answer an earlier try of its batch recorded,
  and it records its own with its rows.
* A pull takes no lock and no transaction. It reads the account's `change_seq`,
  then where the page must end (`SelectDeltaCutoff`), then the rows
  (`SelectDelta`), then the purges, then it records the cursor the client
  *presented* as acknowledged: five snapshots, and anything may happen in
  between. The client applies rows, then purges, then commits the cursor.
* Erasing a notebook deletes its subtree and leaves a purge. A purge may be
  pruned once every active device has acknowledged a cursor at or above it;
  until then its id cannot be pushed again.
* The bytes of a picture are a file named by their digest and shared by all
  accounts; a row per account claims them. A row and a file cannot change
  together, so a session lock per digest (`BlobLock`) covers the pair. A push
  checks that the blobs it names are held and commits later; the sweeper marks
  what nothing refers to, and after a grace period deletes row, then file.
* After its commit a handler tells the broker in its process; the broker wakes
  the streams of the account's other devices or ends the streams of a device
  whose credential went. A stream subscribes first and reads afterwards.
* The panel, the API and the operator's commands are different processes or
  requests that meet in `accounts` and `admin_sessions`. Only the first setup
  takes a lock; a sign-in reads a hash, spends a second deriving a key in one of
  a few slots, and may store a new hash of the password it verified.

### What is hard

The interleaving of lockless pulls with writers; lost answers and retries; the
order of commits and broker calls; a check in one transaction and its use in
the next; two resources (database and disk, or database and broker) that cannot
commit together; protocol sequences through revocation and a new sign-in. The
full list, each at its line and with the properties that cover it, is under
`hazards` in `PROJECT.json`.

### What makes each part correct

* **Push and tree**: a stored row has its parent; an erased id is not stored
  while its purge is in the log; one bad entity does not fail the others.
* **Pull**: at or below its cursor a device has received every row as it is
  now; pages deliver whole pushes, hold no more than was asked for or one push,
  and take their client forward; purges reach every device that holds what they
  name; a device that keeps asking catches up.
* **Shelf**: only the operator lets go of the last copy of a closed notebook.
* **Retries**: a batch takes effect once in its window; later it overwrites
  nothing, and brings back no erased notebook whose purge its device still
  holds back; every answer is that of a push that committed.
* **Blobs**: a claimed digest has its file; a live page's pictures stay; an
  account is charged for what it holds; what nobody needs goes in the end.
* **Streams**: no idle stream misses a write; no stream outlives its credential.
* **Admin**: a password reset is final; there is one first account.

## 2. Modules

| module | what it is |
|---|---|
| `SyncKinds` | the kinds of entity, the tree they form, what an accepted change stores |
| `AccountSync` | one account's log, its writers and the pulls of its devices |
| `AccountSyncProofs` | six theorems about it |
| `AccountPurgesProofs` | two more, about the purge log |
| `AccountPagesProofs` | two more, about the size and the progress of a page |
| `PushBatch` | what a batch is, what it does to versions, what is remembered of it |
| `AppliedOnce` | what a push promises: one atomic effect, not repeated while remembered |
| `PushTransaction` | pushes of several accounts as transactions in steps; implements `AppliedOnce` |
| `PushTransactionProofs` | six theorems about it, the refinement among them |
| `BlobStore` | claims, references, files, uploads and sweepers |
| `BlobStoreProofs` | three theorems about it |
| `BlobRowsProofs` | two more, about charges and pictures |
| `ChangeFeed` | handlers, broker and streams of one account |
| `ChangeFeedProofs` | three theorems about it |
| `AdminAccess` | the first account, its password and the sessions opened with it |
| `AdminAccessProofs` | four theorems about it |
| `MCAccountSync`, `MCPushTransaction`, `MCBlobStore`, `MCChangeFeed`, `MCAdminAccess` | their instances |

A definition named `Faulty...` is a plausible bug in the definition it stands
above. It is not part of any specification; `PROJECT.json` lists which property
each one breaks, which shows the property depends on the code being as it is.

### AccountSync

State: `changeSeq`, `rows`, `purges`, `devices` are the database; `pull` is the
pull request in flight of each device, by the query it has reached; `cursor`,
`held` and `copy` are the client's, which is not in the repository and is
modelled from `docs/openapi.yaml` (external in the map). `created`, `erased`
and `wasRevoked` are history.

Actions: `Push` (the whole of `ApplyChangeBatch`, whose decisions are
`Verdict`, made kind by kind in rank order by `Accepted`), `DeleteArchived`-
and `StopHostingCloudNotebook`, `RegisterDevice`, `RevokeDevice`,
`DeleteRevokedDevices`, and a pull as `PullBound`, `PullCutoff`, `PullDelta`,
`PullPurges`, `PullAcknowledge`, `PullApply`, any of which may be the last
(`PullLost`, also a crash or a restart of the server: a pull has no state on it).

Abstracted: the row limit and the byte limit of a page are one `PageLimit`; a
row's columns are the five a decision reads; a change the engine refuses while
decoding it is a batch without that change; a batch is a function of ids, so it
names an id once. A batch refused as a whole (`Aborts`) changes nothing.

### PushTransaction, AppliedOnce

State: `rows` (a version per notebook), `purges` (the sequence of each purge),
`changeSeq`, `stored` (`applied_batches`) and `devices` (whether a row is there
and revoked, and its `last_pulled_seq`) are the database, for several accounts;
`locks` are the advisory locks, by key, and `LockKeyOf` need not be injective,
as `accountLockKey` is a 32-bit hash; `request` is a push in flight, by the step
it has reached; `clock` is the database's. `log` (the pushes that committed),
`removed` (devices whose row was deleted), `revoked` (how often each was
revoked) and `informed` (which purges a device has acknowledged) are history,
read by the properties and by the bounds `MaxLog` and `MaxRevoked` only.

Actions: `BeginAccountWrite` (a client sends a batch, for the first time or
again, while other tries of it may be under way), `LockAccount`, `Replay` or
`Decide`, `WriteChanges`, `RecordAppliedBatchResponse`, `Commit` (heard of or
reported failed, with or without the prune of answers one push in 32 makes),
`Fail` at any step before it, `AnswerPush`. Beside them go the operator's two
writers, of which `DeleteArchivedNotebook` first prunes the purges that every
active device has acknowledged (`Pruned`, which is `PrunePurges`) and then
records its own; the revocation, removal and new sign-in of a device
(`RevokeDevice`, `DeleteRevokedDevice`, `RegisterDevice`); and the one write of
a pull (`RecordAcknowledgedSeq`), whose cursor may be any up to the account's
sequence: what a client has to have applied to present it is AccountSync's.
Requests authenticated before a revocation run on after it. `now()` in PostgreSQL is the start of the
transaction, so a request keeps the `now` it began with, however long it waits
for the lock; the lookup, the record and the prune all use it.

An entity is a notebook and a row is its version: parents, flags and contents
are AccountSync's, where a push is one step. `AppliedOnce` is what justifies
that step: `Implements` maps `stored` to `memory` and the requests that are
answering to `given`, the ids with a purge to `purged`, everything else to
itself, and leaves locks, requests and devices invisible. In `AppliedOnce` an
erasure may forget any purges but its own, for which ones are due depends on
devices; a push is judged by those that are left.

### BlobStore

Each database transaction and each file operation of an upload and a sweep is
an action; so are the two halves of a push (`OpenPush`, the checks;
`CommitPush`). `StopUpload` and `StopSweep` end a request or a pass at any
point, which covers errors, lost clients and crashes, and release the session's
lock. `inDoubt` holds inserts whose commit was reported failed and is not
settled: with `LateCommits` they may still take effect (`Settle`). The deferred
foreign key from `page_blob_refs` to `blobs` is in `ReferenceFails` and
`Deletable`. One action (`SweepPass`) is the sweep's first transaction: its
statements take separate snapshots, but what commits between two of them could
as well have committed before or after all of them.

Durability: `volatile` holds the digests whose directory entry changed since it
was last flushed. `Publish` renames bytes that were flushed while staged,
`SyncDirectory` flushes the leaf directory, a removal flushes nothing.
`PowerLoss` stops every server, and of the entries in `volatile` any may have
reached the disk; the database is durable. `CutPublishes` says whether a
request may end between the rename and the flush (the flush fails, the server is
killed), which matters: see section 6.

A mark's age is `marked` or `expired`; sizes are one blob; digests are
verified by the code before `Publish`, so the model's bytes are always right.

### ChangeFeed

A handler's commit and its call to the broker are two actions: what it still has
to call is in `handler`. A stream goes through the phases of
`handleWatchChanges`: opened (authenticated), subscribed, revalidated, a page
read, a page sent, more pages or waiting, woken. Its channel holds one event. A
page is the sequence it ends at; what is in it is AccountSync's subject.
`UnreportedCommits` says whether a commit that took effect may be reported
failed, as when a request's context ends while its commit is under way; then
nobody is told of it (`CallsNobody`), and the history variables `unheardWrites`
and `unheardEnds` remember what the properties cannot ask of the streams.

### AdminAccess

State: `accounts` (a hash, that is a password and the cost it was hashed with),
`sessions`, the server process's `cost` and `slots`, the `setupLock`, and `job`,
the requests and commands in flight by the step they have reached. `set` (what
the operator or the setup set last, and how often) and `interrupted` are
history.

Actions: the three entrances to the first account (`handleSetup`,
`handleCreateAccount`, `runCreateAccount`) up to `CommitSetup`; the two sign-ins
(`handleLogin`, `handleRegisterDevice`) through `Verify`, `Rehash` and `Admit`;
`BeginReset`, `StoreReset` and `CloseSessions` of set-password; `Derive` and
`Derived` around every password derivation of the server; `Logout`,
`ExpireSession`; `Fail` and `Restart`, which may bring a release that hashes at
a higher cost.

### Where they meet

`AccountSync` and `PushTransaction` meet in the push, which is one step in the
first and is shown to be one by the second. `AccountSync` and `ChangeFeed` meet
in `PullChanges`: a stream's pages are the pages of `AccountSync`, which may
end anywhere from just above the cursor to the account's sequence, and that is
all `ReadPage` says of them. `AccountSync` and `BlobStore` meet in a push:
`OpenPush` has the conditions of `Verdict` that blobs depend on, and erasure
cascades in both.

## 3. Runs

Passing runs (state counts are distinct states):

| run | instance | properties |
|---|---|---|
| `AccountTree` | notebooks n1 and n2, a section and its page that are created, moved, edited, deleted, erased and pushed again; a pushing and a pulling device, limit 2, 4 sequences; 1.24 M | `TypeOK`, `RetiredIdsNotStored`, `NoOrphan`, `DeliveredUpTo`, `SequenceAtomic`, `PageWithinLimit`, `HasMoreAdvances`, `PurgesReachHolders` |
| `AccountLive` | a notebook with all its flags and a section, limit 1 (a push is larger), 3 sequences; 61 k | `EventuallyCaughtUp`, `ShelfKeepsOnlyCopy` |
| `PushTransaction` | 2 accounts with one lock key, 2 notebooks, 2 requests, 3 batches (one writes both notebooks, one names a notebook twice), 1 revocation, window 1, clock 2; 1.63 M | `TypeOK`, `NoConcurrentWrite`, `OncePerWindow`, `WritesOnce`, `AnswersAreTrue`, `Implements` |
| `BlobClaims` | 2 accounts, 1 digest, 2 uploads, 2 sweepers, losses of power; 165 k | `RowHasFile` |
| `BlobPages` | 1 page, 2 bodies, 1 digest, 1 upload, 1 sweeper, late commits, cut publications; 120 k | `TypeOK`, `PagesKeepPictures`, `ChargedForHeld`, `EventuallySwept` |
| `FeedStreams` | 1 device with 2 tokens and the operator, 1 stream, 2 handlers, 2 writes, unreported commits; 545 k | `TypeOK`, `NoLostWakeup`, `StreamsEndWithTheirToken`, `EventuallyStreamed`, `StaleStreamsEnd` |
| `AdminAccess` | 2 account ids, 2 passwords, 1 session, 2 jobs, 1 slot, 1 rise of the cost, 1 reset; 347 k | `TypeOK`, `OneAccount`, `ResetClosesSessions`, `ResetSticks`, `RequestsEnd` |

Why the bounds are enough: a missed row needs one write between two queries of
one pull and a second pull to miss it in; a lost purge an erasure, a second one
to prune, and one device that has not heard: four sequences hold both. A batch
applied twice needs two tries of it, of which one may wait for the lock while
the other commits, and a clock that passes the window between them; one more
account with the same lock key is every stranger there can be. For the retry
to find its purge pruned two notebooks have to be erased, three sequences with
the push, and the device has to be revoked, or to present the cursor of the
first erasure (`Cursors`), in between; `SentUntil` bounds the time up to which
each batch is sent, one batch to after its answer can be pruned, and
`MaxRevoked` revokes one device once. A file is
lost between two holders of one digest (other digests do not interact: nothing
but the lock key is shared, and sharing a key only makes them wait), so two
uploads and two sweepers are all the roles there are. A stream is one reader of
one channel; streams do not see each other, so two handlers and two writes
give every overlap of announce, wake and read, and two tokens a sign-in that
meets a revocation; the operator is the other writer. Two jobs are any two
requests or commands that race for the account, its hash or the one slot.
Devices, streams, handlers, requests, uploads and sweepers are interchangeable,
hence the symmetry sets; the runs with liveness use none.

Runs that show where a document and the code part (each checks one property,
which quotes the document, and TLC finds it violated; the finding in
`PROJECT.json` has the lines):

| run | what the document says | what happens |
|---|---|---|
| `RetiredId` | an erased id is retired for ever | a revoked device does not keep the purge, signs in again and pushes the id |
| `BlobAttachment` | nothing pointed at is swept | an attachment pushed between mark and deletion loses its bytes |
| `BlobRestoredPage` | no live document names pruned pictures | a page is brought back after its references were pruned |
| `FeedRevoked` | a new token is not told it is revoked | the revocation's broker call comes after the new sign-in |
| `AdminReset` | set-password replaces the password | a sign-in under way stores its rehash of the old one over it |

Others were met while modelling and are hazards with a note, or built into a
property, rather than runs: an empty page with `hasMore` true (a row moves
between cutoff and delta); a section that leaves a notebook between the rows
and the purges of one page; a section whose move under an erased notebook a
device never heard of; a second body of a page, which fails the whole batch
(`Aborts`); an upload found present that keeps an old mark; a row without its
file after a commit reported failed (`LateCommits`), or after a publication cut
off before its flush (`CutPublishes`); old sessions left open by a reset that
stops between its statements (`interrupted`), or opened after it by a sign-in
under way; a write nobody is woken for
after such a commit (`unheardWrites`).

## 4. Fairness

* `AccountLive`: the client retries a pull for ever, and no single query fails
  every time it is tried (strong fairness, as a lost request disables it). A
  request whose client is gone ends. Nobody has to write. The property assumes
  that the device stays signed in and does not start over again and again.
* `BlobPages`: `Sweeper.loop` ticks for ever and a grace period ends. A session
  holding a digest's lock moves on or ends, as its statements and file
  operations do. `pg_advisory_lock` queues its waiters, so a lock free again and
  again is granted (strong fairness of `LockSwept`), and a deletion does not
  fail, nor a server stop, at every try. The property assumes that pushes to
  the account leave the pages alone from some point on, as each may bring a
  reference back.
* `FeedStreams`: a handler past its commit runs on to the broker call, which never
  blocks: the sends are non-blocking under a mutex. A stream's query returns and
  a write ends by its 30-second deadline. Nobody has to write, connect or leave.
  Writes are bounded, and that matters: a stream with pages to send does not
  look at its events before it has caught up, so under writes without end a
  revoked stream need not close. This is listed as a hazard.
* `AdminAccess`: a statement returns and a derivation ends (weak fairness of a
  job's steps). The slots are a Go channel and the setup lock is PostgreSQL's,
  both first come, first served, so whoever waits is served although others keep
  coming (strong fairness of `Derive` and `LockSetup`). Nobody has to come.

## 5. Proofs

`tlapm` checks every leaf; the proofs use only the constants' named assumptions
(`SyncAssumption`, `BatchAssumption`, `TransactionAssumption`, `BlobAssumption`,
`FeedAssumption`, `AccessAssumption` and those of `SyncKinds`).
Each theorem holds for every value of the constants, so for any number of
devices, entities, batches, uploads, streams and sequences.

* `AccountSyncProofs`
  * `TypeCorrect`: `TypeOK`.
  * `NoLostUpdate`: `DeliveredUpTo`. The property alone is not inductive: what
    makes it so is `DeliveryInv`, which adds that no row is above `changeSeq`
    and, per pull (`PageInv`), that every stored row between the cursor it
    started from and the sequence its page ends at is in the page as it is
    stored. A row that is written after the bound was read leaves that range,
    and so no row can appear in it.
  * `PushesArriveWhole`: `SequenceAtomic`, from the same invariant.
  * `NoOrphanEver` and `PurgedIdsStayErased`: `NoOrphan` and
    `RetiredIdsNotStored`, from `TreeInv`, which adds that a parent is of the
    kind its child needs. The cascade removes with a row everything that has it
    as a parent; a push accepts a child only with its parent.
  * `ShelfKeeps`: the action property `ShelfKeepsOnlyCopy`.
* `AccountPurgesProofs`
  * `PurgesReachEveryHolder`: `PurgesReachHolders`. Its inductive invariant
    `PurgeInv` says more of each device that was never revoked (`Told`): the
    purge of what it holds, or is being sent, of an erased notebook lies above
    every cursor it may come to acknowledge (the one it committed, the one the
    server has recorded, the one its pull presented), and above the end of its
    page unless the page has it. Pruning needs all active devices at or above
    the purge, so it stays. `PurgeInv` needs `DeliveryInv`, for a new purge lies
    above every cursor only because no cursor is above `changeSeq`; `TreeInv`,
    for the cascade of one notebook must not take another; and that ids are
    known (`IdsKnown`), for a push must not hand its device a copy of an erased
    notebook by creating it.
  * `OnlyRevokedRestore`: a step stores an erased id again only if a device that
    holds it has been revoked before. Every other device that could send the id
    is still owed its purge, by `PurgeInv`, and the purge refuses the push.
    `RetiredId` shows the case that is left.
* `AccountPagesProofs`
  * `PagesStayWithinLimit`: `PageWithinLimit`. The number of rows is fixed by one
    query and the rows are read by a later one, so `PagingInv` says of a pull
    between the two that the rows in its range *as they are now* fit the limit
    or have one sequence. A writer in between only takes rows out of the range.
    It also says that finitely many rows are stored, as every batch is finite
    (`SyncAssumption`): cardinalities mean nothing otherwise.
  * `AnswersTakeForward`: `HasMoreAdvances`, from the same invariant: the
    fallback to the first sequence makes a page that ends early end above the
    cursor.
* `PushTransactionProofs`
  * `PushTypeCorrect`: `TypeOK`, and with it the inductive invariant `IInv`:
    `LockInv` (a request past its lock holds it), `WorkInv` (what a request
    decided it would still decide, no fresh answer of its batch has appeared,
    and the answer it prepared is that of its effect) and `MemoryInv` (every
    answer stored or being given is that of a logged effect). `WorkInv` needs
    `LockInv`: only the holder of an account's key writes its rows, purges or
    answers.
  * `GuardsNeverFail`: `NoConcurrentWrite`, which `WorkInv` implies.
  * `AnswersNeverLie`: `AnswersAreTrue`, which `MemoryInv` implies.
  * `TransactionsImplement`: `Spec => Implements`. A `Commit` is `Apply`, a
    `Replay` is `Tell`, the removal of a device is `Forget`, the end of an
    answer is `Told` unless another request gives the same one; every other
    step of a push is a stutter.
  * `LateRetriesAreHarmless`: `WritesOnce`, from `DeviceInv` and `PastInv`. A
    notebook once written by a batch is past the version the batch started
    from, or its purge is above the last cursor the batch's device presented:
    then an active device keeps that purge from every prune, and only a
    revocation ends a sign-in (`DeviceInv`, which also says that no device has
    acknowledged a sequence that was not given yet, so that a new purge is
    above all of them). Either way the batch's change is not accepted again.
    The two exceptions are needed: a device that was revoked does not hold the
    purge back while it is, nor one that has acknowledged it. Once another
    erasure has pruned it, and the answer has gone with the device or with its
    window, a retry writes the notebook a second time. With either exception
    dropped from `WritesOnce`, TLC finds that in the same instance; the
    document it contradicts is that of the run `RetiredId`.
  * `OnceInAWindow`: `OncePerWindow`, from `KeptInv`: an effect is remembered
    for its window unless its device was removed.
* `BlobStoreProofs`
  * `BlobTypeCorrect`: `TypeOK`.
  * `RowsKeepTheirBytes`: `RowHasFile` where `LateCommits` and `CutPublishes`
    are FALSE. `BlobInv` strengthens it: a process in a locked phase holds its
    digest's lock; an upload about to record has its file; a process about to
    remove a file has the lock of a digest nobody holds; and, where
    `CutPublishes` is FALSE, a claimed digest's file is there and flushed, so is
    that of an upload about to record, and what is unflushed and there is being
    published by one upload. Both hypotheses are needed: an insert settled late
    may follow the removal of its file, and a renamed entry nobody flushed is
    taken for durable by the next upload.
  * `BytesGoWithPowerOnly`: where `LateCommits` is FALSE but publications may be
    cut off, no step but a loss of power makes a claimed digest lose its file or
    claims one without a file. From the same `BlobInv`, whose first part does
    not depend on the flush.
* `BlobRowsProofs`, for any `LateCommits` and `CutPublishes`
  * `HoldersAreCharged`: `ChargedForHeld`, from `ChargeInv`, which adds that an
    account holds finitely many digests. A step keeps the rows, adds one and
    charges it or drops one and refunds it (`RowsStep`), whenever its commit
    takes effect.
  * `PicturesAreKept`: `PagesKeepPictures`, from `PictureInv`: what a page refers
    to is held (the foreign key), a body and its page are of one account, and
    the document of an intact page names only what the page refers to. The
    checks of a push are of no use here, as anything may be swept before it
    commits: what keeps the picture is that its references are written in the
    transaction of its document, that the foreign key otherwise refuses the
    commit, and that no row is deleted that a page refers to.
* `ChangeFeedProofs`
  * `FeedTypeCorrect`: `TypeOK`.
  * `WakeupsNeverLost`: `NoLostWakeup`. `WakeInv` adds that a call in flight
    stands for a write of its device and that the last page being sent covers
    what the stream will have to show when it waits.
  * `StreamsNeverOutliveTokens`: `StreamsEndWithTheirToken`; with the types and
    that an open stream is a device's, the property is inductive.

* `AdminAccessProofs`
  * `AccessTypeCorrect`: `TypeOK`. That `slots` never exceeds its limit nor goes
    below zero needs `SlotsTaken`, that it counts the jobs that derive, and
    `JobsOK`, which ties a job's phase to what it knows (an account admitted
    exists; the one holding the setup lock is the one about to insert, and finds
    the table empty).
  * `FirstAccountOnly`: `OneAccount`, from the same invariant.
  * `ResetIsFinal`: `ResetSticks`: while the cost is what it always was no
    sign-in stores a hash.
  * `SessionsEndWithReset`: `ResetClosesSessions`.

Every safety property of a passing run is proved. Only model-checked are the
five liveness properties, `EventuallyCaughtUp`, `EventuallySwept`,
`EventuallyStreamed`, `StaleStreamsEnd` and `RequestsEnd`, which are out of the
prover's reach, as are ENABLED and induction over data. `HasMoreAdvances` is the
part of `EventuallyCaughtUp` that is a safety property.

## 6. What is not modelled

* The filters of a first synchronisation. `scope=tree` is a scan: its cursor is
  neither stored by the client nor acknowledged by the server, so it takes no
  part in the delivery of rows. `skipNotebook` leaves rows out that the client
  undertakes to fetch otherwise; a page that leaves a named notebook after its
  body was skipped is a hazard with a note.
* The connection pool. An upload or a deletion holds one connection and asks for
  another, so as many of them as there are connections wait for each other until
  a client gives up; listed as a hazard.
* `CutPublishes` in the run and the theorem about `RowHasFile`: where a
  publication is cut off between its rename and its flush, the next upload of
  the digest finds the file, flushes nothing and records a row that a loss of
  power can leave without its bytes. With `CutPublishes = TRUE` TLC shows it;
  that only a loss of power does it is `BytesGoWithPowerOnly`.
  The directories made for a new prefix are not flushed by the code either.
* A restored backup (clients ahead of the server, stale acknowledgements) and an
  operator who edits the database or the blob directory by hand.
* Downloads, listings, last-seen times, names, logs, compression, JSON, pages and
  forms, set-email: they change nothing the properties are about.
* Contents: `Validate`, unknown fields carried through (`collectExtraFields`),
  ink, documents. They are data no decision of the protocol reads.
* Tokens and addresses as strings; a token is the current one or not.
* Several server processes on one database, but for the sweepers and the
  operator's commands: the broker is in memory, so streams are only woken by
  their own process. `ChangeFeed` is of one process, as the broker's comment
  says.

## 7. Plan

Done: the modules of section 2. What is left, in this order:

1. `FirstSync`: `scope=tree` and `skipNotebook`, composed with the pulls of
   `AccountSync`.
2. `DeltaCutoff`: the limit on rows and bytes as functions over sequences of
   rows, against a reference definition; and that `AccountSync`'s `CutoffOf` is
   what it computes.
3. `ConnectionPool`: uploads, deletions and pushes over a bounded pool.
