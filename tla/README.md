# Filebeam: verification project

TLA+ models of Filebeam, the TLC runs that check them on small instances, and
TLAPS proofs of the results that matter most. `PROJECT.json` maps every
definition to the source lines it stands for and lists components, runs,
hazards, findings and theorems.

## The system

Filebeam moves end-to-end encrypted transfers. A client encrypts files into
chunks and sends the ciphertext to a Laravel backend, or to the receiver over
WebRTC. The server never sees plaintext; what it must get right is where
ciphertext is, when it may be acknowledged and when it may be deleted. The
native clients (desktop, CLI, mobile over bindings) share one core written in
Rust, which keeps durable jobs that survive crashes; what it must get right is
that nothing recorded is lost, nothing sealed twice, and nothing of the user's
replaced.

| Part | State | Operations | Interacts with |
|---|---|---|---|
| Chunk publication (`TransferChunkController`, `ChunkReader`) | chunk, location and attempt rows; objects in filestores | direct PUT, staged publication, read | life cycle, reaper, filestores |
| Transfer life cycle (`TransferController`, `RemoveTransfer`, staff actions) | `transfers`, `transfer_items` | store, complete, consume, destroy, takedown, retry clean-up | queue, pruning, publication |
| Deletion and pruning (`DeleteTransfer`, `PruneTransfers`) | the queue, claims on attempts | delete objects and rows, expire, reap | filestores, staging |
| Staged upload (`TransferChunkStageController`, `ChunkStaging`) | stage rows, files, advisory locks | begin, show, part, complete, destroy, prune, sweep | publication, deletion job |
| Download sessions (`DownloadSessionController`) | sessions in the cache | create, report, list | native download |
| WebRTC signalling (`WebRtcTransferController`) | sessions in the cache, a claim in the database | publish, register, offer, answer, update, end | live shares |
| Native scheduler (`scheduler.rs`, `control.rs`) | worker and memory counters, resume ids, pool | admit, drop, reserve, cancel, reconfigure | every native job |
| Native upload (`protocol/upload.rs`, `uploads.rs`, `source.rs`) | job record, artifacts, sidecars | select, prepare, upload, resume, reconcile, finalize | checkpoint, server, scheduler |
| Native download (`protocol/download.rs`) | job record, ciphertext, scratch files, targets | start, resume, download, publish, export | checkpoint, server |
| Live shares (`webrtc.rs`, `rtc_upload.rs`) | peers, channels, epochs | serve, receive | signalling |
| Encryption format (`crates/encryption`, `transfer/manifest.rs`) | none | seal, open, derive, wrap | every transfer |
| Checkpoint store (`checkpoint.rs`) | catalog key, locks, sealed records | create, open, save, persist, discard | native jobs |
| Inbox receiver (`inbox_receiver.rs`, `inbox_staging.rs`) | saved sweep state, staged ciphertext | sweep, stage, export, dismiss | account, download |
| Background execution (`client-ffi/background.rs`, `protocol/background.rs`) | the requests the OS holds | prepare, complete, finalize | upload, download |
| Pace and progress (`transfer/lib.rs`, `SendProgress`, `TransferView`) | slots, samples, snapshots | admit, sample, probe, show | upload, views |
| Application layer (`client-core`) | job rows, prompts, notes, session, keys | start, pause, resume, answer, sign in, create and read notes | all front ends |
| Client updater, configuration | `state.json`, executables; `config.toml` | stage, activate, roll back; load, migrate, merge, save | every launch |
| Desktop, CLI | worker queue, snapshot, drafts, windows; terminal state | commands and keys | application layer |
| Server updater, filestore registry, browser client, bindings, staff screens | - | - | not modelled, see below |

What is hard is seldom a single handler but what happens between its steps. A
chunk upload is two transactions with a provider write of minutes between them;
a staged upload keeps its truth in a row, a file and a lock that change one
after the other; a native job is a record, a directory of artifacts and a server
that learns things before the record does; a cache lock is a lease that a slow
request outlives; the desktop decides in one thread on what another has changed.
Every process may be killed at every step, requests may arrive late or without
an answer, dispatches are lost, and filestores refuse or tear a write. The
`hazards` of `PROJECT.json` list these places line by line with the properties
that watch them.

## Modules

| Module | Models |
|---|---|
| `TransferStore` | one HTTP transfer on the server, from creation to the last reclaimed object |
| `CiphertextStore` | abstract: a write-once store that is opened, written, sealed, closed, erased |
| `ChunkStage` | the staged upload of one chunk position |
| `Signalling` | the WebRTC session endpoints: row, cached sessions, cache lock |
| `TurboSessions` | download sessions and the client that reports to them |
| `Scheduler` | admission of native jobs and the shared memory pool |
| `UploadJob` | a native upload: record, artifacts, workers, background executor, server |
| `StageClient` | the client of `ChunkStage`: `StageSession` and its loop |
| `UploadSelection` | from selected paths to the items and names of an upload |
| `Sealing` | keys, nonces, associated data and envelopes, over untrusted storage |
| `DownloadStart` | from a link, a delivery or a record to a running download |
| `DownloadJob` | a native download: record, ciphertext, plaintext, published files |
| `LiveShare` | sender, signalling and receiver of a live share |
| `Checkpoint` | the job directory with its key, lock, record and artifact |
| `InboxReceiver` | sweeps, the bounded cache, staging and export of deliveries |
| `BackgroundHost` | requests the operating system executes |
| `ProgressView`, `TransferPace` | progress up to the screen; requests in flight |
| `TransferFlow` | the two side by side, with the assumptions and the property that run and proof share |
| `ClientRuntime` | the registry of jobs and its workers |
| `Notes` | a note from creation to removal |
| `ServiceSession`, `ReceivingKey` | the account session; custody of receiving keys |
| `Updater`, `ClientConfig` | the client updater; the shared configuration file |
| `DesktopAccount`, `DesktopReceive`, `DesktopSend` | the desktop worker's three jobs |
| `DesktopIngress`, `DesktopWindow` | single instance and inputs; window, queue, notifications |
| `TuiState`, `InlineCommand` | the full-screen and the line-mode terminal client |
| `NativeDisk` | `StageClient`, `DownloadStart`, `Checkpoint`, `DownloadJob`, `BackgroundHost`, `InboxReceiver`, `LiveShare`, `Sealing` and `TurboSessions` side by side, with the assumptions and properties their proofs and runs share |
| `Applications` | the same for `ClientRuntime`, `ServiceSession`, `ReceivingKey`, `Notes`, `Updater`, `ClientConfig` and the five desktop modules |
| `MCTransferStore` | TLC instances of `TransferStore` |
| `MCUpload` | the upload job, and the selection, progress and pace that belong to it |
| `MCServer` | staged uploads, distributed publication, the two terminal clients |
| `MCNative` | the components of `NativeDisk`, and `Signalling` |
| `MCApplications` | the components of `Applications` |
| `Scheduler.cfg`, `ChunkStage_*.cfg`, `UploadJob_finalization.cfg` | TLC instances of the modules themselves |
| `TransferStoreProofs` | theorems: types, ownership of objects, refinement of `CiphertextStore`, acknowledgement, completion, placement, removal, reclaiming |
| `ChunkStageProofs`, `SignallingProofs`, `UploadProofs` | theorems about the module of that name |
| `SchedulerProofs` | theorems about `Scheduler` and `TransferFlow` |
| `NativeProofs`, `ApplicationsProofs` | theorems about the components of `NativeDisk` and of `Applications` |

Definitions whose comment starts with "Faulty variant" are not part of any
specification; they state a plausible mistake in the definition that follows, and
`PROJECT.json` ("mutants") names the property that detects it.

`MCServer`, `MCUpload`, `MCNative` and `MCApplications` are sums. Their variable
`part` is chosen in the initial state and never changes; it names the component
that the behaviour belongs to. Components that theorems are about keep their own
variables (`MCServer` extends `ChunkStage`, `MCUpload` extends `UploadJob` and `TransferFlow`,
`MCNative` extends `NativeDisk` and `Signalling`, `MCApplications` extends
`Applications`), so that the run checks the very definition that is proved; they
stay in their first state while the behaviour is one of another component. In
`MCServer` and `MCUpload`, the variables `v1`, `v2`, ... are those of whichever
other component `part` names (`INSTANCE ... WITH`), and a property of such a part
says nothing of the others (`part = "x" => ...`). The state space is the disjoint
union of the state spaces, and no component constrains another. Each property is
the conjunction of one component's type invariant with the invariants and action
properties named in its definition.

### How components are tied together

The components of one process and the two ends of one protocol are composed
where their interleaving matters: `UploadJob`, `StageClient`, `LiveShare`,
`TurboSessions`, `Notes`, `ReceivingKey` and `InboxReceiver` hold the client, its
disk and the server as the client meets it. Where a component is a module of its
own elsewhere it is one step here: publication is a step of `ChunkStage` and of
`UploadJob` and `TransferStore` in detail; a handler of stages is a step of
`StageClient` and `ChunkStage` in detail; a save is a step of the jobs and
`Checkpoint` in detail, whose `SaveAtomic` is what justifies the step; sealing is
the name of a plaintext in `UploadJob` and a term in `Sealing`. `TransferStore`
is shown to implement `CiphertextStore`.

### TransferStore

The variables are the tables (`status`, `expired`, `manifest` for `transfers`;
`chunk`; `counted` for the items' byte counter; `location`; `row` for the upload
attempts), the filestores (`object`, by storage path, which is named after the
attempt's ULID), and the memory of the processes: `req` for the requests inside
`publish()`, `reaper` for pruning passes, `jobs` and `worker` for the queue.

A database transaction is one step: the handlers lock the rows they decide on
(`lockForUpdate`; SQLite transactions are IMMEDIATE). A filestore call is a step
of its own. `Reserve` is the first transaction of `publish()`, `Put`/`PutFails`
the provider write, `Commit` the second transaction with its five outcomes,
`CommitThrows` its catch block, `RemoveObject`/`ForgetAttempt` `removeAttempt`.
`Complete`, `Consume`, `RemoveTransfer` (delete token and takedown),
`RetryCleanup` and `PruneTransfer` are single transactions followed by a
dispatch, which a crash may lose (`Dispatch`). `ClaimAttempt`, `ReapObject`,
`ReapRow` and `ReapFails` are `reapUploadAttempts`, and `LoadJob`,
`StagingRemoved`, `PurgeStore`, `Finish` and `JobFails` are the deletion job,
`removeTransfer` of the staging directory being one step here and modelled in
detail in `ChunkStage`.

Abstractions: all items of a transfer are one set of chunk positions; a
ciphertext is its own checksum; time is what has passed (`expired`, `lapsed`,
`stale`); which filestores accept placement is chosen anew at every reservation;
identifiers that nothing refers to any more may be drawn again, which keeps the
state finite and is sound because nobody can tell them from new ULIDs. A
queue of `MaxJobs` jobs saturates: more copies of the same job change nothing.

Two constants are assumptions about the surroundings. `WritesBounded` says that a
provider write ends before the attempt's lease, which is what the configured
lease (900 s per replica plus 300 s, against 120 s with two retries per S3 call)
is for. The safety properties do not need it, and the `replicate` part and the
proofs do without. `Reclaimable` and `Drained` need it: a write that ends after
the reaper removed the row leaves an object nobody knows. `LostCommitAck` lets a
COMMIT succeed and be reported as failed.

### ChunkStage

One chunk position and the rows (`row`), files (`file`) and locks (`lock`) of its
stages. Handlers are programs with a program counter (`proc`): `Load` and `Check`
are `stage()`, with `Recover`/`Recovered` for `recoverFinalizing`; then the steps
of `part` (`LockPart`, `WritePart` or `WriteTorn`, `RecordPart`), of `complete`
(`LockComplete` to `Release`, with `PublishFails`/`UndoFinalize`) and of `destroy`
(`LockDestroy`, `ForgetStage`). Eloquent's `update()` writes only columns that
differ from the loaded model, so a handler carries its snapshot (`mem`), which is
what makes the race behind `OffsetMatchesState` visible. `DirectUpload` is a
direct PUT of the same position, `TransferEnds` the rest of the life cycle,
`PruneStage` both `prune` and `removeTransfer`, `SweepOrphan` the sweep.

Publication is one step here (it is `TransferStore` in detail) that succeeds
completely or leaves at most the chunk row. `declared` records the first checksum
of every identifier: clients draw a new UUID per ciphertext (`upload.rs`), and
`Begin` relies on it.

### Scheduler

Every step is what a thread does while it holds one mutex: `Admit` and `Proceed`
take the counters, `ReserveAdmission` the pool memory, `Register` the resume id;
`DropAdmission` and `DropPermit` are the two drops at the end. `Run`,
`ReserveTransient` and `ReleaseTransient` stand for a job that needs KDF or
manifest memory once. `Reconfigure` lowers the limits, `ServiceReserve` is the
non-blocking reservation of service calls. Waits are polled every 20 ms, so that
a wait is a step whose guard is the awaited condition.

### The native transfers

`UploadJob` keeps apart what is in the process, in the record, in artifacts and
at the server; every request and every save is a step, a stop may come between
any two, and a request already sent may still arrive. A ciphertext is named
after the plaintext it seals, so that two texts under one nonce are two different
names at one position. `DownloadJob` does the same for ciphertext and plaintext
files, with power losses that keep only what was synced, and bodies that are not
what was sent. A file is published in two steps, the rename and the sync of its
directory: until the second a power loss may take the entry, and a process that
ends in between leaves it so (`dir` is "torn"), because the resumed job finds the
target and saves it as published without a sync. `PublicationDurable` exempts
exactly these files. `InboxReceiver` stores a chunk and saves the record of it in
two steps, and a direct PUT that `StageClient` gave up may still arrive at any
later moment. `Checkpoint` has the
files as processes see them (`now`) and what a power loss leaves (`kept`), with
the two rename disciplines of Unix and Windows. `LiveShare` and `Signalling` are
two views of one protocol: the first composes both clients with atomic
endpoints, the second opens the endpoints up to lock, read, transaction and
write back, with leases that are lost and caches that are evicted.
`TurboSessions` composes the reporting client with its endpoints.

`ProgressView` records a chunk as the code does, in three calls of the job's task:
`Acknowledged`, `Advance` and `Commit`. A chunk that went through a stage
is acknowledged without a byte counted. Two things are assumed of what is below:
a body that was given up reports no more once its chunk is acknowledged, and in
`TransferPace` a connection does not outlive `Retired` requests that ended later
(`Connected`).

`Sealing` treats keys and ciphertexts as terms: equal only when made alike. A
receiver is handed any object ever stored and any listing, so that `ReceivedExact`
and `KeyRequired` speak of every mix-up of transfers, items, positions, lengths
and recipients. The primitives are trusted.

### The applications

A call that looks at state, lets go of its lock and comes back is two steps
(`ClientRuntime`, `ServiceSession`); a command of the desktop's single worker is
one step that may end at any of its failing calls (`DesktopAccount`), or several
where other threads, programs or a kill can come between (`DesktopReceive`,
`ReceivingKey`, `Updater`). The configuration file is changed under a lock by one
rename, so that its operations are single steps on documents (`ClientConfig`).
`TuiState` has one action per key and layer; text is the editor it was written
in. Presentation is left out.

Some properties hold only as far as the code takes care, and say so.

* `Notes`: a host may have a management store or none (`creator.keeps`). The
  desktop and the mobile runtimes have one; the command line and its text
  interface show the link of a note over HTTP and keep nothing, and so do the
  services of `client-ffi` made without a runtime. `CapabilityKept` is about hosts
  with a store.
* `ServiceSession`: the server accepts the deletion of an account, the intent is
  dropped, and the body of the answer cannot be decoded: the host is told of an
  error and still believes that it is signed in (`told.missed`). Its next upload is
  anonymous. `NeverAnonymous` exempts it.
* `DesktopAccount`: what is shown is of a server and an account there.
  `set_account` compares only the email, so that the history shown is of an account
  of the email shown, perhaps at the server before (`SameEmail`); staged deliveries
  and the receiver are of the very account of the session.
* `DesktopSend`: contacts and recipients belong to a server, the configuration and
  the worker's client each have one, and `ReloadSettings` changes only the first.
  `start_send` compares numbers: a recipient has the number of the contact chosen,
  and is that contact if it was one of the server the transfer goes to.
* `DesktopWindow`: the first snapshot has no rows, and the first poll may come
  before the worker's first publication. A completion of an earlier process is then
  announced, and so is one that a reload restores; none is announced twice.
* `DesktopReceive`: a preparation and the download after it are two rows over one
  checkpoint, and either can be discarded with it. A preview outlives the
  checkpoint and can start nothing any more. The export is that of the files the
  download has verified; removing what a failed export placed is best effort.

## Runs

| Run | Instance | Checks | Result |
|---|---|---|---|
| `server` | stages: 2-unit chunk, 2 handlers, 2 rival ciphertexts sent whole or 1 in parts; publication of one copy on 2 filestores: 2 uploads, 2 attempts, lost commit answers, reaper, worker; the terminal and the inline command with one file or note | `DistributionExact`, `StagedIntact`, `StageConsistent`, `TerminalSafe` | hold |
| `publication` | 2 positions, 2 filestores, 2 ciphertexts, 2 uploads, 4 attempts, worker; writes may outlive leases | `AcknowledgedPublished`, `LocationBacked`, `PlacementExact`, `CompletionReadable`, `ImplementsCiphertextStore` | hold |
| `removal` | 1 position, 2 filestores, 1 upload, 2 attempts, reaper, worker, fair | `ReplicasSafe`, `Drained`, `RemovalTerminates` | hold |
| `lostcommit` | 1 filestore, 1 upload, lost commit answers | `AcknowledgedPublished` | **violated** |
| `reclaim` | 1 stage, 1-unit chunk, 2 handlers, fair | `StagingReclaimed` | holds |
| `offset` | 1 stage, 2-unit chunk, 2 handlers | `OffsetMatchesState` | **violated** |
| `scheduler` | 3 jobs, 1 service call, 1 resume id, 2 workers, fair | `AccountingExact`, `ResumeExclusive`, `AdmissionSettles`, `SlotsReturn` | hold |
| `upload` | 2 chunks, 2 workers, foreground, background and Turbo; a file system of 3 nodes, with and without a file limit of 1; 2 chunks on a bar of 3 parts; 3 requests in flight, 2 of them remembered after their end | `UploadExact`, `SelectionExact`, `PaceHonest` | hold |
| `finalization` | the upload job, without Turbo | `FinalizationResumable` | **violated** |
| `password` | the sealed transfers of `native` alone: 1 transfer, 2 passwords, 2 stops | `OneTransferKey` | **violated** |
| `native` | ten parts, see `MCNative` | ten properties, one for each part | hold |
| `applications` | eleven parts: 1 job row with 3 workers, 2 threads of one host, 2 keys, 1 note of 2 chunks, 2 processes that update, 1 configuration file; for the desktop 2 servers with one email at both, 3 accounts, 2 received transfers with a file name in common, 1 send, 4 processes | `JobsReachable`, `SessionHonest`, `KeysRecoverable`, `NotesKept`, `UpdateSafe`, `ConfigMerged`, `SendsAsAsked`, `AccountsApart`, `ReceivesExported`, `DesktopHostSafe` (ingress and window) | hold |

What the properties of the sums say, with the invariants behind them:

| Property | Says |
|---|---|
| `ReplicasSafe` | no clean-up, reaper or late job takes the object of an accepted copy; rows go after objects |
| `DistributionExact` | one copy of a distributed chunk, and every object is named by an attempt or a location |
| `StagedIntact` | acknowledged bytes are in the file in order; what is published is what was declared |
| `StageConsistent` | complete means published, quota is released for removed files only, finalization is undisturbed |
| `UploadExact` | one nonce seals one text; a recorded chunk can be sent again; an available transfer has the bytes of its manifest; the server learns nothing a crash makes the client forget |
| `StagedUploadExact` | the client is never ahead of the server, done means published, no stage is begun and forgotten |
| `DownloadRecordUsable` | a record has the key that opens it; a download runs with a key and password that opened its envelope |
| `DownloadExact` | verified means written, published means complete and, unless the process ended before the sync of the directory, durable; no foreign file is replaced |
| `LiveShareSafe` | a receiver has exactly the sender's chunks; one session claims a note; signalling never goes back |
| `SignallingSafe` | one claim and the capacity hold whatever leases and caches are lost; answers are kept while they are not; ended is final |
| `ReportsHonest` | what a sender sees of its receivers is true and does not go back |
| `CheckpointAtomic` | a record is the old or the new one after every crash, an artifact never changes |
| `InboxAccounted` | ciphertext on disk is accounted for and not requested again, announced means complete, dismissed stays dismissed |
| `CompletionsSafe` | completions may be delivered late and twice; the selection they belong to is frozen |
| `SelectionExact` | every selected file is sent once under a name of its own; what a resume needs is kept |
| `SealingExact` | no key seals two texts under one nonce; a receiver accepts only what was sealed for that place and for it, and all of it |
| `PaceHonest` | progress is honest and does not go back within a phase; slots fit the memory, late reads do not inflate the rate; congestion is respected |
| `JobsReachable` | a worker's question can be answered, a worker without a row is cancelled, ended means released |
| `UpdateSafe` | an executable to go back to on Unix, only verified ones are placed, no process undoes a later update |
| `ConfigMerged` | a change is read back as asked, other programs' changes are kept |
| `NotesKept` | who burns a note has its text; removed means removed; what can be read can be ended by a host that keeps capabilities |
| `KeysRecoverable` | what is sealed to a desktop key opens with a backup; a stored key is published |
| `AccountsApart` | deliveries and receiver belong to the account of the session at its server, the history to an account of the email on screen |
| `ReceivesExported` | the preview is the checkpoint's while there is one, exported means in the folder, one burn request at a time |
| `DesktopHostSafe` | one reachable owner of the window, inputs accepted once, events announced at most once |
| `SendsAsAsked` | a send follows its own server's policy, to the number of the contact chosen; a key that travels apart is not shown with the link |
| `TerminalSafe` | drafts stay apart, a job keeps the foreground, results are printed once, the terminal is given back |
| `SessionHonest` | a host that is signed in, as far as it could learn, never uploads anonymously; automatic receiving runs once and can be started again |

### Why the bounds are enough

All conflicts of `publish()` are between rows of one position; two uploads give
every order of their transactions, and four attempts let two uploads with
different ciphertexts reserve all their copies before either commits; two
positions matter only to completion. The reaper meets two racing uploads in
`server` and a replicated one in `removal`; both at once are covered by the proofs.
A chunk of two units has a first, a last and an overlapping part;
`MCServer` leaves out the steps after which half a chunk is on its way and another
ciphertext is about as well, which only multiply the states. Two handlers and the pruning are three
actors on one stage lock. With three jobs and two workers a job waits while
another holds a slot without memory, and the pool of three units has no room for
two jobs, their transient memory and a service call together. Two chunks make a
first and a last one and let two workers be in different states; a crash needs
no second job. Two sessions on a limit of one race for the last place and for a
burn-on-read claim; two reports of one download overtake each other. Two
transfers in `Sealing` share an item identifier, and names that only portability
makes equal; storage may answer each with the other's objects. Two processes, or
two threads, meet in every lock of the client. Bounds on counters (`MaxStops`,
`MaxEvents`, `MaxEpoch`, `MaxSeq`, `MaxGeneration`, `MaxKey`, `MaxCommands`,
`MaxMessages`, `MaxResets`, ...) are constants in the guards of the actions that
count; each is at least the number of faults a counterexample of the mutants
needs. Model values that only name things are symmetric where every instance of
the run treats them alike (the handlers and the ciphertexts of `server`). In
`native` and `upload` they are numbers instead, and the next idle request, unknown
session or unseen envelope is the smallest one (`InOrder`): they are alike, so
that nothing is lost but copies. `OneExchange` lets only the first of the two
signalling sessions exchange descriptions, with every request about the other
one beside it. In `applications` only the first of the two servers that sends may
go to changes (`SecondServerStays`; the two are alike), and a note is opened while
no file is received (`NoteOrFiles`; they share no state). Deadlock checking is off because every instance ends:
the transfer is gone, the jobs are done or a bound is reached.

What an instance does not reach is left to the theorems, or to nobody: a slow
provider write against the reaper of a replicated chunk, a second staged version
of an update, and a third value of a record are covered only by
`ReplicasStaySafe`, `UpdatesAlwaysSafe` and `CheckpointStaysAtomic`; that limits are
lowered below a waiting request (all requests of the `scheduler` run are of one
size) and that a second job is started over the first in the terminal
(`TuiState` with one job) are met by no run.

### What the violated runs show

`lostcommit`: the second transaction of `publish()` commits, the connection
breaks before PHP learns of it, and the catch block
(`TransferChunkController.php:180`) deletes the object that the committed location
names. The retry of a distributed chunk finds the location and answers 201;
`complete()` counts the copy; no reader can be served. `docs/adaptive-transfers.md:23`
promises that acknowledged bytes are durably accepted.

`offset`: while `part()` holds the stage lock, a direct PUT publishes the chunk
and a status request completes the stage without the lock
(`TransferChunkStageController.php:273`); `part()` then writes its own offset
(line 154). The stage is complete with an offset inside the chunk, a status that
`StageSession::validate_status` (`crates/transfer/src/lib.rs:748`) refuses. It
repairs itself when the chunk is found by another path; no data is lost.

`finalization`: the manifest is saved, the completion request is executed, and
the process stops before it saves the answer. `reconcile()` (`upload.rs:1625`)
requires a pending transfer, so that every later resume fails although the
transfer is available, and the receipt with the link is never produced.

`password`: `unlock_job()` (`upload.rs:1300`) asks a resumed job for its password
and compares the answer with nothing. Another password seals the remaining chunks
under another key; resumed with the first one again the job publishes a manifest
whose files cannot all be opened.

### Fairness

`RemovalFairness`: cron runs `filebeam:prune-transfers` every 15 minutes and a
queue worker every minute (`routes/console.php`), so pruning and job steps happen
again and again; strong fairness says that not every single dispatch is lost and
not every single filestore call fails, and that a worker is not killed at the
same step for ever. `ReapingFairness` adds that requests end (they succeed, fail
or die: weak fairness of the whole request) and that leases and claims run out.
`ChunkStage!Fairness` is the same for handlers, stage leases and pruning passes:
one of them finds the lock free and survives the step between file and row. In
`Scheduler`, threads are scheduled, jobs end and service calls return; nothing is
assumed of cancellation. `SlotsReturn` depends on one more thing, which the
instance takes from the applications (`desktop/src/client.rs:1811`,
`client-ffi/src/client.rs:36`, the test `supported_default_budgets_admit_every_worker`):
the pool is as large as one budget per worker plus the transient allowance.
Without that headroom the admitted jobs can fill the pool and then wait for each
other's transient memory until one is cancelled. The other specifications state
no fairness: a user, an operating system or a peer owes them nothing, and their
properties are safety properties.

## Proofs

TLAPS proves, for every value of the constants that satisfies the named
assumptions:

* `TypeCorrect`: `Spec => []TypeOK` for `TransferStore`.
* `LocationsStayBacked`: `Spec => []LocationBacked` if `~LostCommitAck`. That
  assumption is necessary; `lostcommit` is the counterexample. `LocationBacked` is
  not inductive: it says nothing of who else may delete or overwrite an object.
  The invariant `OwnershipInv` does: the paths of two requests, of a request and a
  location, of an attempt row and a location, and of a claimed attempt and a
  location are different (`TodoApart`, `RowsApart`, `ReapedApart`); a request that
  is about to commit has written its object unless its row is gone or its lease
  is over (`WrittenBeforeCommit`); deletion jobs work on the paths of a transfer
  only after its removal (`JobsAfterRemoval`); every location belongs to a chunk
  (`LocatedChunks`). The proof has one lemma per group of actions, with
  `OwnershipAccept` (an attempt becomes a location) and `OwnershipReserve` (new
  paths) as the interesting ones. `Ownership` states the invariant itself.
* `Refinement`: `Spec => ImplementsCiphertextStore`, without that assumption: an
  accepted copy writes its chunk or stutters, `Complete` seals, every removal
  closes, `Finish` erases.

`SchedulerProofs`, with `LimitsAssumption` (a job asks for at least the runtime's
memory, and there are finitely many jobs and service calls):

* `ResumesExclusive`, with the invariant that `active_resumes` is the set of ids of
  registered jobs.
* `AccountingStaysExact`: the counters of `State` and of the pool are the number of
  jobs that hold a slot and the sums of what jobs and service calls hold. The sums
  are recursive functions over finite sets; that one changes with one of its terms
  and with nothing else is shown by looking at a smallest set that would refute it
  (the cardinality is the measure), since an induction principle cannot be cited.
* `LimitsAlwaysKept`: neither counter exceeds what `Scheduler::new` was given, also
  after a limit was lowered below what is in use. It is not checked by a run of its
  own.
* `PaceStaysHonest`, with `FlowAssumption` (sizes and limits are numbers, a slot takes
  memory). `ProgressInv` relates what each chunk has been counted for to its body and
  to what is recorded; that the sums fit the total is a sum over chunks that changes
  in one term. `PaceInv` says which requests may still be read and which of them are
  remembered, and that the window counts no more than what was read.

The second half of `TransferStoreProofs` builds on `OwnershipInv`. It assumes that there are
finitely many positions (`PlacementAssumption`) and that a missing row is no row
(`RowAssumption`).

* `AcknowledgementsTrue` and `CompletionsReadable`, both if `~LostCommitAck`.
  `PublicationInv` adds to ownership and placement what each request may promise at
  each step about the copies it has stored or skipped (`Promises`), and that an
  available transfer has all its copies (`AvailableComplete`). The byte counter needs
  `Counted`, an equation of cardinalities that an accepted copy either leaves alone or
  raises on both sides.
* `PlacementStaysExact`, without hypotheses: the first attempt row of a chunk fixes
  the destination of every later one, and a location is accepted once.
* `RowsGoLast`, without hypotheses, and `ReplicasStaySafe`, if `~LostCommitAck`.
  `RemovalInv` says that requests work on different paths and no longer write one that
  a location names (`WritersApart`), and that a deletion job keeps track of what is
  still to be removed (`JobsKeepTrack`).
* `DistributionStaysExact`, for `Mode = "distribute"` and `WritesBounded` (provider
  writes end before the lease does; with unbounded ones an object can appear after
  its row was reaped). `ReclaimInv` adds that whoever may still write holds the lease
  of its attempt (`LeaseHeld`), that claimed attempts have lapsed (`ClaimsLapsed`), and
  that the row of an attempt goes after its object (`ForgottenRemoved`).

`ChunkStageProofs`, with `MissingAssumption` (a missing row or file is none):

* `StagedStaysIntact` and `StageStaysConsistent`, for any chunk size, number of
  handlers and rival ciphertexts. `StageInv` relates each handler to the row it
  read and to the lock it holds (`HandlerSound`) and each row to its file
  (`StageSound`); `Gentle` says what may happen to a stage behind the back of the
  holder of its lock: it is found published, released or expired. `FinalizingKept` is
  the lemma of the action property.

`SignallingProofs`, with `SignallingAssumption` (finitely many sessions, a missing
entry is none):

* `SignallingStaysSafe`. `SignallingInv` separates what rests on the database row
  and on every copy of the session list (`RevokedEnded`, `ClaimsKept`, `RoomKept`),
  which holds whatever leases and cache entries are lost, from what rests on the cache
  lock (`Exclusive`, `AnswersKept`), which holds as long as none was.

`UploadProofs`, with `UploadAssumption` and `NoneAssumption`:

* `UploadStaysExact`, for any number of chunks, workers and retries. Its invariant
  `UploadInv` has five parts: `Filed` (types); `OneText`, that everything ever
  sealed, spooled, recorded, sent or stored is of the one version of the file that
  was fingerprinted; `Sound`, that a process's copy of the record is the one on disk
  but for two fields, and what its workers may rely on; `Kept`, that a recorded chunk
  has its artifact until the server has it; `Served`, that nothing is sealed or sent
  before the server knows the transfer. `NonceUsedOnce` is not inductive without
  `OneText` and the last clause of `Served`, because a discarded reservation may be
  started again with another file.

`NativeProofs` is about the components of `NativeDisk`, with `NativeAssumption`:
bounds are numbers, sets which are counted are finite, sizes are natural, and
`Missing` (and `Torn`) is no other value. TLC evaluates these assumptions, as all
others, on its instances.

* `StagedUploadStaysExact`: `StagingInv` says that the identity a worker uses is the
  one in the sidecar from the first request on, and that no session believes in a
  byte the server does not have (`Backed`).
* `DownloadRecordStaysUsable`: `StartingInv` says, for a fresh, a resumed and an
  opened job, what is on disk at each step (`FreshStart`, `ResumedStart`,
  `OpenedStart`).
* `CheckpointStaysAtomic`: `SavingInv` says that both versions of the record, the
  visible and the synced one, are among the settled values, that the synced artifact
  is the visible one or none (`Durable`), and what the holder of the lock has written
  at each step (`Sound`).
* `DownloadStaysExact`: `DownloadInv` relates three copies of the truth: the saved job
  says no more than what is in the output directory (`DiskSound`), the job in memory is
  the saved one but for its state and what it has verified since (`RunSound`), and an
  entry that is neither synced nor given up is that of the process about to sync it.
* `CompletionsAlwaysSafe`: `HostInv` adds that the system was asked for nothing before
  there was a checkpoint, and that what it sent with success the server has.
* `InboxAlwaysAccounted`: `InboxInv` says of the entries of a sweep, in memory and on
  disk, that they account for the same files and dismiss no less. That the cache limit
  holds is a sum over deliveries, shown as in `SchedulerProofs`.
* `LiveShareStaysSafe`: the heart of `LiveInv` is `WireSound`: a channel carries at most
  one request and the rest of its answer, in order, so that a receiver that counts
  frames keeps the chunk it asked for. `SpoolSound`, `SeatsSound` and `ClaimSound` are
  about the sender's disk, the sessions and the claim of a burn-on-read note.
* `SealingStaysExact`: `SealInv` says that everything in the storage is the term sealed
  for a recorded place, envelope or recipient of a begun transfer (`StoreSound`), and
  that a receiver holds what opened to the place it asked for (`ReaderSound`). Nonces
  and keys are constructors; that none is used for two texts is their injectivity,
  and that a place is recorded before it is sealed. That all of a transfer was
  received is an equation of cardinalities.
* `ReportsAlwaysHonest`: `ReportInv` separates what holds whatever leases are lost (what
  is listed, in the cache or in the memory of a request, is true of the download and
  was reported by it: `ListSound`, `SentSound`) from what rests on the lock (`Serial`:
  a request writes the list it read). A download that completed is shown so because a
  download that never stopped uses each sequence once (`WatcherSound`): the only report
  that can make its last one stale is that one.

`ApplicationsProofs` is about the components of `Applications`, with
`ApplicationsAssumption`: bounds are numbers, `None` is no other value, and of the
catalogs of the updater that each has a newest version and that a later one is no
older (a publisher withdraws no release).

* `SessionAlwaysHonest`: `SessionInv` says that one call that changes the account runs at
  a time and what overlaps it (`ChangesAlone`), that a host that was told it is signed
  in, and missed no deletion, has stored its intent (`IntentStored`), and whose the slot of automatic receiving
  is (`SlotExact`).
* `JobsAlwaysReachable`: each row has a worker of its own (`RowsAgree`), a question is open
  exactly while its worker waits (`WorkersSound`), and a worker that goes on is that of a
  row or cancelled (`Attended`).
* `KeysAlwaysRecoverable`: every key the desktop published under self custody has a backup,
  used or not, and so has one it is about to publish (`PublishedBacked`,
  `OperationBacked`).
* `NotesAlwaysKept`: what creator and reader may rely on at each step (`CreatorSound`,
  `ReaderSound`): a host with a management store shows nothing before the capability is on disk, and who is about to
  burn a note keeps its verified text.
* `UpdatesAlwaysSafe`: what is installed is at most what is staged, and that at most the
  newest version of the product's rollback floor (`FloorKept`); `ProcSound` says what a
  process relies on between its renames.
* `ConfigAlwaysMerged`: the invariant is only the form of documents; the argument is in the
  lemmas about reading, migrating and merging them.
* `ReceivesAlwaysExported`: an export is of a complete receive, and what it placed is in the
  folder as long as it may fail (`ExportSound`); a preview without a checkpoint has
  neither row, because the start of the download uses the preview up and a new
  checkpoint has a new name.
* `SendsAlwaysAsAsked`: the command that waits carries the number of the contact the user
  chose (`QueueSound`), a policy that counts is a server's (`PolicySound`).
* `AccountsAlwaysApart`: the history shown is of an account of the email shown, the account
  shown is the one of the client the worker holds, at its server, and a receiver that was not told to stop is the
  one that is remembered, of that client's account (`HistorySound`, `AccountSound`,
  `ReceiverSound`). An earlier form of the last, that every receiver belongs to the
  account on screen, is false with three servers: a change of server that fails leaves
  the receiver of the old one. The property says what the code keeps.
* `HostAlwaysSafe`: lock, nonce and socket belong to the process whose step wrote them
  (`OwnersSound`), forwarding is the last step of a process (`AcceptedSound`); identifiers
  of messages are never reused within the history (`MessagesSound`), and a completed
  transfer is announced against the last poll (`CompletionSound`).

Invariants were checked by TLC on the instances of the runs before they were
proved.

Only model-checked:

* `Drained`, `RemovalTerminates`, `StagingReclaimed`, `AdmissionSettles` and `SlotsReturn`:
  liveness. The prover has no support for fairness and ENABLED.
* `SelectionExact`: what the folds over selected paths and names compute for every
  input, which is an induction over data.
* `TerminalSafe`: key by key bookkeeping of many independent flags, finite but for the
  number of jobs, where a proof would repeat what TLC enumerates.
* `DistributionExact` as the run `server` states it, of an instance over the variables of
  the sum. The theorem `DistributionStaysExact` states the same of `TransferStore`.

## Observations

Behaviours of the code that the models show and that no document or test of the
repository contradicts. None of them is a violated run.

Uploads. A crash between the saved reservation and "preparing" leaves a
"reserving" record, which `validate_job` refuses (`upload.rs:891`, `2427`).
`can_resume` omits "finalizing" and "serving". The counter of stage resets never
takes effect: a server that answers 410 for ever is asked for ever (`1950`,
`2043`). `Sealing`: the associated data of a chunk repeats what item key, nonce
prefix and index already determine.

Downloads. A failed start leaves a directory with a key and no record
(`download.rs:860`). `finalize_turbo_manifest` replaces the envelope of the job
(`2248`), so that a Turbo download that stops afterwards cannot be resumed
(`1012`). Report numbers are saved after the report (`1476`): a client that stops
in between repeats a number, the server ignores the report and still answers 204,
and a finished download may never be shown as such; an expired session fails the
download. Names that collide with each other are told apart before any of them is
placed (`896`), Turbo names only by raw equality (`882`). A process that ends between
the rename of a finished file and the sync of its directory leaves an entry that
nothing syncs: the resumed job finds the target, compares its digest and saves the
file as published (`1566`, `1593`), and a power loss may then take it.

Live shares and notes. One failed poll ends a live share (`upload.rs:1404`). A
request that lost its cache lock may overwrite an acknowledged answer; the claim
of a burn-on-read note is committed before its session is cached, so that the
failure of the second step spends the note. `open_note` drops a verified text
when the answer to the burn request is lost. The command line and its text interface
show the link of a note over HTTP without keeping the means to end it
(`cli/src/services.rs:427`, `tui/state.rs:1368`). A password file of a CLI note without
`--password` is ignored (`cli/src/main.rs:782`).

Client state. A missing catalog key is silently replaced on Unix
(`checkpoint.rs:33`). One failing delivery ends an inbox sweep. A background job
that crashed while it finalized cannot be finalized again (`background.rs:293`).
The process-wide scheduler keeps the limits it was first given
(`application.rs:219`). A crash between the updater's two renames leaves no
executable at the managed path, only its backup; on Windows a second helper
removes that backup. A configuration that `load` had to create has no baseline,
so that its first save writes every section. The CLI uploads a receiving key
before it saves it. A login over an active session does not stop the running
sweep. `delete_account` drops the account's intent on the status 202 and may then
fail on the body: the host is told of an error, and its uploads are anonymous
(`services/account.rs:366`).

Desktop and terminal. `reload_settings` adopts a new server address while the
service client, with its session cookie, remains that of the old one
(`client.rs:1288`): a login after that keeps its session record in the store of the old
one, keeps the history shown if the email is the same (`1531`), and the choice of a
contact made at one server is compared by number at another (`543`). A first poll of
the window before the worker's first publication announces what earlier processes
completed, and so does a reload that restores rows (`app.rs:650`). A discarded
preparation takes the checkpoint of its download along and leaves the preview
(`application.rs:647`). A completed receive of some of the items is restored as failed
and without an export. Files of a failed export that cannot be removed stay in the
folder (`client.rs:1940`). A receive that is resumed after a restart completes without
its private root, and its export fails. Inputs accepted by an owner that is
relaunching are lost. A shutdown is dropped when the command queue is full. That
a key travels apart is forgotten after a restart. The palette replaces a pending
service result of the terminal.

## Not modelled

* Server updater (`updater/Updater.php`), filestore registry, history and staff
  screens: the first is a sequential journal that has no part in transfers, the
  second is configuration (its answer to `placementEnabled` is a free choice at
  every reservation), the third reads; the two staff actions that change transfers
  are in `TransferStore`.
* The browser client keeps no durable state; its requests are the arbitrary
  requests of the server models.
* Bindings, mobile shells and views: glue and presentation over the client core.
* Authorization tokens and request validation (preconditions of the actions), plan
  limits, inbox envelopes and notifications, statistics; the storage providers
  beyond put, read and delete; cryptographic primitives; ICE and the media stack.
* Heartbeats and the monitor of Turbo uploads, which only read or expire.
* Places no property reaches: a stage identifier used again after its row was
  pruned (`TransferChunkStageController.php:49`; clients draw a new UUID), the
  lock sidecar that the sweep unlinks while another process is about to lock it
  (`ChunkStaging.php:191`; locks are one per identifier in `ChunkStage`), the
  default scheduler of `client-core/src/lib.rs:208` whose pool has no headroom for
  every budget, and the nested reservation of `download.rs:1654`. Both of the last
  two wait for memory while they hold some; the applications size their pools so
  that it does not happen, which is the instance of the `scheduler` run.

## What is left

The theorems cover every safety property that a run checks except the three named
above. What would be worth doing next:

1. The life cycle of an invitation (`desktop/src/client.rs:1489`),
   which no view of the desktop sends yet and `DesktopAccount` leaves out.
2. A composition of `UploadJob` with `ChunkStage` and `TransferStore` instead of the
   single steps that stand for them here.
