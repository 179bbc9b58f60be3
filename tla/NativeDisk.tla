----------------------------- MODULE NativeDisk -----------------------------
(***************************************************************************)
(* What the native client has on disk when it dies, and what it tells      *)
(* others: the identity of a staged upload (StageClient), the record of a  *)
(* download (DownloadStart) and its progress (DownloadJob), the checkpoint *)
(* store (Checkpoint), the checkpoint of a transfer that the operating     *)
(* system executes (BackgroundHost), the staged deliveries of the inbox    *)
(* (InboxReceiver), the spool of a live share with those it is served to   *)
(* (LiveShare), what is sealed and opened (Sealing) and the reports of     *)
(* downloads (TurboSessions), side by side, each over variables of its     *)
(* own.  The runs check and the proofs show the properties stated here.    *)
(***************************************************************************)
EXTENDS Integers, FiniteSets, Sequences

CONSTANTS
  Size, MaxPart, MaxRetries, MaxResets, Ids,    \* StageClient
  Key, TheKey, Transfers, Stores, MaxAttempts,  \* DownloadStart
  Process, Value, MaxKey, Windows, Torn,        \* Checkpoint
  Chunks, Slots, Background, Turbo,             \* DownloadJob
  Work,                                         \* BackgroundHost: its items
  Delivery, Bytes, CacheLimit, Last,            \* InboxReceiver
  Sid, Piece, Frames, MaxPeers, MaxEpoch,       \* LiveShare
  MaxSeq, Burnable,
  Transfer, Content, Portable, Password,        \* Sealing
  Bundle, ChunkBytes, MaxChunks, MaxStops,
  Handler, Watcher, Watchers, Parts, MaxFaults, \* TurboSessions
  Missing                                       \* what is not there

VARIABLES
  sidecar, client, stage, published, late, resets,    \* StageClient
  server, sessions, disk, phase, directory, run,      \* DownloadStart
  current, kept, keys, owner, proc, settled, windows, \* Checkpoint
  saved, cipher, spooled, plain, target, dir,         \* DownloadJob
  download, final,
  direction, status, app, job, record, retained,      \* BackgroundHost
  task, stored, delivered,
  listed, enabled, entry, staging, fetched, sweep,    \* InboxReceiver
  output,
  share, seats, sender, spool, recv, wire,            \* LiveShare
  parcel, master, chunks, envelopes, addressed,       \* Sealing
  reader, halts,
  upload, shown, count, mutex, call, watcher,         \* TurboSessions
  reports, hour, pauses, lapses

stagingVars == <<sidecar, client, stage, published, late, resets>>
startingVars == <<server, sessions, disk, phase, directory, run>>
savingVars == <<current, kept, keys, owner, proc, settled, windows>>
downloadVars == <<saved, cipher, spooled, plain, target, dir, download, final>>
hostVars == <<direction, status, app, job, record, retained, task, stored, delivered>>
inboxVars == <<listed, enabled, entry, staging, fetched, sweep, output>>
liveVars == <<share, seats, sender, spool, recv, wire>>
sealingVars == <<parcel, master, chunks, envelopes, addressed, reader, halts>>
reportVars == <<upload, shown, count, mutex, call, watcher, reports, hour, pauses, lapses>>

Staging == INSTANCE StageClient WITH None <- Missing
Starting == INSTANCE DownloadStart WITH pc <- phase, s <- directory, None <- Missing
Saving == INSTANCE Checkpoint WITH now <- current, lock <- owner, None <- Missing
Downloading == INSTANCE DownloadJob WITH disk <- saved, run <- download, None <- Missing
Hosting == INSTANCE BackgroundHost WITH Item <- Work, published <- delivered, None <- Missing
Receiving == INSTANCE InboxReceiver WITH Limit <- CacheLimit, cipher <- fetched, None <- Missing
Sharing == INSTANCE LiveShare WITH
  Chunk <- Piece, Burn <- Burnable, server <- share, sess <- seats, saved <- spool, None <- Missing
Sealed == INSTANCE Sealing WITH job <- parcel, delivered <- addressed, stops <- halts, None <- Missing
Reporting == INSTANCE TurboSessions WITH
  Request <- Handler, Session <- Watcher, Limit <- Watchers, Chunks <- Parts, MaxEvents <- MaxFaults,
  status <- upload, cached <- shown, number <- count, lock <- mutex, req <- call, client <- watcher,
  sent <- reports, now <- hour, stops <- pauses, faults <- lapses, None <- Missing

-----------------------------------------------------------------------------
\* The rows of the server.
Stages == [offset : 0..Size, parts : SUBSET Staging!Part, lost : BOOLEAN]

\* Constants as the server advertises them.
StagingConstants ==
  /\ Size \in Nat \ {0} /\ MaxPart \in Nat \ {0} /\ MaxRetries \in Nat /\ MaxResets \in Nat /\ Ids \in Nat
  /\ Missing \notin Staging!Id /\ Missing \notin Staging!StageSession
  /\ Missing \notin Stages

\* What a server answers: whose metadata, and of which kind.
Envelopes == [identity : {1, 2}, kind : {"descriptor", "manifest"}]

\* A job record as it is saved.
Records == [source : {"public", "inbox"}, envelope : Envelopes, session : BOOLEAN, complete : BOOLEAN]

\* A store: the key file and the record beside it.
Directories == [secret : Key \cup {Missing}, job : Records \cup {Missing}]

\* Constants as a client meets them.
StartingConstants ==
  /\ IsFiniteSet(Stores) /\ MaxAttempts \in Nat
  /\ Transfers \subseteq [driver : {"http", "webrtc"}, note : BOOLEAN, turbo : BOOLEAN, salt : BOOLEAN]
  /\ Missing \notin Key /\ Missing \notin Stores /\ Missing \notin {"public", "inbox"}
  /\ Missing \notin Envelopes /\ Missing \notin Records /\ Missing \notin Directories

\* Constants as the store uses them.
SavingConstants ==
  /\ MaxKey \in Nat /\ Windows \subseteq BOOLEAN /\ Missing # Torn /\ Missing \notin Process
  /\ {Missing, Torn} \cap (Value \cup Saving!Sealed \cup 1..MaxKey) = {}

\* A job, a chunk and an item are told from what is not there.
DownloadConstants ==
  /\ Turbo \subseteq BOOLEAN
  /\ Missing \notin Downloading!Job /\ Missing \notin Downloading!Chunk /\ Missing \notin Downloading!Item

\* The checkpoint of a transfer that the operating system executes.
Prepared == [state : {"awaiting-execution", "running", "complete"}, done : SUBSET Work, selected : SUBSET Work, frozen : BOOLEAN]

\* A checkpoint, a ciphertext and a job are told from what is not there.
HostConstants ==
  Missing \notin Prepared /\ Missing \notin {"right", "wrong"} /\ Missing \notin {"prepare", "reconcile", "finalize", "resume"}

\* The cache is empty at first, and deliveries have sizes and chunks.
InboxConstants ==
  /\ IsFiniteSet(Delivery) /\ Bytes \in [Delivery -> Nat] /\ CacheLimit \in Nat /\ Last \in Nat
  /\ Missing \notin Receiving!EntryState /\ Missing \notin Delivery /\ Missing \notin Nat

\* A session as the signalling endpoints keep it.
Seats == [offer : BOOLEAN, answer : Sharing!Epoch \cup {Missing}, status : {"waiting", "active"} \cup Sharing!Terminal]

\* A chunk has a frame; sessions and incarnations are told from what is not there.
SharingConstants ==
  /\ Frames \in Nat \ {0} /\ MaxEpoch \in Nat \ {0} /\ MaxSeq \in Nat /\ Burnable \subseteq BOOLEAN
  /\ Missing \notin Sid /\ Missing \notin Seats /\ Missing \notin Sharing!Epoch

\* The keys of a transfer, with and without a password, and the checkpoint of its sender.
MasterKeys ==
  {Sealed!MasterKey(Sealed!ShareKey(t), salt, w) : t \in Transfer, salt \in Transfer \cup {Missing}, w \in Password \cup {Missing}}
Parcels ==
  [salt : Transfer \cup {Missing}, recipient : Bundle \cup {Missing},
   chunks : SUBSET UNION {Sealed!Places(t) : t \in Transfer},
   note : {Sealed!SealedNote(key, t) : key \in MasterKeys, t \in Transfer} \cup {Missing},
   descriptor : BOOLEAN, manifest : BOOLEAN]

\* A transfer has a file, and files have sizes.
SealingConstants ==
  /\ ChunkBytes \in Nat \ {0} /\ MaxStops \in Nat
  /\ \A t \in Transfer :
       /\ Len(Content[t]) \in Nat \ {0} /\ DOMAIN Content[t] = 1..Len(Content[t])
       /\ \A k \in DOMAIN Content[t] : Content[t][k].size \in Nat
  /\ Missing \notin Transfer /\ Missing \notin Bundle /\ Missing \notin Parcels

\* A session as the sender is shown it, and the download it is about.
Shown == [number : Nat, progress : 0..(Parts + 1), status : {"waiting", "downloading", "completed"}, sequence : Nat, until : Nat]
Watching == [up : BOOLEAN, waiting : BOOLEAN, done : 0..Parts, sequence : Nat, saved : Nat, complete : BOOLEAN, stopped : BOOLEAN]
Reports == [s : Watcher, sequence : Nat, progress : 0..Parts, status : {"downloading", "completed"}]

\* The sessions shown are counted.
ReportConstants ==
  /\ IsFiniteSet(Watcher) /\ Watchers \in Nat /\ Parts \in Nat
  /\ Missing \notin Watcher /\ Missing \notin Handler
  /\ Missing \notin Shown /\ Missing \notin Watching /\ Missing \notin Reports

ASSUME NativeAssumption ==
  /\ StagingConstants /\ StartingConstants /\ SavingConstants /\ DownloadConstants
  /\ HostConstants /\ InboxConstants /\ SharingConstants /\ SealingConstants /\ ReportConstants

-----------------------------------------------------------------------------
\* upload.rs stage(): the client never claims an offset the server does not have, a
\* chunk it takes for uploaded is published, and no stage is begun and forgotten,
\* although answers are lost, stages expire and the process dies.
StagedUploadExact == Staging!StagedUploadExact

\* download.rs async_run() and async_resume(): a record has the key that opens it
\* whenever the process died, and a download runs only for a durable record and with
\* a key and a password that opened its envelope.
DownloadRecordUsable == Starting!DownloadRecordUsable

\* checkpoint.rs save() and persist_immutable(): a record is the old or the new one
\* after every crash, and an artifact never changes.
CheckpointAtomic == Saving!CheckpointAtomic

\* download.rs download() and publish_item(): what is recorded as verified has been
\* written, a published file is complete, and durable unless the process ended between
\* its rename and the sync of the directory, and neither a file of somebody else nor a
\* frozen selection is ever replaced.
DownloadExact ==
  /\ [](Downloading!TypeOK /\ Downloading!VerifiedWritten /\ Downloading!PublicationDurable)
  /\ [][Downloading!NeverReplacedStep]_downloadVars

\* background.rs: completions of the operating system are safe to deliver twice and
\* late, and the selection they belong to is frozen.
CompletionsSafe == Hosting!TypeOK /\ Hosting!CompletionsSafe /\ Hosting!SelectionFrozen

\* inbox_receiver.rs: every ciphertext on disk is accounted for and not fetched again,
\* what is announced is complete, and what was dismissed stays dismissed.
InboxAccounted ==
  /\ [](Receiving!TypeOK /\ Receiving!CiphertextAccounted /\ Receiving!StagedComplete /\ Receiving!RequestedOnce)
  /\ [][Receiving!DismissedStaysStep]_inboxVars

\* webrtc.rs and upload.rs serve_live(): a receiver has exactly the sender's chunks, a
\* live share can be served, one session claims a burn-on-read note, and signalling
\* never goes back.
LiveShareSafe ==
  /\ [](Sharing!TypeOK /\ Sharing!ReceivedExact /\ Sharing!ShareServable /\ Sharing!BurnClaimedOnce)
  /\ [][Sharing!SignallingMonotoneStep]_liveVars

\* encryption/src/lib.rs as sender and receivers use it: no key seals two texts under
\* one nonce, and whatever the storage answers with, a receiver accepts only what the
\* sender sealed for that place, for itself, and all of it.
SealingExact ==
  /\ Sealed!TypeOK /\ Sealed!NonceUnique /\ Sealed!ReceivedExact
  /\ Sealed!KeyRequired /\ Sealed!ListingMatched

\* DownloadSessionController: what the sender is shown of its receivers is true and
\* does not go back, although reports arrive late, twice and in any order.
ReportsHonest ==
  /\ [](Reporting!TypeOK /\ Reporting!SessionsDistinct /\ Reporting!ReportsTrue)
  /\ [][Reporting!ReportsMonotoneStep]_reportVars
=============================================================================
