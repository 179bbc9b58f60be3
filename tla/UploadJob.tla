------------------------------ MODULE UploadJob ------------------------------
(***************************************************************************)
(* One HTTP upload of the native client (protocol/upload.rs): the durable  *)
(* job record, the immutable ciphertext artifacts beside it, the process   *)
(* that works on them, the operating system's background executor, and the *)
(* server as the client meets it.                                          *)
(*                                                                         *)
(* The process can stop at every step: a failed request or write (`?`),    *)
(* bail!, cancellation and SIGKILL all leave disk, server and the requests *)
(* in flight as they are.  A checkpoint store admits one process at a      *)
(* time.  A ciphertext is named after the plaintext it seals, because the  *)
(* key, the nonce prefix and the additional data of a chunk never change.  *)
(***************************************************************************)
EXTENDS Naturals, FiniteSets

CONSTANTS
  Last,          \* positions are 0..Last
  Limit,         \* the adaptive concurrency limit
  MaxRetries,    \* attempts of retry_direct
  Envelope,      \* sealed manifests and descriptors; every sealing draws a new one
  UploadStatus,  \* the instance has the upload-status capability
  Background,    \* values of "an OS client executes the requests"
  Turbo,         \* values of "the share is published early"
  Policies,      \* values of "the server offers staged uploads"
  None

ASSUME UploadAssumption ==
  /\ Last \in Nat /\ Limit \in Nat \ {0} /\ MaxRetries \in Nat
  /\ UploadStatus \in BOOLEAN /\ Background \subseteq BOOLEAN /\ Turbo \subseteq BOOLEAN /\ Policies \subseteq BOOLEAN

VARIABLES
  source,    \* the selected file
  disk,      \* the saved UploadJob, or None
  artifact,  \* the files chunk-<item>-<position>
  sidecar,   \* positions with a stage-<item>-<position>.json
  run,       \* the process that holds the store, with its copy of the record
  server,    \* the transfer at the server
  wire,      \* chunk requests that may still reach the server
  os,        \* operations handed to the background executor
  sealed     \* history: the plaintexts sealed under the nonce of a position

clientVars == <<disk, artifact, sidecar, run>>
vars == <<source, disk, artifact, sidecar, run, server, wire, os, sealed>>

Position == 0..Last

Plain == {"old", "new"}

(* The file on disk: unchanged, touched, rewritten with or without a new    *)
(* modification time, or gone.                                              *)
Sources == {"original", "touched", "rewritten", "swapped", "gone"}

Content(s) == IF s \in {"rewritten", "swapped"} THEN "new" ELSE "old"

Stamp(s) == IF s \in {"touched", "rewritten"} THEN "new" ELSE "old"

States == {"reserving", "preparing", "awaiting-execution", "sending", "finalizing", "complete"}

Record == [state : States, print : Sources \ {"gone"}, reserved : BOOLEAN, turbo : BOOLEAN, background : BOOLEAN,
           policy : BOOLEAN, descriptor : Envelope \cup {None}, published : BOOLEAN,
           chunks : [Position -> Plain \cup {None}], complete : SUBSET Position, manifest : Envelope \cup {None}]

ASSUME NoneAssumption == None \notin Position /\ None \notin Plain /\ None \notin Envelope /\ None \notin Record

Phases == {"reserve", "reserved", "credentials", "open", "descriptor", "spool", "reconcile", "sweep", "loop", "finish",
           "finalize", "receipt"}

Jobs == {"no", "direct", "sent", "stage", "staged", "acked", "saved"}

NoRun == [pc |-> "idle", job |-> None, active |-> [p \in Position |-> "no"],
          tries |-> [p \in Position |-> 0], producer |-> None, ready |-> None]

TypeOK ==
  /\ source \in Sources
  /\ disk \in Record \cup {None}
  /\ artifact \in [Position -> Plain \cup {None}]
  /\ sidecar \subseteq Position
  /\ run.pc \in Phases \cup {"idle"} /\ run.job \in Record \cup {None}
  /\ run.active \in [Position -> Jobs] /\ run.tries \in [Position -> 0..MaxRetries]
  /\ run.producer \in Position \cup {None} /\ run.ready \in Plain \cup {None}
  /\ (run.pc = "idle") = (run = NoRun)
  /\ server \in [status : {"none", "pending", "available", "gone"}, chunk : [Position -> Plain \cup {None}],
                 manifest : Envelope \cup {None}, descriptor : Envelope \cup {None}]
  /\ wire \subseteq Position \X Plain
  /\ os \in [Position -> {"none", "issued", "acked"}]
  /\ sealed \in [Position -> SUBSET Plain]

Init ==
  /\ source = "original" /\ disk = None /\ sidecar = {} /\ run = NoRun /\ wire = {}
  /\ artifact = [p \in Position |-> None]
  /\ server = [status |-> "none", chunk |-> [p \in Position |-> None], manifest |-> None, descriptor |-> None]
  /\ os = [p \in Position |-> "none"] /\ sealed = [p \in Position |-> {}]
-----------------------------------------------------------------------------
(* What the functions of upload.rs decide.                                 *)

\* fingerprint() as the job remembers it, compared with the file of now.
SourceMatches(job) == Content(source) = Content(job.print) /\ Stamp(source) = Stamp(job.print)

Recorded(job) == {p \in Position : job.chunks[p] # None}

\* item_prepared
ItemPrepared(job) == Recorded(job) = Position

\* validate_sources: the archive of a prepared item may be missing.
ValidSources(job) ==
  IF source = "gone" THEN ItemPrepared(job) ELSE SourceMatches(job)

\* preparation_complete: every record is complete or has its exact artifact.
PreparationComplete(job) ==
  Recorded(job) = Position /\ \A p \in Position \ job.complete : artifact[p] = job.chunks[p]

\* validate_job: a checkpoint that can be opened again.
ValidJob(job) ==
  /\ job.state # "reserving" /\ (job.state # "complete" => job.reserved)
  /\ job.state = "finalizing" => job.manifest # None /\ Recorded(job) = job.complete
  /\ job.published => job.descriptor # None

\* next_missing_chunk
NextMissing(job) == CHOOSE p \in Position \ Recorded(job) : \A q \in Position \ Recorded(job) : p <= q

\* Sealing draws a nonce prefix, so the envelope equals no other one.
Fresh(m) == m \notin {server.manifest, server.descriptor}
            /\ (disk # None => m \notin {disk.manifest, disk.descriptor})

\* store.save(&job): the record on disk is replaced atomically.
Save(job) == disk' = job

Continue(job, pc) == run' = [run EXCEPT !.job = job, !.pc = pc]

Stopped == run' = NoRun
-----------------------------------------------------------------------------
(* run_new: preflight, the record before the reservation, the reservation. *)

RunNew(background, turbo, policy) ==
  /\ run.pc = "idle" /\ disk = None /\ server.status = "none" /\ source # "gone"
  /\ LET job == [state |-> "reserving", print |-> source, reserved |-> FALSE, turbo |-> turbo,
                 background |-> background, policy |-> policy, descriptor |-> None, published |-> FALSE,
                 chunks |-> [p \in Position |-> None], complete |-> {}, manifest |-> None]
     IN Save(job) /\ Continue(job, "reserve")
  /\ UNCHANGED <<source, artifact, sidecar, server, wire, os, sealed>>

\* The reservation request is not idempotent; a lost answer ends the job.
Reserve ==
  /\ run.pc = "reserve"
  /\ server' = [server EXCEPT !.status = "pending"]
  /\ Continue([run.job EXCEPT !.reserved = TRUE], "reserved") \/ Stopped
  /\ UNCHANGED <<source, disk, artifact, sidecar, wire, os, sealed>>

\* The tokens and the nonce prefixes are saved before anything is encrypted.
SaveReservation ==
  /\ run.pc = "reserved"
  /\ Save(run.job) /\ Continue(run.job, "credentials")
  /\ UNCHANGED <<source, artifact, sidecar, server, wire, os, sealed>>

EnterPreparing ==
  /\ run.pc = "credentials"
  /\ LET job == [run.job EXCEPT !.state = "preparing"]
     IN Save(job) /\ Continue(job, IF job.background THEN "descriptor" ELSE "open")
  /\ UNCHANGED <<source, artifact, sidecar, server, wire, os, sealed>>

\* resume(): the record is loaded and validated; a finished job only repeats
\* its receipt.
Resume ==
  /\ run.pc = "idle" /\ disk # None /\ disk.state # "complete" /\ ValidJob(disk)
  /\ run' = [NoRun EXCEPT !.pc = "open", !.job = [disk EXCEPT !.background = FALSE]]
  /\ UNCHANGED <<source, disk, artifact, sidecar, server, wire, os, sealed>>

\* The start of continue_job: missing chunks may only be sealed from the source
\* that was fingerprinted.
Open ==
  /\ run.pc = "open"
  /\ IF PreparationComplete(run.job) \/ ValidSources(run.job)
     THEN Continue(run.job, "descriptor") ELSE Stopped
  /\ UNCHANGED <<source, disk, artifact, sidecar, server, wire, os, sealed>>

\* The exact descriptor is saved before the idempotent PUT.
SealDescriptor ==
  /\ run.pc = "descriptor" /\ run.job.turbo /\ ~run.job.published /\ run.job.descriptor = None
  /\ \E m \in Envelope :
       /\ Fresh(m)
       /\ LET job == [run.job EXCEPT !.descriptor = m] IN Save(job) /\ Continue(job, "descriptor")
  /\ UNCHANGED <<source, artifact, sidecar, server, wire, os, sealed>>

\* publish_turbo_descriptor, answered or not.
PublishDescriptor ==
  /\ run.pc = "descriptor" /\ run.job.turbo /\ ~run.job.published /\ run.job.descriptor # None
  /\ server.status = "pending" /\ server.descriptor \in {None, run.job.descriptor}
  /\ server' = [server EXCEPT !.descriptor = run.job.descriptor]
  /\ \/ LET job == [run.job EXCEPT !.published = TRUE] IN Save(job) /\ Continue(job, "descriptor")
     \/ UNCHANGED <<disk, run>>
  /\ UNCHANGED <<source, artifact, sidecar, wire, os, sealed>>

DescriptorSettled ==
  /\ run.pc = "descriptor" /\ (run.job.turbo => run.job.published)
  /\ IF run.job.background
     THEN IF ValidSources(run.job) THEN Continue(run.job, "spool") ELSE Stopped
     ELSE Continue(run.job, IF UploadStatus THEN "reconcile" ELSE "loop")
  /\ UNCHANGED <<source, disk, artifact, sidecar, server, wire, os, sealed>>

\* What reconcile() adopts from the server's ledger; None if it conflicts.
Reconciled(job) ==
  IF server.status = "pending" /\ \A p \in Position : server.chunk[p] \in {None, job.chunks[p]}
  THEN [job EXCEPT !.complete = @ \cup {p \in Position : server.chunk[p] # None}]
  ELSE None

Reconcile ==
  /\ run.pc = "reconcile"
  /\ LET job == Reconciled(run.job)
     IN IF job # None THEN Save(job) /\ Continue(job, "sweep") ELSE Stopped /\ UNCHANGED disk
  /\ UNCHANGED <<source, artifact, sidecar, server, wire, os, sealed>>

SweepSidecars ==
  /\ run.pc = "sweep"
  /\ sidecar' = sidecar \ run.job.complete
  /\ Continue(run.job, "loop")
  /\ UNCHANGED <<source, disk, artifact, server, wire, os, sealed>>
-----------------------------------------------------------------------------
(* The producer seals one missing chunk at a time.                         *)

ActiveSet == {p \in Position : run.active[p] # "no"}

Waiting == {p \in Recorded(run.job) \ run.job.complete : run.active[p] = "no"}

StartProducer ==
  /\ run.pc \in {"spool", "loop"} /\ run.producer = None /\ ~ItemPrepared(run.job)
  /\ run.pc = "spool" \/ Waiting = {}
  /\ run' = [run EXCEPT !.producer = NextMissing(run.job)]
  /\ UNCHANGED <<source, disk, artifact, sidecar, server, wire, os, sealed>>

\* Faulty variant: seals whatever the file holds now.
PrepareOneUnchecked ==
  /\ run.producer # None /\ run.ready = None
  /\ IF source # "gone"
     THEN /\ sealed' = [sealed EXCEPT ![run.producer] = @ \cup {Content(source)}]
          /\ run' = [run EXCEPT !.ready = Content(source)]
     ELSE Stopped /\ UNCHANGED sealed
  /\ UNCHANGED <<source, disk, artifact, sidecar, server, wire, os>>

\* prepare_one: the bytes and the modification time must still be those of the
\* fingerprint, or the chunk is not sealed.
PrepareOne ==
  /\ run.producer # None /\ run.ready = None
  /\ IF source # "gone" /\ SourceMatches(run.job)
     THEN /\ sealed' = [sealed EXCEPT ![run.producer] = @ \cup {Content(source)}]
          /\ run' = [run EXCEPT !.ready = Content(source)]
     ELSE Stopped /\ UNCHANGED sealed
  /\ UNCHANGED <<source, disk, artifact, sidecar, server, wire, os>>

\* An artifact that a crash left behind is adopted only if it is the same.
PersistArtifact ==
  /\ run.ready # None /\ artifact[run.producer] # run.ready
  /\ IF artifact[run.producer] = None
     THEN artifact' = [artifact EXCEPT ![run.producer] = run.ready] /\ UNCHANGED run
     ELSE Stopped /\ UNCHANGED artifact
  /\ UNCHANGED <<source, disk, sidecar, server, wire, os, sealed>>

RecordChunk ==
  /\ run.ready # None /\ artifact[run.producer] = run.ready
  /\ LET job == [run.job EXCEPT !.chunks[run.producer] = run.ready]
     IN Save(job) /\ run' = [run EXCEPT !.job = job, !.producer = None, !.ready = None]
  /\ UNCHANGED <<source, artifact, sidecar, server, wire, os, sealed>>

\* The end of prepare_background_job.
AwaitExecution ==
  /\ run.pc = "spool" /\ ItemPrepared(run.job)
  /\ IF PreparationComplete(run.job) /\ ValidSources(run.job)
     THEN Save([run.job EXCEPT !.state = "awaiting-execution"]) ELSE UNCHANGED disk
  /\ Stopped
  /\ UNCHANGED <<source, artifact, sidecar, server, wire, os, sealed>>
-----------------------------------------------------------------------------
(* The upload workers.                                                     *)

SetActive(p, phase) == run' = [run EXCEPT !.active[p] = phase]

StartUpload(p) ==
  /\ run.pc = "loop" /\ run.producer = None /\ p \in Waiting /\ Cardinality(ActiveSet) < Limit
  /\ run' = [run EXCEPT !.active[p] = "direct", !.tries[p] = 0]
  /\ UNCHANGED <<source, disk, artifact, sidecar, server, wire, os, sealed>>

\* direct_request streams the artifact.
SendDirect(p) ==
  /\ run.active[p] = "direct" /\ artifact[p] # None
  /\ wire' = wire \cup {<<p, artifact[p]>>}
  /\ SetActive(p, "sent")
  /\ UNCHANGED <<source, disk, artifact, sidecar, server, os, sealed>>

Stored(p, c) == server.status = "pending" /\ server.chunk[p] \in {None, c}

\* The answer is 201 Created.
DirectCreated(p) ==
  /\ run.active[p] = "sent" /\ server.status = "pending"
  /\ server.chunk[p] = run.job.chunks[p] /\ <<p, run.job.chunks[p]>> \notin wire
  /\ SetActive(p, "acked")
  /\ UNCHANGED <<source, disk, artifact, sidecar, server, wire, os, sealed>>

\* No answer, a timeout, a retryable status: the request may still arrive.
DirectFails(p) ==
  /\ run.active[p] = "sent"
  /\ IF run.job.policy THEN SetActive(p, "stage")
     ELSE IF run.tries[p] < MaxRetries
          THEN run' = [run EXCEPT !.active[p] = "direct", !.tries[p] = @ + 1]
          ELSE Stopped
  /\ UNCHANGED <<source, disk, artifact, sidecar, server, wire, os, sealed>>

\* stage(): the artifact is checked, and the sidecar is saved before `begin`.
BeginStage(p) ==
  /\ run.active[p] = "stage"
  /\ IF artifact[p] = run.job.chunks[p]
     THEN sidecar' = sidecar \cup {p} /\ SetActive(p, "staged")
     ELSE Stopped /\ UNCHANGED sidecar
  /\ UNCHANGED <<source, disk, artifact, server, wire, os, sealed>>

\* The staged chunk is published; the answer arrives, or the retry limit ends
\* the job.
FinishStage(p) ==
  /\ run.active[p] = "staged" /\ Stored(p, run.job.chunks[p])
  /\ server' = [server EXCEPT !.chunk[p] = run.job.chunks[p]]
  /\ SetActive(p, "acked") \/ Stopped
  /\ UNCHANGED <<source, disk, artifact, sidecar, wire, os, sealed>>

\* The server lost the stage (410): a new identity is saved and begun.
StageGone(p) ==
  /\ run.active[p] = "staged"
  /\ sidecar' = sidecar \cup {p} /\ SetActive(p, "stage")
  /\ UNCHANGED <<source, disk, artifact, server, wire, os, sealed>>

\* The completion is durable ...
JoinWorker(p) ==
  /\ run.active[p] = "acked"
  /\ LET job == [run.job EXCEPT !.complete = @ \cup {p}]
     IN Save(job) /\ run' = [run EXCEPT !.job = job, !.active[p] = "saved"]
  /\ UNCHANGED <<source, artifact, sidecar, server, wire, os, sealed>>

\* ... before the sidecar and the retry input are removed.
RemoveRetryInput(p) ==
  /\ run.active[p] = "saved"
  /\ sidecar' = sidecar \ {p}
  /\ artifact' = [artifact EXCEPT ![p] = None] \/ UNCHANGED artifact
  /\ SetActive(p, "no")
  /\ UNCHANGED <<source, disk, server, wire, os, sealed>>

LoopDone ==
  /\ run.pc = "loop" /\ ActiveSet = {} /\ run.producer = None /\ Waiting = {} /\ ItemPrepared(run.job)
  /\ Continue(run.job, "finish")
  /\ UNCHANGED <<source, disk, artifact, sidecar, server, wire, os, sealed>>
-----------------------------------------------------------------------------
(* Finalization.                                                           *)

FinishPreparing ==
  /\ run.pc = "finish" /\ run.job.state = "preparing"
  /\ IF PreparationComplete(run.job) /\ ValidSources(run.job)
     THEN LET job == [run.job EXCEPT !.state = "sending"] IN Save(job) /\ Continue(job, "finish")
     ELSE Stopped /\ UNCHANGED disk
  /\ UNCHANGED <<source, artifact, sidecar, server, wire, os, sealed>>

\* The exact envelope is saved before its request.
EnterFinalizing ==
  /\ run.pc = "finish" /\ run.job.state # "preparing"
  /\ IF run.job.state = "finalizing" THEN Continue(run.job, "finalize") /\ UNCHANGED disk
     ELSE \E m \in Envelope :
            /\ Fresh(m)
            /\ LET job == [run.job EXCEPT !.state = "finalizing", !.manifest = m]
               IN Save(job) /\ Continue(job, "finalize")
  /\ UNCHANGED <<source, artifact, sidecar, server, wire, os, sealed>>

\* complete(): all chunks are there, or the same manifest was accepted before.
Accepts(m) ==
  \/ server.status = "pending" /\ \A p \in Position : server.chunk[p] # None
  \/ server.status = "available" /\ server.manifest = m

\* complete_transfer, answered, or sent again after a lost answer.
CompleteTransfer ==
  /\ run.pc = "finalize" /\ Accepts(run.job.manifest)
  /\ server' = [server EXCEPT !.status = "available", !.manifest = run.job.manifest]
  /\ Continue(run.job, "receipt") \/ UNCHANGED run
  /\ UNCHANGED <<source, disk, artifact, sidecar, wire, os, sealed>>

SaveReceipt ==
  /\ run.pc = "receipt"
  /\ Save([run.job EXCEPT !.state = "complete", !.reserved = FALSE, !.manifest = None])
  /\ Stopped
  /\ UNCHANGED <<source, artifact, sidecar, server, wire, os, sealed>>
-----------------------------------------------------------------------------
(* The background executor: URLSession owns the requests.                  *)

Awaiting == run.pc = "idle" /\ disk # None /\ disk.state = "awaiting-execution"

\* background_work: descriptors for the chunks that are not complete.
BackgroundWork ==
  /\ Awaiting /\ \A p \in Position \ disk.complete : artifact[p] # None
  /\ os' = [p \in Position |-> IF p \notin disk.complete /\ os[p] = "none" THEN "issued" ELSE os[p]]
  /\ UNCHANGED <<source, clientVars, server, wire, sealed>>

OsSends(p) ==
  /\ os[p] = "issued" /\ artifact[p] # None
  /\ wire' = wire \cup {<<p, artifact[p]>>}
  /\ UNCHANGED <<source, clientVars, server, os, sealed>>

OsCreated(p) ==
  /\ os[p] = "issued" /\ server.chunk[p] # None
  /\ os' = [os EXCEPT ![p] = "acked"]
  /\ UNCHANGED <<source, clientVars, server, wire, sealed>>

\* ingest_background_completion; the same completion may be delivered again.
Ingest(p) ==
  /\ Awaiting /\ os[p] = "acked" /\ p \notin disk.complete /\ artifact[p] = disk.chunks[p]
  /\ Save([disk EXCEPT !.complete = @ \cup {p}])
  /\ artifact' = [artifact EXCEPT ![p] = None] \/ UNCHANGED artifact
  /\ UNCHANGED <<source, sidecar, run, server, wire, os, sealed>>

\* reconcile_background resolves ambiguous completions.
ReconcileBackground ==
  /\ Awaiting /\ UploadStatus /\ Reconciled(disk) # None
  /\ Save(Reconciled(disk))
  /\ artifact' = [p \in Position |-> IF p \in disk'.complete THEN None ELSE artifact[p]] \/ UNCHANGED artifact
  /\ UNCHANGED <<source, sidecar, run, server, wire, os, sealed>>
-----------------------------------------------------------------------------
(* The surroundings.                                                       *)

\* A chunk request reaches the server, or the network drops it.
Deliver(p, c) ==
  /\ <<p, c>> \in wire /\ wire' = wire \ {<<p, c>>}
  /\ server' = IF Stored(p, c) THEN [server EXCEPT !.chunk[p] = c] ELSE server
  /\ UNCHANGED <<source, clientVars, os, sealed>>

Drop(p, c) ==
  /\ <<p, c>> \in wire /\ wire' = wire \ {<<p, c>>}
  /\ UNCHANGED <<source, clientVars, server, os, sealed>>

\* Any error, cancellation or kill.  The tasks of a JoinSet end with it.
Stop ==
  /\ run.pc # "idle" /\ Stopped
  /\ UNCHANGED <<source, disk, artifact, sidecar, server, wire, os, sealed>>

SourceChanges(s) ==
  /\ source # s /\ source' = s
  /\ UNCHANGED <<clientVars, server, wire, os, sealed>>

\* The transfer expires or is removed at the server.
TransferEnds ==
  /\ server.status \in {"pending", "available"}
  /\ server' = [server EXCEPT !.status = "gone"]
  /\ UNCHANGED <<source, clientVars, wire, os, sealed>>

\* revoke(): the server deletes first, then the job directory is removed.
Revoke ==
  /\ run.pc = "idle" /\ disk # None /\ ValidJob(disk)
  /\ server.status \in {"pending", "available"}
  /\ server' = [server EXCEPT !.status = "gone"]
  /\ \/ disk' = None /\ artifact' = [p \in Position |-> None] /\ sidecar' = {}
     \/ UNCHANGED <<disk, artifact, sidecar>>
  /\ UNCHANGED <<source, run, wire, os, sealed>>

\* discard_transfer forgets the job and nothing else.
Discard ==
  /\ run.pc = "idle" /\ disk # None
  /\ disk' = None /\ artifact' = [p \in Position |-> None] /\ sidecar' = {}
  /\ UNCHANGED <<source, run, server, wire, os, sealed>>

RunStep ==
  \/ Reserve \/ SaveReservation \/ EnterPreparing \/ Open
  \/ SealDescriptor \/ PublishDescriptor \/ DescriptorSettled \/ Reconcile \/ SweepSidecars
  \/ StartProducer \/ PrepareOne \/ PersistArtifact \/ RecordChunk \/ AwaitExecution
  \/ LoopDone \/ FinishPreparing \/ EnterFinalizing \/ CompleteTransfer \/ SaveReceipt

WorkerStep(p) ==
  \/ StartUpload(p) \/ SendDirect(p) \/ DirectCreated(p) \/ DirectFails(p)
  \/ BeginStage(p) \/ FinishStage(p) \/ StageGone(p) \/ JoinWorker(p) \/ RemoveRetryInput(p)

Next ==
  \/ \E background \in Background, turbo \in Turbo, policy \in Policies : RunNew(background, turbo, policy)
  \/ Resume \/ RunStep \/ Stop
  \/ \E p \in Position : WorkerStep(p) \/ OsSends(p) \/ OsCreated(p) \/ Ingest(p)
  \/ BackgroundWork \/ ReconcileBackground
  \/ \E p \in Position, c \in Plain : Deliver(p, c) \/ Drop(p, c)
  \/ \E s \in Sources : SourceChanges(s)
  \/ TransferEnds \/ Revoke \/ Discard

Spec == Init /\ [][Next]_vars
-----------------------------------------------------------------------------
(* Correctness.                                                            *)

\* Whatever happens to the source and however often the process dies between
\* sealing, persisting and recording, one nonce seals one plaintext.
NonceUsedOnce == \A p \in Position : Cardinality(sealed[p]) <= 1

\* A recorded chunk keeps its retry input until its completion is durable, and
\* a durable completion means that the server has exactly this ciphertext.
RetryInputKept ==
  disk # None => \A p \in Recorded(disk) :
    IF p \in disk.complete
    THEN server.status = "gone" \/ server.chunk[p] = disk.chunks[p]
    ELSE artifact[p] = disk.chunks[p]

\* A transfer becomes available only with the bytes its manifest digests.
AvailableMatchesManifest ==
  server.status = "available" /\ disk # None =>
    \A p \in Position : server.chunk[p] = Content(disk.print)

\* A job reports a receipt only for a transfer that was completed.
ReceiptMeansAvailable ==
  disk # None /\ disk.state = "complete" => server.status \in {"available", "gone"} /\ server.manifest # None

\* The server never learns a manifest or a descriptor that a crash could make
\* the client forget.
EnvelopesDurableStep ==
  /\ server'.manifest # server.manifest => disk # None /\ disk.manifest = server'.manifest
  /\ server'.descriptor # server.descriptor => disk # None /\ disk.descriptor = server'.descriptor

\* upload.rs continue_job(), prepare_one() and persist(): one nonce seals one text, a
\* recorded chunk can be sent again until its completion is durable, an available
\* transfer has the bytes of its manifest, a receipt is that of a completed one, and
\* the server learns no manifest or descriptor that a crash makes the client forget.
UploadExact ==
  /\ [](/\ TypeOK /\ NonceUsedOnce /\ RetryInputKept
        /\ AvailableMatchesManifest /\ ReceiptMeansAvailable)
  /\ [][EnvelopesDurableStep]_vars

\* upload.rs calls completion idempotent and restart-safe: a job that stopped
\* while it was finalizing can be continued as long as the transfer exists.
FinalizationResumable ==
  run.pc = "reconcile" /\ run.job.state = "finalizing" /\ server.status \in {"pending", "available"}
    => Reconciled(run.job) # None
=============================================================================
