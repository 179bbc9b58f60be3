----------------------------- MODULE DownloadJob -----------------------------
(***************************************************************************)
(* One HTTP download of the native client (protocol/download.rs): the      *)
(* saved job, the retained ciphertext, the scratch plaintext, the files it *)
(* publishes in the user's directory, and the operating system's executor. *)
(* Turbo downloads start from a descriptor and learn the digests last.     *)
(*                                                                         *)
(* A chunk is a pair of an item and a position.  A retained ciphertext is  *)
(* a prefix, whole, or damaged by a power loss; authentication tells a     *)
(* whole one from a damaged one, and nothing else does.                    *)
(***************************************************************************)
EXTENDS Naturals, FiniteSets

CONSTANTS
  Chunks,     \* the number of chunks of every item, a function
  Slots,      \* the adaptive limit of requests
  Background, \* values of "prepared for the operating system"
  Turbo,      \* values of "started from a descriptor"
  None

VARIABLES
  disk,     \* the saved DownloadJob, or None
  cipher,   \* cipher-<item>-<chunk> with its entity tag
  spooled,  \* chunks with a background-cipher-<item>-<chunk>
  plain,    \* chunks present in plain-<item>
  target,   \* what the output directory has under the name of an item
  dir,      \* whether that entry of the directory is synced: "loose" while the process
            \* that renamed has yet to sync, "torn" if it ended before
  run,      \* the process at work, or None
  final     \* the server has the final manifest

vars == <<disk, cipher, spooled, plain, target, dir, run, final>>

Item == DOMAIN Chunks
Chunk == {c \in Item \X (0..9) : c[2] < Chunks[c[1]]}
Of(i) == {c \in Chunk : c[1] = i}

Job == [state : {"awaiting-execution", "running", "paused", "complete"}, turbo : BOOLEAN, selected : SUBSET Item,
        frozen : BOOLEAN, verified : SUBSET Chunk, published : SUBSET Item, envelope : {"manifest", "descriptor"}]

Idle == [pc |-> "idle", job |-> None, fetching |-> {}, again |-> {}, at |-> None, item |-> None]

TypeOK ==
  /\ disk \in Job \cup {None} /\ spooled \subseteq Chunk /\ plain \subseteq Chunk /\ final \in BOOLEAN
  /\ cipher \in [Chunk -> {"none", "part", "badpart", "whole", "bad"}]
  /\ target \in [Item -> {"none", "ours", "other"}] /\ dir \in [Item -> {"synced", "loose", "torn"}]
  /\ run.pc \in {"idle", "consume", "fetch", "written", "staged", "renamed", "synced", "finalize", "last"}
  /\ run.job \in Job \cup {None} /\ run.fetching \subseteq Chunk /\ run.again \subseteq Chunk
  /\ run.at \in Chunk \cup {None} /\ run.item \in Item \cup {None}

Init ==
  /\ disk = None /\ cipher = [c \in Chunk |-> "none"] /\ spooled = {} /\ plain = {} /\ final = FALSE
  /\ target = [i \in Item |-> "none"] /\ dir = [i \in Item |-> "synced"] /\ run = Idle

Save(job) == disk' = job
Stopped == run' = Idle
Selected(job) == {c \in Chunk : c[1] \in job.selected}

\* `?` in the fetch loop: the job is marked as paused, if it can be saved.
Paused == Save([run.job EXCEPT !.state = "paused"]) /\ Stopped

-----------------------------------------------------------------------------
(* async_run                                                               *)

\* The record is durable before any chunk is requested.  A target is the first
\* name that is free at this moment.
Start(background, turbo) ==
  /\ run = Idle /\ disk = None /\ (turbo = ~final)
  /\ \A i \in Item : target[i] = "none"
  /\ LET job == [state |-> IF background THEN "awaiting-execution" ELSE "running", turbo |-> turbo,
                 selected |-> Item, frozen |-> FALSE, verified |-> {}, published |-> {},
                 envelope |-> IF turbo THEN "descriptor" ELSE "manifest"]
     IN Save(job) /\ run' = IF background THEN Idle ELSE [Idle EXCEPT !.pc = "fetch", !.job = job]
  /\ UNCHANGED <<cipher, spooled, plain, target, dir, final>>

Awaiting == run = Idle /\ disk # None /\ disk.state = "awaiting-execution"

\* select_background_items
SelectItems(items) ==
  /\ Awaiting /\ ~disk.frozen /\ disk.verified = {} /\ spooled = {} /\ items # {}
  /\ Save([disk EXCEPT !.selected = items, !.frozen = TRUE])
  /\ UNCHANGED <<cipher, spooled, plain, target, dir, run, final>>

\* background_work freezes the selection before it hands out a request.
BackgroundWork ==
  /\ Awaiting /\ ~disk.frozen
  /\ Save([disk EXCEPT !.frozen = TRUE])
  /\ UNCHANGED <<cipher, spooled, plain, target, dir, run, final>>

\* ingest_background_completion of a request that was handed out.
Ingest(c) ==
  /\ Awaiting /\ disk.frozen /\ c \in Selected(disk) \ disk.verified
  /\ spooled' = spooled \cup {c}
  /\ UNCHANGED <<disk, cipher, plain, target, dir, run, final>>
-----------------------------------------------------------------------------
(* async_resume                                                            *)

\* The envelope must open as what the job expects it to be, and published files
\* must still be there.
Accepts(job) ==
  /\ IF job.turbo THEN job.envelope = "descriptor" ELSE job.envelope = "manifest"
  /\ \A i \in job.published \cap job.selected : target[i] = "ours"

\* restore_retained: a bit counts only if its ciphertext authenticates again;
\* the scratch file is rewritten from it.
Restored(job) == {c \in job.verified : cipher[c] = "whole" \/ c[1] \in job.published \/ c[1] \notin job.selected}

Resume ==
  /\ run = Idle /\ disk # None /\ disk.state # "complete" /\ Accepts(disk)
  /\ LET job == [disk EXCEPT !.verified = Restored(disk)]
     IN run' = [Idle EXCEPT !.pc = "consume", !.job = job]
  /\ plain' = plain \cup {c \in Selected(disk) \cap disk.verified : cipher[c] = "whole"}
  /\ UNCHANGED <<disk, cipher, spooled, target, dir, final>>

\* consume_background_ciphertext: plaintext first, then the file goes; the bit
\* is saved when all are consumed, and nothing is retained for it.
ConsumeBackground(c) ==
  /\ run.pc = "consume" /\ c \in (spooled \cap Selected(run.job)) \ run.job.verified
  /\ plain' = plain \cup {c} /\ spooled' = spooled \ {c}
  /\ run' = [run EXCEPT !.job.verified = @ \cup {c}]
  /\ UNCHANGED <<disk, cipher, target, dir, final>>

SaveResumed ==
  /\ run.pc = "consume" /\ spooled \cap Selected(run.job) \subseteq run.job.verified
  /\ LET job == [run.job EXCEPT !.state = IF @ = "awaiting-execution" THEN "running" ELSE @]
     IN Save(job) /\ run' = [run EXCEPT !.pc = "fetch", !.job = job]
  /\ UNCHANGED <<cipher, spooled, plain, target, dir, final>>
-----------------------------------------------------------------------------
(* The fetch loop of download() and fetch_chunk.                           *)

Pending == Selected(run.job) \ (run.job.verified \cup run.fetching)

StartFetch(c) ==
  /\ run.pc = "fetch" /\ c \in Pending /\ Cardinality(run.fetching) < Slots
  /\ run' = [run EXCEPT !.fetching = @ \cup {c}]
  /\ UNCHANGED <<disk, cipher, spooled, plain, target, dir, final>>

\* A body arrives, in part or to its end, and is what was sent or is not.  A prefix is
\* continued only under its entity tag; without ranges or tag, or after a 200, the
\* chunk starts again.
ReceiveBody(c) ==
  /\ run.pc # "idle" /\ c \in run.fetching
  /\ \/ cipher[c] = "none" /\ cipher' \in {[cipher EXCEPT ![c] = s] : s \in {"part", "badpart", "whole", "bad"}}
     \/ cipher[c] = "part" /\ cipher' \in {[cipher EXCEPT ![c] = s] : s \in {"none", "whole", "bad"}}
     \/ cipher[c] = "badpart" /\ cipher' \in {[cipher EXCEPT ![c] = s] : s \in {"none", "bad"}}
  /\ UNCHANGED <<disk, spooled, plain, target, dir, run, final>>

\* authenticate_and_write: the plaintext is synced before the bit is saved.
Authenticate(c) ==
  /\ run.pc = "fetch" /\ c \in run.fetching /\ cipher[c] = "whole"
  /\ plain' = plain \cup {c}
  /\ run' = [run EXCEPT !.pc = "written", !.at = c, !.fetching = @ \ {c}, !.again = @ \ {c}]
  /\ UNCHANGED <<disk, cipher, spooled, target, dir, final>>

\* A damaged prefix is fetched once more from its beginning; a second failure
\* ends the run.
AuthenticationFails(c) ==
  /\ run.pc = "fetch" /\ c \in run.fetching /\ cipher[c] = "bad"
  /\ cipher' = [cipher EXCEPT ![c] = "none"]
  /\ IF c \in run.again THEN Stopped ELSE run' = [run EXCEPT !.again = @ \cup {c}]
  /\ UNCHANGED <<disk, spooled, plain, target, dir, final>>

RecordVerified ==
  /\ run.pc = "written"
  /\ LET job == [run.job EXCEPT !.verified = @ \cup {run.at}]
     IN Save(job) /\ run' = [run EXCEPT !.pc = "fetch", !.job = job, !.at = None]
  /\ UNCHANGED <<cipher, spooled, plain, target, dir, final>>

FetchFails ==
  /\ run.pc = "fetch" /\ run.fetching # {} /\ Paused
  /\ UNCHANGED <<cipher, spooled, plain, target, dir, final>>
-----------------------------------------------------------------------------
(* publish_item: digest, staging in the output directory, rename.          *)

Unpublished(i) ==
  i \in run.job.selected \ run.job.published /\ Of(i) \subseteq run.job.verified

\* The digest of the scratch file is checked; a file of that name must be ours, and
\* is taken for published as it is.
StagePublication(i) ==
  /\ \/ run.pc = "fetch" /\ ~run.job.turbo /\ Unpublished(i)
     \/ run.pc = "finalize" /\ run.job.envelope = "manifest" /\ Unpublished(i)
  /\ IF ~(Of(i) \subseteq plain) \/ target[i] = "other" THEN Stopped
     ELSE run' = [run EXCEPT !.pc = IF target[i] = "ours" THEN "synced" ELSE "staged", !.item = i]
  /\ UNCHANGED <<disk, cipher, spooled, plain, target, dir, final>>

\* Faulty variant: the directory is not synced
RenameUnsynced ==
  /\ run.pc = "staged"
  /\ IF target[run.item] = "other" THEN Stopped /\ UNCHANGED <<target, dir>>
     ELSE /\ target' = [target EXCEPT ![run.item] = "ours"] /\ dir' = [dir EXCEPT ![run.item] = "loose"]
          /\ run' = [run EXCEPT !.pc = "synced"]
  /\ UNCHANGED <<disk, cipher, spooled, plain, final>>

\* persist_noclobber: a name that appeared meanwhile is kept.
RenameNoclobber ==
  /\ run.pc = "staged"
  /\ IF target[run.item] = "other" THEN Stopped /\ UNCHANGED <<target, dir>>
     ELSE /\ target' = [target EXCEPT ![run.item] = "ours"] /\ dir' = [dir EXCEPT ![run.item] = "loose"]
          /\ run' = [run EXCEPT !.pc = "renamed"]
  /\ UNCHANGED <<disk, cipher, spooled, plain, final>>

\* sync_parent: every entry of the output directory.
SyncParent ==
  /\ run.pc = "renamed"
  /\ dir' = [i \in Item |-> IF target[i] = "ours" THEN "synced" ELSE dir[i]]
  /\ run' = [run EXCEPT !.pc = "synced"]
  /\ UNCHANGED <<disk, cipher, spooled, plain, target, final>>

\* The publication is saved before the retained ciphertext goes.
RecordPublished ==
  /\ run.pc = "synced"
  /\ LET job == [run.job EXCEPT !.published = @ \cup {run.item}]
     IN Save(job) /\ run' = [run EXCEPT !.pc = IF job.turbo THEN "finalize" ELSE "fetch", !.job = job, !.item = None]
  /\ cipher' = IF run.job.turbo THEN cipher ELSE [c \in Chunk |-> IF c[1] = run.item THEN "none" ELSE cipher[c]]
  /\ UNCHANGED <<spooled, plain, target, dir, final>>

\* The queue is empty and nothing is in flight.
QueueDone ==
  /\ run.pc = "fetch" /\ Pending = {} /\ run.fetching = {}
  /\ run.job.turbo \/ run.job.selected \subseteq run.job.published
  /\ run' = [run EXCEPT !.pc = IF run.job.turbo THEN "finalize" ELSE "last"]
  /\ UNCHANGED <<disk, cipher, spooled, plain, target, dir, final>>

\* finalize_turbo_manifest waits for the manifest and takes its digests; the
\* envelope of the job is replaced in memory, and saved with the next record.
FinalizeTurbo ==
  /\ run.pc = "finalize" /\ run.job.envelope = "descriptor" /\ final
  /\ run' = [run EXCEPT !.job.envelope = "manifest"]
  /\ UNCHANGED <<disk, cipher, spooled, plain, target, dir, final>>

\* report_turbo("completed") is answered, or ends the run.
ReportCompleted ==
  /\ run.pc = "finalize" /\ run.job.envelope = "manifest" /\ run.job.selected \subseteq run.job.published
  /\ Stopped \/ run' = [run EXCEPT !.pc = "last"]
  /\ UNCHANGED <<disk, cipher, spooled, plain, target, dir, final>>

Complete ==
  /\ run.pc = "last"
  /\ Save([run.job EXCEPT !.state = "complete"]) /\ Stopped
  /\ UNCHANGED <<cipher, spooled, plain, target, dir, final>>
-----------------------------------------------------------------------------
(* The surroundings.                                                       *)

\* The entry that the process at work renamed is left without a sync.
Interrupted(i) == IF run.pc = "renamed" /\ run.item = i THEN "torn" ELSE dir[i]

\* SIGKILL, cancellation, an error elsewhere.
Dies ==
  /\ run # Idle /\ Stopped
  /\ dir' = [i \in Item |-> Interrupted(i)]
  /\ UNCHANGED <<disk, cipher, spooled, plain, target, final>>

\* A power loss also takes what was not synced: bodies are synced when they end,
\* an earlier sparse write to the scratch file and a rename may be lost.
PowerLoss ==
  /\ Stopped
  /\ \E lost \in SUBSET plain : plain' = plain \ lost
  /\ \E torn \in SUBSET {c \in Chunk : cipher[c] = "part"} :
       cipher' = [c \in Chunk |-> IF c \in torn THEN "badpart" ELSE cipher[c]]
  /\ \E gone \in SUBSET {i \in Item : target[i] = "ours" /\ dir[i] # "synced"} :
       /\ target' = [i \in Item |-> IF i \in gone THEN "none" ELSE target[i]]
       /\ dir' = [i \in Item |-> IF target'[i] = "ours" THEN "synced" ELSE Interrupted(i)]
  /\ UNCHANGED <<disk, spooled, final>>

\* Another program writes to the output directory.
OtherCreates(i) ==
  /\ target[i] = "none" /\ target' = [target EXCEPT ![i] = "other"]
  /\ UNCHANGED <<disk, cipher, spooled, plain, dir, run, final>>

SenderFinishes ==
  /\ ~final /\ final' = TRUE
  /\ UNCHANGED <<disk, cipher, spooled, plain, target, dir, run>>

Next ==
  \/ \E background \in Background, turbo \in Turbo : Start(background, turbo)
  \/ \E items \in SUBSET Item : SelectItems(items)
  \/ BackgroundWork \/ Resume \/ SaveResumed
  \/ \E c \in Chunk : \/ Ingest(c) \/ ConsumeBackground(c) \/ StartFetch(c) \/ ReceiveBody(c)
                      \/ Authenticate(c) \/ AuthenticationFails(c)
  \/ RecordVerified \/ FetchFails \/ QueueDone
  \/ \E i \in Item : StagePublication(i) \/ OtherCreates(i)
  \/ RenameNoclobber \/ SyncParent \/ RecordPublished \/ FinalizeTurbo \/ ReportCompleted \/ Complete
  \/ Dies \/ PowerLoss \/ SenderFinishes

Spec == Init /\ [][Next]_vars
-----------------------------------------------------------------------------
\* In a running process a verified chunk is in the scratch file, whatever a power
\* loss took before: publication never meets a hole it believes to be filled.
VerifiedWritten ==
  run # Idle => \A c \in run.job.verified \cap Selected(run.job) : c \in plain \/ c[1] \in run.job.published

\* A saved publication is in place whatever crash or power loss came before, unless the
\* process that renamed it ended before it synced the directory; a complete job has
\* published all it selected, and an item left out is never published.
PublicationDurable ==
  disk # None =>
    /\ \A i \in disk.published : target[i] = "ours" \/ dir[i] = "torn"
    /\ disk.state = "complete" => disk.selected \subseteq disk.published
    /\ \A i \in Item : target[i] = "ours" => i \in disk.selected

\* A file that somebody else put under the name is never replaced, and the
\* selection of items never changes once a request was handed out.
NeverReplacedStep ==
  /\ \A i \in Item : target[i] = "other" => target'[i] = "other"
  /\ disk # None /\ disk.frozen => disk'.selected = disk.selected
=============================================================================
