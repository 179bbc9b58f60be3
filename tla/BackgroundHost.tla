--------------------------- MODULE BackgroundHost ---------------------------
(***************************************************************************)
(* Transfers executed by the operating system (client-ffi/background and   *)
(* transfer-native/protocol/background).  Rust prepares a checkpoint in    *)
(* the foreground and lists the HTTP work that is left; the system runs    *)
(* the requests, also while the application is dead, and delivers each     *)
(* completion at least once, in any order; a last foreground job finishes. *)
(*                                                                         *)
(* A checkpoint is opened exclusively: while a job holds it every other    *)
(* call is refused.  Each item has one chunk and so one operation.         *)
(***************************************************************************)
EXTENDS Naturals, FiniteSets

CONSTANTS Item, None

VARIABLES
    direction,      \* "upload", "download" or "inbox"
    status,         \* the server has an upload-status ledger
    app,            \* the application runs
    job,            \* the foreground job that holds the checkpoint, or None
    record,         \* the checkpoint, or None
    retained,       \* retained[i]: None, or the ciphertext kept for an item
    task,           \* task[i]: the system's request and how it ended
    stored,         \* what the server holds of an upload
    published       \* what finalization delivered

vars == <<direction, status, app, job, record, retained, task, stored, published>>

Upload == direction = "upload"

Record == [state |-> "awaiting-execution", done |-> {}, selected |-> Item, frozen |-> FALSE]

Init ==
    /\ direction \in {"upload", "download", "inbox"}
    /\ status \in BOOLEAN
    /\ app = TRUE /\ job = None /\ record = None
    /\ retained = [i \in Item |-> None]
    /\ task = [i \in Item |-> "none"]
    /\ stored = {} /\ published = {}

\* status(): what the host learns after a relaunch
Status == [needs_execution |-> record.state = "awaiting-execution", done |-> record.done]

\* Store::open_with_secret_store() excludes a job on the same checkpoint
Opened == app /\ job = None /\ record # None

Awaiting == Status.needs_execution

-----------------------------------------------------------------------------
(* Foreground preparation *)

StartJob(kind) == app /\ job = None /\ job' = kind

Prepare ==
    /\ record = None
    /\ StartJob("prepare")
    /\ UNCHANGED <<direction, status, app, record, retained, task, stored, published>>

PrepareUpload(absolute) == Upload /\ absolute /\ Prepare

PrepareUploadSources(valid) == Upload /\ valid /\ Prepare

PrepareDownload(absolute) == direction = "download" /\ absolute /\ Prepare

\* The session and the key of an inbox are given for this call only
PrepareInboxDownload(credentials) == direction = "inbox" /\ credentials /\ Prepare

\* An upload is offered only when every ciphertext is immutable on disk
Prepared ==
    /\ job = "prepare"
    /\ job' = None
    /\ record' = Record
    /\ retained' = [i \in Item |-> IF Upload THEN "right" ELSE None]
    /\ UNCHANGED <<direction, status, app, task, stored, published>>

\* select_download_items()
SelectItems(items) ==
    /\ Opened /\ ~Upload
    /\ Awaiting /\ items # {}
    /\ ~record.frozen /\ record.done = {}
    /\ \A i \in Item: retained[i] = None
    /\ record' = [record EXCEPT !.selected = items, !.frozen = TRUE]
    /\ UNCHANGED <<direction, status, app, job, retained, task, stored, published>>

-----------------------------------------------------------------------------
(* Descriptors, and the system's requests *)

\* The artifact of an upload, or the absent file of a download, is work left
Pending ==
    IF Upload THEN Item \ record.done
    ELSE {i \in record.selected \ record.done: retained[i] = None}

\* Every incomplete chunk of an upload still has its artifact
Listable == Awaiting /\ (Upload => \A i \in Item \ record.done: retained[i] # None)

\* The host asks the system for what it was told
Queue == task' = [i \in Item |-> IF i \in Pending THEN "queued" ELSE task[i]]

PendingUploadWork ==
    /\ Opened /\ Upload /\ Listable
    /\ Queue
    /\ UNCHANGED <<direction, status, app, job, record, retained, stored, published>>

\* The first listing freezes the selection before a descriptor leaves; inbox
\* work needs a cookie again, and is refused after that without one
ListDownloadWork(cookie) ==
    /\ Opened /\ Listable
    /\ record' = [record EXCEPT !.frozen = TRUE]
    /\ IF direction = "inbox" /\ ~cookie THEN UNCHANGED task ELSE Queue
    /\ UNCHANGED <<direction, status, app, job, retained, stored, published>>

PendingDownloadWork == ~Upload /\ ListDownloadWork(FALSE)

PendingInboxDownloadWork == ~Upload /\ ListDownloadWork(TRUE)

\* The request reaches the server or not; its answer may be lost, and the
\* body of a download may be another ciphertext of the same length
SystemRuns(i, answer) ==
    /\ task[i] = "queued"
    /\ answer \in {"success", "lost", "failed"} \cup (IF Upload THEN {} ELSE {"wrong"})
    /\ Upload /\ answer \in {"success", "lost"} => retained[i] # None
    /\ stored' = IF Upload /\ answer \in {"success", "lost"} THEN stored \cup {i} ELSE stored
    /\ task' = [task EXCEPT ![i] = answer]
    /\ UNCHANGED <<direction, status, app, job, record, retained, published>>

-----------------------------------------------------------------------------
(* Completions *)

\* The completion bit is durable before the retry input is removed
Acknowledge(i) ==
    /\ record' = [record EXCEPT !.done = @ \cup {i}]
    /\ \/ retained' = [retained EXCEPT ![i] = None]
       \/ UNCHANGED retained

\* Faulty variant: any status counts.
CreatedAny(i) == task[i] \in {"success", "failed"} /\ retained[i] = "right"

\* Only 201, and only for the artifact that was sent
Created(i) == task[i] = "success" /\ retained[i] = "right"

\* ingest_upload_completion(): again after a relaunch, for the same operation
IngestUpload(i) ==
    /\ Opened /\ Upload
    /\ Awaiting /\ task[i] \notin {"none", "queued"}
    /\ i \notin record.done /\ Created(i)
    /\ Acknowledge(i)
    /\ UNCHANGED <<direction, status, app, job, task, stored, published>>

\* ingest_download_completion(): the first ciphertext is kept; another is refused
IngestDownload(i) ==
    /\ Opened /\ ~Upload
    /\ Awaiting /\ task[i] \in {"success", "wrong"}
    /\ record.frozen /\ i \in record.selected \ record.done
    /\ retained[i] = None
    /\ retained' = [retained EXCEPT ![i] = IF task[i] = "success" THEN "right" ELSE "wrong"]
    /\ UNCHANGED <<direction, status, app, job, record, task, stored, published>>

\* reconcile_upload(): the ledger, not the callback, decides what is complete
Reconcile ==
    /\ record # None
    /\ StartJob("reconcile")
    /\ UNCHANGED <<direction, status, app, record, retained, task, stored, published>>

Reconciled ==
    /\ job = "reconcile"
    /\ job' = None
    /\ IF Upload /\ Awaiting /\ status
       THEN /\ record' = [record EXCEPT !.done = @ \cup stored]
            /\ retained' = [i \in Item |-> IF i \in record'.done THEN None ELSE retained[i]]
       ELSE UNCHANGED <<record, retained>>
    /\ UNCHANGED <<direction, status, app, task, stored, published>>

-----------------------------------------------------------------------------
(* Foreground finalization *)

Finalize ==
    /\ record # None
    /\ StartJob("finalize")
    /\ UNCHANGED <<direction, status, app, record, retained, task, stored, published>>

FinalizeUpload == Upload /\ Finalize

FinalizeDownload == direction = "download" /\ Finalize

FinalizeInboxDownload(credentials) == direction = "inbox" /\ credentials /\ Finalize

\* Nothing may be pending
Eligible == Listable /\ Pending = {}

\* The job resumes the checkpoint; what it does first is to leave the state
\* in which descriptors are listed
Finalizing ==
    /\ job = "finalize"
    /\ IF Eligible
       THEN record' = [record EXCEPT !.state = "running"] /\ UNCHANGED job
       ELSE job' = None /\ UNCHANGED record
    /\ UNCHANGED <<direction, status, app, retained, task, stored, published>>

\* TransferClient::resume() of the same checkpoint, whatever is left
Resume ==
    /\ record # None /\ record.state # "complete"
    /\ StartJob("resume")
    /\ UNCHANGED <<direction, status, app, record, retained, task, stored, published>>

Resumed ==
    /\ job = "resume" /\ Awaiting
    /\ record' = [record EXCEPT !.state = "running"]
    /\ UNCHANGED <<direction, status, app, job, retained, task, stored, published>>

\* Staged ciphertext is authenticated before anything is published
Authentic == \A i \in record.selected: retained[i] # "wrong"

\* What is left is sent or fetched by the job itself
Finalized ==
    /\ job \in {"finalize", "resume"} /\ record.state = "running"
    /\ job' = None
    /\ IF Upload \/ Authentic
       THEN /\ record' = [record EXCEPT !.state = "complete", !.done = IF Upload THEN Item ELSE @]
            /\ published' = record.selected
            /\ stored' = IF Upload THEN Item ELSE stored
            /\ retained' = [i \in Item |-> None]
       ELSE UNCHANGED <<record, published, stored, retained>>
    /\ UNCHANGED <<direction, status, app, task>>

-----------------------------------------------------------------------------

\* The system kills the application; its tasks go on
Killed ==
    /\ app /\ app' = FALSE /\ job' = None
    /\ UNCHANGED <<direction, status, record, retained, task, stored, published>>

Relaunched ==
    /\ ~app /\ app' = TRUE
    /\ UNCHANGED <<direction, status, job, record, retained, task, stored, published>>

Next ==
    \/ \E valid \in BOOLEAN: \/ PrepareUpload(valid) \/ PrepareUploadSources(valid)
                            \/ PrepareDownload(valid) \/ PrepareInboxDownload(valid)
                            \/ FinalizeInboxDownload(valid)
    \/ Prepared \/ Reconcile \/ Reconciled \/ FinalizeUpload \/ FinalizeDownload \/ Finalizing
    \/ Resume \/ Resumed \/ Finalized
    \/ PendingUploadWork \/ PendingDownloadWork \/ PendingInboxDownloadWork
    \/ \E items \in SUBSET Item: SelectItems(items)
    \/ \E i \in Item: \/ IngestUpload(i) \/ IngestDownload(i)
                      \/ \E answer \in {"success", "lost", "failed", "wrong"}: SystemRuns(i, answer)
    \/ Killed \/ Relaunched

Spec == Init /\ [][Next]_vars

-----------------------------------------------------------------------------

\* Every variable has its type
TypeOK ==
    /\ direction \in {"upload", "download", "inbox"} /\ status \in BOOLEAN /\ app \in BOOLEAN
    /\ job \in {None, "prepare", "reconcile", "finalize", "resume"}
    /\ record \in {None} \cup [state: {"awaiting-execution", "running", "complete"},
                               done: SUBSET Item, selected: SUBSET Item, frozen: BOOLEAN]
    /\ retained \in [Item -> {None, "right", "wrong"}]
    /\ task \in [Item -> {"none", "queued", "success", "lost", "failed", "wrong"}]
    /\ stored \subseteq Item /\ published \subseteq Item

\* A completion advances an upload only when the server has the chunk, and until
\* then its artifact is there to be sent again, after every loss and relaunch
CompletionsSafe ==
    Upload /\ record # None =>
        /\ record.done \subseteq stored
        /\ \A i \in Item \ record.done: retained[i] = "right"

\* The selection is fixed before the first descriptor leaves: the system never
\* fetches an item that is not selected
SelectionFrozen ==
    \A i \in Item: ~Upload /\ task[i] # "none" => record.frozen /\ i \in record.selected
=============================================================================
