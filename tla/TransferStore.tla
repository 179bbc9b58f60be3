--------------------------- MODULE TransferStore ---------------------------
(***************************************************************************)
(* The server-side life of one HTTP transfer: chunk publication into the   *)
(* configured filestores, completion, removal, the deletion job and the    *)
(* scheduled pruning that reclaims upload attempts.                        *)
(*                                                                         *)
(* A database transaction is one step (rows are locked FOR UPDATE, SQLite  *)
(* runs IMMEDIATE transactions); a filestore call is a step of its own, so *)
(* requests, the reaper, queue workers and administrators interleave       *)
(* between them.  Every process may die between two steps.                 *)
(*                                                                         *)
(* Time is abstract: `expired`, `lapsed` and `stale` say which deadlines   *)
(* have passed, and environment steps make them pass.                      *)
(***************************************************************************)
EXTENDS Naturals, FiniteSets

CONSTANTS
  Position,      \* chunk positions of the transfer (all items together)
  Store,         \* filestore ids snapshotted in transfers.filestore_ids
  Content,       \* ciphertexts, identified with their sha256 checksums
  Manifest,      \* encrypted manifests a client may complete with
  Request,       \* concurrent chunk uploads (PHP processes in publish())
  Attempt,       \* upload-attempt ids; an unreferenced one is a new ULID
  Reaper,        \* processes running filebeam:prune-transfers
  Worker,        \* queue workers running DeleteTransfer
  None,
  Mode,          \* placement_mode of the plan, snapshotted at creation
  MaxJobs,       \* the queue never needs to be longer: duplicates saturate
  WritesBounded, \* a provider write ends before the attempt's lease does
  LostCommitAck  \* a COMMIT may take effect and still be reported as failed

ASSUME PlacementAssumption ==
  /\ Mode \in {"replicate", "distribute"}
  /\ Store \subseteq Nat /\ Store # {} /\ IsFiniteSet(Store) /\ IsFiniteSet(Position)
  /\ MaxJobs \in Nat \ {0}
  /\ WritesBounded \in BOOLEAN /\ LostCommitAck \in BOOLEAN

ASSUME NoneAssumption ==
  /\ None \notin Content /\ None \notin Attempt /\ None \notin Manifest
  /\ "partial" \notin Content

VARIABLES
  status,    \* transfers.status; "absent" before creation, "gone" once the row is deleted
  expired,   \* transfers.expires_at is not in the future
  stale,     \* a Deleting row was last touched 15 minutes ago or more
  manifest,  \* transfers.encrypted_manifest
  chunk,     \* transfer_chunks rows: position -> checksum
  counted,   \* transfer_items.ciphertext_bytes, in chunks
  location,  \* transfer_chunk_locations rows
  row,       \* transfer_chunk_uploads rows: attempt -> row
  object,    \* the filestores: storage path (named by its attempt) -> bytes
  req,       \* publish() requests in progress
  reaper,    \* reapUploadAttempts() loops in progress
  jobs,      \* DeleteTransfer jobs waiting in the queue
  worker     \* DeleteTransfer jobs being handled

transferVars == <<status, expired, stale, manifest>>
chunkVars == <<chunk, counted, location>>
jobVars == <<jobs, worker>>
vars == <<transferVars, chunkVars, row, object, req, reaper, jobVars>>

-----------------------------------------------------------------------------
Status == {"absent", "pending", "available", "deleting", "gone"}
Copy == [store : Store, path : Attempt]
Location == [position : Position, store : Store, path : Attempt]
Row == [position : Position, store : Store, lapsed : BOOLEAN,
        reaping : {"no", "fresh", "stale"}]

\* A missing row is no row.
ASSUME RowAssumption == None \notin Row

NoRequest == [pc |-> "idle", position |-> None, content |-> None, todo |-> {}, then |-> "stop"]
RequestState ==
  {NoRequest} \cup [pc : {"put", "commit", "remove", "forget", "acked"}, position : Position,
                    content : Content, todo : SUBSET Copy, then : {"stop", "continue"}]
NoClaim == [pc |-> "idle", attempt |-> None]
ReaperState == {NoClaim} \cup [pc : {"claimed", "deleted"}, attempt : Attempt]
NoJob == [pc |-> "idle", paths |-> {}]
WorkerState == {NoJob} \cup [pc : {"staging", "purge", "finish"}, paths : SUBSET Copy]

TypeOK ==
  /\ status \in Status
  /\ expired \in BOOLEAN /\ stale \in BOOLEAN
  /\ manifest \in Manifest \cup {None}
  /\ chunk \in [Position -> Content \cup {None}]
  /\ counted \in Nat
  /\ location \subseteq Location
  /\ row \in [Attempt -> Row \cup {None}]
  /\ object \in [Attempt -> Content \cup {None, "partial"}]
  /\ req \in [Request -> RequestState]
  /\ reaper \in [Reaper -> ReaperState]
  /\ jobs \in 0..MaxJobs
  /\ worker \in [Worker -> WorkerState]

-----------------------------------------------------------------------------
(* What the handlers compute from the rows.                                *)

Paths == {l.path : l \in location}
Located(p) == {l \in location : l.position = p}
StoredIn(p) == {l.store : l \in Located(p)}

\* published(), and the copy check of complete().
CopiesComplete(p) ==
  IF Mode = "replicate" THEN Store \subseteq StoredIn(p)
                        ELSE Cardinality(Located(p)) = 1

\* ChunkReader::read finds a copy whose size and checksum match the row.
Readable(p) == \E l \in Located(p) : object[l.path] = chunk[p]

\* A new ULID: nothing names it any more.
Fresh(a) ==
  /\ row[a] = None /\ object[a] = None /\ a \notin Paths
  /\ \A r \in Request : \A c \in req[r].todo : c.path # a
  /\ \A k \in Reaper : reaper[k].attempt # a
  /\ \A w \in Worker : \A c \in worker[w].paths : c.path # a

\* Destinations that tx1 of publish() reserves; `enabled` are the filestores
\* an administrator lets accept new placement at that moment.
Reservable(p, enabled) ==
  IF Mode = "replicate"
  THEN LET missing == Store \ StoredIn(p)
       IN IF missing \subseteq enabled THEN {missing} ELSE {}
  ELSE LET reserved == {row[a].store : a \in {b \in Attempt : row[b] # None /\ row[b].position = p}}
       IN {{s} : s \in IF reserved = {} THEN enabled ELSE reserved \cap enabled}

\* The copy a request works on: its attempts are visited by filestore id.
Turn(r, c) == c \in req[r].todo /\ \A d \in req[r].todo : c.store <= d.store

\* Faulty variant: answers 201 after the first copy.
AdvanceEarly(r, c) == [req[r] EXCEPT !.pc = "acked", !.todo = {}]

\* The loop of publish() goes on to the next attempt, or answers 201.
Advance(r, c) == LET rest == req[r].todo \ {c}
                 IN [req[r] EXCEPT !.pc = IF rest = {} THEN "acked" ELSE "put", !.todo = rest]

Queued(n) == IF n < MaxJobs THEN n + 1 ELSE n

\* A dispatch after commit is lost when the process dies in between.
Dispatch == jobs' \in {jobs, Queued(jobs)}

-----------------------------------------------------------------------------
Init ==
  /\ status = "absent" /\ expired = FALSE /\ stale = FALSE /\ manifest = None
  /\ chunk = [p \in Position |-> None] /\ counted = 0 /\ location = {}
  /\ row = [a \in Attempt |-> None] /\ object = [a \in Attempt |-> None]
  /\ req = [r \in Request |-> NoRequest] /\ reaper = [k \in Reaper |-> NoClaim]
  /\ jobs = 0
  /\ worker = [w \in Worker |-> NoJob]

\* TransferController::store reserves the transfer.
Create ==
  /\ status = "absent" /\ status' = "pending"
  /\ UNCHANGED <<expired, stale, manifest, chunkVars, row, object, req, reaper, jobVars>>

-----------------------------------------------------------------------------
(* TransferChunkController::publish, for a direct PUT or a staged chunk.   *)

Accepting == status = "pending" /\ ~expired

\* First transaction: check the position and reserve one attempt per copy.
Reserve(r, p, v) ==
  /\ req[r].pc = "idle" /\ Accepting
  /\ chunk[p] \in {None, v}
  /\ \/ /\ Mode = "distribute" /\ Located(p) # {}
        /\ req' = [req EXCEPT ![r] = [pc |-> "acked", position |-> p, content |-> v,
                                      todo |-> {}, then |-> "stop"]]
        /\ UNCHANGED row
     \/ /\ ~(Mode = "distribute" /\ Located(p) # {})
        /\ \E enabled \in SUBSET Store : \E dest \in Reservable(p, enabled) :
             \E name \in [dest -> Attempt] :
               /\ \A s \in dest : Fresh(name[s])
               /\ \A s, t \in dest : name[s] = name[t] => s = t
               /\ row' = [a \in Attempt |->
                            IF \E s \in dest : name[s] = a
                            THEN [position |-> p, store |-> CHOOSE s \in dest : name[s] = a,
                                  lapsed |-> FALSE, reaping |-> "no"]
                            ELSE row[a]]
               /\ req' = [req EXCEPT ![r] =
                            [pc |-> IF dest = {} THEN "acked" ELSE "put", position |-> p,
                             content |-> v, then |-> "stop",
                             todo |-> {[store |-> s, path |-> name[s]] : s \in dest}]]
  /\ UNCHANGED <<transferVars, chunkVars, object, reaper, jobVars>>

\* disk->put of the next copy succeeds.
Put(r) ==
  /\ req[r].pc = "put"
  /\ \E c \in req[r].todo :
       /\ Turn(r, c)
       /\ object' = [object EXCEPT ![c.path] = req[r].content]
  /\ req' = [req EXCEPT ![r] = [req[r] EXCEPT !.pc = "commit"]]
  /\ UNCHANGED <<transferVars, chunkVars, row, reaper, jobVars>>

\* disk->put fails or the process dies in it: any prefix may be stored.
PutFails(r) ==
  /\ req[r].pc = "put"
  /\ \E c \in req[r].todo :
       /\ Turn(r, c)
       /\ \E left \in {object[c.path], "partial", req[r].content} :
            object' = [object EXCEPT ![c.path] = left]
  /\ req' = [req EXCEPT ![r] = NoRequest]
  /\ UNCHANGED <<transferVars, chunkVars, row, reaper, jobVars>>

\* Faulty variant: does not compare checksums again.
CommitResultUnchecked(r, c) ==
  IF row[c.path] = None \/ status # "pending" \/ expired \/ row[c.path].lapsed THEN "unavailable"
  ELSE IF c.store \in StoredIn(req[r].position) THEN "duplicate" ELSE "accepted"

\* Faulty variant: does not look for an existing copy again.
CommitResultTwice(r, c) ==
  IF row[c.path] = None \/ status # "pending" \/ expired \/ row[c.path].lapsed THEN "unavailable"
  ELSE IF chunk[req[r].position] \notin {None, req[r].content} THEN "conflict" ELSE "accepted"

\* What the second transaction decides for an attempt.
CommitResult(r, c) ==
  LET p == req[r].position
      a == c.path
  IN IF row[a] = None \/ status # "pending" \/ expired \/ row[a].lapsed THEN "unavailable"
     ELSE IF row[a].reaping # "no" THEN "reaping"
     ELSE IF chunk[p] \notin {None, req[r].content} THEN "conflict"
     ELSE IF IF Mode = "distribute" THEN Located(p) # {} ELSE c.store \in StoredIn(p)
          THEN "duplicate"
     ELSE "accepted"

\* Faulty variant: counts the bytes of every copy.
AcceptCopyCounting(r, c) ==
  /\ chunk' = [chunk EXCEPT ![req[r].position] = req[r].content]
  /\ counted' = counted + 1
  /\ location' = location \cup {[position |-> req[r].position, store |-> c.store, path |-> c.path]}
  /\ row' = [row EXCEPT ![c.path] = None]

\* Faulty variant: leaves the attempt to the reaper.
AcceptCopyKeepsRow(r, c) ==
  /\ chunk' = [chunk EXCEPT ![req[r].position] = req[r].content]
  /\ counted' = IF chunk[req[r].position] = None THEN counted + 1 ELSE counted
  /\ location' = location \cup {[position |-> req[r].position, store |-> c.store, path |-> c.path]}
  /\ UNCHANGED row

\* The rows that an accepting second transaction writes.
AcceptCopy(r, c) ==
  LET p == req[r].position
  IN /\ chunk' = [chunk EXCEPT ![p] = req[r].content]
     /\ counted' = IF chunk[p] = None THEN counted + 1 ELSE counted
     /\ location' = location \cup {[position |-> p, store |-> c.store, path |-> c.path]}
     /\ row' = [row EXCEPT ![c.path] = None]

\* The second transaction commits and the loop acts on its result.
Commit(r) ==
  /\ req[r].pc = "commit"
  /\ \E c \in req[r].todo :
       /\ Turn(r, c)
       /\ LET result == CommitResult(r, c)
          IN IF result = "accepted"
             THEN AcceptCopy(r, c) /\ req' = [req EXCEPT ![r] = Advance(r, c)]
             ELSE /\ UNCHANGED <<chunkVars, row>>
                  /\ req' = [req EXCEPT ![r] =
                       IF result = "reaping" THEN NoRequest
                       ELSE [req[r] EXCEPT !.pc = "remove",
                               !.then = IF result = "duplicate" THEN "continue" ELSE "stop"]]
  /\ UNCHANGED <<transferVars, object, reaper, jobVars>>

\* The second transaction throws; the catch block removes the attempt.
CommitThrows(r) ==
  /\ req[r].pc = "commit"
  /\ \/ UNCHANGED <<chunkVars, row>>
     \/ /\ LostCommitAck
        /\ \E c \in req[r].todo :
             Turn(r, c) /\ CommitResult(r, c) = "accepted" /\ AcceptCopy(r, c)
  /\ req' = [req EXCEPT ![r] = [req[r] EXCEPT !.pc = "remove", !.then = "stop"]]
  /\ UNCHANGED <<transferVars, object, reaper, jobVars>>

\* removeAttempt: first the object ...
RemoveObject(r) ==
  /\ req[r].pc = "remove"
  /\ \E c \in req[r].todo :
       /\ Turn(r, c)
       /\ \/ /\ object' = [object EXCEPT ![c.path] = None]
             /\ req' = [req EXCEPT ![r] = [req[r] EXCEPT !.pc = "forget"]]
          \/ /\ UNCHANGED object          \* delete() failed: the request answers 500
             /\ req' = [req EXCEPT ![r] = NoRequest]
  /\ UNCHANGED <<transferVars, chunkVars, row, reaper, jobVars>>

\* ... then its row; a duplicate copy lets the loop go on.
ForgetAttempt(r) ==
  /\ req[r].pc = "forget"
  /\ \E c \in req[r].todo :
       /\ Turn(r, c)
       /\ row' = [row EXCEPT ![c.path] = None]
       /\ req' = [req EXCEPT ![r] = IF req[r].then = "continue" THEN Advance(r, c) ELSE NoRequest]
  /\ UNCHANGED <<transferVars, chunkVars, object, reaper, jobVars>>

\* The response has been sent, or the process died: its memory is gone.
EndRequest(r) ==
  /\ req[r].pc # "idle"
  /\ req' = [req EXCEPT ![r] = NoRequest]
  /\ UNCHANGED <<transferVars, chunkVars, row, object, reaper, jobVars>>

-----------------------------------------------------------------------------
(* TransferController::complete, destroy and consume; staff actions.       *)

Complete(m) ==
  /\ status = "pending" /\ ~expired
  /\ counted = Cardinality(Position) /\ \A p \in Position : chunk[p] # None
  /\ \A p \in Position : CopiesComplete(p)
  /\ status' = "available" /\ manifest' = m /\ expired' = FALSE
  /\ UNCHANGED <<stale, chunkVars, row, object, req, reaper, jobVars>>

\* RemoveTransfer::handle, for the delete token and for a staff takedown.
RemoveTransfer ==
  /\ status \in {"pending", "available"}
  /\ status' = "deleting" /\ stale' = FALSE /\ Dispatch
  /\ UNCHANGED <<expired, manifest, chunkVars, row, object, req, reaper, worker>>

\* A burn-on-read note is consumed by its reader.
Consume ==
  /\ status = "available" /\ ~expired
  /\ status' = "deleting" /\ stale' = FALSE /\ Dispatch
  /\ UNCHANGED <<expired, manifest, chunkVars, row, object, req, reaper, worker>>

\* RetryTransferCleanup queues one more job.
RetryCleanup ==
  /\ status = "deleting" /\ jobs' = Queued(jobs)
  /\ UNCHANGED <<transferVars, chunkVars, row, object, req, reaper, worker>>

-----------------------------------------------------------------------------
(* PruneTransfers: expired transfers, stale deletions, lapsed attempts.    *)

\* Faulty variant: never looks at deletions again.
PruneTransferOnce ==
  /\ status \in {"pending", "available"} /\ expired
  /\ status' = "deleting" /\ stale' = FALSE /\ Dispatch
  /\ UNCHANGED <<expired, manifest, chunkVars, row, object, req, reaper, worker>>

\* The locked row is checked again before it is marked or touched.
PruneTransfer ==
  /\ \/ /\ status \in {"pending", "available"} /\ expired
        /\ status' = "deleting"
     \/ /\ status = "deleting" /\ stale
        /\ UNCHANGED status
  /\ stale' = FALSE /\ Dispatch
  /\ UNCHANGED <<expired, manifest, chunkVars, row, object, req, reaper, worker>>

\* Faulty variant: a claim is never taken over.
ClaimAttemptOnce(k, a) ==
  /\ reaper[k].pc = "idle"
  /\ row[a] # None /\ row[a].lapsed /\ row[a].reaping = "no"
  /\ row' = [row EXCEPT ![a] = [row[a] EXCEPT !.reaping = "fresh"]]
  /\ reaper' = [reaper EXCEPT ![k] = [pc |-> "claimed", attempt |-> a]]
  /\ UNCHANGED <<transferVars, chunkVars, object, req, jobVars>>

\* The claiming transaction of reapUploadAttempts.
ClaimAttempt(k, a) ==
  /\ reaper[k].pc = "idle"
  /\ row[a] # None /\ row[a].lapsed /\ row[a].reaping # "fresh"
  /\ row' = [row EXCEPT ![a] = [row[a] EXCEPT !.reaping = "fresh"]]
  /\ reaper' = [reaper EXCEPT ![k] = [pc |-> "claimed", attempt |-> a]]
  /\ UNCHANGED <<transferVars, chunkVars, object, req, jobVars>>

Claimed(a) == row[a] # None /\ row[a].reaping # "no"

ReapObject(k) ==
  /\ reaper[k].pc = "claimed"
  /\ object' = [object EXCEPT ![reaper[k].attempt] = None]
  /\ reaper' = [reaper EXCEPT ![k] = [reaper[k] EXCEPT !.pc = "deleted"]]
  /\ UNCHANGED <<transferVars, chunkVars, row, req, jobVars>>

\* The filestore refused: the claim is handed back for another pass.
ReapFails(k) ==
  /\ reaper[k].pc = "claimed"
  /\ LET a == reaper[k].attempt
     IN row' = IF Claimed(a) THEN [row EXCEPT ![a] = [row[a] EXCEPT !.reaping = "no"]] ELSE row
  /\ reaper' = [reaper EXCEPT ![k] = NoClaim]
  /\ UNCHANGED <<transferVars, chunkVars, object, req, jobVars>>

\* The row goes only while it is still claimed.
ReapRow(k) ==
  /\ reaper[k].pc = "deleted"
  /\ LET a == reaper[k].attempt
     IN row' = IF Claimed(a) THEN [row EXCEPT ![a] = None] ELSE row
  /\ reaper' = [reaper EXCEPT ![k] = NoClaim]
  /\ UNCHANGED <<transferVars, chunkVars, object, req, jobVars>>

ReaperDies(k) ==
  /\ reaper[k].pc # "idle"
  /\ reaper' = [reaper EXCEPT ![k] = NoClaim]
  /\ UNCHANGED <<transferVars, chunkVars, row, object, req, jobVars>>

-----------------------------------------------------------------------------
(* The DeleteTransfer job.                                                 *)

\* Only a Deleting transfer is loaded, with its locations.
LoadJob(w) ==
  /\ worker[w].pc = "idle" /\ jobs > 0 /\ jobs' = jobs - 1
  /\ worker' = IF status # "deleting" THEN worker
               ELSE [worker EXCEPT ![w] =
                      [pc |-> "staging", paths |-> {[store |-> l.store, path |-> l.path] : l \in location}]]
  /\ UNCHANGED <<transferVars, chunkVars, row, object, req, reaper>>

\* ChunkStaging::removeTransfer has removed the staged parts.
StagingRemoved(w) ==
  /\ worker[w].pc = "staging"
  /\ worker' = [worker EXCEPT ![w] =
                 [worker[w] EXCEPT !.pc = IF worker[w].paths = {} THEN "finish" ELSE "purge"]]
  /\ UNCHANGED <<transferVars, chunkVars, row, object, req, reaper, jobs>>

\* All copies of one filestore are deleted with one call.
PurgeStore(w) ==
  /\ worker[w].pc = "purge"
  /\ \E c \in worker[w].paths :
       LET copies == {d \in worker[w].paths : d.store = c.store}
           rest == worker[w].paths \ copies
       IN /\ object' = [a \in Attempt |-> IF \E d \in copies : d.path = a THEN None ELSE object[a]]
          /\ worker' = [worker EXCEPT ![w] = [pc |-> IF rest = {} THEN "finish" ELSE "purge", paths |-> rest]]
  /\ UNCHANGED <<transferVars, chunkVars, row, req, reaper, jobs>>

\* A failing call may have deleted some of the copies.  The job throws, and
\* is released to the queue unless that was its last try.
JobFails(w) ==
  /\ worker[w].pc # "idle"
  /\ \E lost \in SUBSET worker[w].paths :
       /\ worker[w].pc # "purge" => lost = {}
       /\ \A c, d \in lost : c.store = d.store
       /\ object' = [a \in Attempt |-> IF \E d \in lost : d.path = a THEN None ELSE object[a]]
  /\ jobs' \in {jobs, Queued(jobs)}
  /\ worker' = [worker EXCEPT ![w] = NoJob]
  /\ UNCHANGED <<transferVars, chunkVars, row, req, reaper>>

\* finish(): archive and delete the row; items, chunks and locations cascade.
Finish(w) ==
  /\ worker[w].pc = "finish"
  /\ worker' = [worker EXCEPT ![w] = NoJob]
  /\ IF status = "deleting"
     THEN /\ status' = "gone" /\ stale' = FALSE /\ manifest' = None
          /\ chunk' = [p \in Position |-> None] /\ counted' = 0 /\ location' = {}
          /\ UNCHANGED expired
     ELSE UNCHANGED <<transferVars, chunkVars>>
  /\ UNCHANGED <<row, object, req, reaper, jobs>>

-----------------------------------------------------------------------------
(* Deadlines.                                                              *)

Expire ==
  /\ status \in {"pending", "available"} /\ ~expired /\ expired' = TRUE
  /\ UNCHANGED <<status, stale, manifest, chunkVars, row, object, req, reaper, jobVars>>

GoStale ==
  /\ status = "deleting" /\ ~stale /\ stale' = TRUE
  /\ UNCHANGED <<status, expired, manifest, chunkVars, row, object, req, reaper, jobVars>>

\* Attempt leases cover all sequential replica writes of their request.
LeaseLapses(a) ==
  /\ row[a] # None /\ ~row[a].lapsed
  /\ WritesBounded => \A r \in Request : req[r].pc \in {"put", "commit"} =>
                        \A c \in req[r].todo : c.path # a
  /\ row' = [row EXCEPT ![a] = [row[a] EXCEPT !.lapsed = TRUE]]
  /\ UNCHANGED <<transferVars, chunkVars, object, req, reaper, jobVars>>

ClaimGoesStale(a) ==
  /\ row[a] # None /\ row[a].reaping = "fresh"
  /\ row' = [row EXCEPT ![a] = [row[a] EXCEPT !.reaping = "stale"]]
  /\ UNCHANGED <<transferVars, chunkVars, object, req, reaper, jobVars>>

-----------------------------------------------------------------------------
RequestStep(r) ==
  \/ Put(r) \/ PutFails(r) \/ Commit(r) \/ CommitThrows(r)
  \/ RemoveObject(r) \/ ForgetAttempt(r) \/ EndRequest(r)
  \/ \E p \in Position, v \in Content : Reserve(r, p, v)

ReaperStep(k) ==
  \/ \E a \in Attempt : ClaimAttempt(k, a)
  \/ ReapObject(k) \/ ReapFails(k) \/ ReapRow(k) \/ ReaperDies(k)

WorkerStep(w) == LoadJob(w) \/ StagingRemoved(w) \/ PurgeStore(w) \/ JobFails(w) \/ Finish(w)

Next ==
  \/ Create
  \/ \E r \in Request : RequestStep(r)
  \/ \E m \in Manifest : Complete(m)
  \/ RemoveTransfer \/ Consume \/ RetryCleanup \/ PruneTransfer
  \/ \E k \in Reaper : ReaperStep(k)
  \/ \E w \in Worker : WorkerStep(w)
  \/ Expire \/ GoStale
  \/ \E a \in Attempt : LeaseLapses(a) \/ ClaimGoesStale(a)

Spec == Init /\ [][Next]_vars

\* Cron keeps pruning and the queue keeps being worked; filestores do not
\* fail, and dispatches are not lost, for ever; the 15 minutes pass.
RemovalFairness ==
  /\ SF_vars(PruneTransfer /\ jobs' > 0) /\ WF_vars(GoStale)
  /\ \A w \in Worker : /\ WF_vars(LoadJob(w)) /\ SF_vars(StagingRemoved(w))
                       /\ SF_vars(PurgeStore(w)) /\ SF_vars(PurgeStore(w) /\ worker'[w].pc = "finish")
                       /\ SF_vars(Finish(w))

\* Requests end, leases lapse, and every pruning pass visits each lapsed attempt.
ReapingFairness ==
  /\ \A r \in Request : WF_vars(RequestStep(r))
  /\ \A a \in Attempt : WF_vars(LeaseLapses(a)) /\ WF_vars(ClaimGoesStale(a))
  /\ \A k \in Reaper : /\ \A a \in Attempt : SF_vars(ClaimAttempt(k, a))
                       /\ SF_vars(ReapObject(k)) /\ SF_vars(ReapRow(k))

FairSpec == Spec /\ RemovalFairness /\ ReapingFairness

-----------------------------------------------------------------------------
(* Properties.                                                             *)

Live == status \in {"pending", "available"}

\* While a transfer is live, every location row is backed by an object that
\* holds exactly the chunk's ciphertext: neither the clean-up of a losing or
\* failed attempt, nor the reaper, nor a late deletion job ever deletes or
\* replaces the object of an accepted copy.
LocationBacked == Live => \A l \in location : object[l.path] = chunk[l.position]

\* An available transfer has every required copy of every chunk, and a chunk
\* read finds a valid one.
AvailableReadable == status = "available" => \A p \in Position : CopiesComplete(p) /\ Readable(p)

\* A chunk request is answered 201 only when its own ciphertext is published
\* with all required copies, whatever the other requests and the reaper did
\* in the meantime.
AcknowledgedPublished ==
  \A r \in Request : req[r].pc = "acked" /\ Live =>
    chunk[req[r].position] = req[r].content /\ CopiesComplete(req[r].position) /\ Readable(req[r].position)

\* Placement is exact: at most one copy of a chunk per filestore, one in all
\* when distributed, and concurrent attempts keep the first destination.
PlacementExact ==
  /\ \A l, m \in location :
       l.position = m.position /\ (l.store = m.store \/ Mode = "distribute") => l = m
  /\ Mode = "distribute" =>
       \A a, b \in Attempt : row[a] # None /\ row[b] # None /\ row[a].position = row[b].position
                               => row[a].store = row[b].store

\* The item's byte counter counts each logical chunk once, however many
\* copies and duplicate uploads it had; otherwise complete() would refuse a
\* finished upload for ever.
CountedOnce == status # "gone" => counted = Cardinality({p \in Position : chunk[p] # None})

\* TransferController::complete(): the bytes of each chunk are counted once, so that a
\* finished upload is accepted, and what was accepted can be read in full.
CompletionReadable == AvailableReadable /\ CountedOnce

\* With provider writes bounded by the lease, no stored object is ever beyond
\* reach: an attempt row or a location still names it.
Reclaimable == \A a \in Attempt : object[a] # None => row[a] # None \/ a \in Paths

\* With one copy of each chunk, and writes bounded by the lease: concurrent
\* attempts keep the first destination, and nothing that was stored is lost
\* from sight, also when the answer to a commit is lost.
DistributionExact == PlacementExact /\ Reclaimable

\* The deletion job never drops the rows of a transfer whose objects remain.
NoOrphanAtFinish == status' = "gone" => \A a \in Paths : object[a] = None

\* Accepted copies are safe while the transfer is live, and their rows outlive
\* them when it is removed.
ReplicasSafe == [](TypeOK /\ LocationBacked) /\ [][NoOrphanAtFinish]_vars

\* Removal terminates: a transfer that is being deleted is eventually gone,
\* although dispatches are lost, jobs exhaust their tries and workers die.
RemovalTerminates == status = "deleting" ~> status = "gone"

\* After that, every attempt row and every object is eventually reclaimed,
\* including those of requests that died between a write and its commit.
Drained == status = "gone" ~> \A a \in Attempt : row[a] = None /\ object[a] = None

\* The transfer as its users see it.
Ciphertexts == INSTANCE CiphertextStore WITH
  phase <- CASE status = "pending" -> "open" [] status = "available" -> "sealed"
             [] status = "deleting" -> "closed" [] OTHER -> status,
  value <- chunk, seal <- manifest

\* Whatever the interleaving, the rows behave as a write-once store that is
\* sealed once and then only closed and erased.
ImplementsCiphertextStore == Ciphertexts!Spec
=============================================================================
