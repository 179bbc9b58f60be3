------------------------ MODULE TransferStoreProofs ------------------------
(***************************************************************************)
(* Proofs about TransferStore for every set of positions, filestores,      *)
(* contents, requests, attempts, reapers and workers: types, who owns an   *)
(* object, the refinement of CiphertextStore, and what an acknowledged     *)
(* chunk, a completed and a removed transfer promise.                      *)
(***************************************************************************)
EXTENDS TransferStore, FiniteSetTheorems, TLAPS

(* What a request, a reaper and a worker look like when they are busy.     *)

Busy == [pc : {"put", "commit", "remove", "forget", "acked"}, position : Position,
         content : Content, todo : SUBSET Copy, then : {"stop", "continue"}]

\* A request that is not idle carries a position, a ciphertext and its copies.
LEMMA BusyRequest ==
  ASSUME TypeOK, NEW r \in Request, req[r].pc # "idle"
  PROVE  req[r] \in Busy
  BY DEF TypeOK, RequestState, NoRequest, Busy

\* The idle request is typed and has no copies to store.
LEMMA IdleRequest == NoRequest.pc = "idle" /\ NoRequest.todo = {} /\ NoRequest \in RequestState
  BY DEF NoRequest, RequestState

\* Replacing one request by a typed one keeps them all typed.
LEMMA RequestTyped ==
  ASSUME TypeOK, NEW r \in Request, NEW x \in RequestState
  PROVE  [req EXCEPT ![r] = x] \in [Request -> RequestState]
  BY DEF TypeOK

\* A busy request stays typed when it moves to another point of the upload loop.
LEMMA MovedRequest ==
  ASSUME TypeOK, NEW r \in Request, req[r].pc # "idle",
         NEW pc \in {"put", "commit", "remove", "forget", "acked"}
  PROVE  /\ [req[r] EXCEPT !.pc = pc] \in RequestState
         /\ \A then \in {"stop", "continue"} : [req[r] EXCEPT !.pc = pc, !.then = then] \in RequestState
         /\ \A todo \in SUBSET Copy : [req[r] EXCEPT !.pc = pc, !.todo = todo] \in RequestState
  <1>1. req[r] \in Busy
    BY BusyRequest
  <1>2. [req[r] EXCEPT !.pc = pc] \in Busy
    BY <1>1 DEF Busy
  <1>3. ASSUME NEW then \in {"stop", "continue"}
        PROVE  [req[r] EXCEPT !.pc = pc, !.then = then] \in Busy
    BY <1>1 DEF Busy
  <1>4. ASSUME NEW todo \in SUBSET Copy
        PROVE  [req[r] EXCEPT !.pc = pc, !.todo = todo] \in Busy
    BY <1>1 DEF Busy
  <1> QED
    BY <1>2, <1>3, <1>4 DEF RequestState, Busy

\* A request that is done with one copy and takes up the next stays typed.
LEMMA AdvanceTyped ==
  ASSUME TypeOK, NEW r \in Request, req[r].pc # "idle", NEW c
  PROVE  Advance(r, c) \in RequestState
  <1>1. req[r].todo \ {c} \in SUBSET Copy
    BY BusyRequest DEF Busy
  <1> QED
    BY <1>1, MovedRequest DEF Advance

\* A pruning run that is not idle holds the attempt it has claimed.
LEMMA BusyReaper ==
  ASSUME TypeOK, NEW k \in Reaper, reaper[k].pc # "idle"
  PROVE  reaper[k].pc \in {"claimed", "deleted"} /\ reaper[k].attempt \in Attempt
  BY DEF TypeOK, ReaperState, NoClaim

\* A deletion job holds paths of stored copies.
LEMMA BusyWorker ==
  ASSUME TypeOK, NEW w \in Worker
  PROVE  worker[w].paths \subseteq Copy
  BY DEF TypeOK, WorkerState, NoJob

-----------------------------------------------------------------------------
(* Type correctness.                                                       *)

\* No transfer, no rows and idle processes are typed.
LEMMA TypeInit == Init => TypeOK
  <1> SUFFICES ASSUME Init PROVE TypeOK
    OBVIOUS
  <1>1. NoClaim \in ReaperState /\ NoJob \in WorkerState
    BY DEF ReaperState, WorkerState
  <1>2. req \in [Request -> RequestState] /\ reaper \in [Reaper -> ReaperState] /\ worker \in [Worker -> WorkerState]
    BY <1>1, IdleRequest DEF Init
  <1>3. jobs \in 0..MaxJobs /\ counted \in Nat
    BY PlacementAssumption DEF Init
  <1>4. status \in Status /\ expired \in BOOLEAN /\ stale \in BOOLEAN /\ manifest \in Manifest \cup {None}
    BY DEF Init, Status
  <1>5. /\ chunk \in [Position -> Content \cup {None}] /\ location \subseteq Location
        /\ row \in [Attempt -> Row \cup {None}] /\ object \in [Attempt -> Content \cup {None, "partial"}]
    BY DEF Init
  <1> QED
    BY <1>2, <1>3, <1>4, <1>5 DEF TypeOK

\* The steps of an upload request keep the types.
LEMMA TypeRequest ==
  ASSUME TypeOK, NEW r \in Request, RequestStep(r)
  PROVE  TypeOK'
  <1> USE DEF transferVars, chunkVars, jobVars
  <1>1. CASE Put(r)
    <2>1. PICK c \in req[r].todo : object' = [object EXCEPT ![c.path] = req[r].content]
      BY <1>1 DEF Put
    <2>2. object' \in [Attempt -> Content \cup {None, "partial"}]
      BY <1>1, <2>1, BusyRequest DEF Put, Busy, TypeOK
    <2>3. req' \in [Request -> RequestState]
      BY <1>1, MovedRequest, RequestTyped DEF Put
    <2> QED
      BY <1>1, <2>2, <2>3 DEF Put, TypeOK
  <1>2. CASE PutFails(r)
    <2>1. PICK c \in req[r].todo : \E left \in {object[c.path], "partial", req[r].content} :
            object' = [object EXCEPT ![c.path] = left]
      BY <1>2 DEF PutFails
    <2>2. c.path \in Attempt /\ req[r].content \in Content
      BY <1>2, BusyRequest DEF PutFails, Busy, Copy
    <2>3. object' \in [Attempt -> Content \cup {None, "partial"}]
      BY <2>1, <2>2 DEF TypeOK
    <2>4. req' \in [Request -> RequestState]
      BY <1>2, IdleRequest, RequestTyped DEF PutFails
    <2> QED
      BY <1>2, <2>3, <2>4 DEF PutFails, TypeOK
  <1>3. CASE Commit(r)
    <2>1. PICK c \in req[r].todo :
            LET result == CommitResult(r, c)
            IN IF result = "accepted"
               THEN AcceptCopy(r, c) /\ req' = [req EXCEPT ![r] = Advance(r, c)]
               ELSE /\ UNCHANGED <<chunkVars, row>>
                    /\ req' = [req EXCEPT ![r] =
                         IF result = "reaping" THEN NoRequest
                         ELSE [req[r] EXCEPT !.pc = "remove",
                                 !.then = IF result = "duplicate" THEN "continue" ELSE "stop"]]
      BY <1>3 DEF Commit
    <2>2. req[r] \in Busy /\ c \in Copy
      BY <1>3, BusyRequest DEF Commit, Busy
    <2>3. chunk' \in [Position -> Content \cup {None}] /\ counted' \in Nat
          /\ location' \subseteq Location /\ row' \in [Attempt -> Row \cup {None}]
      BY <2>1, <2>2 DEF AcceptCopy, TypeOK, Busy, Copy, Location
    <2>4. req' \in [Request -> RequestState]
      <3>1. CASE CommitResult(r, c) = "accepted"
        BY <1>3, <2>1, <3>1, AdvanceTyped, RequestTyped DEF Commit
      <3>2. CASE CommitResult(r, c) = "reaping"
        BY <2>1, <3>2, IdleRequest, RequestTyped
      <3>3. CASE CommitResult(r, c) \notin {"accepted", "reaping"}
        <4>1. \A then \in {"stop", "continue"} : [req[r] EXCEPT !.pc = "remove", !.then = then] \in RequestState
          BY <1>3, MovedRequest DEF Commit
        <4> QED
          BY <2>1, <3>3, <4>1, RequestTyped
      <3> QED
        BY <3>1, <3>2, <3>3
    <2> QED
      BY <1>3, <2>3, <2>4 DEF Commit, TypeOK
  <1>4. CASE CommitThrows(r)
    <2>1. req[r] \in Busy
      BY <1>4, BusyRequest DEF CommitThrows
    <2>2. chunk' \in [Position -> Content \cup {None}] /\ counted' \in Nat
          /\ location' \subseteq Location /\ row' \in [Attempt -> Row \cup {None}]
      BY <1>4, <2>1 DEF CommitThrows, AcceptCopy, TypeOK, Busy, Copy, Location
    <2>3. req' \in [Request -> RequestState]
      BY <1>4, MovedRequest, RequestTyped DEF CommitThrows
    <2> QED
      BY <1>4, <2>2, <2>3 DEF CommitThrows, TypeOK
  <1>5. CASE RemoveObject(r)
    <2>1. object' \in [Attempt -> Content \cup {None, "partial"}]
      BY <1>5 DEF RemoveObject, TypeOK
    <2>2. [req[r] EXCEPT !.pc = "forget"] \in RequestState
      BY <1>5, MovedRequest DEF RemoveObject
    <2>3. req' \in [Request -> RequestState]
      BY <1>5, <2>2, IdleRequest, RequestTyped DEF RemoveObject
    <2> QED
      BY <1>5, <2>1, <2>3 DEF RemoveObject, TypeOK
  <1>6. CASE ForgetAttempt(r)
    <2>1. row' \in [Attempt -> Row \cup {None}]
      BY <1>6 DEF ForgetAttempt, TypeOK
    <2>2. req' \in [Request -> RequestState]
      BY <1>6, AdvanceTyped, IdleRequest, RequestTyped DEF ForgetAttempt
    <2> QED
      BY <1>6, <2>1, <2>2 DEF ForgetAttempt, TypeOK
  <1>7. CASE EndRequest(r)
    <2>1. req' \in [Request -> RequestState]
      BY <1>7, IdleRequest, RequestTyped DEF EndRequest
    <2> QED
      BY <1>7, <2>1 DEF EndRequest, TypeOK
  <1>8. ASSUME NEW p \in Position, NEW v \in Content, Reserve(r, p, v)
        PROVE  TypeOK'
    <2>1. CASE req' = [req EXCEPT ![r] = [pc |-> "acked", position |-> p, content |-> v,
                                          todo |-> {}, then |-> "stop"]] /\ UNCHANGED row
      <3>1. req' \in [Request -> RequestState]
        BY <2>1, RequestTyped DEF RequestState
      <3> QED
        BY <1>8, <2>1, <3>1 DEF Reserve, TypeOK
    <2>2. ASSUME NEW enabled \in SUBSET Store, NEW dest \in Reservable(p, enabled), NEW name \in [dest -> Attempt],
                 row' = [a \in Attempt |->
                            IF \E s \in dest : name[s] = a
                            THEN [position |-> p, store |-> CHOOSE s \in dest : name[s] = a,
                                  lapsed |-> FALSE, reaping |-> "no"]
                            ELSE row[a]],
                 req' = [req EXCEPT ![r] =
                            [pc |-> IF dest = {} THEN "acked" ELSE "put", position |-> p,
                             content |-> v, then |-> "stop",
                             todo |-> {[store |-> s, path |-> name[s]] : s \in dest}]]
          PROVE  TypeOK'
      <3>1. dest \subseteq Store
        BY <2>2 DEF Reservable
      <3>2. row' \in [Attempt -> Row \cup {None}]
        <4>1. \A a \in Attempt : (\E s \in dest : name[s] = a) => (CHOOSE s \in dest : name[s] = a) \in dest
          OBVIOUS
        <4> QED
          BY <2>2, <3>1, <4>1 DEF TypeOK, Row
      <3>3. req' \in [Request -> RequestState]
        <4>1. {[store |-> s, path |-> name[s]] : s \in dest} \in SUBSET Copy
          BY <3>1 DEF Copy
        <4> QED
          BY <2>2, <4>1, RequestTyped DEF RequestState
      <3> QED
        BY <1>8, <3>2, <3>3 DEF Reserve, TypeOK
    <2> QED
      BY <1>8, <2>1, <2>2 DEF Reserve
  <1> QED
    BY <1>1, <1>2, <1>3, <1>4, <1>5, <1>6, <1>7, <1>8 DEF RequestStep

\* The steps of attempt pruning keep the types.
LEMMA TypeReaper ==
  ASSUME TypeOK, NEW k \in Reaper, ReaperStep(k)
  PROVE  TypeOK'
  <1> USE DEF transferVars, chunkVars, jobVars
  <1>1. ASSUME NEW a \in Attempt, ClaimAttempt(k, a)
        PROVE  TypeOK'
    BY <1>1 DEF ClaimAttempt, TypeOK, Row, ReaperState
  <1>2. CASE ReapObject(k)
    BY <1>2, BusyReaper DEF ReapObject, TypeOK, ReaperState, NoClaim
  <1>3. CASE ReapFails(k)
    BY <1>3, BusyReaper DEF ReapFails, TypeOK, Row, Claimed, ReaperState
  <1>4. CASE ReapRow(k)
    BY <1>4 DEF ReapRow, TypeOK, ReaperState
  <1>5. CASE ReaperDies(k)
    BY <1>5 DEF ReaperDies, TypeOK, ReaperState
  <1> QED
    BY <1>1, <1>2, <1>3, <1>4, <1>5 DEF ReaperStep

\* The steps of the deletion job keep the types.
LEMMA TypeWorker ==
  ASSUME TypeOK, NEW w \in Worker, WorkerStep(w)
  PROVE  TypeOK'
  <1> USE DEF transferVars, chunkVars, jobVars
  <1>1. CASE LoadJob(w)
    <2>1. {[store |-> l.store, path |-> l.path] : l \in location} \in SUBSET Copy
      BY DEF TypeOK, Location, Copy
    <2>2. worker' \in [Worker -> WorkerState]
      BY <1>1, <2>1 DEF LoadJob, TypeOK, WorkerState
    <2>3. jobs' \in 0..MaxJobs
      BY <1>1, PlacementAssumption DEF LoadJob, TypeOK
    <2> QED
      BY <1>1, <2>2, <2>3 DEF LoadJob, TypeOK
  <1>2. CASE StagingRemoved(w)
    <2>1. [worker[w] EXCEPT !.pc = IF worker[w].paths = {} THEN "finish" ELSE "purge"] \in WorkerState
      BY <1>2 DEF StagingRemoved, TypeOK, WorkerState, NoJob
    <2> QED
      BY <1>2, <2>1 DEF StagingRemoved, TypeOK
  <1>3. CASE PurgeStore(w)
    BY <1>3, BusyWorker DEF PurgeStore, TypeOK, WorkerState
  <1>4. CASE JobFails(w)
    <2>1. jobs' \in 0..MaxJobs
      BY <1>4, PlacementAssumption DEF JobFails, Queued, TypeOK
    <2>2. object' \in [Attempt -> Content \cup {None, "partial"}]
      BY <1>4 DEF JobFails, TypeOK
    <2> QED
      BY <1>4, <2>1, <2>2 DEF JobFails, TypeOK, WorkerState
  <1>5. CASE Finish(w)
    <2>1. worker' \in [Worker -> WorkerState]
      BY <1>5 DEF Finish, TypeOK, WorkerState
    <2>2. status' \in Status /\ expired' \in BOOLEAN /\ stale' \in BOOLEAN /\ manifest' \in Manifest \cup {None}
      BY <1>5 DEF Finish, TypeOK, Status
    <2>3. chunk' \in [Position -> Content \cup {None}] /\ counted' \in Nat /\ location' \subseteq Location
      BY <1>5 DEF Finish, TypeOK
    <2> QED
      BY <1>5, <2>1, <2>2, <2>3 DEF Finish, TypeOK
  <1> QED
    BY <1>1, <1>2, <1>3, <1>4, <1>5 DEF WorkerStep

\* The steps that touch the transfer's row or the clocks keep the types.
LEMMA TypeOther ==
  ASSUME TypeOK,
         \/ Create \/ (\E m \in Manifest : Complete(m))
         \/ RemoveTransfer \/ Consume \/ RetryCleanup \/ PruneTransfer \/ Expire \/ GoStale
         \/ \E a \in Attempt : LeaseLapses(a) \/ ClaimGoesStale(a)
  PROVE  TypeOK'
  <1> USE DEF transferVars, chunkVars, jobVars
  <1>1. \A n \in 0..MaxJobs : Queued(n) \in 0..MaxJobs
    BY PlacementAssumption DEF Queued
  <1>2. CASE Create \/ (\E m \in Manifest : Complete(m))
    BY <1>2 DEF Create, Complete, TypeOK, Status
  <1>3. CASE RemoveTransfer \/ Consume \/ RetryCleanup \/ PruneTransfer
    BY <1>1, <1>3 DEF RemoveTransfer, Consume, RetryCleanup, PruneTransfer, Dispatch, TypeOK, Status
  <1>4. CASE Expire \/ GoStale
    BY <1>4 DEF Expire, GoStale, TypeOK
  <1>5. ASSUME NEW a \in Attempt, LeaseLapses(a) \/ ClaimGoesStale(a)
        PROVE  TypeOK'
    <2>1. row[a] \in Row
      BY <1>5 DEF LeaseLapses, ClaimGoesStale, TypeOK
    <2>2. [row[a] EXCEPT !.lapsed = TRUE] \in Row /\ [row[a] EXCEPT !.reaping = "stale"] \in Row
      BY <2>1 DEF Row
    <2>3. row' \in [Attempt -> Row \cup {None}]
      BY <1>5, <2>2 DEF LeaseLapses, ClaimGoesStale, TypeOK
    <2> QED
      BY <1>5, <2>3 DEF LeaseLapses, ClaimGoesStale, TypeOK
  <1> QED
    BY <1>2, <1>3, <1>4, <1>5

\* Every step keeps the types.
LEMMA TypeStep == TypeOK /\ [Next]_vars => TypeOK'
  <1>1. TypeOK /\ UNCHANGED vars => TypeOK'
    BY DEF vars, transferVars, chunkVars, jobVars, TypeOK
  <1> QED
    BY <1>1, TypeRequest, TypeReaper, TypeWorker, TypeOther DEF Next

\* Type correctness of the rows, the objects and the program counters of all
\* processes.
THEOREM TypeCorrect == Spec => []TypeOK
  BY TypeInit, TypeStep, PTL DEF Spec
-----------------------------------------------------------------------------
(* The inductive invariant behind LocationBacked: an object path has one    *)
(* owner at a time, a location, a request or the reaper.                    *)

\* Requests work on paths of their own, which no location names, one per
\* filestore.
TodoApart ==
  \A r \in Request : \A c \in req[r].todo :
    /\ c.path \notin Paths
    /\ \A q \in Request : \A d \in req[q].todo : c.path = d.path => r = q /\ c = d
    /\ \A d \in req[r].todo : c.store = d.store => c = d

\* An accepted attempt has lost its row, so pruning cannot find it.
RowsApart == \A a \in Attempt : row[a] # None => a \notin Paths

\* A claimed attempt can no longer be accepted, and never was.
ReapedApart ==
  \A k \in Reaper : reaper[k].pc # "idle" =>
    /\ reaper[k].attempt \notin Paths
    /\ row[reaper[k].attempt] # None => row[reaper[k].attempt].lapsed

\* A deletion job runs only when the transfer is no longer live.
JobsAfterRemoval == \A w \in Worker : worker[w].pc # "idle" => status \in {"deleting", "gone"}

\* An attempt that can still be accepted has its whole ciphertext stored.
WrittenBeforeCommit ==
  Live => \A r \in Request : req[r].pc = "commit" =>
    \A c \in req[r].todo : Turn(r, c) =>
      \/ row[c.path] = None
      \/ row[c.path].lapsed
      \/ object[c.path] = req[r].content

\* Nothing happens before the transfer has been created.
NothingYet == status = "absent" => location = {} /\ \A r \in Request : req[r] = NoRequest

\* A location belongs to a chunk row.
LocatedChunks == \A l \in location : chunk[l.position] # None

OwnershipInv ==
  /\ TypeOK /\ TodoApart /\ RowsApart /\ ReapedApart /\ JobsAfterRemoval
  /\ WrittenBeforeCommit /\ NothingYet /\ LocatedChunks /\ LocationBacked

\* Nothing owns a path before the first request.
LEMMA OwnershipInit == Init => OwnershipInv
  <1> SUFFICES ASSUME Init PROVE OwnershipInv
    OBVIOUS
  <1>1. \A r \in Request : req[r] = NoRequest /\ req[r].todo = {} /\ req[r].pc = "idle"
    BY IdleRequest DEF Init
  <1>2. TodoApart /\ WrittenBeforeCommit /\ NothingYet
    BY <1>1 DEF TodoApart, WrittenBeforeCommit, NothingYet, Init
  <1>3. RowsApart /\ ReapedApart /\ JobsAfterRemoval /\ LocatedChunks /\ LocationBacked
    BY DEF RowsApart, ReapedApart, JobsAfterRemoval, LocatedChunks, LocationBacked, Init, NoClaim, NoJob
  <1> QED
    BY <1>2, <1>3, TypeInit DEF OwnershipInv

\* Steps that leave locations, requests, attempts and objects alone keep the
\* invariant, if they do not bring the transfer back to life.
LEMMA OwnershipQuiet ==
  ASSUME OwnershipInv, TypeOK', UNCHANGED <<location, chunk, row, object, req, reaper>>,
         status' # status => status # "absent" /\ status' # "absent",
         status' = status \/ status' \in {"deleting", "gone"} \/ (status = "pending" /\ status' = "available"),
         \A w \in Worker : worker'[w].pc # "idle" => worker[w].pc # "idle" \/ status = "deleting"
  PROVE  OwnershipInv'
  <1>1. Paths' = Paths
    BY DEF Paths
  <1>2. TodoApart'
    BY <1>1 DEF OwnershipInv, TodoApart
  <1>3. RowsApart' /\ ReapedApart'
    BY <1>1 DEF OwnershipInv, RowsApart, ReapedApart
  <1>4. JobsAfterRemoval'
    BY DEF OwnershipInv, JobsAfterRemoval
  <1>5. Live' => Live
    BY DEF Live
  <1>6. WrittenBeforeCommit'
    BY <1>5 DEF OwnershipInv, WrittenBeforeCommit, Turn
  <1>7. NothingYet' /\ LocatedChunks' /\ LocationBacked'
    BY <1>5 DEF OwnershipInv, NothingYet, LocatedChunks, LocationBacked
  <1> QED
    BY <1>2, <1>3, <1>4, <1>6, <1>7 DEF OwnershipInv

\* The same for a step that only replaces the state of one request, keeping
\* some of its copies and never entering the commit.
LEMMA OwnershipRequestOnly ==
  ASSUME OwnershipInv, TypeOK', NEW r \in Request, NEW x,
         UNCHANGED <<transferVars, chunkVars, row, object, reaper, jobVars>>,
         req' = [req EXCEPT ![r] = x], x.todo \subseteq req[r].todo, x.pc # "commit",
         status # "absent"
  PROVE  OwnershipInv'
  <1> USE DEF transferVars, chunkVars, jobVars
  <1>1. Paths' = Paths
    BY DEF Paths
  <1>2. \A q \in Request : req'[q].todo \subseteq req[q].todo
    BY DEF OwnershipInv, TypeOK
  <1>3. TodoApart'
    BY <1>1, <1>2 DEF OwnershipInv, TodoApart
  <1>4. RowsApart' /\ ReapedApart' /\ JobsAfterRemoval'
    BY <1>1 DEF OwnershipInv, RowsApart, ReapedApart, JobsAfterRemoval
  <1>5. WrittenBeforeCommit'
    <2>1. \A q \in Request : req'[q].pc = "commit" => req'[q] = req[q]
      BY DEF OwnershipInv, TypeOK
    <2> QED
      BY <2>1 DEF OwnershipInv, WrittenBeforeCommit, Turn, Live
  <1>6. NothingYet' /\ LocatedChunks' /\ LocationBacked'
    BY DEF OwnershipInv, NothingYet, LocatedChunks, LocationBacked, Live
  <1> QED
    BY <1>3, <1>4, <1>5, <1>6 DEF OwnershipInv
\* A busy request exists only after the creation of the transfer.
LEMMA BusyCreated ==
  ASSUME OwnershipInv, NEW r \in Request, req[r].pc # "idle"
  PROVE  status # "absent" /\ TypeOK /\ req[r] \in Busy
  BY BusyRequest, IdleRequest DEF OwnershipInv, NothingYet

\* A request that writes or deletes an object of its own copies, whose attempt
\* no other request works on, leaves the accepted copies alone.
LEMMA OwnershipOwnObject ==
  ASSUME OwnershipInv, TypeOK', NEW r \in Request, NEW x, NEW c \in req[r].todo, NEW bytes,
         Turn(r, c), req[r].pc # "idle",
         UNCHANGED <<transferVars, chunkVars, row, reaper, jobVars>>,
         object' = [object EXCEPT ![c.path] = bytes],
         req' = [req EXCEPT ![r] = x], x.todo = req[r].todo \/ x.todo = {},
         x.pc = "commit" => bytes = x.content
  PROVE  OwnershipInv'
  <1> USE DEF transferVars, chunkVars, jobVars
  <1>1. Paths' = Paths
    BY DEF Paths
  <1>2. \A q \in Request : req'[q].todo \subseteq req[q].todo
    BY DEF OwnershipInv, TypeOK
  <1>3. TodoApart'
    BY <1>1, <1>2 DEF OwnershipInv, TodoApart
  <1>4. RowsApart' /\ ReapedApart' /\ JobsAfterRemoval'
    BY <1>1 DEF OwnershipInv, RowsApart, ReapedApart, JobsAfterRemoval
  <1>5. WrittenBeforeCommit'
    <2> SUFFICES ASSUME Live', NEW q \in Request, req'[q].pc = "commit",
                        NEW d \in req'[q].todo, Turn(q, d)'
                 PROVE  row'[d.path] = None \/ row'[d.path].lapsed \/ object'[d.path] = req'[q].content
      BY DEF WrittenBeforeCommit
    <2>1. CASE q = r
      <3>1. x = req'[r] /\ x.todo = req[r].todo
        BY <2>1 DEF OwnershipInv, TypeOK
      <3>2. c \in Copy /\ d \in Copy
        BY <2>1, <3>1, BusyCreated DEF Busy
      <3>3. c.store \in Nat /\ d.store \in Nat
        BY <3>2, PlacementAssumption DEF Copy
      <3>4. c.store <= d.store /\ d.store <= c.store
        BY <2>1, <3>1 DEF Turn
      <3>5. c = d
        BY <2>1, <3>1, <3>3, <3>4 DEF OwnershipInv, TodoApart
      <3>6. object'[c.path] = bytes
        BY <3>2 DEF Copy, OwnershipInv, TypeOK
      <3> QED
        BY <2>1, <3>1, <3>5, <3>6
    <2>2. CASE q # r
      <3>1. req'[q] = req[q]
        BY <2>2 DEF OwnershipInv, TypeOK
      <3>2. d.path # c.path
        BY <2>2, <3>1 DEF OwnershipInv, TodoApart
      <3>3. object'[d.path] = object[d.path]
        BY <3>2 DEF OwnershipInv, TypeOK
      <3>4. Turn(q, d)
        BY <3>1 DEF Turn
      <3> QED
        BY <3>1, <3>3, <3>4 DEF OwnershipInv, WrittenBeforeCommit, Live
    <2> QED
      BY <2>1, <2>2
  <1>6. NothingYet' /\ LocatedChunks'
    BY BusyCreated DEF OwnershipInv, NothingYet, LocatedChunks
  <1>7. LocationBacked'
    <2>1. \A l \in location : l.path # c.path
      BY DEF OwnershipInv, TodoApart, Paths
    <2> QED
      BY <2>1 DEF OwnershipInv, LocationBacked, Live, TypeOK
  <1> QED
    BY <1>3, <1>4, <1>5, <1>6, <1>7 DEF OwnershipInv

\* An accepted copy becomes a location of its own.
LEMMA OwnershipAccept ==
  ASSUME OwnershipInv, TypeOK', NEW r \in Request, NEW c \in req[r].todo, NEW x,
         Turn(r, c), req[r].pc = "commit", CommitResult(r, c) = "accepted", AcceptCopy(r, c),
         UNCHANGED <<transferVars, object, reaper, jobVars>>,
         req' = [req EXCEPT ![r] = x], x.todo = req[r].todo \ {c}, x.pc # "commit"
  PROVE  OwnershipInv'
  <1> USE DEF transferVars, jobVars
  <1>a. TypeOK /\ status # "absent" /\ req[r] \in Busy /\ c \in Copy
    BY BusyCreated DEF Busy
  <1>b. c.path \in Attempt /\ req[r].position \in Position
    BY <1>a DEF Busy, Copy
  <1>c. /\ row[c.path] # None /\ ~row[c.path].lapsed /\ status = "pending"
        /\ chunk[req[r].position] \in {None, req[r].content}
    BY DEF CommitResult
  <1>1. Paths' = Paths \cup {c.path}
    <2> DEFINE new == [position |-> req[r].position, store |-> c.store, path |-> c.path]
    <2>1. location' = location \cup {new} /\ new.path = c.path
      BY DEF AcceptCopy
    <2> HIDE DEF new
    <2> QED
      BY <2>1 DEF Paths
  <1>2. \A q \in Request : req'[q].todo \subseteq req[q].todo /\ (\A d \in req'[q].todo : d.path # c.path)
    BY <1>a DEF OwnershipInv, TodoApart, TypeOK
  <1>3. TodoApart'
    BY <1>1, <1>2 DEF OwnershipInv, TodoApart
  <1>4. RowsApart'
    BY <1>1, <1>a, <1>b DEF OwnershipInv, RowsApart, AcceptCopy, TypeOK
  <1>5. ReapedApart'
    <2>1. \A k \in Reaper : reaper[k].pc # "idle" => reaper[k].attempt # c.path
      BY <1>c DEF OwnershipInv, ReapedApart
    <2>2. \A a \in Attempt : a # c.path => row'[a] = row[a]
      BY <1>a DEF AcceptCopy, TypeOK
    <2> QED
      BY <1>1, <1>a, <2>1, <2>2, BusyReaper DEF OwnershipInv, ReapedApart
  <1>6. JobsAfterRemoval'
    BY DEF OwnershipInv, JobsAfterRemoval
  <1>7. WrittenBeforeCommit'
    <2> SUFFICES ASSUME NEW q \in Request, req'[q].pc = "commit", NEW d \in req'[q].todo, Turn(q, d)'
                 PROVE  row'[d.path] = None \/ row'[d.path].lapsed \/ object'[d.path] = req'[q].content
      BY DEF WrittenBeforeCommit
    <2>1. q # r /\ req'[q] = req[q]
      BY <1>a DEF TypeOK
    <2>2. d.path # c.path
      BY <1>2
    <2>3. row'[d.path] = row[d.path]
      BY <1>a, <2>2 DEF AcceptCopy, TypeOK
    <2>4. Turn(q, d)
      BY <2>1 DEF Turn
    <2> QED
      BY <1>c, <2>1, <2>3, <2>4 DEF OwnershipInv, WrittenBeforeCommit, Live
  <1>8. LocatedChunks' /\ NothingYet'
    <2>1. \A p \in Position : chunk'[p] = IF p = req[r].position THEN req[r].content ELSE chunk[p]
      BY <1>a, <1>b DEF AcceptCopy, TypeOK
    <2>2. \A l \in location' : l.position \in Position /\ (l \in location \/ l.position = req[r].position)
      BY <1>a, <1>b DEF AcceptCopy, TypeOK, Location
    <2>3. req[r].content # None
      BY <1>a, NoneAssumption DEF Busy
    <2> QED
      BY <1>a, <2>1, <2>2, <2>3 DEF OwnershipInv, LocatedChunks, NothingYet
  <1>9. LocationBacked'
    <2> SUFFICES ASSUME NEW l \in location'
                 PROVE  object[l.path] = chunk'[l.position]
      BY DEF LocationBacked
    <2>1. chunk' = [chunk EXCEPT ![req[r].position] = req[r].content]
      BY DEF AcceptCopy
    <2>2. CASE l \in location
      <3>1. object[l.path] = chunk[l.position] /\ chunk[l.position] # None
        BY <1>c, <2>2 DEF OwnershipInv, LocationBacked, LocatedChunks, Live
      <3>2. l.position \in Position
        BY <1>a, <2>2 DEF TypeOK, Location
      <3> QED
        BY <1>a, <1>c, <2>1, <3>1, <3>2 DEF TypeOK
    <2>3. CASE l \notin location
      <3>1. l.path = c.path /\ l.position = req[r].position
        BY <2>3 DEF AcceptCopy
      <3>2. object[c.path] = req[r].content
        BY <1>c DEF OwnershipInv, WrittenBeforeCommit, Live
      <3> QED
        BY <1>a, <1>b, <2>1, <3>1, <3>2 DEF TypeOK
    <2> QED
      BY <2>2, <2>3
  <1> QED
    BY <1>3, <1>4, <1>5, <1>6, <1>7, <1>8, <1>9 DEF OwnershipInv
\* New attempts have paths that nobody owns.
LEMMA OwnershipReserve ==
  ASSUME OwnershipInv, TypeOK', NEW r \in Request, NEW p \in Position, NEW v \in Content, Reserve(r, p, v)
  PROVE  OwnershipInv'
  <1> USE DEF transferVars, chunkVars, jobVars
  <1>a. TypeOK /\ status = "pending"
    BY DEF OwnershipInv, Reserve, Accepting
  <1>1. CASE req' = [req EXCEPT ![r] = [pc |-> "acked", position |-> p, content |-> v,
                                        todo |-> {}, then |-> "stop"]] /\ UNCHANGED row
    <2> DEFINE x == [pc |-> "acked", position |-> p, content |-> v, todo |-> {}, then |-> "stop"]
    <2>1. x.todo \subseteq req[r].todo /\ x.pc # "commit"
      OBVIOUS
    <2>2. req' = [req EXCEPT ![r] = x] /\ UNCHANGED <<transferVars, chunkVars, row, object, reaper, jobVars>>
      BY <1>1 DEF Reserve
    <2> HIDE DEF x
    <2> QED
      BY <1>a, <2>1, <2>2, OwnershipRequestOnly
  <1>2. ASSUME NEW dest, NEW name \in [dest -> Attempt],
               \A s \in dest : Fresh(name[s]),
               \A s, t \in dest : name[s] = name[t] => s = t,
               row' = [a \in Attempt |->
                          IF \E s \in dest : name[s] = a
                          THEN [position |-> p, store |-> CHOOSE s \in dest : name[s] = a,
                                lapsed |-> FALSE, reaping |-> "no"]
                          ELSE row[a]],
               req' = [req EXCEPT ![r] =
                          [pc |-> IF dest = {} THEN "acked" ELSE "put", position |-> p,
                           content |-> v, then |-> "stop",
                           todo |-> {[store |-> s, path |-> name[s]] : s \in dest}]]
        PROVE  OwnershipInv'
    <2> DEFINE todo == {[store |-> s, path |-> name[s]] : s \in dest}
    <2>1. \A c \in todo : c.store \in dest /\ c = [store |-> c.store, path |-> name[c.store]] /\ c.path = name[c.store]
      OBVIOUS
    <2>2. \A q \in Request : req'[q].todo = IF q = r THEN todo ELSE req[q].todo
      BY <1>2, <1>a DEF TypeOK
    <2> HIDE DEF todo
    <2>3. Paths' = Paths
      BY DEF Reserve, Paths
    <2>4. \A c \in todo : c.path \notin Paths /\ \A q \in Request : \A d \in req[q].todo : c.path # d.path
      BY <1>2, <2>1 DEF Fresh
    <2>5. \A c, d \in todo : c.path = d.path \/ c.store = d.store => c = d
      BY <1>2, <2>1
    <2>6. TodoApart'
      BY <2>2, <2>3, <2>4, <2>5 DEF OwnershipInv, TodoApart
    <2>7. \A a \in Attempt : row'[a] = row[a] \/ Fresh(a)
      BY <1>2
    <2>8. RowsApart'
      BY <2>3, <2>7 DEF OwnershipInv, RowsApart, Fresh
    <2>9. ReapedApart'
      <3>1. \A k \in Reaper : reaper[k].pc # "idle" => row'[reaper[k].attempt] = row[reaper[k].attempt]
        BY <1>a, <2>7, BusyReaper DEF Fresh
      <3> QED
        BY <2>3, <3>1 DEF OwnershipInv, ReapedApart, Reserve
    <2>10. JobsAfterRemoval' /\ NothingYet' /\ LocatedChunks' /\ LocationBacked'
      BY <1>a DEF OwnershipInv, JobsAfterRemoval, NothingYet, LocatedChunks, LocationBacked, Live, Reserve
    <2>11. WrittenBeforeCommit'
      <3> SUFFICES ASSUME NEW q \in Request, req'[q].pc = "commit", NEW d \in req'[q].todo, Turn(q, d)'
                   PROVE  row'[d.path] = None \/ row'[d.path].lapsed \/ object'[d.path] = req'[q].content
        BY DEF WrittenBeforeCommit
      <3>1. q # r /\ req'[q] = req[q]
        BY <1>2, <1>a DEF TypeOK
      <3>2. d.path \in Attempt /\ ~Fresh(d.path)
        <4>1. req[q] \in Busy
          BY <3>1, BusyCreated
        <4> QED
          BY <3>1, <4>1 DEF Busy, Copy, Fresh
      <3>3. row'[d.path] = row[d.path]
        BY <2>7, <3>2
      <3>4. Turn(q, d)
        BY <3>1 DEF Turn
      <3> QED
        BY <1>a, <3>1, <3>3, <3>4 DEF OwnershipInv, WrittenBeforeCommit, Live, Reserve
    <2> QED
      BY <2>6, <2>8, <2>9, <2>10, <2>11 DEF OwnershipInv
  <1> QED
    BY <1>1, <1>2 DEF Reserve

\* Deleting the row of an attempt that no location names.
LEMMA OwnershipForget ==
  ASSUME OwnershipInv, TypeOK', NEW r \in Request, ForgetAttempt(r)
  PROVE  OwnershipInv'
  <1> USE DEF transferVars, chunkVars, jobVars
  <1>a. TypeOK /\ status # "absent"
    BY BusyCreated DEF ForgetAttempt
  <1>b. PICK c \in req[r].todo :
          /\ row' = [row EXCEPT ![c.path] = None]
          /\ req' = [req EXCEPT ![r] = IF req[r].then = "continue" THEN Advance(r, c) ELSE NoRequest]
    BY DEF ForgetAttempt
  <1>1. Paths' = Paths
    BY DEF ForgetAttempt, Paths
  <1>2. /\ \A q \in Request : req'[q].todo \subseteq req[q].todo
        /\ \A q \in Request : req'[q].pc = "commit" => req'[q] = req[q]
    <2>1. Advance(r, c).todo \subseteq req[r].todo /\ Advance(r, c).pc # "commit"
      BY <1>a, BusyRequest DEF Advance, ForgetAttempt, Busy
    <2> QED
      BY <1>a, <1>b, <2>1, IdleRequest DEF TypeOK
  <1>3. \A a \in Attempt : row'[a] \in {None, row[a]}
    BY <1>a, <1>b DEF TypeOK
  <1>4. TodoApart'
    BY <1>1, <1>2 DEF OwnershipInv, TodoApart
  <1>5. RowsApart'
    BY <1>1, <1>3 DEF OwnershipInv, RowsApart
  <1>6. ReapedApart'
    BY <1>1, <1>3, <1>a, BusyReaper DEF OwnershipInv, ReapedApart, ForgetAttempt
  <1>7. WrittenBeforeCommit'
    <2> SUFFICES ASSUME Live, NEW q \in Request, req[q].pc = "commit", req'[q] = req[q],
                        NEW d \in req[q].todo, Turn(q, d)
                 PROVE  row'[d.path] = None \/ row'[d.path].lapsed \/ object[d.path] = req[q].content
      BY <1>2 DEF WrittenBeforeCommit, Live, Turn, ForgetAttempt
    <2>1. d.path \in Attempt
      BY BusyCreated DEF Busy, Copy
    <2> QED
      BY <1>3, <2>1 DEF OwnershipInv, WrittenBeforeCommit
  <1>8. JobsAfterRemoval' /\ NothingYet' /\ LocatedChunks' /\ LocationBacked'
    BY <1>a DEF OwnershipInv, JobsAfterRemoval, NothingYet, LocatedChunks, LocationBacked, Live, ForgetAttempt
  <1> QED
    BY <1>4, <1>5, <1>6, <1>7, <1>8 DEF OwnershipInv

\* Each step of an upload request keeps every path with one owner.
LEMMA OwnershipRequest ==
  ASSUME ~LostCommitAck, OwnershipInv, TypeOK', NEW r \in Request, RequestStep(r)
  PROVE  OwnershipInv'
  <1> USE DEF transferVars, chunkVars, jobVars
  <1>a. TypeOK
    BY DEF OwnershipInv
  <1>1. CASE Put(r)
    <2>1. PICK c \in req[r].todo : Turn(r, c) /\ object' = [object EXCEPT ![c.path] = req[r].content]
      BY <1>1 DEF Put
    <2> DEFINE x == [req[r] EXCEPT !.pc = "commit"]
    <2>2. x.todo = req[r].todo /\ x.content = req[r].content
      BY <1>1, <1>a, BusyRequest DEF Put, Busy
    <2> HIDE DEF x
    <2>3. req' = [req EXCEPT ![r] = x] /\ req[r].pc # "idle" /\ UNCHANGED <<transferVars, chunkVars, row, reaper, jobVars>>
      BY <1>1 DEF Put, x
    <2> QED
      BY <2>1, <2>2, <2>3, OwnershipOwnObject
  <1>2. CASE PutFails(r)
    <2>1. PICK c \in req[r].todo : Turn(r, c) /\ \E left : object' = [object EXCEPT ![c.path] = left]
      BY <1>2 DEF PutFails
    <2>2. NoRequest.todo = {} /\ NoRequest.pc # "commit" /\ req[r].pc # "idle"
      BY <1>2, IdleRequest DEF PutFails
    <2> QED
      BY <1>2, <2>1, <2>2, OwnershipOwnObject DEF PutFails
  <1>3. CASE Commit(r)
    <2>1. PICK c \in req[r].todo :
            /\ Turn(r, c)
            /\ LET result == CommitResult(r, c)
               IN IF result = "accepted"
                  THEN AcceptCopy(r, c) /\ req' = [req EXCEPT ![r] = Advance(r, c)]
                  ELSE /\ UNCHANGED <<chunkVars, row>>
                       /\ req' = [req EXCEPT ![r] =
                            IF result = "reaping" THEN NoRequest
                            ELSE [req[r] EXCEPT !.pc = "remove",
                                    !.then = IF result = "duplicate" THEN "continue" ELSE "stop"]]
      BY <1>3 DEF Commit
    <2>2. req[r] \in Busy /\ status # "absent"
      BY <1>3, BusyCreated DEF Commit
    <2>3. CASE CommitResult(r, c) = "accepted"
      <3>1. Advance(r, c).todo = req[r].todo \ {c} /\ Advance(r, c).pc # "commit"
        BY <2>2 DEF Advance, Busy
      <3> QED
        BY <1>3, <2>1, <2>3, <3>1, OwnershipAccept DEF Commit
    <2>4. CASE CommitResult(r, c) # "accepted"
      <3>1. PICK x : req' = [req EXCEPT ![r] = x] /\ x.todo \subseteq req[r].todo /\ x.pc # "commit"
        <4>1. CASE CommitResult(r, c) = "reaping"
          BY <2>1, <2>4, <4>1, IdleRequest
        <4>2. CASE CommitResult(r, c) # "reaping"
          <5> DEFINE x == [req[r] EXCEPT !.pc = "remove",
                             !.then = IF CommitResult(r, c) = "duplicate" THEN "continue" ELSE "stop"]
          <5>1. x.todo = req[r].todo /\ x.pc # "commit"
            BY <2>2 DEF Busy
          <5>2. req' = [req EXCEPT ![r] = x]
            BY <2>1, <2>4, <4>2
          <5> HIDE DEF x
          <5> QED
            BY <5>1, <5>2
        <4> QED
          BY <4>1, <4>2
      <3> QED
        BY <1>3, <2>1, <2>2, <2>4, <3>1, OwnershipRequestOnly DEF Commit
    <2> QED
      BY <2>3, <2>4
  <1>4. CASE CommitThrows(r)
    <2> DEFINE x == [req[r] EXCEPT !.pc = "remove", !.then = "stop"]
    <2>1. x.todo = req[r].todo /\ x.pc # "commit"
      BY <1>4, <1>a, BusyRequest DEF CommitThrows, Busy
    <2>2. status # "absent"
      BY <1>4, BusyCreated DEF CommitThrows
    <2>3. req' = [req EXCEPT ![r] = x] /\ UNCHANGED <<transferVars, chunkVars, row, object, reaper, jobVars>>
      BY <1>4 DEF CommitThrows
    <2> HIDE DEF x
    <2> QED
      BY <2>1, <2>2, <2>3, OwnershipRequestOnly
  <1>5. CASE RemoveObject(r)
    <2>1. PICK c \in req[r].todo :
            /\ Turn(r, c)
            /\ \/ /\ object' = [object EXCEPT ![c.path] = None]
                  /\ req' = [req EXCEPT ![r] = [req[r] EXCEPT !.pc = "forget"]]
               \/ /\ UNCHANGED object
                  /\ req' = [req EXCEPT ![r] = NoRequest]
      BY <1>5 DEF RemoveObject
    <2>2. req[r] \in Busy /\ status # "absent" /\ req[r].pc # "idle"
      BY <1>5, BusyCreated DEF RemoveObject
    <2> DEFINE x == [req[r] EXCEPT !.pc = "forget"]
    <2>3. x.todo = req[r].todo /\ x.pc # "commit"
      BY <2>2 DEF Busy
    <2>4. CASE object' = [object EXCEPT ![c.path] = None] /\ req' = [req EXCEPT ![r] = x]
      <3>1. UNCHANGED <<transferVars, chunkVars, row, reaper, jobVars>>
        BY <1>5 DEF RemoveObject
      <3> HIDE DEF x
      <3> QED
        BY <2>1, <2>2, <2>3, <2>4, <3>1, OwnershipOwnObject
    <2>5. CASE UNCHANGED object /\ req' = [req EXCEPT ![r] = NoRequest]
      BY <1>5, <2>2, <2>5, IdleRequest, OwnershipRequestOnly DEF RemoveObject
    <2> QED
      BY <2>1, <2>4, <2>5
  <1>6. CASE EndRequest(r)
    <2>1. status # "absent"
      BY <1>6, BusyCreated DEF EndRequest
    <2> QED
      BY <1>6, <2>1, IdleRequest, OwnershipRequestOnly DEF EndRequest
  <1> QED
    BY <1>1, <1>2, <1>3, <1>4, <1>5, <1>6, OwnershipForget, OwnershipReserve DEF RequestStep
\* The reaper deletes objects and rows of attempts that can no longer be
\* accepted.
LEMMA OwnershipReaper ==
  ASSUME OwnershipInv, TypeOK', NEW k \in Reaper, ReaperStep(k)
  PROVE  OwnershipInv'
  <1> USE DEF transferVars, chunkVars, jobVars
  <1>a. TypeOK
    BY DEF OwnershipInv
  <1>b. UNCHANGED <<transferVars, chunkVars, req, jobVars>>
    BY DEF ReaperStep, ClaimAttempt, ReapObject, ReapFails, ReapRow, ReaperDies
  <1>c. Paths' = Paths
    BY <1>b DEF Paths
  <1>1. TodoApart' /\ JobsAfterRemoval' /\ NothingYet' /\ LocatedChunks'
    BY <1>b, <1>c DEF OwnershipInv, TodoApart, JobsAfterRemoval, NothingYet, LocatedChunks
  \* Rows are only deleted, or stay lapsed while they are claimed and released.
  <1>2. \A a \in Attempt : \/ row'[a] = row[a] \/ row'[a] = None
                           \/ row[a] # None /\ row[a].lapsed /\ row'[a].lapsed
    <2>1. ASSUME NEW a \in Attempt, ClaimAttempt(k, a)
          PROVE  row[a] # None /\ row[a].lapsed /\ row'[a].lapsed /\ \A b \in Attempt : b # a => row'[b] = row[b]
      BY <1>a, <2>1 DEF ClaimAttempt, TypeOK, Row
    <2>2. ASSUME ReapFails(k), NEW a \in Attempt
          PROVE  row'[a] = row[a] \/ (row[a] # None /\ row[a].lapsed /\ row'[a].lapsed)
      <3>1. reaper[k].attempt \in Attempt /\ (row[reaper[k].attempt] # None => row[reaper[k].attempt].lapsed)
        BY <1>a, <2>2, BusyReaper DEF OwnershipInv, ReapedApart, ReapFails
      <3> QED
        BY <1>a, <2>2, <3>1 DEF ReapFails, Claimed, TypeOK, Row
    <2>3. ASSUME ReapRow(k), NEW a \in Attempt
          PROVE  row'[a] = row[a] \/ row'[a] = None
      BY <1>a, <2>3 DEF ReapRow, TypeOK
    <2> QED
      BY <2>1, <2>2, <2>3 DEF ReaperStep, ReapObject, ReaperDies
  <1>3. RowsApart'
    BY <1>2, <1>c DEF OwnershipInv, RowsApart
  <1>4. ReapedApart'
    <2>1. \A j \in Reaper : reaper'[j].pc # "idle" =>
            /\ reaper'[j].attempt \in Attempt /\ reaper'[j].attempt \notin Paths
            /\ row[reaper'[j].attempt] # None => row[reaper'[j].attempt].lapsed
      <3>1. ASSUME NEW a \in Attempt, ClaimAttempt(k, a), NEW j \in Reaper, reaper'[j].pc # "idle"
            PROVE  reaper'[j] = reaper[j] \/ reaper'[j].attempt = a
        BY <1>a, <3>1 DEF ClaimAttempt, TypeOK
      <3>2. ASSUME NEW a \in Attempt, ClaimAttempt(k, a)
            PROVE  a \notin Paths /\ row[a].lapsed
        BY <3>2 DEF OwnershipInv, RowsApart, ClaimAttempt
      <3>3. ASSUME ReapObject(k) \/ ReapFails(k) \/ ReapRow(k) \/ ReaperDies(k), NEW j \in Reaper, reaper'[j].pc # "idle"
            PROVE  reaper[j].pc # "idle" /\ reaper'[j].attempt = reaper[j].attempt
        BY <1>a, <3>3, BusyReaper DEF ReapObject, ReapFails, ReapRow, ReaperDies, TypeOK, ReaperState, NoClaim
      <3> QED
        BY <1>a, <3>1, <3>2, <3>3, BusyReaper DEF ReaperStep, OwnershipInv, ReapedApart
    <2> QED
      BY <1>2, <1>c, <2>1 DEF ReapedApart
  <1>5. \A a \in Attempt : object'[a] # object[a] => a \notin Paths /\ (row[a] # None => row[a].lapsed)
    <2>1. ASSUME ReapObject(k), NEW a \in Attempt, object'[a] # object[a]
          PROVE  a = reaper[k].attempt /\ reaper[k].pc # "idle"
      BY <1>a, <2>1 DEF ReapObject, TypeOK
    <2> QED
      BY <2>1 DEF OwnershipInv, ReapedApart, ReaperStep, ClaimAttempt, ReapFails, ReapRow, ReaperDies
  <1>6. LocationBacked'
    <2>1. \A l \in location : l.path \in Attempt /\ l.path \in Paths
      BY <1>a DEF TypeOK, Location, Paths
    <2> QED
      BY <1>b, <1>5, <2>1 DEF OwnershipInv, LocationBacked, Live
  <1>7. WrittenBeforeCommit'
    <2> SUFFICES ASSUME Live, NEW q \in Request, req[q].pc = "commit", NEW d \in req[q].todo, Turn(q, d)
                 PROVE  row'[d.path] = None \/ row'[d.path].lapsed \/ object'[d.path] = req[q].content
      BY <1>b DEF WrittenBeforeCommit, Live, Turn
    <2>1. d.path \in Attempt
      BY BusyCreated DEF Busy, Copy
    <2> QED
      BY <1>2, <1>5, <2>1 DEF OwnershipInv, WrittenBeforeCommit
  <1> QED
    BY <1>1, <1>3, <1>4, <1>6, <1>7 DEF OwnershipInv

\* Deletion jobs touch objects only when the transfer is no longer live.
LEMMA OwnershipWorker ==
  ASSUME OwnershipInv, TypeOK', NEW w \in Worker, WorkerStep(w)
  PROVE  OwnershipInv'
  <1> USE DEF transferVars, chunkVars, jobVars
  <1>a. TypeOK
    BY DEF OwnershipInv
  <1>1. CASE LoadJob(w) \/ StagingRemoved(w)
    <2>1. \A u \in Worker : worker'[u].pc # "idle" => worker[u].pc # "idle" \/ status = "deleting"
      BY <1>1, <1>a DEF LoadJob, StagingRemoved, TypeOK
    <2> QED
      BY <1>1, <2>1, OwnershipQuiet DEF LoadJob, StagingRemoved
  <1>2. CASE PurgeStore(w) \/ JobFails(w)
    <2>1. worker[w].pc # "idle" /\ UNCHANGED <<transferVars, chunkVars, row, req, reaper>>
      BY <1>2 DEF PurgeStore, JobFails
    <2>2. status \in {"deleting", "gone"} /\ ~Live /\ ~Live'
      BY <2>1 DEF OwnershipInv, JobsAfterRemoval, Live
    <2>3. Paths' = Paths
      BY <2>1 DEF Paths
    <2> QED
      BY <2>1, <2>2, <2>3 DEF OwnershipInv, TodoApart, RowsApart, ReapedApart, JobsAfterRemoval,
                              WrittenBeforeCommit, NothingYet, LocatedChunks, LocationBacked
  <1>3. CASE Finish(w) /\ status = "deleting"
    <2>1. Paths' = {} /\ location' = {} /\ status' = "gone" /\ UNCHANGED <<row, req, reaper>>
      BY <1>3 DEF Finish, Paths
    <2> QED
      BY <2>1 DEF OwnershipInv, TodoApart, RowsApart, ReapedApart, JobsAfterRemoval, Live,
                  WrittenBeforeCommit, NothingYet, LocatedChunks, LocationBacked
  <1>4. CASE Finish(w) /\ status # "deleting"
    <2>1. \A u \in Worker : worker'[u].pc # "idle" => worker[u].pc # "idle"
      BY <1>4, <1>a DEF Finish, TypeOK, NoJob
    <2> QED
      BY <1>4, <2>1, OwnershipQuiet DEF Finish
  <1> QED
    BY <1>1, <1>2, <1>3, <1>4 DEF WorkerStep

\* Creating, completing, removing and pruning the transfer, and the clocks,
\* keep every path with one owner.
LEMMA OwnershipOther ==
  ASSUME OwnershipInv, TypeOK',
         \/ Create \/ (\E m \in Manifest : Complete(m))
         \/ RemoveTransfer \/ Consume \/ RetryCleanup \/ PruneTransfer \/ Expire \/ GoStale
         \/ \E a \in Attempt : LeaseLapses(a) \/ ClaimGoesStale(a)
  PROVE  OwnershipInv'
  <1> USE DEF transferVars, chunkVars, jobVars
  <1>a. TypeOK
    BY DEF OwnershipInv
  <1>1. CASE Create
    <2>1. location = {} /\ UNCHANGED <<location, chunk, row, object, req, reaper, worker>>
          /\ status = "absent" /\ status' = "pending" /\ \A r \in Request : req[r] = NoRequest
      BY <1>1 DEF Create, OwnershipInv, NothingYet
    <2>2. Paths' = Paths
      BY <2>1 DEF Paths
    <2>3. WrittenBeforeCommit'
      BY <2>1, IdleRequest DEF WrittenBeforeCommit
    <2> QED
      BY <2>1, <2>2, <2>3 DEF OwnershipInv, TodoApart, RowsApart, ReapedApart, JobsAfterRemoval,
                              NothingYet, LocatedChunks, LocationBacked
  <1>2. CASE \E m \in Manifest : Complete(m)
    BY <1>2, OwnershipQuiet DEF Complete
  <1>3. CASE RemoveTransfer \/ Consume \/ RetryCleanup \/ PruneTransfer \/ Expire \/ GoStale
    BY <1>3, OwnershipQuiet DEF RemoveTransfer, Consume, RetryCleanup, PruneTransfer, Expire, GoStale
  <1>4. ASSUME NEW a \in Attempt, LeaseLapses(a) \/ ClaimGoesStale(a)
        PROVE  OwnershipInv'
    <2>1. UNCHANGED <<transferVars, chunkVars, object, req, reaper, jobVars>>
      BY <1>4 DEF LeaseLapses, ClaimGoesStale
    <2>2. Paths' = Paths
      BY <2>1 DEF Paths
    <2>3. row[a] \in Row
      BY <1>4, <1>a DEF LeaseLapses, ClaimGoesStale, TypeOK
    <2>4. \A b \in Attempt : row'[b] = row[b] \/ (row[b] # None /\ (row[b].lapsed => row'[b].lapsed))
      BY <1>4, <1>a, <2>3 DEF LeaseLapses, ClaimGoesStale, TypeOK, Row
    <2>5. TodoApart' /\ JobsAfterRemoval' /\ NothingYet' /\ LocatedChunks' /\ LocationBacked'
      BY <2>1, <2>2 DEF OwnershipInv, TodoApart, JobsAfterRemoval, NothingYet, LocatedChunks, LocationBacked, Live
    <2>6. RowsApart'
      BY <2>2, <2>4 DEF OwnershipInv, RowsApart
    <2>7. ReapedApart'
      BY <1>a, <2>1, <2>2, <2>4, BusyReaper DEF OwnershipInv, ReapedApart
    <2>8. WrittenBeforeCommit'
      <3> SUFFICES ASSUME Live, NEW q \in Request, req[q].pc = "commit", NEW d \in req[q].todo, Turn(q, d)
                   PROVE  row'[d.path] = None \/ row'[d.path].lapsed \/ object[d.path] = req[q].content
        BY <2>1 DEF WrittenBeforeCommit, Live, Turn
      <3>1. d.path \in Attempt
        BY BusyCreated DEF Busy, Copy
      <3> QED
        BY <2>4, <3>1 DEF OwnershipInv, WrittenBeforeCommit
    <2> QED
      BY <2>5, <2>6, <2>7, <2>8 DEF OwnershipInv
  <1> QED
    BY <1>1, <1>2, <1>3, <1>4

\* Every step keeps every path with one owner when a commit whose answer was
\* lost did not take effect.
LEMMA OwnershipStep == ~LostCommitAck /\ OwnershipInv /\ [Next]_vars => OwnershipInv'
  <1> SUFFICES ASSUME ~LostCommitAck, OwnershipInv, [Next]_vars
               PROVE  OwnershipInv'
    OBVIOUS
  <1>1. TypeOK'
    BY TypeStep DEF OwnershipInv
  <1>2. CASE UNCHANGED vars
    BY <1>1, <1>2, OwnershipQuiet DEF vars, transferVars, chunkVars, jobVars
  <1>3. CASE Next
    BY <1>1, <1>3, OwnershipRequest, OwnershipReaper, OwnershipWorker, OwnershipOther DEF Next
  <1> QED
    BY <1>2, <1>3

\* Every path of object storage has one owner at a time, for every number of
\* filestores, concurrent uploads, reapers and deletion workers, as long as a
\* database transaction that reports failure has not committed.
THEOREM Ownership == ASSUME ~LostCommitAck PROVE Spec => []OwnershipInv
  BY OwnershipInit, OwnershipStep, PTL DEF Spec

\* Hence no clean-up ever deletes or replaces the object of an accepted copy
\* of a live transfer: publish(), removeAttempt(), reapUploadAttempts() and
\* DeleteTransfer never race for it.
THEOREM LocationsStayBacked == ASSUME ~LostCommitAck PROVE Spec => []LocationBacked
  <1>1. OwnershipInv => LocationBacked
    BY DEF OwnershipInv
  <1> QED
    BY <1>1, Ownership, PTL

-----------------------------------------------------------------------------
(* TransferStore implements CiphertextStore: every step of the rows is a    *)
(* step of the write-once store, or does not show.                         *)

\* The rows of no transfer are the empty store.
LEMMA RefinesInit == Init => Ciphertexts!Init
  BY DEF Init, Ciphertexts!Init

\* A step that changes neither the status nor the chunks nor the manifest.
LEMMA RefinesStutter == UNCHANGED <<status, chunk, manifest>> => UNCHANGED Ciphertexts!vars
  BY DEF Ciphertexts!vars

\* An accepted copy writes its chunk, or is one more copy of it.
LEMMA RefinesAccept ==
  ASSUME TypeOK, NEW r \in Request, NEW c \in req[r].todo, req[r].pc = "commit",
         CommitResult(r, c) = "accepted", AcceptCopy(r, c), UNCHANGED transferVars
  PROVE  [Ciphertexts!Next]_Ciphertexts!vars
  <1>1. /\ req[r].position \in Position /\ req[r].content \in Content
        /\ status = "pending" /\ status' = status /\ manifest' = manifest
        /\ chunk[req[r].position] \in {None, req[r].content}
    BY BusyRequest DEF Busy, CommitResult, transferVars
  <1>2. chunk' = [chunk EXCEPT ![req[r].position] = req[r].content]
    BY DEF AcceptCopy
  <1>3. CASE chunk[req[r].position] = None
    <2>1. Ciphertexts!Write(req[r].position, req[r].content)
      BY <1>1, <1>2, <1>3 DEF Ciphertexts!Write
    <2> QED
      BY <1>1, <2>1 DEF Ciphertexts!Next
  <1>4. CASE chunk[req[r].position] = req[r].content
    <2>1. chunk' = chunk
      BY <1>1, <1>2, <1>4 DEF TypeOK
    <2> QED
      BY <1>1, <2>1, RefinesStutter
  <1> QED
    BY <1>1, <1>3, <1>4

\* Of an upload request's steps only an accepted copy shows in the store.
LEMMA RefinesRequest ==
  ASSUME TypeOK, NEW r \in Request, RequestStep(r)
  PROVE  [Ciphertexts!Next]_Ciphertexts!vars
  <1> USE DEF transferVars, chunkVars
  <1>1. CASE Put(r) \/ PutFails(r) \/ RemoveObject(r) \/ ForgetAttempt(r) \/ EndRequest(r)
             \/ \E p \in Position, v \in Content : Reserve(r, p, v)
    <2>1. UNCHANGED <<status, chunk, manifest>>
      BY <1>1 DEF Put, PutFails, RemoveObject, ForgetAttempt, EndRequest, Reserve
    <2> QED
      BY <2>1, RefinesStutter
  <1>2. CASE Commit(r) \/ CommitThrows(r)
    <2>1. \/ UNCHANGED chunkVars
          \/ \E c \in req[r].todo : CommitResult(r, c) = "accepted" /\ AcceptCopy(r, c)
      BY <1>2 DEF Commit, CommitThrows
    <2>2. UNCHANGED transferVars /\ req[r].pc = "commit"
      BY <1>2 DEF Commit, CommitThrows
    <2> QED
      BY <2>1, <2>2, RefinesAccept, RefinesStutter
  <1> QED
    BY <1>1, <1>2 DEF RequestStep

\* Of the deletion job's steps only finish() shows: it erases the store.
LEMMA RefinesWorker ==
  ASSUME TypeOK, NEW w \in Worker, WorkerStep(w)
  PROVE  [Ciphertexts!Next]_Ciphertexts!vars
  <1> USE DEF transferVars, chunkVars
  <1>1. CASE LoadJob(w) \/ StagingRemoved(w) \/ PurgeStore(w) \/ JobFails(w) \/ (Finish(w) /\ status # "deleting")
    <2>1. UNCHANGED <<status, chunk, manifest>>
      BY <1>1 DEF LoadJob, StagingRemoved, PurgeStore, JobFails, Finish
    <2> QED
      BY <2>1, RefinesStutter
  <1>2. CASE Finish(w) /\ status = "deleting"
    BY <1>2 DEF Finish, Ciphertexts!Erase, Ciphertexts!Next
  <1> QED
    BY <1>1, <1>2 DEF WorkerStep

\* Every step of the rows is a step of the store or does not show.
LEMMA RefinesStep == TypeOK /\ [Next]_vars => [Ciphertexts!Next]_Ciphertexts!vars
  <1> SUFFICES ASSUME TypeOK, [Next]_vars
               PROVE  [Ciphertexts!Next]_Ciphertexts!vars
    OBVIOUS
  <1> USE DEF transferVars, chunkVars
  <1>1. CASE Create
    BY <1>1 DEF Create, Ciphertexts!Open, Ciphertexts!Next
  <1>2. ASSUME NEW m \in Manifest, Complete(m)
        PROVE  Ciphertexts!Next
    <2>1. Ciphertexts!Seal(m)
      BY <1>2 DEF Complete, Ciphertexts!Seal
    <2> QED
      BY <2>1 DEF Ciphertexts!Next
  <1>3. CASE RemoveTransfer \/ Consume \/ (PruneTransfer /\ status # "deleting")
    BY <1>3 DEF RemoveTransfer, Consume, PruneTransfer, Ciphertexts!Close, Ciphertexts!Next
  <1>4. CASE \/ RetryCleanup \/ (PruneTransfer /\ status = "deleting") \/ Expire \/ GoStale \/ UNCHANGED vars
             \/ (\E k \in Reaper : ReaperStep(k))
             \/ (\E a \in Attempt : LeaseLapses(a) \/ ClaimGoesStale(a))
    <2>1. UNCHANGED <<status, chunk, manifest>>
      BY <1>4 DEF RetryCleanup, PruneTransfer, Expire, GoStale, vars, LeaseLapses, ClaimGoesStale,
                  ReaperStep, ClaimAttempt, ReapObject, ReapFails, ReapRow, ReaperDies
    <2> QED
      BY <2>1, RefinesStutter
  <1> QED
    BY <1>1, <1>2, <1>3, <1>4, RefinesRequest, RefinesWorker DEF Next

\* Whatever requests, clean-up and crashes do, and even when a failed commit
\* took effect, a chunk is written once while the transfer is open, complete()
\* seals all of them with one manifest, and only the deletion job erases them.
THEOREM Refinement == Spec => ImplementsCiphertextStore
  BY RefinesInit, RefinesStep, TypeCorrect, PTL DEF Spec, ImplementsCiphertextStore, Ciphertexts!Spec

-----------------------------------------------------------------------------

(* The inductive invariants.                                               *)

\* A request that found its copy stored already: another upload of the same
\* ciphertext was faster.
Duplicate(r) == req[r].pc \in {"remove", "forget"} /\ req[r].then = "continue"

\* What the upload loop of publish() has established at each point of it.
Promise(r) ==
  LET p == req[r].position
  IN /\ req[r].pc = "acked" => req[r].todo = {}
     /\ Mode = "replicate" /\ (req[r].pc \in {"put", "commit", "acked"} \/ Duplicate(r)) =>
          \A s \in Store : s \in StoredIn(p) \/ \E c \in req[r].todo : c.store = s
     /\ req[r].pc = "acked" \/ Duplicate(r) => chunk[p] = req[r].content /\ Located(p) # {}
     /\ Mode = "replicate" /\ Duplicate(r) => \A c \in req[r].todo : Turn(r, c) => c.store \in StoredIn(p)

Promises == Live => \A r \in Request : Promise(r)

\* A request that distributes has one copy to store.
OneDestination == Mode = "distribute" => \A r \in Request : \A c, d \in req[r].todo : c = d

\* An available transfer has all its copies.
AvailableComplete == status = "available" => \A p \in Position : CopiesComplete(p)

\* Requests work on different paths, and a path that a location names is not
\* written any more: the request that stored it only takes it back.
WritersApart ==
  \A r \in Request : \A c \in req[r].todo :
    /\ \A q \in Request : \A d \in req[q].todo : c.path = d.path => r = q /\ c = d
    /\ c.path \in Paths => req[r].pc \in {"remove", "forget"} /\ req[r].then = "stop"

\* What a deletion job has not deleted yet it still has on its list.
JobsKeepTrack ==
  \A w \in Worker :
    /\ worker[w].pc = "finish" => worker[w].paths = {}
    /\ worker[w].pc # "idle" /\ status = "deleting" =>
         \A l \in location : object[l.path] = None \/ \E c \in worker[w].paths : c.path = l.path /\ c.store = l.store

ErasedRows == status = "gone" => location = {}

RemovalInv == TypeOK /\ RowsApart /\ JobsAfterRemoval /\ WritersApart /\ JobsKeepTrack /\ ErasedRows

\* A request that may still write holds the lease of its attempt.
LeaseHeld ==
  \A r \in Request : req[r].pc \in {"put", "commit"} =>
    \A c \in req[r].todo : row[c.path] # None /\ ~row[c.path].lapsed

\* The lease of a claimed attempt is over, and its row goes after its object.
ClaimsLapsed ==
  \A k \in Reaper : reaper[k].pc # "idle" =>
    /\ row[reaper[k].attempt] # None => row[reaper[k].attempt].lapsed
    /\ reaper[k].pc = "deleted" => object[reaper[k].attempt] = None

\* The row of a removed attempt goes after its object.
ForgottenRemoved ==
  \A r \in Request : req[r].pc = "forget" => \A c \in req[r].todo : object[c.path] = None

ReclaimInv ==
  /\ RemovalInv /\ PlacementExact /\ OneDestination
  /\ LeaseHeld /\ ClaimsLapsed /\ ForgottenRemoved /\ Reclaimable
-----------------------------------------------------------------------------
(* How steps change the rows.                                              *)

\* The second transaction of publish() accepts copy c of request r.
Accepts(r, c) ==
  /\ req[r].pc = "commit" /\ c \in req[r].todo /\ Turn(r, c)
  /\ CommitResult(r, c) = "accepted" /\ AcceptCopy(r, c)
  /\ UNCHANGED <<transferVars, object, reaper, jobVars>>
  /\ \/ req' = [req EXCEPT ![r] = Advance(r, c)]
     \/ LostCommitAck /\ req' = [req EXCEPT ![r] = [req[r] EXCEPT !.pc = "remove", !.then = "stop"]]

\* The job that finishes a deletion erases them.
Erases ==
  /\ status = "deleting" /\ status' = "gone"
  /\ chunk' = [p \in Position |-> None] /\ counted' = 0 /\ location' = {}
  /\ UNCHANGED <<row, object, req, reaper>>

\* Nothing else writes chunk and location rows.
LEMMA ChunkSteps ==
  ASSUME TypeOK, [Next]_vars
  PROVE  \/ UNCHANGED chunkVars
         \/ \E r \in Request : \E c \in req[r].todo : Accepts(r, c)
         \/ Erases
  <1> USE DEF transferVars, chunkVars, jobVars
  <1>1. ASSUME NEW r \in Request, RequestStep(r)
        PROVE  UNCHANGED chunkVars \/ \E c \in req[r].todo : Accepts(r, c)
    <2>1. CASE Commit(r)
      <3>1. PICK c \in req[r].todo :
              /\ Turn(r, c)
              /\ IF CommitResult(r, c) = "accepted"
                 THEN AcceptCopy(r, c) /\ req' = [req EXCEPT ![r] = Advance(r, c)]
                 ELSE UNCHANGED <<chunkVars, row>>
        BY <2>1 DEF Commit
      <3> QED
        BY <2>1, <3>1 DEF Commit, Accepts
    <2>2. CASE CommitThrows(r)
      BY <2>2 DEF CommitThrows, Accepts
    <2>3. CASE ~Commit(r) /\ ~CommitThrows(r)
      BY <1>1, <2>3 DEF RequestStep, Put, PutFails, RemoveObject, ForgetAttempt, EndRequest, Reserve
    <2> QED
      BY <2>1, <2>2, <2>3
  <1>2. ASSUME NEW k \in Reaper, ReaperStep(k)
        PROVE  UNCHANGED chunkVars
    BY <1>2 DEF ReaperStep, ClaimAttempt, ReapObject, ReapFails, ReapRow, ReaperDies
  <1>3. ASSUME NEW w \in Worker, WorkerStep(w)
        PROVE  UNCHANGED chunkVars \/ Erases
    BY <1>3 DEF WorkerStep, LoadJob, StagingRemoved, PurgeStore, JobFails, Finish, Erases
  <1>4. CASE \/ Create \/ (\E m \in Manifest : Complete(m)) \/ RemoveTransfer \/ Consume \/ RetryCleanup
             \/ PruneTransfer \/ Expire \/ GoStale \/ (\E a \in Attempt : LeaseLapses(a) \/ ClaimGoesStale(a))
             \/ UNCHANGED vars
    BY <1>4 DEF Create, Complete, RemoveTransfer, Consume, RetryCleanup, PruneTransfer, Expire, GoStale,
                LeaseLapses, ClaimGoesStale, vars
  <1> QED
    BY <1>1, <1>2, <1>3, <1>4 DEF Next

\* What the transaction has checked when it accepts a copy.
LEMMA AcceptedCopy ==
  ASSUME TypeOK, NEW r \in Request, NEW c \in req[r].todo, Accepts(r, c)
  PROVE  /\ req[r] \in Busy /\ c \in Copy /\ status = "pending" /\ row[c.path] # None
         /\ chunk[req[r].position] \in {None, req[r].content}
         /\ Mode = "replicate" => c.store \notin StoredIn(req[r].position)
         /\ Mode = "distribute" => Located(req[r].position) = {}
  <1>1. req[r] \in Busy
    BY BusyRequest DEF Accepts
  <1>2. c \in Copy
    BY <1>1 DEF Busy
  <1> QED
    BY <1>1, <1>2 DEF Accepts, CommitResult

\* The rows the transaction has then written.
LEMMA AcceptedRows ==
  ASSUME TypeOK, NEW r \in Request, NEW c \in req[r].todo, Accepts(r, c)
  PROVE  /\ location' = location \cup {[position |-> req[r].position, store |-> c.store, path |-> c.path]}
         /\ Paths' = Paths \cup {c.path}
         /\ \A p \in Position : chunk'[p] = IF p = req[r].position THEN req[r].content ELSE chunk[p]
         /\ \A a \in Attempt : row'[a] = IF a = c.path THEN None ELSE row[a]
         /\ counted' = IF chunk[req[r].position] = None THEN counted + 1 ELSE counted
  <1>1. location' = location \cup {[position |-> req[r].position, store |-> c.store, path |-> c.path]}
    BY DEF Accepts, AcceptCopy
  <1>2. Paths' = Paths \cup {c.path}
    <2> DEFINE new == [position |-> req[r].position, store |-> c.store, path |-> c.path]
    <2>1. new.path = c.path
      OBVIOUS
    <2> HIDE DEF new
    <2>2. location' = location \cup {new}
      BY <1>1 DEF new
    <2> QED
      BY <2>1, <2>2 DEF Paths
  <1> QED
    BY <1>1, <1>2 DEF Accepts, AcceptCopy, TypeOK

-----------------------------------------------------------------------------
(* Placement.                                                              *)

\* The first transaction distributes to the filestore that other attempts of
\* the position have reserved.
LEMMA ReservedStore ==
  ASSUME TypeOK, Mode = "distribute", NEW r \in Request, NEW p \in Position, NEW v \in Content, Reserve(r, p, v),
         NEW a \in Attempt, row'[a] # row[a]
  PROVE  /\ row'[a].position = p
         /\ \A b \in Attempt : row[b] # None /\ row[b].position = p => \E d \in Attempt :
              row[d] # None /\ row[d].position = p /\ row'[a].store = row[d].store
         /\ \A b \in Attempt : row'[b] # row[b] => row'[b].store = row'[a].store
  <1>1. PICK enabled \in SUBSET Store : \E dest \in Reservable(p, enabled) :
             \E name \in [dest -> Attempt] :
               row' = [b \in Attempt |->
                            IF \E s \in dest : name[s] = b
                            THEN [position |-> p, store |-> CHOOSE s \in dest : name[s] = b,
                                  lapsed |-> FALSE, reaping |-> "no"]
                            ELSE row[b]]
    BY DEF Reserve
  <1>a. PICK dest \in Reservable(p, enabled) : \E name \in [dest -> Attempt] :
               row' = [b \in Attempt |->
                            IF \E s \in dest : name[s] = b
                            THEN [position |-> p, store |-> CHOOSE s \in dest : name[s] = b,
                                  lapsed |-> FALSE, reaping |-> "no"]
                            ELSE row[b]]
    BY <1>1
  <1>2. PICK name \in [dest -> Attempt] :
               row' = [b \in Attempt |->
                            IF \E s \in dest : name[s] = b
                            THEN [position |-> p, store |-> CHOOSE s \in dest : name[s] = b,
                                  lapsed |-> FALSE, reaping |-> "no"]
                            ELSE row[b]]
    BY <1>a
  <1> DEFINE reserved == {row[b].store : b \in {d \in Attempt : row[d] # None /\ row[d].position = p}}
  <1>3. PICK s \in Store : dest = {s} /\ (reserved # {} => s \in reserved)
    BY <1>2 DEF Reservable
  <1>4. \A b \in Attempt : row'[b] # row[b] =>
          row'[b] = [position |-> p, store |-> s, lapsed |-> FALSE, reaping |-> "no"]
    <2> SUFFICES ASSUME NEW b \in Attempt, row'[b] # row[b]
                 PROVE  row'[b] = [position |-> p, store |-> s, lapsed |-> FALSE, reaping |-> "no"]
      OBVIOUS
    <2>1. \E t \in dest : name[t] = b
      BY <1>2
    <2>2. (CHOOSE t \in dest : name[t] = b) \in dest
      BY <2>1
    <2>3. (CHOOSE t \in dest : name[t] = b) = s
      BY <1>3, <2>2
    <2>4. row'[b] = [position |-> p, store |-> CHOOSE t \in dest : name[t] = b, lapsed |-> FALSE, reaping |-> "no"]
      BY <1>2, <2>1
    <2> QED
      BY <2>3, <2>4
  <1>5. row'[a] = [position |-> p, store |-> s, lapsed |-> FALSE, reaping |-> "no"]
    BY <1>4
  <1>6. row'[a].store = s /\ row'[a].position = p
    BY <1>5
  <1>7. \A b \in Attempt : row[b] # None /\ row[b].position = p => row[b].store \in reserved
    OBVIOUS
  <1>8. reserved # {} => \E d \in Attempt : row[d] # None /\ row[d].position = p /\ s = row[d].store
    BY <1>3
  <1> QED
    BY <1>4, <1>6, <1>7, <1>8

\* An attempt row keeps its position and its filestore until it is deleted.
LEMMA RowSteps ==
  ASSUME TypeOK, [Next]_vars, ~(\E r \in Request, p \in Position, v \in Content : Reserve(r, p, v)),
         NEW a \in Attempt, row'[a] # None
  PROVE  row[a] # None /\ row'[a].position = row[a].position /\ row'[a].store = row[a].store
  <1> USE DEF transferVars, chunkVars, jobVars
  <1>1. ASSUME NEW b \in Attempt, row[b] # None,
               \/ row' = [row EXCEPT ![b] = [row[b] EXCEPT !.reaping = "fresh"]]
               \/ row' = [row EXCEPT ![b] = [row[b] EXCEPT !.reaping = "stale"]]
               \/ row' = [row EXCEPT ![b] = [row[b] EXCEPT !.reaping = "no"]]
               \/ row' = [row EXCEPT ![b] = [row[b] EXCEPT !.lapsed = TRUE]]
        PROVE  row[a] # None /\ row'[a].position = row[a].position /\ row'[a].store = row[a].store
    <2>1. row[b] \in Row
      BY <1>1 DEF TypeOK
    <2> QED
      BY <1>1, <2>1 DEF TypeOK, Row
  <1>2. ASSUME NEW b, row' = [row EXCEPT ![b] = None]
        PROVE  row'[a] = row[a]
    BY <1>2 DEF TypeOK
  <1>3. ASSUME NEW r \in Request, RequestStep(r)
        PROVE  row'[a] = row[a]
    BY <1>2, <1>3 DEF RequestStep, Put, PutFails, Commit, AcceptCopy, CommitThrows, RemoveObject, ForgetAttempt, EndRequest
  <1>4. ASSUME NEW k \in Reaper, ReaperStep(k)
        PROVE  row[a] # None /\ row'[a].position = row[a].position /\ row'[a].store = row[a].store
    <2>1. CASE \E b \in Attempt : ClaimAttempt(k, b)
      BY <1>1, <2>1 DEF ClaimAttempt
    <2>2. CASE ReapFails(k)
      BY <1>1, <2>2, BusyReaper DEF ReapFails, Claimed
    <2>3. CASE ReapObject(k) \/ ReapRow(k) \/ ReaperDies(k)
      BY <1>2, <2>3 DEF ReapObject, ReapRow, ReaperDies
    <2> QED
      BY <1>4, <2>1, <2>2, <2>3 DEF ReaperStep
  <1>5. ASSUME NEW w \in Worker, WorkerStep(w)
        PROVE  row'[a] = row[a]
    BY <1>5 DEF WorkerStep, LoadJob, StagingRemoved, PurgeStore, JobFails, Finish
  <1>6. CASE \E b \in Attempt : LeaseLapses(b) \/ ClaimGoesStale(b)
    BY <1>1, <1>6 DEF LeaseLapses, ClaimGoesStale
  <1>7. CASE \/ Create \/ (\E m \in Manifest : Complete(m)) \/ RemoveTransfer \/ Consume \/ RetryCleanup
             \/ PruneTransfer \/ Expire \/ GoStale \/ UNCHANGED vars
    BY <1>7 DEF Create, Complete, RemoveTransfer, Consume, RetryCleanup, PruneTransfer, Expire, GoStale, vars
  <1> QED
    BY <1>3, <1>4, <1>5, <1>6, <1>7 DEF Next

\* Nothing has been placed when the transfer is created.
LEMMA PlacementInit == Init => PlacementExact
  BY DEF Init, PlacementExact

\* The second transaction adds a copy only where the position has none, and
\* the first one reserves where the position is already reserved.
LEMMA PlacementStep == TypeOK /\ PlacementExact /\ [Next]_vars => PlacementExact'
  <1> SUFFICES ASSUME TypeOK, PlacementExact, [Next]_vars
               PROVE  PlacementExact'
    OBVIOUS
  <1>1. ASSUME NEW l \in location', NEW m \in location', l.position = m.position, l.store = m.store \/ Mode = "distribute"
        PROVE  l = m
    <2>1. CASE UNCHANGED chunkVars \/ Erases
      BY <1>1, <2>1 DEF chunkVars, Erases, PlacementExact
    <2>2. ASSUME NEW r \in Request, NEW c \in req[r].todo, Accepts(r, c)
          PROVE  l = m
      <3> DEFINE new == [position |-> req[r].position, store |-> c.store, path |-> c.path]
      <3>1. new.position = req[r].position /\ new.store = c.store
        OBVIOUS
      <3>2. location' = location \cup {new}
        BY <2>2, AcceptedRows
      <3> HIDE DEF new
      <3>3. ASSUME NEW old \in location, old.position = new.position, old.store = new.store \/ Mode = "distribute"
            PROVE  FALSE
        <4>1. old \in Located(req[r].position) /\ old.store \in StoredIn(req[r].position)
          BY <3>1, <3>3 DEF Located, StoredIn
        <4> QED
          BY <2>2, <3>1, <3>3, <4>1, AcceptedCopy, PlacementAssumption
      <3> QED
        BY <1>1, <3>2, <3>3 DEF PlacementExact
    <2> QED
      BY <2>1, <2>2, ChunkSteps
  <1>2. ASSUME Mode = "distribute", NEW a \in Attempt, NEW b \in Attempt, row'[a] # None, row'[b] # None,
               row'[a].position = row'[b].position
        PROVE  row'[a].store = row'[b].store
    <2>1. CASE ~(\E r \in Request, p \in Position, v \in Content : Reserve(r, p, v))
      BY <1>2, <2>1, RowSteps DEF PlacementExact
    <2>2. ASSUME NEW r \in Request, NEW p \in Position, NEW v \in Content, Reserve(r, p, v)
          PROVE  row'[a].store = row'[b].store
      <3>1. ASSUME NEW d \in Attempt, NEW e \in Attempt, row'[d] # row[d], row'[e] = row[e], row'[e] # None, row[e].position = p
            PROVE  row'[d].store = row'[e].store
        <4>1. PICK f \in Attempt : row[f] # None /\ row[f].position = p /\ row'[d].store = row[f].store
          BY <1>2, <2>2, <3>1, ReservedStore
        <4> QED
          BY <1>2, <3>1, <4>1 DEF PlacementExact
      <3>2. ASSUME NEW d \in Attempt, row'[d] # row[d]
            PROVE  row'[d].position = p /\ \A e \in Attempt : row'[e] # row[e] => row'[e].store = row'[d].store
        BY <1>2, <2>2, <3>2, ReservedStore
      <3> QED
        BY <1>2, <3>1, <3>2 DEF PlacementExact
    <2> QED
      BY <2>1, <2>2
  <1> QED
    BY <1>1, <1>2 DEF PlacementExact

\* However many uploads of a position race, publish() places at most one copy
\* per filestore, and one in all when it distributes.
THEOREM PlacementStaysExact == Spec => []PlacementExact
  BY PlacementInit, PlacementStep, TypeCorrect, PTL DEF Spec

-----------------------------------------------------------------------------
(* Acknowledgements.                                                       *)

\* While the transfer is live its chunk and location rows only grow, and a
\* checksum is never replaced.
LEMMA ChunksKept ==
  ASSUME TypeOK, [Next]_vars, Live'
  PROVE  location \subseteq location' /\ \A p \in Position : chunk[p] # None => chunk'[p] = chunk[p]
  <1>1. CASE UNCHANGED chunkVars
    BY <1>1 DEF chunkVars
  <1>2. CASE Erases
    BY <1>2 DEF Erases, Live
  <1>3. ASSUME NEW r \in Request, NEW c \in req[r].todo, Accepts(r, c)
        PROVE  location \subseteq location' /\ \A p \in Position : chunk[p] # None => chunk'[p] = chunk[p]
    BY <1>3, AcceptedRows, AcceptedCopy
  <1> QED
    BY <1>1, <1>2, <1>3, ChunkSteps

\* A position that has a copy has a chunk row.
LEMMA LocatedChunk ==
  ASSUME OwnershipInv, NEW p \in Position, Located(p) # {}
  PROVE  chunk[p] # None
  BY DEF OwnershipInv, LocatedChunks, Located

\* A filestore that holds a copy holds it still when the rows have grown.
LEMMA StoredKept ==
  ASSUME location \subseteq location', NEW p
  PROVE  StoredIn(p) \subseteq StoredIn(p)' /\ (Located(p) # {} => Located(p)' # {})
  BY DEF StoredIn, Located

\* What a request has established does not depend on the other requests.
LEMMA PromiseKept ==
  ASSUME TypeOK, NEW r \in Request, Promise(r), req'[r] = req[r], location \subseteq location',
         \A p \in Position : chunk[p] # None => chunk'[p] = chunk[p]
  PROVE  Promise(r)'
  <1>1. CASE req[r].pc = "idle"
    BY <1>1 DEF Promise, Duplicate
  <1>2. CASE req[r].pc # "idle"
    <2>1. req[r].position \in Position /\ req[r].content # None
      BY <1>2, BusyRequest, NoneAssumption DEF Busy
    <2>2. StoredIn(req[r].position) \subseteq StoredIn(req[r].position)'
          /\ (Located(req[r].position) # {} => Located(req[r].position)' # {})
      BY StoredKept
    <2>3. \A c : Turn(r, c)' <=> Turn(r, c)
      BY DEF Turn
    <2> QED
      BY <2>1, <2>2, <2>3 DEF Promise, Duplicate
  <1> QED
    BY <1>1, <1>2

\* The copies of a request are visited in a definite order.
LEMMA OneTurn ==
  ASSUME OwnershipInv, NEW r \in Request, NEW c, NEW d, Turn(r, c), Turn(r, d)
  PROVE  c = d
  <1>1. req[r].todo \subseteq Copy
    BY DEF OwnershipInv, TypeOK, RequestState, NoRequest
  <1>2. c.store \in Nat /\ d.store \in Nat /\ c.store <= d.store /\ d.store <= c.store
    BY <1>1, PlacementAssumption DEF Turn, Copy
  <1> QED
    BY <1>2 DEF OwnershipInv, TodoApart, Turn

\* A request that is done with a copy that is stored keeps its promise.
LEMMA PromiseAdvance ==
  ASSUME OwnershipInv, NEW r \in Request, NEW c \in req[r].todo, req[r].pc # "idle",
         req' = [req EXCEPT ![r] = Advance(r, c)],
         NEW p \in Position, p = req[r].position,
         location \subseteq location', chunk'[p] = req[r].content, Located(p)' # {},
         Mode = "replicate" => c.store \in StoredIn(p)',
         Mode = "replicate" => \A s \in Store : s \in StoredIn(p) \/ \E d \in req[r].todo : d.store = s
  PROVE  Promise(r)'
  <1> DEFINE rest == req[r].todo \ {c}
  <1>1. req[r] \in Busy
    BY BusyRequest DEF OwnershipInv
  <1>2. /\ req'[r].position = p /\ req'[r].content = req[r].content /\ req'[r].todo = rest
        /\ req'[r].pc = IF rest = {} THEN "acked" ELSE "put"
    BY <1>1 DEF OwnershipInv, TypeOK, Advance, Busy
  <1>3. StoredIn(p) \subseteq StoredIn(p)'
    BY StoredKept
  <1>4. ASSUME Mode = "replicate", NEW s \in Store
        PROVE  s \in StoredIn(p)' \/ \E d \in rest : d.store = s
    BY <1>3, <1>4
  <1> HIDE DEF rest
  <1>5. ~Duplicate(r)'
    BY <1>2 DEF Duplicate
  <1> QED
    BY <1>2, <1>4, <1>5 DEF Promise

\* A request that gave up or ended has promised nothing.
LEMMA NoPromise ==
  ASSUME NEW r \in Request, req'[r].pc = "idle" \/ (req'[r].pc \in {"remove", "forget"} /\ req'[r].then = "stop")
  PROVE  Promise(r)'
  BY DEF Promise, Duplicate

\* The first transaction answers at once, or has a copy for every filestore
\* that has none.
LEMMA PromiseReserve ==
  ASSUME OwnershipInv, NEW r \in Request, NEW p \in Position, NEW v \in Content, Reserve(r, p, v)
  PROVE  Promise(r)'
  <1> USE DEF transferVars, chunkVars, jobVars
  <1>a. TypeOK /\ UNCHANGED <<location, chunk>> /\ chunk[p] \in {None, v}
    BY DEF OwnershipInv, Reserve
  <1>b. Located(p)' = Located(p) /\ StoredIn(p)' = StoredIn(p)
    BY <1>a DEF Located, StoredIn
  <1>1. CASE /\ Mode = "distribute" /\ Located(p) # {}
             /\ req' = [req EXCEPT ![r] = [pc |-> "acked", position |-> p, content |-> v,
                                           todo |-> {}, then |-> "stop"]]
    <2>1. req'[r] = [pc |-> "acked", position |-> p, content |-> v, todo |-> {}, then |-> "stop"]
      BY <1>1, <1>a DEF TypeOK
    <2>2. chunk'[p] = v
      BY <1>1, <1>a, LocatedChunk
    <2> QED
      BY <1>1, <1>b, <2>1, <2>2, PlacementAssumption DEF Promise, Duplicate
  <1>2. ASSUME ~(Mode = "distribute" /\ Located(p) # {}),
               NEW enabled \in SUBSET Store, NEW dest \in Reservable(p, enabled), NEW name \in [dest -> Attempt],
               req' = [req EXCEPT ![r] =
                            [pc |-> IF dest = {} THEN "acked" ELSE "put", position |-> p,
                             content |-> v, then |-> "stop",
                             todo |-> {[store |-> s, path |-> name[s]] : s \in dest}]]
        PROVE  Promise(r)'
    <2> DEFINE todo == {[store |-> s, path |-> name[s]] : s \in dest}
    <2>1. /\ req'[r].pc = (IF dest = {} THEN "acked" ELSE "put") /\ req'[r].position = p
          /\ req'[r].content = v /\ req'[r].todo = todo /\ req'[r].then = "stop"
      BY <1>2, <1>a DEF TypeOK
    <2>2. dest = {} => todo = {}
      OBVIOUS
    <2>3. \A s \in dest : \E c \in todo : c.store = s
      <3> SUFFICES ASSUME NEW s \in dest PROVE \E c \in todo : c.store = s
        OBVIOUS
      <3>1. [store |-> s, path |-> name[s]] \in todo /\ [store |-> s, path |-> name[s]].store = s
        OBVIOUS
      <3> QED
        BY <3>1
    <2> HIDE DEF todo
    <2>4. CASE Mode = "replicate"
      <3>1. dest = Store \ StoredIn(p)
        BY <1>2, <2>4 DEF Reservable
      <3>2. dest = {} => Located(p) # {}
        BY <3>1, PlacementAssumption DEF StoredIn
      <3>3. dest = {} => chunk'[p] = v
        BY <3>2, <1>a, LocatedChunk
      <3> QED
        BY <1>b, <2>1, <2>2, <2>3, <3>1, <3>2, <3>3 DEF Promise, Duplicate
    <2>5. CASE Mode = "distribute"
      <3>1. dest # {}
        BY <1>2, <2>5 DEF Reservable
      <3> QED
        BY <2>1, <2>5, <3>1 DEF Promise, Duplicate
    <2> QED
      BY <2>4, <2>5, PlacementAssumption
  <1> QED
    BY <1>1, <1>2 DEF Reserve

\* Each step of the upload loop keeps what it has established.
LEMMA PromiseRequest ==
  ASSUME ~LostCommitAck, OwnershipInv, Live, NEW r \in Request, Promise(r), RequestStep(r), [Next]_vars
  PROVE  Promise(r)'
  <1> USE DEF transferVars, chunkVars, jobVars
  <1>a. TypeOK
    BY DEF OwnershipInv
  <1>1. CASE Put(r)
    <2>1. req[r] \in Busy
      BY <1>1, <1>a, BusyRequest DEF Put
    <2>2. req'[r].pc = "commit" /\ req'[r].todo = req[r].todo /\ req'[r].position = req[r].position
      BY <1>1, <1>a, <2>1 DEF Put, TypeOK, Busy
    <2>3. UNCHANGED location
      BY <1>1 DEF Put
    <2> QED
      BY <1>1, <2>2, <2>3 DEF Promise, Duplicate, Put, StoredIn, Located
  <1>2. CASE PutFails(r) \/ EndRequest(r)
    <2>1. req'[r].pc = "idle"
      BY <1>2, <1>a, IdleRequest DEF PutFails, EndRequest, TypeOK
    <2> QED
      BY <2>1, NoPromise
  <1>3. CASE Commit(r)
    <2>1. PICK c \in req[r].todo :
            /\ Turn(r, c)
            /\ LET result == CommitResult(r, c)
               IN IF result = "accepted"
                  THEN AcceptCopy(r, c) /\ req' = [req EXCEPT ![r] = Advance(r, c)]
                  ELSE /\ UNCHANGED <<chunkVars, row>>
                       /\ req' = [req EXCEPT ![r] =
                            IF result = "reaping" THEN NoRequest
                            ELSE [req[r] EXCEPT !.pc = "remove",
                                    !.then = IF result = "duplicate" THEN "continue" ELSE "stop"]]
      BY <1>3 DEF Commit
    <2>2. PICK p \in Position : p = req[r].position
      BY <1>3, <1>a, BusyRequest DEF Commit, Busy
    <2>3. req[r] \in Busy /\ req[r].pc = "commit"
      BY <1>3, <1>a, BusyRequest DEF Commit
    <2>4. Mode = "replicate" => \A s \in Store : s \in StoredIn(p) \/ \E d \in req[r].todo : d.store = s
      BY <2>2, <2>3 DEF Promise
    <2>5. CASE CommitResult(r, c) = "accepted"
      <3>1. Accepts(r, c)
        BY <1>3, <2>1, <2>5 DEF Accepts, Commit
      <3> DEFINE new == [position |-> p, store |-> c.store, path |-> c.path]
      <3>2. location' = location \cup {new} /\ chunk'[p] = req[r].content
        BY <1>a, <2>2, <3>1, AcceptedRows
      <3>3. new \in Located(p)' /\ c.store \in StoredIn(p)'
        <4>1. new.position = p /\ new.store = c.store /\ new \in location'
          BY <3>2
        <4> HIDE DEF new
        <4> QED
          BY <4>1 DEF Located, StoredIn
      <3> QED
        BY <2>1, <2>2, <2>3, <2>4, <2>5, <3>2, <3>3, PromiseAdvance
    <2>6. CASE CommitResult(r, c) = "duplicate"
      <3>1. /\ req'[r].pc = "remove" /\ req'[r].then = "continue" /\ req'[r].todo = req[r].todo
            /\ req'[r].position = p /\ req'[r].content = req[r].content
        <4>1. req' = [req EXCEPT ![r] = [req[r] EXCEPT !.pc = "remove", !.then = "continue"]]
          BY <2>1, <2>6
        <4>2. req'[r] = [req[r] EXCEPT !.pc = "remove", !.then = "continue"]
          BY <1>a, <4>1 DEF TypeOK
        <4> QED
          BY <2>2, <2>3, <4>2 DEF Busy
      <3>2. /\ chunk[p] \in {None, req[r].content}
            /\ IF Mode = "distribute" THEN Located(p) # {} ELSE c.store \in StoredIn(p)
        BY <2>2, <2>6 DEF CommitResult
      <3>3. Located(p) # {}
        BY <3>2 DEF StoredIn
      <3>4. chunk[p] = req[r].content
        BY <3>2, <3>3, LocatedChunk
      <3>5. UNCHANGED <<location, chunk>>
        BY <2>1, <2>6
      <3>6. Located(p)' = Located(p) /\ StoredIn(p)' = StoredIn(p)
        BY <3>5 DEF Located, StoredIn
      <3>7. \A d : Turn(r, d)' => d = c
        <4>1. \A d : Turn(r, d)' => Turn(r, d)
          BY <3>1 DEF Turn
        <4> QED
          BY <2>1, <4>1, OneTurn
      <3>8. Mode = "replicate" => c.store \in StoredIn(p)
        BY <3>2
      <3>9. Located(p)' # {} /\ chunk'[p] = req[r].content
        BY <3>3, <3>4, <3>5, <3>6
      <3>10. Mode = "replicate" => c.store \in StoredIn(p)' /\ \A s \in Store : s \in StoredIn(p)' \/ \E d \in req[r].todo : d.store = s
        BY <2>4, <3>6, <3>8
      <3> QED
        BY <3>1, <3>7, <3>9, <3>10 DEF Promise
    <2>7. CASE CommitResult(r, c) \notin {"accepted", "duplicate"}
      <3>1. req'[r].pc = "idle" \/ (req'[r].pc = "remove" /\ req'[r].then = "stop")
        <4>1. CASE CommitResult(r, c) = "reaping"
          BY <1>a, <2>1, <4>1, IdleRequest DEF TypeOK
        <4>2. CASE CommitResult(r, c) # "reaping"
          <5>1. req' = [req EXCEPT ![r] = [req[r] EXCEPT !.pc = "remove", !.then = "stop"]]
            BY <2>1, <2>7, <4>2
          <5>2. req'[r] = [req[r] EXCEPT !.pc = "remove", !.then = "stop"]
            BY <1>a, <5>1 DEF TypeOK
          <5> QED
            BY <2>3, <5>2 DEF Busy
        <4> QED
          BY <4>1, <4>2
      <3> QED
        BY <3>1, NoPromise
    <2> QED
      BY <2>5, <2>6, <2>7
  <1>4. CASE CommitThrows(r)
    <2>1. req[r] \in Busy
      BY <1>4, <1>a, BusyRequest DEF CommitThrows
    <2>2. req'[r].pc = "remove" /\ req'[r].then = "stop"
      BY <1>4, <1>a, <2>1 DEF CommitThrows, TypeOK, Busy
    <2> QED
      BY <2>2, NoPromise
  <1>5. CASE RemoveObject(r)
    <2>1. req[r] \in Busy /\ req[r].pc = "remove" /\ UNCHANGED <<location, chunk>>
      BY <1>5, <1>a, BusyRequest DEF RemoveObject
    <2>2. \/ req'[r].pc = "idle"
          \/ /\ req'[r].pc = "forget" /\ req'[r].todo = req[r].todo /\ req'[r].position = req[r].position
             /\ req'[r].content = req[r].content /\ req'[r].then = req[r].then
      BY <1>5, <1>a, <2>1, IdleRequest DEF RemoveObject, TypeOK, Busy
    <2>3. ASSUME req'[r].pc = "forget", req'[r].todo = req[r].todo, req'[r].position = req[r].position,
                 req'[r].content = req[r].content, req'[r].then = req[r].then
          PROVE  Promise(r)'
      <3>1. \A d : Turn(r, d)' <=> Turn(r, d)
        BY <2>3 DEF Turn
      <3>2. Located(req[r].position)' = Located(req[r].position) /\ StoredIn(req[r].position)' = StoredIn(req[r].position)
        BY <2>1, <2>3 DEF Located, StoredIn
      <3> QED
        BY <2>1, <2>3, <3>1, <3>2 DEF Promise, Duplicate
    <2> QED
      BY <2>2, <2>3, NoPromise
  <1>6. CASE ForgetAttempt(r)
    <2>1. PICK c \in req[r].todo :
            Turn(r, c) /\ req' = [req EXCEPT ![r] = IF req[r].then = "continue" THEN Advance(r, c) ELSE NoRequest]
      BY <1>6 DEF ForgetAttempt
    <2>2. PICK p \in Position : p = req[r].position
      BY <1>6, <1>a, BusyRequest DEF ForgetAttempt, Busy
    <2>3. CASE req[r].then = "continue"
      <3>1. Duplicate(r)
        BY <1>6, <2>3 DEF Duplicate, ForgetAttempt
      <3>2. UNCHANGED <<location, chunk>>
        BY <1>6 DEF ForgetAttempt
      <3>3. Located(p)' = Located(p) /\ StoredIn(p)' = StoredIn(p)
        BY <3>2 DEF Located, StoredIn
      <3>4. /\ chunk[p] = req[r].content /\ Located(p) # {}
            /\ Mode = "replicate" => \A s \in Store : s \in StoredIn(p) \/ \E d \in req[r].todo : d.store = s
            /\ Mode = "replicate" => c.store \in StoredIn(p)
        BY <2>1, <2>2, <3>1 DEF Promise
      <3>5. req[r].pc # "idle" /\ req' = [req EXCEPT ![r] = Advance(r, c)]
        BY <1>6, <2>1, <2>3 DEF ForgetAttempt
      <3> QED
        BY <2>2, <3>2, <3>3, <3>4, <3>5, PromiseAdvance
    <2>4. CASE req[r].then # "continue"
      <3>1. req'[r].pc = "idle"
        BY <1>a, <2>1, <2>4, IdleRequest DEF TypeOK
      <3> QED
        BY <3>1, NoPromise
    <2> QED
      BY <2>3, <2>4
  <1> QED
    BY <1>1, <1>2, <1>3, <1>4, <1>5, <1>6, PromiseReserve DEF RequestStep

\* Requests change only in their own steps.
LEMMA RequestSteps ==
  ASSUME TypeOK, [Next]_vars, NEW q \in Request, ~RequestStep(q)
  PROVE  req'[q] = req[q]
  <1> USE DEF transferVars, chunkVars, jobVars
  <1>1. ASSUME NEW r \in Request, RequestStep(r)
        PROVE  \E x : req' = [req EXCEPT ![r] = x]
    BY <1>1 DEF RequestStep, Put, PutFails, Commit, CommitThrows, RemoveObject, ForgetAttempt, EndRequest, Reserve
  <1>2. ASSUME NEW k \in Reaper, ReaperStep(k)
        PROVE  UNCHANGED req
    BY <1>2 DEF ReaperStep, ClaimAttempt, ReapObject, ReapFails, ReapRow, ReaperDies
  <1>3. ASSUME NEW w \in Worker, WorkerStep(w)
        PROVE  UNCHANGED req
    BY <1>3 DEF WorkerStep, LoadJob, StagingRemoved, PurgeStore, JobFails, Finish
  <1>4. CASE \/ Create \/ (\E m \in Manifest : Complete(m)) \/ RemoveTransfer \/ Consume \/ RetryCleanup
             \/ PruneTransfer \/ Expire \/ GoStale \/ (\E a \in Attempt : LeaseLapses(a) \/ ClaimGoesStale(a))
             \/ UNCHANGED vars
    BY <1>4 DEF Create, Complete, RemoveTransfer, Consume, RetryCleanup, PruneTransfer, Expire, GoStale,
                LeaseLapses, ClaimGoesStale, vars
  <1> QED
    BY <1>1, <1>2, <1>3, <1>4 DEF Next, TypeOK

\* A transfer becomes live only by being created, and available only by complete().
LEMMA StatusSteps ==
  ASSUME TypeOK, [Next]_vars
  PROVE  /\ Live' => Live \/ status = "absent"
         /\ status' = "available" => status = "available" \/ \E m \in Manifest : Complete(m)
         /\ status' = "deleting" => status = "deleting" \/ Live
         /\ status' = "gone" => status = "gone" \/ \E w \in Worker : Finish(w) /\ Erases
         /\ status \in {"deleting", "gone"} => status' \in {status, "gone"}
         /\ status' = status \/ UNCHANGED <<chunkVars, row, object, req, reaper, worker>> \/ Erases
  <1> USE DEF transferVars, chunkVars, jobVars, Live, Erases
  <1>1. ASSUME NEW r \in Request, RequestStep(r)
        PROVE  UNCHANGED status
    BY <1>1 DEF RequestStep, Put, PutFails, Commit, CommitThrows, RemoveObject, ForgetAttempt, EndRequest, Reserve
  <1>2. ASSUME NEW k \in Reaper, ReaperStep(k)
        PROVE  UNCHANGED status
    BY <1>2 DEF ReaperStep, ClaimAttempt, ReapObject, ReapFails, ReapRow, ReaperDies
  <1>3. ASSUME NEW w \in Worker, WorkerStep(w)
        PROVE  UNCHANGED status \/ (Finish(w) /\ Erases)
    BY <1>3 DEF WorkerStep, LoadJob, StagingRemoved, PurgeStore, JobFails, Finish
  <1>4. CASE Create \/ \E m \in Manifest : Complete(m)
    BY <1>4 DEF Create, Complete
  <1>5. CASE RemoveTransfer \/ Consume \/ RetryCleanup \/ PruneTransfer
    BY <1>5 DEF RemoveTransfer, Consume, RetryCleanup, PruneTransfer
  <1>6. CASE Expire \/ GoStale \/ (\E a \in Attempt : LeaseLapses(a) \/ ClaimGoesStale(a)) \/ UNCHANGED vars
    BY <1>6 DEF Expire, GoStale, LeaseLapses, ClaimGoesStale, vars
  <1> QED
    BY <1>1, <1>2, <1>3, <1>4, <1>5, <1>6 DEF Next

\* Every step keeps what the requests have established.
LEMMA PromisesStep == ~LostCommitAck /\ OwnershipInv /\ Promises /\ [Next]_vars => Promises'
  <1> SUFFICES ASSUME ~LostCommitAck, OwnershipInv, Promises, [Next]_vars, Live', NEW r \in Request
               PROVE  Promise(r)'
    BY DEF Promises
  <1>a. TypeOK
    BY DEF OwnershipInv
  <1>1. CASE Live
    <2>1. Promise(r)
      BY <1>1 DEF Promises
    <2>2. CASE RequestStep(r)
      BY <1>1, <2>1, <2>2, PromiseRequest
    <2>3. CASE ~RequestStep(r)
      BY <1>a, <2>1, <2>3, RequestSteps, ChunksKept, PromiseKept
    <2> QED
      BY <2>2, <2>3
  <1>2. CASE ~Live
    <2>1. status = "absent" /\ status' # status
      BY <1>a, <1>2, StatusSteps DEF Live
    <2>2. UNCHANGED req
      BY <1>a, <2>1, StatusSteps DEF Erases
    <2>3. req'[r].pc = "idle"
      BY <2>1, <2>2, IdleRequest DEF OwnershipInv, NothingYet
    <2> QED
      BY <2>3, NoPromise
  <1> QED
    BY <1>1, <1>2

\* complete() checks the copies, and nothing is stored or removed afterwards.
LEMMA AvailableStep == TypeOK /\ AvailableComplete /\ [Next]_vars => AvailableComplete'
  <1> SUFFICES ASSUME TypeOK, AvailableComplete, [Next]_vars, status' = "available", NEW p \in Position
               PROVE  CopiesComplete(p)'
    BY DEF AvailableComplete
  <1>1. CopiesComplete(p)
    BY StatusSteps DEF AvailableComplete, Complete
  <1>2. UNCHANGED location
    <2>1. CASE UNCHANGED chunkVars
      BY <2>1 DEF chunkVars
    <2>2. CASE Erases
      BY <2>2 DEF Erases
    <2>3. ASSUME NEW r \in Request, NEW c \in req[r].todo, Accepts(r, c)
          PROVE  FALSE
      BY <2>3, AcceptedCopy DEF Accepts, transferVars
    <2> QED
      BY <2>1, <2>2, <2>3, ChunkSteps
  <1> QED
    BY <1>1, <1>2 DEF CopiesComplete, Located, StoredIn

PublicationInv == OwnershipInv /\ PlacementExact /\ Promises /\ AvailableComplete

\* The invariant behind acknowledgements and completion.
LEMMA PublicationInvariant == ASSUME ~LostCommitAck PROVE Spec => []PublicationInv
  <1>1. Init => Promises /\ AvailableComplete
    BY DEF Init, Promises, AvailableComplete, Live
  <1>2. OwnershipInv => TypeOK
    BY DEF OwnershipInv
  <1>3. PublicationInv /\ [Next]_vars => PublicationInv'
    BY <1>2, OwnershipStep, PlacementStep, PromisesStep, AvailableStep DEF PublicationInv
  <1>4. Init => PublicationInv
    BY <1>1, OwnershipInit, PlacementInit DEF PublicationInv
  <1> QED
    BY <1>3, <1>4, PTL DEF Spec

\* A position that has all its copies can be read.
LEMMA CompleteReadable ==
  ASSUME PublicationInv, Live, NEW p \in Position, CopiesComplete(p)
  PROVE  Readable(p)
  <1>1. Located(p) # {}
    <2>1. CASE Mode = "replicate"
      BY <2>1, PlacementAssumption DEF CopiesComplete, StoredIn
    <2>2. CASE Mode = "distribute"
      BY <2>2, FS_EmptySet DEF CopiesComplete
    <2> QED
      BY <2>1, <2>2, PlacementAssumption
  <1> QED
    BY <1>1 DEF Readable, Located, PublicationInv, OwnershipInv, LocationBacked

\* A chunk upload is answered 201 only when its own ciphertext is published
\* with all required copies and can be read, for every placement and any number
\* of uploads that race for the position, as long as a database transaction that
\* reports failure has not committed.
THEOREM AcknowledgementsTrue == ASSUME ~LostCommitAck PROVE Spec => []AcknowledgedPublished
  <1>1. PublicationInv => AcknowledgedPublished
    <2> SUFFICES ASSUME PublicationInv, NEW r \in Request, req[r].pc = "acked", Live
                 PROVE  /\ chunk[req[r].position] = req[r].content
                        /\ CopiesComplete(req[r].position) /\ Readable(req[r].position)
      BY DEF AcknowledgedPublished
    <2>1. PICK p \in Position : p = req[r].position
      BY BusyRequest DEF PublicationInv, OwnershipInv, Busy
    <2>2. /\ req[r].todo = {} /\ chunk[p] = req[r].content /\ Located(p) # {}
          /\ Mode = "replicate" => \A s \in Store : s \in StoredIn(p)
      BY <2>1 DEF PublicationInv, Promises, Promise
    <2>3. CopiesComplete(p)
      <3>1. CASE Mode = "replicate"
        BY <2>2, <3>1 DEF CopiesComplete
      <3>2. CASE Mode = "distribute"
        <4>1. PICK l : l \in Located(p)
          BY <2>2
        <4>2. Located(p) = {l}
          BY <3>2, <4>1 DEF PublicationInv, PlacementExact, Located
        <4> QED
          BY <3>2, <4>2, FS_Singleton DEF CopiesComplete
      <3> QED
        BY <3>1, <3>2, PlacementAssumption
    <2> QED
      BY <2>1, <2>2, <2>3, CompleteReadable
  <1> QED
    BY <1>1, PublicationInvariant, PTL

-----------------------------------------------------------------------------
(* Completion.                                                             *)

Written == {p \in Position : chunk[p] # None}

Counted == counted = Cardinality(Written)

\* The second transaction counts a chunk when it writes its row, and no other
\* step touches the counter before the rows are erased.
LEMMA CountedStep == TypeOK /\ Counted /\ [Next]_vars => Counted'
  <1> SUFFICES ASSUME TypeOK, Counted, [Next]_vars
               PROVE  Counted'
    OBVIOUS
  <1>1. CASE UNCHANGED chunkVars
    BY <1>1 DEF chunkVars, Counted, Written
  <1>2. CASE Erases
    <2>1. Written' = {}
      BY <1>2 DEF Erases, Written
    <2> QED
      BY <1>2, <2>1, FS_EmptySet DEF Erases, Counted
  <1>3. ASSUME NEW r \in Request, NEW c \in req[r].todo, Accepts(r, c)
        PROVE  Counted'
    <2>1. PICK p \in Position : p = req[r].position
      BY <1>3, AcceptedCopy DEF Busy
    <2>2. req[r].content # None
      BY <1>3, AcceptedCopy, NoneAssumption DEF Busy
    <2>3. Written' = Written \cup {p}
      BY <1>3, <2>1, <2>2, AcceptedRows DEF Written
    <2>4. IsFiniteSet(Written)
      BY FS_Subset, PlacementAssumption DEF Written
    <2>5. Cardinality(Written') = IF p \in Written THEN Cardinality(Written) ELSE Cardinality(Written) + 1
      BY <2>3, <2>4, FS_AddElement
    <2>6. counted' = IF p \in Written THEN counted ELSE counted + 1
      BY <1>3, <2>1, AcceptedRows DEF Written
    <2> QED
      BY <2>5, <2>6 DEF Counted
  <1> QED
    BY <1>1, <1>2, <1>3, ChunkSteps

\* complete() never refuses a finished upload for its byte count, and what it
\* accepted has all its copies and can be read, for any number of positions and
\* filestores, as long as a database transaction that reports failure has not
\* committed.
THEOREM CompletionsReadable == ASSUME ~LostCommitAck PROVE Spec => []CompletionReadable
  <1>1. Init => Counted
    <2> SUFFICES ASSUME Init PROVE Counted
      OBVIOUS
    <2>1. Written = {}
      BY DEF Init, Written
    <2> QED
      BY <2>1, FS_EmptySet DEF Init, Counted
  <1>2. PublicationInv /\ Counted => CompletionReadable
    <2> SUFFICES ASSUME PublicationInv, Counted
                 PROVE  CompletionReadable
      OBVIOUS
    <2>1. CountedOnce
      BY DEF CountedOnce, Counted, Written
    <2>2. AvailableReadable
      BY CompleteReadable DEF AvailableReadable, PublicationInv, AvailableComplete, Live
    <2> QED
      BY <2>1, <2>2 DEF CompletionReadable
  <1>3. PublicationInv => TypeOK
    BY DEF PublicationInv, OwnershipInv
  <1> QED
    BY <1>1, <1>2, <1>3, CountedStep, PublicationInvariant, PTL DEF Spec

-----------------------------------------------------------------------------
(* Removal.                                                                *)

\* The first transaction reserves paths that nothing names.
LEMMA ReserveShape ==
  ASSUME TypeOK, NEW r \in Request, NEW p \in Position, NEW v \in Content, Reserve(r, p, v)
  PROVE  /\ UNCHANGED <<status, location, object, reaper, worker>>
         /\ \A q \in Request : q # r => req'[q] = req[q]
         /\ req[r].todo = {} /\ req'[r].pc \in {"put", "acked"}
         /\ \A a \in Attempt : row'[a] # row[a] => Fresh(a)
         /\ \A c \in req'[r].todo : /\ c.path \in Attempt /\ Fresh(c.path)
                                    /\ row'[c.path] \in Row /\ ~row'[c.path].lapsed
         /\ \A c, d \in req'[r].todo : c.path = d.path \/ Mode = "distribute" => c = d
  <1>1. /\ UNCHANGED <<status, location, object, reaper, worker>> /\ req[r].pc = "idle"
        /\ \E x : req' = [req EXCEPT ![r] = x]
    BY DEF Reserve, transferVars, chunkVars, jobVars
  <1>2. req[r].todo = {} /\ \A q \in Request : q # r => req'[q] = req[q]
    BY <1>1 DEF TypeOK, RequestState, NoRequest
  <1> DEFINE New == /\ req'[r].pc \in {"put", "acked"}
                    /\ \A a \in Attempt : row'[a] # row[a] => Fresh(a)
                    /\ \A c \in req'[r].todo : /\ c.path \in Attempt /\ Fresh(c.path)
                                               /\ row'[c.path] \in Row /\ ~row'[c.path].lapsed
                    /\ \A c, d \in req'[r].todo : c.path = d.path \/ Mode = "distribute" => c = d
  <1>3. ASSUME req' = [req EXCEPT ![r] = [pc |-> "acked", position |-> p, content |-> v, todo |-> {}, then |-> "stop"]],
               UNCHANGED row
        PROVE  New
    <2>1. req'[r] = [pc |-> "acked", position |-> p, content |-> v, todo |-> {}, then |-> "stop"]
      BY <1>3 DEF TypeOK
    <2> QED
      BY <1>3, <2>1
  <1>4. ASSUME NEW enabled \in SUBSET Store, NEW dest \in Reservable(p, enabled), NEW name \in [dest -> Attempt],
               \A s \in dest : Fresh(name[s]),
               \A s, t \in dest : name[s] = name[t] => s = t,
               row' = [a \in Attempt |->
                          IF \E s \in dest : name[s] = a
                          THEN [position |-> p, store |-> CHOOSE s \in dest : name[s] = a,
                                lapsed |-> FALSE, reaping |-> "no"]
                          ELSE row[a]],
               req' = [req EXCEPT ![r] =
                          [pc |-> IF dest = {} THEN "acked" ELSE "put", position |-> p,
                           content |-> v, then |-> "stop",
                           todo |-> {[store |-> s, path |-> name[s]] : s \in dest}]]
        PROVE  New
    <2> DEFINE todo == {[store |-> s, path |-> name[s]] : s \in dest}
    <2>1. req'[r].todo = todo /\ req'[r].pc \in {"put", "acked"}
      BY <1>4 DEF TypeOK
    <2>2. \A c \in todo : \E s \in dest : c.store = s /\ c.path = name[s] /\ c = [store |-> s, path |-> name[s]]
      OBVIOUS
    <2>3. dest \subseteq Store /\ (Mode = "distribute" => \A s, t \in dest : s = t)
      BY <1>4, PlacementAssumption DEF Reservable
    <2>4. \A s \in dest : row'[name[s]] \in Row /\ ~row'[name[s]].lapsed
      <3> SUFFICES ASSUME NEW s \in dest
                   PROVE  row'[name[s]] \in Row /\ ~row'[name[s]].lapsed
        OBVIOUS
      <3> DEFINE t == CHOOSE t \in dest : name[t] = name[s]
      <3>1. t \in dest
        OBVIOUS
      <3>2. row'[name[s]] = [position |-> p, store |-> t, lapsed |-> FALSE, reaping |-> "no"]
        BY <1>4
      <3> HIDE DEF t
      <3> QED
        BY <2>3, <3>1, <3>2 DEF Row
    <2>5. \A a \in Attempt : row'[a] # row[a] => \E s \in dest : name[s] = a
      BY <1>4
    <2> HIDE DEF todo
    <2>6. \A c \in todo : c.path \in Attempt /\ Fresh(c.path) /\ row'[c.path] \in Row /\ ~row'[c.path].lapsed
      BY <1>4, <2>2, <2>4
    <2>7. \A c, d \in todo : c.path = d.path \/ Mode = "distribute" => c = d
      BY <1>4, <2>2, <2>3
    <2> QED
      BY <1>4, <2>1, <2>5, <2>6, <2>7
  <1> HIDE DEF New
  <1>5. New
    BY <1>3, <1>4 DEF Reserve
  <1> QED
    BY <1>1, <1>2, <1>5 DEF New

\* The other steps of a request take up no new path.
LEMMA TodoShrinks ==
  ASSUME TypeOK, NEW r \in Request, RequestStep(r), ~(\E p \in Position, v \in Content : Reserve(r, p, v))
  PROVE  /\ req'[r].todo \subseteq req[r].todo
         /\ \A q \in Request : q # r => req'[q] = req[q]
         /\ req[r].pc \in {"put", "commit", "remove", "forget", "acked"}
  <1>1. /\ req[r].pc # "idle"
        /\ \/ req' = [req EXCEPT ![r] = NoRequest]
           \/ \E pc : req' = [req EXCEPT ![r] = [req[r] EXCEPT !.pc = pc]]
           \/ \E pc, then : req' = [req EXCEPT ![r] = [req[r] EXCEPT !.pc = pc, !.then = then]]
           \/ \E c : req' = [req EXCEPT ![r] = Advance(r, c)]
    <2>1. CASE Put(r) \/ RemoveObject(r)
      BY <2>1 DEF Put, RemoveObject
    <2>2. CASE PutFails(r) \/ EndRequest(r) \/ ForgetAttempt(r)
      BY <2>2 DEF PutFails, EndRequest, ForgetAttempt
    <2>3. CASE CommitThrows(r)
      BY <2>3 DEF CommitThrows
    <2>4. CASE Commit(r)
      BY <2>4 DEF Commit
    <2> QED
      BY <2>1, <2>2, <2>3, <2>4 DEF RequestStep
  <1>2. req[r] \in Busy
    BY <1>1, BusyRequest
  <1>3. \A pc, then : [req[r] EXCEPT !.pc = pc].todo = req[r].todo
                      /\ [req[r] EXCEPT !.pc = pc, !.then = then].todo = req[r].todo
    BY <1>2 DEF Busy
  <1>4. \A c : Advance(r, c).todo \subseteq req[r].todo
    BY <1>2 DEF Advance, Busy
  <1>5. req'[r].todo \subseteq req[r].todo
    <2>1. \A x : req' = [req EXCEPT ![r] = x] => req'[r] = x
      BY DEF TypeOK
    <2>2. CASE req' = [req EXCEPT ![r] = NoRequest]
      BY <2>1, <2>2, IdleRequest
    <2>3. ASSUME NEW pc, req' = [req EXCEPT ![r] = [req[r] EXCEPT !.pc = pc]]
          PROVE  req'[r].todo = req[r].todo
      <3>1. req'[r] = [req[r] EXCEPT !.pc = pc]
        BY <2>1, <2>3
      <3> QED
        BY <1>3, <3>1
    <2>4. ASSUME NEW pc, NEW then, req' = [req EXCEPT ![r] = [req[r] EXCEPT !.pc = pc, !.then = then]]
          PROVE  req'[r].todo = req[r].todo
      <3>1. req'[r] = [req[r] EXCEPT !.pc = pc, !.then = then]
        BY <2>1, <2>4
      <3> QED
        BY <1>3, <3>1
    <2>5. ASSUME NEW c, req' = [req EXCEPT ![r] = Advance(r, c)]
          PROVE  req'[r].todo \subseteq req[r].todo
      BY <1>4, <2>1, <2>5
    <2> QED
      BY <1>1, <2>2, <2>3, <2>4, <2>5
  <1> QED
    BY <1>1, <1>2, <1>5 DEF TypeOK, Busy

\* Only the request that works on a path stores something under it.
LEMMA ObjectSteps ==
  ASSUME TypeOK, [Next]_vars, NEW a \in Attempt
  PROVE  \/ object'[a] = object[a] \/ object'[a] = None
         \/ \E r \in Request : /\ req[r].pc = "put" /\ RequestStep(r) /\ UNCHANGED <<location, row, reaper, worker, status>>
                               /\ \E c \in req[r].todo : c.path = a
                               /\ \A b \in Attempt : b # a => object'[b] = object[b]
  <1> USE DEF transferVars, chunkVars, jobVars
  <1>1. ASSUME NEW r \in Request, RequestStep(r)
        PROVE  \/ object'[a] = object[a] \/ object'[a] = None
               \/ /\ req[r].pc = "put" /\ UNCHANGED <<location, row, reaper, worker, status>> /\ \E c \in req[r].todo : c.path = a
                  /\ \A b \in Attempt : b # a => object'[b] = object[b]
    <2>1. CASE Put(r) \/ PutFails(r)
      <3>1. /\ req[r].pc = "put" /\ UNCHANGED <<location, row, reaper, worker, status>>
            /\ \E c \in req[r].todo : \E left : object' = [object EXCEPT ![c.path] = left]
        BY <2>1 DEF Put, PutFails
      <3>2. PICK c \in req[r].todo : \E left : object' = [object EXCEPT ![c.path] = left]
        BY <3>1
      <3>3. \A b \in Attempt : b # c.path => object'[b] = object[b]
        BY <3>2 DEF TypeOK
      <3> QED
        BY <3>1, <3>3
    <2>3. CASE RemoveObject(r)
      BY <2>3 DEF RemoveObject, TypeOK
    <2>4. CASE ~(Put(r) \/ PutFails(r)) /\ ~RemoveObject(r)
      BY <1>1, <2>4 DEF RequestStep, Commit, CommitThrows, ForgetAttempt, EndRequest, Reserve
    <2> QED
      BY <2>1, <2>3, <2>4
  <1>2. ASSUME NEW k \in Reaper, ReaperStep(k)
        PROVE  object'[a] = object[a] \/ object'[a] = None
    BY <1>2 DEF ReaperStep, ClaimAttempt, ReapObject, ReapFails, ReapRow, ReaperDies, TypeOK
  <1>3. ASSUME NEW w \in Worker, WorkerStep(w)
        PROVE  object'[a] = object[a] \/ object'[a] = None
    BY <1>3 DEF WorkerStep, LoadJob, StagingRemoved, PurgeStore, JobFails, Finish
  <1>4. CASE \/ Create \/ (\E m \in Manifest : Complete(m)) \/ RemoveTransfer \/ Consume \/ RetryCleanup
             \/ PruneTransfer \/ Expire \/ GoStale \/ (\E b \in Attempt : LeaseLapses(b) \/ ClaimGoesStale(b))
             \/ UNCHANGED vars
    BY <1>4 DEF Create, Complete, RemoveTransfer, Consume, RetryCleanup, PruneTransfer, Expire, GoStale,
                LeaseLapses, ClaimGoesStale, vars
  <1> QED
    BY <1>1, <1>2, <1>3, <1>4 DEF Next

\* An accepted attempt loses its row, and a reserved one was not named before.
LEMMA RowsApartStep == TypeOK /\ RowsApart /\ [Next]_vars => RowsApart'
  <1> SUFFICES ASSUME TypeOK, RowsApart, [Next]_vars, NEW a \in Attempt, row'[a] # None
               PROVE  a \notin Paths'
    BY DEF RowsApart
  <1>1. CASE Erases
    BY <1>1 DEF Erases, Paths
  <1>2. ASSUME NEW r \in Request, NEW c \in req[r].todo, Accepts(r, c)
        PROVE  a \notin Paths'
    BY <1>2, AcceptedRows DEF RowsApart
  <1>3. CASE UNCHANGED chunkVars
    <2>1. Paths' = Paths
      BY <1>3 DEF chunkVars, Paths
    <2>2. CASE row[a] # None
      BY <2>1, <2>2 DEF RowsApart
    <2>3. CASE row[a] = None
      <3>1. PICK r \in Request, p \in Position, v \in Content : Reserve(r, p, v)
        BY <2>3, RowSteps
      <3>2. Fresh(a)
        BY <2>3, <3>1, ReserveShape
      <3> QED
        BY <2>1, <3>2 DEF Fresh
    <2> QED
      BY <2>2, <2>3
  <1> QED
    BY <1>1, <1>2, <1>3, ChunkSteps

\* A path that is written belongs to one request and to no location.
LEMMA WritersApartStep == TypeOK /\ WritersApart /\ [Next]_vars => WritersApart'
  <1> SUFFICES ASSUME TypeOK, WritersApart, [Next]_vars, NEW r \in Request, NEW c \in req'[r].todo
               PROVE  /\ \A q \in Request : \A d \in req'[q].todo : c.path = d.path => r = q /\ c = d
                      /\ c.path \in Paths' => req'[r].pc \in {"remove", "forget"} /\ req'[r].then = "stop"
    BY DEF WritersApart
  <1>1. CASE \E s \in Request, p \in Position, v \in Content : Reserve(s, p, v)
    <2>1. PICK s \in Request, p \in Position, v \in Content : Reserve(s, p, v)
      BY <1>1
    <2>2. /\ UNCHANGED location /\ \A q \in Request : q # s => req'[q] = req[q]
          /\ \A d \in req'[s].todo : Fresh(d.path)
          /\ \A d, e \in req'[s].todo : d.path = e.path => d = e
      BY <2>1, ReserveShape
    <2>3. Paths' = Paths
      BY <2>2 DEF Paths
    <2> QED
      BY <2>2, <2>3 DEF WritersApart, Fresh
  <1>2. CASE ~\E s \in Request, p \in Position, v \in Content : Reserve(s, p, v)
    <2>1. \A q \in Request : req'[q].todo \subseteq req[q].todo
      BY <1>2, RequestSteps, TodoShrinks
    <2>2. \A q \in Request : \A d \in req'[q].todo : c.path = d.path => r = q /\ c = d
      BY <2>1 DEF WritersApart
    <2>3. ASSUME c.path \in Paths, req'[r] = req[r]
          PROVE  req'[r].pc \in {"remove", "forget"} /\ req'[r].then = "stop"
      BY <2>1, <2>3 DEF WritersApart
    <2>4. ASSUME c.path \in Paths, RequestStep(r)
          PROVE  req'[r].pc \in {"remove", "forget"} /\ req'[r].then = "stop"
      <3>1. req[r].pc \in {"remove", "forget"} /\ req[r].then = "stop" /\ req[r].pc # "idle" /\ req[r] \in Busy
        BY <2>1, <2>4, BusyRequest DEF WritersApart
      <3>2. ~EndRequest(r) /\ ~PutFails(r) /\ ~ForgetAttempt(r)
        <4>1. req'[r] # NoRequest
          BY IdleRequest
        <4> QED
          BY <3>1, <4>1 DEF EndRequest, PutFails, ForgetAttempt, TypeOK
      <3>3. RemoveObject(r)
        BY <1>2, <2>4, <3>1, <3>2 DEF RequestStep, Put, Commit, CommitThrows
      <3>4. req' = [req EXCEPT ![r] = [req[r] EXCEPT !.pc = "forget"]]
        <4>1. req'[r] # NoRequest
          BY IdleRequest
        <4> QED
          BY <3>3, <4>1 DEF RemoveObject, TypeOK
      <3>5. req'[r] = [req[r] EXCEPT !.pc = "forget"]
        BY <3>4 DEF TypeOK
      <3> QED
        BY <3>1, <3>5 DEF Busy
    <2>5. ASSUME c.path \in Paths', c.path \notin Paths
          PROVE  req'[r].pc \in {"remove", "forget"} /\ req'[r].then = "stop"
      <3>a. PICK s \in Request : \E d \in req[s].todo : Accepts(s, d)
        BY <2>5, ChunkSteps DEF Erases, chunkVars, Paths
      <3>1. PICK d \in req[s].todo : Accepts(s, d)
        BY <3>a
      <3>2. c.path = d.path
        BY <2>5, <3>1, AcceptedRows
      <3>3. s = r /\ d = c
        BY <2>1, <3>2 DEF WritersApart
      <3>4. req[r] \in Busy
        BY <3>1, <3>3, AcceptedCopy
      <3>5. req' # [req EXCEPT ![r] = Advance(r, c)]
        <4>1. Advance(r, c).todo = req[r].todo \ {c}
          BY <3>4 DEF Advance, Busy
        <4> QED
          BY <4>1 DEF TypeOK
      <3>6. req'[r] = [req[r] EXCEPT !.pc = "remove", !.then = "stop"]
        BY <3>1, <3>3, <3>5 DEF Accepts, TypeOK
      <3> QED
        BY <3>4, <3>6 DEF Busy
    <2> QED
      BY <2>2, <2>3, <2>4, <2>5, RequestSteps
  <1> QED
    BY <1>1, <1>2

\* Workers change only in their own steps.
LEMMA WorkerSteps ==
  ASSUME TypeOK, [Next]_vars, NEW w \in Worker
  PROVE  worker'[w] = worker[w] \/ WorkerStep(w)
  <1> USE DEF transferVars, chunkVars, jobVars
  <1>1. ASSUME NEW r \in Request, RequestStep(r)
        PROVE  UNCHANGED worker
    BY <1>1 DEF RequestStep, Put, PutFails, Commit, CommitThrows, RemoveObject, ForgetAttempt, EndRequest, Reserve
  <1>2. ASSUME NEW k \in Reaper, ReaperStep(k)
        PROVE  UNCHANGED worker
    BY <1>2 DEF ReaperStep, ClaimAttempt, ReapObject, ReapFails, ReapRow, ReaperDies
  <1>3. ASSUME NEW u \in Worker, WorkerStep(u), u # w
        PROVE  worker'[w] = worker[w]
    BY <1>3 DEF WorkerStep, LoadJob, StagingRemoved, PurgeStore, JobFails, Finish, TypeOK
  <1>4. CASE \/ Create \/ (\E m \in Manifest : Complete(m)) \/ RemoveTransfer \/ Consume \/ RetryCleanup
             \/ PruneTransfer \/ Expire \/ GoStale \/ (\E a \in Attempt : LeaseLapses(a) \/ ClaimGoesStale(a))
             \/ UNCHANGED vars
    BY <1>4 DEF Create, Complete, RemoveTransfer, Consume, RetryCleanup, PruneTransfer, Expire, GoStale,
                LeaseLapses, ClaimGoesStale, vars
  <1> QED
    BY <1>1, <1>2, <1>3, <1>4 DEF Next

\* A worker takes up a transfer only when that is being deleted.
LEMMA JobsAfterRemovalStep == TypeOK /\ JobsAfterRemoval /\ [Next]_vars => JobsAfterRemoval'
  <1> SUFFICES ASSUME TypeOK, JobsAfterRemoval, [Next]_vars, NEW w \in Worker, worker'[w].pc # "idle"
               PROVE  status' \in {"deleting", "gone"}
    BY DEF JobsAfterRemoval
  <1>1. worker[w].pc # "idle" \/ status = "deleting"
    <2>1. CASE WorkerStep(w)
      BY <2>1 DEF WorkerStep, LoadJob, StagingRemoved, PurgeStore, JobFails, Finish
    <2> QED
      BY <2>1, WorkerSteps
  <1> QED
    BY <1>1, StatusSteps DEF JobsAfterRemoval

\* While a transfer is being deleted its locations stay, and what they name is
\* only deleted.
LEMMA DeletingSteps ==
  ASSUME TypeOK, RowsApart, WritersApart, [Next]_vars, status = "deleting", status' = "deleting"
  PROVE  UNCHANGED location /\ \A l \in location : object'[l.path] \in {object[l.path], None}
  <1>1. UNCHANGED location
    <2>1. CASE UNCHANGED chunkVars
      BY <2>1 DEF chunkVars
    <2>2. ASSUME NEW r \in Request, NEW c \in req[r].todo, Accepts(r, c)
          PROVE  FALSE
      BY <2>2, AcceptedCopy
    <2> QED
      BY <2>1, <2>2, ChunkSteps DEF Erases
  <1>2. ASSUME NEW l \in location
        PROVE  object'[l.path] \in {object[l.path], None}
    <2>1. l.path \in Attempt /\ l.path \in Paths
      BY DEF TypeOK, Location, Paths
    <2>2. ASSUME NEW r \in Request, req[r].pc = "put", NEW c \in req[r].todo, c.path = l.path
          PROVE  FALSE
      BY <2>1, <2>2 DEF WritersApart
    <2> QED
      BY <2>1, <2>2, ObjectSteps
  <1> QED
    BY <1>1, <1>2

\* A deletion job forgets a path only after it has deleted the object.
LEMMA JobsKeepTrackStep == RemovalInv /\ [Next]_vars => JobsKeepTrack'
  <1> SUFFICES ASSUME RemovalInv, [Next]_vars, NEW w \in Worker
               PROVE  /\ worker'[w].pc = "finish" => worker'[w].paths = {}
                      /\ worker'[w].pc # "idle" /\ status' = "deleting" =>
                           \A l \in location' : object'[l.path] = None
                                                \/ \E c \in worker'[w].paths : c.path = l.path /\ c.store = l.store
    BY DEF JobsKeepTrack
  <1> USE DEF transferVars, chunkVars, jobVars
  <1>a. TypeOK /\ RowsApart /\ WritersApart /\ JobsKeepTrack
    BY DEF RemovalInv
  <1>1. worker'[w].pc = "finish" => worker'[w].paths = {}
    <2>1. CASE LoadJob(w)
      BY <1>a, <2>1 DEF LoadJob, TypeOK, JobsKeepTrack
    <2>2. CASE StagingRemoved(w)
      <3>1. worker'[w] = [worker[w] EXCEPT !.pc = IF worker[w].paths = {} THEN "finish" ELSE "purge"]
        BY <1>a, <2>2 DEF StagingRemoved, TypeOK
      <3>2. worker[w] \in [pc : {"staging", "purge", "finish"}, paths : SUBSET Copy]
        BY <1>a, <2>2 DEF StagingRemoved, TypeOK, WorkerState, NoJob
      <3> QED
        BY <3>1, <3>2
    <2>3. CASE PurgeStore(w)
      BY <1>a, <2>3 DEF PurgeStore, TypeOK
    <2>4. CASE JobFails(w) \/ Finish(w)
      BY <1>a, <2>4 DEF JobFails, Finish, TypeOK, NoJob
    <2> QED
      BY <1>a, <2>1, <2>2, <2>3, <2>4, WorkerSteps DEF WorkerStep, JobsKeepTrack
  <1>2. ASSUME worker'[w].pc # "idle", status' = "deleting", NEW l \in location'
        PROVE  object'[l.path] = None \/ \E c \in worker'[w].paths : c.path = l.path /\ c.store = l.store
    <2>1. status = "deleting"
      <3>1. CASE worker[w].pc # "idle"
        BY <1>2, <1>a, <3>1, StatusSteps DEF RemovalInv, JobsAfterRemoval, Live
      <3>2. CASE worker[w].pc = "idle"
        BY <1>2, <1>a, <3>2, WorkerSteps DEF WorkerStep, LoadJob, StagingRemoved, PurgeStore, JobFails, Finish
      <3> QED
        BY <3>1, <3>2
    <2>2. l \in location /\ object'[l.path] \in {object[l.path], None}
      BY <1>2, <1>a, <2>1, DeletingSteps
    <2>3. CASE worker'[w] = worker[w]
      BY <1>2, <1>a, <2>1, <2>2, <2>3 DEF JobsKeepTrack
    <2>4. CASE LoadJob(w)
      <3>1. CASE worker'[w] # worker[w]
        <4> DEFINE c == [store |-> l.store, path |-> l.path]
        <4>1. worker'[w].paths = {[store |-> m.store, path |-> m.path] : m \in location}
          BY <1>a, <2>4, <3>1 DEF LoadJob, TypeOK
        <4>2. c \in worker'[w].paths /\ c.path = l.path /\ c.store = l.store
          BY <2>2, <4>1
        <4> QED
          BY <4>2
      <3> QED
        BY <2>3, <3>1
    <2>5. CASE StagingRemoved(w)
      <3>1. worker'[w] = [worker[w] EXCEPT !.pc = IF worker[w].paths = {} THEN "finish" ELSE "purge"]
        BY <1>a, <2>5 DEF StagingRemoved, TypeOK
      <3>2. worker[w] \in [pc : {"staging", "purge", "finish"}, paths : SUBSET Copy] /\ worker[w].pc # "idle"
        BY <1>a, <2>5 DEF StagingRemoved, TypeOK, WorkerState, NoJob
      <3>3. worker'[w].paths = worker[w].paths
        BY <3>1, <3>2
      <3> QED
        BY <1>a, <2>1, <2>2, <3>2, <3>3 DEF JobsKeepTrack
    <2>6. CASE PurgeStore(w)
      <3>1. PICK c \in worker[w].paths :
              LET copies == {d \in worker[w].paths : d.store = c.store}
              IN /\ object' = [a \in Attempt |-> IF \E d \in copies : d.path = a THEN None ELSE object[a]]
                 /\ worker' = [worker EXCEPT ![w] =
                      [pc |-> IF worker[w].paths \ copies = {} THEN "finish" ELSE "purge",
                       paths |-> worker[w].paths \ copies]]
        BY <2>6 DEF PurgeStore
      <3> DEFINE copies == {d \in worker[w].paths : d.store = c.store}
      <3>2. worker'[w].paths = worker[w].paths \ copies
        BY <1>a, <3>1 DEF TypeOK
      <3>3. l.path \in Attempt
        BY <1>a, <2>2 DEF TypeOK, Location
      <3>4. \A d \in copies : d.path = l.path => object'[l.path] = None
        BY <3>1, <3>3
      <3>5. object[l.path] = None \/ \E d \in worker[w].paths : d.path = l.path /\ d.store = l.store
        BY <1>a, <2>1, <2>2, <2>6 DEF JobsKeepTrack, PurgeStore
      <3> QED
        BY <2>2, <3>2, <3>4, <3>5
    <2>7. CASE JobFails(w) \/ Finish(w)
      BY <1>2, <1>a, <2>7 DEF JobFails, Finish, TypeOK, NoJob
    <2> QED
      BY <1>a, <2>3, <2>4, <2>5, <2>6, <2>7, WorkerSteps DEF WorkerStep
  <1> QED
    BY <1>1, <1>2

\* Nothing is stored for a transfer whose row is gone.
LEMMA ErasedRowsStep == TypeOK /\ ErasedRows /\ [Next]_vars => ErasedRows'
  <1> SUFFICES ASSUME TypeOK, ErasedRows, [Next]_vars, status' = "gone"
               PROVE  location' = {}
    BY DEF ErasedRows
  <1>1. ASSUME NEW r \in Request, NEW c \in req[r].todo, Accepts(r, c)
        PROVE  FALSE
    BY <1>1, AcceptedCopy DEF Accepts, transferVars
  <1> QED
    BY <1>1, ChunkSteps, StatusSteps DEF Erases, chunkVars, ErasedRows

\* The invariant behind removal.
LEMMA RemovalInvariant == Spec => []RemovalInv
  <1>1. Init => RemovalInv
    <2> SUFFICES ASSUME Init PROVE RemovalInv
      OBVIOUS
    <2>1. \A r \in Request : req[r].todo = {}
      BY IdleRequest DEF Init
    <2>2. WritersApart
      BY <2>1 DEF WritersApart
    <2>3. RowsApart /\ JobsAfterRemoval /\ JobsKeepTrack /\ ErasedRows
      BY DEF Init, RowsApart, JobsAfterRemoval, JobsKeepTrack, ErasedRows, NoJob
    <2> QED
      BY <2>2, <2>3, TypeInit DEF RemovalInv
  <1>2. RemovalInv /\ [Next]_vars => RemovalInv'
    BY TypeStep, RowsApartStep, WritersApartStep, JobsAfterRemovalStep, JobsKeepTrackStep, ErasedRowsStep DEF RemovalInv
  <1> QED
    BY <1>1, <1>2, PTL DEF Spec

\* The rows of a transfer go only after its objects.
LEMMA FinishedClean == RemovalInv /\ [Next]_vars => NoOrphanAtFinish
  <1> SUFFICES ASSUME RemovalInv, [Next]_vars, status' = "gone", NEW a \in Paths
               PROVE  object[a] = None
    BY DEF NoOrphanAtFinish
  <1>1. PICK l \in location : a = l.path
    BY DEF Paths
  <1>2. status # "gone"
    BY <1>1 DEF RemovalInv, ErasedRows
  <1>3. PICK w \in Worker : Finish(w) /\ status = "deleting"
    BY <1>2, StatusSteps DEF RemovalInv, Erases
  <1> QED
    BY <1>1, <1>3 DEF RemovalInv, JobsKeepTrack, Finish

\* DeleteTransfer never drops the rows of a transfer whose objects remain,
\* whatever requests, reapers, retries and other deletion jobs do meanwhile,
\* and even when the answer to a commit was lost.
THEOREM RowsGoLast == Spec => [][NoOrphanAtFinish]_vars
  BY FinishedClean, RemovalInvariant, PTL DEF Spec

\* The same together with the objects of live transfers: no process takes an
\* accepted copy away, and removal leaves nothing behind.
THEOREM ReplicasStaySafe == ASSUME ~LostCommitAck PROVE Spec => ReplicasSafe
  BY RowsGoLast, TypeCorrect, LocationsStayBacked, PTL DEF ReplicasSafe

-----------------------------------------------------------------------------
(* Reclaiming, with one copy of each chunk and bounded writes.             *)

\* How an attempt row changes.
LEMMA RowChanges ==
  ASSUME TypeOK, [Next]_vars, NEW a \in Attempt, row'[a] # row[a]
  PROVE  \/ \E r \in Request, p \in Position, v \in Content : Reserve(r, p, v)
         \/ \E r \in Request : \E c \in req[r].todo : Accepts(r, c) /\ c.path = a /\ row'[a] = None
         \/ \E r \in Request : \E c \in req[r].todo : ForgetAttempt(r) /\ Turn(r, c) /\ c.path = a /\ row'[a] = None
         \/ \E k \in Reaper : ReapRow(k) /\ reaper[k].attempt = a /\ row'[a] = None
         \/ /\ row[a] # None /\ row'[a] # None /\ (row[a].lapsed => row'[a].lapsed)
            /\ \/ LeaseLapses(a)
               \/ row'[a].lapsed = row[a].lapsed
  <1> USE DEF transferVars, chunkVars, jobVars
  <1>1. ASSUME NEW b \in Attempt, row[b] # None,
               \/ row' = [row EXCEPT ![b] = [row[b] EXCEPT !.reaping = "fresh"]]
               \/ row' = [row EXCEPT ![b] = [row[b] EXCEPT !.reaping = "stale"]]
               \/ row' = [row EXCEPT ![b] = [row[b] EXCEPT !.reaping = "no"]]
        PROVE  row[a] # None /\ row'[a] # None /\ row'[a].lapsed = row[a].lapsed
    <2>1. row[b] \in Row /\ a = b
      BY <1>1 DEF TypeOK
    <2>2. row'[a] \in Row /\ row'[a].lapsed = row[a].lapsed
      BY <1>1, <2>1 DEF TypeOK, Row
    <2> QED
      BY <1>1, <2>1, <2>2, RowAssumption
  <1>2. ASSUME NEW b, row' = [row EXCEPT ![b] = None]
        PROVE  b = a /\ row'[a] = None
    BY <1>2 DEF TypeOK
  <1>3. ASSUME NEW r \in Request, RequestStep(r)
        PROVE  \/ \E p \in Position, v \in Content : Reserve(r, p, v)
               \/ \E c \in req[r].todo : Accepts(r, c) /\ c.path = a /\ row'[a] = None
               \/ \E c \in req[r].todo : ForgetAttempt(r) /\ Turn(r, c) /\ c.path = a /\ row'[a] = None
    <2>1. CASE Commit(r)
      <3>1. PICK c \in req[r].todo :
              /\ Turn(r, c)
              /\ IF CommitResult(r, c) = "accepted"
                 THEN AcceptCopy(r, c) /\ req' = [req EXCEPT ![r] = Advance(r, c)]
                 ELSE UNCHANGED <<chunkVars, row>>
        BY <2>1 DEF Commit
      <3>2. CommitResult(r, c) = "accepted"
        BY <3>1
      <3>3. Accepts(r, c)
        BY <2>1, <3>1, <3>2 DEF Commit, Accepts
      <3> QED
        BY <3>3, AcceptedRows
    <2>2. CASE CommitThrows(r)
      <3>1. PICK c \in req[r].todo : Accepts(r, c)
        BY <2>2 DEF CommitThrows, Accepts
      <3> QED
        BY <3>1, AcceptedRows
    <2>3. CASE ForgetAttempt(r)
      <3>1. PICK c \in req[r].todo : Turn(r, c) /\ row' = [row EXCEPT ![c.path] = None]
        BY <2>3 DEF ForgetAttempt
      <3>2. c.path = a
        BY <1>2, <3>1
      <3> QED
        BY <1>2, <2>3, <3>1, <3>2
    <2>4. CASE Put(r) \/ PutFails(r) \/ RemoveObject(r) \/ EndRequest(r)
      BY <2>4 DEF Put, PutFails, RemoveObject, EndRequest
    <2> QED
      BY <1>3, <2>1, <2>2, <2>3, <2>4 DEF RequestStep
  <1>4. ASSUME NEW k \in Reaper, ReaperStep(k)
        PROVE  \/ ReapRow(k) /\ reaper[k].attempt = a /\ row'[a] = None
               \/ row[a] # None /\ row'[a] # None /\ row'[a].lapsed = row[a].lapsed
    <2>1. CASE \E b \in Attempt : ClaimAttempt(k, b)
      BY <1>1, <2>1 DEF ClaimAttempt
    <2>2. CASE ReapFails(k)
      BY <1>1, <2>2, BusyReaper DEF ReapFails, Claimed
    <2>3. CASE ReapRow(k)
      BY <1>2, <2>3 DEF ReapRow
    <2>4. CASE ReapObject(k) \/ ReaperDies(k)
      BY <2>4 DEF ReapObject, ReaperDies
    <2> QED
      BY <1>4, <2>1, <2>2, <2>3, <2>4 DEF ReaperStep
  <1>5. ASSUME NEW w \in Worker, WorkerStep(w)
        PROVE  FALSE
    BY <1>5 DEF WorkerStep, LoadJob, StagingRemoved, PurgeStore, JobFails, Finish
  <1>6. ASSUME NEW b \in Attempt, ClaimGoesStale(b)
        PROVE  row[a] # None /\ row'[a] # None /\ row'[a].lapsed = row[a].lapsed
    BY <1>1, <1>6 DEF ClaimGoesStale
  <1>7. ASSUME NEW b \in Attempt, LeaseLapses(b)
        PROVE  b = a /\ row[a] # None /\ row'[a] # None /\ row'[a].lapsed
    <2>1. b = a /\ row[a] \in Row /\ row'[a] = [row[a] EXCEPT !.lapsed = TRUE]
      BY <1>7 DEF LeaseLapses, TypeOK
    <2>2. row'[a] \in Row /\ row'[a].lapsed
      BY <2>1 DEF Row
    <2> QED
      BY <1>7, <2>1, <2>2, RowAssumption DEF LeaseLapses
  <1>8. CASE \/ Create \/ (\E m \in Manifest : Complete(m)) \/ RemoveTransfer \/ Consume \/ RetryCleanup
             \/ PruneTransfer \/ Expire \/ GoStale \/ UNCHANGED vars
    BY <1>8 DEF Create, Complete, RemoveTransfer, Consume, RetryCleanup, PruneTransfer, Expire, GoStale, vars
  <1> QED
    BY <1>3, <1>4, <1>5, <1>6, <1>7, <1>8 DEF Next

\* Reapers change only in their own steps.
LEMMA ReaperSteps ==
  ASSUME TypeOK, [Next]_vars, NEW k \in Reaper
  PROVE  reaper'[k] = reaper[k] \/ ReaperStep(k)
  <1> USE DEF transferVars, chunkVars, jobVars
  <1>1. ASSUME NEW r \in Request, RequestStep(r)
        PROVE  UNCHANGED reaper
    BY <1>1 DEF RequestStep, Put, PutFails, Commit, CommitThrows, RemoveObject, ForgetAttempt, EndRequest, Reserve
  <1>2. ASSUME NEW j \in Reaper, ReaperStep(j), j # k
        PROVE  reaper'[k] = reaper[k]
    BY <1>2 DEF ReaperStep, ClaimAttempt, ReapObject, ReapFails, ReapRow, ReaperDies, TypeOK
  <1>3. ASSUME NEW w \in Worker, WorkerStep(w)
        PROVE  UNCHANGED reaper
    BY <1>3 DEF WorkerStep, LoadJob, StagingRemoved, PurgeStore, JobFails, Finish
  <1>4. CASE \/ Create \/ (\E m \in Manifest : Complete(m)) \/ RemoveTransfer \/ Consume \/ RetryCleanup
             \/ PruneTransfer \/ Expire \/ GoStale \/ (\E a \in Attempt : LeaseLapses(a) \/ ClaimGoesStale(a))
             \/ UNCHANGED vars
    BY <1>4 DEF Create, Complete, RemoveTransfer, Consume, RetryCleanup, PruneTransfer, Expire, GoStale,
                LeaseLapses, ClaimGoesStale, vars
  <1> QED
    BY <1>1, <1>2, <1>3, <1>4 DEF Next

\* A row is reserved under a path that nothing names.
LEMMA ReservedFresh ==
  ASSUME TypeOK, NEW a \in Attempt, row'[a] # row[a],
         \E r \in Request, p \in Position, v \in Content : Reserve(r, p, v)
  PROVE  Fresh(a)
  BY ReserveShape

\* Only the first transaction gives a request its destination.
LEMMA OneDestinationStep == TypeOK /\ OneDestination /\ [Next]_vars => OneDestination'
  <1> SUFFICES ASSUME TypeOK, OneDestination, [Next]_vars, Mode = "distribute", NEW r \in Request,
                      NEW c \in req'[r].todo, NEW d \in req'[r].todo
               PROVE  c = d
    BY DEF OneDestination
  <1>1. CASE \E p \in Position, v \in Content : Reserve(r, p, v)
    BY <1>1, ReserveShape
  <1>2. CASE ~\E p \in Position, v \in Content : Reserve(r, p, v)
    BY <1>2, RequestSteps, TodoShrinks DEF OneDestination
  <1> QED
    BY <1>1, <1>2

\* A lease does not run out under a request that may still write.
LEMMA LeaseHeldStep ==
  ASSUME Mode = "distribute", WritesBounded, ReclaimInv, [Next]_vars
  PROVE  LeaseHeld'
  <1> SUFFICES ASSUME NEW r \in Request, req'[r].pc \in {"put", "commit"}, NEW c \in req'[r].todo
               PROVE  row'[c.path] # None /\ ~row'[c.path].lapsed
    BY DEF LeaseHeld
  <1>a. TypeOK /\ WritersApart /\ OneDestination /\ LeaseHeld /\ ClaimsLapsed
    BY DEF ReclaimInv, RemovalInv
  <1>1. CASE \E p \in Position, v \in Content : Reserve(r, p, v)
    BY <1>1, <1>a, ReserveShape, RowAssumption
  <1>2. CASE ~\E p \in Position, v \in Content : Reserve(r, p, v)
    <2>1. c \in req[r].todo /\ req[r].pc \in {"put", "commit"} /\ (req'[r] = req[r] \/ Put(r))
      <3>1. CASE ~RequestStep(r)
        BY <1>a, <3>1, RequestSteps
      <3>2. CASE RequestStep(r)
        <4>1. c \in req[r].todo /\ req[r] \in Busy
          BY <1>2, <1>a, <3>2, TodoShrinks, BusyRequest
        <4>2. \A d \in req[r].todo : Advance(r, d).todo = {}
          BY <1>a, <4>1 DEF OneDestination, Advance, Busy
        <4>3. \A d \in req[r].todo : req' # [req EXCEPT ![r] = Advance(r, d)]
          BY <1>a, <4>2 DEF TypeOK
        <4>4. req' # [req EXCEPT ![r] = NoRequest]
          BY <1>a, IdleRequest DEF TypeOK
        <4>5. ~PutFails(r) /\ ~EndRequest(r) /\ ~ForgetAttempt(r)
          BY <4>3, <4>4 DEF PutFails, EndRequest, ForgetAttempt
        <4>6. ~RemoveObject(r) /\ ~CommitThrows(r)
          <5>1. [req[r] EXCEPT !.pc = "forget"].pc = "forget"
                /\ [req[r] EXCEPT !.pc = "remove", !.then = "stop"].pc = "remove"
            BY <4>1 DEF Busy
          <5>2. req' # [req EXCEPT ![r] = [req[r] EXCEPT !.pc = "forget"]]
                /\ req' # [req EXCEPT ![r] = [req[r] EXCEPT !.pc = "remove", !.then = "stop"]]
            BY <1>a, <5>1 DEF TypeOK
          <5> QED
            BY <4>4, <5>2 DEF RemoveObject, CommitThrows
        <4>7. ~Commit(r)
          <5>1. \A then : [req[r] EXCEPT !.pc = "remove", !.then = then].pc = "remove"
            BY <4>1 DEF Busy
          <5>2. \A then : req' # [req EXCEPT ![r] = [req[r] EXCEPT !.pc = "remove", !.then = then]]
            BY <1>a, <5>1 DEF TypeOK
          <5> QED
            BY <4>3, <4>4, <5>2 DEF Commit
        <4>8. Put(r)
          BY <1>2, <3>2, <4>5, <4>6, <4>7 DEF RequestStep
        <4> QED
          BY <4>1, <4>8 DEF Put
      <3> QED
        BY <3>1, <3>2
    <2>2. c.path \in Attempt /\ row[c.path] # None /\ ~row[c.path].lapsed
      BY <1>a, <2>1, BusyRequest DEF LeaseHeld, Busy, Copy
    <2>3. CASE row'[c.path] # row[c.path]
      <3>1. ~\E s \in Request, p \in Position, v \in Content : Reserve(s, p, v)
        BY <1>a, <2>1, <2>2, <2>3, ReservedFresh DEF Fresh
      <3>2. ASSUME NEW s \in Request, NEW d \in req[s].todo, d.path = c.path, Accepts(s, d) \/ ForgetAttempt(s)
            PROVE  FALSE
        <4>1. s = r /\ d = c
          BY <1>a, <2>1, <3>2 DEF WritersApart
        <4>2. ~ForgetAttempt(s)
          BY <2>1, <4>1 DEF ForgetAttempt
        <4>3. Accepts(r, c)
          BY <3>2, <4>1, <4>2
        <4>4. req[r] \in Busy /\ req[r].pc = "commit"
          BY <1>a, <2>1, <4>3, AcceptedCopy DEF Accepts
        <4>5. req'[r].todo = {} \/ req'[r].pc = "remove"
          <5>1. \A x : req' = [req EXCEPT ![r] = x] => req'[r] = x
            BY <1>a DEF TypeOK
          <5>2. Advance(r, c).todo = {}
            BY <1>a, <2>1, <4>4 DEF OneDestination, Advance, Busy
          <5>3. [req[r] EXCEPT !.pc = "remove", !.then = "stop"].pc = "remove"
            BY <4>4 DEF Busy
          <5>4. \/ req' = [req EXCEPT ![r] = Advance(r, c)]
                \/ req' = [req EXCEPT ![r] = [req[r] EXCEPT !.pc = "remove", !.then = "stop"]]
            BY <4>3 DEF Accepts
          <5>5. CASE req' = [req EXCEPT ![r] = Advance(r, c)]
            BY <5>1, <5>2, <5>5
          <5>6. CASE req' = [req EXCEPT ![r] = [req[r] EXCEPT !.pc = "remove", !.then = "stop"]]
            <6>1. req'[r] = [req[r] EXCEPT !.pc = "remove", !.then = "stop"]
              BY <5>1, <5>6
            <6> QED
              BY <5>3, <6>1
          <5> QED
            BY <5>4, <5>5, <5>6
        <4> QED
          BY <4>5
      <3>3. ASSUME NEW k \in Reaper, ReapRow(k), reaper[k].attempt = c.path
            PROVE  FALSE
        BY <1>a, <2>2, <3>3 DEF ReapRow, ClaimsLapsed
      <3>4. ~LeaseLapses(c.path)
        BY <2>1 DEF LeaseLapses
      <3> QED
        BY <1>a, <2>2, <2>3, <3>1, <3>2, <3>3, <3>4, RowChanges
    <2> QED
      BY <2>2, <2>3
  <1> QED
    BY <1>1, <1>2

\* A claim is taken on a lapsed attempt, and nobody writes under its path then.
LEMMA ClaimsLapsedStep ==
  ASSUME ReclaimInv, [Next]_vars
  PROVE  ClaimsLapsed'
  <1>a. TypeOK /\ LeaseHeld /\ ClaimsLapsed
    BY DEF ReclaimInv, RemovalInv
  <1> SUFFICES ASSUME NEW k \in Reaper, reaper'[k].pc # "idle"
               PROVE  /\ row'[reaper'[k].attempt] # None => row'[reaper'[k].attempt].lapsed
                      /\ reaper'[k].pc = "deleted" => object'[reaper'[k].attempt] = None
    BY DEF ClaimsLapsed
  <1>1. CASE reaper'[k] = reaper[k]
    <2>1. PICK a \in Attempt : a = reaper[k].attempt
      BY <1>a, <1>1 DEF TypeOK, ReaperState, NoClaim
    <2>2. ASSUME row'[a] # None
          PROVE  row'[a].lapsed
      <3>1. CASE row'[a] = row[a]
        BY <1>a, <1>1, <2>1, <2>2, <3>1 DEF ClaimsLapsed
      <3>2. CASE row'[a] # row[a]
        <4>1. ~\E r \in Request, p \in Position, v \in Content : Reserve(r, p, v)
          BY <1>a, <2>1, <3>2, ReservedFresh DEF Fresh
        <4>2. row[a] # None /\ (row[a].lapsed => row'[a].lapsed)
          BY <1>a, <2>2, <3>2, <4>1, RowChanges
        <4> QED
          BY <1>a, <1>1, <2>1, <4>2 DEF ClaimsLapsed
      <3> QED
        BY <3>1, <3>2
    <2>3. ASSUME reaper[k].pc = "deleted"
          PROVE  object'[a] = None
      <3>1. object[a] = None /\ (row[a] # None => row[a].lapsed)
        BY <1>a, <1>1, <2>1, <2>3 DEF ClaimsLapsed
      <3>2. ~\E r \in Request : req[r].pc = "put" /\ \E c \in req[r].todo : c.path = a
        BY <1>a, <3>1 DEF LeaseHeld
      <3> QED
        BY <1>a, <3>1, <3>2, ObjectSteps
    <2> QED
      BY <1>1, <2>1, <2>2, <2>3
  <1>2. CASE ReaperStep(k)
    <2>1. ASSUME NEW a \in Attempt, ClaimAttempt(k, a)
          PROVE  /\ reaper'[k].attempt = a /\ reaper'[k].pc = "claimed" /\ row'[a].lapsed
      <3>1. reaper'[k] = [pc |-> "claimed", attempt |-> a]
        BY <1>a, <2>1 DEF ClaimAttempt, TypeOK
      <3>2. row[a] \in Row /\ row[a].lapsed /\ row'[a] = [row[a] EXCEPT !.reaping = "fresh"]
        BY <1>a, <2>1 DEF ClaimAttempt, TypeOK
      <3> QED
        BY <3>1, <3>2 DEF Row
    <2>2. CASE ReapObject(k)
      <3>1. PICK a \in Attempt : a = reaper[k].attempt /\ reaper[k] = [pc |-> "claimed", attempt |-> a]
        BY <1>a, <2>2 DEF ReapObject, TypeOK, ReaperState, NoClaim
      <3>2. reaper'[k] = [reaper[k] EXCEPT !.pc = "deleted"] /\ object'[a] = None /\ row' = row
        BY <1>a, <2>2, <3>1 DEF ReapObject, TypeOK
      <3>3. reaper'[k].attempt = a
        BY <3>1, <3>2
      <3>4. row[a] # None => row[a].lapsed
        BY <1>a, <2>2, <3>1 DEF ClaimsLapsed, ReapObject
      <3> QED
        BY <3>2, <3>3, <3>4
    <2>3. CASE ReapFails(k) \/ ReapRow(k) \/ ReaperDies(k)
      BY <1>a, <2>3 DEF ReapFails, ReapRow, ReaperDies, TypeOK, NoClaim
    <2> QED
      BY <1>2, <2>1, <2>2, <2>3 DEF ReaperStep
  <1> QED
    BY <1>a, <1>1, <1>2, ReaperSteps

\* removeAttempt forgets a row after it has deleted the object, and no other
\* request writes under the same path.
LEMMA ForgottenRemovedStep ==
  ASSUME Mode = "distribute", ReclaimInv, [Next]_vars
  PROVE  ForgottenRemoved'
  <1>a. TypeOK /\ WritersApart /\ OneDestination /\ ForgottenRemoved
    BY DEF ReclaimInv, RemovalInv
  <1> SUFFICES ASSUME NEW r \in Request, req'[r].pc = "forget", NEW c \in req'[r].todo
               PROVE  object'[c.path] = None
    BY DEF ForgottenRemoved
  <1>1. CASE req'[r] = req[r]
    <2>1. c \in req[r].todo /\ c.path \in Attempt /\ object[c.path] = None
      BY <1>a, <1>1, BusyRequest DEF ForgottenRemoved, Busy, Copy
    <2>2. ~\E q \in Request : req[q].pc = "put" /\ \E d \in req[q].todo : d.path = c.path
      BY <1>a, <1>1, <2>1 DEF WritersApart
    <2> QED
      BY <1>a, <2>1, <2>2, ObjectSteps
  <1>2. CASE RequestStep(r) /\ req'[r] # req[r]
    <2>0. ~\E p \in Position, v \in Content : Reserve(r, p, v)
      BY <1>a, ReserveShape
    <2>1. c \in req[r].todo /\ req[r] \in Busy
      BY <1>2, <1>a, <2>0, TodoShrinks, BusyRequest
    <2>2. \A x : req' = [req EXCEPT ![r] = x] => req'[r] = x
      BY <1>a DEF TypeOK
    <2>3. req' # [req EXCEPT ![r] = NoRequest]
      BY <2>2, IdleRequest
    <2>4. \A d : req' # [req EXCEPT ![r] = Advance(r, d)]
      <3>1. \A d : Advance(r, d).pc # "forget"
        BY <2>1 DEF Advance, Busy
      <3> QED
        BY <2>2, <3>1
    <2>5. \A then : req' # [req EXCEPT ![r] = [req[r] EXCEPT !.pc = "remove", !.then = then]]
      <3>1. \A then : [req[r] EXCEPT !.pc = "remove", !.then = then].pc = "remove"
        BY <2>1 DEF Busy
      <3> QED
        BY <2>2, <3>1
    <2>6. req' # [req EXCEPT ![r] = [req[r] EXCEPT !.pc = "commit"]]
      <3>1. [req[r] EXCEPT !.pc = "commit"].pc = "commit"
        BY <2>1 DEF Busy
      <3> QED
        BY <2>2, <3>1
    <2>7. ~PutFails(r) /\ ~EndRequest(r) /\ ~ForgetAttempt(r) /\ ~Put(r)
      BY <2>3, <2>4, <2>6 DEF PutFails, EndRequest, ForgetAttempt, Put
    <2>8. ~Commit(r) /\ ~CommitThrows(r)
      BY <2>3, <2>4, <2>5 DEF Commit, CommitThrows
    <2>9. RemoveObject(r)
      BY <1>2, <2>0, <2>7, <2>8 DEF RequestStep
    <2>10. PICK d \in req[r].todo : object' = [object EXCEPT ![d.path] = None]
      BY <2>3, <2>9 DEF RemoveObject
    <2>11. d = c /\ c.path \in Attempt
      BY <1>a, <2>1 DEF OneDestination, Busy, Copy
    <2> QED
      BY <1>a, <2>10, <2>11 DEF TypeOK
  <1> QED
    BY <1>a, <1>1, <1>2, RequestSteps

\* What is stored keeps a row or a location that names it.
LEMMA ReclaimableStep ==
  ASSUME ReclaimInv, [Next]_vars
  PROVE  Reclaimable'
  <1>a. RemovalInv /\ TypeOK /\ LeaseHeld /\ ClaimsLapsed /\ ForgottenRemoved /\ Reclaimable
    BY DEF ReclaimInv, RemovalInv
  <1> SUFFICES ASSUME NEW a \in Attempt, object'[a] # None
               PROVE  row'[a] # None \/ a \in Paths'
    BY DEF Reclaimable
  <1>1. CASE object'[a] # object[a]
    BY <1>a, <1>1, ObjectSteps DEF LeaseHeld
  <1>2. CASE object[a] # None /\ a \in Paths
    <2>1. status' # "gone"
      BY <1>a, <1>2, FinishedClean DEF NoOrphanAtFinish
    <2>2. location \subseteq location'
      <3>1. ASSUME NEW r \in Request, NEW c \in req[r].todo, Accepts(r, c)
            PROVE  location \subseteq location'
        BY <1>a, <3>1, AcceptedRows
      <3> QED
        BY <1>a, <2>1, <3>1, ChunkSteps DEF Erases, chunkVars
    <2> QED
      BY <1>2, <2>2 DEF Paths
  <1>3. CASE object[a] # None /\ row[a] # None
    <2>1. CASE row'[a] = row[a]
      BY <1>3, <2>1
    <2>2. CASE row'[a] # row[a]
      <3>1. ~\E r \in Request, p \in Position, v \in Content : Reserve(r, p, v)
        BY <1>3, <1>a, <2>2, ReservedFresh DEF Fresh
      <3>2. ASSUME NEW r \in Request, NEW c \in req[r].todo, Accepts(r, c), c.path = a
            PROVE  a \in Paths'
        BY <1>a, <3>2, AcceptedRows DEF Paths
      <3>3. ~\E r \in Request : \E c \in req[r].todo : ForgetAttempt(r) /\ c.path = a
        BY <1>3, <1>a DEF ForgetAttempt, ForgottenRemoved
      <3>4. ~\E k \in Reaper : ReapRow(k) /\ reaper[k].attempt = a
        BY <1>3, <1>a DEF ReapRow, ClaimsLapsed
      <3> QED
        BY <1>a, <2>2, <3>1, <3>2, <3>3, <3>4, RowChanges
    <2> QED
      BY <2>1, <2>2
  <1> QED
    BY <1>a, <1>1, <1>2, <1>3 DEF Reclaimable

\* A transfer that keeps one copy of each chunk: concurrent uploads agree on its
\* destination, and as long as a write ends before its lease does, every stored
\* object is named by an attempt row or a location, so that pruning or the
\* deletion job will find it.  A lost answer to a commit does not break this.
THEOREM DistributionStaysExact ==
  ASSUME Mode = "distribute", WritesBounded
  PROVE  Spec => []DistributionExact
  <1>1. Init => ReclaimInv
    <2> SUFFICES ASSUME Init PROVE ReclaimInv
      OBVIOUS
    <2>1. \A r \in Request : req[r].todo = {}
      BY IdleRequest DEF Init
    <2>2. OneDestination /\ LeaseHeld /\ ForgottenRemoved /\ WritersApart
      BY <2>1 DEF OneDestination, LeaseHeld, ForgottenRemoved, WritersApart
    <2>3. ClaimsLapsed /\ Reclaimable
      BY DEF Init, ClaimsLapsed, Reclaimable, NoClaim
    <2>4. RowsApart /\ JobsAfterRemoval /\ JobsKeepTrack /\ ErasedRows
      BY DEF Init, RowsApart, JobsAfterRemoval, JobsKeepTrack, ErasedRows, NoJob
    <2> QED
      BY <2>2, <2>3, <2>4, TypeInit, PlacementInit DEF ReclaimInv, RemovalInv
  <1>2. ReclaimInv /\ [Next]_vars => ReclaimInv'
    <2> SUFFICES ASSUME ReclaimInv, [Next]_vars
                 PROVE  ReclaimInv'
      OBVIOUS
    <2>1. RemovalInv' /\ PlacementExact' /\ OneDestination'
      BY TypeStep, RowsApartStep, WritersApartStep, JobsAfterRemovalStep, JobsKeepTrackStep, ErasedRowsStep,
         PlacementStep, OneDestinationStep DEF ReclaimInv, RemovalInv
    <2>2. LeaseHeld' /\ ClaimsLapsed' /\ ForgottenRemoved' /\ Reclaimable'
      BY LeaseHeldStep, ClaimsLapsedStep, ForgottenRemovedStep, ReclaimableStep
    <2> QED
      BY <2>1, <2>2 DEF ReclaimInv
  <1>3. ReclaimInv => DistributionExact
    BY DEF ReclaimInv, DistributionExact
  <1> QED
    BY <1>1, <1>2, <1>3, PTL DEF Spec
=============================================================================
