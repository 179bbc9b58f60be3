----------------------------- MODULE ChunkStage -----------------------------
(***************************************************************************)
(* Staged upload of one chunk position: the five handlers of               *)
(* TransferChunkStageController over their database rows, the private      *)
(* staging files and the per-stage advisory lock, with the pruning         *)
(* of ChunkStaging and direct uploads of the same position running beside  *)
(* them.  The chunk has Size units; unit i of ciphertext v is written v at *)
(* index i of the file, and the checksum of a complete file is its content.*)
(*                                                                         *)
(* Eloquent's update() writes only the columns that differ from the        *)
(* model loaded in memory, so a handler keeps its snapshot `mem` until the *)
(* snapshot is refreshed or no longer matters.                             *)
(***************************************************************************)
EXTENDS Naturals, Sequences, FiniteSets

CONSTANTS
  Upload,    \* client-chosen stage identifiers
  Content,   \* ciphertexts, identified with their checksums
  Handler,   \* PHP processes
  Size,      \* ciphertext_bytes of the chunk, in units
  MinPart,   \* part_min_bytes
  MaxParts,  \* part_max_count
  MaxRows,   \* quota: unreleased reservations of the staging root
  None

ASSUME StageAssumption ==
  /\ Size \in Nat \ {0} /\ MinPart \in 1..Size /\ MaxParts \in Nat \ {0} /\ MaxRows \in Nat
  /\ None \notin Content /\ None \notin Handler

VARIABLES
  phase,      \* "open": Pending and unexpired; "ended": no longer; "deleting"
  declared,   \* what each identifier was first declared to carry
  chunk,      \* checksum of the transfer_chunks row
  published,  \* every required copy of that chunk is located
  copied,     \* the bytes handed to the filestores
  row,        \* transfer_chunk_stages
  file,       \* <id>.bin in the staging root
  lock,       \* holder of the flock on <id>.lock
  proc        \* handlers in progress

vars == <<phase, declared, chunk, published, copied, row, file, lock, proc>>

-----------------------------------------------------------------------------
Part == [offset : 0..(Size - 1), size : 1..Size, content : Content]
Row == [state : {"receiving", "finalizing", "complete"}, offset : 0..Size,
        parts : UNION {[1..n -> Part] : n \in 0..MaxParts}, expired : BOOLEAN,
        released : BOOLEAN, content : Content]
File == UNION {[1..n -> Content] : n \in 0..Size}
NoProc == [pc |-> "idle", op |-> "none", upload |-> None, mem |-> None, part |-> None]
Proc == {NoProc} \cup
  [pc : {"check", "recover", "recovered", "lock", "write", "record", "verify", "finalize",
         "publish", "seal", "undo", "unlink", "release", "forget"},
   op : {"show", "part", "complete", "destroy", "prune"},
   upload : Upload, mem : Row \cup {None}, part : Part \cup {None}]

\* A missing row, file or part is none.
ASSUME MissingAssumption == None \notin Row /\ None \notin File /\ None \notin Part

TypeOK ==
  /\ phase \in {"open", "ended", "deleting"} /\ published \in BOOLEAN
  /\ declared \in [Upload -> Content \cup {None}]
  /\ chunk \in Content \cup {None} /\ copied \in File
  /\ row \in [Upload -> Row \cup {None}]
  /\ file \in [Upload -> File \cup {None}]
  /\ lock \in [Upload -> Handler \cup {None}]
  /\ proc \in [Handler -> Proc]

-----------------------------------------------------------------------------
Whole(v) == [i \in 1..Size |-> v]

\* The bytes a list of recorded parts stands for.
Units(parts) == [i \in 1..(IF parts = <<>> THEN 0 ELSE parts[Len(parts)].offset + parts[Len(parts)].size) |->
                   (CHOOSE p \in {parts[n] : n \in 1..Len(parts)} : p.offset < i /\ i <= p.offset + p.size).content]

\* prefixIsValid(): the file still holds every recorded part, and they reach the offset.
PrefixValid(f, m) ==
  /\ f # None /\ Len(f) >= m.offset
  /\ LET u == Units(m.parts) IN Len(u) = m.offset /\ \A i \in 1..Len(u) : f[i] = u[i]

\* publishedStage(): all required copies exist and carry the stage's checksum.
PublishedStage(m) == published /\ chunk = m.content

Unreleased == {u \in Upload : row[u] # None /\ ~row[u].released}

At(h, pc) == proc[h].pc = pc
Mine(h) == row[proc[h].upload]
Goto(h, pc) == proc' = [proc EXCEPT ![h] = [proc[h] EXCEPT !.pc = pc]]
GotoWith(h, pc, m) == proc' = [proc EXCEPT ![h] = [proc[h] EXCEPT !.pc = pc, !.mem = m]]
Unlocked(h) == [u \in Upload |-> IF lock[u] = h THEN None ELSE lock[u]]
End(h) == proc' = [proc EXCEPT ![h] = NoProc] /\ lock' = Unlocked(h)

\* UPDATE ... WHERE id = ?: nothing happens when the row has been deleted.
Update(u, new) == row' = IF row[u] = None THEN row ELSE [row EXCEPT ![u] = new]

-----------------------------------------------------------------------------
Init ==
  /\ phase = "open" /\ declared = [u \in Upload |-> None] /\ chunk = None /\ published = FALSE /\ copied = <<>>
  /\ row = [u \in Upload |-> None] /\ file = [u \in Upload |-> None]
  /\ lock = [u \in Upload |-> None] /\ proc = [h \in Handler |-> NoProc]

(* begin(): row and file appear together under the capacity lock.  Clients *)
(* draw a new UUID for every ciphertext, so an identifier keeps its first  *)
(* declared checksum even when its row has been deleted in between.        *)
Begin(u, v) ==
  /\ phase = "open" /\ ~published
  /\ declared[u] \in {None, v} /\ declared' = [declared EXCEPT ![u] = v]
  /\ row[u] = None /\ file[u] = None
  /\ Cardinality(Unreleased) < MaxRows
  /\ row' = [row EXCEPT ![u] = [state |-> "receiving", offset |-> 0, parts |-> <<>>,
                                expired |-> FALSE, released |-> FALSE, content |-> v]]
  /\ file' = [file EXCEPT ![u] = <<>>]
  /\ UNCHANGED <<phase, chunk, published, copied, lock, proc>>

\* The process dies before COMMIT: the file stays, the row does not.
BeginDies(u) ==
  /\ phase = "open" /\ ~published /\ row[u] = None /\ file[u] = None
  /\ Cardinality(Unreleased) < MaxRows
  /\ file' = [file EXCEPT ![u] = <<>>]
  /\ UNCHANGED <<phase, declared, chunk, published, copied, row, lock, proc>>

-----------------------------------------------------------------------------
(* stage(): load the row, adopt a published chunk, check what is staged.   *)

Load(h, op, u, part) ==
  /\ At(h, "idle")
  /\ row[u] # None /\ chunk \in {None, row[u].content}
  /\ op = "part" <=> part # None
  /\ proc' = [proc EXCEPT ![h] =
       [pc |-> IF op = "show" /\ row[u].state = "finalizing" THEN "recover" ELSE "check",
        op |-> op, upload |-> u, mem |-> row[u], part |-> part]]
  /\ UNCHANGED <<phase, declared, chunk, published, copied, row, file, lock>>

\* recoverFinalizing under the lock, if it can be had: refresh ...
Recover(h) ==
  /\ At(h, "recover")
  /\ LET u == proc[h].upload
     IN IF lock[u] # None THEN Goto(h, "check") /\ UNCHANGED lock
        ELSE IF row[u] = None THEN End(h)
        ELSE IF row[u].state # "finalizing" THEN GotoWith(h, "check", row[u]) /\ UNCHANGED lock
        ELSE GotoWith(h, "recovered", row[u]) /\ lock' = [lock EXCEPT ![u] = h]
  /\ UNCHANGED <<phase, declared, chunk, published, copied, row, file>>

\* update() to complete by a handler that loaded m: only changed columns are
\* written, and released_at only when the staging file is gone.
Completed(r, m, gone) ==
  [r EXCEPT !.state = "complete", !.offset = IF m.offset = Size THEN @ ELSE Size,
            !.released = gone \/ (@ /\ ~m.released)]

\* ... and write: a published chunk completes the stage, otherwise it is
\* reopened.  show() goes on with stage(), complete() with its own checks; a
\* chunk with another checksum ends both, and complete() reopens the stage.
Recovered(h) ==
  /\ At(h, "recovered")
  /\ LET u == proc[h].upload
         m == proc[h].mem
         show == proc[h].op = "show"
         Settled(r) == IF PublishedStage(m) THEN Completed(r, m, file[u] = None)
                                            ELSE [r EXCEPT !.state = "receiving"]
     IN IF chunk \notin {None, m.content}
        THEN /\ IF show THEN UNCHANGED row ELSE Update(u, [Mine(h) EXCEPT !.state = "receiving"])
             /\ End(h)
        ELSE /\ Update(u, Settled(Mine(h)))
             /\ GotoWith(h, IF show THEN "check" ELSE "verify", Settled(m))
             /\ lock' = IF show THEN Unlocked(h) ELSE lock
  /\ UNCHANGED <<phase, declared, chunk, published, copied, file>>

\* A published chunk completes the stage; this update does not take the lock.
AdoptPublished(h) ==
  LET u == proc[h].upload
      m == proc[h].mem
  IN /\ Update(u, Completed(Mine(h), m, file[u] = None))
     /\ IF proc[h].op \in {"show", "part"} THEN End(h)
        ELSE GotoWith(h, "lock", None) /\ UNCHANGED lock

Check(h) ==
  /\ At(h, "check")
  /\ LET u == proc[h].upload
         m == proc[h].mem
     IN IF PublishedStage(m) /\ m.state # "complete" THEN AdoptPublished(h)
        ELSE /\ UNCHANGED row
             /\ LET fails == \/ m.state = "complete" /\ ~PublishedStage(m)
                             \/ m.state # "complete" /\ (m.expired \/ file[u] = None)
                             \/ m.state # "complete" /\ proc[h].op # "part" /\ ~PrefixValid(file[u], m)
                             \/ proc[h].op = "part" /\ m.state # "receiving"
                IN IF fails \/ proc[h].op = "show" THEN End(h)
                   ELSE GotoWith(h, "lock", None) /\ UNCHANGED lock
  /\ UNCHANGED <<phase, declared, chunk, published, copied, file>>

-----------------------------------------------------------------------------
(* part()                                                                  *)

\* An exact retransmission of a recorded part is acknowledged again.
Recorded(p, m) == \E n \in 1..Len(m.parts) : m.parts[n] = p

PartFits(p, m) ==
  /\ p.offset = m.offset
  /\ p.size >= MinPart \/ p.offset + p.size = Size
  /\ p.offset + p.size <= Size /\ Len(m.parts) < MaxParts

\* flock, refresh and every check before the write.
LockPart(h) ==
  /\ At(h, "lock") /\ proc[h].op = "part"
  /\ LET u == proc[h].upload
     IN IF lock[u] = None /\ row[u] # None /\ ~row[u].expired /\ phase = "open" /\ row[u].state = "receiving"
           /\ file[u] # None /\ (file[u] # None => Len(file[u]) >= row[u].offset)
           /\ ~Recorded(proc[h].part, row[u]) /\ PartFits(proc[h].part, row[u])
        THEN GotoWith(h, "write", row[u]) /\ lock' = [lock EXCEPT ![u] = h]
        ELSE End(h)
  /\ UNCHANGED <<phase, declared, chunk, published, copied, row, file>>

Appended(f, offset, p, n) == SubSeq(f, 1, offset) \o [i \in 1..n |-> p.content]

\* ftruncate to the durable offset, write, fsync.
WritePart(h) ==
  /\ At(h, "write")
  /\ LET u == proc[h].upload
     IN file' = [file EXCEPT ![u] = Appended(file[u], proc[h].mem.offset, proc[h].part, proc[h].part.size)]
  /\ Goto(h, "record")
  /\ UNCHANGED <<phase, declared, chunk, published, copied, row, lock>>

\* The process dies in the write: any prefix of the part is on disk.
WriteTorn(h) ==
  /\ At(h, "write")
  /\ LET u == proc[h].upload
     IN \E n \in 0..proc[h].part.size :
          file' = [file EXCEPT ![u] = Appended(file[u], proc[h].mem.offset, proc[h].part, n)]
  /\ End(h)
  /\ UNCHANGED <<phase, declared, chunk, published, copied, row>>

\* extendTransfer, then the row takes offset, parts and a new lease.
RecordPart(h) ==
  /\ At(h, "record")
  /\ IF phase = "open"
     THEN Update(proc[h].upload,
            [Mine(h) EXCEPT !.offset = proc[h].part.offset + proc[h].part.size,
                            !.parts = Append(proc[h].mem.parts, proc[h].part), !.expired = FALSE])
     ELSE UNCHANGED row
  /\ End(h)
  /\ UNCHANGED <<phase, declared, chunk, published, copied, file>>

-----------------------------------------------------------------------------
(* complete()                                                              *)

LockComplete(h) ==
  /\ At(h, "lock") /\ proc[h].op = "complete"
  /\ LET u == proc[h].upload
     IN IF lock[u] # None \/ row[u] = None THEN End(h)
        ELSE /\ lock' = [lock EXCEPT ![u] = h]
             /\ GotoWith(h, IF row[u].state = "finalizing" THEN "recovered" ELSE "verify", row[u])
  /\ UNCHANGED <<phase, declared, chunk, published, copied, row, file>>

\* Faulty variant: trusts the checksums of the parts.
VerifiedParts(f, m) == PrefixValid(f, m) /\ m.offset = Size

\* The staged file is whole, matches its parts and hashes to the declared checksum.
Verified(f, m) == PrefixValid(f, m) /\ m.offset = Size /\ f = Whole(m.content)

VerifyStaged(h) ==
  /\ At(h, "verify")
  /\ LET m == proc[h].mem
     IN IF m.state = "receiving" /\ ~m.expired /\ phase = "open" /\ Verified(file[proc[h].upload], m)
        THEN Goto(h, "finalize") /\ UNCHANGED lock
        ELSE End(h)
  /\ UNCHANGED <<phase, declared, chunk, published, copied, row, file>>

Finalize(h) ==
  /\ At(h, "finalize")
  /\ Update(proc[h].upload, [Mine(h) EXCEPT !.state = "finalizing"])
  /\ GotoWith(h, "publish", [proc[h].mem EXCEPT !.state = "finalizing"])
  /\ UNCHANGED <<phase, declared, chunk, published, copied, file, lock>>

\* publish() copies the open staging file under the checksum computed before.
PublishStaged(h) ==
  /\ At(h, "publish") /\ phase = "open" /\ chunk \in {None, proc[h].mem.content}
  /\ chunk' = proc[h].mem.content /\ published' = TRUE
  /\ copied' = IF published THEN copied ELSE file[proc[h].upload]
  /\ GotoWith(h, "seal", None)
  /\ UNCHANGED <<phase, declared, row, file, lock>>

\* Faulty variant: takes a failed publication for a success.
PublishFailsSilently(h) ==
  /\ At(h, "publish") /\ GotoWith(h, "seal", None)
  /\ UNCHANGED <<phase, declared, chunk, published, copied, row, file, lock>>

\* publish() throws; a first replica may have been accepted already.
PublishFails(h) ==
  /\ At(h, "publish")
  /\ \/ UNCHANGED chunk
     \/ phase = "open" /\ chunk = None /\ chunk' = proc[h].mem.content
  /\ GotoWith(h, "undo", None)
  /\ UNCHANGED <<phase, declared, published, copied, row, file, lock>>

\* The catch block refreshes and reopens the stage.
UndoFinalize(h) ==
  /\ At(h, "undo")
  /\ IF Mine(h) # None /\ Mine(h).state = "finalizing"
     THEN Update(proc[h].upload, [Mine(h) EXCEPT !.state = "receiving"])
     ELSE UNCHANGED row
  /\ End(h)
  /\ UNCHANGED <<phase, declared, chunk, published, copied, file>>

\* The row is complete; the lock is released before the file is removed.
Seal(h) ==
  /\ At(h, "seal")
  /\ Update(proc[h].upload, [Mine(h) EXCEPT !.state = "complete"])
  /\ Goto(h, "unlink")
  /\ lock' = Unlocked(h)
  /\ UNCHANGED <<phase, declared, chunk, published, copied, file>>

\* ChunkStaging::remove needs the lock again; if it is busy the request fails.
UnlinkStaged(h) ==
  /\ At(h, "unlink")
  /\ LET u == proc[h].upload
     IN IF lock[u] # None THEN End(h) /\ UNCHANGED file
        ELSE file' = [file EXCEPT ![u] = None] /\ Goto(h, "release") /\ UNCHANGED lock
  /\ UNCHANGED <<phase, declared, chunk, published, copied, row>>

Release(h) ==
  /\ At(h, "release")
  /\ Update(proc[h].upload, [Mine(h) EXCEPT !.released = TRUE])
  /\ End(h)
  /\ UNCHANGED <<phase, declared, chunk, published, copied, file>>

-----------------------------------------------------------------------------
(* destroy(), and ChunkStaging::prune and removeTransfer.                  *)

\* Under the lock the file goes first ...
LockDestroy(h) ==
  /\ At(h, "lock") /\ proc[h].op = "destroy"
  /\ LET u == proc[h].upload
     IN IF lock[u] # None \/ row[u] = None \/ (row[u] # None => row[u].state = "finalizing")
        THEN End(h) /\ UNCHANGED file
        ELSE /\ lock' = [lock EXCEPT ![u] = h]
             /\ file' = [file EXCEPT ![u] = None] /\ Goto(h, "forget")
  /\ UNCHANGED <<phase, declared, chunk, published, copied, row>>

\* Faulty variant: leaves stages alone that a crash left finalizing.
PruneStageReceiving(h, u) ==
  /\ At(h, "idle") /\ lock[u] = None /\ row[u] # None /\ row[u].state # "finalizing"
  /\ row[u].expired \/ phase = "deleting"
  /\ lock' = [lock EXCEPT ![u] = h]
  /\ file' = [file EXCEPT ![u] = None]
  /\ proc' = [proc EXCEPT ![h] = [pc |-> "forget", op |-> "prune", upload |-> u, mem |-> None, part |-> None]]
  /\ UNCHANGED <<phase, declared, chunk, published, copied, row>>

\* prune() rechecks the lease once it has the lock; removeTransfer() takes
\* every stage of a transfer that is being deleted.
PruneStage(h, u) ==
  /\ At(h, "idle") /\ lock[u] = None /\ row[u] # None
  /\ row[u].expired \/ phase = "deleting"
  /\ lock' = [lock EXCEPT ![u] = h]
  /\ file' = [file EXCEPT ![u] = None]
  /\ proc' = [proc EXCEPT ![h] = [pc |-> "forget", op |-> "prune", upload |-> u, mem |-> None, part |-> None]]
  /\ UNCHANGED <<phase, declared, chunk, published, copied, row>>

\* ... and then the row.
ForgetStage(h) ==
  /\ At(h, "forget")
  /\ row' = [row EXCEPT ![proc[h].upload] = None]
  /\ End(h)
  /\ UNCHANGED <<phase, declared, chunk, published, copied, file>>

\* prune() sweeps files that no row names.
SweepOrphan(u) ==
  /\ file[u] # None /\ row[u] = None /\ lock[u] = None
  /\ file' = [file EXCEPT ![u] = None]
  /\ UNCHANGED <<phase, declared, chunk, published, copied, row, lock, proc>>

-----------------------------------------------------------------------------
(* The rest of the system.                                                 *)

\* A direct PUT of the position is accepted by publish().
DirectUpload(v) ==
  /\ phase = "open" /\ ~published /\ chunk \in {None, v}
  /\ chunk' = v /\ published' = TRUE /\ copied' = Whole(v)
  /\ UNCHANGED <<phase, declared, row, file, lock, proc>>

\* The process dies: the kernel drops its lock.
Die(h) ==
  /\ ~At(h, "idle") /\ End(h)
  /\ UNCHANGED <<phase, declared, chunk, published, copied, row, file>>

ExpireStage(u) ==
  /\ row[u] # None /\ ~row[u].expired
  /\ row' = [row EXCEPT ![u].expired = TRUE]
  /\ UNCHANGED <<phase, declared, chunk, published, copied, file, lock, proc>>

\* The transfer expires or is completed, or is marked for deletion.
TransferEnds(next) ==
  /\ phase = "open" \/ (phase = "ended" /\ next = "deleting")
  /\ phase' = next
  /\ UNCHANGED <<declared, chunk, published, copied, row, file, lock, proc>>

HandlerStep(h) ==
  \/ Recover(h) \/ Recovered(h) \/ Check(h)
  \/ LockPart(h) \/ WritePart(h) \/ WriteTorn(h) \/ RecordPart(h)
  \/ LockComplete(h) \/ VerifyStaged(h) \/ Finalize(h) \/ PublishStaged(h) \/ PublishFails(h)
  \/ UndoFinalize(h) \/ Seal(h) \/ UnlinkStaged(h) \/ Release(h)
  \/ LockDestroy(h) \/ ForgetStage(h)

Next ==
  \/ \E u \in Upload : (\E v \in Content : Begin(u, v)) \/ BeginDies(u) \/ SweepOrphan(u) \/ ExpireStage(u)
  \/ \E h \in Handler : HandlerStep(h) \/ Die(h)
  \/ \E h \in Handler, u \in Upload :
       \/ \E op \in {"show", "complete", "destroy"} : Load(h, op, u, None)
       \/ \E p \in Part : Load(h, "part", u, p)
       \/ PruneStage(h, u)
  \/ \E v \in Content : DirectUpload(v)
  \/ \E next \in {"ended", "deleting"} : TransferEnds(next)

Spec == Init /\ [][Next]_vars

\* Handlers end, leases run out, and cron keeps pruning: some pass finds the
\* lock free and is not killed between the file and its row.
Fairness ==
  /\ \A h \in Handler : WF_vars(HandlerStep(h)) /\ SF_vars(ForgetStage(h))
  /\ \A u \in Upload : /\ WF_vars(ExpireStage(u)) /\ SF_vars(SweepOrphan(u))
                       /\ SF_vars(\E h \in Handler : PruneStage(h, u))

FairSpec == Spec /\ Fairness

-----------------------------------------------------------------------------
(* Properties.                                                             *)

\* Acknowledged parts are durable: while a stage is not complete and its file
\* was not lost, the file starts with exactly the parts the row records,
\* whatever torn writes, crashes and concurrent handlers did.
AcknowledgedPrefix ==
  \A u \in Upload : row[u] # None /\ row[u].state # "complete" /\ file[u] # None
                      => PrefixValid(file[u], row[u])

\* The filestores received exactly the ciphertext whose checksum the chunk row
\* carries, although the file is hashed and copied in two steps.
PublishedIntact == published => copied = Whole(chunk)

\* A complete stage stands for a published chunk with its checksum.
CompleteMeansPublished ==
  \A u \in Upload : row[u] # None /\ row[u].state = "complete" => PublishedStage(row[u])

\* Quota is handed back only for files that are gone.
ReleasedMeansRemoved == \A u \in Upload : row[u] # None /\ row[u].released => file[u] = None

\* No part is recorded, and no stage destroyed, while it is being finalized.
FinalizingUndisturbedStep ==
  \A u \in Upload : row[u] # None /\ row[u].state = "finalizing" =>
    \/ row'[u] = None /\ (row[u].expired \/ phase = "deleting")
    \/ row'[u] # None /\ row'[u].parts = row[u].parts

\* The bytes acknowledged so far are in the file, in order and without a gap,
\* and what is published is what was declared.
StagedIntact == TypeOK /\ AcknowledgedPrefix /\ PublishedIntact

\* A complete stage is published, quota is handed back only for files that
\* are gone, and finalization is not disturbed.
StageConsistent ==
  /\ [](TypeOK /\ CompleteMeansPublished /\ ReleasedMeansRemoved)
  /\ [][FinalizingUndisturbedStep]_vars

\* The offset of a stage that is past receiving is the whole chunk, as the
\* clients require of every status they are given.
OffsetMatchesState ==
  \A u \in Upload : row[u] # None /\ row[u].state # "receiving" => row[u].offset = Size

\* After the transfer has ended, every stage row and file is reclaimed.
StagingReclaimed == phase # "open" ~> \A u \in Upload : row[u] = None /\ file[u] = None
=============================================================================
