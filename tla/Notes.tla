------------------------------- MODULE Notes -------------------------------
(***************************************************************************)
(* A note from its creation to its removal (client-core services/notes and *)
(* services/note_management, and their bindings in client-ffi/notes).      *)
(*                                                                         *)
(* The creator uploads the ciphertext over HTTP, or keeps it and serves it *)
(* to peers; a host with a management store keeps a capability record to   *)
(* end or revoke the note, another keeps none: the command line and its    *)
(* text interface for a note over HTTP, and the services of client-ffi     *)
(* made without a runtime.  A reader of a burn-on-read note asks for the   *)
(* removal once the text is verified, and keeps the request for a retry    *)
(* when it fails.  Any request may be refused or lost, and any answer may  *)
(* be lost after the server acted; both processes may end between steps.   *)
(*                                                                         *)
(* The server's side is what its controllers do to the transfer: reserve,  *)
(* publish, claim a session, consume, end, expire and remove.              *)
(***************************************************************************)
EXTENDS Naturals

CONSTANTS
    Reader,      \* receives running in the reading process
    Size,        \* bytes of the text
    ChunkBytes,  \* bytes of a chunk, by the server's policy
    Drivers,     \* a subset of {"http", "webrtc"}
    EndAttempts, \* how often an owner that was told to stop asks the server
    None

VARIABLES
    note,        \* at the server
    creator,     \* the process that creates the note, and if it keeps records
    record,      \* the capability on the creator's disk: None, "note" or "live"
    reader,      \* reader[r]: a receive
    burnt        \* the reading process has seen the removal acknowledged

vars == <<note, creator, record, reader, burnt>>

\* A request and its answer: what the server did, and what the client saw
Outcome == {"ok", "refused", "lost"}

Acted(o) == o # "refused"
Seen(o) == o = "ok"

\* chunk_count(): an empty text has one chunk too
ChunkCount(size, chunkBytes) ==
    IF size = 0 THEN 1 ELSE (size + chunkBytes - 1) \div chunkBytes

Chunks == ChunkCount(Size, ChunkBytes)

\* expected_chunk_bytes(), without the authentication tag
ExpectedBytes(index) ==
    IF index + 1 = Chunks THEN Size - index * ChunkBytes ELSE ChunkBytes

NewReader ==
    [pc |-> "idle", managed |-> FALSE, acknowledged |-> FALSE, got |-> 0, bytes |-> 0,
     verified |-> FALSE, text |-> FALSE, pending |-> FALSE,
     consumed |-> FALSE, delivered |-> FALSE, cancelled |-> FALSE]

Init ==
    /\ \E d \in Drivers, b \in BOOLEAN:
        note = [st |-> "none", driver |-> d, burn |-> b, put |-> 0,
                claim |-> None, consumer |-> None]
    /\ \E k \in BOOLEAN:
        creator = [pc |-> "start", cancelled |-> FALSE, ending |-> FALSE,
                   attempts |-> 0, receipt |-> "none", keeps |-> k]
    /\ record = None
    /\ reader = [r \in Reader |-> NewReader]
    /\ burnt = FALSE

Live == note.driver = "webrtc"

-----------------------------------------------------------------------------
(* The creator *)

CreatorAt(pc, next) ==
    /\ creator.pc = pc
    /\ creator' = [creator EXCEPT !.pc = next]

\* create(): the session, the request and the policy are checked, and the
\* note is reserved
Reserve(o) ==
    /\ ~Live
    /\ CreatorAt("start", IF Seen(o) THEN "sending" ELSE "failed")
    /\ note' = IF Acted(o) THEN [note EXCEPT !.st = "pending"] ELSE note
    /\ UNCHANGED <<record, reader, burnt>>

\* create_live(): the same, with the consent of the user unless only relays
\* are used; the chunks are encrypted and kept
ReserveLive(o, consent) ==
    /\ Live
    /\ CreatorAt("start", IF consent /\ Seen(o) THEN "sending" ELSE "failed")
    /\ note' = IF consent /\ Acted(o)
               THEN [note EXCEPT !.st = "pending"] ELSE note
    /\ UNCHANGED <<record, reader, burnt>>

\* One encrypted chunk; a failure ends the creation
PutChunk(o) ==
    /\ ~Live
    /\ note.put < Chunks
    /\ CreatorAt("sending", IF Seen(o) THEN "sending" ELSE "failed")
    /\ note' = IF Acted(o) /\ note.st = "pending"
               THEN [note EXCEPT !.put = @ + 1] ELSE note
    /\ UNCHANGED <<record, reader, burnt>>

\* The completion of an HTTP note
Complete(o) ==
    /\ ~Live
    /\ note.put = Chunks
    /\ CreatorAt("sending", IF Seen(o) /\ note.st = "pending"
                            THEN "created" ELSE "failed")
    /\ note' = IF Acted(o) /\ note.st = "pending"
               THEN [note EXCEPT !.st = "available"] ELSE note
    /\ UNCHANGED <<record, reader, burnt>>

\* The publication of a live one
Publish(o) ==
    /\ Live
    /\ CreatorAt("sending", IF Seen(o) /\ note.st = "pending"
                            THEN "saving" ELSE "failed")
    /\ note' = IF Acted(o) /\ note.st = "pending"
               THEN [note EXCEPT !.st = "available"] ELSE note
    /\ UNCHANGED <<record, reader, burnt>>

\* create_with_control(): a creation cancelled meanwhile is dropped, its
\* receipt with it, though the note is available
CheckCreated ==
    /\ CreatorAt("created", IF creator.cancelled THEN "failed" ELSE "saving")
    /\ UNCHANGED <<note, record, reader, burnt>>

\* NoteManagementStore::save(), before anything is shown to the user, if the
\* host has such a store; a failure drops the receipt
SaveManagement(ok) ==
    /\ CreatorAt("saving", IF creator.keeps => ok THEN "saved" ELSE "failed")
    /\ record' = IF creator.keeps /\ ok THEN (IF Live THEN "live" ELSE "note")
                 ELSE record
    /\ UNCHANGED <<note, reader, burnt>>

\* The receipt of a finished job, or the ShareReady event of a live one
ShareReady ==
    /\ creator.pc = "saved"
    /\ creator' = [creator EXCEPT !.pc = IF Live THEN "serving" ELSE "complete",
                                  !.receipt = "held"]
    /\ UNCHANGED <<note, record, reader, burnt>>

\* take_receipt(): once
TakeReceipt ==
    /\ creator.pc \in {"complete", "serving"}
    /\ creator.receipt = "held"
    /\ creator' = [creator EXCEPT !.receipt = "taken"]
    /\ UNCHANGED <<note, record, reader, burnt>>

\* The user cancels the job, or asks for the end of the live share
CancelCreator ==
    /\ creator.pc \notin {"failed", "complete", "ended", "crashed"}
    /\ \/ creator' = [creator EXCEPT !.cancelled = TRUE]
       \/ Live /\ creator' = [creator EXCEPT !.ending = TRUE]
    /\ UNCHANGED <<note, record, reader, burnt>>

\* A failed poll, or one peer that cannot be connected, ends the serving loop
ServeFails ==
    /\ ~creator.cancelled /\ ~creator.ending
    /\ CreatorAt("serving", "failed")
    /\ UNCHANGED <<note, record, reader, burnt>>

\* The loop ends: a cancelled owner leaves the share as it is
ServeStops ==
    /\ creator.cancelled \/ creator.ending
    /\ CreatorAt("serving", IF creator.ending THEN "ending" ELSE "complete")
    /\ UNCHANGED <<note, record, reader, burnt>>

\* Signaling::end(), retried; the last failure fails the job
EndShare(o) ==
    /\ creator.pc = "ending"
    /\ creator.attempts < EndAttempts
    /\ creator' = [creator EXCEPT
          !.attempts = @ + 1,
          !.pc = IF Seen(o) THEN "acknowledge"
                 ELSE IF creator.attempts + 1 = EndAttempts THEN "failed"
                 ELSE "ending"]
    /\ note' = IF Acted(o) /\ note.st = "available"
               THEN [note EXCEPT !.st = "deleting"] ELSE note
    /\ UNCHANGED <<record, reader, burnt>>

\* acknowledge_end()
AcknowledgeEnd ==
    /\ CreatorAt("acknowledge", "ended")
    /\ record' = None
    /\ UNCHANGED <<note, reader, burnt>>

CrashCreator ==
    /\ creator.pc # "crashed"
    /\ creator' = [creator EXCEPT !.pc = "crashed"]
    /\ UNCHANGED <<note, record, reader, burnt>>

\* NoteManagementStore::action(), from any process that has the record: only
\* an acknowledged request removes it.  A note whose row is gone answers 404.
Managed == record # None /\ creator.pc # "saving"

Manage(o) ==
    /\ Managed
    /\ note' = IF Acted(o) /\ note.st = "available"
               THEN [note EXCEPT !.st = "deleting"] ELSE note
    /\ record' = IF Seen(o) /\ note.st # "gone" THEN None ELSE record
    /\ UNCHANGED <<creator, reader, burnt>>

-----------------------------------------------------------------------------
(* The server: retention, and the removal of what was deleted *)

Expire ==
    /\ note.st \in {"pending", "available"}
    /\ note' = [note EXCEPT !.st = "deleting"]
    /\ UNCHANGED <<creator, record, reader, burnt>>

Remove ==
    /\ note.st = "deleting"
    /\ note' = [note EXCEPT !.st = "gone"]
    /\ UNCHANGED <<creator, record, reader, burnt>>

-----------------------------------------------------------------------------
(* Readers *)

ReaderAt(r, pc, next) ==
    /\ reader[r].pc = pc
    /\ reader' = [reader EXCEPT ![r].pc = next]

\* start_receive_note(), or open_note() and open_note_job(), which
\* acknowledge the burn themselves
StartReceive(r, managed, acknowledged) ==
    /\ reader[r].pc = "idle"
    /\ managed \/ acknowledged
    /\ reader' = [reader EXCEPT ![r] = [NewReader EXCEPT
           !.pc = "reading", !.managed = managed,
           !.acknowledged = acknowledged]]
    /\ UNCHANGED <<note, creator, record, burnt>>

\* receive() up to the first chunk: metadata, password, manifest, its
\* agreement with the metadata, the memory budget and the acknowledgement
ReadNote(r, ok) ==
    /\ ReaderAt(r, "reading",
          IF ok /\ note.st = "available" /\ ~reader[r].cancelled
                /\ (note.burn => reader[r].acknowledged)
          THEN (IF Live THEN "connecting" ELSE "chunks") ELSE "failed")
    /\ UNCHANGED <<note, creator, record, burnt>>

\* Consent, then connect_receiver: a burn-on-read note admits one session,
\* whether or not its answer arrives
Admitted(r) ==
    note.st = "available" /\ (note.burn => note.claim = None)

Connect(r, o) ==
    /\ ReaderAt(r, "connecting",
          IF Seen(o) /\ Admitted(r) /\ creator.pc = "serving"
             /\ ~reader[r].cancelled
          THEN "chunks" ELSE "failed")
    /\ note' = IF Acted(o) /\ Admitted(r) /\ note.burn
               THEN [note EXCEPT !.claim = r] ELSE note
    /\ UNCHANGED <<creator, record, burnt>>

\* One chunk, of the expected length and authenticated; a peer goes on
\* serving while its process lives
FetchChunk(r, ok) ==
    /\ reader[r].pc = "chunks"
    /\ reader[r].got < Chunks
    /\ LET served == ok /\ ~reader[r].cancelled
                        /\ (IF Live THEN creator.pc # "crashed"
                            ELSE note.st = "available")
       IN reader' = IF served
                    THEN [reader EXCEPT ![r].got = @ + 1,
                                      ![r].bytes = @ + ExpectedBytes(reader[r].got)]
                    ELSE [reader EXCEPT ![r].pc = "failed"]
    /\ UNCHANGED <<note, creator, record, burnt>>

\* Faulty variant: nothing is compared before the note is burnt
VerifyLater(r, ok) ==
    /\ reader[r].pc = "chunks"
    /\ reader[r].got = Chunks
    /\ reader' = [reader EXCEPT
           ![r].pc = "verified", ![r].verified = ok, ![r].text = ok]
    /\ UNCHANGED <<note, creator, record, burnt>>

\* The length and the digest of the whole text
Verify(r, ok) ==
    /\ reader[r].pc = "chunks"
    /\ reader[r].got = Chunks
    /\ LET whole == ok /\ reader[r].bytes = Size IN
       reader' = [reader EXCEPT
           ![r].pc = IF whole THEN "verified" ELSE "failed",
           ![r].verified = whole, ![r].text = whole]
    /\ UNCHANGED <<note, creator, record, burnt>>

\* The session of a live note is reported complete; when that fails the
\* verified text is dropped
Report(r, ok) ==
    /\ reader[r].pc = "verified"
    /\ reader' = [reader EXCEPT
           ![r].pc = IF ok \/ ~Live THEN "burning" ELSE "failed",
           ![r].text = ok \/ ~Live]
    /\ UNCHANGED <<note, creator, record, burnt>>

\* consume_once(), consume_live(): 202 and 404 count as removed, anything
\* else is kept for a retry.  403 when the session is not the claiming one.
Removable(r) == note.st = "available" /\ (Live => note.claim = r)

Known(r) == burnt /\ ~Live

Burned(r, o) ==
    \/ Known(r)
    \/ Seen(o) /\ (Removable(r) \/ note.st # "available")

Consume(r, o) ==
    /\ note' = IF ~Known(r) /\ Acted(o) /\ Removable(r)
               THEN [note EXCEPT !.st = "deleting", !.consumer = r]
               ELSE note
    /\ burnt' = (burnt \/ (~Live /\ Seen(o) /\ Removable(r)))

Finish(r, o) ==
    /\ reader[r].pc = "burning"
    /\ IF note.burn
       THEN /\ Consume(r, o)
            /\ reader' = [reader EXCEPT
                   ![r].pc = IF Burned(r, o) \/ reader[r].managed
                             THEN "complete" ELSE "failed",
                   ![r].text = Burned(r, o) \/ reader[r].managed,
                   ![r].pending = ~Burned(r, o) /\ reader[r].managed,
                   ![r].consumed = Burned(r, o)]
       ELSE /\ reader' = [reader EXCEPT ![r].pc = "complete"]
            /\ UNCHANGED <<note, burnt>>
    /\ UNCHANGED <<creator, record>>

\* take_note(): once, and only from a completed job
TakeNote(r) ==
    /\ reader[r].pc = "complete"
    /\ ~reader[r].delivered
    /\ reader' = [reader EXCEPT ![r].delivered = TRUE]
    /\ UNCHANGED <<note, creator, record, burnt>>

\* retry_burn()
RetryBurn(r, o) ==
    /\ reader[r].pc = "complete"
    /\ reader[r].pending
    /\ Consume(r, o)
    /\ reader' = IF Burned(r, o)
                 THEN [reader EXCEPT ![r].pending = FALSE, ![r].consumed = TRUE]
                 ELSE reader
    /\ UNCHANGED <<creator, record>>

\* cancel(): it stays set, and a completed receive shows as cancelled
CancelReceive(r) ==
    /\ reader[r].pc # "idle"
    /\ ~reader[r].cancelled
    /\ reader' = [reader EXCEPT ![r].cancelled = TRUE]
    /\ UNCHANGED <<note, creator, record, burnt>>

\* The reading process ends: nothing of a receive is on its disk
CrashReaders ==
    /\ \E r \in Reader: reader[r].pc # "idle"
    /\ reader' = [r \in Reader |-> NewReader]
    /\ burnt' = FALSE
    /\ note' = [note EXCEPT !.consumer = None]
    /\ UNCHANGED <<creator, record>>

CreatorNext ==
    \/ \E o \in Outcome: Reserve(o) \/ PutChunk(o) \/ Complete(o)
                         \/ Publish(o) \/ EndShare(o) \/ Manage(o)
    \/ \E ok \in BOOLEAN, o \in Outcome: ReserveLive(o, ok)
    \/ \E ok \in BOOLEAN: SaveManagement(ok)
    \/ CheckCreated \/ ShareReady \/ TakeReceipt \/ CancelCreator
    \/ ServeFails \/ ServeStops \/ AcknowledgeEnd \/ CrashCreator

ReaderNext(r) ==
    \/ \E m, a \in BOOLEAN: StartReceive(r, m, a)
    \/ \E ok \in BOOLEAN: ReadNote(r, ok) \/ FetchChunk(r, ok)
                          \/ Verify(r, ok) \/ Report(r, ok)
    \/ \E o \in Outcome: Connect(r, o) \/ Finish(r, o) \/ RetryBurn(r, o)
    \/ TakeNote(r) \/ CancelReceive(r)

Next ==
    \/ CreatorNext
    \/ \E r \in Reader: ReaderNext(r)
    \/ Expire \/ Remove \/ CrashReaders

Spec == Init /\ [][Next]_vars

-----------------------------------------------------------------------------

TypeOK ==
    /\ note \in [st : {"none", "pending", "available", "deleting", "gone"},
                 driver : Drivers, burn : BOOLEAN, put : 0..Chunks,
                 claim : Reader \cup {None}, consumer : Reader \cup {None}]
    /\ creator.attempts \in 0..EndAttempts
    /\ creator.receipt \in {"none", "held", "taken"}
    /\ record \in {None, "note", "live"}
    /\ \A r \in Reader: reader[r].got \in 0..Chunks
    /\ burnt \in BOOLEAN

\* A note is burnt only by a reader that has decrypted and verified all of
\* it, and such a reader still holds the text, whatever became of the answer
\* to its request and of the report of its session.  (open_note() drops the
\* text when the answer is lost, and is not covered.)
BurntTextKept ==
    \A r \in Reader:
        note.consumer = r =>
            /\ reader[r].verified
            /\ reader[r].managed => reader[r].text

\* A reader is told that the note is removed only when no one can read it
\* any more: a failed or refused request never counts.
ConsumedMeansRemoved ==
    \A r \in Reader:
        reader[r].consumed => note.st \in {"deleting", "gone"}

\* While a note that a host with a management store has shown can be read, the
\* capability to end it is on disk: a failed request does not use it up, and
\* neither does the end of the process.  (A note shown by a host without one
\* can only be read, or expire.)
CapabilityKept ==
    creator.keeps /\ creator.receipt # "none" /\ note.st = "available"
        => record # None

=============================================================================
