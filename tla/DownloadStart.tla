---------------------------- MODULE DownloadStart ----------------------------
(***************************************************************************)
(* From a link to a checkpoint, and from the checkpoint to a download      *)
(* again (run, run_inbox, resume, resume_inbox, async_run and async_resume *)
(* in protocol/download, with parse_link_for_instance and the prompts of   *)
(* Control): the server's capabilities and metadata, the key of the link   *)
(* or of a prompt, the password, the authenticated manifest or Turbo       *)
(* descriptor, the Turbo session, and the record that makes the job        *)
(* resumable.                                                              *)
(*                                                                         *)
(* The steps are the points where a crash, a cancellation or the server    *)
(* can come between.  What follows the record is DownloadJob and LiveShare.*)
(***************************************************************************)
EXTENDS Naturals, FiniteSets

CONSTANTS
    Key,            \* share keys a user may have; TheKey opens the transfer
    TheKey,
    Transfers,      \* the transfers a link may name: [driver, note, turbo, salt]
    Stores,         \* checkpoint directories: one for each start
    MaxAttempts,    \* metadata requests while the transfer is pending
    None

VARIABLES
    server,         \* [transfer, state, identity]: what metadata answers
    sessions,       \* Turbo sessions the server has open for this client
    disk,           \* disk[s]: None, or [secret, job]
    pc, s,          \* the step of the running job and its directory
    run             \* what the running job holds in memory

vars == <<server, sessions, disk, pc, s, run>>

States == {"pending", "turbo", "available", "gone"}

NoRun == [source |-> None, background |-> FALSE, resumed |-> FALSE, key |-> None,
          password |-> FALSE, seen |-> None, attempts |-> 0, session |-> FALSE]

Init ==
    /\ \E t \in Transfers:
          server = [transfer |-> t, state |-> "pending", identity |-> 1]
    /\ sessions = 0
    /\ disk = [d \in Stores |-> None]
    /\ pc = "idle" /\ s = None /\ run = NoRun

At(step) == pc = step
Goto(step) == pc' = step /\ UNCHANGED s

\* A job that fails or is cancelled leaves its directory as it is
Ended == pc' = "idle" /\ s' = None /\ run' = NoRun

-----------------------------------------------------------------------------
(* The server *)

\* The sender goes on; a Turbo transfer is readable before it is complete
SenderGoesOn ==
    /\ \/ server.state = "pending" /\ server.transfer.turbo
          /\ server' = [server EXCEPT !.state = "turbo"]
       \/ server.state = (IF server.transfer.turbo THEN "turbo" ELSE "pending")
          /\ server' = [server EXCEPT !.state = "available"]
       \/ server.state # "gone" /\ server' = [server EXCEPT !.state = "gone"]
    /\ UNCHANGED <<sessions, disk, pc, s, run>>

\* An instance restored from a backup, or another one at its origin
ServerReplaced ==
    /\ server.identity = 1
    /\ server' = [server EXCEPT !.identity = 2]
    /\ UNCHANGED <<sessions, disk, pc, s, run>>

-----------------------------------------------------------------------------
(* Start and resume *)

\* parse_link_for_instance(): a link carries its key, or only the identifier
LinkKeys == Key \cup {None}

\* run() and run_background(): a directory of its own for each start
RunPublic(d, key, background) ==
    /\ At("idle") /\ disk[d] = None
    /\ disk' = [disk EXCEPT ![d] = [secret |-> None, job |-> None]]
    /\ pc' = "capabilities" /\ s' = d
    /\ run' = [NoRun EXCEPT !.source = "public", !.background = background, !.key = key]
    /\ UNCHANGED <<server, sessions>>

\* run_inbox() and run_inbox_background(): the working key is the caller's
RunInbox(d, key, background) ==
    /\ At("idle") /\ disk[d] = None
    /\ disk' = [disk EXCEPT ![d] = [secret |-> None, job |-> None]]
    /\ pc' = "capabilities" /\ s' = d
    /\ run' = [NoRun EXCEPT !.source = "inbox", !.background = background, !.key = key]
    /\ UNCHANGED <<server, sessions>>

\* A record is listed and resumed; a directory without one is not
Saved(d) == disk[d] # None /\ disk[d].job # None

\* resume(): an inbox download has to be given its key again
Resume(d) ==
    /\ At("idle") /\ Saved(d) /\ disk[d].job.source = "public" /\ ~disk[d].job.complete
    /\ pc' = "capabilities" /\ s' = d
    /\ run' = [NoRun EXCEPT !.source = "public", !.resumed = TRUE]
    /\ UNCHANGED <<server, sessions, disk>>

ResumeInbox(d, key) ==
    /\ At("idle") /\ Saved(d) /\ disk[d].job.source = "inbox" /\ ~disk[d].job.complete
    /\ pc' = "capabilities" /\ s' = d
    /\ run' = [NoRun EXCEPT !.source = "inbox", !.resumed = TRUE, !.key = key]
    /\ UNCHANGED <<server, sessions, disk>>

\* An answer that is no success, a document that does not parse, a cancelled job
\* or a dead process
Fails ==
    /\ ~At("idle") /\ Ended
    /\ UNCHANGED <<server, sessions, disk>>

-----------------------------------------------------------------------------
(* What the server says *)

\* capabilities(): a server without them is used serially and without ranges.
\* A resumed public download reads its key back here
Capabilities ==
    /\ At("capabilities") /\ Goto("metadata")
    /\ run' = IF run.resumed /\ run.source = "public" THEN [run EXCEPT !.key = disk[s].secret] ELSE run
    /\ (run.resumed /\ run.source = "public") => disk[s].secret # None
    /\ UNCHANGED <<server, sessions, disk>>

\* metadata(): 202 while the transfer is pending
MetadataPending ==
    /\ At("metadata") /\ server.state = "pending" /\ run.attempts < MaxAttempts
    /\ run' = [run EXCEPT !.attempts = @ + 1]
    /\ UNCHANGED <<server, sessions, disk, pc, s>>

\* A transfer that lists no items is a note
RejectLiveNote(transfer) == transfer.driver = "webrtc" /\ transfer.note

\* The envelope: the manifest, or the descriptor before there is one
Envelope == [identity |-> server.identity,
             kind |-> IF server.state = "turbo" THEN "descriptor" ELSE "manifest"]

\* "transfer identity changed; refusing saved ciphertext"
SameTransfer(job) == job.envelope.identity = server.identity

Metadata ==
    /\ At("metadata") /\ server.state \in {"turbo", "available"}
    /\ ~RejectLiveNote(server.transfer)
    /\ run.resumed => SameTransfer(disk[s].job)
    /\ Goto("unlock")
    /\ run' = [run EXCEPT !.seen = IF run.resumed THEN disk[s].job.envelope ELSE Envelope]
    /\ UNCHANGED <<server, sessions, disk>>

-----------------------------------------------------------------------------
(* Keys *)

\* unlock() and unlock_saved(): a prompt for a key the link does not carry, and
\* one for the password, which is right or wrong
Unlock(key, password) ==
    /\ At("unlock")
    /\ run.key # None => key = run.key
    /\ ~server.transfer.salt => password
    /\ Goto(IF run.resumed THEN "manifest" ELSE "key")
    /\ run' = [run EXCEPT !.key = key, !.password = password]
    /\ UNCHANGED <<server, sessions, disk>>

\* Faulty variant: every key is put on disk
StoreEveryKey ==
    /\ At("key") /\ Goto("manifest")
    /\ disk' = [disk EXCEPT ![s].secret = run.key]
    /\ UNCHANGED <<server, sessions, run>>

\* save_secret(): before the key has opened anything; never that of a delivery
StoreKey ==
    /\ At("key") /\ Goto("manifest")
    /\ disk' = IF run.source = "public" THEN [disk EXCEPT ![s].secret = run.key] ELSE disk
    /\ UNCHANGED <<server, sessions, run>>

\* manifest_for(), turbo_descriptor_for(): only the key and the password together,
\* and a manifest that names items
Opens == run.key = TheKey /\ run.password /\ ~server.transfer.note

Manifest ==
    /\ At("manifest") /\ Opens
    /\ Goto(IF run.resumed THEN "download"
            ELSE IF run.seen.kind = "descriptor" THEN "session" ELSE "record")
    /\ UNCHANGED <<server, sessions, disk, run>>

\* create_turbo_session(); the answer may be lost
CreateTurboSession ==
    /\ At("session") /\ server.state # "gone" /\ sessions < Cardinality(Stores)
    /\ sessions' = sessions + 1
    /\ \/ Goto("record") /\ run' = [run EXCEPT !.session = TRUE]
       \/ Ended
    /\ UNCHANGED <<server, disk>>

-----------------------------------------------------------------------------
(* The record *)

\* "The checkpoint is durable before network data can arrive"
SaveRecord ==
    /\ At("record")
    /\ disk' = [disk EXCEPT ![s].job =
                  [source |-> run.source, envelope |-> run.seen, session |-> run.session,
                   complete |-> FALSE]]
    /\ IF run.background THEN Ended ELSE Goto("download") /\ UNCHANGED run
    /\ UNCHANGED <<server, sessions>>

\* The download itself, DownloadJob
Download ==
    /\ At("download") /\ server.identity = run.seen.identity /\ server.state # "gone"
    /\ disk' = [disk EXCEPT ![s].job.complete = TRUE, ![s].secret = None]
    /\ Ended
    /\ UNCHANGED <<server, sessions>>

Next ==
    \/ SenderGoesOn \/ ServerReplaced \/ Fails
    \/ \E d \in Stores:
          \/ \E background \in BOOLEAN, key \in LinkKeys: RunPublic(d, key, background)
          \/ \E background \in BOOLEAN, key \in Key: RunInbox(d, key, background)
          \/ Resume(d)
          \/ \E key \in Key: ResumeInbox(d, key)
    \/ Capabilities \/ MetadataPending \/ Metadata
    \/ \E key \in Key, password \in BOOLEAN: Unlock(key, password)
    \/ StoreKey \/ Manifest \/ CreateTurboSession \/ SaveRecord \/ Download

Spec == Init /\ [][Next]_vars

-----------------------------------------------------------------------------

\* Every variable has its type
TypeOK ==
    /\ server.state \in States /\ server.transfer \in Transfers
    /\ sessions \in 0..Cardinality(Stores)
    /\ \A d \in Stores: disk[d] # None => disk[d].secret \in Key \cup {None}
    /\ s \in Stores \cup {None} /\ run.attempts \in 0..MaxAttempts

\* A record is worth resuming whenever the process died: until it is complete, the
\* key beside it opens the envelope it names, it names the Turbo session it needs,
\* and the key of a delivery is never on disk
RecordResumable ==
    \A d \in Stores: Saved(d) =>
        LET job == disk[d].job IN
        /\ job.source = "public" /\ ~job.complete => disk[d].secret = TheKey
        /\ job.envelope.kind = "descriptor" => job.session
        /\ job.source = "inbox" => disk[d].secret = None

\* A download runs for a record that is already durable, with a key and a password
\* that opened the envelope the record names, and never for a note, which joining
\* would claim before its text can be shown
DownloadAuthentic ==
    At("download") =>
        /\ Saved(s) /\ run.seen = disk[s].job.envelope
        /\ run.key = TheKey /\ run.password /\ ~server.transfer.note

\* All of the above: what a crash, a cancellation or the server leave of a download
DownloadRecordUsable == TypeOK /\ RecordResumable /\ DownloadAuthentic
===============================================================================
