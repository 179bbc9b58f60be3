---------------------------- MODULE InboxReceiver ----------------------------
(***************************************************************************)
(* Automatic receiving of inbox deliveries: the receiver's saved state and *)
(* its sweep (services/inbox_receiver.rs), the staging of each delivery    *)
(* (protocol/inbox_staging.rs) and the explicit export (export_staged in   *)
(* protocol/download.rs).  The receiver's store is locked while it is      *)
(* open, so one process at a time acts; it may die between any two saves.  *)
(***************************************************************************)
EXTENDS Naturals, FiniteSets, FiniteSetsExt

CONSTANTS
  Delivery,  \* deliveries the server may list
  Bytes,     \* the size of each, a function
  Limit,     \* the local cache limit
  Last,      \* every delivery has the chunks 0..Last
  None

VARIABLES
  listed,    \* what the server lists: "no", "manual" or "auto"
  enabled,   \* saved: automatic receiving is on
  entry,     \* saved: the state of each delivery, or None
  staging,   \* the staging record of each delivery: the next chunk, or None
  cipher,    \* the staged ciphertext: good or damaged
  sweep,     \* the running sweep
  output     \* deliveries exported, with the chunks their files consist of

vars == <<listed, enabled, entry, staging, cipher, sweep, output>>

Chunk == 0..Last
EntryState == {"downloading", "staged-locked", "paused-local", "paused-policy", "unavailable", "dismissed"}
NoSweep == [pc |-> "idle", todo |-> {}, seen |-> {}, at |-> None, entry |-> None]

TypeOK ==
  /\ listed \in [Delivery -> {"no", "manual", "auto"}] /\ enabled \in BOOLEAN
  /\ entry \in [Delivery -> EntryState \cup {None}]
  /\ staging \in [Delivery -> 0..(Last + 1) \cup {None}]
  /\ cipher \in [Delivery -> [Chunk -> {"none", "good", "damaged"}]]
  /\ sweep.pc \in {"idle", "list", "associate", "fetch", "request", "stored"} /\ sweep.todo \subseteq Delivery
  /\ output \subseteq Delivery

Init ==
  /\ listed = [d \in Delivery |-> "no"] /\ enabled = FALSE
  /\ entry = [d \in Delivery |-> None] /\ staging = [d \in Delivery |-> None]
  /\ cipher = [d \in Delivery |-> [c \in Chunk |-> "none"]]
  /\ sweep = NoSweep /\ output = {}

Stored == {"good", "damaged"}
Used(e) == MapThenSumSet(LAMBDA d : Bytes[d], {d \in Delivery : e[d] \notin {None, "dismissed"}})

-----------------------------------------------------------------------------
\* The server: a delivery arrives, changes its policy, expires.
Lists(d) ==
  /\ \E state \in {"no", "manual", "auto"} \ {listed[d]} : listed' = [listed EXCEPT ![d] = state]
  /\ UNCHANGED <<enabled, entry, staging, cipher, sweep, output>>

SetEnabled(on) ==
  /\ sweep = NoSweep /\ enabled # on /\ enabled' = on
  /\ entry' = IF on THEN entry
              ELSE [d \in Delivery |-> IF entry[d] = "downloading" THEN "paused-local" ELSE entry[d]]
  /\ UNCHANGED <<listed, staging, cipher, sweep, output>>

\* inbox_sync: the pages of the listing, taken as they are now.
StartSweep ==
  /\ sweep = NoSweep /\ enabled
  /\ LET seen == {d \in Delivery : listed[d] # "no"}
     IN sweep' = [pc |-> "list", todo |-> seen, seen |-> seen, at |-> None, entry |-> entry]
  /\ UNCHANGED <<listed, enabled, entry, staging, cipher, output>>

\* Faulty variant: forgets what the user dismissed.
FinishedStaged(e) == e = "staged-locked"

Finished(e) == e \in {"staged-locked", "dismissed"}

\* A delivery that may not be received automatically, is done, or does not fit.
Skip(d) ==
  /\ sweep.pc = "list" /\ d \in sweep.todo
  /\ \/ listed[d] # "auto"
     \/ listed[d] = "auto" /\ Finished(sweep.entry[d])
     \/ listed[d] = "auto" /\ sweep.entry[d] = None /\ Used(sweep.entry) + Bytes[d] > Limit
  /\ sweep' = [sweep EXCEPT !.todo = @ \ {d},
       !.entry[d] = IF listed[d] # "auto" /\ @ # None /\ ~Finished(@) THEN "paused-policy" ELSE @]
  /\ UNCHANGED <<listed, enabled, entry, staging, cipher, output>>

\* inbox_staging::open and prepare: the staging record is saved first.
Prepare(d) ==
  /\ sweep.pc = "list" /\ d \in sweep.todo /\ listed[d] = "auto" /\ ~Finished(sweep.entry[d])
  /\ sweep.entry[d] = None => Used(sweep.entry) + Bytes[d] <= Limit
  /\ staging' = [staging EXCEPT ![d] = IF @ = None THEN 0 ELSE @]
  /\ sweep' = [sweep EXCEPT !.pc = "associate", !.at = d, !.todo = @ \ {d}]
  /\ UNCHANGED <<listed, enabled, entry, cipher, output>>

\* The association is saved before the first chunk is fetched.
Associate ==
  /\ sweep.pc = "associate"
  /\ LET e == IF sweep.entry[sweep.at] = None THEN [sweep.entry EXCEPT ![sweep.at] = "downloading"] ELSE sweep.entry
     IN entry' = e /\ sweep' = [sweep EXCEPT !.pc = "fetch", !.entry = e]
  /\ UNCHANGED <<listed, enabled, staging, cipher, output>>

\* reconcile: the pointer passes every chunk that is on the disk.
Reconcile(d, files) == IF \A c \in Chunk : files[c] \in Stored THEN Last + 1
                       ELSE Min({c \in Chunk : files[c] \notin Stored})

\* pending: the record is brought up to what an earlier process may have stored
\* without saving it, and names the chunk to request.
Pending ==
  /\ sweep.pc = "fetch" /\ staging[sweep.at] # None /\ staging[sweep.at] <= Last
  /\ LET next == Reconcile(sweep.at, cipher[sweep.at])
     IN /\ staging' = [staging EXCEPT ![sweep.at] = next]
        /\ sweep' = IF next = Last + 1 THEN sweep ELSE [sweep EXCEPT !.pc = "request"]
  /\ UNCHANGED <<listed, enabled, entry, cipher, output>>

\* ingest: fetched whole, damaged perhaps on its way or on the disk, and stored ...
StoreChunk(c) ==
  /\ sweep.pc = "request" /\ c = staging[sweep.at]
  /\ \E got \in Stored : cipher' = [cipher EXCEPT ![sweep.at][c] = got]
  /\ sweep' = [sweep EXCEPT !.pc = "stored"]
  /\ UNCHANGED <<listed, enabled, entry, staging, output>>

\* ... before the record is saved.
SaveStaging ==
  /\ sweep.pc = "stored"
  /\ staging' = [staging EXCEPT ![sweep.at] = Reconcile(sweep.at, cipher[sweep.at])]
  /\ sweep' = [sweep EXCEPT !.pc = "fetch"]
  /\ UNCHANGED <<listed, enabled, entry, cipher, output>>

\* The state of the staging record becomes the state of the entry; a failed fetch
\* ends the sweep after that.
FetchEnds ==
  /\ sweep.pc \in {"fetch", "request", "stored"}
  /\ LET done == staging[sweep.at] = Last + 1
         e == [sweep.entry EXCEPT ![sweep.at] = IF done THEN "staged-locked" ELSE "downloading"]
     IN /\ entry' = e
        /\ sweep' = IF done THEN [sweep EXCEPT !.pc = "list", !.at = None, !.entry = e] ELSE NoSweep
  /\ UNCHANGED <<listed, enabled, staging, cipher, output>>

EndSweep ==
  /\ sweep.pc = "list" /\ sweep.todo = {}
  /\ entry' = [d \in Delivery |->
       IF sweep.entry[d] # None /\ d \notin sweep.seen /\ ~Finished(sweep.entry[d]) THEN "unavailable" ELSE sweep.entry[d]]
  /\ sweep' = NoSweep
  /\ UNCHANGED <<listed, enabled, staging, cipher, output>>

Crash ==
  /\ sweep # NoSweep /\ sweep' = NoSweep
  /\ UNCHANGED <<listed, enabled, entry, staging, cipher, output>>

\* export_staged: every file is authenticated before the first is published.
Export(d) ==
  /\ sweep = NoSweep /\ entry[d] = "staged-locked" /\ \A c \in Chunk : cipher[d][c] = "good"
  /\ output' = output \cup {d}
  /\ UNCHANGED <<listed, enabled, entry, staging, cipher, sweep>>

\* dismiss: the entry first, then the directory; a crash between leaves the latter
\* to the next dismissal.
Dismiss(d) ==
  /\ sweep = NoSweep /\ entry[d] # None
  /\ entry' = [entry EXCEPT ![d] = "dismissed"]
  /\ \/ UNCHANGED <<staging, cipher>>
     \/ /\ staging' = [staging EXCEPT ![d] = None]
        /\ cipher' = [cipher EXCEPT ![d] = [c \in Chunk |-> "none"]]
  /\ UNCHANGED <<listed, enabled, sweep, output>>

Next ==
  \/ \E d \in Delivery : Lists(d) \/ Skip(d) \/ Prepare(d) \/ Export(d) \/ Dismiss(d)
  \/ \E on \in BOOLEAN : SetEnabled(on)
  \/ \E c \in Chunk : StoreChunk(c)
  \/ StartSweep \/ Associate \/ Pending \/ SaveStaging \/ FetchEnds \/ EndSweep \/ Crash

Spec == Init /\ [][Next]_vars
-----------------------------------------------------------------------------
\* Every byte of staged ciphertext belongs to a saved entry, so it is counted and
\* can be dismissed, and what is counted stays within the limit.
CiphertextAccounted ==
  /\ \A d \in Delivery : (\E c \in Chunk : cipher[d][c] \in Stored) => entry[d] # None
  /\ Used(entry) <= Limit

\* What is announced as staged is complete.
StagedComplete ==
  \A d \in Delivery : entry[d] = "staged-locked" => \A c \in Chunk : cipher[d][c] \in Stored

\* A chunk that is on the disk is not requested again, even if the process that stored
\* it died before it saved the record.
RequestedOnce == sweep.pc = "request" => cipher[sweep.at][staging[sweep.at]] \notin Stored

\* What was dismissed stays dismissed and is never downloaded again.
DismissedStaysStep ==
  \A d \in Delivery : entry[d] = "dismissed" => entry'[d] = "dismissed"
                                                /\ \A c \in Chunk : cipher'[d][c] \in {"none", cipher[d][c]}
=============================================================================
