---------------------------- MODULE TurboSessions ----------------------------
(***************************************************************************)
(* The progress reports of downloads that run while the upload is still    *)
(* going on: DownloadSessionController, and the native client that reports *)
(* (report_turbo and the loop around it in protocol/download.rs).          *)
(*                                                                         *)
(* Each session belongs to one download.  A report may arrive late, twice  *)
(* or after its sender stopped.  The server changes the list of sessions   *)
(* under a cache lock, a lease that a slow request loses.                  *)
(***************************************************************************)
EXTENDS Naturals, FiniteSets

CONSTANTS
  Request,    \* requests the server can work on at a time
  Session,    \* session ULIDs, and the downloads that ask for them
  Limit,      \* filebeam.transfers.session_limit
  Chunks,     \* chunks of a download
  MaxEvents,  \* bound on stops of clients, leases lost and ticks together
  None

VARIABLES
  status,  \* of the transfer
  cached,  \* the sessions in the cache
  number,  \* the session-number in the cache
  lock,    \* the request whose lease of the cache lock runs, or None
  req,     \* the requests being worked on
  client,  \* client[s]: the download of session s, None before it has one
  sent,    \* the reports ever sent
  now,     \* the clock, in units of session_idle_minutes
  stops,
  faults   \* leases that ran out under their holder

vars == <<status, cached, number, lock, req, client, sent, now, stops, faults>>

Terminal == {"completed", "cancelled", "error"}
Idle == [pc |-> "idle", report |-> None, s |-> None, available |-> FALSE, list |-> None, number |-> 0]
NoSessions == [s \in Session |-> None]
Events == now + stops + faults

Step(r, next) == req' = [req EXCEPT ![r] = next]
Release(r) == lock' = IF lock = r THEN None ELSE lock

\* activeSessions()
Active(list) ==
  [s \in Session |-> IF list[s] # None /\ list[s].until > now THEN list[s] ELSE None]
-----------------------------------------------------------------------------
(* The server.                                                             *)

\* isPublishedTurbo() and the row as the request found it, then withinLock(): store()
\* of a download without a session, or update() by a report.
Enter(r) ==
  /\ req[r].pc = "idle" /\ lock = None /\ status # "deleting"
  /\ \E s \in Session :
       \E report \in {x \in sent : x.s = s} \cup {None} :
         /\ report = None => client[s] = None /\ \A q \in Request : req[q].s # s
         /\ Step(r, [pc |-> "in", report |-> report, s |-> s, available |-> status = "available",
                     list |-> Active(cached), number |-> number])
  /\ lock' = r
  /\ UNCHANGED <<status, cached, number, client, sent, now, stops, faults>>

NewSession(n) ==
  [number |-> n, progress |-> 0, status |-> "waiting", sequence |-> 0, until |-> now + 1]

\* Faulty variant: the newest report to arrive is the newest.
StaleNever(e, report) == FALSE

\* A report that is not newer than the last one, or comes after the end, is ignored
Stale(e, report) == report.sequence <= e.sequence \/ e.status \in Terminal

\* update(): 100 percent is Chunks + 1, and only for a completed download
Reported(e, report) ==
  LET progress == IF report.status = "completed" THEN Chunks + 1 ELSE report.progress
  IN [e EXCEPT !.sequence = report.sequence, !.status = report.status, !.until = now + 1,
               !.progress = IF progress > @ THEN progress ELSE @]

\* The client waits for this answer
Awaited(s, report) ==
  client[s] # None /\ client[s].waiting /\ client[s].sequence = report.sequence

\* report_turbo(): 204 is saved; with anything else the download fails, to be resumed
Answer(s, report, ok) ==
  client' = IF ~Awaited(s, report) THEN client
            ELSE IF ~ok THEN [client EXCEPT ![s].up = FALSE, ![s].waiting = FALSE,
                                            ![s].sequence = client[s].saved]
            ELSE [client EXCEPT ![s].waiting = FALSE, ![s].saved = client[s].sequence,
                                ![s].complete = report.status = "completed"]

Write(r, list) ==
  /\ cached' = list
  /\ Step(r, Idle) /\ Release(r)
  /\ UNCHANGED <<status, sent, now, stops, faults>>

\* Sessions that have ended count until they expire
Store(r) ==
  LET q == req[r]
      n == q.number + 1
  IN /\ q.pc = "in" /\ q.report = None
     /\ IF Cardinality({s \in Session : q.list[s] # None}) < Limit
        THEN /\ Write(r, [q.list EXCEPT ![q.s] = NewSession(n)])
             /\ number' = n
             /\ client' = [client EXCEPT ![q.s] =
                  [up |-> TRUE, waiting |-> FALSE, done |-> 0, sequence |-> 0, saved |-> 0,
                   complete |-> FALSE, stopped |-> FALSE]]
        ELSE Write(r, cached) /\ UNCHANGED <<number, client>>

Update(r) ==
  LET q == req[r]
      e == q.list[q.s]
      early == q.report.status = "completed" /\ ~q.available
  IN /\ q.pc = "in" /\ q.report # None
     /\ IF e = None THEN Write(r, cached) /\ Answer(q.s, q.report, FALSE)
        ELSE IF Stale(e, q.report) THEN Write(r, q.list) /\ Answer(q.s, q.report, TRUE)
        ELSE IF early THEN Write(r, cached) /\ Answer(q.s, q.report, FALSE)
        ELSE Write(r, [q.list EXCEPT ![q.s] = Reported(e, q.report)]) /\ Answer(q.s, q.report, TRUE)
     /\ UNCHANGED number

\* The upload is completed; the transfer is removed
Complete ==
  /\ status = "pending" /\ status' = "available"
  /\ UNCHANGED <<cached, number, lock, req, client, sent, now, stops, faults>>

Remove ==
  /\ status # "deleting" /\ status' = "deleting"
  /\ UNCHANGED <<cached, number, lock, req, client, sent, now, stops, faults>>
-----------------------------------------------------------------------------
(* The download.                                                           *)

Send(report) == sent' = sent \cup {report}

\* A chunk is verified and saved, then the next sequence is used; it is saved only
\* with the answer.
ReportChunk(s) ==
  LET c == client[s]
  IN /\ c # None /\ c.up /\ ~c.waiting /\ c.done < Chunks
     /\ client' = [client EXCEPT ![s].done = @ + 1, ![s].sequence = @ + 1, ![s].waiting = TRUE]
     /\ Send([s |-> s, sequence |-> c.sequence + 1, progress |-> c.done + 1, status |-> "downloading"])
     /\ UNCHANGED <<status, cached, number, lock, req, now, stops, faults>>

\* finalize_turbo_manifest() waits for the manifest; the files are published
ReportComplete(s) ==
  LET c == client[s]
  IN /\ c # None /\ c.up /\ ~c.waiting /\ ~c.complete /\ c.done = Chunks /\ status = "available"
     /\ client' = [client EXCEPT ![s].sequence = @ + 1, ![s].waiting = TRUE]
     /\ Send([s |-> s, sequence |-> c.sequence + 1, progress |-> c.done, status |-> "completed"])
     /\ UNCHANGED <<status, cached, number, lock, req, now, stops, faults>>

\* The process dies, is paused, or its request fails: the sequence is the saved one
Stop(s) ==
  /\ client[s] # None /\ client[s].up /\ ~client[s].complete /\ Events < MaxEvents
  /\ client' = [client EXCEPT ![s].up = FALSE, ![s].waiting = FALSE,
                              ![s].sequence = client[s].saved, ![s].stopped = TRUE]
  /\ stops' = stops + 1
  /\ UNCHANGED <<status, cached, number, lock, req, sent, now, faults>>

\* async_resume(): with the session of the record
Resume(s) ==
  /\ client[s] # None /\ ~client[s].up
  /\ client' = [client EXCEPT ![s].up = TRUE, ![s].stopped = TRUE]
  /\ UNCHANGED <<status, cached, number, lock, req, sent, now, stops, faults>>
-----------------------------------------------------------------------------
(* Faults and time.                                                        *)

Die(r) ==
  /\ req[r].pc = "in" /\ Step(r, Idle)
  /\ UNCHANGED <<status, cached, number, lock, client, sent, now, stops, faults>>

LeaseExpires ==
  /\ lock # None
  /\ IF req[lock].pc = "in" THEN Events < MaxEvents /\ faults' = faults + 1 ELSE UNCHANGED faults
  /\ lock' = None
  /\ UNCHANGED <<status, cached, number, req, client, sent, now, stops>>

Tick ==
  /\ Events < MaxEvents /\ now' = now + 1
  /\ UNCHANGED <<status, cached, number, lock, req, client, sent, stops, faults>>

Init ==
  /\ status = "pending" /\ cached = NoSessions /\ number = 0 /\ lock = None
  /\ req = [r \in Request |-> Idle] /\ client = [s \in Session |-> None]
  /\ sent = {} /\ now = 0 /\ stops = 0 /\ faults = 0

Next ==
  \/ \E r \in Request :
       \/ Enter(r)
       \/ Store(r)
       \/ Update(r)
       \/ Die(r)
  \/ \E s \in Session :
       \/ ReportChunk(s)
       \/ ReportComplete(s)
       \/ Stop(s)
       \/ Resume(s)
  \/ Complete
  \/ Remove
  \/ LeaseExpires
  \/ Tick

Spec == Init /\ [][Next]_vars
-----------------------------------------------------------------------------
(* Properties.                                                             *)

\* Every variable has its type.
TypeOK ==
  /\ status \in {"pending", "available", "deleting"} /\ lock \in Request \cup {None}
  /\ \A s \in Session : cached[s] # None =>
       /\ cached[s].progress \in 0..(Chunks + 1) /\ cached[s].sequence \in Nat
       /\ cached[s].status \in {"waiting", "downloading"} \cup Terminal
  /\ \A s \in Session : client[s] # None =>
       client[s].done \in 0..Chunks /\ client[s].saved <= client[s].sequence

\* store(): the sender tells its receivers apart, and they are never more than the limit.
SessionsDistinct ==
  /\ Cardinality({s \in Session : Active(cached)[s] # None}) <= Limit
  /\ faults = 0 => \A s, u \in Session : s # u /\ cached[s] # None /\ cached[u] # None =>
       cached[s].number # cached[u].number

\* update(): what the sender sees of a download is true: it has verified as much, a
\* completed one has everything, and one that completed without a stop is shown so as
\* long as it is shown at all.
ReportsTrue ==
  \A s \in Session : cached[s] # None /\ client[s] # None =>
    /\ cached[s].progress <= client[s].done + 1
    /\ cached[s].status = "completed" => client[s].done = Chunks
    /\ faults = 0 /\ client[s].complete /\ ~client[s].stopped => cached[s].status = "completed"

\* update(): although reports arrive late, twice and in any order, what is shown of a
\* download never goes back while requests keep their lease.
ReportsMonotoneStep ==
  \A s \in Session : faults = 0 /\ cached[s] # None /\ cached'[s] # None =>
    /\ cached'[s].sequence >= cached[s].sequence /\ cached'[s].progress >= cached[s].progress
    /\ cached[s].status \in Terminal => cached'[s].status = cached[s].status
=============================================================================
