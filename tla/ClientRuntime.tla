---------------------------- MODULE ClientRuntime ----------------------------
(***************************************************************************)
(* The application layer of the native clients: jobs and their workers     *)
(* (client-core/lib.rs), the polled facade (managed.rs) and the registry   *)
(* with its rows (application.rs).  Views call it from several threads;    *)
(* resume, discard and export look at a row, let go of the lock and come   *)
(* back, so those calls have two steps.  One checkpoint is in play.        *)
(***************************************************************************)
EXTENDS Naturals, FiniteSets

CONSTANTS
  Row,      \* job identifiers
  Worker,   \* workers, in the order in which they are started
  Thread,   \* threads that call the registry
  MaxPrompt,\* bound on the prompts of one worker
  None

VARIABLES
  row,      \* the registry
  worker,   \* the threads that do the work
  call,     \* the call each thread is in the middle of
  disk      \* the checkpoint: "none", "saved", "complete" or "discarded"

vars == <<row, worker, call, disk>>

JobState == {"Running", "Pausing", "Paused", "Complete", "Failed"}
Terminal == {"Paused", "Complete", "Failed"}
NoWorker == [pc |-> "none", cancelled |-> FALSE, lock |-> FALSE, permit |-> FALSE, resumes |-> FALSE,
             asked |-> None, channel |-> FALSE, prompts |-> 0, result |-> None]

TypeOK ==
  /\ \A r \in Row : row[r] # None => /\ row[r].state \in JobState /\ row[r].worker \in Worker \cup {None}
                                     /\ row[r].export \in {"NotVerified", "Awaiting", "ExportFailed", "Exported"}
  /\ \A w \in Worker : worker[w].pc \in {"none", "queued", "run", "asking", "ending", "done"}
  /\ disk \in {"none", "saved", "complete", "discarded"}

Init ==
  /\ row = [r \in Row |-> None] /\ worker = [w \in Worker |-> NoWorker]
  /\ call = [t \in Thread |-> None] /\ disk = "none"

Fresh == {w \in Worker : worker[w].pc = "none"}
Live == {w \in Worker : worker[w].pc \in {"queued", "run", "asking", "ending"}}
Owned == {row[r].worker : r \in {r \in Row : row[r] # None}} \ {None}

\* ManagedJob::new and insert
Running(w) == [state |-> "Running", worker |-> w, prompt |-> None, held |-> FALSE, next |-> 1, export |-> "NotVerified"]

\* Drop for Job: a job whose row goes is cancelled.
Dropping(ws, w) ==
  IF w = None THEN ws ELSE [ws EXCEPT ![w].cancelled = TRUE, ![w].channel = FALSE]
-----------------------------------------------------------------------------
(* Workers: Job::spawn_in_with_ice_override.                               *)

Started(ws, w, resumes) == [ws EXCEPT ![w] = [NoWorker EXCEPT !.pc = "queued", !.channel = TRUE, !.resumes = resumes]]

\* The scheduler admits the worker and the protocol opens or creates the
\* checkpoint; a resumption of one that is gone or active fails.
Admit(w) ==
  /\ worker[w].pc = "queued"
  /\ LET free == \A o \in Worker : ~worker[o].lock
         ok   == ~worker[w].cancelled /\ free /\ disk = IF worker[w].resumes THEN "saved" ELSE "none"
     IN /\ worker' = [worker EXCEPT ![w] = IF ok THEN [@ EXCEPT !.pc = "run", !.permit = TRUE, !.lock = TRUE]
                                           ELSE [@ EXCEPT !.pc = "ending", !.result = "error"]]
        /\ disk' = IF ok THEN "saved" ELSE disk
  /\ UNCHANGED <<row, call>>

\* Control::secret and its kin: the worker waits for an answer or a cancellation.
Ask(w) ==
  /\ worker[w].pc = "run" /\ worker[w].prompts < MaxPrompt /\ worker[w].channel
  /\ worker' = [worker EXCEPT ![w].pc = "asking", ![w].asked = "sent", ![w].prompts = @ + 1]
  /\ UNCHANGED <<row, call, disk>>

\* The prompt was dropped, or the transfer was cancelled.
AskFails(w) ==
  /\ worker[w].pc = "asking" /\ (worker[w].cancelled \/ worker[w].asked = "dropped")
  /\ worker' = [worker EXCEPT ![w].pc = "ending", ![w].asked = None, ![w].result = "error"]
  /\ UNCHANGED <<row, call, disk>>

Answered(w) ==
  /\ worker[w].pc = "asking" /\ worker[w].asked = "answered"
  /\ worker' = [worker EXCEPT ![w].pc = "run", ![w].asked = None]
  /\ UNCHANGED <<row, call, disk>>

\* The work ends; the checkpoint stays after an error and a cancellation.
EndRun(w) ==
  /\ worker[w].pc = "run"
  /\ \/ worker' = [worker EXCEPT ![w].pc = "ending", ![w].result = "ok", ![w].lock = FALSE] /\ disk' = "complete"
     \/ worker' = [worker EXCEPT ![w].pc = "ending", ![w].result = "error", ![w].lock = FALSE] /\ UNCHANGED disk
  /\ UNCHANGED <<row, call>>

\* Permit and store are released, then the result is sent.
SendResult(w) ==
  /\ worker[w].pc = "ending"
  /\ worker' = [worker EXCEPT ![w].pc = "done", ![w].permit = FALSE, ![w].lock = FALSE]
  /\ UNCHANGED <<row, call, disk>>
-----------------------------------------------------------------------------
(* ManagedJob: what a poll of a row does.                                  *)

\* A result that was cancelled counts as paused.
Outcome(w) ==
  IF worker[w].result = "ok" THEN "Complete" ELSE IF worker[w].cancelled THEN "Paused" ELSE "Failed"

\* ManagedJob::snapshot and ClientRuntime::snapshot: a prompt is taken from the
\* channel if none is shown, and the result ends the row.
Snapshot(r) ==
  /\ row[r] # None /\ row[r].state \notin Terminal
  /\ LET w == row[r].worker
         ended == worker[w].pc = "done"
         takes == ~ended /\ ~row[r].held /\ row[r].state = "Running" /\ worker[w].asked = "sent"
     IN /\ row' = [row EXCEPT ![r] =
              IF ended THEN [row[r] EXCEPT !.state = Outcome(w), !.prompt = None, !.held = FALSE,
                                           !.export = IF Outcome(w) = "Complete" THEN "Awaiting" ELSE @]
              ELSE IF takes THEN [row[r] EXCEPT !.prompt = row[r].next, !.held = TRUE, !.next = @ + 1] ELSE row[r]]
        /\ worker' = IF takes THEN [worker EXCEPT ![w].asked = "held"] ELSE worker
        /\ ended \/ takes
  /\ UNCHANGED <<call, disk>>

\* respond, respond_directory, respond_consent: a stale identifier is refused.  A
\* choice given to a prompt for a secret drops the prompt and is refused as well.
Respond(r, id, fits) ==
  /\ row[r] # None /\ row[r].prompt = id /\ row[r].held
  /\ row' = [row EXCEPT ![r].held = FALSE, ![r].prompt = IF fits THEN None ELSE @]
  /\ worker' = [worker EXCEPT ![row[r].worker].asked = IF fits THEN "answered" ELSE "dropped"]
  /\ UNCHANGED <<call, disk>>

\* ManagedJob::pause, also for every row at an explicit quit.
Pause(r) ==
  /\ row[r] # None /\ row[r].state = "Running" /\ row[r].worker # None
  /\ row' = [row EXCEPT ![r].state = "Pausing", ![r].prompt = None, ![r].held = FALSE]
  /\ worker' = [worker EXCEPT ![row[r].worker].cancelled = TRUE,
                             ![row[r].worker].asked = IF row[r].held THEN "dropped" ELSE @]
  /\ UNCHANGED <<call, disk>>
-----------------------------------------------------------------------------
(* The registry.                                                           *)

\* start_upload, start_download, start_service_job
Start(r, w) ==
  /\ row[r] = None /\ w \in Fresh /\ disk = "none"
  /\ row' = [row EXCEPT ![r] = Running(w)] /\ worker' = Started(worker, w, FALSE)
  /\ UNCHANGED <<call, disk>>

\* capabilities
MayResume(r) == row[r] # None /\ row[r].state = "Paused" /\ disk = "saved"
MayDiscard(r) == row[r] # None /\ row[r].state \in Terminal
MayExport(r) == row[r] # None /\ row[r].export \in {"Awaiting", "ExportFailed"}

\* The first half of dispatch and commit_export: the row is looked at, the saved
\* details are read, and the registry is unlocked.
Look(t, op, r) ==
  /\ call[t] = None
  /\ CASE op = "resume" -> MayResume(r) /\ \A w \in Worker : ~worker[w].lock
       [] op = "discard" -> MayDiscard(r)
       [] op = "export" -> MayExport(r)
  /\ call' = [call EXCEPT ![t] = [op |-> op, row |-> r]]
  /\ UNCHANGED <<row, worker, disk>>

Doing(t, op) == call[t] # None /\ call[t].op = op
Return(t) == call' = [call EXCEPT ![t] = None]

\* The row is replaced whatever it is by now; the job it had is dropped.
ResumeRow(t, w) ==
  /\ Doing(t, "resume") /\ w \in Fresh
  /\ LET r == call[t].row IN
     /\ worker' = Started(IF row[r] = None THEN worker ELSE Dropping(worker, row[r].worker), w, TRUE)
     /\ row' = [row EXCEPT ![r] = Running(w)]
  /\ Return(t) /\ UNCHANGED disk

\* discard: the checkpoint goes if nobody holds it, then the row.
DiscardCheckpoint(t) ==
  /\ Doing(t, "discard")
  /\ IF \A w \in Worker : ~worker[w].lock
     THEN /\ disk' = IF disk = "none" THEN disk ELSE "discarded"
          /\ call' = [call EXCEPT ![t].op = "remove"]
     ELSE Return(t) /\ UNCHANGED disk
  /\ UNCHANGED <<row, worker>>

\* Faulty variant: the row is forgotten and its worker goes on unseen.
RemoveRowOnly(t) ==
  /\ Doing(t, "remove") /\ row' = [row EXCEPT ![call[t].row] = None] /\ Return(t)
  /\ UNCHANGED <<worker, disk>>

RemoveRow(t) ==
  /\ Doing(t, "remove")
  /\ LET r == call[t].row IN
     /\ worker' = IF row[r] = None THEN worker ELSE Dropping(worker, row[r].worker)
     /\ row' = [row EXCEPT ![r] = None]
  /\ Return(t) /\ UNCHANGED disk

\* commit_export
CommitExport(t) ==
  /\ Doing(t, "export")
  /\ row' \in {[row EXCEPT ![call[t].row] = IF @ = None THEN @ ELSE [@ EXCEPT !.export = e]] : e \in {"Exported", "ExportFailed"}}
  /\ Return(t) /\ UNCHANGED <<worker, disk>>

\* restore_saved and insert_recovered: a detached row for a checkpoint that no row
\* is known to have; an active checkpoint cannot be opened.
RestoreSaved(r) ==
  /\ row[r] = None /\ disk \in {"saved", "complete"} /\ \A w \in Worker : ~worker[w].lock
  /\ \A o \in Row : row[o] = None
  /\ row' = [row EXCEPT ![r] = [Running(None) EXCEPT
                 !.state = IF disk = "saved" THEN "Paused" ELSE "Complete",
                 !.export = IF disk = "complete" THEN "Awaiting" ELSE @]]
  /\ UNCHANGED <<worker, call, disk>>

\* The process ends; its workers with it, the checkpoint stays.
Restart ==
  /\ \E r \in Row : row[r] # None
  /\ row' = [r \in Row |-> None] /\ call' = [t \in Thread |-> None]
  /\ worker' = [w \in Worker |-> IF worker[w].pc = "none" THEN worker[w] ELSE [NoWorker EXCEPT !.pc = "done"]]
  /\ UNCHANGED disk

Next ==
  \/ \E w \in Worker : Admit(w) \/ Ask(w) \/ AskFails(w) \/ Answered(w) \/ EndRun(w) \/ SendResult(w)
  \/ \E r \in Row : \/ Snapshot(r) \/ Pause(r) \/ RestoreSaved(r)
                    \/ \E w \in Worker : Start(r, w)
                    \/ \E id \in 1..MaxPrompt, fits \in BOOLEAN : Respond(r, id, fits)
  \/ \E t \in Thread : \/ DiscardCheckpoint(t) \/ RemoveRow(t) \/ CommitExport(t)
                       \/ \E w \in Worker : ResumeRow(t, w)
                       \/ \E r \in Row, op \in {"resume", "discard", "export"} : Look(t, op, r)
  \/ Restart

Spec == Init /\ [][Next]_vars
-----------------------------------------------------------------------------
\* A worker that waits for an answer can get one: its prompt is in the channel of a
\* row that will be polled, or shown by that row, unless it was dropped or the job
\* cancelled, which end the wait.
PromptReachable ==
  \A w \in Worker : worker[w].pc = "asking" /\ ~worker[w].cancelled /\ worker[w].asked \in {"sent", "held"} =>
    \E r \in Row : row[r] # None /\ row[r].worker = w /\ row[r].state = "Running"
                   /\ (worker[w].asked = "held") = row[r].held

\* No worker goes on without a row: when two threads resume the same row, or a row
\* is discarded while another thread resumes it, the loser is cancelled.
OrphansCancelled == \A w \in Live \ Owned : worker[w].cancelled

\* A row that shows the end of its job has released the store and the scheduler, so
\* the resumption that the row offers can be admitted.
EndedMeansReleased ==
  \A r \in Row : row[r] # None =>
    (row[r].state \in Terminal /\ row[r].worker # None => ~worker[row[r].worker].lock /\ ~worker[row[r].worker].permit)
=============================================================================
