---------------------------- MODULE DesktopWindow ----------------------------
(***************************************************************************)
(* The desktop window over its service (desktop/app, toast, notifications  *)
(* and the command queue of desktop/client).  The window only submits      *)
(* commands to a bounded queue and reads a snapshot; a worker thread       *)
(* handles the commands, records failures in a bounded history and         *)
(* publishes the snapshot; the window polls it for messages and for        *)
(* transfers that completed.                                               *)
(*                                                                         *)
(* Jobs run in threads of their own and end at any moment, between two     *)
(* publications too.  The worker's first publication is in its own thread: *)
(* the window may poll before it, and then finds no row.                   *)
(***************************************************************************)
EXTENDS Naturals, Sequences, Functions

CONSTANTS
    Job,            \* transfers
    Capacity,       \* COMMAND_QUEUE_CAPACITY
    History,        \* MESSAGE_HISTORY_CAPACITY
    MaxMessages     \* bound: failures that are recorded

VARIABLES
    queue,          \* commands submitted and not handled
    job,            \* job[j]: its row in the runtime, "absent" when it has none
    snapshot,       \* snapshot[j]: its state when the worker last published
    messages,       \* the history of failures, oldest first
    next_id,        \* next_message_id
    seen,           \* seen_message_ids
    shown,          \* shown[i]: how often message i was shown
    completed,      \* completed_jobs of the last poll
    baselined,      \* completion_baselined
    notified,       \* notified[j]: how often the completion of j was announced, and
                    \* once more if the first poll found it
    window          \* "open", "minimized", "quitting" or "closed"

vars == <<queue, job, snapshot, messages, next_id, seen, shown, completed,
          baselined, notified, window>>

ui == <<seen, shown, completed, baselined, notified>>

Message == 1..MaxMessages

\* Validation errors and cancellations stay beside their field
Operational(id) == id % 3 # 0

\* The states of a row that was restored from a record
Saved == {"paused", "complete", "failed"}

Init ==
    /\ queue = <<>>
    /\ job \in [Job -> {"absent"} \cup Saved]   \* Worker::new() restored what it found
    /\ snapshot = [j \in Job |-> "absent"]      \* initial_snapshot()
    /\ messages = <<>> /\ next_id = 0
    /\ seen = {} /\ shown = [i \in Message |-> 0]
    /\ completed = {} /\ baselined = FALSE
    /\ notified = [j \in Job |-> 0]
    /\ window = "open"

Active(states) == \E j \in Job: states[j] \in {"running", "pausing"}

-----------------------------------------------------------------------------
(* The worker *)

\* dispatch(): try_send
Dispatch(command) ==
    /\ window \in {"open", "minimized"}
    /\ Len(queue) < Capacity
    /\ queue' = Append(queue, command)
    /\ UNCHANGED <<job, snapshot, messages, next_id, ui, window>>

\* record_message(): the oldest one goes when the history is full
RecordMessage ==
    /\ next_id < MaxMessages
    /\ next_id' = next_id + 1
    /\ LET all == Append(messages, next_id') IN
        messages' = IF Len(all) > History THEN Tail(all) ELSE all

Shutdown == <<"shutdown">>
Reload == <<"reload">>
Command == (Job \X {"run", "pause", "discard"}) \cup {Shutdown, Reload}

\* What a command of kind k makes of a row in state s
Turned(k, s) ==
    CASE k = "run"     -> IF s \in {"absent", "paused"} THEN "running" ELSE s
      [] k = "pause"   -> IF s = "running" THEN "pausing" ELSE s
      [] k = "discard" -> IF s \in Saved THEN "discarded" ELSE s

\* reload_settings() restores the records that have no row: another program may have
\* left them, finished ones too
Apply(command) ==
    \/ /\ command = Shutdown
       /\ job' = [j \in Job |-> IF job[j] \in {"running", "pausing"} THEN "paused" ELSE job[j]]
    \/ /\ command = Reload
       /\ \E found \in [Job -> {"absent"} \cup Saved]:
             job' = [j \in Job |-> IF job[j] = "absent" THEN found[j] ELSE job[j]]
    \/ \E j \in Job, k \in {"run", "pause", "discard"}:
          command = <<j, k>> /\ job' = [job EXCEPT ![j] = Turned(k, @)]

\* handle(): a command takes effect or is recorded as a failure, and the worker
\* publishes what the runtime shows by then
Handle ==
    /\ queue # <<>> /\ window # "closed"
    /\ queue' = Tail(queue)
    /\ \/ Apply(Head(queue)) /\ UNCHANGED <<messages, next_id>>
       \/ RecordMessage /\ UNCHANGED job
    /\ snapshot' = job'
    /\ UNCHANGED <<ui, window>>

\* publish(): the first one of run(), and after 75 ms without a command
Publish ==
    /\ window # "closed"
    /\ snapshot' = job
    /\ UNCHANGED <<queue, job, messages, next_id, ui, window>>

\* A job ends in its own thread, and pauses only when it was asked to
JobEnds(j) ==
    /\ job[j] \in {"running", "pausing"}
    /\ \E s \in {"complete", "failed"} \cup (IF job[j] = "pausing" THEN {"paused"} ELSE {}):
          job' = [job EXCEPT ![j] = s]
    /\ UNCHANGED <<queue, snapshot, messages, next_id, ui, window>>

-----------------------------------------------------------------------------
(* The window *)

Ids == Range(messages)

\* take_operational_messages(): the ones not seen before
TakeMessages == Ids \ seen

\* What it remembers: ids the history still holds
Remembered == (seen \cap Ids) \cup TakeMessages

\* Completions since the last poll; none at the first one
NewlyCompleted(done) == IF baselined THEN done \ completed ELSE {}

\* One round of the loop every 200 ms
Poll ==
    /\ window \in {"open", "minimized"}
    /\ shown' = [i \in Message |->
                    shown[i] + (IF i \in TakeMessages /\ Operational(i) THEN 1 ELSE 0)]
    /\ seen' = Remembered
    /\ LET done == {j \in Job: snapshot[j] = "complete"} IN
        /\ notified' = [j \in Job |-> notified[j] + (IF j \in NewlyCompleted(done) THEN 1 ELSE 0)
                                               + (IF ~baselined /\ j \in done THEN 1 ELSE 0)]
        /\ completed' = done
    /\ baselined' = TRUE
    /\ UNCHANGED <<queue, job, snapshot, messages, next_id, window>>

\* on_window_should_close(): with an active transfer the window is only minimised
Close ==
    /\ window = "open"
    /\ window' = IF Active(snapshot) THEN "minimized" ELSE "quitting"
    /\ UNCHANGED <<queue, job, snapshot, messages, next_id, ui>>

\* The tray, the dock or another activation brings it back
Show ==
    /\ window = "minimized"
    /\ window' = "open"
    /\ UNCHANGED <<queue, job, snapshot, messages, next_id, ui>>

\* The menu, the shortcut and the tray quit whatever is active
Quit ==
    /\ window \in {"open", "minimized"}
    /\ window' = "quitting"
    /\ UNCHANGED <<queue, job, snapshot, messages, next_id, ui>>

\* on_app_quit(): the shutdown is submitted if there is room for it
SubmitShutdown ==
    /\ window = "quitting"
    /\ window' = "waiting"
    /\ queue' = IF Len(queue) < Capacity THEN Append(queue, Shutdown) ELSE queue
    /\ UNCHANGED <<job, snapshot, messages, next_id, ui>>

\* and the program ends when no transfer is shown as active, or after four seconds
End(timeout) ==
    /\ window = "waiting"
    /\ timeout \/ ~Active(snapshot)
    /\ window' = "closed"
    /\ UNCHANGED <<queue, job, snapshot, messages, next_id, ui>>

Next ==
    \/ \E command \in Command \ {Shutdown}: Dispatch(command)
    \/ Handle \/ Publish \/ Poll
    \/ Close \/ Show \/ Quit \/ SubmitShutdown
    \/ \E timeout \in BOOLEAN: End(timeout)
    \/ \E j \in Job: JobEnds(j)

Spec == Init /\ [][Next]_vars

-----------------------------------------------------------------------------
(* Properties *)

\* Every variable has its type.
TypeOK ==
    /\ queue \in Seq(Command) /\ Len(queue) <= Capacity
    /\ {job, snapshot} \subseteq
          [Job -> {"absent", "running", "pausing", "discarded"} \cup Saved]
    /\ messages \in Seq(Message) /\ Len(messages) <= History /\ next_id \in 0..MaxMessages
    /\ seen \subseteq Message /\ completed \subseteq Job /\ baselined \in BOOLEAN
    /\ shown \in [Message -> Nat] /\ notified \in [Job -> Nat]
    /\ window \in {"open", "minimized", "quitting", "waiting", "closed"}

\* A failure is shown at most once and never when it belongs beside its field; a
\* completion is announced at most once, and not at all when the first poll found it.
\* (One from before the start is announced if that poll came before the worker's first
\* publication, and so is one that a reload restores.)
AnnouncedOnce ==
    /\ \A i \in Message: shown[i] <= (IF Operational(i) THEN 1 ELSE 0)
    /\ \A j \in Job: notified[j] <= 1

=============================================================================
