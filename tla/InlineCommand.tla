---------------------------- MODULE InlineCommand ----------------------------
(***************************************************************************)
(* One command of the terminal client (cli/inline, cli/app, cli/terminal):  *)
(* a worker thread runs the request and talks to the command's loop over   *)
(* four channels (progress, events, prompts and the result), the loop      *)
(* repaints a two-line surface, asks what the worker asks and prints each  *)
(* result; the user types, and interrupts at any moment.                   *)
(*                                                                         *)
(* An upload yields one link and a download one path, both the same value  *)
(* here; a live share, a Turbo upload and a live note announce their link  *)
(* before they end.                                                        *)
(***************************************************************************)
EXTENDS Naturals, Sequences

CONSTANTS
    Requests,       \* the kinds of request
    None

VARIABLES
    request,        \* [kind, note_output]
    opts,           \* [plain, stdin, stderr, accept]: flags and terminals
    worker,         \* "running", "asking" or "ended"
    outcome,        \* what is in the result channel, or None
    cancelled,      \* control.cancelled
    events,         \* announced links not yet received
    emitted,        \* the worker announced the link
    prompt,         \* None, or the prompt in the channel
    note,           \* the worker read an attached note
    step,           \* where the loop is
    polled,         \* the outcome this iteration took
    announced,      \* the link was announced to the user
    note_shown,
    printed,        \* how often the link or the path was printed
    saved,          \* the note was written where --note-output says
    surface,        \* the progress surface is on the screen
    raw,            \* the terminal is in raw mode
    exit            \* how the command ended, or None

vars == <<request, opts, worker, outcome, cancelled, events, emitted, prompt, note, step, polled,
          announced, note_shown, printed, saved, surface, raw, exit>>
job == <<worker, outcome, events, emitted, note, saved>>
screen == <<announced, note_shown, printed, surface>>

Download == request.kind \in {"download", "inbox"}

Live == request.kind \in {"live", "turbo"}

\* --note-output belongs to downloads
Init ==
    /\ request \in [kind: Requests, note_output: BOOLEAN]
    /\ request.note_output => Download
    /\ opts \in [plain: BOOLEAN, stdin: BOOLEAN, stderr: BOOLEAN, accept: BOOLEAN]
    /\ worker = "running" /\ outcome = None /\ cancelled = FALSE
    /\ events = <<>> /\ emitted = FALSE /\ prompt = None /\ note = FALSE
    /\ step = "poll" /\ polled = None /\ announced = FALSE /\ note_shown = FALSE
    /\ printed = 0 /\ saved = FALSE /\ surface = FALSE /\ raw = FALSE /\ exit = None

Interactive == ~opts.plain /\ opts.stderr

Running == exit = None

-----------------------------------------------------------------------------
(* The worker *)

\* emit(): a listener that is gone never affects the transfer
Emit ==
    /\ Running /\ worker = "running" /\ Live /\ ~emitted
    /\ emitted' = TRUE
    /\ events' = Append(events, "link")
    /\ UNCHANGED <<request, opts, worker, outcome, cancelled, prompt, note, saved, step, polled,
                   raw, exit, screen>>

SetAttachedNote ==
    /\ Running /\ worker = "running" /\ Download /\ ~note
    /\ note' = TRUE
    /\ UNCHANGED <<request, opts, worker, outcome, cancelled, events, emitted, prompt, saved, step,
                   polled, raw, exit, screen>>

\* What the worker may ask for
Asked == IF Download THEN {"secret", "consent"} ELSE IF request.kind = "upload" THEN {"directory"} ELSE {}

Ask(kind) ==
    /\ Running /\ worker = "running" /\ prompt = None /\ kind \in Asked
    /\ worker' = "asking"
    /\ prompt' = kind
    /\ UNCHANGED <<request, opts, outcome, cancelled, events, emitted, note, saved, step, polled,
                   raw, exit, screen>>

\* export_attached_note(): after the files; a file that exists is not replaced
NoteExport(free) ==
    IF ~request.note_output THEN "none"
    ELSE IF note /\ free THEN "written" ELSE "failed"

\* The outcome of a worker that failed after cancellation is the cancellation
Ends(how) ==
    /\ worker' = "ended"
    /\ outcome' = IF how = "ok" THEN "ok" ELSE IF cancelled THEN "cancelled" ELSE "failed"

Finish(how, free) ==
    /\ Running /\ worker = "running"
    /\ how = "ok" => (Live => emitted)
    /\ saved' = (how = "ok" /\ NoteExport(free) = "written")
    /\ Ends(IF NoteExport(free) = "failed" THEN "failed" ELSE how)
    /\ UNCHANGED <<request, opts, cancelled, events, emitted, prompt, note, step, polled, raw, exit,
                   screen>>

\* check(): a live note that is interrupted ends well
Notice ==
    /\ Running /\ worker \in {"running", "asking"} /\ cancelled
    /\ Ends(IF Live /\ emitted THEN "ok" ELSE "failed")
    /\ UNCHANGED <<request, opts, cancelled, events, emitted, prompt, note, saved, step, polled,
                   raw, exit, screen>>

-----------------------------------------------------------------------------
(* The loop of the command *)

AtStep(s) == Running /\ step = s

\* The command ends; its guards restore the screen and the terminal
Exit(how) ==
    /\ exit' = how
    /\ surface' = FALSE
    /\ raw' = FALSE

Poll ==
    /\ AtStep("poll")
    /\ polled' = outcome
    /\ step' = "note"
    /\ UNCHANGED <<request, opts, job, cancelled, prompt, raw, exit, screen>>

ShowNote ==
    /\ AtStep("note")
    /\ LET show == Interactive /\ ~note_shown /\ note IN
       /\ note_shown' = (note_shown \/ show)
       /\ surface' = (surface /\ ~show)
    /\ step' = "events"
    /\ UNCHANGED <<request, opts, job, cancelled, prompt, polled, announced, printed, raw, exit>>

\* Every event that is there; a link is printed the first time only
Drain ==
    /\ AtStep("events")
    /\ LET new == events # <<>> /\ ~announced IN
       /\ announced' = (announced \/ new)
       /\ printed' = printed + (IF new THEN 1 ELSE 0)
       /\ surface' = (surface /\ ~new)
    /\ events' = <<>>
    /\ step' = IF polled = None THEN "prompt" ELSE "finish"
    /\ UNCHANGED <<request, opts, worker, outcome, emitted, note, saved, cancelled, prompt, polled,
                   note_shown, raw, exit>>

\* The values left to print: a link that was announced is not among them
Filter == IF announced THEN 0 ELSE 1

\* A cancelled command says what can be resumed, and fails
Finished ==
    /\ AtStep("finish")
    /\ step' = "ended"
    /\ printed' = printed + (IF polled = "ok" THEN Filter ELSE 0)
    /\ Exit(IF polled = "ok" THEN "ok" ELSE "failed")
    /\ UNCHANGED <<request, opts, job, cancelled, prompt, polled, announced, note_shown>>

\* Nothing asked: repaint
Draw ==
    /\ AtStep("prompt") /\ prompt = None
    /\ surface' = Interactive
    /\ step' = "poll"
    /\ UNCHANGED <<request, opts, job, cancelled, prompt, polled, announced, note_shown, printed,
                   raw, exit>>

\* Consent that was given on the command line is not asked for
Consented == prompt = "consent" /\ opts.accept

Reply ==
    /\ prompt' = None
    /\ worker' = IF worker = "asking" THEN "running" ELSE worker

\* A prompt without a terminal ends the command; the worker is told to stop
Unanswerable ==
    /\ AtStep("prompt") /\ prompt # None /\ ~Consented /\ ~opts.stdin
    /\ cancelled' = TRUE
    /\ step' = "ended"
    /\ Exit("failed")
    /\ UNCHANGED <<request, opts, job, prompt, polled, announced, note_shown, printed>>

AcceptConsent ==
    /\ AtStep("prompt") /\ Consented
    /\ Reply
    /\ surface' = FALSE
    /\ step' = "poll"
    /\ UNCHANGED <<request, opts, outcome, events, emitted, note, saved, cancelled, polled, raw,
                   exit, announced, note_shown, printed>>

\* Session::enter() or plain_input(): a choice of directories has a surface of its own
OpenPrompt ==
    /\ AtStep("prompt") /\ prompt # None /\ ~Consented /\ opts.stdin
    /\ step' = "asked"
    /\ raw' = TRUE
    /\ surface' = (prompt = "directory")
    /\ UNCHANGED <<request, opts, job, cancelled, prompt, polled, exit, announced, note_shown,
                   printed>>

\* Enter for a secret or a choice, y for consent
Answer ==
    /\ AtStep("asked") /\ ~cancelled
    /\ Reply
    /\ raw' = FALSE /\ surface' = FALSE
    /\ step' = "poll"
    /\ UNCHANGED <<request, opts, outcome, events, emitted, note, saved, cancelled, polled, exit,
                   announced, note_shown, printed>>

\* Escape or Ctrl-C in a prompt, or an interrupt while it waits
LeavePrompt ==
    /\ AtStep("asked")
    /\ cancelled' = TRUE
    /\ step' = "ended"
    /\ Exit("failed")
    /\ UNCHANGED <<request, opts, job, prompt, polled, announced, note_shown, printed>>

\* Masked input: Enter sends it, Escape and Ctrl-C cancel
PromptSecret == prompt = "secret" /\ (Answer \/ LeavePrompt)

\* y alone consents; anything that declines cancels
PromptPeerConsent == prompt = "consent" /\ (Answer \/ LeavePrompt)

\* The arrows choose between an archive and individual files, redrawn each time
PromptDirectory == prompt = "directory" /\ (Answer \/ LeavePrompt)

-----------------------------------------------------------------------------

\* watch_interrupt(): the handler sets every registered flag
Interrupt ==
    /\ Running /\ ~cancelled
    /\ cancelled' = TRUE
    /\ UNCHANGED <<request, opts, job, prompt, step, polled, raw, exit, screen>>

\* The panic hook restores the terminal; the dropped sender is an outcome
WorkerPanics ==
    /\ Running /\ worker = "running"
    /\ worker' = "ended" /\ outcome' = "failed"
    /\ raw' = FALSE
    /\ UNCHANGED <<request, opts, cancelled, events, emitted, prompt, note, saved, step, polled,
                   exit, screen>>

Next ==
    \/ Emit \/ SetAttachedNote \/ Notice \/ WorkerPanics
    \/ \E kind \in {"secret", "consent", "directory"}: Ask(kind)
    \/ \E how \in {"ok", "failed"}, free \in BOOLEAN: Finish(how, free)
    \/ Poll \/ ShowNote \/ Drain \/ Finished \/ Draw
    \/ Unanswerable \/ AcceptConsent \/ OpenPrompt
    \/ PromptSecret \/ PromptPeerConsent \/ PromptDirectory
    \/ Interrupt

Spec == Init /\ [][Next]_vars

-----------------------------------------------------------------------------

\* Every variable has its type
TypeOK ==
    /\ request \in [kind: Requests, note_output: BOOLEAN]
    /\ opts \in [plain: BOOLEAN, stdin: BOOLEAN, stderr: BOOLEAN, accept: BOOLEAN]
    /\ worker \in {"running", "asking", "ended"} /\ outcome \in {None, "ok", "failed", "cancelled"}
    /\ events \in Seq({"link"}) /\ prompt \in {None, "secret", "consent", "directory"}
    /\ step \in {"poll", "note", "events", "prompt", "asked", "finish", "ended"}
    /\ polled \in {None, "ok", "failed", "cancelled"} /\ printed \in Nat
    /\ exit \in {None, "ok", "failed"}
    /\ {cancelled, emitted, note, announced, note_shown, saved, surface, raw} \subseteq BOOLEAN

\* Scripts read the links from the standard output: each is printed once whichever
\* of the announcement and the result the loop sees first, and a command that
\* succeeds has printed it, shown the note it read and saved the note it was
\* asked for
ResultsPrintedOnce ==
    /\ printed <= 1
    /\ exit = "ok" =>
          /\ printed = 1
          /\ note /\ Interactive => note_shown
          /\ request.note_output => saved

\* However the command ends, the shell gets its terminal and cursor back
TerminalRestored == exit # None => ~raw /\ ~surface
=============================================================================
