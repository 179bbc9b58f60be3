------------------------------ MODULE TuiState ------------------------------
(***************************************************************************)
(* The full-screen command-line client (cli/tui, cli/tui/state): one       *)
(* thread reads keys and pastes and polls what runs beside it: at most one *)
(* transfer job, a thread that reads the clipboard and threads that run    *)
(* native actions.                                                         *)
(*                                                                         *)
(* A key goes to the first open layer (help, palette, form, prompt, job,   *)
(* receipt, search, editor, link fields) and to nothing behind it.  The    *)
(* editor shows either the standalone note or the note attached to the     *)
(* files; opening the second swaps the two drafts.  Text is represented by *)
(* the editor it was written in.                                           *)
(***************************************************************************)
EXTENDS Naturals, FiniteSets, FiniteSetsExt

CONSTANTS
    File,           \* files of the directory
    Image,          \* clipboard images
    Action,         \* the native actions of the palette
    MaxActions,     \* bound: native actions that are started
    MaxJobs,        \* bound: transfer jobs that are started
    None

VARIABLES
    running,        \* the screen is open
    mode, focus,
    help, palette, native, searching,
    attachment_mode, send_notes, note_editing,
    note,           \* what the editor shows
    attachment,     \* what is attached to an upload
    selected,       \* the queue
    clipboard_files,\* images of the queue, removed when dropped
    clipboard_result,
    service_result, \* the native action whose answer is awaited, or None
    thread,         \* thread[i]: the thread of native action i
    results,        \* what is printed on exit
    job, prompt, receipt,
    jobs            \* transfer jobs started

place == <<mode, focus>>
overlay == <<help, palette, native, searching>>
drafts == <<attachment_mode, send_notes, note_editing, note, attachment>>
queue == <<selected, clipboard_files>>
services == <<clipboard_result, service_result, thread, results>>
transfer == <<job, prompt, receipt, jobs>>

vars == <<running, mode, focus, help, palette, native, searching, attachment_mode, send_notes,
          note_editing, note, attachment, selected, clipboard_files, clipboard_result,
          service_result, thread, results, job, prompt, receipt, jobs>>

Mode == {"send", "receive", "transfers"}

Focus == {"browser", "queue", "action", "link", "destination", "jobs"}

Path == File \cup Image

\* NativeAction::fields(): how many fields the form of an action has
FieldCount(action) ==
    CASE action = "NoteCreate" -> 5
      [] action \in {"ContactAction", "Register"} -> 4
      [] action = "RecoveryReset" -> 3
      [] action \in {"ReceivingDefaults", "InboxSave", "NoteOpen", "InboxDownload",
                     "HistoryDelete", "HistoryExtend", "Login", "KeyPassword", "KeyImport"} -> 2
      [] action \in {"InboxDismiss", "HistoryList", "Recipient", "Revoke", "EndLive", "Verify",
                     "RecoveryRequest", "KeySelf", "KeyExport"} -> 1
      [] OTHER -> 0

Form(action) == [action |-> action, field |-> 0]

Job(kind, attached) ==
    [kind |-> kind, attached |-> attached, result |-> None, cancelled |-> FALSE, ask |-> "no"]

Init ==
    /\ running = TRUE
    /\ mode = "send" /\ focus = "browser"
    /\ help = FALSE /\ palette = FALSE /\ native = None /\ searching = FALSE
    /\ attachment_mode = FALSE /\ send_notes = FALSE /\ note_editing = FALSE
    /\ note = {} /\ attachment = {}
    /\ selected = {} /\ clipboard_files = {}
    /\ clipboard_result = None /\ service_result = None
    /\ thread = [i \in 1..MaxActions |-> "none"]
    /\ results = {}
    /\ job = None /\ prompt = FALSE /\ receipt = FALSE /\ jobs = 0

-----------------------------------------------------------------------------
(* Helpers of the state *)

Layers == <<"help", "palette", "native", "prompt", "job", "receipt", "searching", "editor",
            "fields", "main">>

Open(layer) ==
    CASE layer = "help" -> help
      [] layer = "palette" -> palette
      [] layer = "native" -> native # None
      [] layer = "prompt" -> prompt
      [] layer = "job" -> job # None
      [] layer = "receipt" -> receipt
      [] layer = "searching" -> searching
      [] layer = "editor" -> mode = "send" /\ send_notes /\ note_editing
      [] layer = "fields" -> mode = "receive" /\ focus \in {"link", "destination"}
      [] layer = "main" -> TRUE

\* key(): the first open layer takes the key
TakesKey(layer) ==
    /\ running
    /\ layer = Layers[Min({i \in DOMAIN Layers: Open(Layers[i])})]

CanPaste ==
    /\ mode = "send"
    /\ job = None /\ ~receipt /\ ~prompt /\ native = None
    /\ ~help /\ ~palette /\ ~searching
    /\ service_result = None

\* The editor holds the attached note while it is open; its text is written there
Written == IF attachment_mode THEN "attached" ELSE "note"

\* Faulty variant: a draft is left behind when the editor was closed for files
SwapForgotten ==
    /\ attachment_mode' = FALSE
    /\ UNCHANGED <<note, attachment>>

SwapBack ==
    /\ attachment_mode' = FALSE
    /\ note' = IF attachment_mode THEN attachment ELSE note
    /\ attachment' = IF attachment_mode THEN note ELSE attachment

\* paste_note(): the end of the text, or a refusal beyond 64 KiB
PasteNote(fits) ==
    IF fits
    THEN /\ note' = note \cup {Written}
         /\ send_notes' = TRUE /\ note_editing' = TRUE
         /\ UNCHANGED <<attachment_mode, attachment>>
    ELSE UNCHANGED drafts

SwitchMode(m) ==
    /\ mode' = m
    /\ focus' = CASE m = "send" -> "browser" [] m = "receive" -> "link" [] m = "transfers" -> "jobs"

NextFocus(reverse) ==
    LET order == CASE mode = "send" -> <<"browser", "queue", "action">>
                   [] mode = "receive" -> <<"link", "destination", "action">>
                   [] mode = "transfers" -> <<"jobs", "jobs", "jobs">>
        position == Min({i \in 1..3: order[i] = focus} \cup {3})
    IN focus' = order[((position - 1 + IF reverse THEN 2 ELSE 1) % 3) + 1]

\* begin(): what the last transfer showed is dropped
Begin(kind, attached) ==
    /\ jobs < MaxJobs
    /\ jobs' = jobs + 1
    /\ job' = Job(kind, attached)
    /\ receipt' = FALSE
    /\ UNCHANGED prompt

\* cancel(): the question goes away with the answer
Cancel ==
    /\ job' = [job EXCEPT !.cancelled = TRUE, !.ask = IF prompt THEN "no" ELSE @]
    /\ prompt' = FALSE
    /\ UNCHANGED <<receipt, jobs>>

Started == Cardinality({i \in DOMAIN thread: thread[i] # "none"})

\* run_native(): a transfer job for what transfers, a thread for the rest
RunNative(action, live) ==
    IF action \in {"Revoke", "EndLive", "InboxDownload"} \/ (action = "NoteCreate" /\ live)
    THEN /\ Begin(action, {})
         /\ UNCHANGED services
    ELSE /\ Started < MaxActions
         /\ thread' = [thread EXCEPT ![Started + 1] = "running"]
         /\ service_result' = Started + 1
         /\ UNCHANGED <<clipboard_result, results, job, prompt, receipt, jobs>>

-----------------------------------------------------------------------------
(* start() *)

Idle == clipboard_result = None /\ service_result = None

\* The attached note is kept and the files come back
KeepAttachment ==
    /\ Idle /\ mode = "send" /\ send_notes /\ attachment_mode
    /\ SwapBack
    /\ send_notes' = FALSE /\ note_editing' = FALSE
    /\ UNCHANGED <<running, place, overlay, queue, services, transfer>>

CreateNote(live) ==
    /\ Idle /\ mode = "send" /\ send_notes /\ ~attachment_mode
    /\ note # {}
    /\ RunNative("NoteCreate", live)
    /\ UNCHANGED <<running, place, overlay, drafts, queue>>

\* An empty queue takes the file at the cursor.  The instance's policy, the
\* session and the attached note may refuse.
StartUpload(file, refused) ==
    LET chosen == IF selected = {} THEN {file} \ {None} ELSE selected
    IN /\ Idle /\ mode = "send" /\ ~send_notes
       /\ selected' = chosen
       /\ IF chosen = {} \/ refused
          THEN UNCHANGED transfer
          ELSE Begin("upload", attachment)
       /\ UNCHANGED <<running, place, overlay, drafts, clipboard_files, services>>

StartDownload(refused) ==
    /\ Idle /\ mode = "receive"
    /\ IF refused # None
       THEN focus' = refused /\ UNCHANGED <<transfer, mode>>
       ELSE Begin("download", {}) /\ UNCHANGED place
    /\ UNCHANGED <<running, overlay, drafts, queue, services>>

ResumeSelected ==
    /\ mode = "transfers"
    /\ Begin("resume", {})
    /\ UNCHANGED <<running, place, overlay, drafts, queue, services>>

Start ==
    \/ KeepAttachment
    \/ \E live \in BOOLEAN: CreateNote(live)
    \/ \E file \in File \cup {None}, refused \in BOOLEAN: StartUpload(file, refused)
    \/ \E refused \in {None, "link", "destination"}: StartDownload(refused)

-----------------------------------------------------------------------------
(* key() *)

CtrlC ==
    /\ running
    /\ IF job # None
       THEN Cancel /\ UNCHANGED running
       ELSE running' = FALSE /\ UNCHANGED transfer
    /\ UNCHANGED <<place, overlay, drafts, queue, services>>

HelpKey ==
    /\ TakesKey("help") /\ help' = FALSE
    /\ UNCHANGED <<running, place, palette, native, searching, drafts, queue, services, transfer>>

PaletteKey ==
    /\ TakesKey("palette")
    /\ palette' = FALSE
    /\ native' \in {None} \cup {Form(a): a \in Action}
    /\ UNCHANGED <<running, place, help, searching, drafts, queue, services, transfer>>

NativeMove ==
    LET count == FieldCount(native.action)
    IN /\ TakesKey("native") /\ count > 0
       /\ \E field \in {(native.field + 1) % count, (native.field + count - 1) % count}:
             native' = [native EXCEPT !.field = field]
       /\ UNCHANGED <<running, place, help, palette, searching, drafts, queue, services, transfer>>

NativeClose ==
    /\ TakesKey("native") /\ native' = None
    /\ UNCHANGED <<running, place, help, palette, searching, drafts, queue, services, transfer>>

\* Enter on the last field.  What an inbox download asks of the service before
\* its job may fail, and that failure leaves key() and the screen.
NativeEnter(live, fails) ==
    /\ TakesKey("native") /\ native.field + 1 >= FieldCount(native.action)
    /\ fails => native.action = "InboxDownload"
    /\ native' = None
    /\ IF fails
       THEN running' = FALSE /\ UNCHANGED <<services, transfer>>
       ELSE RunNative(native.action, live) /\ UNCHANGED running
    /\ UNCHANGED <<place, help, palette, searching, drafts, queue>>

PromptKey(answered) ==
    /\ TakesKey("prompt")
    /\ IF answered
       THEN /\ prompt' = FALSE
            /\ job' = [job EXCEPT !.ask = "no"]
            /\ UNCHANGED <<receipt, jobs>>
       ELSE Cancel
    /\ UNCHANGED <<running, place, overlay, drafts, queue, services>>

\* Beside the preview of a received note, a running job leaves help and copy
JobKey ==
    /\ TakesKey("job")
    /\ help' = TRUE
    /\ UNCHANGED <<running, place, palette, native, searching, drafts, queue, services, transfer>>

ReceiptKey ==
    /\ TakesKey("receipt")
    /\ \/ running' = FALSE /\ UNCHANGED <<place, selected, receipt>>
       \/ /\ receipt' = FALSE
          /\ selected' = {}
          /\ SwitchMode(mode)
          /\ UNCHANGED running
    /\ UNCHANGED <<overlay, drafts, clipboard_files, services, job, prompt, jobs>>

SearchKey ==
    /\ TakesKey("searching") /\ searching' = FALSE
    /\ UNCHANGED <<running, place, help, palette, native, drafts, queue, services, transfer>>

\* Nothing is typed while a native action runs
EditorKey ==
    /\ TakesKey("editor") /\ service_result = None
    /\ \/ note' = note \cup {Written} /\ UNCHANGED note_editing
       \/ note_editing' = FALSE /\ UNCHANGED note
    /\ UNCHANGED <<running, place, overlay, attachment_mode, send_notes, attachment, queue, services,
                   transfer>>

EditorStart == TakesKey("editor") /\ service_result = None /\ Start

FieldsKey ==
    /\ TakesKey("fields")
    /\ \/ \E reverse \in BOOLEAN: NextFocus(reverse)
       \/ focus' = "action"
       \/ focus = "link" /\ focus' = "destination"
    /\ UNCHANGED <<running, mode, overlay, drafts, queue, services, transfer>>

FieldsStart == TakesKey("fields") /\ focus = "destination" /\ Start

MainStart == TakesKey("main") /\ Start

ReadClipboard ==
    /\ TakesKey("main") /\ CanPaste /\ clipboard_result = None
    /\ clipboard_result' = "reading"
    /\ UNCHANGED <<running, place, overlay, drafts, queue, service_result, thread, results, transfer>>

\* n
ToggleNotes ==
    /\ TakesKey("main") /\ mode = "send"
    /\ SwapBack
    /\ send_notes' = ~send_notes
    /\ note_editing' = FALSE
    /\ UNCHANGED <<running, place, overlay, queue, services, transfer>>

\* a
EditAttachment ==
    /\ TakesKey("main") /\ mode = "send" /\ ~send_notes
    /\ note' = attachment /\ attachment' = note
    /\ attachment_mode' = TRUE /\ send_notes' = TRUE /\ note_editing' = TRUE
    /\ UNCHANGED <<running, place, overlay, queue, services, transfer>>

\* e, Tab
EditNote ==
    /\ TakesKey("main") /\ mode = "send" /\ send_notes
    /\ note_editing' = TRUE
    /\ UNCHANGED <<running, place, overlay, attachment_mode, send_notes, note, attachment, queue,
                   services, transfer>>

Quit ==
    /\ TakesKey("main") /\ running' = FALSE
    /\ UNCHANGED <<place, overlay, drafts, queue, services, transfer>>

OpenOverlay ==
    /\ TakesKey("main")
    /\ \/ help' = TRUE /\ UNCHANGED palette
       \/ palette' = TRUE /\ UNCHANGED help
    /\ UNCHANGED <<running, place, native, searching, drafts, queue, services, transfer>>

ChangeMode ==
    /\ TakesKey("main")
    /\ \/ \E m \in Mode: SwitchMode(m)
       \/ \E reverse \in BOOLEAN: NextFocus(reverse) /\ UNCHANGED mode
    /\ UNCHANGED <<running, overlay, drafts, queue, services, transfer>>

BeginUpdate ==
    /\ TakesKey("main")
    /\ Begin("update", {})
    /\ UNCHANGED <<running, place, overlay, drafts, queue, services>>

MainResume == TakesKey("main") /\ ResumeSelected

\* browser_key(): the browser selects, the queue removes, / searches
BrowserKey ==
    /\ TakesKey("main") /\ mode = "send" /\ ~send_notes
    /\ \/ /\ focus # "queue"
          /\ \E file \in File: selected' = IF file \in selected THEN selected \ {file}
                                                               ELSE selected \cup {file}
          /\ UNCHANGED <<searching, focus>>
       \/ /\ focus = "queue"
          /\ \E path \in selected: selected' = selected \ {path}
          /\ UNCHANGED <<searching, focus>>
       \/ /\ focus # "queue"
          /\ searching' = TRUE /\ focus' = "browser"
          /\ UNCHANGED selected
    /\ UNCHANGED <<running, mode, help, palette, native, drafts, clipboard_files, services, transfer>>

\* paste(): a bracketed paste of the terminal into the draft
PasteDraft(fits) ==
    /\ running /\ CanPaste
    /\ IF send_notes /\ note_editing
       THEN /\ note' = IF fits THEN note \cup {Written} ELSE note
            /\ UNCHANGED <<attachment_mode, send_notes, note_editing, attachment>>
       ELSE PasteNote(fits)
    /\ UNCHANGED <<running, place, overlay, queue, services, transfer>>

-----------------------------------------------------------------------------
(* What runs beside the screen, until the process ends *)

ClipboardRead(content) ==
    /\ running /\ clipboard_result = "reading"
    /\ clipboard_result' = content
    /\ UNCHANGED <<running, place, overlay, drafts, queue, service_result, thread, results, transfer>>

ActionEnds(i) ==
    /\ running /\ thread[i] = "running"
    /\ thread' \in {[thread EXCEPT ![i] = answer]: answer \in {"ok", "error"}}
    /\ UNCHANGED <<running, place, overlay, drafts, queue, clipboard_result, service_result, results,
                   transfer>>

JobAsks ==
    /\ job # None
    /\ job.result = None /\ job.ask = "no"
    /\ job' = [job EXCEPT !.ask = "posted"]
    /\ UNCHANGED <<running, place, overlay, drafts, queue, services, prompt, receipt, jobs>>

\* A job that asked waits for the answer; a cancelled one ends without it
JobEnds(result) ==
    /\ job # None
    /\ job.result = None
    /\ result = "ok" => job.ask = "no"
    /\ job' = [job EXCEPT !.result = result]
    /\ UNCHANGED <<running, place, overlay, drafts, queue, services, prompt, receipt, jobs>>

\* receive(), first the clipboard: text for the editor, an image for the queue
Delivered == clipboard_result \in {"text", "image", "error"}

TakeText == Delivered /\ CanPaste /\ clipboard_result = "text"

TakeImage == Delivered /\ CanPaste /\ clipboard_result = "image"

\* An image that nothing in the queue names is removed, never under a job
Kept(files, chosen) == IF job = None THEN files \cap chosen ELSE files

ReceiveImage(image) ==
    /\ SwapBack
    /\ send_notes' = FALSE /\ note_editing' = FALSE
    /\ selected' = selected \cup {image}
    /\ clipboard_files' = Kept(clipboard_files \cup {image}, selected \cup {image})
    /\ focus' = "queue"

ReceiveText(fits) ==
    /\ PasteNote(fits)
    /\ clipboard_files' = Kept(clipboard_files, selected)
    /\ UNCHANGED <<selected, focus>>

\* then the native action
Answer == IF service_result = None THEN "none" ELSE thread[service_result]

\* then the job: its question, or its result
ReceiveJob ==
    IF job = None THEN UNCHANGED <<job, prompt, receipt>>
    ELSE IF job.result # None
    THEN job' = None /\ prompt' = FALSE /\ receipt' = TRUE
    ELSE /\ prompt' = (prompt \/ job.ask = "posted")
         /\ job' = [job EXCEPT !.ask = IF @ = "posted" THEN "shown" ELSE @]
         /\ UNCHANGED receipt

JobResult == IF job = None THEN {} ELSE IF job.result = "ok" THEN {0} ELSE {}

Receive(image, fits) ==
    /\ running
    /\ CASE TakeText -> ReceiveText(fits)
         [] TakeImage -> ReceiveImage(image)
         [] OTHER -> /\ clipboard_files' = Kept(clipboard_files, selected)
                     /\ UNCHANGED <<drafts, selected, focus>>
    /\ clipboard_result' = IF Delivered THEN None ELSE clipboard_result
    /\ service_result' = IF Answer \in {"ok", "error"} THEN None ELSE service_result
    /\ results' = results \cup JobResult \cup (IF Answer = "ok" THEN {service_result} ELSE {})
    /\ ReceiveJob
    /\ UNCHANGED <<running, mode, overlay, thread, jobs>>

\* The terminal's signal: the job is cancelled or the screen closes
Interrupted ==
    /\ running
    /\ IF job # None
       THEN job' = [job EXCEPT !.cancelled = TRUE] /\ UNCHANGED <<running, prompt, receipt, jobs>>
       ELSE running' = FALSE /\ UNCHANGED transfer
    /\ UNCHANGED <<place, overlay, drafts, queue, services>>

-----------------------------------------------------------------------------

Next ==
    \/ CtrlC \/ HelpKey \/ PaletteKey \/ NativeMove \/ NativeClose \/ JobKey \/ ReceiptKey
    \/ \E live, fails \in BOOLEAN: NativeEnter(live, fails)
    \/ \E answered \in BOOLEAN: PromptKey(answered)
    \/ SearchKey \/ EditorKey \/ EditorStart \/ FieldsKey \/ FieldsStart
    \/ MainStart \/ ReadClipboard \/ ToggleNotes \/ EditAttachment \/ EditNote \/ Quit
    \/ OpenOverlay \/ ChangeMode \/ BeginUpdate \/ MainResume \/ BrowserKey
    \/ \E fits \in BOOLEAN: PasteDraft(fits)
    \/ \E content \in {"text", "image", "error"}: ClipboardRead(content)
    \/ \E i \in DOMAIN thread: ActionEnds(i)
    \/ JobAsks
    \/ \E result \in {"ok", "error"}: JobEnds(result)
    \/ \E image \in Image, fits \in BOOLEAN: Receive(image, fits)
    \/ Interrupted

Spec == Init /\ [][Next]_vars

-----------------------------------------------------------------------------

\* Every variable has its type
TypeOK ==
    /\ {running, help, palette, searching, attachment_mode, send_notes, note_editing, prompt,
        receipt} \subseteq BOOLEAN
    /\ mode \in Mode /\ focus \in Focus
    /\ native \in {None} \cup [action: Action, field: 0..4]
    /\ note \subseteq {"note", "attached"} /\ attachment \subseteq {"note", "attached"}
    /\ selected \subseteq Path /\ clipboard_files \subseteq Image
    /\ clipboard_result \in {None, "reading", "text", "image", "error"}
    /\ service_result \in {None} \cup 1..MaxActions
    /\ thread \in [1..MaxActions -> {"none", "running", "ok", "error"}]
    /\ jobs \in 0..MaxJobs

\* What was written as the attached note never leaves as a note of its own, and
\* a standalone draft is never attached to an upload: however the editors were
\* opened and left, and wherever a late answer of the clipboard went
DraftsApart ==
    /\ attachment_mode => send_notes
    /\ note \subseteq {Written}
    /\ attachment \subseteq {"note", "attached"} \ {Written}
    /\ job # None => job.attached \subseteq {"attached"}

\* While a job runs nothing hides its question or starts another over it, an
\* image of its upload is not removed, and the screen does not close under it
JobInForeground ==
    job # None =>
        /\ running
        /\ ~palette /\ native = None /\ ~searching /\ ~receipt
        /\ job.kind = "upload" => selected \cap Image \subseteq clipboard_files
=============================================================================
