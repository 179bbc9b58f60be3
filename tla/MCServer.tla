------------------------------ MODULE MCServer ------------------------------
(***************************************************************************)
(* Small instances of the server and of the command line for TLC, checked  *)
(* one at a time: a behaviour is one of the component that part names.     *)
(* Staged uploads are checked with two rival ciphertexts and two parts;    *)
(* chunk publication with one copy of each chunk and commits whose answer  *)
(* is lost; the terminal and the command with one file or note.            *)
(***************************************************************************)
EXTENDS ChunkStage, TLC

CONSTANTS x1, x2, x3

\* Requests and handlers are alike, and so are attempts and the rival ciphertexts
Symmetry == Permutations(Handler) \cup Permutations(Content)

VARIABLES
  part,  \* the component this behaviour is one of
  v1, v2, v3, v4, v5, v6, v7, v8, v9, v10, v11, v12, v13, v14, v15, v16, v17, v18, v19, v20, v21, v22

otherVars ==
  <<v1, v2, v3, v4, v5, v6, v7, v8, v9, v10, v11, v12, v13, v14, v15, v16, v17, v18, v19, v20, v21, v22>>

serverVars == <<part, vars, otherVars>>

Distribute == INSTANCE TransferStore WITH
  Position <- {x1}, Store <- {1, 2}, Content <- {x2}, Manifest <- {x2}, Request <- Handler,
  Attempt <- Content, Reaper <- {x3}, Worker <- {x3}, MaxJobs <- 1, Mode <- "distribute",
  WritesBounded <- TRUE, LostCommitAck <- TRUE, status <- v1, expired <- v2, stale <- v3,
  manifest <- v4, chunk <- v5, counted <- v6, location <- v7, row <- v8, object <- v9,
  req <- v10, reaper <- v11, jobs <- v12, worker <- v13
Terminal == INSTANCE TuiState WITH
  File <- {x1}, Image <- {x2}, Action <- {"InboxDownload"}, MaxActions <- 1, MaxJobs <- 1,
  running <- v1, mode <- v2, focus <- v3, help <- v4, palette <- v5, native <- v6,
  searching <- v7, attachment_mode <- v8, send_notes <- v9, note_editing <- v10,
  note <- v11, attachment <- v12, selected <- v13, clipboard_files <- v14,
  clipboard_result <- v15, service_result <- v16, thread <- v17, results <- v18, job <- v19,
  prompt <- v20, receipt <- v21, jobs <- v22
Inline == INSTANCE InlineCommand WITH
  Requests <- {"upload", "download", "inbox", "live", "turbo"}, request <- v1, opts <- v2,
  worker <- v3, outcome <- v4, cancelled <- v5, events <- v6, emitted <- v7, prompt <- v8,
  note <- v9, step <- v10, polled <- v11, announced <- v12, note_shown <- v13,
  printed <- v14, saved <- v15, surface <- v16, raw <- v17, exit <- v18

\* The component a behaviour is not about stays in its first state
ServerInit ==
  /\ Init
  /\ \/ part \in {"stage", "distribute"} /\ Distribute!Init
     \/ part = "terminal" /\ Terminal!Init
     \/ part = "command" /\ Inline!Init
  /\ IF part \in {"terminal", "command"} THEN TRUE
     ELSE v14 = None /\ v15 = None /\ v16 = None /\ v17 = None /\ v18 = None
  /\ IF part = "terminal" THEN TRUE ELSE v19 = None /\ v20 = None /\ v21 = None /\ v22 = None

\* Bound: rivals send whole chunks, and halves are sent while there is no rival
WholeParts == \A h \in Handler : proc[h].part # None => proc[h].part.size = Size
NoRival ==
  \E v \in Content :
    /\ chunk \in {None, v} /\ \A u \in Upload : declared[u] \in {None, v}
    /\ \A h \in Handler : proc[h].part # None => proc[h].part.content = v

ServerNext ==
  \/ part = "stage" /\ Next /\ (WholeParts \/ NoRival)' /\ UNCHANGED <<part, otherVars>>
  \/ part = "distribute" /\ Distribute!Next /\ UNCHANGED <<part, vars, v14, v15, v16, v17, v18, v19, v20, v21, v22>>
  \/ part = "terminal" /\ Terminal!Next /\ UNCHANGED <<part, vars>>
  \/ part = "command" /\ Inline!Next /\ UNCHANGED <<part, vars, v19, v20, v21, v22>>

ServerSpec == ServerInit /\ [][ServerNext]_serverVars

-----------------------------------------------------------------------------
\* ChunkPublication::publish() and reapUploadAttempts(): one copy of a chunk in all,
\* concurrent attempts keep the first destination, and an attempt or a location names
\* every object, also when the answer to a commit is lost.
DistributionExact == part = "distribute" => Distribute!DistributionExact

\* state.rs and inline.rs of the CLI: drafts stay apart and a job keeps the foreground;
\* results are printed once and the terminal is given back.
TerminalSafe ==
  /\ part = "terminal" =>
       /\ Terminal!TypeOK /\ Terminal!DraftsApart /\ Terminal!JobInForeground
  /\ part = "command" =>
       /\ Inline!TypeOK
       /\ Inline!ResultsPrintedOnce /\ Inline!TerminalRestored
=============================================================================
