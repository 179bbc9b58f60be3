--------------------------- MODULE DesktopReceive ---------------------------
(***************************************************************************)
(* Receiving files in the desktop application (desktop/client over         *)
(* client-core application): a receive is prepared, its items chosen, the  *)
(* files are downloaded into a private directory, and then exported to a   *)
(* folder of the user's; a journal remembers what was exported.  Notes     *)
(* that must still be burnt are kept in memory for a retry.                *)
(*                                                                         *)
(* A preparation and the download after it are two rows that share one     *)
(* checkpoint: either may be discarded, and the checkpoint goes with it.   *)
(*                                                                         *)
(* The worker thread handles one command at a time, service jobs run       *)
(* beside it, other programs use the folder, and the program may end       *)
(* between any two steps.  Checkpoints and the journal are on disk; the    *)
(* rows, the prepared receives, the private roots and the notes are not.   *)
(***************************************************************************)
EXTENDS Naturals

CONSTANTS
    Transfer,   \* receives, by checkpoint
    Items,      \* Items[t]: the names of the files of t
    Retry,      \* jobs that retry the burn of a note
    None,
    Foreign     \* another program's file

VARIABLES
    checkpoint, \* checkpoint[t] on disk: None, or its state and the items chosen
    prepared,   \* prepared[t]: None, or the items the preview shows
    prep,       \* prep[t]: the row of its preparation
    row,        \* row[t]: the row of its download, with the files it has verified
    root,       \* rows whose private directory the worker knows
    journal,    \* the exports the worker remembers
    saved,      \* the exports in the journal on disk
    folder,     \* folder[n]: the file of that name in the user's folder
    export,     \* the export in progress
    burn        \* the burn of an opened note: [held, offered, requests]

vars == <<checkpoint, prepared, prep, row, root, journal, saved, folder, export, burn>>

Name == UNION {Items[t]: t \in Transfer}

RowOf(state, exported, items) == [state |-> state, export |-> exported, items |-> items]

NoRow == RowOf("none", "none", {})

Init ==
    /\ checkpoint = [t \in Transfer |-> None]
    /\ prepared = [t \in Transfer |-> None]
    /\ prep = [t \in Transfer |-> "none"]
    /\ row = [t \in Transfer |-> NoRow]
    /\ root = {}
    /\ journal = {} /\ saved = {}
    /\ folder = [n \in Name |-> None]
    /\ export = None
    /\ burn = [held |-> FALSE, offered |-> FALSE, requests |-> {}]

Idle == export = None

Entry(state, items) == [state |-> state, items |-> items]

-----------------------------------------------------------------------------
(* Preparing and downloading *)

\* A checkpoint gets a name of its own
Fresh(t) ==
    /\ checkpoint[t] = None /\ prepared[t] = None /\ prep[t] = "none" /\ row[t] = NoRow
    /\ t \notin root \cup journal \cup saved

\* inspect_receive(): a service job prepares the checkpoint, then shows its items
Prepare(t) ==
    /\ Idle /\ Fresh(t)
    /\ checkpoint' = [checkpoint EXCEPT ![t] = Entry("prepared", Items[t])]
    /\ prep' = [prep EXCEPT ![t] = "running"]
    /\ UNCHANGED <<prepared, row, root, journal, saved, folder, export, burn>>

\* The row of the job stays when it ends
Prepared(t, read) ==
    /\ prep[t] = "running"
    /\ prepared' = [prepared EXCEPT ![t] = IF read THEN checkpoint[t].items ELSE None]
    /\ prep' = [prep EXCEPT ![t] = "ended"]
    /\ UNCHANGED <<checkpoint, row, root, journal, saved, folder, export, burn>>

\* select_receive_items(): the checkpoint first, whose choice is then frozen, then the
\* preview, of whose items the user chooses some
SelectItems(t, items) ==
    /\ Idle /\ prepared[t] # None
    /\ IF checkpoint[t] = None THEN FALSE ELSE checkpoint[t].state = "prepared"
    /\ items \subseteq prepared[t]
    /\ checkpoint' = [checkpoint EXCEPT ![t] = Entry("selected", items)]
    /\ prepared' = [prepared EXCEPT ![t] = @ \cap items]
    /\ UNCHANGED <<prep, row, root, journal, saved, folder, export, burn>>

\* start_prepared_receive(): the preview is gone even when the resume is refused
StartPrepared(t) ==
    /\ Idle /\ prepared[t] # None
    /\ prepared' = [prepared EXCEPT ![t] = None]
    /\ \/ UNCHANGED <<checkpoint, row, root>>
       \/ /\ checkpoint[t] # None
          /\ checkpoint' = [checkpoint EXCEPT ![t].state = "running"]
          /\ row' = [row EXCEPT ![t] = RowOf("running", "none", {})]
          /\ root' = root \cup {t}
    /\ UNCHANGED <<prep, journal, saved, folder, export, burn>>

\* The download ends: every item is verified and published in the private
\* directory, and the row waits for a destination
Complete(t) ==
    /\ row[t].state = "running"
    /\ checkpoint' = [checkpoint EXCEPT ![t].state = "complete"]
    /\ row' = [row EXCEPT ![t] = RowOf("complete", "awaiting", checkpoint[t].items)]
    /\ UNCHANGED <<prepared, prep, root, journal, saved, folder, export, burn>>

\* It stops: a row that was paused can be resumed, one that failed cannot
Stop(t, state) ==
    /\ row[t].state = "running"
    /\ row' = [row EXCEPT ![t] = RowOf(state, "none", {})]
    /\ UNCHANGED <<checkpoint, prepared, prep, root, journal, saved, folder, export, burn>>

\* Resume is refused where the checkpoint is gone
Resume(t) ==
    /\ Idle /\ row[t].state = "paused" /\ checkpoint[t] # None
    /\ checkpoint' = [checkpoint EXCEPT ![t].state = "running"]
    /\ row' = [row EXCEPT ![t] = RowOf("running", "none", {})]
    /\ UNCHANGED <<prepared, prep, root, journal, saved, folder, export, burn>>

\* The checkpoint, then the journal, whose save may fail
Discarded(t) ==
    /\ checkpoint' = [checkpoint EXCEPT ![t] = None]
    /\ journal' = journal \ {t}
    /\ saved' \in {saved, journal'}

\* Discard of a download that has ended
Discard(t) ==
    /\ Idle /\ row[t].state \in {"paused", "failed", "complete"}
    /\ Discarded(t)
    /\ row' = [row EXCEPT ![t] = NoRow]
    /\ UNCHANGED <<prepared, prep, root, folder, export, burn>>

\* Discard of a preparation that has ended: the preview stays.  A running download
\* holds the lock of the checkpoint.
DiscardPreparation(t) ==
    /\ Idle /\ prep[t] = "ended" /\ row[t].state # "running"
    /\ Discarded(t)
    /\ prep' = [prep EXCEPT ![t] = "none"]
    /\ UNCHANGED <<prepared, row, root, folder, export, burn>>

-----------------------------------------------------------------------------
(* Exporting *)

\* verified_result() and commit_export(): a row that waits for a destination, or
\* whose export failed, and whose private directory is known
MayExport(t) ==
    /\ row[t].state = "complete" /\ row[t].export \in {"awaiting", "failed"}
    /\ t \in root

\* export_verified() up to its first rename: every source is checked and copied to
\* a staging directory, and no target may be there
StartExport(t) ==
    /\ Idle /\ MayExport(t)
    /\ IF \A n \in row[t].items: folder[n] = None
       THEN /\ export' = [of |-> t, left |-> row[t].items, committed |-> {}, at |-> "rename"]
            /\ UNCHANGED row
       ELSE /\ row' = [row EXCEPT ![t].export = "failed"]
            /\ UNCHANGED export
    /\ UNCHANGED <<checkpoint, prepared, prep, root, journal, saved, folder, burn>>

\* A staged file is renamed to its target, over whatever is there by now
RenameStaged(n) ==
    /\ export # None
    /\ IF export = None THEN FALSE ELSE export.at = "rename" /\ n \in export.left
    /\ folder' = [folder EXCEPT ![n] = export.of]
    /\ export' = [export EXCEPT !.left = @ \ {n}, !.committed = @ \cup {n}]
    /\ UNCHANGED <<checkpoint, prepared, prep, row, root, journal, saved, burn>>

\* A copy or a rename fails: the targets placed so far are removed, but for those
\* that cannot be, of which nothing is said
ExportFails ==
    /\ IF export = None THEN FALSE ELSE export.at = "rename"
    /\ \E removed \in SUBSET export.committed:
          folder' = [n \in Name |-> IF n \in removed THEN None ELSE folder[n]]
    /\ row' = [row EXCEPT ![export.of].export = "failed"]
    /\ export' = None
    /\ UNCHANGED <<checkpoint, prepared, prep, root, journal, saved, burn>>

\* Faulty variant: the row counts as exported while files are still staged
CommitEarly ==
    /\ IF export = None THEN FALSE ELSE export.at = "rename"
    /\ row' = [row EXCEPT ![export.of].export = "exported"]
    /\ journal' = journal \cup {export.of}
    /\ export' = [export EXCEPT !.at = "journal"]
    /\ UNCHANGED <<checkpoint, prepared, prep, root, saved, folder, burn>>

\* commit_export() records the result in the row, and the worker remembers it
CommitExport ==
    /\ IF export = None THEN FALSE ELSE export.at = "rename" /\ export.left = {}
    /\ row' = [row EXCEPT ![export.of].export = "exported"]
    /\ journal' = journal \cup {export.of}
    /\ export' = [export EXCEPT !.at = "journal"]
    /\ UNCHANGED <<checkpoint, prepared, prep, root, saved, folder, burn>>

\* save_journal(), which may fail with the row already exported
SaveJournal ==
    /\ IF export = None THEN FALSE ELSE export.at = "journal"
    /\ saved' \in {saved, journal}
    /\ export' = None
    /\ UNCHANGED <<checkpoint, prepared, prep, row, root, journal, folder, burn>>

\* Another program, or the user, puts a file into the folder or takes one away
PutForeign(n) ==
    /\ folder[n] = None
    /\ folder' = [folder EXCEPT ![n] = Foreign]
    /\ UNCHANGED <<checkpoint, prepared, prep, row, root, journal, saved, export, burn>>

TakeAway(n) ==
    /\ folder[n] # None /\ Idle
    /\ folder' = [folder EXCEPT ![n] = None]
    /\ UNCHANGED <<checkpoint, prepared, prep, row, root, journal, saved, export, burn>>

-----------------------------------------------------------------------------
(* Starting again *)

Present(t) == \A n \in checkpoint[t].items: folder[n] # None

\* saved_transfer_details(): every file of the transfer is there, chosen or not
Verified(t) == checkpoint[t].state = "complete" /\ checkpoint[t].items = Items[t]

\* insert_recovered(), restore_saved() and snapshot(): the row of a checkpoint found on
\* disk.  One that is complete with some of the files only counts as failed, exported
\* or not.
Recovered(t) ==
    IF checkpoint[t] = None THEN NoRow
    ELSE IF checkpoint[t].state # "complete" THEN RowOf("paused", "none", {})
    ELSE RowOf(IF Verified(t) THEN "complete" ELSE "failed",
               IF t \in saved /\ Present(t) THEN "exported"
               ELSE IF Verified(t) THEN "awaiting" ELSE "none",
               checkpoint[t].items)

\* The program ends, wherever it is, and restore_saved() runs: a row gets its
\* private directory back only when all its files are verified already
Restart ==
    /\ row' = [t \in Transfer |-> Recovered(t)]
    /\ root' = {t \in Transfer: checkpoint[t] # None /\ Recovered(t).state = "complete"}
    /\ prepared' = [t \in Transfer |-> None]
    /\ prep' = [t \in Transfer |-> "none"]
    /\ journal' = saved
    /\ export' = None
    /\ burn' = [held |-> FALSE, offered |-> FALSE, requests |-> {}]
    /\ UNCHANGED <<checkpoint, saved, folder>>

-----------------------------------------------------------------------------
(* Notes that must still be burnt *)

\* open_note(): the text is shown, and its burn offered when it must be retried
OpenNote ==
    /\ burn.requests = {}
    /\ burn' = [burn EXCEPT !.held = TRUE, !.offered = TRUE]
    /\ UNCHANGED <<checkpoint, prepared, prep, row, root, journal, saved, folder, export>>

\* retry_burn(): a job takes the request out of the memory
TakeBurn(r) ==
    /\ burn.offered /\ burn.held /\ r \notin burn.requests
    /\ burn' = [burn EXCEPT !.held = FALSE, !.requests = @ \cup {r}]
    /\ UNCHANGED <<checkpoint, prepared, prep, row, root, journal, saved, folder, export>>

\* The server answers; after a failure the request is gone, and still offered
BurnAnswered(r) ==
    /\ r \in burn.requests
    /\ \E ok \in BOOLEAN:
        burn' = [burn EXCEPT !.requests = @ \ {r}, !.offered = @ /\ ~ok]
    /\ UNCHANGED <<checkpoint, prepared, prep, row, root, journal, saved, folder, export>>

Next ==
    \/ \E t \in Transfer:
        \/ Prepare(t) \/ (\E read \in BOOLEAN: Prepared(t, read)) \/ StartPrepared(t)
        \/ Complete(t) \/ (\E state \in {"paused", "failed"}: Stop(t, state)) \/ Resume(t)
        \/ Discard(t) \/ DiscardPreparation(t) \/ StartExport(t)
        \/ \E items \in (SUBSET Items[t]) \ {{}}: SelectItems(t, items)
    \/ \E n \in Name: RenameStaged(n) \/ PutForeign(n) \/ TakeAway(n)
    \/ ExportFails \/ CommitExport \/ SaveJournal
    \/ Restart
    \/ OpenNote \/ (\E r \in Retry: TakeBurn(r) \/ BurnAnswered(r))

Spec == Init /\ [][Next]_vars

-----------------------------------------------------------------------------
(* Properties *)

\* Every variable has its type.
TypeOK ==
    /\ \A t \in Transfer:
        /\ checkpoint[t] = None \/
              checkpoint[t] \in [state: {"prepared", "selected", "running", "complete"},
                                 items: SUBSET Items[t]]
        /\ prepared[t] = None \/ prepared[t] \in SUBSET Items[t]
        /\ prep[t] \in {"none", "running", "ended"}
        /\ row[t] \in [state: {"none", "running", "paused", "failed", "complete"},
                       export: {"none", "awaiting", "failed", "exported"},
                       items: SUBSET Items[t]]
    /\ root \subseteq Transfer /\ journal \subseteq Transfer /\ saved \subseteq Transfer
    /\ folder \in [Name -> Transfer \cup {None, Foreign}]
    /\ burn \in [held: BOOLEAN, offered: BOOLEAN, requests: SUBSET Retry]

\* What the preview offers is what the checkpoint will download.  The checkpoint is
\* there as long as the preparation was not discarded, and a preview that outlives it
\* can start nothing: it has no download.
PreviewMatchesCheckpoint ==
    \A t \in Transfer: prepared[t] # None =>
        /\ checkpoint[t] # None => prepared[t] = checkpoint[t].items
        /\ checkpoint[t] = None => prep[t] = "none" /\ row[t].state = "none"

\* A transfer becomes exported only when every chosen file is in the folder, whatever
\* failed on the way and even when its checkpoint is gone: after an export its own,
\* after a restart one of that name.
ExportedCompleteStep ==
    \A t \in Transfer: row[t].export # "exported" /\ row'[t].export = "exported" =>
       \A n \in row'[t].items: folder'[n] # None /\ (export' # None => folder'[n] = t)

\* One burn request of a note is under way at a time.
OneBurnRequest == \A r, s \in burn.requests: r = s

=============================================================================
