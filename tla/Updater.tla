------------------------------- MODULE Updater -------------------------------
(***************************************************************************)
(* The updater of the CLI and the desktop application (client-updater):    *)
(* launches that activate what is staged, detached workers and manual runs *)
(* that fetch the signed catalog and stage a release, the helper that      *)
(* replaces the executable on Windows, and crashes between any two steps.  *)
(* Both products share one lock and one state file, which is always saved  *)
(* whole.  A release is named after its version; the release server may    *)
(* answer with any catalog it ever signed.                                 *)
(***************************************************************************)
EXTENDS Naturals, FiniteSetsExt

CONSTANTS
  Product,   \* "cli" and "desktop"
  Process,   \* processes that may run at the same time
  Catalog,   \* the versions on offer in each generation, a sequence of sets
  Windows,   \* values of "the platform is Windows"
  None

VARIABLES
  enabled,    \* the auto_update setting
  published,  \* the newest generation at the release server
  saved,      \* state.json: an entry for each product
  payload,    \* the staged files, by product and version: "none", "good", "bad"
  managed,    \* the version at the managed path; Missing if it is absent or torn
  previous,   \* the backup beside it
  lease,      \* the process that holds the lock
  proc,       \* the processes
  windows

vars == <<enabled, published, saved, payload, managed, previous, lease, proc, windows>>

Generation == DOMAIN Catalog
Version == UNION {Catalog[g] : g \in Generation}
Missing == 0

Entry == [attempted : BOOLEAN, generation : 0..Max(Generation), staged : Version \cup {None}]
NoProc == [pc |-> "idle", product |-> None, version |-> None, manual |-> FALSE, state |-> None, target |-> None]

TypeOK ==
  /\ enabled \in BOOLEAN /\ published \in Generation /\ saved \in [Product -> Entry]
  /\ payload \in [Product -> [Version -> {"none", "good", "bad"}]]
  /\ managed \in [Product -> Version \cup {Missing}] /\ previous \in [Product -> Version \cup {Missing}]
  /\ lease \in Process \cup {None} /\ windows \in BOOLEAN
  /\ \A p \in Process : proc[p].pc \in {"idle", "launch", "staged", "replace", "place", "record", "started", "helper",
                                       "run", "catalog", "payload", "stage"}

Init ==
  /\ enabled \in BOOLEAN /\ published = 1 /\ windows \in Windows
  /\ saved = [d \in Product |-> [attempted |-> FALSE, generation |-> 0, staged |-> None]]
  /\ payload = [d \in Product |-> [v \in Version |-> "none"]]
  /\ managed = [d \in Product |-> Max(Catalog[1])] /\ previous = [d \in Product |-> Missing]
  /\ lease = None /\ proc = [p \in Process |-> NoProc]

At(p, pc) == proc[p].pc = pc
Mine(p) == proc[p].product
Move(p, pc) == proc' = [proc EXCEPT ![p].pc = pc]
Quit(p) == proc' = [proc EXCEPT ![p] = NoProc] /\ lease' = IF lease = p THEN None ELSE lease
-----------------------------------------------------------------------------
(* Launches and activation.                                                *)

\* A process runs the version it was started from, whatever is installed later.
Launch(p, d, manual) ==
  /\ At(p, "idle") /\ managed[d] # Missing
  /\ proc' = [proc EXCEPT ![p] = [NoProc EXCEPT !.pc = IF enabled THEN "launch" ELSE "started",
                                                !.product = d, !.version = managed[d], !.manual = manual]]
  /\ UNCHANGED <<enabled, published, saved, payload, managed, previous, lease, windows>>

\* activate_staged: somebody else's lock is no reason to wait.
LeaseActivation(p) ==
  /\ At(p, "launch")
  /\ IF enabled /\ lease = None THEN lease' = p /\ Move(p, "staged")
                                ELSE UNCHANGED lease /\ Move(p, "started")
  /\ UNCHANGED <<enabled, published, saved, payload, managed, previous, windows>>

Newer(p) == saved[Mine(p)].staged > proc[p].version

\* Faulty variant: trusts the record.
IntactUnchecked(d) == TRUE

\* The payload is digested again before it replaces anything.
Intact(d) == payload[d][saved[d].staged] = "good"

\* A record that is refused is cleared; a payload that is gone is an error.
CheckStaged(p) ==
  /\ At(p, "staged")
  /\ LET d == Mine(p) staged == saved[d].staged
         clear == staged # None /\ (~enabled \/ ~Newer(p) \/ (payload[d][staged] # "none" /\ ~Intact(d)))
         go == ~clear /\ staged # None /\ payload[d][staged] # "none" /\ managed[d] # Missing
     IN /\ saved' = IF clear THEN [saved EXCEPT ![d].staged = None] ELSE saved
        /\ IF go /\ ~windows THEN Move(p, "replace") /\ UNCHANGED lease
           ELSE lease' = None /\ Move(p, IF go THEN "helper" ELSE "started")
  /\ UNCHANGED <<enabled, published, payload, managed, previous, windows>>

\* apply_windows: the process of the payload waits for the lock and checks itself.
StartHelper(p) ==
  /\ At(p, "helper") /\ lease = None
  /\ IF saved[Mine(p)].staged # None /\ Intact(Mine(p)) THEN lease' = p /\ Move(p, "replace") ELSE Quit(p)
  /\ UNCHANGED <<enabled, published, saved, payload, managed, previous, windows>>

\* replace_file: the old backup goes, then the executable is renamed to it.  The
\* helper removes the backup before it knows that there is an executable.
Backup(p) ==
  /\ At(p, "replace")
  /\ LET d == Mine(p) IN
     IF managed[d] # Missing
     THEN /\ previous' = [previous EXCEPT ![d] = managed[d]] /\ managed' = [managed EXCEPT ![d] = Missing]
          /\ Move(p, "place") /\ UNCHANGED lease
     ELSE /\ previous' = IF windows THEN [previous EXCEPT ![d] = Missing] ELSE previous
          /\ Quit(p) /\ UNCHANGED managed
  /\ UNCHANGED <<enabled, published, saved, payload, windows>>

\* The payload is renamed (copied on Windows) into place.
Place(p) ==
  /\ At(p, "place")
  /\ LET d == Mine(p) v == saved[d].staged IN
     /\ managed' = [managed EXCEPT ![d] = v]
     /\ payload' = IF windows THEN payload ELSE [payload EXCEPT ![d][v] = "none"]
  /\ Move(p, "record")
  /\ UNCHANGED <<enabled, published, saved, previous, lease, windows>>

\* The rename fails: the backup is put back.
PlaceFails(p) ==
  /\ At(p, "place")
  /\ managed' = [managed EXCEPT ![Mine(p)] = previous[Mine(p)]] /\ previous' = [previous EXCEPT ![Mine(p)] = Missing]
  /\ Quit(p) /\ UNCHANGED <<enabled, published, saved, payload, windows>>

\* The record is cleared, the lock is released, and the new version is executed.
RecordActivation(p) ==
  /\ At(p, "record")
  /\ saved' = [saved EXCEPT ![Mine(p)].staged = None]
  /\ lease' = None /\ proc' = [proc EXCEPT ![p].pc = "started", ![p].version = managed[Mine(p)]]
  /\ UNCHANGED <<enabled, published, payload, managed, previous, windows>>
-----------------------------------------------------------------------------
(* Workers and manual runs.                                                *)

\* launch: a copy of the running binary is started if a check is due.
SpawnWorker(p, q) ==
  /\ At(p, "started") /\ At(q, "idle") /\ enabled /\ ~saved[Mine(p)].attempted /\ managed[Mine(p)] # Missing
  /\ proc' = [proc EXCEPT ![q] = [proc[p] EXCEPT !.pc = "run", !.manual = FALSE]]
  /\ UNCHANGED <<enabled, published, saved, payload, managed, previous, lease, windows>>

\* The user's command: an update, or something else and the end.
Command(p) ==
  /\ At(p, "started") /\ (IF proc[p].manual THEN Move(p, "run") /\ UNCHANGED lease ELSE Quit(p))
  /\ UNCHANGED <<enabled, published, saved, payload, managed, previous, windows>>

Allowed(p) == enabled \/ proc[p].manual

Exclusive(p) == lease = None

\* run: the attempt is saved before the network is used.
StartRun(p) ==
  /\ At(p, "run")
  /\ IF Allowed(p) /\ Exclusive(p) /\ (proc[p].manual \/ ~saved[Mine(p)].attempted)
     THEN LET state == [saved EXCEPT ![Mine(p)].attempted = TRUE]
          IN saved' = state /\ lease' = p /\ proc' = [proc EXCEPT ![p].pc = "catalog", ![p].state = state]
     ELSE Quit(p) /\ UNCHANGED saved
  /\ UNCHANGED <<enabled, published, payload, managed, previous, windows>>

\* verify_catalog and the rollback floor
Accepts(p, g) == g >= proc[p].state[Mine(p)].generation

\* download_and_stage up to the choice of a release.  The generation is saved with
\* a result that is not an error.
FetchCatalog(p, g) ==
  /\ At(p, "catalog") /\ g <= published
  /\ LET state == [proc[p].state EXCEPT ![Mine(p)].generation = g] newest == Max(Catalog[g])
     IN IF ~Accepts(p, g) THEN Quit(p) /\ UNCHANGED saved
        ELSE IF newest <= proc[p].version THEN saved' = state /\ Quit(p)
        ELSE /\ proc' = [proc EXCEPT ![p].pc = "payload", ![p].state = state, ![p].target = newest]
             /\ UNCHANGED <<saved, lease>>
  /\ UNCHANGED <<enabled, published, payload, managed, previous, windows>>

\* The setting is read again before and after the archive is fetched, and the
\* archive must have the digest and the size of the catalog.
FetchPayload(p) ==
  /\ At(p, "payload")
  /\ IF Allowed(p) THEN Move(p, "stage") /\ UNCHANGED lease ELSE Quit(p)
  /\ UNCHANGED <<enabled, published, saved, payload, managed, previous, windows>>

\* stage_payload and the record that names it; an unmanaged install is refused.
StagePayload(p) ==
  /\ At(p, "stage")
  /\ LET d == Mine(p) IN
     /\ payload' = [payload EXCEPT ![d][proc[p].target] = "good"]
     /\ saved' = IF managed[d] = Missing THEN saved ELSE [proc[p].state EXCEPT ![d].staged = proc[p].target]
  /\ Quit(p)
  /\ UNCHANGED <<enabled, published, managed, previous, windows>>
-----------------------------------------------------------------------------
(* The surroundings.                                                       *)

\* A failed request or write, or a kill; the kernel releases the lock.
Stops(p) ==
  /\ ~At(p, "idle") /\ Quit(p)
  /\ UNCHANGED <<enabled, published, saved, payload, managed, previous, windows>>

ReleasePublished ==
  /\ published + 1 \in Generation /\ published' = published + 1
  /\ UNCHANGED <<enabled, saved, payload, managed, previous, lease, proc, windows>>

SetEnabled ==
  /\ enabled' = ~enabled
  /\ UNCHANGED <<published, saved, payload, managed, previous, lease, proc, windows>>

\* THROTTLE passes.
Due(d) ==
  /\ saved[d].attempted /\ lease = None /\ saved' = [saved EXCEPT ![d].attempted = FALSE]
  /\ UNCHANGED <<enabled, published, payload, managed, previous, lease, proc, windows>>

\* A staged file is damaged at rest, or tidied away.
Damage(d, v) ==
  /\ payload[d][v] = "good" /\ lease = None
  /\ payload' \in {[payload EXCEPT ![d][v] = s] : s \in {"bad", "none"}}
  /\ UNCHANGED <<enabled, published, saved, managed, previous, lease, proc, windows>>

Next ==
  \/ \E p \in Process :
       \/ LeaseActivation(p) \/ CheckStaged(p) \/ StartHelper(p) \/ Backup(p) \/ Place(p) \/ PlaceFails(p)
       \/ RecordActivation(p) \/ Command(p) \/ StartRun(p) \/ FetchPayload(p) \/ StagePayload(p) \/ Stops(p)
       \/ \E d \in Product, manual \in BOOLEAN : Launch(p, d, manual)
       \/ \E q \in Process \ {p} : SpawnWorker(p, q)
       \/ \E g \in Generation : FetchCatalog(p, g)
  \/ ReleasePublished \/ SetEnabled
  \/ \E d \in Product : Due(d) \/ \E v \in Version : Damage(d, v)

Spec == Init /\ [][Next]_vars
-----------------------------------------------------------------------------
\* Whatever dies between the two renames, on Unix one of the two paths has a whole
\* executable to go back to.  (On Windows a second helper removes the last one.)
InstallRecoverable ==
  ~windows => \A d \in Product : managed[d] # Missing \/ previous[d] # Missing

\* A later installation is never replaced by an older one while no release is
\* withdrawn, and the rollback floor of a product never sinks, although the state
\* of both products is saved by whoever ran last.
NeverDowngradedStep ==
  \A d \in Product :
    /\ saved'[d].generation >= saved[d].generation
    /\ managed'[d] # Missing => managed'[d] >= (IF managed[d] # Missing THEN managed[d] ELSE previous[d])

\* The executable that is put in place is one whose digest matched just before.
DigestBeforePlacing ==
  \A p \in Process : At(p, "place") => payload[Mine(p)][saved[Mine(p)].staged] = "good"
=============================================================================
