---------------------------- MODULE Applications ----------------------------
(***************************************************************************)
(* The parts of the applications whose promises outlive a crash, a lost    *)
(* answer or a second thread: the registry of jobs (ClientRuntime), the    *)
(* account session (ServiceSession), the receiving key (ReceivingKey),     *)
(* notes (Notes), the updater (Updater) and the configuration              *)
(* (ClientConfig), and of the desktop the receiving (DesktopReceive), the  *)
(* sending (DesktopSend) and the account side (DesktopAccount) of its      *)
(* worker, its ingress (DesktopIngress) and its window (DesktopWindow),    *)
(* side by side, each over variables of its own.  The runs check and the   *)
(* proofs show the properties stated here.                                 *)
(***************************************************************************)
EXTENDS Integers, FiniteSets, Sequences

CONSTANTS
  Row, Worker, Thread, MaxPrompt,                   \* ClientRuntime
  Account,                                          \* ServiceSession, and Thread
  Key, MaxBundles,                                  \* ReceivingKey
  Reader, Size, ChunkBytes, Drivers, EndAttempts,   \* Notes
  Product, Process, Catalog, Windows,               \* Updater
  Program, Field, Instances, Alias, Illegal,        \* ClientConfig
  Transfer, Items, Retry, Foreign,                  \* DesktopReceive
  Origin, Policies, Username, MaxId, MaxSends,      \* DesktopSend
  Owner, Member, MaxThreads, MaxCommands,           \* DesktopAccount, and Origin
  Instance, Link,                                    \* DesktopIngress
  Task, Capacity, History, MaxMessages,             \* DesktopWindow
  None                                              \* what is not there

VARIABLES
  row, worker, call, disk,                                     \* ClientRuntime
  alive, jar, intent, account_id, stored, automatic,           \* ServiceSession
  cancelled, request, told, sent, swept,
  bundles, session, private, pending, exports, custody, op,    \* ReceivingKey
  sealed,
  note, creator, record, reader, burnt,                        \* Notes
  enabled, published, saved, payload, managed, previous,       \* Updater
  lease, proc, windows,
  doc, held,                                                   \* ClientConfig
  checkpoint, prepared, prep, receipt, root, journal,          \* DesktopReceive
  exported, folder, export, burn,
  real, holder, config, client, policy, signed_in, contacts,   \* DesktopSend
  draft, queue, sends,
  valid, receiving, file, kept, desk, snap, threads,           \* DesktopAccount
  current, handled,
  unix, phase, lock, socket, nonce, presented, channel,        \* DesktopIngress
  accepted, waiting, dialogs, routed,
  commands, job, snapshot, messages, next_id, seen, shown,     \* DesktopWindow
  completed, baselined, notified, window

registryVars == <<row, worker, call, disk>>
sessionVars == <<alive, jar, intent, account_id, stored, automatic, cancelled, request, told, sent, swept>>
custodyVars == <<bundles, session, private, pending, exports, custody, op, sealed>>
noteVars == <<note, creator, record, reader, burnt>>
updateVars == <<enabled, published, saved, payload, managed, previous, lease, proc, windows>>
configVars == <<doc, held>>
receiveVars == <<checkpoint, prepared, prep, receipt, root, journal, exported, folder, export, burn>>
sendVars == <<real, holder, config, client, policy, signed_in, contacts, draft, queue, sends>>
accountVars == <<valid, receiving, file, kept, desk, snap, threads, current, handled>>
ingressVars == <<unix, phase, lock, socket, nonce, presented, channel, accepted, waiting, dialogs, routed>>
windowVars == <<commands, job, snapshot, messages, next_id, seen, shown, completed, baselined, notified, window>>

Registry == INSTANCE ClientRuntime
Session == INSTANCE ServiceSession WITH disk <- stored, call <- request
Custody == INSTANCE ReceivingKey
Noting == INSTANCE Notes
Updating == INSTANCE Updater
Configuring == INSTANCE ClientConfig WITH Process <- Program
Receiving == INSTANCE DesktopReceive WITH row <- receipt, saved <- exported
Sending == INSTANCE DesktopSend WITH row <- sends
Desk == INSTANCE DesktopAccount WITH Account <- Owner, enabled <- receiving, disk <- kept
Ingress == INSTANCE DesktopIngress WITH Process <- Instance, at <- phase, pending <- waiting
Window == INSTANCE DesktopWindow WITH Job <- Task, queue <- commands

-----------------------------------------------------------------------------
\* The rows of the registry, its workers, and the calls that have let go of the lock.
Rows == [state : Registry!JobState, worker : Worker \cup {None}, prompt : Nat \cup {None}, held : BOOLEAN, next : Nat,
         export : {"NotVerified", "Awaiting", "ExportFailed", "Exported"}]
Asked == {"sent", "held", "answered", "dropped"}
Workers == [pc : {"none", "queued", "run", "asking", "ending", "done"}, cancelled : BOOLEAN, lock : BOOLEAN, permit : BOOLEAN,
            resumes : BOOLEAN, asked : Asked \cup {None}, channel : BOOLEAN, prompts : Nat, result : {"ok", "error", None}]
Looks == [op : {"resume", "discard", "remove", "export"}, row : Row]

\* Nothing that is there is None.
RegistryConstants == None \notin Worker /\ None \notin Rows /\ None \notin Asked /\ None \notin Looks

\* The calls of a host, and the steps they are at.
CallOps == Session!Changing \cup {"session", "upload", "sweep"}
CallSteps == {"session", "remember", "delete", "forget", "done", "store", "intent", "memory", "open", "listing", "clear"}
Knowledge == [of : Account \cup {None}, missed : BOOLEAN]
Calls == [op : CallOps, at : CallSteps, account : Account \cup {None}, clean : BOOLEAN]

\* Accounts as the server names them; how an upload was sent is no account.
SessionConstants ==
  /\ None \notin Account /\ None \notin Thread /\ None \notin Calls
  /\ {"anonymous", "refused"} \cap Account = {}

\* The published keys, the key that waits for its backup, and the operations under way.
Bundles == [key : Key, by : Custody!Client, custody : {"self", "password"}]
Pendings == [key : Key, exported : BOOLEAN, replace : BOOLEAN]
Operations == [kind : DOMAIN Custody!AfterUpload \cup DOMAIN Custody!AfterSave \cup {"keep", "export"},
               at : {"upload", "save", "clear", "pend", "mark", "write", "unpend", "refresh"},
               key : Key, replace : BOOLEAN]

CustodyConstants ==
  MaxBundles \in Nat /\ None \notin Key /\ None \notin Bundles /\ None \notin Pendings /\ None \notin Operations

\* A note at the server, the process that creates it, and the receives of it.
NoteRecords == [st : {"none", "pending", "available", "deleting", "gone"}, driver : Drivers, burn : BOOLEAN,
                put : 0..Noting!Chunks, claim : Reader \cup {None}, consumer : Reader \cup {None}]
Creators == [pc : {"start", "sending", "created", "saving", "saved", "serving", "complete", "ending", "acknowledge", "ended",
                   "failed", "crashed"},
             cancelled : BOOLEAN, ending : BOOLEAN, attempts : 0..EndAttempts, receipt : {"none", "held", "taken"},
             keeps : BOOLEAN]
Receives == [pc : {"idle", "reading", "connecting", "chunks", "verified", "burning", "complete", "failed"},
             managed : BOOLEAN, acknowledged : BOOLEAN, got : 0..Noting!Chunks, bytes : Int, verified : BOOLEAN,
             text : BOOLEAN, pending : BOOLEAN, consumed : BOOLEAN, delivered : BOOLEAN, cancelled : BOOLEAN]

\* Texts have a size, possibly none; the policy's chunks are not empty.
NoteConstants ==
  Size \in Nat /\ ChunkBytes \in Nat \ {0} /\ EndAttempts \in Nat /\ None \notin Reader \cup {"note", "live"}

\* Catalogs offer versions above that of a missing executable, each has a newest one,
\* and that of a later generation is no older: no release is withdrawn.
UpdateConstants ==
  /\ Catalog \in Seq(SUBSET (Nat \ {0})) /\ Catalog # <<>>
  /\ \A g \in DOMAIN Catalog : \E m \in Catalog[g] : \A v \in Catalog[g] : m >= v
  /\ \A g, h \in DOMAIN Catalog : g <= h => \A v \in Catalog[g] : \E m \in Catalog[h] : m >= v
  /\ None \notin Nat /\ None \notin Process /\ Windows \subseteq BOOLEAN

\* The configuration file, and the Config a program holds.
Documents == [schema : BOOLEAN, nested : [Field -> Configuring!Value \cup {None, Alias}],
              legacy : [Configuring!LegacyField -> {None, 1}]]
Configs == [now : [Field -> Configuring!Value \cup {Alias}], baseline : Configuring!Settings \cup {None}]

\* What is no legal value is neither 0 nor 1.
ConfigConstants ==
  /\ {Alias, Illegal, None} \cap {0, 1} = {} /\ Alias \notin {None, Illegal}
  /\ Instances \subseteq {None, 1, Alias}
  /\ None \notin Documents /\ None \notin Configs

\* The checkpoint of a receive and its row, and the export in progress.
Checkpoints == [state : {"prepared", "selected", "running", "complete"}, items : SUBSET Receiving!Name]
Receipts == [state : {"none", "running", "paused", "failed", "complete"}, export : {"none", "awaiting", "failed", "exported"},
             items : SUBSET Receiving!Name]
Exports == [of : Transfer, left : SUBSET Receiving!Name, committed : SUBSET Receiving!Name, at : {"rename", "journal"}]

\* No transfer and no file of another program is None, nor is anything the worker keeps.
ReceiveConstants ==
  /\ None \notin Transfer \cup {Foreign}
  /\ None \notin Checkpoints /\ None \notin Exports /\ \A s \in SUBSET Receiving!Name : s # None

\* The contacts and the policy the panel knows, its draft, the command that waits, and the transfers started.
Hours == UNION {p.options : p \in Policies}
Transports == {"http", "live"}
Ids == 1..MaxId
Lists == [origin : Origin, of : [Username -> Ids]]
Views == [origin : Origin, of : Policies \cup {None}]
Drafts == [transport : Transports, edited : BOOLEAN, hours : Hours \cup {None}, recipient : Username \cup {None},
           chosen : (Username \X Ids \X Origin) \cup {None}]
Commands == [transport : Transports, hours : Hours \cup {None}, recipient : Username \cup {None}, expected : Ids \cup {None},
             asked : (Origin \X Ids) \cup {None}, include_key : BOOLEAN]
Sends == [transport : Transports, hours : Hours \cup {None}, to : Ids \cup {None}, asked : (Origin \X Ids) \cup {None},
          origin : Origin, under : Views, apart : BOOLEAN, remembered : BOOLEAN, link : {None, "keyed", "bare"}, shown : {None, "keyed", "bare"}]

\* A server prefers one of the two transports; an account has a number.
SendConstants ==
  /\ MaxId \in Nat \ {0} /\ MaxSends \in Nat
  /\ \A p \in Policies : p.default \in Transports
  /\ None \notin Policies /\ None \notin {"keyed", "bare"} /\ None \notin Commands
  /\ None \notin Username \X Ids \X Origin /\ None \notin Origin \X Ids /\ None \notin Lists /\ None \notin Ids

\* A client of the desktop worker; nothing it keeps is None.
Clients == [origin : Origin, cookie : Desk!Cookie \cup {None}, intent : BOOLEAN]

AccountConstants ==
  MaxCommands \in Nat /\ None \notin Desk!Cookie /\ None \notin Clients /\ None \notin Origin \X Owner

\* A process that was started, and the capacities of the queue and of the history.
HostConstants == None \notin Instance /\ {Capacity, History, MaxMessages} \subseteq Nat

ASSUME ApplicationsAssumption ==
  /\ RegistryConstants /\ SessionConstants /\ CustodyConstants /\ NoteConstants /\ UpdateConstants
  /\ ConfigConstants /\ ReceiveConstants /\ SendConstants /\ AccountConstants /\ HostConstants

-----------------------------------------------------------------------------
\* application.rs ClientRuntime: whatever two threads do to one row, a question of a
\* worker can be answered, a worker without a row is cancelled, and a job shown as
\* ended holds neither its store nor its slot.
JobsReachable ==
  /\ Registry!TypeOK /\ Registry!PromptReachable
  /\ Registry!OrphansCancelled /\ Registry!EndedMeansReleased

\* session.rs and services/client.rs: a host that is signed in, as far as it could
\* learn, never uploads anonymously, and automatic receiving runs once and can be
\* started again.
SessionHonest == Session!TypeOK /\ Session!NeverAnonymous /\ Session!SlotReturned

\* client.rs set_up_self_key() and its kin: what is sealed to a key of the desktop can
\* be opened with a backup, and a stored key is published, at every failure and crash.
KeysRecoverable ==
  Custody!TypeOK /\ Custody!DeliveriesRecoverable /\ Custody!StoredKeyPublished

\* notes.rs: the reader that burns a note has its text, a note said to be removed is
\* removed, and one that can be read can be ended by a host that keeps capabilities.
NotesKept ==
  /\ Noting!TypeOK /\ Noting!BurntTextKept
  /\ Noting!ConsumedMeansRemoved /\ Noting!CapabilityKept

\* filebeam-update: on Unix there is always an executable to go back to, only a
\* verified one is put in place, and no process undoes a later update.
UpdateSafe ==
  /\ [](Updating!TypeOK /\ Updating!InstallRecoverable /\ Updating!DigestBeforePlacing)
  /\ [][Updating!NeverDowngradedStep]_updateVars

\* config Config::update() and save(): a change is read back as it was asked for, and
\* the changes of other programs are kept.  (The steps of the others are passed over
\* first: what an update would read back is slow to evaluate.)
ConfigMerged ==
  /\ []Configuring!TypeOK
  /\ [][\/ UNCHANGED configVars
        \/ Configuring!UpdateReadBackStep /\ Configuring!OthersChangesKeptStep]_configVars

\* client.rs of the desktop: the preview is the checkpoint's while there is one, a
\* transfer becomes exported only with every chosen file in its folder, and a note is
\* burnt by one request at a time.
ReceivesExported ==
  /\ [](Receiving!TypeOK /\ Receiving!PreviewMatchesCheckpoint /\ Receiving!OneBurnRequest)
  /\ [][Receiving!ExportedCompleteStep]_receiveVars

\* client.rs start_send(): a transfer is sent as it was asked for under the policy of
\* its own server, to the number that was chosen, and a key that travels apart is not
\* shown with the link.
SendsAsAsked == Sending!TypeOK /\ Sending!SentAsAsked /\ Sending!KeyKeptApart

\* client.rs of the desktop: staged deliveries and the receiver belong to the account of
\* the session at its server, and the history to one of its email, through sign-ins,
\* expiries and changes of server.
AccountsApart == Desk!TypeOK /\ Desk!HistoryOfAccount /\ Desk!ReceiverOfAccount

\* ingress.rs and app.rs: one process owns the window and can be reached by the next,
\* its inputs are accepted once, and what happened is announced once.
DesktopHostSafe ==
  /\ Ingress!TypeOK /\ Ingress!OwnerReachable /\ Ingress!ForwardedOnce
  /\ Window!TypeOK /\ Window!AnnouncedOnce
=============================================================================
