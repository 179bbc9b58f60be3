------------------------------ MODULE MCNative ------------------------------
(***************************************************************************)
(* Small instances of the components of NativeDisk, and of the signalling  *)
(* endpoints of the server, for TLC.  They are checked one at a time: a    *)
(* behaviour is one of the component that part names, and the others stay  *)
(* in their first state.  Storage answers the receivers of sealed          *)
(* transfers with whatever it was ever given.                              *)
(***************************************************************************)
EXTENDS NativeDisk, Signalling, TLC

CONSTANTS x1, x2, x3, x4

\* Files and a note over each driver, and a Turbo transfer without a password
Linked ==
  [driver : {"http", "webrtc"}, note : BOOLEAN, turbo : {FALSE}, salt : {TRUE}] \cup
    {[driver |-> "http", note |-> FALSE, turbo |-> TRUE, salt |-> FALSE]}

\* Two deliveries, of which the cache holds one
Deliveries == (x1 :> 1) @@ (x2 :> 2)

\* Two files of one chunk
TwoFiles == <<1, 1>>

\* Two transfers that give one item the same identifier; the names of the second
\* one differ only until they are made portable
Named(i, n, s) == [id |-> i, name |-> n, size |-> s]
Contents ==
  (x1 :> <<Named("i1", "n1", 3), Named("i2", "n2", 0)>>) @@
  (x2 :> <<Named("i1", "n1", 1), Named("i3", "n1.", 2)>>)
Names == [n \in {"n1", "n2", "n1."} |-> IF n = "n1." THEN "n1" ELSE n]

VARIABLE part  \* the component this behaviour is one of

diskVars ==
  <<stagingVars, startingVars, savingVars, downloadVars, hostVars, inboxVars, liveVars, sealingVars, reportVars>>

nativeVars == <<part, vars, diskVars>>

Components ==
  {"stage", "start", "checkpoint", "download", "background", "inbox", "live", "sealing", "reports",
   "signalling"}

\* A component the behaviour is not about stays in its first state
NativeInit ==
  /\ part \in Components
  /\ Staging!Init /\ Starting!Init /\ Saving!Init /\ Downloading!Init /\ Hosting!Init
  /\ Receiving!Init /\ Sharing!Init /\ Sealed!Init /\ Reporting!Init /\ Init
  /\ part # "start" =>
       server.transfer = [driver |-> "http", note |-> FALSE, turbo |-> FALSE, salt |-> TRUE]
  /\ part # "checkpoint" => ~windows
  /\ part # "background" => direction = "upload" /\ status
  /\ part # "live" => ~share.burn
  /\ part # "signalling" => ~row.burn

\* Idle requests are alike, and so are sessions nobody has heard of: the next one is the
\* smallest
InOrder(pool, known, was, next) ==
  \A r \in DOMAIN was : was[r].pc = "idle" /\ next[r].pc # "idle" =>
    /\ \A q \in DOMAIN was : q < r => was[q].pc # "idle"
    /\ next[r].s # None /\ ~known[next[r].s] => \A s \in pool : s < next[r].s => known[s]

KnownSessions == [s \in Session |-> ack[s] # None \/ cached[s] # None \/ \E r \in Request : req[r].s = s]
KnownWatchers == [s \in Watcher |-> watcher[s] # Missing \/ \E r \in Handler : call[r].s = s]

\* Bound: descriptions are exchanged with the first session, and requests about the
\* second one run beside
OneExchange == \A r \in Request : req[r].op \in {"offer", "answer"} => req[r].s = 1

DiskNext ==
  /\ UNCHANGED <<part, vars>>
  /\ \/ /\ part = "stage" /\ Staging!Next
        /\ UNCHANGED <<startingVars, savingVars, downloadVars, hostVars, inboxVars, liveVars, sealingVars, reportVars>>
     \/ /\ part = "start" /\ Starting!Next
        /\ UNCHANGED <<stagingVars, savingVars, downloadVars, hostVars, inboxVars, liveVars, sealingVars, reportVars>>
     \/ /\ part = "checkpoint" /\ Saving!Next
        /\ UNCHANGED <<stagingVars, startingVars, downloadVars, hostVars, inboxVars, liveVars, sealingVars, reportVars>>
     \/ /\ part = "download" /\ Downloading!Next
        /\ UNCHANGED <<stagingVars, startingVars, savingVars, hostVars, inboxVars, liveVars, sealingVars, reportVars>>
     \/ /\ part = "background" /\ Hosting!Next
        /\ UNCHANGED <<stagingVars, startingVars, savingVars, downloadVars, inboxVars, liveVars, sealingVars, reportVars>>
     \/ /\ part = "inbox" /\ Receiving!Next
        /\ UNCHANGED <<stagingVars, startingVars, savingVars, downloadVars, hostVars, liveVars, sealingVars, reportVars>>
     \/ /\ part = "live" /\ Sharing!Next
        /\ UNCHANGED <<stagingVars, startingVars, savingVars, downloadVars, hostVars, inboxVars, sealingVars, reportVars>>
     \/ /\ part = "sealing" /\ Sealed!Next
        /\ UNCHANGED <<stagingVars, startingVars, savingVars, downloadVars, hostVars, inboxVars, liveVars, reportVars>>
     \/ /\ part = "reports" /\ Reporting!Next /\ InOrder(Watcher, KnownWatchers, call, call')
        /\ UNCHANGED <<stagingVars, startingVars, savingVars, downloadVars, hostVars, inboxVars, liveVars, sealingVars>>

NativeNext ==
  \/ DiskNext
  \/ /\ part = "signalling" /\ Next /\ OneExchange' /\ InOrder(Session, KnownSessions, req, req')
     /\ UNCHANGED <<part, diskVars>>

NativeSpec == NativeInit /\ [][NativeNext]_nativeVars

\* The sealed transfers alone
SealedSpec == NativeSpec /\ part = "sealing"

-----------------------------------------------------------------------------
\* README.md of crates/encryption, of a transfer that carries a note: "All fields are
\* encrypted with the files' transfer key", so whoever opens the published manifest
\* can read the files.  It does not hold: unlock_job() takes another password when a
\* job is resumed, and seals the chunks of that attempt with the key it gives.
OneTransferKey == Sealed!OneTransferKey
=============================================================================
