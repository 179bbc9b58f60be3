--------------------------- MODULE MCApplications ---------------------------
(***************************************************************************)
(* Small instances of the applications for TLC: the parts of client-core,  *)
(* the updater, the configuration and the desktop.  They are checked one   *)
(* at a time: a behaviour is one of the component that part names, and the *)
(* others stay in their first state.                                       *)
(***************************************************************************)
EXTENDS Applications, TLC

CONSTANTS x1, x2, x3, x4, y1, y2

\* Two generations of the catalog, the second with a new release
Releases == <<{1}, {1, 2}>>

\* Two accounts of one of two servers, and one of the same email at the other
Members == ({x1} \X {x3, x4}) \cup {<<x2, x3>>}

\* The settings followed: two of them in one section, two with a flat key of old
Fields == {"url", "max_concurrency", "theme", "reduced_motion"}

\* Two transfers that share the name of a file
Received == (x1 :> {x3, x4}) @@ (x2 :> {x3})

\* A server for everybody and one for accounts, with live shares
Served ==
  {[http |-> TRUE, live |-> FALSE, anonymous |-> TRUE, options |-> {1}, default |-> "http"],
   [http |-> TRUE, live |-> TRUE, anonymous |-> FALSE, options |-> {}, default |-> "live"]}

VARIABLE part  \* the component this behaviour is one of

vars ==
  <<part, registryVars, sessionVars, custodyVars, noteVars, updateVars, configVars, receiveVars, sendVars, accountVars,
    ingressVars, windowVars>>

\* A component the behaviour is not about stays in its first state, in one of them
\* where there are several
Init ==
  /\ part \in {"runtime", "session", "key", "notes", "updater", "config", "receive", "send", "account", "ingress",
               "window"}
  /\ Registry!Init /\ Session!Init /\ Custody!Init
  /\ Noting!Init /\ (part # "notes" => note.driver = "http" /\ ~note.burn /\ creator.keeps)
  /\ Updating!Init /\ (part # "updater" => enabled /\ ~windows)
  /\ Configuring!Init /\ (part # "config" => doc = None)
  /\ Receiving!Init
  /\ Sending!Init /\ real[x2].live /\ (part # "send" => config = x1 /\ real[x1].live)
  /\ Desk!Init /\ (part # "account" => file = x1)
  /\ Ingress!Init /\ (part # "ingress" => unix)
  /\ Window!Init /\ (part # "window" => \A j \in Task : job[j] = "absent")

\* The components but that of part p take no step
Untouched(p) ==
  /\ UNCHANGED part
  /\ IF p = "runtime" THEN TRUE ELSE UNCHANGED registryVars
  /\ IF p = "session" THEN TRUE ELSE UNCHANGED sessionVars
  /\ IF p = "key" THEN TRUE ELSE UNCHANGED custodyVars
  /\ IF p = "notes" THEN TRUE ELSE UNCHANGED noteVars
  /\ IF p = "updater" THEN TRUE ELSE UNCHANGED updateVars
  /\ IF p = "config" THEN TRUE ELSE UNCHANGED configVars
  /\ IF p = "receive" THEN TRUE ELSE UNCHANGED receiveVars
  /\ IF p = "send" THEN TRUE ELSE UNCHANGED sendVars
  /\ IF p = "account" THEN TRUE ELSE UNCHANGED accountVars
  /\ IF p = "ingress" THEN TRUE ELSE UNCHANGED ingressVars
  /\ IF p = "window" THEN TRUE ELSE UNCHANGED windowVars

\* Bound: only the first server changes its policy, and only its accounts change
SecondServerStays == UNCHANGED <<real[x2], holder[x2]>>

\* Notes and files have nothing in common: one is opened while there are none of the other
NoteOrFiles ==
  /\ burn.offered => UNCHANGED checkpoint
  /\ UNCHANGED burn \/ \A t \in Transfer : checkpoint[t] = None

Next ==
  \/ part = "runtime" /\ Registry!Next /\ Untouched("runtime")
  \/ part = "session" /\ Session!Next /\ Untouched("session")
  \/ part = "key" /\ Custody!Next /\ Untouched("key")
  \/ part = "notes" /\ Noting!Next /\ Untouched("notes")
  \/ part = "updater" /\ Updating!Next /\ Untouched("updater")
  \/ part = "config" /\ Configuring!Next /\ Untouched("config")
  \/ part = "receive" /\ Receiving!Next /\ NoteOrFiles /\ Untouched("receive")
  \/ part = "send" /\ Sending!Next /\ SecondServerStays /\ Untouched("send")
  \/ part = "account" /\ Desk!Next /\ Untouched("account")
  \/ part = "ingress" /\ Ingress!Next /\ Untouched("ingress")
  \/ part = "window" /\ Window!Next /\ Untouched("window")

Spec == Init /\ [][Next]_vars
=============================================================================
