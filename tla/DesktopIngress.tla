--------------------------- MODULE DesktopIngress ---------------------------
(***************************************************************************)
(* One desktop application per home (desktop/platform/ingress, main and    *)
(* the routing of inputs in app): the process that holds the lock file     *)
(* serves a socket; a process started later forwards its inputs to that    *)
(* socket and ends.  The nonce in a file and the socket (the port file on  *)
(* Windows) are replaced by each owner and may be left behind by one that  *)
(* was killed.                                                             *)
(*                                                                         *)
(* The lock belongs to the operating system: it goes with the process.     *)
(***************************************************************************)
EXTENDS Naturals, Sequences

CONSTANTS
    Process,    \* starts of the program
    Link,       \* the processes started with a link; the others bring a path
    None

VARIABLES
    unix,       \* a socket at a path, or (Windows) a port in a file
    at,         \* at[p]: where the process is
    lock,       \* the process that holds the lock file, or None
    socket,     \* the process whose endpoint is at the path, or None
    nonce,      \* the process whose nonce is in the file, or None
    presented,  \* presented[p]: the nonce a forwarding process has read
    channel,    \* channel[p]: activations the owner has accepted and not routed
    accepted,   \* how often the inputs of a process were accepted
    pending,    \* the link that waits for the user's answer, or None
    dialogs,    \* questions about received links on the screen
    routed      \* the inputs that reached a panel

vars == <<unix, at, lock, socket, nonce, presented, channel, accepted, pending, dialogs, routed>>

Init ==
    /\ unix \in BOOLEAN
    /\ at = [p \in Process |-> "new"]
    /\ lock = None /\ socket = None /\ nonce = None
    /\ presented = [p \in Process |-> None]
    /\ channel = [p \in Process |-> <<>>]
    /\ accepted = [p \in Process |-> 0]
    /\ pending = None /\ dialogs = 0 /\ routed = {}

Move(p, place) == at' = [at EXCEPT ![p] = place]

Serves(p) == at[p] \in {"serving", "window"}

-----------------------------------------------------------------------------
(* Becoming the owner, or forwarding *)

\* acquire_inputs(): the lock decides
AcquireInputs(p) ==
    /\ at[p] = "new"
    /\ IF lock = None
       THEN lock' = p /\ Move(p, "locked")
       ELSE Move(p, "forwarding") /\ UNCHANGED lock
    /\ UNCHANGED <<unix, socket, nonce, presented, channel, accepted, pending, dialogs, routed>>

\* acquire_owner(): a stale socket is removed, then the nonce, then the endpoint
RemoveStale(p) ==
    /\ unix /\ at[p] = "locked" /\ socket # None
    /\ socket' = None
    /\ UNCHANGED <<unix, at, lock, nonce, presented, channel, accepted, pending, dialogs, routed>>

WriteNonce(p) ==
    /\ at[p] = "locked" /\ (unix => socket = None)
    /\ nonce' = p
    /\ Move(p, "binding")
    /\ UNCHANGED <<unix, lock, socket, presented, channel, accepted, pending, dialogs, routed>>

Listen(p) ==
    /\ at[p] = "binding"
    /\ socket' = p
    /\ Move(p, "serving")
    /\ UNCHANGED <<unix, lock, nonce, presented, channel, accepted, pending, dialogs, routed>>

Bind(p) == unix /\ Listen(p)

\* On Windows the port goes to a file, over the one of an earlier owner
BindPort(p) == ~unix /\ Listen(p)

\* forward(): without an endpoint or a nonce the process reports the error
ReadNonce(p) ==
    /\ at[p] = "forwarding"
    /\ IF socket = None \/ nonce = None
       THEN Move(p, "failed") /\ UNCHANGED presented
       ELSE Move(p, "connecting") /\ presented' = [presented EXCEPT ![p] = nonce]
    /\ UNCHANGED <<unix, lock, socket, nonce, channel, accepted, pending, dialogs, routed>>

\* serve_unix(), serve_tcp(): the nonce must be the owner's own
Accepts(owner, p) == presented[p] = owner

\* The request reaches the endpoint at the path, or nobody answers there, or the
\* answer comes too late for the process that forwards
Forward(p) ==
    /\ at[p] = "connecting"
    /\ IF socket = None THEN Move(p, "failed") /\ UNCHANGED <<channel, accepted>>
       ELSE IF Serves(socket) /\ Accepts(socket, p)
       THEN /\ channel' = [channel EXCEPT ![socket] = Append(@, p)]
            /\ accepted' = [accepted EXCEPT ![p] = @ + 1]
            /\ \E in_time \in BOOLEAN: Move(p, IF in_time THEN "forwarded" ELSE "failed")
       ELSE Move(p, "failed") /\ UNCHANGED <<channel, accepted>>
    /\ UNCHANGED <<unix, lock, socket, nonce, presented, pending, dialogs, routed>>

-----------------------------------------------------------------------------
(* The window *)

\* ingress::parse() tells links from paths
IsLink(p) == p \in Link

\* route_inputs(): a link is queued behind a question to the user
Route(p) ==
    IF IsLink(p)
    THEN pending' = p /\ dialogs' = dialogs + 1 /\ UNCHANGED routed
    ELSE routed' = routed \cup {p} /\ UNCHANGED <<pending, dialogs>>

\* The new owner opens its window with its own inputs
OpenWindow(p) ==
    /\ at[p] = "serving"
    /\ Move(p, "window")
    /\ Route(p)
    /\ UNCHANGED <<unix, lock, socket, nonce, presented, channel, accepted>>

\* The window polls the channel
TryRecv(p) ==
    /\ at[p] = "window" /\ channel[p] # <<>>
    /\ channel' = [channel EXCEPT ![p] = Tail(@)]
    /\ Route(Head(channel[p]))
    /\ UNCHANGED <<unix, at, lock, socket, nonce, presented, accepted>>

\* The answer to the question that is on top: it takes the link that waits, if
\* one still does
AnswerDialog(open) ==
    /\ dialogs > 0
    /\ dialogs' = dialogs - 1
    /\ pending' = None
    /\ routed' = routed \cup (IF open /\ pending # None THEN {pending} ELSE {})
    /\ UNCHANGED <<unix, at, lock, socket, nonce, presented, channel, accepted>>

-----------------------------------------------------------------------------
(* Ending *)

Closed(p) ==
    /\ channel' = [channel EXCEPT ![p] = <<>>]
    /\ IF at[p] = "window" THEN pending' = None /\ dialogs' = 0 ELSE UNCHANGED <<pending, dialogs>>

\* Drop of InstanceOwner: the listener stops first
Stop(p) ==
    /\ Serves(p)
    /\ Move(p, "stopping")
    /\ Closed(p)
    /\ UNCHANGED <<unix, lock, socket, nonce, presented, accepted, routed>>

\* Faulty variant: the lock goes before the socket
UnlinkAfterUnlock(p) ==
    /\ at[p] \in {"stopping", "unlocked"}
    /\ \/ at[p] = "stopping" /\ lock' = None /\ Move(p, "unlocked") /\ UNCHANGED socket
       \/ at[p] = "unlocked" /\ socket' = None /\ Move(p, "ended") /\ UNCHANGED lock
    /\ UNCHANGED <<unix, nonce, presented, channel, accepted, pending, dialogs, routed>>

\* then the socket goes, if it is still this owner's, and with the last field the lock
Unlink(p) ==
    /\ at[p] = "stopping"
    /\ socket' = IF unix /\ socket = p THEN None ELSE socket
    /\ lock' = None
    /\ Move(p, "ended")
    /\ UNCHANGED <<unix, nonce, presented, channel, accepted, pending, dialogs, routed>>

\* main(): an owner that activates an update drops the instance and starts the new
\* program with the same inputs, which is a process of its own
ActivateUpdate(p) ==
    /\ at[p] = "serving"
    /\ Move(p, "stopping")
    /\ Closed(p)
    /\ UNCHANGED <<unix, lock, socket, nonce, presented, accepted, routed>>

\* A process is killed: only the lock goes with it
Kill(p) ==
    /\ at[p] \in {"locked", "binding", "serving", "window", "stopping"}
    /\ Move(p, "ended")
    /\ lock' = IF lock = p THEN None ELSE lock
    /\ Closed(p)
    /\ UNCHANGED <<unix, socket, nonce, presented, accepted, routed>>

Next ==
    \/ \E p \in Process:
        \/ AcquireInputs(p) \/ RemoveStale(p) \/ WriteNonce(p) \/ Bind(p) \/ BindPort(p)
        \/ ReadNonce(p) \/ Forward(p)
        \/ OpenWindow(p) \/ TryRecv(p)
        \/ Stop(p) \/ Unlink(p) \/ ActivateUpdate(p) \/ Kill(p)
    \/ \E open \in BOOLEAN: AnswerDialog(open)

Spec == Init /\ [][Next]_vars

-----------------------------------------------------------------------------
(* Properties *)

\* Every variable has its type.
TypeOK ==
    /\ unix \in BOOLEAN
    /\ at \in [Process -> {"new", "locked", "binding", "serving", "window", "forwarding",
                           "connecting", "forwarded", "failed", "stopping", "unlocked", "ended"}]
    /\ {lock, socket, nonce, pending} \subseteq Process \cup {None}
    /\ presented \in [Process -> Process \cup {None}]
    /\ channel \in [Process -> Seq(Process)] /\ accepted \in [Process -> Nat]
    /\ dialogs \in Nat /\ routed \subseteq Process

\* An owner that serves can be reached: the endpoint at the path and the nonce in
\* the file are its own, whoever was killed or dropped before it, and no other
\* process serves.
OwnerReachable ==
    \A p \in Process: Serves(p) => lock = p /\ socket = p /\ nonce = p

\* A process that reports its inputs as forwarded has had them accepted, and no
\* inputs are accepted twice.
ForwardedOnce ==
    \A p \in Process: accepted[p] <= 1 /\ (at[p] = "forwarded" => accepted[p] = 1)

=============================================================================
