--------------------------- MODULE ServiceSession ---------------------------
(***************************************************************************)
(* The account session a client application holds (client-core/services/   *)
(* client and account, client-ffi/services, cli/services): one             *)
(* ServiceClient, whose cookie jar and account intent its calls share, one *)
(* slot for the automatic receiver, and the session saved on disk from     *)
(* which the next process starts.                                          *)
(*                                                                         *)
(* Threads of the host call at the same time; its account screen makes one *)
(* account-changing call at a time.  Each call is its requests, in order.  *)
(***************************************************************************)
EXTENDS Naturals, FiniteSets

CONSTANTS Account, Thread, None

VARIABLES
    alive,          \* accounts whose session the server accepts
    jar,            \* the account of the cookies, or None
    intent,         \* account_intent
    account_id,     \* the remembered account of the local receiver, or None
    disk,           \* the account of the saved session, or None
    automatic,      \* the thread whose sweep is registered, or None
    cancelled,      \* threads whose sweep was told to stop
    call,           \* call[t]: None, or the call a thread is in
    told,           \* the account the host was last told it is signed in as, and whether
                    \* it missed that the server accepted a deletion since
    sent,           \* how the last upload was sent or refused
    swept           \* receivers opened for a sweep at this moment

vars == <<alive, jar, intent, account_id, disk, automatic, cancelled, call, told, sent, swept>>

Changing == {"login", "register", "logout", "delete"}

Told(a) == [of |-> a, missed |-> FALSE]

Call(op, at, a) == [op |-> op, at |-> at, account |-> a, clean |-> TRUE]

Init ==
    /\ alive = {} /\ jar = None /\ intent = FALSE /\ account_id = None /\ disk = None
    /\ automatic = None /\ cancelled = {} /\ call = [t \in Thread |-> None]
    /\ told = Told(None) /\ sent = None /\ swept = {}

Idle(t) == call[t] = None

\* A call of another account; a call under way no longer sees one account
Begin(t, op, at, a) ==
    /\ Idle(t)
    /\ op \in Changing => \A u \in Thread: call[u] # None => call[u].op \notin Changing
    /\ call' = [u \in Thread |->
                   IF u = t
                   THEN [Call(op, at, a) EXCEPT !.clean =
                            \A v \in Thread \ {t}: call[v] # None => call[v].op \notin Changing]
                   ELSE IF op \in Changing /\ call[u] # None THEN [call[u] EXCEPT !.clean = FALSE]
                   ELSE call[u]]

At(t, op, at) == call[t] # None /\ call[t].op = op /\ call[t].at = at

Goto(t, at) == call' = [call EXCEPT ![t].at = at]

Return(t) == call' = [call EXCEPT ![t] = None]

\* GET session with the cookies of the jar
Accepted == jar # None /\ jar \in alive

-----------------------------------------------------------------------------
(* Signing in and out *)

\* POST session; the answer sets the cookies
Login(t, a) ==
    /\ Begin(t, "login", "session", a)
    /\ jar' = a /\ alive' = alive \cup {a}
    /\ UNCHANGED <<intent, account_id, disk, automatic, cancelled, told, sent, swept>>

\* The canonical session is read with the new cookie; the intent is stored then
LoginSession(t, answered) ==
    /\ At(t, "login", "session")
    /\ IF answered /\ Accepted
       THEN intent' = TRUE /\ Goto(t, "remember")
       ELSE UNCHANGED intent /\ Return(t)
    /\ UNCHANGED <<alive, jar, account_id, disk, automatic, cancelled, told, sent, swept>>

\* register() and accept_invitation(): the answer is the session
Register(t, a) ==
    /\ Begin(t, "register", "session", a)
    /\ jar' = a /\ alive' = alive \cup {a}
    /\ UNCHANGED <<intent, account_id, disk, automatic, cancelled, told, sent, swept>>

\* An answer that cannot be decoded stores nothing
Registered(t, decoded) ==
    /\ At(t, "register", "session")
    /\ IF decoded
       THEN intent' = TRUE /\ Goto(t, "remember")
       ELSE UNCHANGED intent /\ Return(t)
    /\ UNCHANGED <<alive, jar, account_id, disk, automatic, cancelled, told, sent, swept>>

\* remember_session()
Remember(t) ==
    /\ At(t, "login", "remember") \/ At(t, "register", "remember")
    /\ account_id' = call[t].account
    /\ told' = Told(call[t].account)
    /\ Return(t)
    /\ UNCHANGED <<alive, jar, intent, disk, automatic, cancelled, sent, swept>>

\* account_cookie_context() into the host's custody; save_session() of the terminal
\* client, which reads the session first
SaveSession(t) ==
    /\ Idle(t) /\ Accepted
    /\ disk' = jar
    /\ intent' = TRUE
    /\ UNCHANGED <<alive, jar, account_id, automatic, cancelled, call, told, sent, swept>>

\* account_cancel_automatic_receiving()
CancelSweep == cancelled' = IF automatic = None THEN cancelled ELSE cancelled \cup {automatic}

\* The sweep is told to stop before the session ends
Logout(t) ==
    /\ Begin(t, "logout", "delete", jar)
    /\ CancelSweep
    /\ UNCHANGED <<alive, jar, intent, account_id, disk, automatic, told, sent, swept>>

\* DELETE session is answered with a guest session, or fails
LogoutAnswered(t, ok) ==
    /\ At(t, "logout", "delete")
    /\ IF ok
       THEN alive' = alive \ {jar} /\ jar' = None /\ Goto(t, "forget")
       ELSE UNCHANGED <<alive, jar>> /\ Return(t)
    /\ UNCHANGED <<intent, account_id, disk, automatic, cancelled, told, sent, swept>>

\* clear_session() discards the store of the instance
LogoutForgets(t) ==
    /\ At(t, "logout", "forget")
    /\ intent' = FALSE /\ account_id' = None /\ told' = Told(None) /\ disk' = None
    /\ Return(t)
    /\ UNCHANGED <<alive, jar, automatic, cancelled, sent, swept>>

\* account_delete(): the sweep and the remembered account stay, and the intent is gone
\* with the status of the answer
Delete(t) ==
    /\ Begin(t, "delete", "done", jar)
    /\ jar \in alive
    /\ alive' = alive \ {jar} /\ jar' = None /\ intent' = FALSE
    /\ UNCHANGED <<account_id, disk, automatic, cancelled, told, sent, swept>>

\* Then the body is decoded: where that fails the host is told of an error
Deleted(t, decoded) ==
    /\ At(t, "delete", "done")
    /\ told' = IF decoded THEN Told(None) ELSE [told EXCEPT !.missed = TRUE]
    /\ Return(t)
    /\ UNCHANGED <<alive, jar, intent, account_id, disk, automatic, cancelled, sent, swept>>

\* account_session() and local_account_id(): the answer, then the two stores
Session(t) ==
    /\ Begin(t, "session", "store", jar)
    /\ Accepted
    /\ UNCHANGED <<alive, jar, intent, account_id, disk, automatic, cancelled, told, sent, swept>>

SessionStored(t) ==
    /\ At(t, "session", "store")
    /\ intent' = TRUE /\ account_id' = call[t].account
    /\ Return(t)
    /\ UNCHANGED <<alive, jar, disk, automatic, cancelled, told, sent, swept>>

\* The server forgets a session
Expire(a) ==
    /\ alive' = alive \ {a}
    /\ UNCHANGED <<jar, intent, account_id, disk, automatic, cancelled, call, told, sent, swept>>

-----------------------------------------------------------------------------
(* upload_authentication() *)

Upload(t) ==
    /\ Begin(t, "upload", "intent", told.of)
    /\ UNCHANGED <<alive, jar, intent, account_id, disk, automatic, cancelled, told, sent, swept>>

\* (With the account the host was told of, unless an account call overlaps the upload or
\* the host missed the deletion)
Authenticated(t, as) ==
    /\ sent' = [as |-> as, told |-> IF call[t].clean /\ ~told.missed THEN call[t].account ELSE None]
    /\ Return(t)

ReadIntent(t) ==
    /\ At(t, "upload", "intent")
    /\ IF intent THEN Goto(t, "session") /\ UNCHANGED sent ELSE Authenticated(t, "anonymous")
    /\ UNCHANGED <<alive, jar, intent, account_id, disk, automatic, cancelled, told, swept>>

\* A session that does not validate refuses the upload
Validate(t) ==
    /\ At(t, "upload", "session")
    /\ Authenticated(t, IF Accepted THEN jar ELSE "refused")
    /\ intent' = (intent \/ Accepted)
    /\ UNCHANGED <<alive, jar, account_id, disk, automatic, cancelled, told, swept>>

-----------------------------------------------------------------------------
(* account_receive_automatically() *)

Sweep(t) ==
    /\ automatic = None
    /\ Begin(t, "sweep", "memory", None)
    /\ automatic' = t
    /\ cancelled' = cancelled \ {t}
    /\ UNCHANGED <<alive, jar, intent, account_id, disk, told, sent, swept>>

\* reserve_service_memory() does not wait
SweepStarts(t, ok) ==
    /\ At(t, "sweep", "memory")
    /\ Goto(t, IF ok THEN "session" ELSE "clear")
    /\ UNCHANGED <<alive, jar, intent, account_id, disk, automatic, cancelled, told, sent, swept>>

SweepSession(t) ==
    /\ At(t, "sweep", "session")
    /\ IF Accepted
       THEN /\ call' = [call EXCEPT ![t].at = "open", ![t].account = jar]
            /\ account_id' = jar /\ intent' = TRUE
       ELSE Goto(t, "clear") /\ UNCHANGED <<account_id, intent>>
    /\ UNCHANGED <<alive, jar, disk, automatic, cancelled, told, sent, swept>>

\* check(), the exclusive store of the account's receiver, and its own look at the
\* session
SweepOpen(t) ==
    /\ At(t, "sweep", "open")
    /\ IF t \notin cancelled /\ Accepted /\ jar = call[t].account
       THEN swept' = swept \cup {<<t, jar>>} /\ Goto(t, "listing")
       ELSE UNCHANGED swept /\ Goto(t, "clear")
    /\ UNCHANGED <<alive, jar, intent, account_id, disk, automatic, cancelled, told, sent>>

SweepEnds(t) ==
    /\ At(t, "sweep", "listing")
    /\ swept' = swept \ {<<t, call[t].account>>}
    /\ Goto(t, "clear")
    /\ UNCHANGED <<alive, jar, intent, account_id, disk, automatic, cancelled, told, sent>>

SweepClears(t) ==
    /\ At(t, "sweep", "clear")
    /\ automatic' = None
    /\ Return(t)
    /\ UNCHANGED <<alive, jar, intent, account_id, disk, cancelled, told, sent, swept>>

\* account_receiver_state_json(FALSE): the user turns automatic receiving off
ReceiverOff(t) ==
    /\ Idle(t) /\ automatic # None
    /\ CancelSweep
    /\ UNCHANGED <<alive, jar, intent, account_id, disk, automatic, call, told, sent, swept>>

-----------------------------------------------------------------------------

\* Faulty variant: the client learns of its session later
RestoredBlind == FALSE

\* new_with_cookie_context(): a saved session is an intent
Restored == disk # None

\* The process ends and starts again with what was saved
Restart ==
    /\ told # Told(disk) \/ \E t \in Thread: ~Idle(t)
    /\ jar' = disk /\ intent' = Restored /\ told' = Told(disk)
    /\ account_id' = None /\ automatic' = None /\ cancelled' = {} /\ swept' = {}
    /\ call' = [t \in Thread |-> None] /\ sent' = None
    /\ UNCHANGED <<alive, disk>>

Next ==
    \/ \E t \in Thread, a \in Account: Login(t, a) \/ Register(t, a)
    \/ \E t \in Thread, ok \in BOOLEAN: \/ LoginSession(t, ok) \/ Registered(t, ok)
                                        \/ LogoutAnswered(t, ok) \/ Deleted(t, ok)
                                        \/ SweepStarts(t, ok)
    \/ \E t \in Thread: \/ Remember(t) \/ SaveSession(t) \/ Logout(t) \/ LogoutForgets(t)
                        \/ Delete(t) \/ Session(t) \/ SessionStored(t)
                        \/ Upload(t) \/ ReadIntent(t) \/ Validate(t)
                        \/ Sweep(t) \/ SweepSession(t) \/ SweepOpen(t) \/ SweepEnds(t)
                        \/ SweepClears(t) \/ ReceiverOff(t)
    \/ \E a \in Account: Expire(a)
    \/ Restart

Spec == Init /\ [][Next]_vars

-----------------------------------------------------------------------------

\* Every variable has its type
TypeOK ==
    /\ alive \subseteq Account /\ {jar, account_id, disk, told.of} \subseteq Account \cup {None}
    /\ intent \in BOOLEAN /\ automatic \in Thread \cup {None} /\ cancelled \subseteq Thread
    /\ swept \subseteq Thread \X Account
    /\ \A t \in Thread: Idle(t) \/ (call[t].op \in Changing \cup {"session", "upload", "sweep"}
                                    /\ call[t].account \in Account \cup {None} /\ call[t].clean \in BOOLEAN)

\* An upload of a host that was told it is signed in is never sent anonymously:
\* after expiry, failed calls and a restart from the saved session it is refused
\* (unless an account call overlaps it, or the server deleted the account in answer to
\* a call of this process whose answer the host did not learn)
NeverAnonymous ==
    sent # None => (sent.told # None => sent.as # "anonymous")

\* The slot belongs to the sweep that is running, one at a time, and comes back on
\* every path: automatic receiving can always be started again
SlotReturned ==
    /\ automatic # None => ~Idle(automatic) /\ call[automatic].op = "sweep"
    /\ \A t \in Thread: ~Idle(t) /\ call[t].op = "sweep" => automatic = t
    /\ Cardinality(swept) <= 1
=============================================================================
