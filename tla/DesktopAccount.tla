--------------------------- MODULE DesktopAccount ---------------------------
(***************************************************************************)
(* The account side of the desktop worker (desktop/client): the server it  *)
(* talks to, the session it holds, what the snapshot shows of an account,  *)
(* and the thread that receives an inbox in the background.                *)
(*                                                                         *)
(* One worker thread handles the commands of the views in order; receiver  *)
(* threads it started run beside it and publish under the snapshot's lock. *)
(* A command is one step: it makes several calls, each of which may fail,  *)
(* and a failure ends it where it stands.  The configuration file is       *)
(* shared with other programs, which may change the server in it.          *)
(***************************************************************************)
EXTENDS Naturals, Sequences

CONSTANTS
    Origin,      \* servers
    Account,     \* the names accounts go by: an email, and the number at a server
    Member,      \* pairs of a server and an account it has
    MaxThreads,  \* bound on the receiver threads started
    MaxCommands, \* bound on the commands handled, over all launches
    None

VARIABLES
    valid,       \* sessions the servers honour: pairs of a server and an account
    enabled,     \* automatic receiving, by server and account
    file,        \* the server in the configuration file
    disk,        \* disk[o]: the session record kept for server o
    desk,        \* the worker: config, store, service, accountId
    snap,        \* what the views are shown, each part by the member it is of
    threads,     \* the receiver threads, in the order they were started
    current,     \* the thread the worker remembers, 0 for none
    handled      \* commands handled so far

vars == <<valid, enabled, file, disk, desk, snap, threads, current, handled>>

\* A session's cookie: who issued it, and for which account
Cookie == [from: Origin, account: Account]

\* new_with_cookie_context(): a client of server o
Client(o, cookie) == [origin |-> o, cookie |-> cookie, intent |-> cookie # None]

\* The server knows the session, among the sessions vs
HonouredBy(s, vs) ==
    IF s.cookie = None THEN FALSE
    ELSE s.cookie.from = s.origin /\ <<s.origin, s.cookie.account>> \in vs

Honoured(s) == HonouredBy(s, valid)

\* The member a session is of: two servers may have an account of one name
Of(s) == <<s.origin, s.cookie.account>>

\* service(): the client in memory, or one made from the session record
Service == IF desk.service # None THEN desk.service ELSE Client(desk.store, disk[desk.store])

\* Every request of the account is answered, refused for want of a session, or fails
Answers(s) == IF Honoured(s) THEN {"ok", "error"} ELSE {"auth", "error"}

Blank(o) ==
    [url |-> o, account |-> None, history |-> None, staged |-> None,
     policy |-> [origin |-> o, availability |-> "unavailable"]]

Init ==
    /\ valid = {}
    /\ enabled = {}
    /\ file \in Origin
    /\ disk = [o \in Origin |-> None]
    /\ desk = [config |-> file, store |-> file, service |-> Client(file, None),
               accountId |-> None]
    /\ snap = Blank(file)
    /\ threads = <<>>
    /\ current = 0
    /\ handled = 0

-----------------------------------------------------------------------------
(* Parts of commands, as functions of the state they change *)

\* The worker forgets its receiver thread and tells it to stop
Cancelled == [i \in DOMAIN threads |->
                 IF i = current THEN [threads[i] EXCEPT !.live = FALSE] ELSE threads[i]]

\* refresh_policy(), for the server in the worker's configuration
Policy(sn, ok) ==
    [sn EXCEPT !.policy =
        [origin |-> desk.config,
         availability |-> IF ok THEN "available"
                          ELSE IF @.origin = desk.config /\ @.availability # "unavailable"
                               THEN "cached" ELSE "unavailable"]]

\* set_account() for member m: the history of another email is dropped, that of
\* the same email at another server is not
SameEmail(m, n) == m # None /\ n # None /\ m[2] = n[2]

SetAccount(sn, m) ==
    [sn EXCEPT !.account = m,
               !.history = IF SameEmail(sn.account, m) THEN @ ELSE None]

\* The store of a staged inbox is locked by a sweep in progress
StoreFree(ths, o, a) ==
    \A i \in DOMAIN ths: ths[i].pc = "sweep" => ~(ths[i].origin = o /\ ths[i].account = a)

\* start_inbox_receiver() with client s, when its calls succeed: the staged
\* entries are shown, and a thread is started if the account wants one
MayStart(s, ths, cur, vs) ==
    cur = 0 => IF HonouredBy(s, vs) THEN StoreFree(ths, s.origin, s.cookie.account) ELSE FALSE

Starts(s, cur, en) == cur = 0 /\ <<s.origin, s.cookie.account>> \in en

Started(s, ths, cur, en) ==
    IF ~Starts(s, cur, en) THEN ths
    ELSE Append(ths, [origin |-> s.origin, account |-> s.cookie.account,
                      live |-> TRUE, pc |-> "wait"])

Staged(s, sn, cur) == IF cur = 0 THEN [sn EXCEPT !.staged = Of(s)] ELSE sn

\* The end of a command that starts the receiver, with snapshot sn, sessions vs and
\* automatic receiving en: the calls of start_inbox_receiver() succeed or one fails
StartReceiver(s, sn, ths, cur, vs, en) ==
    \/ /\ MayStart(s, ths, cur, vs)
       /\ Len(Started(s, ths, cur, en)) <= MaxThreads
       /\ snap' = Staged(s, sn, cur)
       /\ threads' = Started(s, ths, cur, en)
       /\ current' = IF Starts(s, cur, en) THEN Len(threads') ELSE cur
    \/ /\ snap' = sn
       /\ threads' = ths
       /\ current' = cur

-----------------------------------------------------------------------------
(* Commands *)

\* refresh_account(): an expired session clears the account and its history
RefreshAccount ==
    /\ \E policy \in BOOLEAN, answer \in Answers(Service):
        LET sn == Policy(snap, policy)
            m == Of(Service)
        IN  CASE answer = "ok" ->
                    /\ desk' = [desk EXCEPT !.accountId = m[2]]
                    /\ \/ StartReceiver(Service, SetAccount(sn, m), threads, current, valid, enabled)
                       \/ /\ snap' = SetAccount(sn, m)   \* the custody cannot be read
                          /\ UNCHANGED <<threads, current>>
              [] answer = "auth" ->
                    /\ snap' = [sn EXCEPT !.account = None, !.history = None]
                    /\ UNCHANGED <<desk, threads, current>>
              [] answer = "error" ->
                    /\ snap' = sn
                    /\ UNCHANGED <<desk, threads, current>>
    /\ UNCHANGED <<valid, enabled, file, disk>>

\* The client and the records of a new session of account a
Session(a) == Client(desk.config, [from |-> desk.config, account |-> a])

SignedIn(a, policy) == Policy(SetAccount(snap, <<desk.config, a>>), policy)

\* A command of the account that ends early: the receiver is gone all the same
ReceiverOnly ==
    /\ threads' = Cancelled
    /\ current' = 0
    /\ UNCHANGED <<disk, desk, snap>>

\* Faulty variant: the receiver of the previous account keeps running
LoginKeepsReceiver(a, remember) ==
    /\ valid' = valid \cup {<<desk.config, a>>}
    /\ disk' = [disk EXCEPT ![desk.store] = IF remember THEN Session(a).cookie ELSE None]
    /\ desk' = [desk EXCEPT !.service = Session(a), !.accountId = a]
    /\ \E policy \in BOOLEAN:
          StartReceiver(Session(a), SignedIn(a, policy), threads, current, valid', enabled)
    /\ UNCHANGED <<enabled, file>>

\* login(): a session of the server in the configuration, its record in the store
\* of the server before if the settings were reloaded since, then everything shown.
\* A refusal, a lost answer or a record that cannot be saved ends the command with
\* the old client in place.
Login(a, remember) ==
    /\ \/ valid' \in {valid, valid \cup {<<desk.config, a>>}} /\ ReceiverOnly
       \/ /\ valid' = valid \cup {<<desk.config, a>>}
          /\ disk' = [disk EXCEPT ![desk.store] = IF remember THEN Session(a).cookie ELSE None]
          /\ desk' = [desk EXCEPT !.service = Session(a), !.accountId = a]
          /\ \E policy \in BOOLEAN:
                StartReceiver(Session(a), SignedIn(a, policy), Cancelled, 0, valid', enabled)
    /\ UNCHANGED <<enabled, file>>

\* register(): the session is not saved, and the staged entries shown (and
\* the contacts) are left as they are
Register(a) ==
    /\ \/ valid' \in {valid, valid \cup {<<desk.config, a>>}} /\ ReceiverOnly
       \/ /\ valid' = valid \cup {<<desk.config, a>>}
          /\ desk' = [desk EXCEPT !.service = Session(a), !.accountId = a]
          /\ \E policy \in BOOLEAN: snap' = SignedIn(a, policy)
          /\ threads' = Cancelled /\ current' = 0
          /\ UNCHANGED disk
    /\ UNCHANGED <<enabled, file>>

\* logout(): a refused or failed request, or a record that cannot be removed,
\* keeps the client and what is shown
Logout ==
    /\ \/ /\ desk' = [desk EXCEPT !.accountId = None]
          /\ valid' \in {valid} \cup (IF Honoured(Service)
                                      THEN {valid \ {<<Service.origin, Service.cookie.account>>}}
                                      ELSE {})
          /\ UNCHANGED <<disk, snap>>
       \/ /\ Honoured(Service)
          /\ valid' = valid \ {<<Service.origin, Service.cookie.account>>}
          /\ disk' = [disk EXCEPT ![desk.store] = None]
          /\ desk' = [desk EXCEPT !.accountId = None, !.service = None]
          /\ snap' = [snap EXCEPT !.account = None, !.history = None,
                                  !.staged = None]
    /\ threads' = Cancelled /\ current' = 0
    /\ UNCHANGED <<enabled, file>>

\* change_instance(): the receiver is gone before the address is looked at; the
\* file and the store are replaced before the new client can be made
ChangeInstance(o) ==
    /\ threads' = Cancelled /\ current' = 0
    /\ \/ /\ desk' = [desk EXCEPT !.accountId = None]                 \* not an address
          /\ UNCHANGED <<file, snap>>
       \/ /\ file' = o                                   \* the record cannot be read
          /\ desk' = [desk EXCEPT !.accountId = None, !.store = o]
          /\ UNCHANGED snap
       \/ /\ file' = o
          /\ desk' = [config |-> o, store |-> o, service |-> Client(o, disk[o]),
                      accountId |-> None]
          /\ snap' = Blank(o)
    /\ UNCHANGED <<valid, enabled, disk>>

\* reload_settings(): the configuration is read again; the store and the client
\* stay those of the server before
ReloadSettings ==
    /\ desk' = [desk EXCEPT !.config = file]
    /\ UNCHANGED <<valid, enabled, file, disk, snap, threads, current>>

\* refresh_history(), which is also how an action on the history ends: the
\* session is read first, and its account shown
RefreshHistory ==
    /\ \E answer \in Answers(Service), page \in BOOLEAN:
        IF answer = "ok"
        THEN LET m == Of(Service)
                 sn == SetAccount(snap, m)
             IN  /\ desk' = [desk EXCEPT !.accountId = m[2]]
                 /\ snap' = [sn EXCEPT !.history = IF page THEN m ELSE None]
        ELSE UNCHANGED desk /\ snap' = [snap EXCEPT !.history = None]
    /\ UNCHANGED <<valid, enabled, file, disk, threads, current>>

\* AutomaticReceiving: the choice is kept for the account remembered, or the one on
\* disk; the receiver is then started for the account of the session
AutomaticReceiving(on) ==
    LET record == disk[desk.store]
        id == IF desk.accountId # None THEN desk.accountId
              ELSE IF record # None THEN record.account ELSE None
        key == <<Service.origin, id>>
    IN  /\ \/ /\ snap' = snap /\ threads' = Cancelled /\ current' = 0
              /\ UNCHANGED enabled
           \/ /\ id # None /\ StoreFree(Cancelled, Service.origin, id)
              /\ enabled' = IF on THEN enabled \cup {key} ELSE enabled \ {key}
              /\ StartReceiver(Service, snap, Cancelled, 0, valid, enabled')
        /\ UNCHANGED <<valid, file, disk, desk>>

\* delete_account(): the server's session ends, and nothing shown changes
DeleteAccount ==
    /\ Honoured(Service)
    /\ valid' = valid \ {<<Service.origin, Service.cookie.account>>}
    /\ desk' = [desk EXCEPT !.service = IF @ = None THEN None ELSE [@ EXCEPT !.intent = FALSE]]
    /\ UNCHANGED <<enabled, file, disk, snap, threads, current>>

\* The program ends and is started again: run() and its first refresh follow
Restart ==
    /\ desk' = [config |-> file, store |-> file, service |-> Client(file, disk[file]),
                accountId |-> None]
    /\ snap' = Blank(file)
    /\ threads' = [i \in DOMAIN threads |-> [threads[i] EXCEPT !.live = FALSE, !.pc = "ended"]]
    /\ current' = 0
    /\ UNCHANGED <<valid, enabled, file, disk>>

-----------------------------------------------------------------------------
(* Receiver threads, other programs, servers *)

\* A sweep opens the account's store, which locks it
Sweep(i) ==
    /\ threads[i].pc = "wait" /\ threads[i].live
    /\ StoreFree(threads, threads[i].origin, threads[i].account)
    /\ threads' = [threads EXCEPT ![i].pc = "sweep"]
    /\ UNCHANGED <<valid, enabled, file, disk, desk, snap, current>>

\* The sweep ends: its entries are shown unless the thread was told to stop, or
\* the server shown is another, or nobody is signed in
Publish(i) ==
    /\ threads[i].pc = "sweep"
    /\ threads' = [threads EXCEPT ![i].pc = "wait"]
    /\ snap' = IF threads[i].live /\ snap.url = threads[i].origin /\ snap.account # None
               THEN [snap EXCEPT !.staged = <<threads[i].origin, threads[i].account>>] ELSE snap
    /\ UNCHANGED <<valid, enabled, file, disk, desk, current>>

EndThread(i) ==
    /\ threads[i].pc = "wait" /\ ~threads[i].live
    /\ threads' = [threads EXCEPT ![i].pc = "ended"]
    /\ UNCHANGED <<valid, enabled, file, disk, desk, snap, current>>

\* Another program, or an editor, changes the server in the shared file
EditConfig(o) ==
    /\ file' = o
    /\ UNCHANGED <<valid, enabled, disk, desk, snap, threads, current>>

\* A server forgets a session
Expire(o, a) ==
    /\ <<o, a>> \in valid
    /\ valid' = valid \ {<<o, a>>}
    /\ UNCHANGED <<enabled, file, disk, desk, snap, threads, current>>

Command ==
    \/ RefreshAccount \/ RefreshHistory
    \/ \E a \in {x \in Account: <<desk.config, x>> \in Member}:
        Register(a) \/ (\E remember \in BOOLEAN: Login(a, remember))
    \/ Logout \/ DeleteAccount
    \/ \E o \in Origin: ChangeInstance(o)
    \/ ReloadSettings
    \/ \E on \in BOOLEAN: AutomaticReceiving(on)

Next ==
    \/ handled < MaxCommands /\ handled' = handled + 1 /\ (Command \/ Restart)
    \/ /\ \/ \E i \in DOMAIN threads: Sweep(i) \/ Publish(i) \/ EndThread(i)
          \/ \E o \in Origin: EditConfig(o)
          \/ \E m \in Member: Expire(m[1], m[2])
       /\ UNCHANGED handled

Spec == Init /\ [][Next]_vars

-----------------------------------------------------------------------------
(* Properties *)

MemberOrNone == (Origin \X Account) \cup {None}

\* Every variable has its type.
TypeOK ==
    /\ valid \subseteq Origin \X Account
    /\ enabled \subseteq Origin \X Account
    /\ file \in Origin
    /\ disk \in [Origin -> Cookie \cup {None}]
    /\ desk.config \in Origin /\ desk.store \in Origin /\ desk.accountId \in Account \cup {None}
    /\ desk.service = None \/
          desk.service \in [origin: Origin, cookie: Cookie \cup {None}, intent: BOOLEAN]
    /\ snap.url \in Origin
    /\ {snap.account, snap.history, snap.staged} \subseteq MemberOrNone
    /\ snap.policy \in [origin: Origin, availability: {"available", "cached", "unavailable"}]
    /\ threads \in Seq([origin: Origin, account: Account, live: BOOLEAN,
                        pc: {"wait", "sweep", "ended"}])
    /\ current \in 0..Len(threads)
    /\ handled \in 0..MaxCommands

\* The history shown is that of an account of the email shown, through every sign-in,
\* expiry and change of server: of the account shown itself, unless two servers have
\* one of that email.
HistoryOfAccount == snap.history # None => SameEmail(snap.history, snap.account)

\* At most one receiver thread has not been told to stop.  It is the one the worker
\* remembers, it receives for the server and the account of the worker's session, and
\* the staged entries are that account's at that server; while the worker holds its
\* client and shows an account, it is the account shown.
ReceiverOfAccount ==
    \A i \in DOMAIN threads: threads[i].live =>
        /\ i = current
        /\ <<threads[i].origin, threads[i].account>> = Of(Service)
        /\ snap.staged = Of(Service)
        /\ (desk.service # None /\ snap.account # None) => snap.account = Of(Service)
=============================================================================
