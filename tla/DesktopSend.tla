----------------------------- MODULE DesktopSend -----------------------------
(***************************************************************************)
(* Sharing files from the desktop (desktop/views/send over desktop/client  *)
(* and client-core link_presentation).  The panel keeps a draft and builds *)
(* a command from the policy it last saw; the worker handles the command   *)
(* later, against the policy, the server and the accounts of that moment,  *)
(* and publishes a link with its key or without.                           *)
(*                                                                         *)
(* The policy of a server, who holds a user name there, and the server     *)
(* itself may all change between the choice, the submission and the        *)
(* handling.  The settings may be reloaded with another server in them:    *)
(* the worker then uploads to that one, while its client, which looks up   *)
(* recipients and contacts, stays the one of the server before.            *)
(***************************************************************************)
EXTENDS Naturals, FiniteSets, Sequences

CONSTANTS
    Origin,     \* servers
    Policies,   \* policies a server may have: [http, live, anonymous, options, default]
    Username,   \* user names of recipients
    MaxId,      \* bound: accounts that may hold a user name one after the other
    MaxSends,   \* bound: transfers that are started
    None

VARIABLES
    real,       \* real[o]: the policy of the server
    holder,     \* holder[o][u]: the number of the account that holds the user name
    config,     \* the server of the configuration
    client,     \* the server of the worker's client
    policy,     \* the policy of the snapshot
    signed_in,  \* the client has a session
    contacts,   \* the contacts of the snapshot, by the server they are of, or None
    draft,      \* the draft of the panel
    queue,      \* the command that waits for the worker, or None
    row         \* the transfers of the runtime, in order

vars == <<real, holder, config, client, policy, signed_in, contacts, draft, queue, row>>

\* A policy that is unavailable.  (One kept after a failed refresh is only marked as
\* cached, which makes no difference to what is sent.)
Unknown(origin) == [origin |-> origin, of |-> None]

NewDraft == [transport |-> "http", edited |-> FALSE, hours |-> None,
             recipient |-> None, chosen |-> None]

Init ==
    /\ real \in [Origin -> Policies]
    /\ holder = [o \in Origin |-> [u \in Username |-> 1]]
    /\ config \in Origin /\ client = config
    /\ policy = Unknown(config)
    /\ signed_in = FALSE
    /\ contacts = None
    /\ draft = NewDraft
    /\ queue = None
    /\ row = <<>>

-----------------------------------------------------------------------------
(* The world *)

\* Bound: what changes after the last transfer was started changes nothing more
Open == Len(row) < MaxSends

\* The operator changes the policy of a server
SetPolicy(o, p) ==
    /\ Open /\ real[o] # p
    /\ real' = [real EXCEPT ![o] = p]
    /\ UNCHANGED <<holder, config, client, policy, signed_in, contacts, draft, queue, row>>

\* An account is deleted and its user name registered again
Reregister(o, u) ==
    /\ Open /\ holder[o][u] < MaxId
    /\ holder' = [holder EXCEPT ![o][u] = @ + 1]
    /\ UNCHANGED <<real, config, client, policy, signed_in, contacts, draft, queue, row>>

-----------------------------------------------------------------------------
(* The panel *)

\* lifetime_choices(): the options of the policy, and the choice that was made before
LifetimeChoices ==
    {None, draft.hours} \cup (IF policy.of = None THEN {} ELSE policy.of.options)

\* Nor does an edit while the command that was built waits
Edit(new) ==
    /\ Open /\ queue = None
    /\ draft' = new
    /\ UNCHANGED <<real, holder, config, client, policy, signed_in, contacts, queue, row>>

ChooseTransport(t) == Edit([draft EXCEPT !.transport = t, !.edited = TRUE])

ChooseLifetime(h) == h \in LifetimeChoices /\ Edit([draft EXCEPT !.hours = h])

TypeRecipient(u) == Edit([draft EXCEPT !.recipient = u])

\* A contact of the list: the name and the number of its account.  (The server it was
\* chosen at is kept for the properties alone.)
ChooseContact(u) ==
    /\ contacts # None
    /\ Edit([draft EXCEPT !.recipient = u,
                           !.chosen = <<u, contacts.of[u], contacts.origin>>])

\* refresh_policy() of the panel: the server's default unless the user chose
ApplyServerDefault ==
    /\ policy.of # None /\ ~draft.edited
    /\ Edit([draft EXCEPT !.transport = policy.of.default])

Enabled(p, transport) == IF transport = "http" THEN p.http ELSE p.live

\* The account the user chose, as long as the field still shows its name
ChosenAccount ==
    IF draft.chosen = None THEN None
    ELSE IF draft.chosen[1] = draft.recipient THEN <<draft.chosen[3], draft.chosen[2]>> ELSE None

\* Faulty variant: only the user name travels
NameOnly == None

\* from_inputs(): the number of the account travels with the name
ExpectedRecipient == IF ChosenAccount = None THEN None ELSE ChosenAccount[2]

\* build_command_for_policy()
Compatible ==
    /\ Enabled(policy.of, draft.transport)
    /\ draft.hours = None \/ draft.hours \in policy.of.options
    /\ draft.recipient # None => signed_in /\ draft.transport = "http"
    /\ draft.recipient = None => policy.of.anonymous

\* submit(): dispatch() when the command could be built, with the preference of the
\* moment whether the link is to carry the key
Submit(include_key) ==
    /\ Open /\ queue = None
    /\ IF policy.of = None THEN FALSE ELSE Compatible
    /\ queue' = [transport |-> draft.transport, hours |-> draft.hours,
                 recipient |-> draft.recipient, expected |-> ExpectedRecipient,
                 asked |-> ChosenAccount,
                 include_key |-> include_key]
    /\ UNCHANGED <<real, holder, config, client, policy, signed_in, contacts, draft, row>>

-----------------------------------------------------------------------------
(* The worker *)

\* refresh_policy(): what is known of another server is worth nothing
Refreshed(answered) ==
    IF answered THEN [origin |-> config, of |-> real[config]]
    ELSE IF policy.origin = config THEN policy ELSE Unknown(config)

RefreshPolicy(answered) ==
    /\ Open
    /\ policy' = Refreshed(answered)
    /\ UNCHANGED <<real, holder, config, client, signed_in, contacts, draft, queue, row>>

\* change_instance(): the choice of a contact stays in the draft
ChangeInstance(o) ==
    /\ Open /\ (o # config \/ o # client)
    /\ config' = o /\ client' = o
    /\ policy' = Unknown(o)
    /\ signed_in' = FALSE
    /\ contacts' = None
    /\ UNCHANGED <<real, holder, draft, queue, row>>

\* reload_settings() when another program changed the server in the file
ReloadSettings(o) ==
    /\ Open /\ o # config
    /\ config' = o
    /\ UNCHANGED <<real, holder, client, policy, signed_in, contacts, draft, queue, row>>

\* The contacts of server o; a failure is passed over
Listed(o) == {contacts, [origin |-> o, of |-> holder[o]]}

\* refresh_account(): the policy, then the session of the client, and its contacts; a
\* session that has ended leaves the contacts
RefreshAccount(answered, session) ==
    /\ Open
    /\ signed_in' = session
    /\ policy' = Refreshed(answered)
    /\ contacts' \in IF session THEN Listed(client) ELSE {contacts}
    /\ UNCHANGED <<real, holder, config, client, draft, queue, row>>

\* login(): at the server of the configuration, with a client of its own
Login(answered) ==
    /\ Open
    /\ client' = config
    /\ signed_in' = TRUE
    /\ policy' = Refreshed(answered)
    /\ contacts' \in Listed(config)
    /\ UNCHANGED <<real, holder, config, draft, queue, row>>

\* validate_send_policy()
ValidSendPolicy(request) ==
    /\ policy.origin = config
    /\ IF policy.of = None THEN FALSE
       ELSE /\ Enabled(policy.of, request.transport)
            /\ policy.of.anonymous \/ signed_in
            /\ request.hours = None \/ request.hours \in policy.of.options

\* The recipient is looked up by name at the client's server
RecipientOf(request) ==
    IF request.recipient = None THEN None ELSE holder[client][request.recipient]

\* start_send(): the recipient must have the number that was chosen.  The upload starts
\* at the server of the configuration, for the account of that number, or the command
\* fails.
StartSend ==
    /\ queue # None
    /\ queue' = None
    /\ IF /\ ValidSendPolicy(queue)
          /\ queue.recipient # None => signed_in
          /\ queue.expected = None \/ queue.expected = RecipientOf(queue)
       THEN row' = Append(row, [transport |-> queue.transport, hours |-> queue.hours,
                                to |-> RecipientOf(queue), asked |-> queue.asked,
                                origin |-> config, under |-> policy,
                                apart |-> ~queue.include_key, remembered |-> TRUE,
                                link |-> None, shown |-> None])
       ELSE UNCHANGED row
    /\ UNCHANGED <<real, holder, config, client, policy, signed_in, contacts, draft>>

\* The job reports its link, key included
ShareReady(i) ==
    /\ row[i].link # "keyed"
    /\ row' = [row EXCEPT ![i].link = "keyed"]
    /\ UNCHANGED <<real, holder, config, client, policy, signed_in, contacts, draft, queue>>

\* split_share_link(): the key is taken out where the worker remembers that it was
\* asked to
Presented(r) ==
    IF r.link = "keyed" /\ r.remembered /\ r.apart THEN "bare" ELSE r.link

\* publish()
Publish ==
    /\ row' = [i \in DOMAIN row |-> [row[i] EXCEPT !.shown = Presented(row[i])]]
    /\ UNCHANGED <<real, holder, config, client, policy, signed_in, contacts, draft, queue>>

\* The program starts again with a new draft and a client of the server in the file:
\* the checkpoint keeps the link without its key, and nothing remembers how it was to
\* be shown
Restart ==
    /\ row' = [i \in DOMAIN row |->
                  [row[i] EXCEPT !.remembered = FALSE, !.link = "bare", !.shown = None]]
    /\ queue' = None /\ draft' = NewDraft
    /\ client' = config /\ signed_in' = FALSE /\ contacts' = None
    /\ policy' = Unknown(config)
    /\ UNCHANGED <<real, holder, config>>

Next ==
    \/ \E o \in Origin: ChangeInstance(o) \/ ReloadSettings(o)
    \/ \E o \in Origin, p \in Policies: SetPolicy(o, p)
    \/ \E o \in Origin, u \in Username: Reregister(o, u)
    \/ \E u \in Username: TypeRecipient(u) \/ ChooseContact(u)
    \/ TypeRecipient(None)
    \/ \E t \in {"http", "live"}: ChooseTransport(t)
    \/ \E h \in LifetimeChoices: ChooseLifetime(h)
    \/ \E b \in BOOLEAN: Submit(b) \/ RefreshPolicy(b) \/ Login(b)
    \/ \E b, session \in BOOLEAN: RefreshAccount(b, session)
    \/ ApplyServerDefault \/ StartSend \/ Publish \/ Restart
    \/ \E i \in DOMAIN row: ShareReady(i)

Spec == Init /\ [][Next]_vars

-----------------------------------------------------------------------------
(* Properties *)

\* Every variable has its type.
TypeOK ==
    /\ real \in [Origin -> Policies]
    /\ holder \in [Origin -> [Username -> 1..MaxId]]
    /\ contacts = None \/ contacts \in [origin : Origin, of : [Username -> 1..MaxId]]
    /\ config \in Origin /\ client \in Origin /\ policy.origin \in Origin
    /\ signed_in \in BOOLEAN
    /\ Len(row) <= MaxSends

\* A transfer that was started is the one that was asked for, whatever changed since:
\* the server it goes to, and no other, allowed its transport and its lifetime when last
\* asked, and its recipient has the number of the contact that was chosen.  (Numbers are
\* all that is compared: it is the chosen account itself where the contact was one of the
\* server the transfer goes to.)
SentAsAsked ==
    \A i \in DOMAIN row:
        /\ row[i].under.origin = row[i].origin
        /\ Enabled(row[i].under.of, row[i].transport)
        /\ row[i].hours # None => row[i].hours \in row[i].under.of.options
        /\ row[i].asked # None => row[i].to = row[i].asked[2]

\* While the program runs, a link whose key is to travel apart is never shown with
\* its key.
KeyKeptApart ==
    \A i \in DOMAIN row: row[i].apart /\ row[i].remembered => row[i].shown # "keyed"

=============================================================================
