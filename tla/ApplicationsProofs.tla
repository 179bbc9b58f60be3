------------------------- MODULE ApplicationsProofs -------------------------
(***************************************************************************)
(* Proofs of the properties of Applications for every number of rows,      *)
(* workers, threads, accounts, keys, readers, chunks, products, processes, *)
(* releases, settings, transfers, servers, receiver threads and messages.  *)
(***************************************************************************)
EXTENDS Applications, FiniteSetTheorems, TLAPS

(***************************************************************************)
(* ServiceSession: the account session.                                    *)
(***************************************************************************)

\* The two stores of a session and the calls under way have their types.
SessionTyped ==
  /\ alive \subseteq Account /\ {jar, account_id, stored} \subseteq Account \cup {None} /\ told \in Knowledge
  /\ intent \in BOOLEAN /\ automatic \in Thread \cup {None} /\ cancelled \subseteq Thread
  /\ request \in [Thread -> Calls \cup {None}]

\* A call that changes the account is under way.
ChangingNow(t) == request[t] # None /\ request[t].op \in Session!Changing

\* One account-changing call runs at a time, and no other call that overlaps it
\* counts as clean.
ChangesAlone ==
  \A t, u \in Thread : ChangingNow(t) /\ u # t /\ request[u] # None =>
    request[u].op \notin Session!Changing /\ ~request[u].clean

\* A host that was told it is signed in has stored its intent, unless it is
\* deleting the account or has missed that it was deleted; a clean upload that has yet
\* to read the intent will find it.
IntentStored ==
  /\ told.of # None => intent \/ told.missed \/ \E t \in Thread : Session!At(t, "delete", "done")
  /\ \A t \in Thread : Session!At(t, "login", "remember") \/ Session!At(t, "register", "remember") => intent
  /\ \A t \in Thread : request[t] # None /\ request[t].op = "upload" /\ request[t].at = "intent"
                         /\ request[t].clean /\ request[t].account # None => intent \/ told.missed

\* The slot is that of the running sweep, which has one receiver open while it lists.
SlotExact ==
  /\ automatic # None => request[automatic] # None /\ request[automatic].op = "sweep"
  /\ \A t \in Thread : request[t] # None /\ request[t].op = "sweep" => automatic = t
  /\ \A t \in Thread : request[t] # None /\ request[t].op = "sweep" /\ request[t].at \in {"open", "listing"} =>
       request[t].account \in Account
  /\ swept = {<<t, request[t].account>> : t \in {u \in Thread : Session!At(u, "sweep", "listing")}}

SessionInv == SessionTyped /\ ChangesAlone /\ IntentStored /\ SlotExact /\ Session!NeverAnonymous

\* What Begin does to the call it starts and to those under way.
LEMMA SessionBegins ==
  ASSUME SessionTyped, NEW t \in Thread, NEW o \in CallOps, NEW at \in CallSteps, NEW a \in Account \cup {None},
         Session!Begin(t, o, at, a)
  PROVE  /\ request' \in [Thread -> Calls \cup {None}] /\ request[t] = None
         /\ request'[t] # None /\ request'[t].op = o /\ request'[t].at = at /\ request'[t].account = a
         /\ request'[t].clean <=> \A u \in Thread : ~ChangingNow(u)
         /\ o \in Session!Changing => \A u \in Thread : ~ChangingNow(u)
         /\ \A u \in Thread \ {t} : IF request[u] = None THEN request'[u] = None
              ELSE /\ request'[u] # None /\ request'[u].op = request[u].op /\ request'[u].at = request[u].at
                   /\ request'[u].account = request[u].account
                   /\ request'[u].clean => request[u].clean /\ o \notin Session!Changing
                   /\ o \notin Session!Changing => request'[u] = request[u]
  <1> DEFINE new == [Session!Call(o, at, a) EXCEPT !.clean =
                       \A v \in Thread \ {t} : request[v] # None => request[v].op \notin Session!Changing]
  <1>1. new \in Calls /\ new.op = o /\ new.at = at /\ new.account = a
        /\ (new.clean <=> \A v \in Thread \ {t} : request[v] # None => request[v].op \notin Session!Changing)
    BY DEF Session!Call, Calls
  <1>2. request[t] = None /\ request'[t] = new
    BY DEF Session!Begin, Session!Idle
  <1>3. \A u \in Thread : request[u] # None => request[u] \in Calls
    BY DEF SessionTyped
  <1>4. \A u \in Thread \ {t} : request'[u] = IF o \in Session!Changing /\ request[u] # None
                                              THEN [request[u] EXCEPT !.clean = FALSE] ELSE request[u]
    BY DEF Session!Begin
  <1>5. \A u \in Thread : request[u] # None =>
          LET x == [request[u] EXCEPT !.clean = FALSE]
          IN  x \in Calls /\ x.op = request[u].op /\ x.at = request[u].at /\ x.account = request[u].account /\ ~x.clean
    BY <1>3 DEF Calls
  <1>6. \A x \in Calls : x # None
    BY ApplicationsAssumption DEF SessionConstants
  <1>7. DOMAIN request' = Thread /\ request' = [u \in Thread |-> request'[u]]
    BY DEF Session!Begin
  <1> HIDE DEF new
  <1>8. request' \in [Thread -> Calls \cup {None}]
    BY <1>1, <1>2, <1>3, <1>4, <1>5, <1>7
  <1>9. \A u \in Thread : request[u] # None => request[u].op \notin Session!Changing \/ ChangingNow(u)
    BY DEF ChangingNow
  <1>10. (\A u \in Thread : ~ChangingNow(u)) <=> \A v \in Thread \ {t} : request[v] # None => request[v].op \notin Session!Changing
    BY <1>2 DEF ChangingNow
  <1>11. o \in Session!Changing => \A u \in Thread : ~ChangingNow(u)
    BY DEF Session!Begin, ChangingNow
  <1>12. request'[t] # None /\ request'[t].op = o /\ request'[t].at = at /\ request'[t].account = a
         /\ (request'[t].clean <=> \A u \in Thread : ~ChangingNow(u))
    BY <1>1, <1>2, <1>6, <1>10
  <1>13. ASSUME NEW u \in Thread \ {t}
         PROVE  IF request[u] = None THEN request'[u] = None
                ELSE /\ request'[u] # None /\ request'[u].op = request[u].op /\ request'[u].at = request[u].at
                     /\ request'[u].account = request[u].account
                     /\ request'[u].clean => request[u].clean /\ o \notin Session!Changing
                     /\ o \notin Session!Changing => request'[u] = request[u]
    BY <1>3, <1>4, <1>5, <1>6
  <1> QED
    BY <1>2, <1>8, <1>11, <1>12, <1>13

\* A step inside a call leaves the other calls alone.
LEMMA SessionMoves ==
  ASSUME SessionTyped, NEW t \in Thread, request[t] # None, NEW at \in CallSteps, Session!Goto(t, at)
  PROVE  /\ request' \in [Thread -> Calls \cup {None}]
         /\ request'[t] # None /\ request'[t].op = request[t].op /\ request'[t].at = at
         /\ request'[t].account = request[t].account /\ request'[t].clean = request[t].clean
         /\ \A u \in Thread \ {t} : request'[u] = request[u]
  <1>1. request[t] \in Calls
    BY DEF SessionTyped
  <1> DEFINE x == [request[t] EXCEPT !.at = at]
  <1>2. x \in Calls /\ x.op = request[t].op /\ x.at = at /\ x.account = request[t].account /\ x.clean = request[t].clean
    BY <1>1 DEF Calls
  <1>3. request' = [request EXCEPT ![t] = x]
    BY DEF Session!Goto
  <1>4. x # None
    BY <1>2, ApplicationsAssumption DEF SessionConstants
  <1> HIDE DEF x
  <1> QED
    BY <1>2, <1>3, <1>4 DEF SessionTyped

\* A call that returns leaves the others alone.
LEMMA SessionReturns ==
  ASSUME SessionTyped, NEW t \in Thread, Session!Return(t)
  PROVE  /\ request' \in [Thread -> Calls \cup {None}] /\ request'[t] = None
         /\ \A u \in Thread \ {t} : request'[u] = request[u]
  BY DEF SessionTyped, Session!Return

\* Calls that go on or end are as much alone as they were.
LEMMA AloneKept ==
  ASSUME ChangesAlone,
         \A u \in Thread : request'[u] # None =>
           request[u] # None /\ request'[u].op = request[u].op /\ (request'[u].clean => request[u].clean)
  PROVE  ChangesAlone'
  BY DEF ChangesAlone, ChangingNow

\* A call that starts is alone if it changes the account, and is clean only if
\* no call that does is under way.
LEMMA AloneBegins ==
  ASSUME SessionTyped, ChangesAlone, NEW t \in Thread, NEW o \in CallOps, NEW at \in CallSteps,
         NEW a \in Account \cup {None}, Session!Begin(t, o, at, a)
  PROVE  ChangesAlone'
  <1> USE SessionBegins
  <1>1. \A u \in Thread \ {t} : request'[u] # None => request[u] # None /\ request'[u].op = request[u].op
                                  /\ (request'[u].clean => request[u].clean /\ o \notin Session!Changing)
    OBVIOUS
  <1>2. request'[t].op = o /\ (o \in Session!Changing => \A u \in Thread : ~ChangingNow(u))
        /\ (request'[t].clean <=> \A u \in Thread : ~ChangingNow(u))
    OBVIOUS
  <1> SUFFICES ASSUME NEW v \in Thread, NEW u \in Thread, ChangingNow(v)', u # v, request'[u] # None
               PROVE  request'[u].op \notin Session!Changing /\ ~request'[u].clean
    BY DEF ChangesAlone
  <1>3. CASE v = t
    BY <1>1, <1>2, <1>3 DEF ChangingNow
  <1>4. CASE v # t
    <2>1. ChangingNow(v)
      BY <1>1, <1>4 DEF ChangingNow
    <2>2. CASE u = t
      BY <1>2, <2>1, <2>2
    <2>3. CASE u # t
      BY <1>1, <2>1, <2>3 DEF ChangesAlone
    <2> QED
      BY <2>2, <2>3
  <1> QED
    BY <1>3, <1>4

\* Calls that are not sweeps leave the slot and its receiver alone.
LEMMA SlotKept ==
  ASSUME SlotExact, automatic' = automatic, swept' = swept, automatic \in Thread \cup {None},
         \A u \in Thread : request'[u] # None /\ request'[u].op = "sweep" <=> request[u] # None /\ request[u].op = "sweep",
         \A u \in Thread : request'[u] # None /\ request'[u].op = "sweep" =>
           request'[u].at = request[u].at /\ request'[u].account = request[u].account
  PROVE  SlotExact'
  <1>1. \A u \in Thread : Session!At(u, "sweep", "listing")' <=> Session!At(u, "sweep", "listing")
    BY DEF Session!At
  <1>2. \A u \in Thread : Session!At(u, "sweep", "listing") => request'[u].account = request[u].account
    BY DEF Session!At
  <1>3. {u \in Thread : Session!At(u, "sweep", "listing")}' = {u \in Thread : Session!At(u, "sweep", "listing")}
    BY <1>1
  <1>4. {<<u, request[u].account>> : u \in {v \in Thread : Session!At(v, "sweep", "listing")}}'
        = {<<u, request[u].account>> : u \in {v \in Thread : Session!At(v, "sweep", "listing")}}
    BY <1>2, <1>3
  <1> QED
    BY <1>4 DEF SlotExact

\* The other calls when one begins, moves or returns.
OthersSame(t) == \A u \in Thread \ {t} : request'[u] = request[u]

\* A call that is no sweep starts: the slot stays as it is.
LEMMA SlotBegins ==
  ASSUME SessionTyped, SlotExact, NEW t \in Thread, NEW o \in CallOps \ {"sweep"}, NEW at \in CallSteps,
         NEW a \in Account \cup {None}, Session!Begin(t, o, at, a), automatic' = automatic, swept' = swept
  PROVE  SlotExact'
  <1> USE SessionBegins
  <1>1. request[t] = None /\ request'[t].op = o
    OBVIOUS
  <1>2. \A u \in Thread \ {t} : request'[u] # None <=> request[u] # None
    OBVIOUS
  <1>3. \A u \in Thread \ {t} : request[u] # None => request'[u].op = request[u].op /\ request'[u].at = request[u].at
                                                     /\ request'[u].account = request[u].account
    OBVIOUS
  <1> QED
    BY <1>1, <1>2, <1>3, SlotKept DEF SessionTyped

\* A call that is no sweep goes on or returns: the slot stays as it is.
LEMMA SlotMoves ==
  ASSUME SessionTyped, SlotExact, NEW t \in Thread, request[t] # None, request[t].op # "sweep",
         OthersSame(t), request'[t] = None \/ request'[t].op = request[t].op, automatic' = automatic, swept' = swept
  PROVE  SlotExact'
  BY SlotKept DEF SessionTyped, OthersSame

\* The intent when a call begins that leaves it and the host's view alone.
LEMMA IntentBegins ==
  ASSUME SessionTyped, ChangesAlone, IntentStored, NEW t \in Thread, NEW o \in CallOps \ {"delete"},
         NEW at \in CallSteps \ {"remember"}, NEW a \in Account \cup {None}, Session!Begin(t, o, at, a),
         told' = told, intent' = intent, o = "upload" => a = told.of
  PROVE  IntentStored'
  <1> USE SessionBegins
  <1>1. request[t] = None /\ request'[t] # None /\ request'[t].op = o /\ request'[t].at = at /\ request'[t].account = a
        /\ (request'[t].clean <=> \A u \in Thread : ~ChangingNow(u))
    OBVIOUS
  <1>2. \A u \in Thread \ {t} : request[u] = None => request'[u] = None
    OBVIOUS
  <1>3. \A u \in Thread \ {t} : request[u] # None =>
          request'[u] # None /\ request'[u].op = request[u].op /\ request'[u].at = request[u].at
          /\ request'[u].account = request[u].account /\ (request'[u].clean => request[u].clean)
    OBVIOUS
  <1>4. told'.of # None => intent' \/ told'.missed \/ \E u \in Thread : Session!At(u, "delete", "done")'
    <2> SUFFICES ASSUME told.of # None, ~intent, ~told.missed
                 PROVE  \E u \in Thread : Session!At(u, "delete", "done")'
      OBVIOUS
    <2>1. PICK u \in Thread : Session!At(u, "delete", "done")
      BY DEF IntentStored
    <2> QED
      BY <2>1, <1>1, <1>3 DEF Session!At
  <1>5. \A u \in Thread : Session!At(u, "login", "remember")' \/ Session!At(u, "register", "remember")' => intent'
    BY <1>1, <1>2, <1>3 DEF IntentStored, Session!At
  <1>6. ASSUME NEW u \in Thread, request'[u] # None, request'[u].op = "upload", request'[u].at = "intent",
               request'[u].clean, request'[u].account # None
        PROVE  intent \/ told.missed
    <2>1. CASE u = t
      <3>1. told.of # None /\ \A v \in Thread : ~ChangingNow(v)
        BY <1>1, <1>6, <2>1
      <3> QED
        BY <3>1 DEF IntentStored, ChangingNow, Session!At, Session!Changing
    <2>2. CASE u # t
      BY <1>2, <1>3, <1>6, <2>2 DEF IntentStored
    <2> QED
      BY <2>1, <2>2
  <1> QED
    BY <1>4, <1>5, <1>6 DEF IntentStored

\* What is stored as the intent is there for every call.
LEMMA IntentSet ==
  ASSUME intent' = TRUE
  PROVE  IntentStored'
  BY DEF IntentStored

\* A call that moves or returns, is not about to remember a session and does not
\* touch the intent or the host's view.
LEMMA IntentMoves ==
  ASSUME IntentStored, NEW t \in Thread, request[t] # None, ~Session!At(t, "delete", "done"), OthersSame(t),
         request'[t] # None => request'[t].op = request[t].op /\ request'[t].at \notin {"remember", "intent"},
         told' = told, intent' = intent
  PROVE  IntentStored'
  <1>1. \A u \in Thread : Session!At(u, "delete", "done") => Session!At(u, "delete", "done")'
    BY DEF OthersSame, Session!At
  <1>2. \A u \in Thread : Session!At(u, "login", "remember")' \/ Session!At(u, "register", "remember")' => intent'
    BY DEF OthersSame, Session!At, IntentStored
  <1>3. \A u \in Thread : request'[u] # None /\ request'[u].op = "upload" /\ request'[u].at = "intent"
                            /\ request'[u].clean /\ request'[u].account # None => intent' \/ told'.missed
    BY DEF OthersSame, IntentStored
  <1> QED
    BY <1>1, <1>2, <1>3 DEF IntentStored

\* Where a call is when it is at a step.
LEMMA SessionAt ==
  ASSUME SessionTyped, NEW t \in Thread, NEW o, NEW at, Session!At(t, o, at)
  PROVE  request[t] # None /\ request[t] \in Calls /\ request[t].op = o /\ request[t].at = at
         /\ request[t].account \in Account \cup {None} /\ request[t].clean \in BOOLEAN
  BY DEF Session!At, SessionTyped, Calls

\* Steps of the invariant that leave uploads alone.
LEMMA SentKept ==
  ASSUME Session!NeverAnonymous, sent' = sent
  PROVE  Session!NeverAnonymous'
  BY DEF Session!NeverAnonymous

\* The invariant holds at the start.
LEMMA SessionInit ==
  ASSUME Session!Init
  PROVE  SessionInv
  BY ApplicationsAssumption
  DEF SessionConstants, Session!Init, SessionInv, SessionTyped, ChangesAlone, ChangingNow, IntentStored, SlotExact,
      Session!At, Session!NeverAnonymous, Session!Told, Knowledge

\* Calls that begin keep the invariant.
LEMMA SessionCallsBegin ==
  ASSUME SessionInv, NEW t \in Thread,
         \/ \E a \in Account : Session!Login(t, a) \/ Session!Register(t, a)
         \/ Session!Logout(t) \/ Session!Delete(t) \/ Session!Session(t) \/ Session!Upload(t)
  PROVE  SessionInv'
  <1> USE DEF CallOps, CallSteps, Session!Changing
  <1>1. SessionTyped /\ ChangesAlone /\ IntentStored /\ SlotExact /\ Session!NeverAnonymous
    BY DEF SessionInv
  <1>2. jar \in Account \cup {None} /\ told.of \in Account \cup {None}
    BY <1>1 DEF SessionTyped, Knowledge
  <1>3. ASSUME NEW o \in CallOps \ {"sweep"}, NEW at \in CallSteps, NEW a \in Account \cup {None}, Session!Begin(t, o, at, a),
               alive' \subseteq Account, jar' \in Account \cup {None}, intent' \in BOOLEAN,
               cancelled' \subseteq Thread, UNCHANGED <<account_id, stored, automatic, told, sent, swept>>
        PROVE  SessionTyped' /\ ChangesAlone' /\ SlotExact' /\ Session!NeverAnonymous'
    <2>1. request' \in [Thread -> Calls \cup {None}]
      BY <1>1, <1>3, SessionBegins
    <2>2. SessionTyped'
      BY <1>1, <1>3, <2>1 DEF SessionTyped
    <2>3. ChangesAlone'
      BY <1>1, <1>3, AloneBegins
    <2>4. SlotExact'
      BY <1>1, <1>3, SlotBegins
    <2> QED
      BY <1>1, <1>3, <2>2, <2>3, <2>4, SentKept
  <1>4. ASSUME NEW a \in Account, Session!Login(t, a)
        PROVE  SessionInv'
    <2>1. Session!Begin(t, "login", "session", a) /\ told' = told /\ intent' = intent
      BY <1>4 DEF Session!Login
    <2>2. SessionTyped' /\ ChangesAlone' /\ SlotExact' /\ Session!NeverAnonymous'
      BY <1>1, <1>3, <1>4, <2>1 DEF Session!Login, SessionTyped
    <2>3. IntentStored'
      BY <1>1, <2>1, IntentBegins
    <2> QED
      BY <2>2, <2>3 DEF SessionInv
  <1>5. ASSUME NEW a \in Account, Session!Register(t, a)
        PROVE  SessionInv'
    <2>1. Session!Begin(t, "register", "session", a) /\ told' = told /\ intent' = intent
      BY <1>5 DEF Session!Register
    <2>2. SessionTyped' /\ ChangesAlone' /\ SlotExact' /\ Session!NeverAnonymous'
      BY <1>1, <1>3, <1>5, <2>1 DEF Session!Register, SessionTyped
    <2>3. IntentStored'
      BY <1>1, <2>1, IntentBegins
    <2> QED
      BY <2>2, <2>3 DEF SessionInv
  <1>6. ASSUME Session!Logout(t)
        PROVE  SessionInv'
    <2>1. Session!Begin(t, "logout", "delete", jar) /\ told' = told /\ intent' = intent
      BY <1>6 DEF Session!Logout
    <2>2. cancelled' \subseteq Thread
      BY <1>1, <1>6 DEF Session!Logout, Session!CancelSweep, SessionTyped
    <2>3. SessionTyped' /\ ChangesAlone' /\ SlotExact' /\ Session!NeverAnonymous'
      BY <1>1, <1>2, <1>3, <1>6, <2>1, <2>2 DEF Session!Logout, SessionTyped
    <2>4. IntentStored'
      BY <1>1, <1>2, <2>1, IntentBegins
    <2> QED
      BY <2>3, <2>4 DEF SessionInv
  <1>7. ASSUME Session!Delete(t)
        PROVE  SessionInv'
    <2>1. Session!Begin(t, "delete", "done", jar)
      BY <1>7 DEF Session!Delete
    <2>2. SessionTyped' /\ ChangesAlone' /\ SlotExact' /\ Session!NeverAnonymous'
      BY <1>1, <1>2, <1>3, <1>7, <2>1 DEF Session!Delete, SessionTyped
    <2>3. /\ request'[t] # None /\ request'[t].op = "delete" /\ request'[t].at = "done"
          /\ \A u \in Thread : ~ChangingNow(u)
      BY <1>1, <1>2, <2>1, SessionBegins
    <2>4. \A u \in Thread \ {t} : request'[u] # None =>
            request[u] # None /\ request'[u].op = request[u].op /\ ~request'[u].clean
      BY <1>1, <1>2, <2>1, SessionBegins
    <2>5. IntentStored'
      BY <2>3, <2>4 DEF IntentStored, Session!At, ChangingNow
    <2> QED
      BY <2>2, <2>5 DEF SessionInv
  <1>8. ASSUME Session!Session(t)
        PROVE  SessionInv'
    <2>1. Session!Begin(t, "session", "store", jar) /\ told' = told /\ intent' = intent
      BY <1>8 DEF Session!Session
    <2>2. SessionTyped' /\ ChangesAlone' /\ SlotExact' /\ Session!NeverAnonymous'
      BY <1>1, <1>2, <1>3, <1>8, <2>1 DEF Session!Session, SessionTyped
    <2>3. IntentStored'
      BY <1>1, <1>2, <2>1, IntentBegins
    <2> QED
      BY <2>2, <2>3 DEF SessionInv
  <1>9. ASSUME Session!Upload(t)
        PROVE  SessionInv'
    <2>1. Session!Begin(t, "upload", "intent", told.of) /\ told' = told /\ intent' = intent
      BY <1>9 DEF Session!Upload
    <2>2. SessionTyped' /\ ChangesAlone' /\ SlotExact' /\ Session!NeverAnonymous'
      BY <1>1, <1>2, <1>3, <1>9, <2>1 DEF Session!Upload, SessionTyped
    <2>3. IntentStored'
      BY <1>1, <1>2, <2>1, IntentBegins
    <2> QED
      BY <2>2, <2>3 DEF SessionInv
  <1> QED
    BY <1>4, <1>5, <1>6, <1>7, <1>8, <1>9

\* Calls other than sweeps that go on or return keep the invariant.
LEMMA SessionCallsMove ==
  ASSUME SessionInv, NEW t \in Thread, NEW ok \in BOOLEAN,
         \/ Session!LoginSession(t, ok) \/ Session!Registered(t, ok) \/ Session!LogoutAnswered(t, ok) \/ Session!Remember(t)
         \/ Session!LogoutForgets(t) \/ Session!Deleted(t, ok) \/ Session!SessionStored(t)
         \/ Session!ReadIntent(t) \/ Session!Validate(t)
  PROVE  SessionInv'
  <1> USE DEF CallSteps
  <1>1. SessionTyped /\ ChangesAlone /\ IntentStored /\ SlotExact /\ Session!NeverAnonymous
    BY DEF SessionInv
  <1>2. ASSUME NEW at \in CallSteps, request[t] # None, request[t].op # "sweep", Session!Goto(t, at) \/ Session!Return(t),
               automatic' = automatic, swept' = swept
        PROVE  /\ request' \in [Thread -> Calls \cup {None}] /\ ChangesAlone' /\ SlotExact' /\ OthersSame(t)
               /\ request'[t] # None => request'[t].op = request[t].op /\ request'[t].at = at
    <2>1. request' \in [Thread -> Calls \cup {None}] /\ OthersSame(t)
      BY <1>1, <1>2, SessionMoves, SessionReturns DEF OthersSame
    <2>2. request'[t] # None => request'[t].op = request[t].op /\ request'[t].at = at /\ request'[t].clean = request[t].clean
      BY <1>1, <1>2, SessionMoves, SessionReturns
    <2>3. ChangesAlone'
      BY <1>1, <1>2, <2>1, <2>2, AloneKept DEF OthersSame
    <2>4. SlotExact'
      BY <1>1, <1>2, <2>1, <2>2, SlotMoves
    <2> QED
      BY <2>1, <2>2, <2>3, <2>4
  <1>3. ASSUME Session!LoginSession(t, ok) \/ Session!Registered(t, ok)
        PROVE  SessionInv'
    <2>1. request[t] # None /\ request[t].op \in {"login", "register"} /\ request[t].at = "session"
      BY <1>1, <1>3, SessionAt DEF Session!LoginSession, Session!Registered
    <2>2. /\ Session!Goto(t, "remember") \/ Session!Return(t)
          /\ UNCHANGED <<alive, jar, account_id, stored, automatic, cancelled, told, sent, swept>>
          /\ intent' = TRUE \/ (intent' = intent /\ Session!Return(t))
      BY <1>3 DEF Session!LoginSession, Session!Registered
    <2>3. request' \in [Thread -> Calls \cup {None}] /\ ChangesAlone' /\ SlotExact' /\ OthersSame(t)
      BY <1>2, <2>1, <2>2
    <2>4. IntentStored' /\ intent' \in BOOLEAN
      <3>1. CASE intent' = TRUE
        BY <3>1, IntentSet
      <3>2. CASE intent' = intent /\ Session!Return(t)
        <4>1. request'[t] = None
          BY <1>1, <3>2, SessionReturns
        <4>2. intent \in BOOLEAN
          BY <1>1 DEF SessionTyped
        <4> QED
          BY <1>1, <2>1, <2>2, <2>3, <3>2, <4>1, <4>2, IntentMoves DEF Session!At
      <3> QED
        BY <2>2, <3>1, <3>2
    <2> QED
      BY <1>1, <2>2, <2>3, <2>4, SentKept DEF SessionInv, SessionTyped
  <1>4. ASSUME Session!LogoutAnswered(t, ok)
        PROVE  SessionInv'
    <2>1. request[t] # None /\ request[t].op = "logout" /\ request[t].at = "delete"
      BY <1>1, <1>4, SessionAt DEF Session!LogoutAnswered
    <2>2. /\ Session!Goto(t, "forget") \/ Session!Return(t)
          /\ UNCHANGED <<intent, account_id, stored, automatic, cancelled, told, sent, swept>>
          /\ alive' \subseteq alive /\ jar' \in {jar, None}
      BY <1>4 DEF Session!LogoutAnswered
    <2>3. /\ request' \in [Thread -> Calls \cup {None}] /\ ChangesAlone' /\ SlotExact' /\ OthersSame(t)
          /\ request'[t] # None => request'[t].op = request[t].op /\ request'[t].at = "forget"
      BY <1>2, <2>1, <2>2
    <2>4. IntentStored'
      BY <1>1, <2>1, <2>2, <2>3, IntentMoves DEF Session!At
    <2>5. SessionTyped'
      BY <1>1, <2>2, <2>3 DEF SessionTyped
    <2> QED
      BY <1>1, <2>2, <2>3, <2>4, <2>5, SentKept DEF SessionInv
  <1>5. ASSUME Session!Remember(t)
        PROVE  SessionInv'
    <2>1. request[t] # None /\ request[t].op # "sweep" /\ request[t].account \in Account \cup {None}
      BY <1>1, <1>5, SessionAt DEF Session!Remember
    <2>2. intent
      BY <1>1, <1>5 DEF Session!Remember, IntentStored
    <2>3. /\ Session!Return(t) /\ account_id' = request[t].account /\ told' = Session!Told(request[t].account)
          /\ UNCHANGED <<alive, jar, intent, stored, automatic, cancelled, sent, swept>>
      BY <1>5 DEF Session!Remember
    <2>4. request' \in [Thread -> Calls \cup {None}] /\ ChangesAlone' /\ SlotExact'
      BY <1>2, <2>1, <2>3
    <2>5. IntentStored'
      BY <2>2, <2>3 DEF IntentStored
    <2>6. SessionTyped'
      BY <1>1, <2>1, <2>3, <2>4 DEF SessionTyped, Session!Told, Knowledge
    <2> QED
      BY <1>1, <2>3, <2>4, <2>5, <2>6, SentKept DEF SessionInv
  <1>6. ASSUME Session!LogoutForgets(t)
        PROVE  SessionInv'
    <2>1. request[t] # None /\ request[t].op = "logout"
      BY <1>1, <1>6, SessionAt DEF Session!LogoutForgets
    <2>2. /\ Session!Return(t) /\ intent' = FALSE /\ account_id' = None /\ told' = Session!Told(None) /\ stored' = None
          /\ UNCHANGED <<alive, jar, automatic, cancelled, sent, swept>>
      BY <1>6 DEF Session!LogoutForgets
    <2>3. request' \in [Thread -> Calls \cup {None}] /\ ChangesAlone' /\ SlotExact' /\ OthersSame(t) /\ request'[t] = None
      BY <1>1, <1>2, <2>1, <2>2, SessionReturns
    <2>4. \A u \in Thread \ {t} : request'[u] # None => request'[u].op \notin Session!Changing /\ ~request'[u].clean
      BY <1>1, <2>1, <2>3 DEF OthersSame, ChangesAlone, ChangingNow, Session!Changing
    <2>5. IntentStored'
      BY <2>2, <2>3, <2>4 DEF IntentStored, Session!At, Session!Changing, Session!Told
    <2>6. SessionTyped'
      BY <1>1, <2>2, <2>3 DEF SessionTyped, Session!Told, Knowledge
    <2> QED
      BY <1>1, <2>2, <2>3, <2>5, <2>6, SentKept DEF SessionInv
  <1>7. ASSUME Session!Deleted(t, ok)
        PROVE  SessionInv'
    <2>1. request[t] # None /\ request[t].op = "delete"
      BY <1>1, <1>7, SessionAt DEF Session!Deleted
    <2>2. /\ Session!Return(t) /\ told' \in {Session!Told(None), [told EXCEPT !.missed = TRUE]}
          /\ UNCHANGED <<alive, jar, intent, account_id, stored, automatic, cancelled, sent, swept>>
      BY <1>7 DEF Session!Deleted
    <2>3. request' \in [Thread -> Calls \cup {None}] /\ ChangesAlone' /\ SlotExact' /\ OthersSame(t) /\ request'[t] = None
      BY <1>1, <1>2, <2>1, <2>2, SessionReturns
    <2>a. told' \in Knowledge /\ (told'.missed \/ told'.of = None)
      <3>1. CASE told' = Session!Told(None)
        BY <3>1 DEF Session!Told, Knowledge
      <3>2. CASE told' = [told EXCEPT !.missed = TRUE]
        BY <1>1, <3>2 DEF SessionTyped, Knowledge
      <3> QED
        BY <2>2, <3>1, <3>2
    <2>b. \A u \in Thread \ {t} : request'[u] # None => request'[u].op \notin Session!Changing /\ ~request'[u].clean
      BY <1>1, <2>1, <2>3 DEF OthersSame, ChangesAlone, ChangingNow, Session!Changing
    <2>4. IntentStored'
      BY <2>3, <2>a, <2>b DEF IntentStored, Session!At, Session!Changing
    <2>5. SessionTyped'
      BY <1>1, <2>2, <2>3, <2>a DEF SessionTyped
    <2> QED
      BY <1>1, <2>2, <2>3, <2>4, <2>5, SentKept DEF SessionInv
  <1>8. ASSUME Session!SessionStored(t)
        PROVE  SessionInv'
    <2>1. request[t] # None /\ request[t].op = "session" /\ request[t].account \in Account \cup {None}
      BY <1>1, <1>8, SessionAt DEF Session!SessionStored
    <2>2. /\ Session!Return(t) /\ intent' = TRUE /\ account_id' = request[t].account
          /\ UNCHANGED <<alive, jar, stored, automatic, cancelled, told, sent, swept>>
      BY <1>8 DEF Session!SessionStored
    <2>3. request' \in [Thread -> Calls \cup {None}] /\ ChangesAlone' /\ SlotExact'
      BY <1>2, <2>1, <2>2
    <2>4. SessionTyped'
      BY <1>1, <2>1, <2>2, <2>3 DEF SessionTyped
    <2> QED
      BY <1>1, <2>2, <2>3, <2>4, SentKept, IntentSet DEF SessionInv
  <1>9. ASSUME Session!ReadIntent(t)
        PROVE  SessionInv'
    <2>1. request[t] # None /\ request[t].op = "upload" /\ request[t].at = "intent"
      BY <1>1, <1>9, SessionAt DEF Session!ReadIntent
    <2>2. /\ Session!Goto(t, "session") \/ Session!Return(t)
          /\ UNCHANGED <<alive, jar, intent, account_id, stored, automatic, cancelled, told, swept>>
      BY <1>9 DEF Session!ReadIntent, Session!Authenticated
    <2>3. /\ request' \in [Thread -> Calls \cup {None}] /\ ChangesAlone' /\ SlotExact' /\ OthersSame(t)
          /\ request'[t] # None => request'[t].op = request[t].op /\ request'[t].at = "session"
      BY <1>2, <2>1, <2>2
    <2>4. IntentStored'
      BY <1>1, <2>1, <2>2, <2>3, IntentMoves DEF Session!At
    <2>5. SessionTyped'
      BY <1>1, <2>2, <2>3 DEF SessionTyped
    <2>6. Session!NeverAnonymous'
      <3>1. CASE intent
        BY <1>1, <1>9, <3>1, SentKept DEF Session!ReadIntent
      <3>2. CASE ~intent
        <4>1. sent' = [as |-> "anonymous", told |-> IF request[t].clean /\ ~told.missed THEN request[t].account ELSE None]
          BY <1>9, <3>2 DEF Session!ReadIntent, Session!Authenticated
        <4>2. ~(request[t].clean /\ request[t].account # None /\ ~told.missed)
          BY <1>1, <2>1, <3>2 DEF IntentStored
        <4> QED
          BY <4>1, <4>2 DEF Session!NeverAnonymous
      <3> QED
        BY <3>1, <3>2
    <2> QED
      BY <2>3, <2>4, <2>5, <2>6 DEF SessionInv
  <1>10. ASSUME Session!Validate(t)
         PROVE  SessionInv'
    <2>1. request[t] # None /\ request[t].op = "upload" /\ request[t].at = "session"
      BY <1>1, <1>10, SessionAt DEF Session!Validate
    <2>2. /\ Session!Return(t) /\ intent' = (intent \/ Session!Accepted)
          /\ UNCHANGED <<alive, jar, account_id, stored, automatic, cancelled, told, swept>>
      BY <1>10 DEF Session!Validate, Session!Authenticated
    <2>3. request' \in [Thread -> Calls \cup {None}] /\ ChangesAlone' /\ SlotExact' /\ OthersSame(t) /\ request'[t] = None
      BY <1>1, <1>2, <2>1, <2>2, SessionReturns
    <2>4. IntentStored' /\ intent' \in BOOLEAN
      <3>1. intent \in BOOLEAN /\ Session!Accepted \in BOOLEAN
        BY <1>1 DEF SessionTyped, Session!Accepted
      <3>2. CASE intent'
        BY <3>1, <3>2, <2>2, IntentSet
      <3>3. CASE ~intent'
        BY <1>1, <2>1, <2>2, <2>3, <3>1, <3>3, IntentMoves DEF Session!At
      <3> QED
        BY <3>1, <3>2, <3>3, <2>2
    <2>5. SessionTyped'
      BY <1>1, <2>2, <2>3, <2>4 DEF SessionTyped
    <2>6. Session!NeverAnonymous'
      <3>1. sent' = [as |-> IF Session!Accepted THEN jar ELSE "refused",
                     told |-> IF request[t].clean /\ ~told.missed THEN request[t].account ELSE None]
        BY <1>10 DEF Session!Validate, Session!Authenticated
      <3>2. Session!Accepted => jar \in Account
        BY <1>1 DEF Session!Accepted, SessionTyped
      <3>3. "anonymous" \notin Account
        BY ApplicationsAssumption DEF SessionConstants
      <3> QED
        BY <3>1, <3>2, <3>3 DEF Session!NeverAnonymous
    <2> QED
      BY <2>3, <2>4, <2>5, <2>6 DEF SessionInv
  <1> QED
    BY <1>3, <1>4, <1>5, <1>6, <1>7, <1>8, <1>9, <1>10

\* The steps of a sweep, and the calls that stop one, keep the invariant.
LEMMA SessionSweeps ==
  ASSUME SessionInv, NEW t \in Thread, NEW ok \in BOOLEAN,
         \/ Session!Sweep(t) \/ Session!SweepStarts(t, ok) \/ Session!SweepSession(t)
         \/ Session!SweepOpen(t) \/ Session!SweepEnds(t) \/ Session!SweepClears(t)
  PROVE  SessionInv'
  <1> USE DEF CallSteps, CallOps
  <1>1. SessionTyped /\ ChangesAlone /\ IntentStored /\ SlotExact /\ Session!NeverAnonymous
    BY DEF SessionInv
  <1>2. None \notin Thread /\ None \notin Account
    BY ApplicationsAssumption DEF SessionConstants
  <1>3. ASSUME Session!Sweep(t)
        PROVE  SessionInv'
    <2>1. /\ Session!Begin(t, "sweep", "memory", None) /\ automatic = None /\ automatic' = t /\ cancelled' = cancelled \ {t}
          /\ UNCHANGED <<alive, jar, intent, account_id, stored, told, sent, swept>>
      BY <1>3 DEF Session!Sweep
    <2>2. /\ request' \in [Thread -> Calls \cup {None}] /\ request[t] = None
          /\ request'[t] # None /\ request'[t].op = "sweep" /\ request'[t].at = "memory"
          /\ \A u \in Thread \ {t} : IF request[u] = None THEN request'[u] = None ELSE request'[u] = request[u]
      BY <1>1, <2>1, SessionBegins DEF Session!Changing
    <2>3. SessionTyped'
      BY <1>1, <2>1, <2>2 DEF SessionTyped
    <2>4. ChangesAlone'
      BY <1>1, <2>1, AloneBegins
    <2>5. IntentStored'
      BY <1>1, <2>1, IntentBegins
    <2>6. SlotExact'
      <3>1. \A u \in Thread : ~(request[u] # None /\ request[u].op = "sweep")
        BY <1>1, <1>2, <2>1 DEF SlotExact
      <3>2. swept = {}
        BY <1>1, <3>1 DEF SlotExact, Session!At
      <3>3. \A u \in Thread \ {t} : ~(request'[u] # None /\ request'[u].op = "sweep")
        BY <2>2, <3>1
      <3>4. {u \in Thread : Session!At(u, "sweep", "listing")'} = {}
        BY <2>2, <3>3 DEF Session!At
      <3> QED
        BY <1>2, <2>1, <2>2, <3>2, <3>3, <3>4 DEF SlotExact
    <2> QED
      BY <1>1, <2>1, <2>3, <2>4, <2>5, <2>6, SentKept DEF SessionInv
  <1>4. ASSUME request[t] # None, request[t].op = "sweep", OthersSame(t), request'[t] # None => request'[t] \in Calls,
               request' \in [Thread -> Calls \cup {None}], UNCHANGED <<told, sent>>,
               request'[t] # None => request'[t].op = "sweep" /\ request'[t].clean = request[t].clean
                                     /\ request'[t].at \notin {"remember", "intent"},
               intent' = intent \/ intent' = TRUE
        PROVE  ChangesAlone' /\ IntentStored' /\ Session!NeverAnonymous'
    <2>1. ChangesAlone'
      BY <1>1, <1>4, AloneKept DEF OthersSame
    <2>2. IntentStored'
      BY <1>1, <1>4, IntentMoves, IntentSet DEF Session!At
    <2> QED
      BY <1>1, <1>4, <2>1, <2>2, SentKept
  <1>5. ASSUME request[t] # None, request[t].op = "sweep"
        PROVE  /\ automatic = t
               /\ \A u \in Thread \ {t} : ~(request[u] # None /\ request[u].op = "sweep")
               /\ swept = IF request[t].at = "listing" THEN {<<t, request[t].account>>} ELSE {}
    <2>1. automatic = t /\ \A u \in Thread \ {t} : ~(request[u] # None /\ request[u].op = "sweep")
      BY <1>1, <1>5 DEF SlotExact
    <2>2. {u \in Thread : Session!At(u, "sweep", "listing")} = IF request[t].at = "listing" THEN {t} ELSE {}
      BY <1>5, <2>1 DEF Session!At
    <2> QED
      BY <1>1, <2>1, <2>2 DEF SlotExact
  <1>6. ASSUME request[t] # None, request[t].op = "sweep", OthersSame(t), automatic' = t,
               request'[t] # None, request'[t].op = "sweep",
               request'[t].at \in {"open", "listing"} => request'[t].account \in Account,
               swept' = IF request'[t].at = "listing" THEN {<<t, request'[t].account>>} ELSE {}
        PROVE  SlotExact'
    <2>1. \A u \in Thread \ {t} : ~(request'[u] # None /\ request'[u].op = "sweep")
      BY <1>5, <1>6 DEF OthersSame
    <2>2. {u \in Thread : Session!At(u, "sweep", "listing")'} = IF request'[t].at = "listing" THEN {t} ELSE {}
      BY <1>6, <2>1 DEF Session!At
    <2> QED
      BY <1>6, <2>1, <2>2 DEF SlotExact
  <1>7. ASSUME Session!SweepStarts(t, ok)
        PROVE  SessionInv'
    <2>1. request[t] # None /\ request[t].op = "sweep" /\ request[t].at = "memory"
      BY <1>1, <1>7, SessionAt DEF Session!SweepStarts
    <2>2. PICK at \in {"session", "clear"} : Session!Goto(t, at)
      BY <1>7 DEF Session!SweepStarts
    <2>3. UNCHANGED <<alive, jar, intent, account_id, stored, automatic, cancelled, told, sent, swept>>
      BY <1>7 DEF Session!SweepStarts
    <2>4. /\ request' \in [Thread -> Calls \cup {None}] /\ OthersSame(t)
          /\ request'[t] # None /\ request'[t].op = "sweep" /\ request'[t].at = at /\ request'[t].clean = request[t].clean
      BY <1>1, <2>1, <2>2, SessionMoves DEF OthersSame
    <2>5. ChangesAlone' /\ IntentStored' /\ Session!NeverAnonymous'
      BY <1>4, <2>1, <2>3, <2>4
    <2>6. SlotExact'
      BY <1>5, <1>6, <2>1, <2>2, <2>3, <2>4
    <2> QED
      BY <1>1, <2>3, <2>4, <2>5, <2>6 DEF SessionInv, SessionTyped
  <1>8. ASSUME Session!SweepSession(t)
        PROVE  SessionInv'
    <2>1. request[t] # None /\ request[t].op = "sweep" /\ request[t].at = "session" /\ request[t] \in Calls
      BY <1>1, <1>8, SessionAt DEF Session!SweepSession
    <2>2. UNCHANGED <<alive, jar, stored, automatic, cancelled, told, sent, swept>>
      BY <1>8 DEF Session!SweepSession
    <2>3. CASE Session!Accepted
      <3> DEFINE x == [request[t] EXCEPT !.at = "open", !.account = jar]
      <3>1. request' = [request EXCEPT ![t] = x] /\ account_id' = jar /\ intent' = TRUE
        BY <1>8, <2>3 DEF Session!SweepSession
      <3>2. jar \in Account
        BY <1>1, <2>3 DEF Session!Accepted, SessionTyped
      <3>3. x \in Calls /\ x.op = "sweep" /\ x.at = "open" /\ x.account = jar /\ x.clean = request[t].clean
        BY <2>1, <3>2 DEF Calls
      <3>4. x # None
        BY <3>3, ApplicationsAssumption DEF SessionConstants
      <3> HIDE DEF x
      <3>5. request' \in [Thread -> Calls \cup {None}] /\ OthersSame(t) /\ request'[t] = x
        BY <1>1, <3>1, <3>3 DEF SessionTyped, OthersSame
      <3>6. ChangesAlone' /\ IntentStored' /\ Session!NeverAnonymous'
        BY <1>4, <2>1, <2>2, <3>1, <3>3, <3>5
      <3>7. SlotExact'
        BY <1>5, <1>6, <2>1, <2>2, <3>2, <3>3, <3>4, <3>5
      <3> QED
        BY <1>1, <2>2, <3>1, <3>2, <3>5, <3>6, <3>7 DEF SessionInv, SessionTyped
    <2>4. CASE ~Session!Accepted
      <3>1. Session!Goto(t, "clear") /\ UNCHANGED <<account_id, intent>>
        BY <1>8, <2>4 DEF Session!SweepSession
      <3>2. /\ request' \in [Thread -> Calls \cup {None}] /\ OthersSame(t)
            /\ request'[t] # None /\ request'[t].op = "sweep" /\ request'[t].at = "clear" /\ request'[t].clean = request[t].clean
        BY <1>1, <2>1, <3>1, SessionMoves DEF OthersSame
      <3>3. ChangesAlone' /\ IntentStored' /\ Session!NeverAnonymous'
        BY <1>4, <2>1, <2>2, <3>1, <3>2
      <3>4. SlotExact'
        BY <1>5, <1>6, <2>1, <2>2, <3>2
      <3> QED
        BY <1>1, <2>2, <3>1, <3>2, <3>3, <3>4 DEF SessionInv, SessionTyped
    <2> QED
      BY <2>3, <2>4
  <1>9. ASSUME Session!SweepOpen(t)
        PROVE  SessionInv'
    <2>1. request[t] # None /\ request[t].op = "sweep" /\ request[t].at = "open"
      BY <1>1, <1>9, SessionAt DEF Session!SweepOpen
    <2>2. UNCHANGED <<alive, jar, intent, account_id, stored, automatic, cancelled, told, sent>>
      BY <1>9 DEF Session!SweepOpen
    <2>3. PICK at \in {"listing", "clear"} :
            Session!Goto(t, at) /\ swept' = IF at = "listing" THEN swept \cup {<<t, request[t].account>>} ELSE swept
      BY <1>9 DEF Session!SweepOpen
    <2>4. /\ request' \in [Thread -> Calls \cup {None}] /\ OthersSame(t)
          /\ request'[t] # None /\ request'[t].op = "sweep" /\ request'[t].at = at /\ request'[t].clean = request[t].clean
          /\ request'[t].account = request[t].account
      BY <1>1, <2>1, <2>3, SessionMoves DEF OthersSame
    <2>5. ChangesAlone' /\ IntentStored' /\ Session!NeverAnonymous'
      BY <1>4, <2>1, <2>2, <2>4
    <2>6. request[t].account \in Account /\ swept = {}
      BY <1>1, <1>5, <2>1 DEF SlotExact
    <2>7. SlotExact'
      BY <1>5, <1>6, <2>1, <2>2, <2>3, <2>4, <2>6
    <2> QED
      BY <1>1, <2>2, <2>4, <2>5, <2>7 DEF SessionInv, SessionTyped
  <1>10. ASSUME Session!SweepEnds(t)
         PROVE  SessionInv'
    <2>1. request[t] # None /\ request[t].op = "sweep" /\ request[t].at = "listing"
      BY <1>1, <1>10, SessionAt DEF Session!SweepEnds
    <2>2. UNCHANGED <<alive, jar, intent, account_id, stored, automatic, cancelled, told, sent>>
      BY <1>10 DEF Session!SweepEnds
    <2>3. Session!Goto(t, "clear") /\ swept' = swept \ {<<t, request[t].account>>}
      BY <1>10 DEF Session!SweepEnds
    <2>4. /\ request' \in [Thread -> Calls \cup {None}] /\ OthersSame(t)
          /\ request'[t] # None /\ request'[t].op = "sweep" /\ request'[t].at = "clear" /\ request'[t].clean = request[t].clean
      BY <1>1, <2>1, <2>3, SessionMoves DEF OthersSame
    <2>5. ChangesAlone' /\ IntentStored' /\ Session!NeverAnonymous'
      BY <1>4, <2>1, <2>2, <2>4
    <2>6. swept' = {}
      BY <1>5, <2>1, <2>3
    <2>7. SlotExact'
      BY <1>5, <1>6, <2>1, <2>2, <2>4, <2>6
    <2> QED
      BY <1>1, <2>2, <2>4, <2>5, <2>7 DEF SessionInv, SessionTyped
  <1>11. ASSUME Session!SweepClears(t)
         PROVE  SessionInv'
    <2>1. request[t] # None /\ request[t].op = "sweep" /\ request[t].at = "clear"
      BY <1>1, <1>11, SessionAt DEF Session!SweepClears
    <2>2. Session!Return(t) /\ automatic' = None /\ UNCHANGED <<alive, jar, intent, account_id, stored, cancelled, told, sent, swept>>
      BY <1>11 DEF Session!SweepClears
    <2>3. request' \in [Thread -> Calls \cup {None}] /\ OthersSame(t) /\ request'[t] = None
      BY <1>1, <2>2, SessionReturns DEF OthersSame
    <2>4. ChangesAlone' /\ IntentStored' /\ Session!NeverAnonymous'
      BY <1>4, <2>1, <2>2, <2>3
    <2>5. \A u \in Thread : ~(request'[u] # None /\ request'[u].op = "sweep")
      BY <1>5, <2>1, <2>3 DEF OthersSame
    <2>6. swept' = {}
      BY <1>5, <2>1, <2>2
    <2>7. {u \in Thread : Session!At(u, "sweep", "listing")'} = {}
      BY <2>5 DEF Session!At
    <2>8. SlotExact'
      BY <2>2, <2>5, <2>6, <2>7 DEF SlotExact
    <2> QED
      BY <1>1, <2>2, <2>3, <2>4, <2>8 DEF SessionInv, SessionTyped
  <1> QED
    BY <1>3, <1>7, <1>8, <1>9, <1>10, <1>11

\* Steps outside the calls keep the invariant.
LEMMA SessionAround ==
  ASSUME SessionInv,
         \/ \E t \in Thread : Session!SaveSession(t) \/ Session!ReceiverOff(t)
         \/ \E a \in Account : Session!Expire(a)
         \/ Session!Restart \/ UNCHANGED Session!vars
  PROVE  SessionInv'
  <1>1. SessionTyped /\ ChangesAlone /\ IntentStored /\ SlotExact /\ Session!NeverAnonymous
    BY DEF SessionInv
  <1>2. ASSUME UNCHANGED <<request, automatic, swept, told, sent>>, intent' = intent \/ intent' = TRUE
        PROVE  ChangesAlone' /\ IntentStored' /\ SlotExact' /\ Session!NeverAnonymous'
    <2>1. ChangesAlone' /\ SlotExact'
      BY <1>1, <1>2 DEF ChangesAlone, ChangingNow, SlotExact, Session!At
    <2>2. IntentStored'
      BY <1>1, <1>2 DEF IntentStored, Session!At
    <2> QED
      BY <1>1, <1>2, <2>1, <2>2, SentKept
  <1>3. ASSUME NEW t \in Thread, Session!SaveSession(t)
        PROVE  SessionInv'
    BY <1>1, <1>2, <1>3 DEF Session!SaveSession, Session!Accepted, SessionInv, SessionTyped
  <1>4. ASSUME NEW t \in Thread, Session!ReceiverOff(t)
        PROVE  SessionInv'
    BY <1>1, <1>2, <1>4 DEF Session!ReceiverOff, Session!CancelSweep, SessionInv, SessionTyped
  <1>5. ASSUME NEW a \in Account, Session!Expire(a)
        PROVE  SessionInv'
    BY <1>1, <1>2, <1>5 DEF Session!Expire, SessionInv, SessionTyped
  <1>6. ASSUME Session!Restart
        PROVE  SessionInv'
    <2>1. /\ jar' = stored /\ intent' = (stored # None) /\ told' = Session!Told(stored)
          /\ account_id' = None /\ automatic' = None /\ cancelled' = {} /\ swept' = {}
          /\ request' = [t \in Thread |-> None] /\ sent' = None /\ UNCHANGED <<alive, stored>>
      BY <1>6 DEF Session!Restart, Session!Restored
    <2>2. \A t \in Thread : request'[t] = None
      BY <2>1
    <2>3. SessionTyped'
      BY <1>1, <2>1 DEF SessionTyped, Session!Told, Knowledge
    <2>4. ChangesAlone' /\ IntentStored' /\ Session!NeverAnonymous'
      BY <2>1, <2>2 DEF ChangesAlone, ChangingNow, IntentStored, Session!At, Session!NeverAnonymous, Session!Told
    <2>5. {u \in Thread : Session!At(u, "sweep", "listing")'} = {}
      BY <2>2 DEF Session!At
    <2>6. SlotExact'
      BY <2>1, <2>2, <2>5 DEF SlotExact
    <2> QED
      BY <2>3, <2>4, <2>6 DEF SessionInv
  <1>7. ASSUME UNCHANGED Session!vars
        PROVE  SessionInv'
    BY <1>1, <1>2, <1>7 DEF Session!vars, SessionInv, SessionTyped
  <1> QED
    BY <1>3, <1>4, <1>5, <1>6, <1>7

\* The invariant gives the property the runs check: one receiver at most is open.
LEMMA SessionInvSuffices ==
  ASSUME SessionInv
  PROVE  SessionHonest
  <1>1. SessionTyped /\ SlotExact /\ Session!NeverAnonymous
    BY DEF SessionInv
  <1>2. \A t \in Thread : Session!At(t, "sweep", "listing") => request[t].account \in Account /\ automatic = t
    BY <1>1 DEF SlotExact, Session!At
  <1>3. swept \subseteq Thread \X Account
    BY <1>1, <1>2 DEF SlotExact
  <1>4. \A t \in Thread : request[t] # None => request[t] \in Calls
    BY <1>1 DEF SessionTyped
  <1>5. Session!TypeOK
    BY <1>1, <1>3, <1>4 DEF Session!TypeOK, SessionTyped, Session!Idle, Calls, CallOps, Knowledge
  <1>6. swept \subseteq {<<automatic, request[automatic].account>>}
    BY <1>1, <1>2 DEF SlotExact
  <1>7. IsFiniteSet({<<automatic, request[automatic].account>>}) /\ Cardinality({<<automatic, request[automatic].account>>}) = 1
    BY FS_Singleton
  <1>8. Session!Cardinality(swept) <= 1
    <2>1. Cardinality(swept) <= 1
      BY <1>6, <1>7, FS_Subset
    <2>2. Session!Cardinality(swept) = Cardinality(swept)
      BY DEF Session!Cardinality, Cardinality
    <2> QED
      BY <2>1, <2>2
  <1>9. Session!SlotReturned
    BY <1>1, <1>8 DEF Session!SlotReturned, SlotExact, Session!Idle
  <1> QED
    BY <1>1, <1>5, <1>9 DEF SessionHonest

\* services/client.rs and account.rs, for any number of threads and accounts: a host
\* that was told it is signed in never uploads anonymously, through expiry, failed
\* calls, restarts and overlapping calls of other threads, unless it missed that the
\* server deleted the account; and automatic receiving runs once and gives its slot back.
THEOREM SessionAlwaysHonest == Session!Spec => []SessionHonest
  <1>1. Session!Init => SessionInv
    BY SessionInit
  <1>2. SessionInv /\ [Session!Next]_(Session!vars) => SessionInv'
    <2> SUFFICES ASSUME SessionInv, [Session!Next]_(Session!vars)
                 PROVE  SessionInv'
      OBVIOUS
    <2>1. ASSUME Session!Next
          PROVE  SessionInv'
      BY <2>1, SessionCallsBegin, SessionCallsMove, SessionSweeps, SessionAround DEF Session!Next
    <2> QED
      BY <2>1, SessionAround
  <1>3. SessionInv => SessionHonest
    BY SessionInvSuffices
  <1> QED
    BY <1>1, <1>2, <1>3, PTL DEF Session!Spec

-----------------------------------------------------------------------------
(***************************************************************************)
(* ClientRuntime: the registry of jobs.                                    *)
(***************************************************************************)

\* Rows, workers and calls have their types.
RegistryTyped ==
  /\ row \in [Row -> Rows \cup {None}] /\ worker \in [Worker -> Workers] /\ call \in [Thread -> Looks \cup {None}]
  /\ disk \in {"none", "saved", "complete", "discarded"}

\* What row x and its worker's record y know of each other: a question is shown as
\* long as the worker holds it, a row that goes on is not cancelled, one that pauses
\* is, and one that ended has a worker that is done.
Agree(x, y) ==
  /\ y.pc # "none" /\ (x.held <=> y.asked = "held")
  /\ x.held => x.state = "Running"
  /\ x.state = "Running" => ~y.cancelled
  /\ x.state = "Pausing" => y.cancelled
  /\ x.state \in Registry!Terminal => y.pc = "done"

\* Each row has a worker of its own, or is a detached row that ended.
RowsAgree ==
  /\ \A r \in Row : row[r] # None /\ row[r].worker # None => Agree(row[r], worker[row[r].worker])
  /\ \A r \in Row : row[r] # None /\ row[r].worker = None => row[r].state \in Registry!Terminal /\ ~row[r].held
  /\ \A r, o \in Row : row[r] # None /\ row[o] # None /\ row[r].worker # None /\ row[r].worker = row[o].worker => r = o

\* A worker has a question open exactly while it waits; at its end it has let go.
Sound(y) == (y.asked # None <=> y.pc = "asking") /\ (y.pc = "done" => ~y.lock /\ ~y.permit)

WorkersSound == \A w \in Worker : Sound(worker[w])

\* A worker that goes on is the worker of a row, or cancelled.
Attended(w) ==
  worker[w].pc \in {"queued", "run", "asking", "ending"} =>
    worker[w].cancelled \/ \E r \in Row : row[r] # None /\ row[r].worker = w

RegistryInv == RegistryTyped /\ RowsAgree /\ WorkersSound /\ \A w \in Worker : Attended(w)

\* The invariant gives the property the runs check.
LEMMA RegistryInvSuffices ==
  ASSUME RegistryInv
  PROVE  JobsReachable
  <1>1. \A r \in Row : row[r] # None => row[r] \in Rows
    BY DEF RegistryInv, RegistryTyped
  <1>2. \A w \in Worker : worker[w] \in Workers
    BY DEF RegistryInv, RegistryTyped
  <1>3. Registry!TypeOK
    BY <1>1, <1>2 DEF RegistryInv, RegistryTyped, Registry!TypeOK, Rows, Workers
  <1>4. Registry!PromptReachable
    <2> SUFFICES ASSUME NEW w \in Worker, worker[w].pc = "asking", ~worker[w].cancelled
                 PROVE  \E r \in Row : row[r] # None /\ row[r].worker = w /\ row[r].state = "Running"
                                       /\ (worker[w].asked = "held") = row[r].held
      BY DEF Registry!PromptReachable
    <2>1. PICK r \in Row : row[r] # None /\ row[r].worker = w
      BY DEF RegistryInv, Attended
    <2>2. w # None
      BY ApplicationsAssumption DEF RegistryConstants
    <2>3. Agree(row[r], worker[w])
      BY <2>1, <2>2 DEF RegistryInv, RowsAgree
    <2>4. row[r].held \in BOOLEAN /\ row[r].state \in Registry!JobState
      BY <1>1, <2>1 DEF Rows
    <2>5. row[r].state = "Running"
      BY <2>3, <2>4 DEF Agree, Registry!JobState, Registry!Terminal
    <2>6. (worker[w].asked = "held") = row[r].held
      BY <2>3, <2>4 DEF Agree
    <2> QED
      BY <2>1, <2>5, <2>6
  <1>5. Registry!OrphansCancelled
    <2> SUFFICES ASSUME NEW w \in Registry!Live, w \notin Registry!Owned
                 PROVE  worker[w].cancelled
      BY DEF Registry!OrphansCancelled
    <2>1. w \in Worker /\ worker[w].pc \in {"queued", "run", "asking", "ending"} /\ w # None
      BY ApplicationsAssumption DEF Registry!Live, RegistryConstants
    <2>2. ~\E r \in Row : row[r] # None /\ row[r].worker = w
      BY <2>1 DEF Registry!Owned
    <2> QED
      BY <2>1, <2>2 DEF RegistryInv, Attended
  <1>6. Registry!EndedMeansReleased
    <2> SUFFICES ASSUME NEW r \in Row, row[r] # None, row[r].state \in Registry!Terminal, row[r].worker # None
                 PROVE  ~worker[row[r].worker].lock /\ ~worker[row[r].worker].permit
      BY DEF Registry!EndedMeansReleased
    <2>1. row[r].worker \in Worker /\ worker[row[r].worker].pc = "done"
      BY <1>1 DEF RegistryInv, RowsAgree, Agree, Rows
    <2> QED
      BY <2>1 DEF RegistryInv, WorkersSound, Sound
  <1> QED
    BY <1>3, <1>4, <1>5, <1>6 DEF JobsReachable

\* The invariant holds at the start.
LEMMA RegistryInit ==
  ASSUME Registry!Init
  PROVE  RegistryInv
  <1>1. Registry!NoWorker \in Workers /\ Registry!NoWorker.pc = "none" /\ Registry!NoWorker.asked = None
    BY DEF Registry!NoWorker, Workers
  <1>2. RegistryTyped
    BY <1>1 DEF Registry!Init, RegistryTyped
  <1> QED
    BY <1>1, <1>2 DEF Registry!Init, RegistryInv, RowsAgree, WorkersSound, Sound, Attended

\* A worker that takes a step of its own: it stays the worker of its row.
LEMMA WorkerMoves ==
  ASSUME RegistryInv, NEW w \in Worker, NEW x \in Workers, worker' = [worker EXCEPT ![w] = x], UNCHANGED <<row, call>>,
         disk' \in {"none", "saved", "complete", "discarded"},
         worker[w].pc \notin {"none", "done"}, x.pc # "none", x.cancelled = worker[w].cancelled, Sound(x),
         (x.asked = "held" <=> worker[w].asked = "held") \/ (x.asked # "held" /\ (worker[w].cancelled \/ worker[w].asked # "held"))
  PROVE  RegistryInv'
  <1>1. RegistryTyped /\ RowsAgree /\ WorkersSound /\ \A v \in Worker : Attended(v)
    BY DEF RegistryInv
  <1>2. worker'[w] = x /\ \A v \in Worker \ {w} : worker'[v] = worker[v]
    BY <1>1 DEF RegistryTyped
  <1>3. RegistryTyped'
    BY <1>1 DEF RegistryTyped
  <1>4. \A r \in Row : row[r] # None /\ row[r].worker # None => row[r].worker \in Worker
    BY <1>1 DEF RegistryTyped, Rows
  <1>5. ASSUME NEW r \in Row, row[r] # None, row[r].worker # None
        PROVE  Agree(row[r], worker'[row[r].worker])
    BY <1>1, <1>2, <1>4, <1>5 DEF RowsAgree, Agree
  <1>6. RowsAgree'
    BY <1>1, <1>5 DEF RowsAgree
  <1>7. WorkersSound'
    BY <1>1, <1>2 DEF WorkersSound
  <1>8. worker[w].pc \in {"queued", "run", "asking", "ending"}
    BY <1>1 DEF RegistryTyped, Workers
  <1>9. \A v \in Worker : Attended(v)'
    BY <1>1, <1>2, <1>8 DEF Attended
  <1> QED
    BY <1>3, <1>6, <1>7, <1>9 DEF RegistryInv

\* The steps of workers keep the invariant.
LEMMA RegistryWorkers ==
  ASSUME RegistryInv, NEW w \in Worker,
         \/ Registry!Admit(w) \/ Registry!Ask(w) \/ Registry!AskFails(w) \/ Registry!Answered(w)
         \/ Registry!EndRun(w) \/ Registry!SendResult(w)
  PROVE  RegistryInv'
  <1>1. worker[w] \in Workers /\ Sound(worker[w]) /\ disk \in {"none", "saved", "complete", "discarded"}
    BY DEF RegistryInv, RegistryTyped, WorkersSound
  <1>2. None \notin Asked /\ {"sent", "held", "answered", "dropped"} = Asked
    BY ApplicationsAssumption DEF RegistryConstants, Asked
  <1> DEFINE Good(x) == /\ x \in Workers /\ x.pc # "none" /\ x.cancelled = worker[w].cancelled /\ Sound(x)
                        /\ \/ x.asked = "held" <=> worker[w].asked = "held"
                           \/ x.asked # "held" /\ (worker[w].cancelled \/ worker[w].asked # "held")
  <1>3. ASSUME NEW x, Good(x), worker' = [worker EXCEPT ![w] = x], UNCHANGED <<row, call>>,
               disk' \in {disk, "saved", "complete"}, worker[w].pc \notin {"none", "done"}
        PROVE  RegistryInv'
    BY <1>1, <1>3, WorkerMoves
  <1>4. ASSUME Registry!Admit(w)
        PROVE  RegistryInv'
    <2> DEFINE yes == [worker[w] EXCEPT !.pc = "run", !.permit = TRUE, !.lock = TRUE]
               no == [worker[w] EXCEPT !.pc = "ending", !.result = "error"]
    <2>1. worker[w].pc = "queued" /\ UNCHANGED <<row, call>> /\ disk' \in {disk, "saved"}
          /\ (worker' = [worker EXCEPT ![w] = yes] \/ worker' = [worker EXCEPT ![w] = no])
      BY <1>4 DEF Registry!Admit
    <2>2. Good(yes) /\ Good(no)
      BY <1>1, <2>1 DEF Workers, Sound
    <2> HIDE DEF yes, no, Good
    <2> QED
      BY <1>3, <2>1, <2>2
  <1>5. ASSUME Registry!Ask(w)
        PROVE  RegistryInv'
    <2> DEFINE x == [worker[w] EXCEPT !.pc = "asking", !.asked = "sent", !.prompts = @ + 1]
    <2>1. worker[w].pc = "run" /\ UNCHANGED <<row, call, disk>> /\ worker' = [worker EXCEPT ![w] = x]
      BY <1>5 DEF Registry!Ask
    <2>2. x \in Workers /\ x.pc = "asking" /\ x.asked = "sent" /\ x.cancelled = worker[w].cancelled
      <3>1. worker[w].prompts \in Nat
        BY <1>1 DEF Workers
      <3>2. worker[w].prompts + 1 \in Nat /\ "sent" \in Asked
        BY <1>2, <3>1
      <3> QED
        BY <1>1, <3>2 DEF Workers
    <2>3. worker[w].asked = None
      BY <1>1, <2>1 DEF Sound
    <2> HIDE DEF x
    <2>4. Good(x)
      BY <1>2, <2>2, <2>3 DEF Sound
    <2> HIDE DEF Good
    <2> QED
      BY <1>3, <2>1, <2>4
  <1>6. ASSUME Registry!AskFails(w)
        PROVE  RegistryInv'
    <2> DEFINE x == [worker[w] EXCEPT !.pc = "ending", !.asked = None, !.result = "error"]
    <2>1. worker[w].pc = "asking" /\ (worker[w].cancelled \/ worker[w].asked = "dropped") /\ UNCHANGED <<row, call, disk>>
          /\ worker' = [worker EXCEPT ![w] = x]
      BY <1>6 DEF Registry!AskFails
    <2>2. Good(x)
      BY <1>1, <1>2, <2>1 DEF Workers, Sound
    <2> HIDE DEF x, Good
    <2> QED
      BY <1>3, <2>1, <2>2
  <1>7. ASSUME Registry!Answered(w)
        PROVE  RegistryInv'
    <2> DEFINE x == [worker[w] EXCEPT !.pc = "run", !.asked = None]
    <2>1. worker[w].pc = "asking" /\ worker[w].asked = "answered" /\ UNCHANGED <<row, call, disk>>
          /\ worker' = [worker EXCEPT ![w] = x]
      BY <1>7 DEF Registry!Answered
    <2>2. Good(x)
      BY <1>1, <1>2, <2>1 DEF Workers, Sound
    <2> HIDE DEF x, Good
    <2> QED
      BY <1>3, <2>1, <2>2
  <1>8. ASSUME Registry!EndRun(w)
        PROVE  RegistryInv'
    <2> DEFINE ok == [worker[w] EXCEPT !.pc = "ending", !.result = "ok", !.lock = FALSE]
               err == [worker[w] EXCEPT !.pc = "ending", !.result = "error", !.lock = FALSE]
    <2>1. worker[w].pc = "run" /\ UNCHANGED <<row, call>> /\ disk' \in {disk, "complete"}
          /\ (worker' = [worker EXCEPT ![w] = ok] \/ worker' = [worker EXCEPT ![w] = err])
      BY <1>8 DEF Registry!EndRun
    <2>2. Good(ok) /\ Good(err)
      BY <1>1, <2>1 DEF Workers, Sound
    <2> HIDE DEF ok, err, Good
    <2> QED
      BY <1>3, <2>1, <2>2
  <1>9. ASSUME Registry!SendResult(w)
        PROVE  RegistryInv'
    <2> DEFINE x == [worker[w] EXCEPT !.pc = "done", !.permit = FALSE, !.lock = FALSE]
    <2>1. worker[w].pc = "ending" /\ UNCHANGED <<row, call, disk>> /\ worker' = [worker EXCEPT ![w] = x]
      BY <1>9 DEF Registry!SendResult
    <2>2. Good(x)
      BY <1>1, <2>1 DEF Workers, Sound
    <2> HIDE DEF x, Good
    <2> QED
      BY <1>3, <2>1, <2>2
  <1> QED
    BY <1>4, <1>5, <1>6, <1>7, <1>8, <1>9

\* A row that is polled, answered or paused, and its worker, change together.
LEMMA RowMoves ==
  ASSUME RegistryInv, NEW r \in Row, row[r] # None, NEW x \in Rows, NEW y \in Workers, NEW w \in Worker, row[r].worker = w, x.worker = w,
         row' = [row EXCEPT ![r] = x], worker' = [worker EXCEPT ![w] = y], UNCHANGED <<call, disk>>,
         Agree(x, y), Sound(y), y.pc = worker[w].pc, worker[w].cancelled => y.cancelled
  PROVE  RegistryInv'
  <1>1. RegistryTyped /\ RowsAgree /\ WorkersSound /\ \A v \in Worker : Attended(v)
    BY DEF RegistryInv
  <1>2. /\ worker'[w] = y /\ \A v \in Worker \ {w} : worker'[v] = worker[v]
        /\ row'[r] = x /\ \A o \in Row \ {r} : row'[o] = row[o]
    BY <1>1 DEF RegistryTyped
  <1>3. RegistryTyped'
    BY <1>1 DEF RegistryTyped
  <1>4. x # None /\ w # None
    BY ApplicationsAssumption DEF RegistryConstants
  <1>5. \A o \in Row : row[o] # None /\ row[o].worker # None => row[o].worker \in Worker
    BY <1>1 DEF RegistryTyped, Rows
  <1>6. \A o \in Row \ {r} : row[o] # None => row[o].worker # w
    BY <1>1, <1>4 DEF RowsAgree
  <1>7. RowsAgree'
    <2>1. ASSUME NEW o \in Row, row'[o] # None, row'[o].worker # None
          PROVE  Agree(row'[o], worker'[row'[o].worker])
      <3>1. CASE o = r
        BY <1>2, <3>1
      <3>2. CASE o # r
        <4>1. row'[o] = row[o] /\ row[o].worker \in Worker \ {w}
          BY <1>2, <1>5, <1>6, <2>1, <3>2
        <4> QED
          BY <1>1, <1>2, <2>1, <4>1 DEF RowsAgree
      <3> QED
        BY <3>1, <3>2
    <2>2. \A o \in Row : row'[o] # None /\ row'[o].worker = None => row'[o].state \in Registry!Terminal /\ ~row'[o].held
      BY <1>1, <1>2, <1>4 DEF RowsAgree
    <2>3. \A o, p \in Row : row'[o] # None /\ row'[p] # None /\ row'[o].worker # None /\ row'[o].worker = row'[p].worker => o = p
      BY <1>1, <1>2, <1>6 DEF RowsAgree
    <2> QED
      BY <2>1, <2>2, <2>3 DEF RowsAgree
  <1>8. WorkersSound'
    BY <1>1, <1>2 DEF WorkersSound
  <1>9. ASSUME NEW v \in Worker
        PROVE  Attended(v)'
    <2>1. \A o \in Row : row[o] # None /\ row[o].worker = v => row'[o] # None /\ row'[o].worker = v
      BY <1>2, <1>4
    <2>2. worker'[v].pc = worker[v].pc /\ (worker[v].cancelled => worker'[v].cancelled)
      BY <1>2
    <2> QED
      BY <1>1, <2>1, <2>2 DEF Attended
  <1> QED
    BY <1>3, <1>7, <1>8, <1>9 DEF RegistryInv

\* Polling, answering and pausing keep the invariant.
LEMMA RegistryRows ==
  ASSUME RegistryInv, NEW r \in Row,
         \/ Registry!Snapshot(r) \/ Registry!Pause(r)
         \/ \E id \in 1..MaxPrompt, fits \in BOOLEAN : Registry!Respond(r, id, fits)
  PROVE  RegistryInv'
  <1>1. RegistryTyped /\ RowsAgree /\ WorkersSound /\ row[r] # None
    BY DEF RegistryInv, Registry!Snapshot, Registry!Pause, Registry!Respond
  <1>2. row[r] \in Rows /\ (row[r].worker # None => row[r].worker \in Worker)
    BY <1>1 DEF RegistryTyped, Rows
  <1> DEFINE w == row[r].worker
  <1>3. w # None
    BY <1>1 DEF RowsAgree, Registry!Snapshot, Registry!Pause, Registry!Respond
  <1>4. /\ w \in Worker /\ worker[w] \in Workers /\ Sound(worker[w]) /\ Agree(row[r], worker[w])
        /\ worker = [worker EXCEPT ![w] = worker[w]]
    BY <1>1, <1>2, <1>3 DEF RegistryTyped, RowsAgree, WorkersSound
  <1>5. None \notin Asked /\ {"sent", "held", "answered", "dropped"} = Asked
    BY ApplicationsAssumption DEF RegistryConstants, Asked
  <1> HIDE DEF w
  <1>6. ASSUME NEW y \in Workers, NEW a \in Asked, y = [worker[w] EXCEPT !.asked = a], worker[w].asked # None
        PROVE  Sound(y) /\ y.asked = a /\ y.pc = worker[w].pc /\ y.cancelled = worker[w].cancelled
    BY <1>4, <1>5, <1>6 DEF Sound, Workers
  <1>7. \A a \in Asked : [worker[w] EXCEPT !.asked = a] \in Workers
    BY <1>4 DEF Workers
  <1>8. ASSUME Registry!Snapshot(r)
        PROVE  RegistryInv'
    <2>1. row[r].state \notin Registry!Terminal /\ UNCHANGED <<call, disk>>
      BY <1>8 DEF Registry!Snapshot
    <2>2. CASE worker[w].pc = "done"
      <3> DEFINE x == [row[r] EXCEPT !.state = Registry!Outcome(w), !.prompt = None, !.held = FALSE,
                         !.export = IF Registry!Outcome(w) = "Complete" THEN "Awaiting" ELSE @]
      <3>1. row' = [row EXCEPT ![r] = x] /\ worker' = worker
        BY <1>8, <2>2 DEF Registry!Snapshot, w
      <3>2. Registry!Outcome(w) \in Registry!Terminal /\ Registry!Terminal \subseteq Registry!JobState
        BY DEF Registry!Outcome, Registry!Terminal, Registry!JobState
      <3>3. x \in Rows /\ x.worker = w /\ x.state = Registry!Outcome(w) /\ ~x.held
        BY <1>2, <3>2 DEF Rows, w
      <3>4. Agree(x, worker[w])
        BY <1>4, <1>5, <2>2, <3>2, <3>3 DEF Agree, Sound, Registry!Terminal
      <3> HIDE DEF x
      <3> QED
        BY <1>1, <1>4, <2>1, <3>1, <3>3, <3>4, RowMoves DEF w
    <2>3. CASE worker[w].pc # "done"
      <3> DEFINE x == [row[r] EXCEPT !.prompt = row[r].next, !.held = TRUE, !.next = @ + 1]
                 y == [worker[w] EXCEPT !.asked = "held"]
      <3>1. /\ row' = [row EXCEPT ![r] = x] /\ worker' = [worker EXCEPT ![w] = y]
            /\ row[r].state = "Running" /\ worker[w].asked = "sent"
        BY <1>8, <2>3 DEF Registry!Snapshot, w
      <3>2. row[r].next \in Nat /\ row[r].next + 1 \in Nat
        BY <1>2 DEF Rows
      <3>3. x \in Rows /\ x.worker = w /\ x.state = "Running" /\ x.held
        BY <1>2, <3>1, <3>2 DEF Rows, w
      <3>4. y \in Workers
        BY <1>5, <1>7
      <3>5. Sound(y) /\ y.asked = "held" /\ y.pc = worker[w].pc /\ y.cancelled = worker[w].cancelled
        BY <1>5, <1>6, <3>1, <3>4
      <3> HIDE DEF x, y
      <3>6. Agree(x, y)
        BY <1>4, <3>1, <3>3, <3>5 DEF Agree, Registry!Terminal
      <3> QED
        BY <1>1, <1>4, <2>1, <3>1, <3>3, <3>4, <3>5, <3>6, RowMoves DEF w
    <2> QED
      BY <2>2, <2>3
  <1>9. ASSUME NEW id \in 1..MaxPrompt, NEW fits \in BOOLEAN, Registry!Respond(r, id, fits)
        PROVE  RegistryInv'
    <2> DEFINE x == [row[r] EXCEPT !.held = FALSE, !.prompt = IF fits THEN None ELSE @]
               a == IF fits THEN "answered" ELSE "dropped"
               y == [worker[w] EXCEPT !.asked = a]
    <2>1. row' = [row EXCEPT ![r] = x] /\ worker' = [worker EXCEPT ![w] = y] /\ row[r].held /\ UNCHANGED <<call, disk>>
      BY <1>9 DEF Registry!Respond, w
    <2>2. a \in Asked /\ a # "held"
      BY <1>5
    <2>3. x \in Rows /\ x.worker = w /\ x.state = row[r].state /\ ~x.held
      BY <1>2 DEF Rows, w
    <2>4. worker[w].asked # None
      BY <1>4, <1>5, <2>1 DEF Agree
    <2> HIDE DEF a
    <2>5. y \in Workers
      BY <1>7, <2>2
    <2>6. Sound(y) /\ y.asked = a /\ y.pc = worker[w].pc /\ y.cancelled = worker[w].cancelled
      BY <1>6, <2>2, <2>4, <2>5
    <2> HIDE DEF x, y
    <2>7. Agree(x, y)
      BY <1>4, <2>1, <2>2, <2>3, <2>6 DEF Agree, Registry!Terminal
    <2> QED
      BY <1>1, <1>4, <2>1, <2>3, <2>5, <2>6, <2>7, RowMoves DEF w
  <1>10. ASSUME Registry!Pause(r)
         PROVE  RegistryInv'
    <2> DEFINE x == [row[r] EXCEPT !.state = "Pausing", !.prompt = None, !.held = FALSE]
               y == [worker[w] EXCEPT !.cancelled = TRUE, !.asked = IF row[r].held THEN "dropped" ELSE @]
    <2>1. row' = [row EXCEPT ![r] = x] /\ worker' = [worker EXCEPT ![w] = y] /\ row[r].state = "Running" /\ UNCHANGED <<call, disk>>
      BY <1>10 DEF Registry!Pause, w
    <2>2. x \in Rows /\ x.worker = w /\ x.state = "Pausing" /\ ~x.held
      BY <1>2 DEF Rows, w, Registry!JobState
    <2>3. y \in Workers /\ y.cancelled /\ y.pc = worker[w].pc /\ y.lock = worker[w].lock /\ y.permit = worker[w].permit
          /\ y.asked = IF row[r].held THEN "dropped" ELSE worker[w].asked
      BY <1>4, <1>5 DEF Workers
    <2> HIDE DEF x, y
    <2>4. y.asked # "held" /\ (y.asked # None <=> worker[w].asked # None)
      BY <1>4, <1>5, <2>3 DEF Agree
    <2>5. Sound(y)
      BY <1>4, <2>3, <2>4 DEF Sound
    <2>6. Agree(x, y)
      BY <1>4, <2>2, <2>3, <2>4 DEF Agree, Registry!Terminal
    <2> QED
      BY <1>1, <1>4, <2>1, <2>2, <2>3, <2>5, <2>6, RowMoves DEF w
  <1> QED
    BY <1>8, <1>9, <1>10

\* The workers when the job of row r is dropped: its worker is cancelled.
Dropped(r) == IF row[r] = None THEN worker ELSE Registry!Dropping(worker, row[r].worker)

\* Dropping a job cancels its worker and leaves the rest of it, and the others, alone.
LEMMA DroppedFacts ==
  ASSUME RegistryInv, NEW r \in Row
  PROVE  /\ Dropped(r) \in [Worker -> Workers]
         /\ \A v \in Worker : /\ Dropped(r)[v].pc = worker[v].pc /\ Sound(Dropped(r)[v])
                              /\ worker[v].cancelled => Dropped(r)[v].cancelled
                              /\ row[r] # None /\ row[r].worker = v => Dropped(r)[v].cancelled
                              /\ ~(row[r] # None /\ row[r].worker = v) => Dropped(r)[v] = worker[v]
  <1>1. RegistryTyped /\ WorkersSound
    BY DEF RegistryInv
  <1>2. worker \in [Worker -> Workers] /\ None \notin Worker
    BY <1>1, ApplicationsAssumption DEF RegistryTyped, RegistryConstants
  <1>3. CASE row[r] = None \/ row[r].worker = None
    <2>1. Dropped(r) = worker
      BY <1>3 DEF Dropped, Registry!Dropping
    <2> QED
      BY <1>1, <1>2, <1>3, <2>1 DEF WorkersSound
  <1>4. CASE row[r] # None /\ row[r].worker # None
    <2> DEFINE w == row[r].worker
               y == [worker[w] EXCEPT !.cancelled = TRUE, !.channel = FALSE]
    <2>1. w \in Worker
      BY <1>1, <1>4 DEF RegistryTyped, Rows
    <2>2. Dropped(r) = [worker EXCEPT ![w] = y]
      BY <1>4 DEF Dropped, Registry!Dropping
    <2>3. worker[w] \in Workers
      BY <1>2, <2>1
    <2>4. y \in Workers /\ y.pc = worker[w].pc /\ y.asked = worker[w].asked /\ y.lock = worker[w].lock /\ y.permit = worker[w].permit /\ y.cancelled
      BY <2>3 DEF Workers
    <2> HIDE DEF y
    <2>5. Sound(y)
      BY <1>1, <2>1, <2>4 DEF WorkersSound, Sound
    <2>6. \A v \in Worker : row[r].worker = v <=> v = w
      OBVIOUS
    <2> HIDE DEF w
    <2>7. /\ Dropped(r) \in [Worker -> Workers] /\ Dropped(r)[w] = y
          /\ \A v \in Worker \ {w} : Dropped(r)[v] = worker[v]
      BY <1>2, <2>1, <2>2, <2>4
    <2> QED
      BY <1>1, <1>4, <2>4, <2>5, <2>6, <2>7 DEF WorkersSound
  <1> QED
    BY <1>3, <1>4

\* A row gets a new worker: start, or a resumption that replaces whatever row is there.
LEMMA RowStarts ==
  ASSUME RegistryInv, NEW r \in Row, NEW w \in Worker, worker[w].pc = "none", NEW b \in BOOLEAN,
         row' = [row EXCEPT ![r] = Registry!Running(w)], worker' = Registry!Started(Dropped(r), w, b),
         call' \in [Thread -> Looks \cup {None}], disk' = disk
  PROVE  RegistryInv'
  <1> DEFINE x == Registry!Running(w)
             y == [Registry!NoWorker EXCEPT !.pc = "queued", !.channel = TRUE, !.resumes = b]
             ws == Dropped(r)
  <1>1. RegistryTyped /\ RowsAgree /\ WorkersSound /\ \A v \in Worker : Attended(v)
    BY DEF RegistryInv
  <1>2. x \in Rows /\ x.worker = w /\ x.state = "Running" /\ ~x.held
    BY DEF Registry!Running, Rows, Registry!JobState
  <1>3. None \notin Asked /\ {"sent", "held", "answered", "dropped"} = Asked /\ x # None /\ w # None
    BY <1>2, ApplicationsAssumption DEF RegistryConstants, Asked
  <1>4. y \in Workers /\ y.pc = "queued" /\ y.asked = None /\ ~y.cancelled
    BY DEF Registry!NoWorker, Workers
  <1>5. worker' = [ws EXCEPT ![w] = y]
    BY DEF Registry!Started
  <1>6. ws \in [Worker -> Workers]
    BY DroppedFacts
  <1>7. /\ worker'[w] = y /\ \A v \in Worker \ {w} : worker'[v] = ws[v]
        /\ row'[r] = x /\ \A o \in Row \ {r} : row'[o] = row[o]
    BY <1>1, <1>5, <1>6 DEF RegistryTyped
  <1>8. Sound(y) /\ Agree(x, y)
    BY <1>2, <1>3, <1>4 DEF Sound, Agree, Registry!Terminal
  <1>9. RegistryTyped'
    BY <1>1, <1>2, <1>4, <1>5, <1>6 DEF RegistryTyped
  <1>10. \A v \in Worker : /\ ws[v].pc = worker[v].pc /\ Sound(ws[v])
                           /\ worker[v].cancelled => ws[v].cancelled
                           /\ row[r] # None /\ row[r].worker = v => ws[v].cancelled
                           /\ ~(row[r] # None /\ row[r].worker = v) => ws[v] = worker[v]
    BY DroppedFacts
  <1> HIDE DEF x, y, ws
  <1>11. \A o \in Row : row[o] # None /\ row[o].worker # None => row[o].worker \in Worker \ {w}
    BY <1>1 DEF RegistryTyped, Rows, RowsAgree, Agree
  <1>12. RowsAgree'
    <2>1. ASSUME NEW o \in Row, row'[o] # None, row'[o].worker # None
          PROVE  Agree(row'[o], worker'[row'[o].worker])
      <3>1. CASE o = r
        BY <1>2, <1>7, <1>8, <3>1
      <3>2. CASE o # r
        <4>1. row'[o] = row[o] /\ row[o].worker \in Worker \ {w}
          BY <1>7, <1>11, <2>1, <3>2
        <4>2. ~(row[r] # None /\ row[r].worker = row[o].worker)
          BY <1>1, <2>1, <3>2, <4>1 DEF RowsAgree
        <4>3. worker'[row[o].worker] = worker[row[o].worker]
          BY <1>7, <1>10, <4>1, <4>2
        <4> QED
          BY <1>1, <2>1, <4>1, <4>3 DEF RowsAgree
      <3> QED
        BY <3>1, <3>2
    <2>2. \A o \in Row : row'[o] # None /\ row'[o].worker = None => row'[o].state \in Registry!Terminal /\ ~row'[o].held
      BY <1>1, <1>2, <1>3, <1>7 DEF RowsAgree
    <2>3. \A o, p \in Row : row'[o] # None /\ row'[p] # None /\ row'[o].worker # None /\ row'[o].worker = row'[p].worker => o = p
      BY <1>1, <1>2, <1>7, <1>11 DEF RowsAgree
    <2> QED
      BY <2>1, <2>2, <2>3 DEF RowsAgree
  <1>13. WorkersSound'
    BY <1>7, <1>8, <1>10 DEF WorkersSound
  <1>14. ASSUME NEW v \in Worker
         PROVE  Attended(v)'
    <2>1. CASE v = w
      BY <1>2, <1>3, <1>7, <2>1 DEF Attended
    <2>2. CASE v # w /\ row[r] # None /\ row[r].worker = v
      BY <1>7, <1>10, <2>2 DEF Attended
    <2>3. CASE v # w /\ ~(row[r] # None /\ row[r].worker = v)
      <3>1. worker'[v] = worker[v]
        BY <1>7, <1>10, <2>3
      <3>2. \A o \in Row : row[o] # None /\ row[o].worker = v => row'[o] # None /\ row'[o].worker = v
        BY <1>7, <2>3
      <3> QED
        BY <1>1, <3>1, <3>2 DEF Attended
    <2> QED
      BY <2>1, <2>2, <2>3
  <1> QED
    BY <1>9, <1>12, <1>13, <1>14 DEF RegistryInv

\* A row goes, and its worker with it.
LEMMA RowGoes ==
  ASSUME RegistryInv, NEW r \in Row, row' = [row EXCEPT ![r] = None], worker' = Dropped(r),
         call' \in [Thread -> Looks \cup {None}], disk' = disk
  PROVE  RegistryInv'
  <1> DEFINE ws == Dropped(r)
  <1>1. RegistryTyped /\ RowsAgree /\ WorkersSound /\ \A v \in Worker : Attended(v)
    BY DEF RegistryInv
  <1>2. ws \in [Worker -> Workers]
    BY DroppedFacts
  <1>3. row'[r] = None /\ \A o \in Row \ {r} : row'[o] = row[o]
    BY <1>1 DEF RegistryTyped
  <1>4. RegistryTyped'
    BY <1>1, <1>2 DEF RegistryTyped
  <1>5. \A v \in Worker : /\ ws[v].pc = worker[v].pc /\ Sound(ws[v])
                          /\ worker[v].cancelled => ws[v].cancelled
                          /\ row[r] # None /\ row[r].worker = v => ws[v].cancelled
                          /\ ~(row[r] # None /\ row[r].worker = v) => ws[v] = worker[v]
    BY DroppedFacts
  <1>6. worker' = ws
    OBVIOUS
  <1> HIDE DEF ws
  <1>7. \A o \in Row : row[o] # None /\ row[o].worker # None => row[o].worker \in Worker
    BY <1>1 DEF RegistryTyped, Rows
  <1>8. RowsAgree'
    <2>1. ASSUME NEW o \in Row, row'[o] # None, row'[o].worker # None
          PROVE  Agree(row'[o], worker'[row'[o].worker])
      <3>1. o # r /\ row'[o] = row[o] /\ row[o].worker \in Worker
        BY <1>3, <1>7, <2>1
      <3>2. ~(row[r] # None /\ row[r].worker = row[o].worker)
        BY <1>1, <2>1, <3>1 DEF RowsAgree
      <3>3. worker'[row[o].worker] = worker[row[o].worker]
        BY <1>5, <1>6, <3>1, <3>2
      <3> QED
        BY <1>1, <2>1, <3>1, <3>3 DEF RowsAgree
    <2>2. \A o \in Row : row'[o] # None => row'[o] = row[o]
      BY <1>3
    <2> QED
      BY <1>1, <2>1, <2>2 DEF RowsAgree
  <1>9. WorkersSound'
    BY <1>5, <1>6 DEF WorkersSound
  <1>10. ASSUME NEW v \in Worker
         PROVE  Attended(v)'
    <2>1. CASE row[r] # None /\ row[r].worker = v
      BY <1>5, <1>6, <2>1 DEF Attended
    <2>2. CASE ~(row[r] # None /\ row[r].worker = v)
      <3>1. worker'[v] = worker[v]
        BY <1>5, <1>6, <2>2
      <3>2. \A o \in Row : row[o] # None /\ row[o].worker = v => row'[o] # None /\ row'[o].worker = v
        BY <1>3, <2>2
      <3> QED
        BY <1>1, <3>1, <3>2 DEF Attended
    <2> QED
      BY <2>1, <2>2
  <1> QED
    BY <1>4, <1>8, <1>9, <1>10 DEF RegistryInv

\* A row changes in nothing its worker knows of, or a detached row appears.
LEMMA RowOnly ==
  ASSUME RegistryInv, NEW r \in Row, NEW x \in Rows, row' = [row EXCEPT ![r] = x], worker' = worker,
         call' \in [Thread -> Looks \cup {None}], disk' = disk,
         \/ row[r] = None /\ x.worker = None /\ x.state \in Registry!Terminal /\ ~x.held
         \/ row[r] # None /\ x.worker = row[r].worker /\ x.state = row[r].state /\ x.held = row[r].held
  PROVE  RegistryInv'
  <1>1. RegistryTyped /\ RowsAgree /\ WorkersSound /\ \A v \in Worker : Attended(v)
    BY DEF RegistryInv
  <1>2. row'[r] = x /\ x # None /\ None \notin Worker /\ \A o \in Row \ {r} : row'[o] = row[o]
    BY <1>1, ApplicationsAssumption DEF RegistryTyped, RegistryConstants
  <1>3. RegistryTyped'
    BY <1>1 DEF RegistryTyped
  <1>4. RowsAgree'
    <2>1. ASSUME NEW o \in Row, row'[o] # None, row'[o].worker # None
          PROVE  Agree(row'[o], worker'[row'[o].worker])
      BY <1>1, <1>2, <2>1 DEF RowsAgree, Agree
    <2>2. \A o \in Row : row'[o] # None /\ row'[o].worker = None => row'[o].state \in Registry!Terminal /\ ~row'[o].held
      BY <1>1, <1>2 DEF RowsAgree
    <2>3. \A o \in Row : row'[o] # None /\ row'[o].worker # None => row[o] # None /\ row[o].worker = row'[o].worker
      BY <1>2
    <2>4. \A o, p \in Row : row'[o] # None /\ row'[p] # None /\ row'[o].worker # None /\ row'[o].worker = row'[p].worker => o = p
      BY <1>1, <2>3 DEF RowsAgree
    <2> QED
      BY <2>1, <2>2, <2>4 DEF RowsAgree
  <1>5. WorkersSound'
    BY <1>1 DEF WorkersSound
  <1>6. \A v \in Worker : Attended(v)'
    <2>1. \A v \in Worker, o \in Row : row[o] # None /\ row[o].worker = v => row'[o] # None /\ row'[o].worker = v
      BY <1>2
    <2> QED
      BY <1>1, <2>1 DEF Attended
  <1> QED
    BY <1>3, <1>4, <1>5, <1>6 DEF RegistryInv

\* The calls of the registry keep the invariant.
LEMMA RegistryCalls ==
  ASSUME RegistryInv,
         \/ \E r \in Row : Registry!RestoreSaved(r) \/ \E w \in Worker : Registry!Start(r, w)
         \/ \E t \in Thread : \/ Registry!DiscardCheckpoint(t) \/ Registry!RemoveRow(t) \/ Registry!CommitExport(t)
                              \/ \E w \in Worker : Registry!ResumeRow(t, w)
                              \/ \E r \in Row, o \in {"resume", "discard", "export"} : Registry!Look(t, o, r)
         \/ Registry!Restart \/ UNCHANGED Registry!vars
  PROVE  RegistryInv'
  <1>1. RegistryTyped /\ RowsAgree /\ WorkersSound /\ \A v \in Worker : Attended(v)
    BY DEF RegistryInv
  <1>2. ASSUME UNCHANGED <<row, worker>>, call' \in [Thread -> Looks \cup {None}], disk' \in {"none", "saved", "complete", "discarded"}
        PROVE  RegistryInv'
    BY <1>1, <1>2 DEF RegistryInv, RegistryTyped, RowsAgree, WorkersSound, Attended
  <1>3. \A t \in Thread : call[t] # None => call[t] \in Looks /\ call[t].row \in Row
    BY <1>1 DEF RegistryTyped, Looks
  <1>4. \A t \in Thread : [call EXCEPT ![t] = None] \in [Thread -> Looks \cup {None}]
    BY <1>1 DEF RegistryTyped
  <1>5. ASSUME NEW r \in Row, Registry!RestoreSaved(r)
        PROVE  RegistryInv'
    <2> DEFINE x == [Registry!Running(None) EXCEPT
                       !.state = IF disk = "saved" THEN "Paused" ELSE "Complete",
                       !.export = IF disk = "complete" THEN "Awaiting" ELSE @]
    <2>1. row[r] = None /\ row' = [row EXCEPT ![r] = x] /\ UNCHANGED <<worker, call, disk>>
      BY <1>5 DEF Registry!RestoreSaved
    <2>2. x \in Rows /\ x.worker = None /\ x.state \in Registry!Terminal /\ ~x.held
      BY DEF Registry!Running, Rows, Registry!Terminal, Registry!JobState
    <2> HIDE DEF x
    <2>3. call' \in [Thread -> Looks \cup {None}]
      BY <1>1, <2>1 DEF RegistryTyped
    <2> QED
      BY <2>1, <2>2, <2>3, RowOnly
  <1>6. ASSUME NEW r \in Row, NEW w \in Worker, Registry!Start(r, w)
        PROVE  RegistryInv'
    <2>1. Dropped(r) = worker
      BY <1>6 DEF Registry!Start, Dropped
    <2>2. call' \in [Thread -> Looks \cup {None}]
      BY <1>1, <1>6 DEF RegistryTyped, Registry!Start
    <2> QED
      BY <1>6, <2>1, <2>2, RowStarts DEF Registry!Start, Registry!Fresh
  <1>7. ASSUME NEW t \in Thread, Registry!DiscardCheckpoint(t)
        PROVE  RegistryInv'
    <2>1. call[t] # None /\ UNCHANGED <<row, worker>> /\ disk' \in {disk, "discarded"}
          /\ (call' = [call EXCEPT ![t] = None] \/ call' = [call EXCEPT ![t].op = "remove"])
      BY <1>7 DEF Registry!DiscardCheckpoint, Registry!Doing, Registry!Return
    <2>2. [call[t] EXCEPT !.op = "remove"] \in Looks
      BY <1>3, <2>1 DEF Looks
    <2>3. call' \in [Thread -> Looks \cup {None}]
      BY <1>1, <1>4, <2>1, <2>2 DEF RegistryTyped
    <2> QED
      BY <1>1, <1>2, <2>1, <2>3 DEF RegistryTyped
  <1>8. ASSUME NEW t \in Thread, Registry!RemoveRow(t)
        PROVE  RegistryInv'
    <2>1. call[t].row \in Row
      BY <1>3, <1>8 DEF Registry!RemoveRow, Registry!Doing
    <2>2. /\ row' = [row EXCEPT ![call[t].row] = None] /\ worker' = Dropped(call[t].row)
          /\ call' = [call EXCEPT ![t] = None] /\ disk' = disk
      BY <1>8 DEF Registry!RemoveRow, Registry!Return, Dropped
    <2> QED
      BY <1>4, <2>1, <2>2, RowGoes
  <1>9. ASSUME NEW t \in Thread, Registry!CommitExport(t)
        PROVE  RegistryInv'
    <2> DEFINE r == call[t].row
    <2>1. r \in Row
      BY <1>3, <1>9 DEF Registry!CommitExport, Registry!Doing
    <2>2. PICK e \in {"Exported", "ExportFailed"} :
            row' = [row EXCEPT ![r] = IF row[r] = None THEN row[r] ELSE [row[r] EXCEPT !.export = e]]
      BY <1>9 DEF Registry!CommitExport
    <2>3. UNCHANGED <<worker, disk>> /\ call' = [call EXCEPT ![t] = None]
      BY <1>9 DEF Registry!CommitExport, Registry!Return
    <2>4. CASE row[r] = None
      <3>1. row' = row
        BY <1>1, <2>1, <2>2, <2>4 DEF RegistryTyped
      <3> QED
        BY <1>1, <1>2, <1>4, <2>3, <3>1 DEF RegistryTyped
    <2>5. CASE row[r] # None
      <3> DEFINE x == [row[r] EXCEPT !.export = e]
      <3>1. row[r] \in Rows
        BY <1>1, <2>1, <2>5 DEF RegistryTyped
      <3>2. x \in Rows /\ x.worker = row[r].worker /\ x.state = row[r].state /\ x.held = row[r].held
        BY <2>2, <3>1 DEF Rows
      <3>3. row' = [row EXCEPT ![r] = x]
        BY <2>2, <2>5
      <3> HIDE DEF x, r
      <3> QED
        BY <1>4, <2>1, <2>3, <2>5, <3>2, <3>3, RowOnly
    <2> QED
      BY <2>4, <2>5
  <1>10. ASSUME NEW t \in Thread, NEW w \in Worker, Registry!ResumeRow(t, w)
         PROVE  RegistryInv'
    <2>1. call[t].row \in Row /\ worker[w].pc = "none"
      BY <1>3, <1>10 DEF Registry!ResumeRow, Registry!Doing, Registry!Fresh
    <2>2. /\ row' = [row EXCEPT ![call[t].row] = Registry!Running(w)]
          /\ worker' = Registry!Started(Dropped(call[t].row), w, TRUE)
          /\ call' = [call EXCEPT ![t] = None] /\ disk' = disk
      BY <1>10 DEF Registry!ResumeRow, Registry!Return, Dropped
    <2> QED
      BY <1>4, <2>1, <2>2, RowStarts
  <1>11. ASSUME NEW t \in Thread, NEW r \in Row, NEW o \in {"resume", "discard", "export"}, Registry!Look(t, o, r)
         PROVE  RegistryInv'
    <2>1. UNCHANGED <<row, worker, disk>> /\ call' = [call EXCEPT ![t] = [op |-> o, row |-> r]]
      BY <1>11 DEF Registry!Look
    <2>2. call' \in [Thread -> Looks \cup {None}]
      BY <1>1, <2>1 DEF RegistryTyped, Looks
    <2> QED
      BY <1>1, <1>2, <2>1, <2>2 DEF RegistryTyped
  <1>12. ASSUME Registry!Restart
         PROVE  RegistryInv'
    <2> DEFINE y == [Registry!NoWorker EXCEPT !.pc = "done"]
    <2>1. y \in Workers /\ y.pc = "done" /\ y.asked = None /\ ~y.lock /\ ~y.permit
      BY DEF Registry!NoWorker, Workers
    <2>2. /\ row' = [r \in Row |-> None] /\ call' = [t \in Thread |-> None] /\ disk' = disk
          /\ worker' = [w \in Worker |-> IF worker[w].pc = "none" THEN worker[w] ELSE y]
      BY <1>12 DEF Registry!Restart
    <2> HIDE DEF y
    <2>3. RegistryTyped'
      BY <1>1, <2>1, <2>2 DEF RegistryTyped
    <2>4. \A w \in Worker : Sound(worker[w])' /\ worker'[w].pc \in {"none", "done"}
      BY <1>1, <2>1, <2>2 DEF WorkersSound, Sound
    <2>5. \A r \in Row : row'[r] = None
      BY <2>2
    <2> QED
      BY <2>3, <2>4, <2>5 DEF RegistryInv, RowsAgree, WorkersSound, Attended
  <1>13. ASSUME UNCHANGED Registry!vars
         PROVE  RegistryInv'
    BY <1>1, <1>2, <1>13 DEF Registry!vars, RegistryTyped
  <1> QED
    BY <1>5, <1>6, <1>7, <1>8, <1>9, <1>10, <1>11, <1>12, <1>13

\* application.rs, managed.rs and lib.rs, for any number of rows, workers and threads:
\* whatever two threads do to one row, a question of a worker can be answered, a worker
\* without a row is cancelled, and a job shown as ended holds neither its store nor
\* its slot.
THEOREM JobsAlwaysReachable == Registry!Spec => []JobsReachable
  <1>1. Registry!Init => RegistryInv
    BY RegistryInit
  <1>2. RegistryInv /\ [Registry!Next]_(Registry!vars) => RegistryInv'
    <2> SUFFICES ASSUME RegistryInv, [Registry!Next]_(Registry!vars)
                 PROVE  RegistryInv'
      OBVIOUS
    <2>1. ASSUME Registry!Next
          PROVE  RegistryInv'
      BY <2>1, RegistryWorkers, RegistryRows, RegistryCalls DEF Registry!Next
    <2> QED
      BY <2>1, RegistryCalls
  <1>3. RegistryInv => JobsReachable
    BY RegistryInvSuffices
  <1> QED
    BY <1>1, <1>2, <1>3, PTL DEF Registry!Spec

-----------------------------------------------------------------------------
(***************************************************************************)
(* ReceivingKey: the custody of the receiving key.                         *)
(***************************************************************************)

\* The server, the two stores and the operations have their types.
CustodyTyped ==
  /\ bundles \in Seq(Bundles) /\ Len(bundles) <= MaxBundles /\ session \in [Custody!Client -> BOOLEAN]
  /\ private \in [Custody!Client -> Key \cup {None}] /\ pending \in Pendings \cup {None} /\ exports \subseteq Key
  /\ custody \in [kind : {"unknown", "pending", "configured", "locked"}, key : Key \cup {None}]
  /\ op \in [Custody!Client -> Operations \cup {None}] /\ sealed \subseteq Custody!Keys(bundles)

\* What an operation of program c relies on when it is at a step: a key that is about
\* to be published by the desktop without a password has its backup, a key that is
\* about to be saved is published.
OperationBacked(c) ==
  op[c] # None =>
    /\ op[c].at = "upload" => /\ op[c].kind \in {"password", "confirm", "setup", "wrapped", "reimport"}
                              /\ c = "desktop" /\ op[c].kind # "password" => op[c].key \in exports
                              /\ c = "desktop" => op[c].kind \in {"password", "confirm"}
    /\ op[c].at = "save" => op[c].kind \in {"confirm", "import", "unlock", "setup", "reimport"} /\ op[c].key \in Custody!Keys(bundles)
    /\ op[c].at = "mark" => op[c].key \in exports

\* A pending key that counts as exported is in a backup.
PendingBacked == pending # None /\ pending.exported => pending.key \in exports

\* Every key the desktop published under self custody has its backup, used or not.
PublishedBacked ==
  \A i \in DOMAIN bundles : bundles[i].by = "desktop" /\ bundles[i].custody = "self" => bundles[i].key \in exports

CustodyInv ==
  /\ CustodyTyped /\ PendingBacked /\ PublishedBacked /\ Custody!StoredKeyPublished
  /\ \A c \in Custody!Client : OperationBacked(c)

\* The invariant gives the property the runs check.
LEMMA CustodyInvSuffices ==
  ASSUME CustodyInv
  PROVE  KeysRecoverable
  <1>1. Custody!TypeOK
    BY DEF CustodyInv, CustodyTyped, Custody!TypeOK, Custody!KeyOrNone, Bundles, Pendings, Operations
  <1>2. Custody!DeliveriesRecoverable
    BY DEF CustodyInv, PublishedBacked, Custody!DeliveriesRecoverable
  <1> QED
    BY <1>1, <1>2 DEF KeysRecoverable, CustodyInv

\* The invariant holds at the start.
LEMMA CustodyInit ==
  ASSUME Custody!Init
  PROVE  CustodyInv
  <1>1. bundles = <<>> /\ Len(bundles) = 0 /\ DOMAIN bundles = {} /\ bundles \in Seq(Bundles)
    BY DEF Custody!Init
  <1>2. CustodyTyped
    BY <1>1, ApplicationsAssumption DEF Custody!Init, CustodyTyped, CustodyConstants
  <1> QED
    BY <1>1, <1>2 DEF Custody!Init, CustodyInv, PendingBacked, PublishedBacked, Custody!StoredKeyPublished, OperationBacked

\* The steps after an upload and a save.
LEMMA CustodyAfter ==
  /\ Custody!AfterUpload["password"] = "clear" /\ Custody!AfterUpload["confirm"] = "save"
  /\ Custody!AfterUpload["setup"] = "save" /\ Custody!AfterUpload["wrapped"] = "done" /\ Custody!AfterUpload["reimport"] = "save"
  /\ Custody!AfterSave["confirm"] = "unpend" /\ Custody!AfterSave["import"] = "refresh" /\ Custody!AfterSave["unlock"] = "refresh"
  /\ Custody!AfterSave["setup"] = "done" /\ Custody!AfterSave["reimport"] = "done"
  /\ DOMAIN Custody!AfterUpload = {"password", "confirm", "setup", "wrapped", "reimport"}
  /\ DOMAIN Custody!AfterSave = {"confirm", "import", "unlock", "setup", "reimport"}
  BY DEF Custody!AfterUpload, Custody!AfterSave

\* The kinds of operations and their steps.
Kinds == {"password", "confirm", "setup", "wrapped", "reimport", "import", "unlock", "keep", "export"}
Steps == {"upload", "save", "clear", "pend", "mark", "write", "unpend", "refresh"}

\* The records of operations.
LEMMA OperationsAre == Operations = [kind : Kinds, at : Steps, key : Key, replace : BOOLEAN]
  <1>1. DOMAIN Custody!AfterUpload \cup DOMAIN Custody!AfterSave \cup {"keep", "export"} = Kinds
    BY CustodyAfter DEF Kinds
  <1> QED
    BY <1>1 DEF Operations, Steps

\* A program that begins an operation.
LEMMA CustodyBegins ==
  ASSUME CustodyTyped, NEW c \in Custody!Client, NEW kind \in Kinds, NEW at \in Steps, NEW k \in Key, NEW b \in BOOLEAN,
         Custody!Begin(c, kind, at, k, b)
  PROVE  /\ op' \in [Custody!Client -> Operations \cup {None}] /\ \A d \in Custody!Client \ {c} : op'[d] = op[d]
         /\ op'[c] # None /\ op'[c].kind = kind /\ op'[c].at = at /\ op'[c].key = k
  <1> DEFINE x == [kind |-> kind, at |-> at, key |-> k, replace |-> b]
  <1>1. x \in Operations /\ x.kind = kind /\ x.at = at /\ x.key = k
    BY OperationsAre
  <1>2. op' = [op EXCEPT ![c] = x]
    BY DEF Custody!Begin
  <1>3. x # None
    BY <1>1, ApplicationsAssumption DEF CustodyConstants
  <1> HIDE DEF x
  <1> QED
    BY <1>1, <1>2, <1>3 DEF CustodyTyped

\* A program that goes on with its operation, or ends it.
LEMMA CustodyAdvances ==
  ASSUME CustodyTyped, NEW c \in Custody!Client, op[c] # None, NEW at \in Steps \cup {"done"}, Custody!Advance(c, at)
  PROVE  /\ op' \in [Custody!Client -> Operations \cup {None}] /\ \A d \in Custody!Client \ {c} : op'[d] = op[d]
         /\ IF at = "done" THEN op'[c] = None
            ELSE op'[c] # None /\ op'[c].kind = op[c].kind /\ op'[c].at = at /\ op'[c].key = op[c].key
  <1> DEFINE x == [op[c] EXCEPT !.at = at]
  <1>1. op[c] \in Operations
    BY DEF CustodyTyped
  <1>2. at # "done" => at \in Steps
    OBVIOUS
  <1>3. at # "done" => x \in Operations /\ x.kind = op[c].kind /\ x.at = at /\ x.key = op[c].key
    BY <1>1, <1>2, OperationsAre
  <1>4. op' = [op EXCEPT ![c] = IF at = "done" THEN None ELSE x]
    BY DEF Custody!Advance
  <1>5. at # "done" => x # None
    BY <1>3, ApplicationsAssumption DEF CustodyConstants
  <1> HIDE DEF x
  <1> QED
    BY <1>3, <1>4, <1>5 DEF CustodyTyped

\* What a step has to show: published keys and backups are never lost, so the
\* operation of the other program stays as it was.
LEMMA CustodyStep ==
  ASSUME CustodyInv, NEW c \in Custody!Client, CustodyTyped', \A d \in Custody!Client \ {c} : op'[d] = op[d], OperationBacked(c)',
         exports \subseteq exports', Custody!Keys(bundles) \subseteq Custody!Keys(bundles'),
         PendingBacked', PublishedBacked', Custody!StoredKeyPublished'
  PROVE  CustodyInv'
  <1>1. \A d \in Custody!Client \ {c} : OperationBacked(d)'
    BY DEF CustodyInv, OperationBacked
  <1> QED
    BY <1>1 DEF CustodyInv

\* Steps that change the operation of one program and what it shows, and nothing that is kept.
LEMMA CustodyKept ==
  ASSUME CustodyInv, NEW c \in Custody!Client, UNCHANGED <<bundles, private, pending, exports, sealed>>,
         session' \in [Custody!Client -> BOOLEAN],
         custody' \in [kind : {"unknown", "pending", "configured", "locked"}, key : Key \cup {None}],
         op' \in [Custody!Client -> Operations \cup {None}], \A d \in Custody!Client \ {c} : op'[d] = op[d], OperationBacked(c)'
  PROVE  CustodyInv'
  <1>1. CustodyTyped'
    BY DEF CustodyInv, CustodyTyped, Custody!Keys
  <1>2. PendingBacked' /\ PublishedBacked' /\ Custody!StoredKeyPublished'
    BY DEF CustodyInv, PendingBacked, PublishedBacked, Custody!StoredKeyPublished, Custody!Keys
  <1>3. Custody!Keys(bundles') = Custody!Keys(bundles)
    BY DEF Custody!Keys
  <1> QED
    BY <1>1, <1>2, <1>3, CustodyStep

\* The active bundle is a published one.
LEMMA ActiveBundle ==
  ASSUME CustodyTyped, Custody!Active # None
  PROVE  Custody!Active \in Bundles /\ Custody!Active.key \in Custody!Keys(bundles) /\ Custody!Active.key \in Key
  <1>1. bundles # <<>> /\ Custody!Active = bundles[Len(bundles)] /\ bundles \in Seq(Bundles)
    BY DEF Custody!Active, CustodyTyped
  <1>2. Len(bundles) \in DOMAIN bundles /\ bundles[Len(bundles)] \in Bundles
    BY <1>1
  <1>3. \A b \in Bundles : b.key \in Key
    BY DEF Bundles
  <1>4. bundles[Len(bundles)].key \in Custody!Keys(bundles)
    BY <1>2 DEF Custody!Keys
  <1> QED
    BY <1>1, <1>2, <1>3, <1>4

\* Keys that are published stay published, and one more is.
LEMMA KeysAppend ==
  ASSUME bundles \in Seq(Bundles), NEW b \in Bundles, bundles' = Append(bundles, b)
  PROVE  /\ bundles' \in Seq(Bundles) /\ Len(bundles') = Len(bundles) + 1
         /\ \A i \in DOMAIN bundles' : bundles'[i] = b \/ (i \in DOMAIN bundles /\ bundles'[i] = bundles[i])
         /\ Custody!Keys(bundles') = Custody!Keys(bundles) \cup {b.key}
  <1>1. /\ bundles' \in Seq(Bundles) /\ Len(bundles') = Len(bundles) + 1
        /\ DOMAIN bundles = 1..Len(bundles) /\ DOMAIN bundles' = 1..(Len(bundles) + 1) /\ Len(bundles) \in Nat
    OBVIOUS
  <1>2. \A i \in DOMAIN bundles : i \in DOMAIN bundles' /\ bundles'[i] = bundles[i]
    BY <1>1
  <1>3. Len(bundles) + 1 \in DOMAIN bundles' /\ bundles'[Len(bundles) + 1] = b
    BY <1>1
  <1>4. \A i \in DOMAIN bundles' : i = Len(bundles) + 1 \/ i \in DOMAIN bundles
    BY <1>1
  <1>5. \A i \in DOMAIN bundles' : bundles'[i] = b \/ (i \in DOMAIN bundles /\ bundles'[i] = bundles[i])
    BY <1>2, <1>3, <1>4
  <1>6. Custody!Keys(bundles') = Custody!Keys(bundles) \cup {b.key}
    <2>1. ASSUME NEW k \in Custody!Keys(bundles')
          PROVE  k \in Custody!Keys(bundles) \cup {b.key}
      BY <1>5, <2>1 DEF Custody!Keys
    <2>2. ASSUME NEW k \in Custody!Keys(bundles) \cup {b.key}
          PROVE  k \in Custody!Keys(bundles')
      BY <1>2, <1>3, <2>2 DEF Custody!Keys
    <2> QED
      BY <2>1, <2>2
  <1> QED
    BY <1>1, <1>5, <1>6

\* The steps the operations share keep the invariant.
LEMMA CustodyShared ==
  ASSUME CustodyInv, NEW c \in Custody!Client,
         Custody!Upload(c) \/ Custody!SavePrivate(c) \/ Custody!Abandon(c) \/ Custody!Login(c)
  PROVE  CustodyInv'
  <1>1. CustodyTyped /\ OperationBacked(c) /\ PendingBacked /\ PublishedBacked /\ Custody!StoredKeyPublished
    BY DEF CustodyInv
  <1>2. op[c] # None => op[c] \in Operations /\ op[c].key \in Key
    BY <1>1, OperationsAre DEF CustodyTyped
  <1>3. ASSUME Custody!Upload(c)
        PROVE  CustodyInv'
    <2>1. op[c] # None /\ op[c].at = "upload" /\ UNCHANGED <<session, private, pending, exports, custody, sealed>>
      BY <1>3 DEF Custody!Upload, Custody!At
    <2>2. CASE bundles' = bundles /\ Custody!Advance(c, "done")
      <3>1. /\ op' \in [Custody!Client -> Operations \cup {None}] /\ \A d \in Custody!Client \ {c} : op'[d] = op[d]
            /\ op'[c] = None
        BY <1>1, <2>1, <2>2, CustodyAdvances
      <3>2. OperationBacked(c)'
        BY <3>1 DEF OperationBacked
      <3> QED
        BY <1>1, <2>1, <2>2, <3>1, <3>2, CustodyKept DEF CustodyTyped
    <2>3. ASSUME Len(bundles) < MaxBundles, bundles' = Append(bundles, Custody!Published(c)),
                 NEW at \in {Custody!AfterUpload[op[c].kind], "done"}, Custody!Advance(c, at)
          PROVE  CustodyInv'
      <3> DEFINE b == Custody!Published(c)
      <3>1. b \in Bundles /\ b.key = op[c].key /\ b.by = c /\ (b.custody = "self" => op[c].kind \notin {"password", "wrapped"})
        BY <1>2, <2>1 DEF Custody!Published, Custody!Wrapped, Bundles
      <3> HIDE DEF b
      <3>2. bundles \in Seq(Bundles) /\ bundles' = Append(bundles, b)
        BY <1>1, <2>3 DEF CustodyTyped, b
      <3>3. /\ bundles' \in Seq(Bundles) /\ Len(bundles') = Len(bundles) + 1
            /\ \A i \in DOMAIN bundles' : bundles'[i] = b \/ (i \in DOMAIN bundles /\ bundles'[i] = bundles[i])
            /\ Custody!Keys(bundles') = Custody!Keys(bundles) \cup {b.key}
        BY <3>1, <3>2, KeysAppend
      <3>4. op[c].kind \in {"password", "confirm", "setup", "wrapped", "reimport"}
        BY <1>1, <2>1 DEF OperationBacked
      <3>5. at \in {"clear", "save", "done"} /\ (at = "save" => op[c].kind \in {"confirm", "setup", "reimport"})
        BY <2>3, <3>4, CustodyAfter
      <3>6. at \in Steps \cup {"done"}
        BY <3>5 DEF Steps
      <3>7. /\ op' \in [Custody!Client -> Operations \cup {None}] /\ \A d \in Custody!Client \ {c} : op'[d] = op[d]
            /\ IF at = "done" THEN op'[c] = None
               ELSE op'[c] # None /\ op'[c].kind = op[c].kind /\ op'[c].at = at /\ op'[c].key = op[c].key
        BY <1>1, <2>1, <2>3, <3>6, CustodyAdvances
      <3>8. OperationBacked(c)'
        BY <3>1, <3>3, <3>5, <3>7 DEF OperationBacked
      <3>9. Len(bundles) + 1 <= MaxBundles
        BY <2>3, <3>2, ApplicationsAssumption DEF CustodyConstants
      <3>10. CustodyTyped'
        BY <1>1, <2>1, <3>3, <3>7, <3>9 DEF CustodyTyped
      <3>11. PendingBacked' /\ Custody!StoredKeyPublished'
        BY <1>1, <2>1, <3>3 DEF PendingBacked, Custody!StoredKeyPublished
      <3>12. c = "desktop" /\ b.custody = "self" => b.key \in exports
        BY <1>1, <2>1, <3>1 DEF OperationBacked
      <3>13. PublishedBacked'
        BY <1>1, <2>1, <3>1, <3>3, <3>12 DEF PublishedBacked
      <3> QED
        BY <2>1, <3>3, <3>7, <3>8, <3>10, <3>11, <3>13, CustodyStep
    <2> QED
      BY <1>3, <2>2, <2>3 DEF Custody!Upload
  <1>4. ASSUME Custody!SavePrivate(c)
        PROVE  CustodyInv'
    <2>1. op[c] # None /\ op[c].at = "save" /\ private' = [private EXCEPT ![c] = op[c].key]
          /\ Custody!Advance(c, Custody!AfterSave[op[c].kind]) /\ UNCHANGED <<bundles, session, pending, exports, custody, sealed>>
      BY <1>4 DEF Custody!SavePrivate, Custody!At
    <2> DEFINE at == Custody!AfterSave[op[c].kind]
    <2>2. op[c].kind \in {"confirm", "import", "unlock", "setup", "reimport"} /\ op[c].key \in Custody!Keys(bundles)
      BY <1>1, <2>1 DEF OperationBacked
    <2>3. at \in {"unpend", "refresh", "done"}
      BY <2>2, CustodyAfter
    <2> HIDE DEF at
    <2>4. at \in Steps \cup {"done"} /\ Custody!Advance(c, at)
      BY <2>1, <2>3 DEF Steps, at
    <2>5. /\ op' \in [Custody!Client -> Operations \cup {None}] /\ \A d \in Custody!Client \ {c} : op'[d] = op[d]
          /\ IF at = "done" THEN op'[c] = None
             ELSE op'[c] # None /\ op'[c].kind = op[c].kind /\ op'[c].at = at /\ op'[c].key = op[c].key
      BY <1>1, <2>1, <2>4, CustodyAdvances
    <2>6. OperationBacked(c)'
      BY <2>3, <2>5 DEF OperationBacked
    <2>7. private' \in [Custody!Client -> Key \cup {None}] /\ \A d \in Custody!Client : private'[d] \in {private[d], op[c].key}
      BY <1>1, <1>2, <2>1 DEF CustodyTyped
    <2>8. Custody!Keys(bundles') = Custody!Keys(bundles)
      BY <2>1 DEF Custody!Keys
    <2>9. CustodyTyped'
      BY <1>1, <2>1, <2>5, <2>7, <2>8 DEF CustodyTyped
    <2>10. Custody!StoredKeyPublished'
      BY <1>1, <2>2, <2>7, <2>8 DEF Custody!StoredKeyPublished
    <2>11. PendingBacked' /\ PublishedBacked'
      BY <1>1, <2>1 DEF PendingBacked, PublishedBacked
    <2> QED
      BY <2>1, <2>5, <2>6, <2>8, <2>9, <2>10, <2>11, CustodyStep
  <1>5. ASSUME Custody!Abandon(c)
        PROVE  CustodyInv'
    <2>1. op[c] # None /\ Custody!Advance(c, "done") /\ UNCHANGED <<bundles, session, private, pending, exports, custody, sealed>>
      BY <1>5 DEF Custody!Abandon
    <2>2. op' \in [Custody!Client -> Operations \cup {None}] /\ (\A d \in Custody!Client \ {c} : op'[d] = op[d]) /\ op'[c] = None
      BY <1>1, <2>1, CustodyAdvances
    <2>3. OperationBacked(c)'
      BY <2>2 DEF OperationBacked
    <2> QED
      BY <1>1, <2>1, <2>2, <2>3, CustodyKept DEF CustodyTyped
  <1>6. ASSUME Custody!Login(c)
        PROVE  CustodyInv'
    <2>1. op[c] = None /\ session' = [session EXCEPT ![c] = TRUE] /\ UNCHANGED <<bundles, private, pending, exports, custody, op, sealed>>
      BY <1>6 DEF Custody!Login
    <2>2. OperationBacked(c)'
      BY <2>1 DEF OperationBacked
    <2> QED
      BY <1>1, <2>1, <2>2, CustodyKept DEF CustodyTyped
  <1> QED
    BY <1>3, <1>4, <1>5, <1>6

\* A program that begins an operation whose keys are backed as it relies on.
LEMMA CustodyStarts ==
  ASSUME CustodyInv, NEW c \in Custody!Client, NEW kind \in Kinds, NEW at \in Steps, NEW k \in Key, NEW b \in BOOLEAN,
         Custody!Begin(c, kind, at, k, b), UNCHANGED <<bundles, session, private, pending, exports, custody, sealed>>,
         at = "upload" => /\ kind \in {"password", "confirm", "setup", "wrapped", "reimport"}
                          /\ c = "desktop" => kind \in {"password", "confirm"} /\ (kind # "password" => k \in exports),
         at = "save" => kind \in {"confirm", "import", "unlock", "setup", "reimport"} /\ k \in Custody!Keys(bundles),
         at = "mark" => k \in exports
  PROVE  CustodyInv'
  <1>1. CustodyTyped
    BY DEF CustodyInv
  <1>2. /\ op' \in [Custody!Client -> Operations \cup {None}] /\ \A d \in Custody!Client \ {c} : op'[d] = op[d]
        /\ op'[c] # None /\ op'[c].kind = kind /\ op'[c].at = at /\ op'[c].key = k
    BY <1>1, CustodyBegins
  <1>3. OperationBacked(c)'
    BY <1>2 DEF OperationBacked, Custody!Keys
  <1> QED
    BY <1>1, <1>2, <1>3, CustodyKept DEF CustodyTyped

\* A program that ends its operation, or refreshes what it shows.
LEMMA CustodyGoesOn ==
  ASSUME CustodyTyped, op["desktop"] # None, NEW at \in Steps \ {"upload", "save", "mark"}, Custody!Advance("desktop", at)
  PROVE  /\ op' \in [Custody!Client -> Operations \cup {None}] /\ \A d \in Custody!Client \ {"desktop"} : op'[d] = op[d]
         /\ OperationBacked("desktop")'
  <1>1. "desktop" \in Custody!Client /\ at # "done"
    BY DEF Custody!Client, Steps
  <1>2. /\ op' \in [Custody!Client -> Operations \cup {None}] /\ \A d \in Custody!Client \ {"desktop"} : op'[d] = op[d]
        /\ op'["desktop"].at = at
    BY <1>1, CustodyAdvances
  <1> QED
    BY <1>2 DEF OperationBacked

\* The desktop's operations keep the invariant.
LEMMA CustodyDesktop ==
  ASSUME CustodyInv, Custody!Desktop
  PROVE  CustodyInv'
  <1> DEFINE D == "desktop"
  <1>1. CustodyTyped /\ OperationBacked(D) /\ PendingBacked /\ PublishedBacked /\ Custody!StoredKeyPublished /\ D \in Custody!Client
    BY DEF CustodyInv, Custody!Client
  <1>2. op[D] # None => op[D] \in Operations /\ op[D].key \in Key /\ op[D].replace \in BOOLEAN
    BY <1>1, OperationsAre DEF CustodyTyped
  <1>3. pending # None => pending \in Pendings /\ pending.key \in Key /\ pending.replace \in BOOLEAN
    BY <1>1 DEF CustodyTyped, Pendings
  <1>4. ASSUME NEW k \in Key, NEW p \in BOOLEAN, NEW b \in BOOLEAN, Custody!Generate(p, b, k)
        PROVE  CustodyInv'
    <2>1. UNCHANGED <<bundles, session, private, pending, exports, custody, sealed>>
      BY <1>4 DEF Custody!Generate
    <2>2. CASE p
      <3>1. Custody!Begin(D, "password", "upload", k, b)
        BY <1>4, <2>2 DEF Custody!Generate
      <3> QED
        BY <1>1, <2>1, <3>1, CustodyStarts DEF Kinds, Steps
    <2>3. CASE ~p
      <3>1. Custody!Begin(D, "keep", "pend", k, b)
        BY <1>4, <2>3 DEF Custody!Generate
      <3> QED
        BY <1>1, <2>1, <3>1, CustodyStarts DEF Kinds, Steps
    <2> QED
      BY <2>2, <2>3
  <1>5. ASSUME NEW k \in exports, Custody!Import(k)
        PROVE  CustodyInv'
    <2>1. /\ UNCHANGED <<bundles, session, private, pending, exports, custody, sealed>>
          /\ Custody!Begin(D, "import", "save", k, FALSE) /\ Custody!Active # None /\ k = Custody!Active.key
      BY <1>5 DEF Custody!Import, Custody!Validates
    <2>2. k \in Custody!Keys(bundles) /\ k \in Key
      BY <1>1, <2>1, ActiveBundle
    <2> QED
      BY <1>1, <2>1, <2>2, CustodyStarts DEF Kinds, Steps
  <1>6. ASSUME Custody!ClearPrivate
        PROVE  CustodyInv'
    <2>1. /\ op[D] # None /\ private' = [private EXCEPT ![D] = None] /\ Custody!Advance(D, "refresh")
          /\ UNCHANGED <<bundles, session, pending, exports, custody, sealed>>
      BY <1>6 DEF Custody!ClearPrivate, Custody!At
    <2>2. /\ op' \in [Custody!Client -> Operations \cup {None}] /\ \A d \in Custody!Client \ {D} : op'[d] = op[d]
          /\ OperationBacked(D)'
      BY <1>1, <2>1, CustodyGoesOn DEF Steps
    <2>3. private' \in [Custody!Client -> Key \cup {None}] /\ \A d \in Custody!Client : private'[d] \in {private[d], None}
      BY <1>1, <2>1 DEF CustodyTyped
    <2>4. Custody!Keys(bundles') = Custody!Keys(bundles)
      BY <2>1 DEF Custody!Keys
    <2>5. CustodyTyped'
      BY <1>1, <2>1, <2>2, <2>3, <2>4 DEF CustodyTyped
    <2>6. Custody!StoredKeyPublished' /\ PendingBacked' /\ PublishedBacked'
      BY <1>1, <2>1, <2>3, <2>4 DEF Custody!StoredKeyPublished, PendingBacked, PublishedBacked
    <2> QED
      BY <1>1, <2>1, <2>2, <2>4, <2>5, <2>6, CustodyStep
  <1>7. ASSUME NEW x \in Pendings \cup {None}, pending' = x, x # None /\ x.exported => x.key \in exports,
               op[D] # None, Custody!Advance(D, "refresh"), UNCHANGED <<bundles, session, private, exports, custody, sealed>>
        PROVE  CustodyInv'
    <2>1. /\ op' \in [Custody!Client -> Operations \cup {None}] /\ \A d \in Custody!Client \ {D} : op'[d] = op[d]
          /\ OperationBacked(D)'
      BY <1>1, <1>7, CustodyGoesOn DEF Steps
    <2>2. Custody!Keys(bundles') = Custody!Keys(bundles)
      BY <1>7 DEF Custody!Keys
    <2>3. CustodyTyped'
      BY <1>1, <1>7, <2>1, <2>2 DEF CustodyTyped
    <2>4. Custody!StoredKeyPublished' /\ PendingBacked' /\ PublishedBacked'
      BY <1>1, <1>7, <2>2 DEF Custody!StoredKeyPublished, PendingBacked, PublishedBacked
    <2> QED
      BY <1>1, <1>7, <2>1, <2>2, <2>3, <2>4, CustodyStep
  <1>8. ASSUME Custody!SavePending
        PROVE  CustodyInv'
    <2> DEFINE x == [key |-> op[D].key, exported |-> FALSE, replace |-> op[D].replace]
    <2>1. op[D] # None /\ pending' = x /\ Custody!Advance(D, "refresh") /\ UNCHANGED <<bundles, session, private, exports, custody, sealed>>
      BY <1>8 DEF Custody!SavePending, Custody!At
    <2>2. x \in Pendings /\ ~x.exported
      BY <1>2, <2>1 DEF Pendings
    <2> HIDE DEF x
    <2> QED
      BY <1>7, <2>1, <2>2
  <1>9. ASSUME Custody!Export
        PROVE  CustodyInv'
    <2> DEFINE k == Custody!PendingOrStored
               at == IF pending # None THEN "mark" ELSE "refresh"
    <2>1. k # None /\ exports' = exports \cup {k} /\ Custody!Begin(D, "export", at, k, FALSE)
          /\ UNCHANGED <<bundles, session, private, pending, custody, sealed>>
      BY <1>9 DEF Custody!Export, Custody!WriteKeyExport
    <2>2. k \in Key
      BY <1>1, <1>3, <2>1 DEF Custody!PendingOrStored, CustodyTyped
    <2>3. at \in Steps /\ at \notin {"upload", "save"} /\ "export" \in Kinds
      BY DEF Steps, Kinds
    <2> HIDE DEF k, at
    <2>4. /\ op' \in [Custody!Client -> Operations \cup {None}] /\ \A d \in Custody!Client \ {D} : op'[d] = op[d]
          /\ op'[D] # None /\ op'[D].at = at /\ op'[D].key = k
      BY <1>1, <2>1, <2>2, <2>3, CustodyBegins
    <2>5. OperationBacked(D)'
      BY <2>1, <2>3, <2>4 DEF OperationBacked
    <2>6. Custody!Keys(bundles') = Custody!Keys(bundles)
      BY <2>1 DEF Custody!Keys
    <2>7. CustodyTyped'
      BY <1>1, <2>1, <2>2, <2>4, <2>6 DEF CustodyTyped
    <2>8. Custody!StoredKeyPublished' /\ PendingBacked' /\ PublishedBacked'
      BY <1>1, <2>1, <2>6 DEF Custody!StoredKeyPublished, PendingBacked, PublishedBacked
    <2> QED
      BY <1>1, <2>1, <2>4, <2>5, <2>6, <2>7, <2>8, CustodyStep
  <1>10. ASSUME Custody!MarkExported
         PROVE  CustodyInv'
    <2> DEFINE x == [pending EXCEPT !.exported = TRUE]
    <2>1. /\ op[D] # None /\ op[D].at = "mark" /\ pending # None /\ pending.key = op[D].key /\ pending' = x
          /\ Custody!Advance(D, "refresh") /\ UNCHANGED <<bundles, session, private, exports, custody, sealed>>
      BY <1>10 DEF Custody!MarkExported, Custody!At
    <2>2. x \in Pendings /\ x.key = pending.key
      BY <1>3, <2>1 DEF Pendings
    <2>3. x.key \in exports
      BY <1>1, <2>1, <2>2 DEF OperationBacked
    <2> HIDE DEF x
    <2> QED
      BY <1>7, <2>1, <2>2, <2>3
  <1>11. ASSUME Custody!Confirm
         PROVE  CustodyInv'
    <2>1. /\ pending # None /\ pending.exported /\ Custody!Begin(D, "confirm", "upload", pending.key, pending.replace)
          /\ UNCHANGED <<bundles, session, private, pending, exports, custody, sealed>>
      BY <1>11 DEF Custody!Confirm
    <2>2. pending.key \in exports /\ pending.key \in Key /\ pending.replace \in BOOLEAN
      BY <1>1, <1>3, <2>1 DEF PendingBacked
    <2> QED
      BY <1>1, <2>1, <2>2, CustodyStarts DEF Kinds, Steps
  <1>12. ASSUME Custody!ClearPending
         PROVE  CustodyInv'
    BY <1>7, <1>12 DEF Custody!ClearPending, Custody!At
  <1>13. ASSUME Custody!Unlock
         PROVE  CustodyInv'
    <2>1. /\ UNCHANGED <<bundles, session, private, pending, exports, custody, sealed>>
          /\ Custody!Begin(D, "unlock", "save", Custody!Active.key, FALSE) /\ Custody!Active # None
      BY <1>13 DEF Custody!Unlock
    <2>2. Custody!Active.key \in Custody!Keys(bundles) /\ Custody!Active.key \in Key
      BY <1>1, <2>1, ActiveBundle
    <2> QED
      BY <1>1, <2>1, <2>2, CustodyStarts DEF Kinds, Steps
  <1>14. ASSUME Custody!RefreshCustody
         PROVE  CustodyInv'
    <2>1. Custody!Advance(D, "done") /\ UNCHANGED <<bundles, session, private, pending, exports, sealed>>
      BY <1>14 DEF Custody!RefreshCustody
    <2>2. op' = [op EXCEPT ![D] = None]
      BY <2>1 DEF Custody!Advance
    <2>3. /\ op' \in [Custody!Client -> Operations \cup {None}] /\ \A d \in Custody!Client \ {D} : op'[d] = op[d]
          /\ OperationBacked(D)'
      BY <1>1, <2>2 DEF CustodyTyped, OperationBacked
    <2>4. PICK kind \in {"unknown", "pending", "configured", "locked"}, k \in Key \cup {None} : custody' = [kind |-> kind, key |-> k]
      <3>1. CASE pending # None
        BY <1>3, <1>14, <3>1 DEF Custody!RefreshCustody
      <3>2. CASE pending = None /\ Custody!Active = None
        BY <1>14, <3>2 DEF Custody!RefreshCustody
      <3>3. CASE pending = None /\ Custody!Active # None
        <4>1. Custody!Active.key \in Key
          BY <1>1, <3>3, ActiveBundle
        <4> QED
          BY <1>14, <3>3, <4>1 DEF Custody!RefreshCustody
      <3> QED
        BY <3>1, <3>2, <3>3
    <2>5. custody' \in [kind : {"unknown", "pending", "configured", "locked"}, key : Key \cup {None}]
      BY <2>4
    <2>6. session' \in [Custody!Client -> BOOLEAN]
      BY <1>1, <2>1 DEF CustodyTyped
    <2> QED
      BY <1>1, <2>1, <2>3, <2>5, <2>6, CustodyKept
  <1>15. ASSUME Custody!LogoutDesktop
         PROVE  CustodyInv'
    <2>1. op[D] = None /\ session' = [session EXCEPT ![D] = FALSE] /\ UNCHANGED <<bundles, private, pending, exports, custody, op, sealed>>
      BY <1>15 DEF Custody!LogoutDesktop
    <2>2. OperationBacked(D)'
      BY <2>1 DEF OperationBacked
    <2> QED
      BY <1>1, <2>1, <2>2, CustodyKept DEF CustodyTyped
  <1> QED
    BY <1>4, <1>5, <1>6, <1>8, <1>9, <1>10, <1>11, <1>12, <1>13, <1>14, <1>15 DEF Custody!Desktop

\* The command line's operations and the senders keep the invariant.
LEMMA CustodyCli ==
  ASSUME CustodyInv, Custody!Cli \/ Custody!Seal \/ UNCHANGED Custody!vars
  PROVE  CustodyInv'
  <1> DEFINE C == "cli"
  <1>1. CustodyTyped /\ PendingBacked /\ PublishedBacked /\ Custody!StoredKeyPublished /\ C \in Custody!Client /\ C # "desktop"
    BY DEF CustodyInv, Custody!Client
  <1>2. ASSUME NEW k \in Key, NEW b \in BOOLEAN, NEW kind \in {"setup", "wrapped", "reimport"}, Custody!Begin(C, kind, "upload", k, b),
               UNCHANGED <<bundles, session, private, pending, exports, custody, sealed>>
        PROVE  CustodyInv'
    BY <1>1, <1>2, CustodyStarts DEF Kinds, Steps
  <1>3. ASSUME NEW k \in Key, NEW b \in BOOLEAN, Custody!Setup(b, k) \/ Custody!SetupPassword(b, k)
        PROVE  CustodyInv'
    BY <1>2, <1>3 DEF Custody!Setup, Custody!SetupPassword
  <1>4. ASSUME NEW k \in exports, NEW b \in BOOLEAN, Custody!ImportForAccount(b, k)
        PROVE  CustodyInv'
    <2>1. k \in Key
      BY <1>1 DEF CustodyTyped
    <2> QED
      BY <1>2, <1>4, <2>1 DEF Custody!ImportForAccount
  <1>5. ASSUME exports \subseteq exports', exports' \subseteq Key, private' \in [Custody!Client -> Key \cup {None}],
               \A d \in Custody!Client : private'[d] \in {private[d], None}, session' \in [Custody!Client -> BOOLEAN],
               sealed' \subseteq Custody!Keys(bundles), UNCHANGED <<bundles, pending, custody, op>>
        PROVE  CustodyInv'
    <2>1. Custody!Keys(bundles') = Custody!Keys(bundles)
      BY <1>5 DEF Custody!Keys
    <2>2. CustodyTyped'
      BY <1>1, <1>5, <2>1 DEF CustodyTyped
    <2>3. Custody!StoredKeyPublished' /\ PendingBacked' /\ PublishedBacked'
      BY <1>1, <1>5, <2>1 DEF Custody!StoredKeyPublished, PendingBacked, PublishedBacked
    <2>4. OperationBacked(C)'
      BY <1>1, <1>5, <2>1 DEF CustodyInv, OperationBacked
    <2> QED
      BY <1>1, <1>5, <2>1, <2>2, <2>3, <2>4, CustodyStep
  <1>6. ASSUME Custody!ExportStored
        PROVE  CustodyInv'
    <2>1. private[C] # None /\ exports' = exports \cup {private[C]} /\ UNCHANGED <<bundles, session, private, pending, custody, op, sealed>>
      BY <1>6 DEF Custody!ExportStored
    <2> QED
      BY <1>1, <1>5, <2>1 DEF CustodyTyped
  <1>7. ASSUME Custody!LogoutCli
        PROVE  CustodyInv'
    <2>1. /\ session' = [session EXCEPT ![C] = FALSE] /\ private' = [private EXCEPT ![C] = None]
          /\ UNCHANGED <<bundles, pending, exports, custody, op, sealed>>
      BY <1>7 DEF Custody!LogoutCli
    <2> QED
      BY <1>1, <1>5, <2>1 DEF CustodyTyped
  <1>8. ASSUME Custody!Seal
        PROVE  CustodyInv'
    <2>1. Custody!Active # None /\ sealed' = sealed \cup {Custody!Active.key}
          /\ UNCHANGED <<bundles, session, private, pending, exports, custody, op>>
      BY <1>8 DEF Custody!Seal
    <2>2. Custody!Active.key \in Custody!Keys(bundles)
      BY <1>1, <2>1, ActiveBundle
    <2> QED
      BY <1>1, <1>5, <2>1, <2>2 DEF CustodyTyped
  <1>9. ASSUME UNCHANGED Custody!vars
        PROVE  CustodyInv'
    BY <1>1, <1>5, <1>9 DEF Custody!vars, CustodyTyped
  <1> QED
    BY <1>3, <1>4, <1>6, <1>7, <1>8, <1>9 DEF Custody!Cli

\* client.rs and the command line's services, for any keys: what is sealed to a key
\* the desktop published under self custody can be opened with a backup, and a stored
\* key is published, whichever call of the two programs fails, ends or loses its
\* answer.
THEOREM KeysAlwaysRecoverable == Custody!Spec => []KeysRecoverable
  <1>1. Custody!Init => CustodyInv
    BY CustodyInit
  <1>2. CustodyInv /\ [Custody!Next]_(Custody!vars) => CustodyInv'
    BY CustodyShared, CustodyDesktop, CustodyCli DEF Custody!Next
  <1>3. CustodyInv => KeysRecoverable
    BY CustodyInvSuffices
  <1> QED
    BY <1>1, <1>2, <1>3, PTL DEF Custody!Spec

-----------------------------------------------------------------------------
(***************************************************************************)
(* Notes: a note from its creation to its removal.                         *)
(***************************************************************************)

\* A note, its creator and its readers have their types.
NotesTyped ==
  /\ note \in NoteRecords /\ creator \in Creators /\ record \in {None, "note", "live"}
  /\ reader \in [Reader -> Receives] /\ burnt \in BOOLEAN

\* The removal of the note is under way or done.
Removed == note.st \in {"deleting", "gone"}

\* The creator: a host that keeps capabilities shows nothing before it is on disk, and
\* while a note that is shown, or about to be, can be read, it stays there.
CreatorSound ==
  /\ creator.pc = "start" => note.st = "none"
  /\ creator.pc \in {"start", "sending", "created", "saving"} => creator.receipt = "none"
  /\ creator.keeps /\ (creator.receipt # "none" \/ creator.pc = "saved") /\ note.st = "available" => record # None
  /\ creator.pc = "acknowledge" => note.st # "available"

\* A reader: one that goes on has seen the note available, one that is about to burn
\* it has verified the text and keeps it, and one that was told so saw it removed.
ReaderSound(r) ==
  /\ reader[r].pc \in {"connecting", "chunks", "verified", "burning", "complete"} => note.st \notin {"none", "pending"}
  /\ reader[r].pc \in {"verified", "burning", "complete"} => reader[r].verified
  /\ reader[r].pc \in {"verified", "burning"} => reader[r].text
  /\ reader[r].pc = "complete" /\ reader[r].managed => reader[r].text
  /\ reader[r].consumed => Removed
  /\ note.consumer = r => reader[r].pc \in {"complete", "failed"} /\ reader[r].verified /\ (reader[r].managed => reader[r].text)

NotesInv == NotesTyped /\ CreatorSound /\ (burnt => Removed) /\ \A r \in Reader : ReaderSound(r)

\* Every text has a number of chunks.
LEMMA ChunksNat == Noting!Chunks \in Nat
  <1>1. Size \in Nat /\ ChunkBytes \in Nat /\ ChunkBytes > 0
    BY ApplicationsAssumption DEF NoteConstants
  <1>2. CASE Size = 0
    BY <1>2 DEF Noting!Chunks, Noting!ChunkCount
  <1>3. CASE Size # 0
    <2>1. Size + ChunkBytes - 1 \in Nat
      BY <1>1
    <2>2. \A a, b \in Nat : b > 0 => a \div b \in Nat
      OBVIOUS
    <2> QED
      BY <1>1, <1>3, <2>1, <2>2 DEF Noting!Chunks, Noting!ChunkCount
  <1> QED
    BY <1>2, <1>3

\* The invariant gives the property the runs check.
LEMMA NotesInvSuffices ==
  ASSUME NotesInv
  PROVE  NotesKept
  <1>1. NotesTyped /\ CreatorSound /\ \A r \in Reader : ReaderSound(r)
    BY DEF NotesInv
  <1>2. Noting!TypeOK
    BY <1>1 DEF NotesTyped, Noting!TypeOK, NoteRecords, Creators, Receives
  <1>3. Noting!BurntTextKept /\ Noting!ConsumedMeansRemoved
    BY <1>1 DEF ReaderSound, Removed, Noting!BurntTextKept, Noting!ConsumedMeansRemoved
  <1>4. Noting!CapabilityKept
    BY <1>1 DEF CreatorSound, Noting!CapabilityKept
  <1> QED
    BY <1>2, <1>3, <1>4 DEF NotesKept

\* A receive that has not started.
LEMMA NewReaderIs ==
  /\ Noting!NewReader \in Receives /\ Noting!NewReader.pc = "idle" /\ ~Noting!NewReader.consumed
  BY ChunksNat DEF Noting!NewReader, Receives

\* The invariant holds at the start.
LEMMA NotesInit ==
  ASSUME Noting!Init
  PROVE  NotesInv
  <1>1. PICK d \in Drivers, b \in BOOLEAN :
          note = [st |-> "none", driver |-> d, burn |-> b, put |-> 0, claim |-> None, consumer |-> None]
    BY DEF Noting!Init
  <1>2. note \in NoteRecords /\ note.st = "none" /\ note.consumer = None
    BY <1>1, ChunksNat DEF NoteRecords
  <1>3. creator \in Creators /\ creator.pc = "start" /\ creator.receipt = "none"
    BY ApplicationsAssumption DEF Noting!Init, Creators, NoteConstants
  <1>4. reader \in [Reader -> Receives] /\ \A r \in Reader : reader[r].pc = "idle" /\ ~reader[r].consumed
    BY NewReaderIs DEF Noting!Init
  <1>5. \A r \in Reader : note.consumer # r
    BY <1>2, ApplicationsAssumption DEF NoteConstants
  <1> QED
    BY <1>2, <1>3, <1>4, <1>5 DEF Noting!Init, NotesInv, NotesTyped, CreatorSound, ReaderSound

\* What a step of the creator, of its record or of the server has to show: the note
\* never goes back.
LEMMA CreatorStep ==
  ASSUME NotesInv, UNCHANGED <<reader, burnt>>, note' \in NoteRecords, note'.consumer = note.consumer,
         note.st \notin {"none", "pending"} => note'.st \notin {"none", "pending"}, Removed => Removed',
         creator' \in Creators, record' \in {None, "note", "live"}, CreatorSound'
  PROVE  NotesInv'
  <1>1. NotesTyped'
    BY DEF NotesInv, NotesTyped
  <1>2. \A r \in Reader : ReaderSound(r)'
    BY DEF NotesInv, ReaderSound
  <1> QED
    BY <1>1, <1>2 DEF NotesInv

\* What a step of reader r has to show.
LEMMA ReaderStep ==
  ASSUME NotesInv, NEW r \in Reader, UNCHANGED <<creator, record>>, note' \in NoteRecords, NEW x \in Receives,
         reader' = [reader EXCEPT ![r] = x], note'.consumer \in {note.consumer, r},
         note'.st = note.st \/ (note.st = "available" /\ note'.st = "deleting"),
         burnt' \in BOOLEAN, burnt' => Removed', ReaderSound(r)'
  PROVE  NotesInv'
  <1>1. NotesTyped'
    BY DEF NotesInv, NotesTyped
  <1>2. CreatorSound'
    BY DEF NotesInv, CreatorSound
  <1>3. \A s \in Reader \ {r} : reader'[s] = reader[s]
    BY DEF NotesInv, NotesTyped
  <1>4. \A s \in Reader \ {r} : ReaderSound(s)'
    BY <1>3 DEF NotesInv, ReaderSound, Removed
  <1> QED
    BY <1>1, <1>2, <1>4 DEF NotesInv

\* The note when its state, or how much of it was uploaded, changes.
LEMMA NoteChanges ==
  ASSUME NotesTyped
  PROVE  /\ \A s \in {"pending", "available", "deleting", "gone"} :
              LET n == [note EXCEPT !.st = s] IN n \in NoteRecords /\ n.st = s /\ n.consumer = note.consumer
         /\ note.put < Noting!Chunks =>
              LET n == [note EXCEPT !.put = @ + 1] IN n \in NoteRecords /\ n.st = note.st /\ n.consumer = note.consumer
  <1>1. note \in NoteRecords /\ note.put \in 0..Noting!Chunks
    BY DEF NotesTyped, NoteRecords
  <1>2. note.put < Noting!Chunks => note.put + 1 \in 0..Noting!Chunks
    BY <1>1, ChunksNat
  <1> QED
    BY <1>1, <1>2 DEF NoteRecords

\* The creator at its next step.
LEMMA CreatorMoves ==
  ASSUME NotesTyped, NEW pc, NEW next \in {"start", "sending", "created", "saving", "saved", "serving", "complete", "ending",
                                            "acknowledge", "ended", "failed", "crashed"},
         Noting!CreatorAt(pc, next)
  PROVE  creator.pc = pc /\ creator' \in Creators /\ creator'.pc = next /\ creator'.receipt = creator.receipt /\ creator'.keeps = creator.keeps
  BY DEF NotesTyped, Noting!CreatorAt, Creators

\* The creation keeps the invariant.
LEMMA NotesCreated ==
  ASSUME NotesInv, NEW o \in Noting!Outcome, NEW ok \in BOOLEAN,
         \/ Noting!Reserve(o) \/ Noting!ReserveLive(o, ok) \/ Noting!PutChunk(o) \/ Noting!Complete(o) \/ Noting!Publish(o)
         \/ Noting!CheckCreated \/ Noting!SaveManagement(ok) \/ Noting!ShareReady
  PROVE  NotesInv'
  <1>1. NotesTyped /\ CreatorSound /\ note \in NoteRecords /\ creator \in Creators /\ record \in {None, "note", "live"}
    BY DEF NotesInv, NotesTyped
  <1>2. \A s \in {"pending", "available", "deleting", "gone"} :
          LET n == [note EXCEPT !.st = s] IN n \in NoteRecords /\ n.st = s /\ n.consumer = note.consumer
    BY <1>1, NoteChanges
  <1>3. ASSUME Noting!Reserve(o) \/ Noting!ReserveLive(o, ok)
        PROVE  NotesInv'
    <2>1. PICK next \in {"sending", "failed"} : Noting!CreatorAt("start", next)
      BY <1>3 DEF Noting!Reserve, Noting!ReserveLive
    <2>2. creator.pc = "start" /\ creator' \in Creators /\ creator'.pc = next /\ creator'.receipt = creator.receipt /\ creator'.keeps = creator.keeps
      BY <1>1, <2>1, CreatorMoves
    <2>3. UNCHANGED <<record, reader, burnt>> /\ note' \in {note, [note EXCEPT !.st = "pending"]}
      BY <1>3 DEF Noting!Reserve, Noting!ReserveLive
    <2>4. note' \in NoteRecords /\ note'.consumer = note.consumer /\ note'.st \in {"none", "pending"} /\ note.st = "none"
      BY <1>1, <1>2, <2>2, <2>3 DEF CreatorSound
    <2>5. CreatorSound'
      BY <1>1, <2>2, <2>4 DEF CreatorSound
    <2> QED
      BY <1>1, <2>2, <2>3, <2>4, <2>5, CreatorStep DEF Removed
  <1>4. ASSUME Noting!PutChunk(o)
        PROVE  NotesInv'
    <2>1. PICK next \in {"sending", "failed"} : Noting!CreatorAt("sending", next)
      BY <1>4 DEF Noting!PutChunk
    <2>2. creator.pc = "sending" /\ creator' \in Creators /\ creator'.pc = next /\ creator'.receipt = creator.receipt /\ creator'.keeps = creator.keeps
      BY <1>1, <2>1, CreatorMoves
    <2>3. UNCHANGED <<record, reader, burnt>> /\ note' \in {note, [note EXCEPT !.put = @ + 1]} /\ note.put < Noting!Chunks
      BY <1>4 DEF Noting!PutChunk
    <2>4. note' \in NoteRecords /\ note'.consumer = note.consumer /\ note'.st = note.st
      BY <1>1, <2>3, NoteChanges
    <2>5. CreatorSound'
      BY <1>1, <2>2, <2>3, <2>4 DEF CreatorSound
    <2> QED
      BY <1>1, <2>2, <2>3, <2>4, <2>5, CreatorStep DEF Removed
  <1>5. ASSUME Noting!Complete(o) \/ Noting!Publish(o)
        PROVE  NotesInv'
    <2>1. PICK next \in {"created", "saving", "failed"} : Noting!CreatorAt("sending", next)
      BY <1>5 DEF Noting!Complete, Noting!Publish
    <2>2. creator.pc = "sending" /\ creator' \in Creators /\ creator'.pc = next /\ creator'.receipt = creator.receipt /\ creator'.keeps = creator.keeps
      BY <1>1, <2>1, CreatorMoves
    <2>3. UNCHANGED <<record, reader, burnt>> /\ (note' = note \/ (note.st = "pending" /\ note' = [note EXCEPT !.st = "available"]))
      BY <1>5 DEF Noting!Complete, Noting!Publish
    <2>4. note' \in NoteRecords /\ note'.consumer = note.consumer /\ (note'.st = note.st \/ (note.st = "pending" /\ note'.st = "available"))
      BY <1>1, <1>2, <2>3
    <2>5. CreatorSound'
      BY <1>1, <2>2, <2>4 DEF CreatorSound
    <2> QED
      BY <1>1, <2>2, <2>3, <2>4, <2>5, CreatorStep DEF Removed
  <1>6. ASSUME Noting!CheckCreated
        PROVE  NotesInv'
    <2>1. PICK next \in {"saving", "failed"} : Noting!CreatorAt("created", next)
      BY <1>6 DEF Noting!CheckCreated
    <2>2. creator.pc = "created" /\ creator' \in Creators /\ creator'.pc = next /\ creator'.receipt = creator.receipt /\ creator'.keeps = creator.keeps
      BY <1>1, <2>1, CreatorMoves
    <2>3. UNCHANGED <<note, record, reader, burnt>>
      BY <1>6 DEF Noting!CheckCreated
    <2>4. CreatorSound'
      BY <1>1, <2>2, <2>3 DEF CreatorSound
    <2> QED
      BY <1>1, <2>2, <2>3, <2>4, CreatorStep DEF Removed
  <1>7. ASSUME Noting!SaveManagement(ok)
        PROVE  NotesInv'
    <2>1. PICK next \in {"saved", "failed"} : Noting!CreatorAt("saving", next) /\ (creator.keeps /\ next = "saved" => ok)
      BY <1>7 DEF Noting!SaveManagement
    <2>2. creator.pc = "saving" /\ creator' \in Creators /\ creator'.pc = next /\ creator'.receipt = creator.receipt /\ creator'.keeps = creator.keeps
      BY <1>1, <2>1, CreatorMoves
    <2>3. UNCHANGED <<note, reader, burnt>> /\ record' \in {record, "note", "live"} /\ (creator.keeps /\ ok => record' \in {"note", "live"})
      BY <1>7 DEF Noting!SaveManagement
    <2>4. None \notin {"note", "live"}
      BY ApplicationsAssumption DEF NoteConstants
    <2>5. CreatorSound'
      BY <1>1, <2>1, <2>2, <2>3, <2>4 DEF CreatorSound
    <2> QED
      BY <1>1, <2>2, <2>3, <2>5, CreatorStep DEF Removed
  <1>8. ASSUME Noting!ShareReady
        PROVE  NotesInv'
    <2>1. creator.pc = "saved" /\ UNCHANGED <<note, record, reader, burnt>>
      BY <1>8 DEF Noting!ShareReady
    <2>2. creator' \in Creators /\ creator'.pc \in {"serving", "complete"} /\ creator'.keeps = creator.keeps
      BY <1>1, <1>8 DEF Noting!ShareReady, Creators
    <2>3. CreatorSound'
      BY <1>1, <2>1, <2>2 DEF CreatorSound
    <2> QED
      BY <1>1, <2>1, <2>2, <2>3, CreatorStep DEF Removed
  <1> QED
    BY <1>3, <1>4, <1>5, <1>6, <1>7, <1>8

\* What becomes of a created note keeps the invariant.
LEMMA NotesManaged ==
  ASSUME NotesInv, NEW o \in Noting!Outcome,
         \/ Noting!EndShare(o) \/ Noting!Manage(o) \/ Noting!TakeReceipt \/ Noting!CancelCreator \/ Noting!ServeFails
         \/ Noting!ServeStops \/ Noting!AcknowledgeEnd \/ Noting!CrashCreator \/ Noting!Expire \/ Noting!Remove
  PROVE  NotesInv'
  <1>1. NotesTyped /\ CreatorSound /\ note \in NoteRecords /\ creator \in Creators /\ record \in {None, "note", "live"}
    BY DEF NotesInv, NotesTyped
  <1>2. \A s \in {"pending", "available", "deleting", "gone"} :
          LET n == [note EXCEPT !.st = s] IN n \in NoteRecords /\ n.st = s /\ n.consumer = note.consumer
    BY <1>1, NoteChanges
  <1>3. ASSUME Noting!EndShare(o)
        PROVE  NotesInv'
    <2>1. creator.pc = "ending" /\ creator.attempts < EndAttempts /\ UNCHANGED <<record, reader, burnt>>
      BY <1>3 DEF Noting!EndShare
    <2>2. creator.attempts + 1 \in 0..EndAttempts
      BY <1>1, <2>1, ApplicationsAssumption DEF Creators, NoteConstants
    <2>3. PICK pc \in {"acknowledge", "failed", "ending"} :
            creator' = [creator EXCEPT !.attempts = creator.attempts + 1, !.pc = pc] /\ (pc = "acknowledge" => Noting!Seen(o))
      BY <1>3 DEF Noting!EndShare
    <2>4. creator' \in Creators /\ creator'.pc = pc /\ creator'.receipt = creator.receipt /\ creator'.keeps = creator.keeps
      BY <1>1, <2>2, <2>3 DEF Creators
    <2>5. note' = note \/ (note.st = "available" /\ note' = [note EXCEPT !.st = "deleting"])
      BY <1>3 DEF Noting!EndShare
    <2>6. note' \in NoteRecords /\ note'.consumer = note.consumer /\ (note'.st = note.st \/ (note.st = "available" /\ note'.st = "deleting"))
      BY <1>1, <1>2, <2>5
    <2>7. pc = "acknowledge" => note'.st # "available"
      BY <1>1, <1>2, <1>3, <2>3 DEF Noting!EndShare, Noting!Seen, Noting!Acted
    <2>8. CreatorSound'
      BY <1>1, <2>1, <2>4, <2>6, <2>7 DEF CreatorSound
    <2> QED
      BY <1>1, <2>1, <2>4, <2>6, <2>8, CreatorStep DEF Removed
  <1>4. ASSUME Noting!Manage(o)
        PROVE  NotesInv'
    <2>1. UNCHANGED <<creator, reader, burnt>> /\ record # None /\ record' \in {record, None}
      BY <1>4 DEF Noting!Manage, Noting!Managed
    <2>2. note' = note \/ (note.st = "available" /\ note' = [note EXCEPT !.st = "deleting"])
      BY <1>4 DEF Noting!Manage
    <2>3. note' \in NoteRecords /\ note'.consumer = note.consumer /\ (note'.st = note.st \/ (note.st = "available" /\ note'.st = "deleting"))
      BY <1>1, <1>2, <2>2
    <2>4. record' = None => note'.st # "available"
      BY <1>1, <1>2, <1>4 DEF Noting!Manage, Noting!Managed, Noting!Seen, Noting!Acted
    <2>5. CreatorSound'
      BY <1>1, <2>1, <2>3, <2>4 DEF CreatorSound
    <2> QED
      BY <1>1, <2>1, <2>3, <2>5, CreatorStep DEF Removed
  <1>5. ASSUME Noting!TakeReceipt
        PROVE  NotesInv'
    <2>1. /\ creator.pc \in {"complete", "serving"} /\ creator.receipt = "held" /\ UNCHANGED <<note, record, reader, burnt>>
          /\ creator' = [creator EXCEPT !.receipt = "taken"]
      BY <1>5 DEF Noting!TakeReceipt
    <2>2. creator' \in Creators /\ creator'.pc = creator.pc /\ creator'.keeps = creator.keeps
      BY <1>1, <2>1 DEF Creators
    <2>3. CreatorSound'
      BY <1>1, <2>1, <2>2 DEF CreatorSound
    <2> QED
      BY <1>1, <2>1, <2>2, <2>3, CreatorStep DEF Removed
  <1>6. ASSUME Noting!CancelCreator
        PROVE  NotesInv'
    <2>1. UNCHANGED <<note, record, reader, burnt>>
          /\ (creator' = [creator EXCEPT !.cancelled = TRUE] \/ creator' = [creator EXCEPT !.ending = TRUE])
      BY <1>6 DEF Noting!CancelCreator
    <2>2. creator' \in Creators /\ creator'.pc = creator.pc /\ creator'.receipt = creator.receipt /\ creator'.keeps = creator.keeps
      BY <1>1, <2>1 DEF Creators
    <2>3. CreatorSound'
      BY <1>1, <2>1, <2>2 DEF CreatorSound
    <2> QED
      BY <1>1, <2>1, <2>2, <2>3, CreatorStep DEF Removed
  <1>7. ASSUME Noting!ServeFails \/ Noting!ServeStops
        PROVE  NotesInv'
    <2>1. PICK next \in {"failed", "ending", "complete"} : Noting!CreatorAt("serving", next)
      BY <1>7 DEF Noting!ServeFails, Noting!ServeStops
    <2>2. creator.pc = "serving" /\ creator' \in Creators /\ creator'.pc = next /\ creator'.receipt = creator.receipt /\ creator'.keeps = creator.keeps
      BY <1>1, <2>1, CreatorMoves
    <2>3. UNCHANGED <<note, record, reader, burnt>>
      BY <1>7 DEF Noting!ServeFails, Noting!ServeStops
    <2>4. CreatorSound'
      BY <1>1, <2>2, <2>3 DEF CreatorSound
    <2> QED
      BY <1>1, <2>2, <2>3, <2>4, CreatorStep DEF Removed
  <1>8. ASSUME Noting!AcknowledgeEnd
        PROVE  NotesInv'
    <2>1. Noting!CreatorAt("acknowledge", "ended") /\ record' = None /\ UNCHANGED <<note, reader, burnt>>
      BY <1>8 DEF Noting!AcknowledgeEnd
    <2>2. creator.pc = "acknowledge" /\ creator' \in Creators /\ creator'.pc = "ended" /\ creator'.receipt = creator.receipt /\ creator'.keeps = creator.keeps
      BY <1>1, <2>1, CreatorMoves
    <2>3. CreatorSound'
      BY <1>1, <2>1, <2>2 DEF CreatorSound
    <2> QED
      BY <1>1, <2>1, <2>2, <2>3, CreatorStep DEF Removed
  <1>9. ASSUME Noting!CrashCreator
        PROVE  NotesInv'
    <2>1. creator' = [creator EXCEPT !.pc = "crashed"] /\ UNCHANGED <<note, record, reader, burnt>>
      BY <1>9 DEF Noting!CrashCreator
    <2>2. creator' \in Creators /\ creator'.pc = "crashed" /\ creator'.receipt = creator.receipt /\ creator'.keeps = creator.keeps
      BY <1>1, <2>1 DEF Creators
    <2>3. CreatorSound'
      BY <1>1, <2>1, <2>2 DEF CreatorSound
    <2> QED
      BY <1>1, <2>1, <2>2, <2>3, CreatorStep DEF Removed
  <1>10. ASSUME Noting!Expire \/ Noting!Remove
         PROVE  NotesInv'
    <2>1. /\ UNCHANGED <<creator, record, reader, burnt>> /\ note.st # "none"
          /\ note' = [note EXCEPT !.st = "deleting"] \/ note' = [note EXCEPT !.st = "gone"]
      BY <1>10 DEF Noting!Expire, Noting!Remove
    <2>2. note' \in NoteRecords /\ note'.consumer = note.consumer /\ note'.st \in {"deleting", "gone"}
      BY <1>2, <2>1
    <2>3. CreatorSound'
      BY <1>1, <2>1, <2>2 DEF CreatorSound
    <2> QED
      BY <1>1, <2>1, <2>2, <2>3, CreatorStep DEF Removed
  <1> QED
    BY <1>3, <1>4, <1>5, <1>6, <1>7, <1>8, <1>9, <1>10

\* Steps of a receive before it burns the note, and after it took the text.
LEMMA NotesRead ==
  ASSUME NotesInv, NEW r \in Reader, NEW ok \in BOOLEAN, NEW m \in BOOLEAN, NEW o \in Noting!Outcome,
         \/ Noting!StartReceive(r, m, ok) \/ Noting!ReadNote(r, ok) \/ Noting!Connect(r, o) \/ Noting!FetchChunk(r, ok)
         \/ Noting!Verify(r, ok) \/ Noting!Report(r, ok) \/ Noting!TakeNote(r) \/ Noting!CancelReceive(r)
  PROVE  NotesInv'
  <1>1. /\ NotesTyped /\ CreatorSound /\ ReaderSound(r) /\ note \in NoteRecords /\ reader[r] \in Receives /\ burnt \in BOOLEAN
        /\ reader \in [Reader -> Receives] /\ (burnt => Removed)
    BY DEF NotesInv, NotesTyped
  <1>2. ASSUME NEW x \in Receives, reader' = [reader EXCEPT ![r] = x], UNCHANGED <<creator, record, burnt>>, note' \in NoteRecords,
               note'.st = note.st, note'.consumer = note.consumer,
               x.pc \in {"connecting", "chunks", "verified", "burning", "complete"} => note.st \notin {"none", "pending"},
               x.pc \in {"verified", "burning", "complete"} => x.verified,
               x.pc \in {"verified", "burning"} => x.text,
               x.pc = "complete" /\ x.managed => x.text,
               x.consumed => Removed,
               note.consumer = r => x.pc \in {"complete", "failed"} /\ x.verified /\ (x.managed => x.text)
        PROVE  NotesInv'
    <2>1. reader'[r] = x
      BY <1>1, <1>2
    <2>2. ReaderSound(r)'
      BY <1>2, <2>1 DEF ReaderSound, Removed
    <2>3. Removed' <=> Removed
      BY <1>2 DEF Removed
    <2> QED
      BY <1>1, <1>2, <2>2, <2>3, ReaderStep
  <1>3. ASSUME Noting!StartReceive(r, m, ok)
        PROVE  NotesInv'
    <2> DEFINE x == [Noting!NewReader EXCEPT !.pc = "reading", !.managed = m, !.acknowledged = ok]
    <2>1. reader[r].pc = "idle" /\ reader' = [reader EXCEPT ![r] = x] /\ UNCHANGED <<note, creator, record, burnt>>
      BY <1>3 DEF Noting!StartReceive
    <2>2. x \in Receives /\ x.pc = "reading" /\ ~x.consumed
      BY NewReaderIs DEF Receives
    <2>3. note.consumer # r
      BY <1>1, <2>1 DEF ReaderSound
    <2> HIDE DEF x
    <2> QED
      BY <1>1, <1>2, <2>1, <2>2, <2>3
  <1>4. ASSUME Noting!ReadNote(r, ok)
        PROVE  NotesInv'
    <2>1. PICK next \in {"connecting", "chunks", "failed"} : reader' = [reader EXCEPT ![r].pc = next] /\ (next # "failed" => note.st = "available")
      BY <1>4 DEF Noting!ReadNote, Noting!ReaderAt
    <2>2. reader[r].pc = "reading" /\ UNCHANGED <<note, creator, record, burnt>>
      BY <1>4 DEF Noting!ReadNote, Noting!ReaderAt
    <2> DEFINE x == [reader[r] EXCEPT !.pc = next]
    <2>3. x \in Receives /\ x.pc = next /\ x.consumed = reader[r].consumed
      BY <1>1, <2>1 DEF Receives
    <2>4. reader' = [reader EXCEPT ![r] = x]
      BY <2>1
    <2>5. note.consumer # r /\ (reader[r].consumed => Removed)
      BY <1>1, <2>2 DEF ReaderSound
    <2> HIDE DEF x
    <2> QED
      BY <1>1, <1>2, <2>1, <2>2, <2>3, <2>4, <2>5
  <1>5. ASSUME Noting!Connect(r, o)
        PROVE  NotesInv'
    <2>1. PICK next \in {"chunks", "failed"} : reader' = [reader EXCEPT ![r].pc = next]
      BY <1>5 DEF Noting!Connect, Noting!ReaderAt
    <2>2. reader[r].pc = "connecting" /\ UNCHANGED <<creator, record, burnt>> /\ note' \in {note, [note EXCEPT !.claim = r]}
      BY <1>5 DEF Noting!Connect, Noting!ReaderAt
    <2> DEFINE x == [reader[r] EXCEPT !.pc = next]
    <2>3. x \in Receives /\ x.pc = next /\ x.consumed = reader[r].consumed
      BY <1>1, <2>1 DEF Receives
    <2>4. reader' = [reader EXCEPT ![r] = x]
      BY <2>1
    <2>5. note.consumer # r /\ (reader[r].consumed => Removed) /\ note.st \notin {"none", "pending"}
      BY <1>1, <2>2 DEF ReaderSound
    <2>6. note' \in NoteRecords /\ note'.st = note.st /\ note'.consumer = note.consumer
      BY <1>1, <2>2 DEF NoteRecords
    <2> HIDE DEF x
    <2> QED
      BY <1>1, <1>2, <2>1, <2>2, <2>3, <2>4, <2>5, <2>6
  <1>6. ASSUME Noting!FetchChunk(r, ok)
        PROVE  NotesInv'
    <2> DEFINE got == [reader[r] EXCEPT !.got = reader[r].got + 1, !.bytes = reader[r].bytes + Noting!ExpectedBytes(reader[r].got)]
               no == [reader[r] EXCEPT !.pc = "failed"]
    <2>1. /\ reader[r].pc = "chunks" /\ reader[r].got < Noting!Chunks /\ UNCHANGED <<note, creator, record, burnt>>
          /\ reader' = [reader EXCEPT ![r] = got] \/ reader' = [reader EXCEPT ![r] = no]
      BY <1>6 DEF Noting!FetchChunk
    <2>2. reader[r].got \in Nat /\ reader[r].bytes \in Int /\ reader[r].got + 1 \in 0..Noting!Chunks
      BY <1>1, <2>1, ChunksNat DEF Receives
    <2>3. Noting!ExpectedBytes(reader[r].got) \in Int
      BY <2>2, ApplicationsAssumption DEF Noting!ExpectedBytes, NoteConstants
    <2>4. got \in Receives /\ got.pc = reader[r].pc /\ got.consumed = reader[r].consumed
      <3>1. reader[r].bytes + Noting!ExpectedBytes(reader[r].got) \in Int
        BY <2>2, <2>3
      <3> QED
        BY <1>1, <2>2, <3>1 DEF Receives
    <2>5. no \in Receives /\ no.pc = "failed" /\ no.consumed = reader[r].consumed
      BY <1>1 DEF Receives
    <2>6. note.consumer # r /\ (reader[r].consumed => Removed) /\ note.st \notin {"none", "pending"}
      BY <1>1, <2>1 DEF ReaderSound
    <2> HIDE DEF got, no
    <2> QED
      BY <1>1, <1>2, <2>1, <2>4, <2>5, <2>6
  <1>7. ASSUME Noting!Verify(r, ok)
        PROVE  NotesInv'
    <2>1. PICK w \in BOOLEAN : reader' = [reader EXCEPT ![r].pc = IF w THEN "verified" ELSE "failed", ![r].verified = w, ![r].text = w]
      BY <1>7 DEF Noting!Verify
    <2> DEFINE x == [reader[r] EXCEPT !.pc = IF w THEN "verified" ELSE "failed", !.verified = w, !.text = w]
    <2>2. reader[r].pc = "chunks" /\ UNCHANGED <<note, creator, record, burnt>>
      BY <1>7 DEF Noting!Verify
    <2>3. x \in Receives /\ x.pc = (IF w THEN "verified" ELSE "failed") /\ x.consumed = reader[r].consumed /\ x.verified = w /\ x.text = w
      BY <1>1, <2>1 DEF Receives
    <2>4. reader' = [reader EXCEPT ![r] = x]
      BY <2>1
    <2>5. note.consumer # r /\ (reader[r].consumed => Removed) /\ note.st \notin {"none", "pending"}
      BY <1>1, <2>2 DEF ReaderSound
    <2> HIDE DEF x
    <2>6. x.pc \in {"verified", "burning", "complete"} => x.verified /\ x.text /\ x.pc = "verified"
      BY <2>3
    <2> QED
      BY <1>1, <1>2, <2>2, <2>3, <2>4, <2>5, <2>6
  <1>8. ASSUME Noting!Report(r, ok)
        PROVE  NotesInv'
    <2>1. PICK w \in BOOLEAN : reader' = [reader EXCEPT ![r].pc = IF w THEN "burning" ELSE "failed", ![r].text = w]
      BY <1>8 DEF Noting!Report
    <2> DEFINE x == [reader[r] EXCEPT !.pc = IF w THEN "burning" ELSE "failed", !.text = w]
    <2>2. reader[r].pc = "verified" /\ UNCHANGED <<note, creator, record, burnt>>
      BY <1>8 DEF Noting!Report
    <2>3. /\ x \in Receives /\ x.pc = (IF w THEN "burning" ELSE "failed") /\ x.consumed = reader[r].consumed
          /\ x.verified = reader[r].verified /\ x.text = w
      BY <1>1, <2>1 DEF Receives
    <2>4. reader' = [reader EXCEPT ![r] = x]
      BY <2>1
    <2>5. note.consumer # r /\ (reader[r].consumed => Removed) /\ note.st \notin {"none", "pending"} /\ reader[r].verified
      BY <1>1, <2>2 DEF ReaderSound
    <2> HIDE DEF x
    <2>6. x.verified /\ (x.pc \in {"verified", "burning", "complete"} => x.text /\ x.pc = "burning")
      BY <2>3, <2>5
    <2> QED
      BY <1>1, <1>2, <2>2, <2>3, <2>4, <2>5, <2>6
  <1>9. ASSUME Noting!TakeNote(r) \/ Noting!CancelReceive(r)
        PROVE  NotesInv'
    <2>1. /\ UNCHANGED <<note, creator, record, burnt>>
          /\ reader' = [reader EXCEPT ![r].delivered = TRUE] \/ reader' = [reader EXCEPT ![r].cancelled = TRUE]
      BY <1>9 DEF Noting!TakeNote, Noting!CancelReceive
    <2>2. PICK x \in {[reader[r] EXCEPT !.delivered = TRUE], [reader[r] EXCEPT !.cancelled = TRUE]} : reader' = [reader EXCEPT ![r] = x]
      BY <2>1
    <2>3. /\ x \in Receives /\ x.pc = reader[r].pc /\ x.consumed = reader[r].consumed
          /\ x.verified = reader[r].verified /\ x.text = reader[r].text /\ x.managed = reader[r].managed
      BY <1>1, <2>2 DEF Receives
    <2>4. ReaderSound(r)
      BY <1>1
    <2> QED
      BY <1>1, <1>2, <2>1, <2>2, <2>3, <2>4 DEF ReaderSound
  <1> QED
    BY <1>3, <1>4, <1>5, <1>6, <1>7, <1>8, <1>9

\* What a request to burn the note does: it is removed if the request counts.
LEMMA ConsumeFacts ==
  ASSUME NotesInv, NEW r \in Reader, NEW o \in Noting!Outcome, Noting!Consume(r, o), note.st \notin {"none", "pending"}
  PROVE  /\ note' \in NoteRecords /\ note'.consumer \in {note.consumer, r}
         /\ note'.st = note.st \/ (note.st = "available" /\ note'.st = "deleting")
         /\ burnt' \in BOOLEAN /\ (burnt' => Removed') /\ (Noting!Burned(r, o) => Removed')
  <1>1. note \in NoteRecords /\ burnt \in BOOLEAN /\ (burnt => Removed)
    BY DEF NotesInv, NotesTyped
  <1> DEFINE n == [note EXCEPT !.st = "deleting", !.consumer = r]
  <1>2. n \in NoteRecords /\ n.st = "deleting" /\ n.consumer = r
    BY <1>1 DEF NoteRecords
  <1>3. note' = IF ~Noting!Known(r) /\ Noting!Acted(o) /\ Noting!Removable(r) THEN n ELSE note
    BY DEF Noting!Consume
  <1> HIDE DEF n
  <1>4. Noting!Removable(r) => note.st = "available"
    BY DEF Noting!Removable
  <1>5. Noting!Known(r) => Removed
    BY <1>1 DEF Noting!Known
  <1>6. note.st \in {"available", "deleting", "gone"}
    BY <1>1 DEF NoteRecords
  <1>7. Noting!Seen(o) => Noting!Acted(o)
    BY DEF Noting!Seen, Noting!Acted
  <1>8. Removed => Removed'
    BY <1>2, <1>3 DEF Removed
  <1>9. Noting!Seen(o) /\ Noting!Removable(r) => Removed'
    BY <1>2, <1>3, <1>5, <1>7, <1>8 DEF Removed
  <1>10. Noting!Burned(r, o) => Removed'
    BY <1>5, <1>6, <1>8, <1>9 DEF Noting!Burned, Removed
  <1>11. burnt' \in BOOLEAN /\ (burnt' => Removed')
    BY <1>1, <1>8, <1>9 DEF Noting!Consume
  <1> QED
    BY <1>1, <1>2, <1>3, <1>4, <1>10, <1>11

\* Burning the note, and retrying it, keep the invariant.
LEMMA NotesBurnt ==
  ASSUME NotesInv, NEW r \in Reader, NEW o \in Noting!Outcome, Noting!Finish(r, o) \/ Noting!RetryBurn(r, o)
  PROVE  NotesInv'
  <1>1. /\ NotesTyped /\ CreatorSound /\ ReaderSound(r) /\ note \in NoteRecords /\ reader[r] \in Receives /\ burnt \in BOOLEAN
        /\ reader \in [Reader -> Receives] /\ (burnt => Removed)
    BY DEF NotesInv, NotesTyped
  <1>2. note.st \notin {"none", "pending"} /\ UNCHANGED <<creator, record>> /\ reader[r].verified /\ reader[r].pc \in {"burning", "complete"}
    BY <1>1 DEF Noting!Finish, Noting!RetryBurn, ReaderSound
  <1>3. ASSUME NEW x \in Receives, reader' = [reader EXCEPT ![r] = x], Noting!Consume(r, o),
               x.pc \in {"complete", "failed"}, x.verified, x.managed => x.text,
               x.consumed => Noting!Burned(r, o) \/ reader[r].consumed
        PROVE  NotesInv'
    <2>1. reader'[r] = x
      BY <1>1, <1>3
    <2>2. /\ note' \in NoteRecords /\ note'.consumer \in {note.consumer, r}
          /\ note'.st = note.st \/ (note.st = "available" /\ note'.st = "deleting")
          /\ burnt' \in BOOLEAN /\ (burnt' => Removed') /\ (Noting!Burned(r, o) => Removed')
      BY <1>2, <1>3, ConsumeFacts
    <2>3. reader[r].consumed => Removed'
      BY <1>1, <2>2 DEF ReaderSound, Removed
    <2>4. ReaderSound(r)'
      BY <1>2, <1>3, <2>1, <2>2, <2>3 DEF ReaderSound
    <2> QED
      BY <1>2, <1>3, <2>2, <2>4, ReaderStep
  <1>4. Noting!Burned(r, o) \in BOOLEAN
    BY <1>1 DEF Noting!Burned, Noting!Known
  <1>5. ASSUME Noting!Finish(r, o), note.burn
        PROVE  NotesInv'
    <2> DEFINE b == Noting!Burned(r, o)
               x == [reader[r] EXCEPT !.pc = IF b \/ reader[r].managed THEN "complete" ELSE "failed",
                       !.text = b \/ reader[r].managed, !.pending = ~b /\ reader[r].managed, !.consumed = b]
    <2>1. Noting!Consume(r, o) /\ reader' = [reader EXCEPT ![r] = x]
      BY <1>5 DEF Noting!Finish
    <2> HIDE DEF b
    <2>2. b \in BOOLEAN /\ reader[r].managed \in BOOLEAN
      BY <1>1, <1>4 DEF b, Receives
    <2>3. /\ x \in Receives /\ x.pc \in {"complete", "failed"} /\ x.verified = reader[r].verified
          /\ x.managed = reader[r].managed /\ x.text = (b \/ reader[r].managed) /\ x.consumed = b
      BY <1>1, <2>2 DEF Receives
    <2> HIDE DEF x
    <2> QED
      BY <1>2, <1>3, <2>1, <2>2, <2>3 DEF b
  <1>6. ASSUME Noting!Finish(r, o), ~note.burn
        PROVE  NotesInv'
    <2> DEFINE x == [reader[r] EXCEPT !.pc = "complete"]
    <2>1. reader' = [reader EXCEPT ![r] = x] /\ UNCHANGED <<note, burnt>> /\ reader[r].pc = "burning"
      BY <1>6 DEF Noting!Finish
    <2>2. /\ x \in Receives /\ x.pc = "complete" /\ x.verified = reader[r].verified /\ x.text = reader[r].text
          /\ x.managed = reader[r].managed /\ x.consumed = reader[r].consumed
      BY <1>1 DEF Receives
    <2> HIDE DEF x
    <2>3. reader'[r] = x
      BY <1>1, <2>1
    <2>4. Removed' <=> Removed
      BY <2>1 DEF Removed
    <2>5. ReaderSound(r)'
      BY <1>1, <1>2, <2>1, <2>2, <2>3, <2>4 DEF ReaderSound
    <2> QED
      BY <1>1, <1>2, <2>1, <2>2, <2>4, <2>5, ReaderStep
  <1>7. ASSUME Noting!RetryBurn(r, o)
        PROVE  NotesInv'
    <2> DEFINE x == IF Noting!Burned(r, o) THEN [reader[r] EXCEPT !.pending = FALSE, !.consumed = TRUE] ELSE reader[r]
    <2>1. Noting!Consume(r, o) /\ reader[r].pc = "complete"
      BY <1>7 DEF Noting!RetryBurn
    <2>2. reader' = [reader EXCEPT ![r] = x]
      <3>1. CASE Noting!Burned(r, o)
        BY <1>7, <3>1 DEF Noting!RetryBurn
      <3>2. CASE ~Noting!Burned(r, o)
        BY <1>1, <1>7, <3>2 DEF Noting!RetryBurn
      <3> QED
        BY <3>1, <3>2
    <2>3. /\ x \in Receives /\ x.pc = "complete" /\ x.verified = reader[r].verified /\ x.text = reader[r].text
          /\ x.managed = reader[r].managed /\ (x.consumed => Noting!Burned(r, o) \/ reader[r].consumed)
      BY <1>1, <2>1 DEF Receives
    <2> HIDE DEF x
    <2>4. reader[r].managed => reader[r].text
      BY <1>1, <2>1 DEF ReaderSound
    <2> QED
      BY <1>2, <1>3, <2>1, <2>2, <2>3, <2>4
  <1> QED
    BY <1>5, <1>6, <1>7

\* The reading process ends, and nothing of it is left.
LEMMA NotesReadersEnd ==
  ASSUME NotesInv, Noting!CrashReaders
  PROVE  NotesInv'
  <1>1. NotesTyped /\ CreatorSound /\ note \in NoteRecords
    BY DEF NotesInv, NotesTyped
  <1>2. /\ reader' = [r \in Reader |-> Noting!NewReader] /\ burnt' = FALSE /\ note' = [note EXCEPT !.consumer = None]
        /\ UNCHANGED <<creator, record>>
    BY DEF Noting!CrashReaders
  <1>3. note' \in NoteRecords /\ note'.st = note.st /\ note'.consumer = None
    BY <1>1, <1>2 DEF NoteRecords
  <1>4. reader' \in [Reader -> Receives] /\ \A r \in Reader : reader'[r].pc = "idle" /\ ~reader'[r].consumed
    BY <1>2, NewReaderIs
  <1>5. \A r \in Reader : ReaderSound(r)'
    BY <1>3, <1>4, ApplicationsAssumption DEF ReaderSound, NoteConstants
  <1>6. CreatorSound'
    BY <1>1, <1>2, <1>3 DEF CreatorSound
  <1>7. NotesTyped'
    BY <1>1, <1>2, <1>3, <1>4 DEF NotesTyped
  <1> QED
    BY <1>2, <1>5, <1>6, <1>7 DEF NotesInv

\* notes.rs and note_management.rs, for any text, policy and number of readers: the
\* reader that burns a note has its text, a note said to be removed is removed, and
\* one that was shown and can be read can be ended if the host keeps capabilities,
\* through refused requests, lost answers and the end of either process.
THEOREM NotesAlwaysKept == Noting!Spec => []NotesKept
  <1>1. Noting!Init => NotesInv
    BY NotesInit
  <1>2. NotesInv /\ [Noting!Next]_(Noting!vars) => NotesInv'
    <2> SUFFICES ASSUME NotesInv, [Noting!Next]_(Noting!vars)
                 PROVE  NotesInv'
      OBVIOUS
    <2> USE DEF Noting!Outcome
    <2>1. ASSUME Noting!CreatorNext
          PROVE  NotesInv'
      BY <2>1, NotesCreated, NotesManaged DEF Noting!CreatorNext
    <2>2. ASSUME NEW r \in Reader, Noting!ReaderNext(r)
          PROVE  NotesInv'
      BY <2>2, NotesRead, NotesBurnt DEF Noting!ReaderNext
    <2>3. CASE Noting!Expire \/ Noting!Remove \/ Noting!CrashReaders
      BY <2>3, NotesManaged, NotesReadersEnd
    <2>4. CASE UNCHANGED Noting!vars
      BY <2>4 DEF Noting!vars, NotesInv, NotesTyped, CreatorSound, ReaderSound, Removed
    <2> QED
      BY <2>1, <2>2, <2>3, <2>4 DEF Noting!Next
  <1>3. NotesInv => NotesKept
    BY NotesInvSuffices
  <1> QED
    BY <1>1, <1>2, <1>3, PTL DEF Noting!Spec

-----------------------------------------------------------------------------
(***************************************************************************)
(* Updater: the updater of both products.                                  *)
(***************************************************************************)

\* The newest version of a generation, and the one that a rollback floor stands for.
NewestOf(g) == Updating!Max(Catalog[g])
Floor(n) == NewestOf(IF n = 0 THEN 1 ELSE n)

\* The processes that run.
Procs == [pc : {"idle", "launch", "staged", "replace", "place", "record", "started", "helper", "run", "catalog", "payload", "stage"},
          product : Product \cup {None}, version : Updating!Version \cup {None}, manual : BOOLEAN,
          state : [Product -> Updating!Entry] \cup {None}, target : Updating!Version \cup {None}]

\* State, files and processes have their types.
UpdateTyped ==
  /\ enabled \in BOOLEAN /\ published \in Updating!Generation /\ saved \in [Product -> Updating!Entry]
  /\ payload \in [Product -> [Updating!Version -> {"none", "good", "bad"}]]
  /\ managed \in [Product -> Updating!Version \cup {0}] /\ previous \in [Product -> Updating!Version \cup {0}]
  /\ lease \in Process \cup {None} /\ windows \in BOOLEAN /\ proc \in [Process -> Procs]

\* What is installed is at most what is staged, and that is at most the newest
\* version of the generation that is the product's rollback floor.
FloorKept(d) ==
  /\ managed[d] <= Floor(saved[d].generation)
  /\ saved[d].staged # None => managed[d] <= saved[d].staged /\ saved[d].staged <= Floor(saved[d].generation)

\* The steps that are taken under the lock.
Locked == {"staged", "replace", "place", "record", "catalog", "payload", "stage"}

\* What process p relies on at its steps.
ProcSound(p) ==
  /\ proc[p].pc # "idle" => proc[p].product \in Product /\ proc[p].version \in Updating!Version
  /\ proc[p].pc \in Locked => lease = p
  /\ proc[p].pc \in {"replace", "place", "record"} => saved[proc[p].product].staged # None
  /\ proc[p].pc \in {"replace", "place"} => payload[proc[p].product][saved[proc[p].product].staged] = "good"
  /\ proc[p].pc = "place" => /\ managed[proc[p].product] = 0 /\ previous[proc[p].product] # 0
                             /\ previous[proc[p].product] <= saved[proc[p].product].staged
  /\ proc[p].pc = "record" => managed[proc[p].product] # 0
  /\ proc[p].pc = "catalog" => proc[p].state = saved
  /\ proc[p].pc \in {"payload", "stage"} =>
       \E g \in Updating!Generation : /\ g >= saved[proc[p].product].generation /\ proc[p].target = NewestOf(g)
                                      /\ proc[p].state = [saved EXCEPT ![proc[p].product].generation = g]

UpdateInv ==
  /\ UpdateTyped /\ (\A d \in Product : FloorKept(d)) /\ Updating!InstallRecoverable
  /\ \A p \in Process : ProcSound(p)

\* The generations are numbered from 1.
LEMMA GenerationsAre ==
  /\ Updating!Generation = 1..Len(Catalog) /\ Len(Catalog) \in Nat /\ 1 \in Updating!Generation
  /\ Updating!Max(Updating!Generation) = Len(Catalog)
  <1>1. Catalog \in Seq(SUBSET (Nat \ {0})) /\ Catalog # <<>>
    BY ApplicationsAssumption DEF UpdateConstants
  <1>2. Updating!Generation = 1..Len(Catalog) /\ Len(Catalog) \in Nat /\ Len(Catalog) > 0
    BY <1>1 DEF Updating!Generation
  <1>3. Updating!Max(Updating!Generation) \in Updating!Generation
        /\ \A g \in Updating!Generation : Updating!Max(Updating!Generation) >= g
    <2>1. Len(Catalog) \in Updating!Generation /\ \A g \in Updating!Generation : Len(Catalog) >= g
      BY <1>2
    <2> QED
      BY <2>1 DEF Updating!Max
  <1> QED
    BY <1>2, <1>3

\* Versions are numbers above that of a missing executable.
LEMMA VersionsAre == Updating!Version \subseteq Nat \ {0} /\ 0 \notin Updating!Version /\ None \notin Updating!Version
  <1>1. Catalog \in Seq(SUBSET (Nat \ {0})) /\ None \notin Nat
    BY ApplicationsAssumption DEF UpdateConstants
  <1>2. \A g \in DOMAIN Catalog : Catalog[g] \subseteq Nat \ {0}
    BY <1>1
  <1> QED
    BY <1>1, <1>2 DEF Updating!Version, Updating!Generation

\* Each generation has a newest version, and that of a later one is no older.
LEMMA NewestIs ==
  /\ \A g \in Updating!Generation : NewestOf(g) \in Updating!Version /\ NewestOf(g) \in Nat
  /\ \A g, h \in Updating!Generation : g <= h => NewestOf(g) <= NewestOf(h)
  <1>1. \A g \in Updating!Generation : NewestOf(g) \in Catalog[g] /\ \A v \in Catalog[g] : NewestOf(g) >= v
    <2> SUFFICES ASSUME NEW g \in Updating!Generation
                 PROVE  NewestOf(g) \in Catalog[g] /\ \A v \in Catalog[g] : NewestOf(g) >= v
      OBVIOUS
    <2>1. \E m \in Catalog[g] : \A v \in Catalog[g] : m >= v
      BY ApplicationsAssumption DEF UpdateConstants, Updating!Generation
    <2> QED
      BY <2>1 DEF NewestOf, Updating!Max
  <1>2. \A g \in Updating!Generation : NewestOf(g) \in Updating!Version
    BY <1>1 DEF Updating!Version
  <1>3. \A g \in Updating!Generation : NewestOf(g) \in Nat
    BY <1>2, VersionsAre
  <1>4. ASSUME NEW g \in Updating!Generation, NEW h \in Updating!Generation, g <= h
        PROVE  NewestOf(g) <= NewestOf(h)
    <2>1. PICK m \in Catalog[h] : m >= NewestOf(g)
      BY <1>1, <1>4, ApplicationsAssumption DEF UpdateConstants, Updating!Generation
    <2>2. m \in Nat
      BY VersionsAre DEF Updating!Version
    <2> QED
      BY <1>1, <1>3, <2>1, <2>2
  <1> QED
    BY <1>2, <1>3, <1>4

\* A floor that rises stands for a version that is no older.
LEMMA FloorsRise ==
  /\ \A n \in 0..Len(Catalog) : Floor(n) \in Nat
  /\ \A n, m \in 0..Len(Catalog) : n <= m => Floor(n) <= Floor(m)
  /\ \A g \in Updating!Generation : Floor(g) = NewestOf(g)
  <1>1. \A n \in 0..Len(Catalog) : (IF n = 0 THEN 1 ELSE n) \in Updating!Generation
    BY GenerationsAre
  <1>2. \A n, m \in 0..Len(Catalog) : n <= m => (IF n = 0 THEN 1 ELSE n) <= (IF m = 0 THEN 1 ELSE m)
    BY GenerationsAre
  <1>3. \A g \in Updating!Generation : g # 0
    BY GenerationsAre
  <1> QED
    BY <1>1, <1>2, <1>3, NewestIs DEF Floor

\* The entries of the state file.
LEMMA EntriesAre == Updating!Entry = [attempted : BOOLEAN, generation : 0..Len(Catalog), staged : Updating!Version \cup {None}]
  BY GenerationsAre DEF Updating!Entry

\* A process that is not there.
LEMMA NoProcIs == Updating!NoProc \in Procs /\ Updating!NoProc.pc = "idle"
  BY DEF Updating!NoProc, Procs

\* The invariant holds at the start.
LEMMA UpdateInit ==
  ASSUME Updating!Init
  PROVE  UpdateInv
  <1> DEFINE e == [attempted |-> FALSE, generation |-> 0, staged |-> None]
  <1>1. e \in Updating!Entry /\ e.generation = 0 /\ e.staged = None
    BY EntriesAre, GenerationsAre
  <1>2. saved = [d \in Product |-> e]
    BY DEF Updating!Init
  <1> HIDE DEF e
  <1>3. \A d \in Product : saved[d].generation = 0 /\ saved[d].staged = None
    BY <1>1, <1>2
  <1>4. managed = [d \in Product |-> NewestOf(1)] /\ NewestOf(1) \in Updating!Version /\ NewestOf(1) \in Nat
    BY GenerationsAre, NewestIs DEF Updating!Init, NewestOf
  <1>5. UpdateTyped
    BY <1>1, <1>2, <1>4, NoProcIs, GenerationsAre, ApplicationsAssumption
    DEF Updating!Init, UpdateTyped, Updating!Missing, UpdateConstants
  <1>6. \A d \in Product : FloorKept(d)
    BY <1>3, <1>4 DEF FloorKept, Floor
  <1>7. Updating!InstallRecoverable
    BY <1>4, VersionsAre DEF Updating!InstallRecoverable, Updating!Missing
  <1>8. \A p \in Process : proc[p].pc = "idle"
    BY NoProcIs DEF Updating!Init
  <1> QED
    BY <1>5, <1>6, <1>7, <1>8 DEF UpdateInv, ProcSound, Locked

\* What a step of process p has to show: under another process's lock it changes
\* nothing that process relies on.
LEMMA UpdateStep ==
  ASSUME UpdateInv, NEW p \in Process, UpdateTyped', \A q \in Process \ {p} : proc'[q] = proc[q], ProcSound(p)',
         \A d \in Product : FloorKept(d)', Updating!InstallRecoverable',
         lease \in {p, None} \/ UNCHANGED <<saved, payload, managed, previous, lease>>
  PROVE  UpdateInv'
  <1>1. ASSUME NEW q \in Process \ {p}
        PROVE  ProcSound(q)'
    <2>1. ProcSound(q) /\ proc'[q] = proc[q]
      BY DEF UpdateInv
    <2>2. CASE lease \in {p, None}
      <3>1. lease # q
        BY <2>2, ApplicationsAssumption DEF UpdateConstants
      <3>2. proc[q].pc \notin Locked
        BY <2>1, <3>1 DEF ProcSound
      <3> QED
        BY <2>1, <3>2 DEF ProcSound, Locked
    <2>3. CASE UNCHANGED <<saved, payload, managed, previous, lease>>
      <3>1. proc'[q] = proc[q] /\ saved' = saved /\ payload' = payload /\ managed' = managed /\ previous' = previous /\ lease' = lease
        BY <2>1, <2>3
      <3> QED
        BY <2>1, <3>1 DEF ProcSound
    <2> QED
      BY <2>2, <2>3
  <1> QED
    BY <1>1 DEF UpdateInv

\* A step that changes no file.
LEMMA UpdateProcOnly ==
  ASSUME UpdateInv, NEW p \in Process, NEW x \in Procs, proc' = [proc EXCEPT ![p] = x], ProcSound(p)',
         UNCHANGED <<enabled, published, saved, payload, managed, previous, windows>>, lease' \in Process \cup {None},
         lease \in {p, None} \/ lease' = lease
  PROVE  UpdateInv'
  <1>1. UpdateTyped'
    BY DEF UpdateInv, UpdateTyped, Updating!Generation
  <1>2. (\A d \in Product : FloorKept(d)') /\ Updating!InstallRecoverable'
    BY DEF UpdateInv, FloorKept, Floor, NewestOf, Updating!Max, Updating!InstallRecoverable, Updating!Missing
  <1>3. \A q \in Process \ {p} : proc'[q] = proc[q]
    BY DEF UpdateInv, UpdateTyped
  <1> QED
    BY <1>1, <1>2, <1>3, UpdateStep

\* The steps of a process.
UpdatePcs == {"idle", "launch", "staged", "replace", "place", "record", "started", "helper", "run", "catalog", "payload", "stage"}

\* What every step keeps.
UpdateKept == UpdateInv' /\ Updating!NeverDowngradedStep

\* The numbers that are compared.
LEMMA UpdateNumbers ==
  ASSUME UpdateInv, NEW d \in Product
  PROVE  /\ managed[d] \in Nat /\ previous[d] \in Nat /\ saved[d] \in Updating!Entry
         /\ saved[d].generation \in 0..Len(Catalog) /\ saved[d].generation \in Nat
         /\ saved[d].staged \in Updating!Version \cup {None} /\ FloorKept(d) /\ Floor(saved[d].generation) \in Nat
         /\ (saved[d].staged # None => saved[d].staged \in Nat /\ saved[d].staged # 0)
  <1>1. saved[d] \in Updating!Entry /\ managed[d] \in Updating!Version \cup {0} /\ previous[d] \in Updating!Version \cup {0}
    BY DEF UpdateInv, UpdateTyped
  <1>2. saved[d].generation \in 0..Len(Catalog) /\ saved[d].staged \in Updating!Version \cup {None}
    BY <1>1, EntriesAre
  <1>3. Floor(saved[d].generation) \in Nat
    BY <1>2, FloorsRise
  <1>4. managed[d] \in Nat /\ previous[d] \in Nat /\ (saved[d].staged # None => saved[d].staged \in Nat /\ saved[d].staged # 0)
    <2>1. \A v \in Updating!Version : v \in Nat /\ v # 0
      BY VersionsAre
    <2> QED
      BY <1>1, <1>2, <2>1
  <1>5. FloorKept(d)
    BY DEF UpdateInv
  <1>6. saved[d].generation \in Nat
    BY <1>2, GenerationsAre
  <1> QED
    BY <1>1, <1>2, <1>3, <1>4, <1>5, <1>6

\* A step that neither installs nor records anything downgrades nothing.
LEMMA UpdateStill ==
  ASSUME UpdateInv, UNCHANGED <<saved, managed>>
  PROVE  Updating!NeverDowngradedStep
  <1>1. \A d \in Product : saved[d].generation \in Nat /\ managed[d] \in Nat
    BY UpdateNumbers
  <1> QED
    BY <1>1 DEF Updating!NeverDowngradedStep, Updating!Missing

\* A process that goes on.
LEMMA UpdateMoves ==
  ASSUME UpdateInv, NEW p \in Process, NEW c \in UpdatePcs, Updating!Move(p, c)
  PROVE  /\ proc' = [proc EXCEPT ![p] = [proc[p] EXCEPT !.pc = c]] /\ [proc[p] EXCEPT !.pc = c] \in Procs
         /\ proc' \in [Process -> Procs] /\ (\A q \in Process \ {p} : proc'[q] = proc[q])
         /\ proc'[p].pc = c /\ proc'[p].product = proc[p].product /\ proc'[p].version = proc[p].version
         /\ proc'[p].state = proc[p].state /\ proc'[p].target = proc[p].target
  <1>1. proc \in [Process -> Procs]
    BY DEF UpdateInv, UpdateTyped
  <1> DEFINE x == [proc[p] EXCEPT !.pc = c]
  <1>2. x \in Procs /\ x.pc = c /\ x.product = proc[p].product /\ x.version = proc[p].version
        /\ x.state = proc[p].state /\ x.target = proc[p].target
    BY <1>1 DEF Procs, UpdatePcs
  <1>3. proc' = [proc EXCEPT ![p] = x]
    BY DEF Updating!Move
  <1> HIDE DEF x
  <1>4. proc' \in [Process -> Procs] /\ (\A q \in Process \ {p} : proc'[q] = proc[q]) /\ proc'[p] = x
    BY <1>1, <1>2, <1>3
  <1>5. proc' = [proc EXCEPT ![p] = [proc[p] EXCEPT !.pc = c]] /\ [proc[p] EXCEPT !.pc = c] \in Procs
    BY <1>2, <1>3 DEF x
  <1> QED
    BY <1>2, <1>4, <1>5

\* A process that ends lets go of the lock.
LEMMA UpdateQuits ==
  ASSUME UpdateInv, NEW p \in Process, Updating!Quit(p)
  PROVE  /\ proc' = [proc EXCEPT ![p] = Updating!NoProc] /\ proc' \in [Process -> Procs] /\ ProcSound(p)'
         /\ (\A q \in Process \ {p} : proc'[q] = proc[q]) /\ proc'[p].pc = "idle"
         /\ lease' \in Process \cup {None} /\ (lease \in {p, None} \/ lease' = lease)
  <1>1. proc \in [Process -> Procs] /\ lease \in Process \cup {None}
    BY DEF UpdateInv, UpdateTyped
  <1>2. proc' = [proc EXCEPT ![p] = Updating!NoProc] /\ lease' = (IF lease = p THEN None ELSE lease)
    BY DEF Updating!Quit
  <1>3. proc'[p] = Updating!NoProc /\ proc' \in [Process -> Procs] /\ (\A q \in Process \ {p} : proc'[q] = proc[q])
    BY <1>1, <1>2, NoProcIs
  <1>4. proc'[p].pc = "idle"
    BY <1>3, NoProcIs
  <1>5. ProcSound(p)'
    BY <1>4 DEF ProcSound, Locked
  <1>6. lease' \in Process \cup {None} /\ (lease \in {p, None} \/ lease' = lease)
    BY <1>1, <1>2
  <1> QED
    BY <1>2, <1>3, <1>4, <1>5, <1>6

\* A process ends and leaves the files as they are.
LEMMA UpdateEnds ==
  ASSUME UpdateInv, NEW p \in Process, Updating!Quit(p), UNCHANGED <<enabled, published, saved, payload, managed, previous, windows>>
  PROVE  UpdateKept
  <1>1. UpdateInv'
    BY UpdateQuits, UpdateProcOnly, NoProcIs
  <1> QED
    BY <1>1, UpdateStill DEF UpdateKept

\* A process goes on and leaves the files as they are.
LEMMA UpdateGoes ==
  ASSUME UpdateInv, NEW p \in Process, NEW c \in UpdatePcs, Updating!Move(p, c), ProcSound(p)',
         UNCHANGED <<enabled, published, saved, payload, managed, previous, windows>>,
         lease' \in Process \cup {None}, lease \in {p, None} \/ lease' = lease
  PROVE  UpdateKept
  <1>1. UpdateInv'
    BY UpdateMoves, UpdateProcOnly
  <1> QED
    BY <1>1, UpdateStill DEF UpdateKept

\* A launch: the process runs what is installed.
LEMMA UpdateLaunch ==
  ASSUME UpdateInv, NEW p \in Process, NEW d \in Product, NEW manual \in BOOLEAN, Updating!Launch(p, d, manual)
  PROVE  UpdateKept
  <1> DEFINE x == [Updating!NoProc EXCEPT !.pc = IF enabled THEN "launch" ELSE "started",
                                          !.product = d, !.version = managed[d], !.manual = manual]
  <1>1. managed[d] \in Updating!Version /\ proc \in [Process -> Procs] /\ lease \in Process \cup {None}
    BY DEF UpdateInv, UpdateTyped, Updating!Launch, Updating!Missing
  <1>2. x \in Procs /\ x.pc \in {"launch", "started"} /\ x.product = d /\ x.version = managed[d]
    BY <1>1 DEF Updating!NoProc, Procs
  <1>3. proc' = [proc EXCEPT ![p] = x]
    BY DEF Updating!Launch
  <1> HIDE DEF x
  <1>4. proc'[p] = x
    BY <1>1, <1>3
  <1>5. ProcSound(p)'
    BY <1>1, <1>2, <1>4 DEF ProcSound, Locked
  <1>6. UNCHANGED <<enabled, published, saved, payload, managed, previous, lease, windows>>
    BY DEF Updating!Launch
  <1>7. UpdateInv'
    BY <1>1, <1>2, <1>3, <1>5, <1>6, UpdateProcOnly
  <1> QED
    BY <1>6, <1>7, UpdateStill DEF UpdateKept

\* A worker is a copy of the process that starts it.
LEMMA UpdateSpawns ==
  ASSUME UpdateInv, NEW p \in Process, NEW q \in Process \ {p}, Updating!SpawnWorker(p, q)
  PROVE  UpdateKept
  <1> DEFINE x == [proc[p] EXCEPT !.pc = "run", !.manual = FALSE]
  <1>1. proc \in [Process -> Procs] /\ lease \in Process \cup {None} /\ ProcSound(p) /\ proc[p].pc = "started"
    BY DEF UpdateInv, UpdateTyped, Updating!SpawnWorker, Updating!At
  <1>2. x \in Procs /\ x.pc = "run" /\ x.product = proc[p].product /\ x.version = proc[p].version
    BY <1>1 DEF Procs
  <1>3. proc' = [proc EXCEPT ![q] = x]
    BY DEF Updating!SpawnWorker
  <1> HIDE DEF x
  <1>4. proc'[q] = x
    BY <1>1, <1>3
  <1>5. x.product \in Product /\ x.version \in Updating!Version
    BY <1>1, <1>2 DEF ProcSound
  <1>6. ProcSound(q)'
    BY <1>2, <1>4, <1>5 DEF ProcSound, Locked
  <1>7. UNCHANGED <<enabled, published, saved, payload, managed, previous, lease, windows>>
    BY DEF Updating!SpawnWorker
  <1>8. UpdateInv'
    BY <1>1, <1>2, <1>3, <1>6, <1>7, UpdateProcOnly
  <1> QED
    BY <1>7, <1>8, UpdateStill DEF UpdateKept

\* The steps that only move a process or take the lock.
LEMMA UpdateLeases ==
  ASSUME UpdateInv, NEW p \in Process, Updating!LeaseActivation(p)
  PROVE  UpdateKept
  <1>1. ProcSound(p) /\ proc[p].pc = "launch" /\ lease \in Process \cup {None}
    BY DEF UpdateInv, UpdateTyped, Updating!LeaseActivation, Updating!At
  <1>2. UNCHANGED <<enabled, published, saved, payload, managed, previous, windows>>
    BY DEF Updating!LeaseActivation
  <1>3. CASE lease = None /\ lease' = p /\ Updating!Move(p, "staged")
    <2>1. proc'[p].pc = "staged" /\ proc'[p].product = proc[p].product /\ proc'[p].version = proc[p].version
      BY <1>3, UpdateMoves DEF UpdatePcs
    <2>2. ProcSound(p)'
      BY <1>1, <1>3, <2>1 DEF ProcSound, Locked
    <2> QED
      BY <1>1, <1>2, <1>3, <2>2, UpdateGoes DEF UpdatePcs
  <1>4. CASE lease' = lease /\ Updating!Move(p, "started")
    <2>1. proc'[p].pc = "started" /\ proc'[p].product = proc[p].product /\ proc'[p].version = proc[p].version
      BY <1>4, UpdateMoves DEF UpdatePcs
    <2>2. ProcSound(p)'
      BY <1>1, <1>4, <2>1 DEF ProcSound, Locked
    <2> QED
      BY <1>1, <1>2, <1>4, <2>2, UpdateGoes DEF UpdatePcs
  <1> QED
    BY <1>3, <1>4 DEF Updating!LeaseActivation

\* The helper takes the lock once what is staged is whole.
LEMMA UpdateHelps ==
  ASSUME UpdateInv, NEW p \in Process, Updating!StartHelper(p)
  PROVE  UpdateKept
  <1>1. ProcSound(p) /\ proc[p].pc = "helper" /\ lease = None
    BY DEF UpdateInv, Updating!StartHelper, Updating!At
  <1>2. UNCHANGED <<enabled, published, saved, payload, managed, previous, windows>>
    BY DEF Updating!StartHelper
  <1>3. CASE saved[proc[p].product].staged # None /\ Updating!Intact(proc[p].product) /\ lease' = p /\ Updating!Move(p, "replace")
    <2>1. proc'[p].pc = "replace" /\ proc'[p].product = proc[p].product /\ proc'[p].version = proc[p].version
      BY <1>3, UpdateMoves DEF UpdatePcs
    <2>2. ProcSound(p)'
      BY <1>1, <1>2, <1>3, <2>1 DEF ProcSound, Locked, Updating!Intact
    <2> QED
      BY <1>1, <1>2, <1>3, <2>2, UpdateGoes DEF UpdatePcs
  <1>4. CASE Updating!Quit(p)
    BY <1>2, <1>4, UpdateEnds
  <1> QED
    BY <1>3, <1>4 DEF Updating!StartHelper, Updating!Mine

\* The user's command, or the end.
LEMMA UpdateCommands ==
  ASSUME UpdateInv, NEW p \in Process, Updating!Command(p)
  PROVE  UpdateKept
  <1>1. ProcSound(p) /\ proc[p].pc = "started" /\ lease \in Process \cup {None}
    BY DEF UpdateInv, UpdateTyped, Updating!Command, Updating!At
  <1>2. UNCHANGED <<enabled, published, saved, payload, managed, previous, windows>>
    BY DEF Updating!Command
  <1>3. CASE lease' = lease /\ Updating!Move(p, "run")
    <2>1. proc'[p].pc = "run" /\ proc'[p].product = proc[p].product /\ proc'[p].version = proc[p].version
      BY <1>3, UpdateMoves DEF UpdatePcs
    <2>2. ProcSound(p)'
      BY <1>1, <2>1 DEF ProcSound, Locked
    <2> QED
      BY <1>1, <1>2, <1>3, <2>2, UpdateGoes DEF UpdatePcs
  <1>4. CASE Updating!Quit(p)
    BY <1>2, <1>4, UpdateEnds
  <1> QED
    BY <1>3, <1>4 DEF Updating!Command

\* The archive is fetched, or the setting has been turned off.
LEMMA UpdateFetches ==
  ASSUME UpdateInv, NEW p \in Process, Updating!FetchPayload(p)
  PROVE  UpdateKept
  <1>1. ProcSound(p) /\ proc[p].pc = "payload" /\ lease \in Process \cup {None}
    BY DEF UpdateInv, UpdateTyped, Updating!FetchPayload, Updating!At
  <1>2. UNCHANGED <<enabled, published, saved, payload, managed, previous, windows>>
    BY DEF Updating!FetchPayload
  <1>3. CASE lease' = lease /\ Updating!Move(p, "stage")
    <2>1. /\ proc'[p].pc = "stage" /\ proc'[p].product = proc[p].product /\ proc'[p].version = proc[p].version
          /\ proc'[p].state = proc[p].state /\ proc'[p].target = proc[p].target
      BY <1>3, UpdateMoves DEF UpdatePcs
    <2>2. saved' = saved
      BY <1>2
    <2>3. ProcSound(p)'
      BY <1>1, <1>3, <2>1, <2>2 DEF ProcSound, Locked
    <2> QED
      BY <1>1, <1>2, <1>3, <2>3, UpdateGoes DEF UpdatePcs
  <1>4. CASE Updating!Quit(p)
    BY <1>2, <1>4, UpdateEnds
  <1> QED
    BY <1>3, <1>4 DEF Updating!FetchPayload

\* A process dies.
LEMMA UpdateStops ==
  ASSUME UpdateInv, NEW p \in Process, Updating!Stops(p)
  PROVE  UpdateKept
  BY UpdateEnds DEF Updating!Stops

\* One entry of the state file is replaced.
LEMMA UpdateEntry ==
  ASSUME UpdateInv, NEW d \in Product, NEW e \in Updating!Entry
  PROVE  /\ [saved EXCEPT ![d] = e] \in [Product -> Updating!Entry] /\ [saved EXCEPT ![d] = e][d] = e
         /\ \A c \in Product \ {d} : [saved EXCEPT ![d] = e][c] = saved[c]
  BY DEF UpdateInv, UpdateTyped

\* A record that is cleared.
LEMMA UpdateClears ==
  ASSUME UpdateInv, NEW d \in Product
  PROVE  /\ [saved EXCEPT ![d].staged = None] \in [Product -> Updating!Entry]
         /\ [saved EXCEPT ![d].staged = None][d].generation = saved[d].generation
         /\ [saved EXCEPT ![d].staged = None][d].staged = None
         /\ \A c \in Product \ {d} : [saved EXCEPT ![d].staged = None][c] = saved[c]
  <1> DEFINE e == [saved[d] EXCEPT !.staged = None]
  <1>1. e \in Updating!Entry /\ e.generation = saved[d].generation /\ e.staged = None
    BY EntriesAre, UpdateNumbers
  <1>2. [saved EXCEPT ![d].staged = None] = [saved EXCEPT ![d] = e]
    OBVIOUS
  <1> HIDE DEF e
  <1> QED
    BY <1>1, <1>2, UpdateEntry

\* The floor and the record of one product change, the executables do not.
LEMMA UpdateRecords ==
  ASSUME UpdateInv, NEW d \in Product, saved' \in [Product -> Updating!Entry], managed' = managed,
         saved'[d].generation >= saved[d].generation,
         saved'[d].staged \in {None, saved[d].staged, Floor(saved'[d].generation)},
         \A c \in Product \ {d} : saved'[c] = saved[c]
  PROVE  (\A c \in Product : FloorKept(c)') /\ Updating!NeverDowngradedStep
  <1>1. \A c \in Product : managed[c] \in Nat /\ saved[c].generation \in Nat
    BY UpdateNumbers
  <1>2. \A c \in Product : saved'[c].generation >= saved[c].generation
    BY <1>1
  <1>3. Updating!NeverDowngradedStep
    BY <1>1, <1>2 DEF Updating!NeverDowngradedStep, Updating!Missing
  <1>4. ASSUME NEW c \in Product \ {d}
        PROVE  FloorKept(c)'
    <2>1. FloorKept(c) /\ managed' = managed /\ saved'[c] = saved[c]
      BY DEF UpdateInv
    <2> QED
      BY <2>1 DEF FloorKept
  <1>5. FloorKept(d)'
    <2>1. saved'[d].generation \in 0..Len(Catalog)
      BY EntriesAre
    <2>2. Floor(saved[d].generation) <= Floor(saved'[d].generation) /\ Floor(saved'[d].generation) \in Nat /\ Floor(saved[d].generation) \in Nat
      BY <2>1, FloorsRise, UpdateNumbers
    <2>3. managed[d] <= Floor(saved'[d].generation)
      BY <2>2, UpdateNumbers DEF FloorKept
    <2>4. saved'[d].staged = saved[d].staged /\ saved[d].staged # None =>
            managed[d] <= saved'[d].staged /\ saved'[d].staged <= Floor(saved'[d].generation)
      BY <2>2, UpdateNumbers DEF FloorKept
    <2>5. saved'[d].staged # None => managed[d] <= saved'[d].staged /\ saved'[d].staged <= Floor(saved'[d].generation)
      BY <2>2, <2>3, <2>4
    <2> QED
      BY <2>3, <2>5 DEF FloorKept
  <1> QED
    BY <1>3, <1>4, <1>5

\* InstallRecoverable is about the executables.
LEMMA UpdateFiles ==
  ASSUME UpdateInv, UNCHANGED <<managed, previous, windows>>
  PROVE  Updating!InstallRecoverable'
  BY DEF UpdateInv, Updating!InstallRecoverable, Updating!Missing

\* A staged record is checked: cleared, left, or taken to the replacement.
LEMMA UpdateChecks ==
  ASSUME UpdateInv, NEW p \in Process, Updating!CheckStaged(p)
  PROVE  UpdateKept
  <1> DEFINE d == proc[p].product
  <1>1. ProcSound(p) /\ proc[p].pc = "staged" /\ lease = p /\ d \in Product /\ UpdateTyped
        /\ UNCHANGED <<enabled, published, payload, managed, previous, windows>>
    BY DEF UpdateInv, Updating!CheckStaged, Updating!At, ProcSound, Locked
  <1>2. saved' \in {saved, [saved EXCEPT ![d].staged = None]}
    BY DEF Updating!CheckStaged, Updating!Mine
  <1>3. \/ /\ saved' = saved /\ saved[d].staged # None /\ Updating!Intact(d)
           /\ Updating!Move(p, "replace") /\ lease' = lease
        \/ lease' = None /\ (Updating!Move(p, "helper") \/ Updating!Move(p, "started"))
    BY DEF Updating!CheckStaged, Updating!Mine
  <1> HIDE DEF d
  <1>4. saved' \in [Product -> Updating!Entry] /\ saved'[d].generation = saved[d].generation /\ saved'[d].staged \in {None, saved[d].staged}
        /\ \A c \in Product \ {d} : saved'[c] = saved[c]
    BY <1>1, <1>2, UpdateClears DEF UpdateTyped
  <1>5. (\A c \in Product : FloorKept(c)') /\ Updating!NeverDowngradedStep
    BY <1>1, <1>4, UpdateRecords, UpdateNumbers
  <1>6. PICK c \in {"replace", "helper", "started"} :
          /\ Updating!Move(p, c)
          /\ c = "replace" => saved' = saved /\ saved[d].staged # None /\ Updating!Intact(d) /\ lease' = lease
    BY <1>3
  <1>7. /\ proc'[p].pc = c /\ proc'[p].product = proc[p].product /\ proc'[p].version = proc[p].version
        /\ proc' \in [Process -> Procs] /\ (\A q \in Process \ {p} : proc'[q] = proc[q])
    BY <1>6, UpdateMoves DEF UpdatePcs
  <1>8. lease' \in Process \cup {None}
    BY <1>1, <1>3
  <1>9. UpdateTyped'
    BY <1>1, <1>4, <1>7, <1>8 DEF UpdateTyped
  <1>10. proc'[p].product = d /\ proc'[p].version \in Updating!Version
    BY <1>1, <1>7 DEF ProcSound, d
  <1>11. ProcSound(p)'
    BY <1>1, <1>6, <1>7, <1>10 DEF ProcSound, Locked, Updating!Intact
  <1>12. UpdateInv'
    BY <1>1, <1>5, <1>7, <1>9, <1>11, UpdateFiles, UpdateStep
  <1> QED
    BY <1>5, <1>12 DEF UpdateKept

\* The executable is set aside.
LEMMA UpdateBackup ==
  ASSUME UpdateInv, NEW p \in Process, Updating!Backup(p)
  PROVE  UpdateKept
  <1>1. ProcSound(p) /\ proc[p].pc = "replace" /\ lease = p /\ proc[p].product \in Product /\ UpdateTyped
        /\ UNCHANGED <<enabled, published, saved, payload, windows>>
    BY DEF UpdateInv, Updating!Backup, Updating!At, ProcSound, Locked
  <1>2. PICK d \in Product : proc[p].product = d
    BY <1>1
  <1>3. \/ /\ managed[d] # 0 /\ previous' = [previous EXCEPT ![d] = managed[d]] /\ managed' = [managed EXCEPT ![d] = 0]
           /\ Updating!Move(p, "place") /\ lease' = lease
        \/ /\ managed[d] = 0 /\ previous' = (IF windows THEN [previous EXCEPT ![d] = 0] ELSE previous)
           /\ Updating!Quit(p) /\ managed' = managed
    BY <1>2 DEF Updating!Backup, Updating!Mine, Updating!Missing
  <1>4. saved[d].staged # None /\ payload[d][saved[d].staged] = "good" /\ proc[p].version \in Updating!Version
    BY <1>1, <1>2 DEF ProcSound
  <1>5. \A c \in Product : managed[c] \in Nat /\ saved[c].generation \in Nat
    BY UpdateNumbers
  <1>6. FloorKept(d) /\ Floor(saved[d].generation) \in Nat /\ saved[d].staged \in Nat
    BY <1>1, <1>4, UpdateNumbers
  <1>7. CASE /\ managed[d] # 0 /\ previous' = [previous EXCEPT ![d] = managed[d]] /\ managed' = [managed EXCEPT ![d] = 0]
             /\ Updating!Move(p, "place") /\ lease' = lease
    <2>1. /\ proc'[p].pc = "place" /\ proc'[p].product = d /\ proc'[p].version = proc[p].version
          /\ proc' \in [Process -> Procs] /\ (\A q \in Process \ {p} : proc'[q] = proc[q])
      BY <1>7, <1>2, UpdateMoves DEF UpdatePcs
    <2>2. /\ managed' \in [Product -> Updating!Version \cup {0}] /\ previous' \in [Product -> Updating!Version \cup {0}]
          /\ managed'[d] = 0 /\ previous'[d] = managed[d]
          /\ \A c \in Product \ {d} : managed'[c] = managed[c] /\ previous'[c] = previous[c]
      BY <1>1, <1>7 DEF UpdateTyped
    <2>3. UpdateTyped'
      BY <1>1, <1>7, <2>1, <2>2 DEF UpdateTyped
    <2>4. ProcSound(p)'
      BY <1>1, <1>4, <1>6, <1>7, <2>1, <2>2 DEF ProcSound, Locked, FloorKept
    <2>5. \A c \in Product : FloorKept(c)'
      <3>1. FloorKept(d)'
        BY <1>1, <1>6, <2>2 DEF FloorKept
      <3>2. ASSUME NEW c \in Product \ {d}
            PROVE  FloorKept(c)'
        <4>1. FloorKept(c) /\ managed'[c] = managed[c] /\ saved' = saved
          BY <1>1, <2>2 DEF UpdateInv
        <4> QED
          BY <4>1 DEF FloorKept
      <3> QED
        BY <3>1, <3>2 DEF FloorKept
    <2>6. Updating!InstallRecoverable'
      BY <1>1, <1>7, <2>2 DEF UpdateInv, Updating!InstallRecoverable, Updating!Missing
    <2>7. Updating!NeverDowngradedStep
      BY <1>1, <1>5, <2>2 DEF Updating!NeverDowngradedStep, Updating!Missing
    <2>8. UpdateInv'
      BY <1>1, <2>1, <2>3, <2>4, <2>5, <2>6, UpdateStep
    <2> QED
      BY <2>7, <2>8 DEF UpdateKept
  <1>8. CASE /\ managed[d] = 0 /\ previous' = (IF windows THEN [previous EXCEPT ![d] = 0] ELSE previous)
             /\ Updating!Quit(p) /\ managed' = managed
    <2>1. previous' \in [Product -> Updating!Version \cup {0}] /\ (windows \/ previous' = previous)
      BY <1>1, <1>8 DEF UpdateTyped
    <2>2. UpdateTyped'
      BY <1>1, <1>8, <2>1, UpdateQuits DEF UpdateTyped
    <2>3. (\A c \in Product : FloorKept(c)')
      <3>1. \A c \in Product : FloorKept(c)
        BY DEF UpdateInv
      <3>2. saved' = saved /\ managed' = managed
        BY <1>1, <1>8
      <3> QED
        BY <3>1, <3>2 DEF FloorKept
    <2>4. Updating!InstallRecoverable'
      BY <1>1, <1>8, <2>1 DEF UpdateInv, Updating!InstallRecoverable, Updating!Missing
    <2>5. UpdateInv'
      BY <1>1, <1>8, <2>2, <2>3, <2>4, UpdateQuits, UpdateStep
    <2> QED
      BY <1>1, <1>8, <2>5, UpdateStill DEF UpdateKept
  <1> QED
    BY <1>3, <1>7, <1>8

\* The staged version, or the one set aside, becomes the executable.
LEMMA UpdateInstalls ==
  ASSUME UpdateInv, NEW d \in Product, NEW v \in Updating!Version, managed[d] = 0, previous[d] # 0, previous[d] <= v,
         v <= Floor(saved[d].generation), saved[d].staged # None => v <= saved[d].staged,
         managed' = [managed EXCEPT ![d] = v], UNCHANGED <<saved, windows>>,
         \A c \in Product \ {d} : previous'[c] = previous[c]
  PROVE  /\ managed' \in [Product -> Updating!Version \cup {0}] /\ (\A c \in Product : FloorKept(c)')
         /\ Updating!InstallRecoverable' /\ Updating!NeverDowngradedStep /\ managed'[d] # 0
  <1>1. UpdateTyped
    BY DEF UpdateInv
  <1>2. /\ managed' \in [Product -> Updating!Version \cup {0}] /\ managed'[d] = v
        /\ \A c \in Product \ {d} : managed'[c] = managed[c]
    BY <1>1 DEF UpdateTyped
  <1>3. v # 0 /\ v \in Nat
    BY VersionsAre
  <1>4. Updating!InstallRecoverable'
    BY <1>2, <1>3 DEF UpdateInv, Updating!InstallRecoverable, Updating!Missing
  <1>5. \A c \in Product : managed[c] \in Nat /\ saved[c].generation \in Nat
    BY UpdateNumbers
  <1>6. Updating!NeverDowngradedStep
    BY <1>2, <1>3, <1>5 DEF Updating!NeverDowngradedStep, Updating!Missing
  <1>7. ASSUME NEW c \in Product
        PROVE  FloorKept(c)'
    <2>1. FloorKept(c) /\ saved' = saved
      BY DEF UpdateInv
    <2>2. CASE c = d
      BY <1>2, <2>1, <2>2 DEF FloorKept
    <2>3. CASE c # d
      <3>1. managed'[c] = managed[c]
        BY <1>2, <2>3
      <3> QED
        BY <2>1, <3>1 DEF FloorKept
    <2> QED
      BY <2>2, <2>3
  <1> QED
    BY <1>2, <1>3, <1>4, <1>6, <1>7

\* What holds where the executable is placed.
LEMMA UpdatePlacing ==
  ASSUME UpdateInv, NEW p \in Process, NEW d \in Product, proc[p].pc = "place", proc[p].product = d
  PROVE  /\ lease = p /\ managed[d] = 0 /\ previous[d] \in Updating!Version /\ previous[d] # 0 /\ previous[d] <= saved[d].staged
         /\ saved[d].staged # None /\ saved[d].staged \in Updating!Version /\ saved[d].staged <= Floor(saved[d].generation)
         /\ previous[d] <= Floor(saved[d].generation) /\ proc[p].version \in Updating!Version
         /\ payload[d][saved[d].staged] = "good"
  <1>1. ProcSound(p) /\ previous[d] \in Updating!Version \cup {0}
    BY DEF UpdateInv, UpdateTyped
  <1>2. /\ lease = p /\ managed[d] = 0 /\ previous[d] # 0 /\ previous[d] <= saved[d].staged /\ saved[d].staged # None
        /\ proc[p].version \in Updating!Version /\ payload[d][saved[d].staged] = "good"
    BY <1>1 DEF ProcSound, Locked
  <1>3. saved[d].staged \in Updating!Version /\ saved[d].staged \in Nat /\ previous[d] \in Nat /\ Floor(saved[d].generation) \in Nat /\ FloorKept(d)
    BY <1>2, UpdateNumbers
  <1>4. saved[d].staged <= Floor(saved[d].generation)
    BY <1>2, <1>3 DEF FloorKept
  <1>5. previous[d] <= Floor(saved[d].generation)
    BY <1>2, <1>3, <1>4
  <1> QED
    BY <1>1, <1>2, <1>3, <1>4, <1>5

\* The payload is put into place.
LEMMA UpdatePlaces ==
  ASSUME UpdateInv, NEW p \in Process, Updating!Place(p)
  PROVE  UpdateKept
  <1>1. ProcSound(p) /\ proc[p].pc = "place" /\ proc[p].product \in Product /\ UpdateTyped
        /\ UNCHANGED <<enabled, published, saved, previous, lease, windows>> /\ Updating!Move(p, "record")
    BY DEF UpdateInv, Updating!Place, Updating!At, ProcSound
  <1>2. PICK d \in Product : proc[p].product = d
    BY <1>1
  <1>3. PICK v \in Updating!Version : v = saved[d].staged
    BY <1>1, <1>2, UpdatePlacing
  <1>4. /\ managed' = [managed EXCEPT ![d] = v]
        /\ payload' = (IF windows THEN payload ELSE [payload EXCEPT ![d] = [payload[d] EXCEPT ![v] = "none"]])
    BY <1>2, <1>3 DEF Updating!Place, Updating!Mine
  <1>5. lease = p /\ managed[d] = 0 /\ previous[d] # 0 /\ previous[d] <= v /\ v <= Floor(saved[d].generation) /\ saved[d].staged # None
        /\ proc[p].version \in Updating!Version
    BY <1>1, <1>2, <1>3, UpdatePlacing
  <1>6. v <= saved[d].staged
    BY <1>3, VersionsAre
  <1>7. /\ managed' \in [Product -> Updating!Version \cup {0}] /\ (\A c \in Product : FloorKept(c)')
        /\ Updating!InstallRecoverable' /\ Updating!NeverDowngradedStep /\ managed'[d] # 0
    BY <1>1, <1>4, <1>5, <1>6, UpdateInstalls
  <1>8. payload' \in [Product -> [Updating!Version -> {"none", "good", "bad"}]]
    BY <1>1, <1>4 DEF UpdateTyped
  <1>9. /\ proc'[p].pc = "record" /\ proc'[p].product = d /\ proc'[p].version = proc[p].version
        /\ proc' \in [Process -> Procs] /\ (\A q \in Process \ {p} : proc'[q] = proc[q])
    BY <1>1, <1>2, UpdateMoves DEF UpdatePcs
  <1>10. UpdateTyped'
    BY <1>1, <1>7, <1>8, <1>9 DEF UpdateTyped
  <1>11. ProcSound(p)'
    BY <1>1, <1>5, <1>7, <1>9 DEF ProcSound, Locked
  <1>12. UpdateInv'
    BY <1>5, <1>7, <1>9, <1>10, <1>11, UpdateStep
  <1> QED
    BY <1>7, <1>12 DEF UpdateKept

\* The backup is put back.
LEMMA UpdatePutsBack ==
  ASSUME UpdateInv, NEW p \in Process, Updating!PlaceFails(p)
  PROVE  UpdateKept
  <1>1. ProcSound(p) /\ proc[p].pc = "place" /\ proc[p].product \in Product /\ UpdateTyped
        /\ UNCHANGED <<enabled, published, saved, payload, windows>> /\ Updating!Quit(p)
    BY DEF UpdateInv, Updating!PlaceFails, Updating!At, ProcSound
  <1>2. PICK d \in Product : proc[p].product = d
    BY <1>1
  <1>3. PICK v \in Updating!Version : v = previous[d]
    BY <1>1, <1>2, UpdatePlacing
  <1>4. managed' = [managed EXCEPT ![d] = v] /\ previous' = [previous EXCEPT ![d] = 0]
    BY <1>2, <1>3 DEF Updating!PlaceFails, Updating!Mine, Updating!Missing
  <1>5. lease = p /\ managed[d] = 0 /\ previous[d] # 0 /\ v <= Floor(saved[d].generation) /\ v <= saved[d].staged
    BY <1>1, <1>2, <1>3, UpdatePlacing
  <1>6. previous[d] <= v
    BY <1>3, VersionsAre
  <1>7. previous' \in [Product -> Updating!Version \cup {0}] /\ \A c \in Product \ {d} : previous'[c] = previous[c]
    BY <1>1, <1>4 DEF UpdateTyped
  <1>8. /\ managed' \in [Product -> Updating!Version \cup {0}] /\ (\A c \in Product : FloorKept(c)')
        /\ Updating!InstallRecoverable' /\ Updating!NeverDowngradedStep
    BY <1>1, <1>4, <1>5, <1>6, <1>7, UpdateInstalls
  <1>9. UpdateTyped'
    BY <1>1, <1>7, <1>8, UpdateQuits DEF UpdateTyped
  <1>10. UpdateInv'
    BY <1>1, <1>5, <1>8, <1>9, UpdateQuits, UpdateStep
  <1> QED
    BY <1>8, <1>10 DEF UpdateKept

\* The activation is recorded.
LEMMA UpdateActivates ==
  ASSUME UpdateInv, NEW p \in Process, Updating!RecordActivation(p)
  PROVE  UpdateKept
  <1>1. ProcSound(p) /\ proc[p].pc = "record" /\ proc[p].product \in Product /\ UpdateTyped /\ lease = p
        /\ UNCHANGED <<enabled, published, payload, managed, previous, windows>> /\ lease' = None
    BY DEF UpdateInv, Updating!RecordActivation, Updating!At, ProcSound, Locked
  <1>2. PICK d \in Product : proc[p].product = d
    BY <1>1
  <1>3. saved' = [saved EXCEPT ![d].staged = None]
    BY <1>2 DEF Updating!RecordActivation, Updating!Mine
  <1>4. saved' \in [Product -> Updating!Entry] /\ saved'[d].generation = saved[d].generation /\ saved'[d].staged = None
        /\ \A c \in Product \ {d} : saved'[c] = saved[c]
    BY <1>3, UpdateClears
  <1>5. (\A c \in Product : FloorKept(c)') /\ Updating!NeverDowngradedStep
    BY <1>1, <1>4, UpdateRecords, UpdateNumbers
  <1>6. managed[d] \in Updating!Version
    BY <1>1, <1>2 DEF ProcSound, UpdateTyped
  <1> DEFINE x == [proc[p] EXCEPT !.pc = "started", !.version = managed[d]]
  <1>7. proc' = [proc EXCEPT ![p] = x]
    BY <1>2 DEF Updating!RecordActivation, Updating!Mine
  <1>8. x \in Procs /\ x.pc = "started" /\ x.product = d /\ x.version = managed[d]
    <2>1. proc[p] \in Procs
      BY <1>1 DEF UpdateTyped
    <2> QED
      BY <2>1, <1>2, <1>6 DEF Procs
  <1> HIDE DEF x
  <1>9. proc' \in [Process -> Procs] /\ proc'[p] = x /\ (\A q \in Process \ {p} : proc'[q] = proc[q])
    BY <1>1, <1>7, <1>8 DEF UpdateTyped
  <1>10. ProcSound(p)'
    BY <1>6, <1>8, <1>9 DEF ProcSound, Locked
  <1>11. UpdateTyped'
    BY <1>1, <1>4, <1>9 DEF UpdateTyped
  <1>12. UpdateInv'
    BY <1>1, <1>5, <1>9, <1>10, <1>11, UpdateFiles, UpdateStep
  <1> QED
    BY <1>5, <1>12 DEF UpdateKept

\* An entry whose floor rises.
LEMMA UpdateRises ==
  ASSUME UpdateInv, NEW d \in Product, NEW g \in Updating!Generation, g >= saved[d].generation
  PROVE  /\ [saved EXCEPT ![d].generation = g] \in [Product -> Updating!Entry]
         /\ [saved EXCEPT ![d].generation = g][d].generation = g
         /\ [saved EXCEPT ![d].generation = g][d].staged = saved[d].staged
         /\ \A c \in Product \ {d} : [saved EXCEPT ![d].generation = g][c] = saved[c]
  <1> DEFINE e == [saved[d] EXCEPT !.generation = g]
  <1>1. e \in Updating!Entry /\ e.generation = g /\ e.staged = saved[d].staged
    BY EntriesAre, UpdateNumbers, GenerationsAre
  <1>2. [saved EXCEPT ![d].generation = g] = [saved EXCEPT ![d] = e]
    OBVIOUS
  <1> HIDE DEF e
  <1> QED
    BY <1>1, <1>2, UpdateEntry

\* The attempt is saved and the lock taken.
LEMMA UpdateRuns ==
  ASSUME UpdateInv, NEW p \in Process, Updating!StartRun(p)
  PROVE  UpdateKept
  <1>1. ProcSound(p) /\ proc[p].pc = "run" /\ proc[p].product \in Product /\ UpdateTyped
        /\ UNCHANGED <<enabled, published, payload, managed, previous, windows>>
    BY DEF UpdateInv, Updating!StartRun, Updating!At, ProcSound
  <1>2. PICK d \in Product : proc[p].product = d
    BY <1>1
  <1>3. \/ Updating!Quit(p) /\ saved' = saved
        \/ /\ saved' = [saved EXCEPT ![d].attempted = TRUE] /\ lease = None /\ lease' = p
           /\ proc' = [proc EXCEPT ![p] = [proc[p] EXCEPT !.pc = "catalog", !.state = saved']]
    BY <1>2 DEF Updating!StartRun, Updating!Mine, Updating!Exclusive
  <1>4. CASE Updating!Quit(p) /\ saved' = saved
    BY <1>1, <1>4, UpdateEnds
  <1>5. CASE /\ saved' = [saved EXCEPT ![d].attempted = TRUE] /\ lease = None /\ lease' = p
             /\ proc' = [proc EXCEPT ![p] = [proc[p] EXCEPT !.pc = "catalog", !.state = saved']]
    <2> DEFINE e == [saved[d] EXCEPT !.attempted = TRUE]
    <2>1. e \in Updating!Entry /\ e.generation = saved[d].generation /\ e.staged = saved[d].staged
      BY EntriesAre, UpdateNumbers
    <2>2. saved' = [saved EXCEPT ![d] = e]
      BY <1>5
    <2> HIDE DEF e
    <2>3. saved' \in [Product -> Updating!Entry] /\ saved'[d].generation = saved[d].generation /\ saved'[d].staged = saved[d].staged
          /\ \A c \in Product \ {d} : saved'[c] = saved[c]
      BY <2>1, <2>2, UpdateEntry
    <2>4. (\A c \in Product : FloorKept(c)') /\ Updating!NeverDowngradedStep
      BY <1>1, <2>3, UpdateRecords, UpdateNumbers
    <2> DEFINE x == [proc[p] EXCEPT !.pc = "catalog", !.state = saved']
    <2>5. x \in Procs /\ x.pc = "catalog" /\ x.product = d /\ x.version = proc[p].version /\ x.state = saved'
      BY <1>1, <1>2, <2>3 DEF UpdateTyped, Procs
    <2>6. proc' = [proc EXCEPT ![p] = x]
      BY <1>5
    <2> HIDE DEF x
    <2>7. proc' \in [Process -> Procs] /\ proc'[p] = x /\ (\A q \in Process \ {p} : proc'[q] = proc[q])
      BY <1>1, <2>5, <2>6 DEF UpdateTyped
    <2>8. d \in Product /\ proc[p].version \in Updating!Version
      BY <1>1 DEF ProcSound
    <2>9. ProcSound(p)'
      BY <1>5, <2>5, <2>7, <2>8 DEF ProcSound, Locked
    <2>10. UpdateTyped'
      BY <1>1, <1>5, <2>3, <2>7 DEF UpdateTyped
    <2>11. UpdateInv'
      BY <1>1, <1>5, <2>4, <2>7, <2>9, <2>10, UpdateFiles, UpdateStep
    <2> QED
      BY <2>4, <2>11 DEF UpdateKept
  <1> QED
    BY <1>3, <1>4, <1>5

\* A catalog is accepted, refused, or has nothing newer.
LEMMA UpdateReads ==
  ASSUME UpdateInv, NEW p \in Process, NEW g \in Updating!Generation, Updating!FetchCatalog(p, g)
  PROVE  UpdateKept
  <1>1. ProcSound(p) /\ proc[p].pc = "catalog" /\ proc[p].product \in Product /\ UpdateTyped /\ lease = p /\ proc[p].state = saved
        /\ UNCHANGED <<enabled, published, payload, managed, previous, windows>>
    BY DEF UpdateInv, Updating!FetchCatalog, Updating!At, ProcSound, Locked
  <1>2. PICK d \in Product : proc[p].product = d
    BY <1>1
  <1> DEFINE s == [saved EXCEPT ![d].generation = g]
             x == [proc[p] EXCEPT !.pc = "payload", !.state = s, !.target = NewestOf(g)]
  <1>3. \/ Updating!Quit(p) /\ saved' = saved
        \/ g >= saved[d].generation /\ saved' = s /\ Updating!Quit(p)
        \/ g >= saved[d].generation /\ saved' = saved /\ lease' = lease /\ proc' = [proc EXCEPT ![p] = x]
    BY <1>1, <1>2 DEF Updating!FetchCatalog, Updating!Mine, Updating!Accepts, NewestOf
  <1>4. g >= saved[d].generation =>
          /\ s \in [Product -> Updating!Entry] /\ s[d].generation = g /\ s[d].staged = saved[d].staged
          /\ \A c \in Product \ {d} : s[c] = saved[c]
    BY UpdateRises
  <1>5. g >= saved[d].generation => x \in Procs /\ x.pc = "payload" /\ x.product = d /\ x.version = proc[p].version
                                    /\ x.state = s /\ x.target = NewestOf(g)
    <2>1. NewestOf(g) \in Updating!Version
      BY NewestIs
    <2> HIDE DEF s
    <2> QED
      BY <1>1, <1>2, <1>4, <2>1 DEF UpdateTyped, Procs
  <1>6. s = [saved EXCEPT ![d].generation = g]
    OBVIOUS
  <1> HIDE DEF x, s
  <1>7. CASE Updating!Quit(p) /\ saved' = saved
    BY <1>1, <1>7, UpdateEnds
  <1>8. CASE g >= saved[d].generation /\ saved' = s /\ Updating!Quit(p)
    <2>1. saved' \in [Product -> Updating!Entry] /\ saved'[d].generation >= saved[d].generation /\ saved'[d].staged = saved[d].staged
          /\ \A c \in Product \ {d} : saved'[c] = saved[c]
      BY <1>4, <1>8
    <2>2. (\A c \in Product : FloorKept(c)') /\ Updating!NeverDowngradedStep
      BY <1>1, <2>1, UpdateRecords
    <2>3. UpdateTyped'
      BY <1>1, <1>8, <2>1, UpdateQuits DEF UpdateTyped
    <2>4. UpdateInv'
      BY <1>1, <1>8, <2>2, <2>3, UpdateQuits, UpdateFiles, UpdateStep
    <2> QED
      BY <2>2, <2>4 DEF UpdateKept
  <1>9. CASE g >= saved[d].generation /\ saved' = saved /\ lease' = lease /\ proc' = [proc EXCEPT ![p] = x]
    <2>1. proc'[p] = x /\ x \in Procs
      BY <1>1, <1>5, <1>9 DEF UpdateTyped
    <2>2. d \in Product /\ proc[p].version \in Updating!Version
      BY <1>1 DEF ProcSound
    <2>3. /\ proc'[p].pc = "payload" /\ proc'[p].product = d /\ proc'[p].version \in Updating!Version /\ lease' = p
          /\ g >= saved'[d].generation /\ proc'[p].target = NewestOf(g) /\ proc'[p].state = [saved' EXCEPT ![d].generation = g]
      BY <1>1, <1>5, <1>6, <1>9, <2>1, <2>2
    <2>4. \E h \in Updating!Generation : /\ h >= saved'[proc'[p].product].generation /\ proc'[p].target = NewestOf(h)
                                         /\ proc'[p].state = [saved' EXCEPT ![proc'[p].product].generation = h]
      BY <2>3
    <2>5. ProcSound(p)'
      BY <2>2, <2>3, <2>4 DEF ProcSound, Locked
    <2>6. lease' \in Process \cup {None}
      BY <1>1, <1>9
    <2>7. UpdateInv'
      BY <1>1, <1>9, <2>1, <2>5, <2>6, UpdateProcOnly
    <2> QED
      BY <1>1, <1>9, <2>7, UpdateStill DEF UpdateKept
  <1> QED
    BY <1>3, <1>7, <1>8, <1>9

\* The release is staged under the floor it was found with.
LEMMA UpdateStages ==
  ASSUME UpdateInv, NEW p \in Process, Updating!StagePayload(p)
  PROVE  UpdateKept
  <1>1. ProcSound(p) /\ proc[p].pc = "stage" /\ proc[p].product \in Product /\ UpdateTyped /\ lease = p
        /\ UNCHANGED <<enabled, published, managed, previous, windows>> /\ Updating!Quit(p)
    BY DEF UpdateInv, Updating!StagePayload, Updating!At, ProcSound, Locked
  <1>2. PICK d \in Product : proc[p].product = d
    BY <1>1
  <1>3. PICK g \in Updating!Generation : /\ g >= saved[d].generation /\ proc[p].target = NewestOf(g)
                                         /\ proc[p].state = [saved EXCEPT ![d].generation = g]
    BY <1>1, <1>2 DEF ProcSound
  <1>4. PICK v \in Updating!Version : v = NewestOf(g) /\ v = Floor(g)
    BY NewestIs, FloorsRise
  <1> DEFINE s == [saved EXCEPT ![d].generation = g]
             e == [s[d] EXCEPT !.staged = v]
  <1>5. payload' = [payload EXCEPT ![d] = [payload[d] EXCEPT ![v] = "good"]]
        /\ saved' \in {saved, [s EXCEPT ![d] = [s[d] EXCEPT !.staged = v]]}
    BY <1>2, <1>3, <1>4 DEF Updating!StagePayload, Updating!Mine
  <1>6. s \in [Product -> Updating!Entry] /\ s[d].generation = g /\ \A c \in Product \ {d} : s[c] = saved[c]
    BY <1>3, UpdateRises
  <1> HIDE DEF s
  <1>7. s[d] \in Updating!Entry
    BY <1>6
  <1>8. e \in Updating!Entry /\ e.generation = g /\ e.staged = v
    BY <1>6, <1>7, EntriesAre
  <1>9. saved' \in {saved, [s EXCEPT ![d] = e]}
    BY <1>5
  <1> HIDE DEF e
  <1>10. /\ saved' \in [Product -> Updating!Entry] /\ saved'[d].generation >= saved[d].generation
         /\ saved'[d].staged \in {None, saved[d].staged, Floor(saved'[d].generation)}
         /\ \A c \in Product \ {d} : saved'[c] = saved[c]
    <2>1. CASE saved' = saved
      BY <1>1, <2>1, UpdateNumbers DEF UpdateTyped
    <2>2. CASE saved' = [s EXCEPT ![d] = e]
      <3>1. saved' \in [Product -> Updating!Entry] /\ saved'[d] = e /\ \A c \in Product \ {d} : saved'[c] = s[c]
        BY <1>6, <1>8, <2>2
      <3> QED
        BY <1>3, <1>4, <1>6, <1>8, <3>1
    <2> QED
      BY <1>9, <2>1, <2>2
  <1>11. (\A c \in Product : FloorKept(c)') /\ Updating!NeverDowngradedStep
    BY <1>1, <1>10, UpdateRecords
  <1>12. payload' \in [Product -> [Updating!Version -> {"none", "good", "bad"}]]
    BY <1>1, <1>5 DEF UpdateTyped
  <1>13. UpdateTyped'
    BY <1>1, <1>10, <1>12, UpdateQuits DEF UpdateTyped
  <1>14. UpdateInv'
    BY <1>1, <1>11, <1>13, UpdateQuits, UpdateFiles, UpdateStep
  <1> QED
    BY <1>11, <1>14 DEF UpdateKept

\* Steps of the surroundings while nobody holds the lock, or that touch no file.
LEMMA UpdateSurroundings ==
  ASSUME UpdateInv, UpdateTyped', proc' = proc, lease' = lease, UNCHANGED <<managed, previous, windows>>,
         \A d \in Product : FloorKept(d)', Updating!NeverDowngradedStep,
         lease = None \/ UNCHANGED <<saved, payload>>
  PROVE  UpdateKept
  <1>1. ASSUME NEW p \in Process
        PROVE  ProcSound(p)'
    <2>1. ProcSound(p) /\ proc' = proc /\ lease' = lease /\ managed' = managed /\ previous' = previous
      BY DEF UpdateInv
    <2>2. CASE lease = None
      <3>1. proc[p].pc \notin Locked
        BY <2>1, <2>2, ApplicationsAssumption DEF ProcSound, UpdateConstants
      <3> QED
        BY <2>1, <3>1 DEF ProcSound, Locked
    <2>3. CASE saved' = saved /\ payload' = payload
      BY <2>1, <2>3 DEF ProcSound
    <2> QED
      BY <2>2, <2>3
  <1> QED
    BY <1>1, UpdateFiles DEF UpdateInv, UpdateKept

\* Every step of the updater keeps the invariant and downgrades nothing.
LEMMA UpdateNext ==
  ASSUME UpdateInv, [Updating!Next]_updateVars
  PROVE  UpdateInv' /\ [Updating!NeverDowngradedStep]_updateVars
  <1>1. UpdateTyped /\ \A d \in Product : FloorKept(d)
    BY DEF UpdateInv
  <1>2. UNCHANGED <<saved, managed>> => \A d \in Product : FloorKept(d)'
    BY <1>1 DEF FloorKept
  <1>3. ASSUME NEW p \in Process,
               \/ Updating!LeaseActivation(p) \/ Updating!CheckStaged(p) \/ Updating!StartHelper(p) \/ Updating!Backup(p)
               \/ Updating!Place(p) \/ Updating!PlaceFails(p) \/ Updating!RecordActivation(p) \/ Updating!Command(p)
               \/ Updating!StartRun(p) \/ Updating!FetchPayload(p) \/ Updating!StagePayload(p) \/ Updating!Stops(p)
               \/ \E d \in Product, manual \in BOOLEAN : Updating!Launch(p, d, manual)
               \/ \E q \in Process \ {p} : Updating!SpawnWorker(p, q)
               \/ \E g \in Updating!Generation : Updating!FetchCatalog(p, g)
        PROVE  UpdateKept
    BY <1>3, UpdateLeases, UpdateChecks, UpdateHelps, UpdateBackup, UpdatePlaces, UpdatePutsBack, UpdateActivates,
       UpdateCommands, UpdateRuns, UpdateFetches, UpdateStages, UpdateStops, UpdateLaunch, UpdateSpawns, UpdateReads
  <1>4. CASE Updating!ReleasePublished \/ Updating!SetEnabled
    <2>1. UNCHANGED <<saved, payload, managed, previous, lease, proc, windows>>
      BY <1>4 DEF Updating!ReleasePublished, Updating!SetEnabled
    <2>2. published' \in Updating!Generation /\ enabled' \in BOOLEAN
      BY <1>1, <1>4 DEF Updating!ReleasePublished, Updating!SetEnabled, UpdateTyped
    <2>3. UpdateTyped'
      BY <1>1, <2>1, <2>2 DEF UpdateTyped
    <2> QED
      BY <1>2, <2>1, <2>3, UpdateStill, UpdateSurroundings DEF UpdateKept
  <1>5. ASSUME NEW d \in Product, Updating!Due(d)
        PROVE  UpdateKept
    <2> DEFINE e == [saved[d] EXCEPT !.attempted = FALSE]
    <2>1. lease = None /\ UNCHANGED <<enabled, published, payload, managed, previous, lease, proc, windows>>
      BY <1>5 DEF Updating!Due
    <2>2. e \in Updating!Entry /\ e.generation = saved[d].generation /\ e.staged = saved[d].staged
      BY EntriesAre, UpdateNumbers
    <2>3. saved' = [saved EXCEPT ![d] = e]
      BY <1>5 DEF Updating!Due
    <2> HIDE DEF e
    <2>4. saved' \in [Product -> Updating!Entry] /\ saved'[d].generation = saved[d].generation /\ saved'[d].staged = saved[d].staged
          /\ \A c \in Product \ {d} : saved'[c] = saved[c]
      BY <2>2, <2>3, UpdateEntry
    <2>5. (\A c \in Product : FloorKept(c)') /\ Updating!NeverDowngradedStep
      BY <2>1, <2>4, UpdateRecords, UpdateNumbers
    <2>6. UpdateTyped'
      BY <1>1, <2>1, <2>4 DEF UpdateTyped
    <2> QED
      BY <2>1, <2>5, <2>6, UpdateSurroundings
  <1>6. ASSUME NEW d \in Product, NEW v \in Updating!Version, Updating!Damage(d, v)
        PROVE  UpdateKept
    <2>1. lease = None /\ UNCHANGED <<enabled, published, saved, managed, previous, lease, proc, windows>>
      BY <1>6 DEF Updating!Damage
    <2>2. PICK s \in {"bad", "none"} : payload' = [payload EXCEPT ![d] = [payload[d] EXCEPT ![v] = s]]
      BY <1>6 DEF Updating!Damage
    <2>3. UpdateTyped'
      BY <1>1, <2>1, <2>2 DEF UpdateTyped
    <2> QED
      BY <1>2, <2>1, <2>3, UpdateStill, UpdateSurroundings
  <1>7. CASE UNCHANGED updateVars
    <2>1. UpdateTyped'
      BY <1>1, <1>7 DEF UpdateTyped, updateVars
    <2> QED
      BY <1>2, <1>7, <2>1, UpdateStill, UpdateSurroundings DEF updateVars, UpdateKept
  <1> QED
    BY <1>3, <1>4, <1>5, <1>6, <1>7 DEF Updating!Next, UpdateKept

\* What the invariant says of the installation.
LEMMA UpdateSound ==
  ASSUME UpdateInv
  PROVE  Updating!TypeOK /\ Updating!InstallRecoverable /\ Updating!DigestBeforePlacing
  <1>1. UpdateTyped /\ \A p \in Process : ProcSound(p)
    BY DEF UpdateInv
  <1>2. Updating!TypeOK
    BY <1>1 DEF UpdateTyped, Updating!TypeOK, Updating!Missing, Procs
  <1>3. Updating!DigestBeforePlacing
    BY <1>1 DEF ProcSound, Updating!DigestBeforePlacing, Updating!At, Updating!Mine
  <1> QED
    BY <1>2, <1>3 DEF UpdateInv

\* client-updater: for any number of products, processes and releases, whatever
\* dies between the two renames leaves a whole executable on Unix, what is put in
\* place was digested just before, no step installs an older version than the one
\* it replaces, and no rollback floor sinks.
THEOREM UpdatesAlwaysSafe == Updating!Spec => UpdateSafe
  <1>1. Updating!Init => UpdateInv
    BY UpdateInit
  <1>2. UpdateInv /\ [Updating!Next]_updateVars => UpdateInv'
    BY UpdateNext
  <1>3. UpdateInv /\ [Updating!Next]_updateVars => [Updating!NeverDowngradedStep]_updateVars
    BY UpdateNext
  <1>4. UpdateInv => Updating!TypeOK /\ Updating!InstallRecoverable /\ Updating!DigestBeforePlacing
    BY UpdateSound
  <1> QED
    BY <1>1, <1>2, <1>3, <1>4, PTL DEF Updating!Spec, UpdateSafe, updateVars, Updating!vars

(***************************************************************************)
(* ClientConfig: the configuration file.                                   *)
(***************************************************************************)

\* The file has its form, and so has the Config of every program that holds one.
ConfigInv == doc \in Documents \cup {None} /\ held \in [Program -> Configs \cup {None}]

\* What a document reads as: a legal value for every field.
LEMMA ReadsSettings ==
  ASSUME NEW d \in Documents
  PROVE  Configuring!FromDocument(d) \in Configuring!Settings
  BY ApplicationsAssumption DEF ConfigConstants, Documents, Configuring!FromDocument, Configuring!Settings,
     Configuring!Value, Configuring!Normal, Configuring!LegacyField

\* The file that is not there reads like one without a key.
LEMMA DocumentForm ==
  ASSUME NEW d \in Documents \cup {None}
  PROVE  Configuring!Document(d) \in Documents
  BY DEF Documents, Configuring!Document, Configuring!Blank, Configuring!LegacyField

\* What was applied is there, and is read back with its spelling made normal,
\* whatever flat keys an older release has left.
LEMMA AppliedReadBack ==
  ASSUME NEW d \in Documents, NEW s \in [Field -> Configuring!Value \cup {Alias}]
  PROVE  /\ Configuring!ApplyConfig(d, s) \in Documents
         /\ Configuring!Document(Configuring!ApplyConfig(d, s)) = Configuring!ApplyConfig(d, s)
         /\ Configuring!FromDocument(Configuring!ApplyConfig(d, s)) = [f \in Field |-> Configuring!Normal(s[f])]
  <1> DEFINE n == [f \in Field |-> IF f = "max_concurrency" /\ s[f] = 0 THEN None ELSE s[f]]
             e == Configuring!ApplyConfig(d, s)
  <1>1. n \in [Field -> Configuring!Value \cup {None, Alias}]
    OBVIOUS
  <1>2. e \in Documents /\ e.schema /\ e.nested = n
    BY <1>1 DEF Documents, Configuring!ApplyConfig
  <1> HIDE DEF e
  <1>3. Configuring!Document(e) = e
    BY <1>2, ApplicationsAssumption DEF ConfigConstants, Configuring!Document
  <1>4. \A f \in Field : Configuring!FromDocument(e)[f] = Configuring!Normal(s[f])
    BY <1>2, ApplicationsAssumption DEF ConfigConstants, Configuring!FromDocument, Configuring!Normal, Configuring!Value
  <1>5. Configuring!FromDocument(e) = [f \in Field |-> Configuring!Normal(s[f])]
    BY <1>2, <1>4 DEF Configuring!FromDocument
  <1> QED
    BY <1>2, <1>3, <1>5 DEF e

\* Legal values are spelt the normal way.
LEMMA SettingsNormal ==
  ASSUME NEW s \in Configuring!Settings
  PROVE  /\ s \in [Field -> Configuring!Value \cup {Alias}]
         /\ [f \in Field |-> Configuring!Normal(s[f])] = s
  <1>1. \A f \in Field : Configuring!Normal(s[f]) = s[f]
    BY ApplicationsAssumption DEF ConfigConstants, Configuring!Settings, Configuring!Value, Configuring!Normal
  <1> QED
    BY <1>1 DEF Configuring!Settings

\* The settings with the instance of the environment imported.
LEMMA ImportedSettings ==
  ASSUME NEW d, NEW s \in Configuring!Settings, NEW i \in Instances
  PROVE  Configuring!ImportLegacyInstance(d, s, i) \in Configuring!Settings
  BY ApplicationsAssumption DEF ConfigConstants, Configuring!ImportLegacyInstance, Configuring!Settings,
     Configuring!Value, Configuring!Normal

\* The Config a program holds has its form.
LEMMA ConfigForm ==
  ASSUME NEW s \in [Field -> Configuring!Value \cup {Alias}], NEW b \in Configuring!Settings \cup {None}
  PROVE  Configuring!Config(s, b) \in Configs
  BY DEF Configs, Configuring!Config

\* What save() writes: the sections that changed since they were loaded, over what
\* the file says now.
LEMMA MergedForm ==
  ASSUME ConfigInv, NEW p \in Program, held[p] # None, held[p].baseline # None
  PROVE  /\ Configuring!Merge(p) \in [Field -> Configuring!Value \cup {Alias}]
         /\ \A f \in Field : (\A g \in Configuring!Section(f) : held[p].now[g] = held[p].baseline[g]) =>
              Configuring!Merge(p)[f] = Configuring!FromDocument(Configuring!Document(doc))[f]
  <1>1. Configuring!FromDocument(Configuring!Document(doc)) \in Configuring!Settings
    BY DocumentForm, ReadsSettings DEF ConfigInv
  <1>2. held[p].now \in [Field -> Configuring!Value \cup {Alias}]
    BY DEF ConfigInv, Configs
  <1> QED
    BY <1>1, <1>2 DEF Configuring!Merge, Configuring!ApplyChangesFrom, Configuring!Settings

\* Every operation leaves a file and Configs of their form.
LEMMA ConfigSteps ==
  ASSUME ConfigInv, Configuring!Next
  PROVE  ConfigInv'
  <1> DEFINE d == Configuring!Document(doc)
             now == Configuring!FromDocument(d)
  <1>1. d \in Documents /\ now \in Configuring!Settings
    BY DocumentForm, ReadsSettings DEF ConfigInv
  <1>2. now \in [Field -> Configuring!Value \cup {Alias}]
    BY <1>1, SettingsNormal
  <1>3. doc # None => doc = d
    BY DEF Configuring!Document
  <1> HIDE DEF d, now
  <1> PICK p \in Program :
        \/ Configuring!LoadFirst(p) \/ Configuring!Load(p) \/ Configuring!Change(p) \/ Configuring!Save(p)
        \/ (\E f \in Field, v \in Configuring!Inputs : Configuring!Update(p, f, v)) \/ Configuring!Exit(p)
    BY DEF Configuring!Next
  <1>a. CASE Configuring!LoadFirst(p)
    <2>1. PICK i \in Instances :
            LET s == Configuring!ImportLegacyInstance(Configuring!Blank, Configuring!Default, i)
            IN  doc' = Configuring!ApplyConfig(Configuring!Blank, s) /\ held' = [held EXCEPT ![p] = Configuring!Config(s, None)]
      BY <1>a DEF Configuring!LoadFirst
    <2> DEFINE s == Configuring!ImportLegacyInstance(Configuring!Blank, Configuring!Default, i)
    <2>2. Configuring!Default \in Configuring!Settings /\ Configuring!Blank \in Documents
      BY DEF Configuring!Default, Configuring!Settings, Configuring!Value, Configuring!Blank, Documents, Configuring!LegacyField
    <2>3. s \in Configuring!Settings
      BY <2>2, ImportedSettings
    <2> HIDE DEF s
    <2>4. Configuring!ApplyConfig(Configuring!Blank, s) \in Documents /\ Configuring!Config(s, None) \in Configs
      BY <2>2, <2>3, SettingsNormal, AppliedReadBack, ConfigForm
    <2> QED
      BY <2>1, <2>4 DEF ConfigInv, s
  <1>b. CASE Configuring!Load(p)
    <2>1. doc # None
      BY <1>b DEF Configuring!Load
    <2>2. PICK i \in Instances :
            LET s == Configuring!ImportLegacyInstance(doc, Configuring!FromDocument(doc), i)
            IN  /\ doc' = IF doc.schema THEN doc ELSE Configuring!ApplyConfig(doc, s)
                /\ held' = [held EXCEPT ![p] = Configuring!Config(s, s)]
      BY <1>b DEF Configuring!Load
    <2> DEFINE s == Configuring!ImportLegacyInstance(doc, Configuring!FromDocument(doc), i)
    <2>3. s \in Configuring!Settings
      BY <1>1, <1>3, <2>1, ImportedSettings DEF now
    <2> HIDE DEF s
    <2>4. Configuring!ApplyConfig(doc, s) \in Documents /\ Configuring!Config(s, s) \in Configs
      BY <1>1, <1>3, <2>1, <2>3, SettingsNormal, AppliedReadBack, ConfigForm
    <2> QED
      BY <2>2, <2>4 DEF ConfigInv, s
  <1>c. CASE Configuring!Change(p)
    <2>1. PICK f \in Field, v \in Configuring!Value : held' = [held EXCEPT ![p].now[f] = v]
      BY <1>c DEF Configuring!Change
    <2>2. held[p] \in Configs
      BY <1>c DEF Configuring!Change, ConfigInv
    <2>3. [held[p] EXCEPT !.now[f] = v] \in Configs
      BY <2>2 DEF Configs
    <2> QED
      BY <1>c, <2>1, <2>3 DEF Configuring!Change, ConfigInv
  <1>d. CASE Configuring!Save(p)
    <2> DEFINE s == IF held[p].baseline = None THEN held[p].now ELSE Configuring!Merge(p)
    <2>1. doc' = Configuring!ApplyConfig(d, s) /\ held' = held /\ held[p] # None
      BY <1>d DEF Configuring!Save, d
    <2>2. held[p].now \in [Field -> Configuring!Value \cup {Alias}]
      BY <2>1 DEF ConfigInv, Configs
    <2>3. s \in [Field -> Configuring!Value \cup {Alias}]
      BY <2>1, <2>2, MergedForm
    <2> HIDE DEF s
    <2>4. doc' \in Documents
      BY <1>1, <2>1, <2>3, AppliedReadBack
    <2> QED
      BY <2>1, <2>4 DEF ConfigInv
  <1>e. CASE \E f \in Field, v \in Configuring!Inputs : Configuring!Update(p, f, v)
    <2> PICK f \in Field, v \in Configuring!Inputs : Configuring!Update(p, f, v)
      BY <1>e
    <2> DEFINE s == [now EXCEPT ![f] = v]
    <2>1. CASE Configuring!Valid(s)
      <3>1. doc' = Configuring!ApplyConfig(d, s) /\ held' \in {held, [held EXCEPT ![p] = Configuring!Config(s, now)]}
        BY <2>1 DEF Configuring!Update, d, now
      <3>2. s \in [Field -> Configuring!Value \cup {Alias}]
        BY <1>2, <2>1 DEF Configuring!Valid, Configuring!Inputs
      <3> HIDE DEF s
      <3>3. Configuring!Config(s, now) \in Configs /\ doc' \in Documents
        BY <1>1, <3>1, <3>2, ConfigForm, AppliedReadBack
      <3> QED
        BY <3>1, <3>3 DEF ConfigInv
    <2>2. CASE ~Configuring!Valid(s)
      BY <2>2 DEF Configuring!Update, Configuring!vars, ConfigInv, d, now
    <2> QED
      BY <2>1, <2>2
  <1>f. CASE Configuring!Exit(p)
    BY <1>f DEF Configuring!Exit, ConfigInv
  <1> QED
    BY <1>a, <1>b, <1>c, <1>d, <1>e, <1>f

\* config.rs, for any programs and settings: what update() was asked for is what a
\* program that loads the file reads, together with every other setting as it was,
\* and save() leaves alone the sections its program has not changed, so a Config that
\* was held for long undoes nothing that others have saved.
THEOREM ConfigAlwaysMerged == Configuring!Spec => ConfigMerged
  <1>1. Configuring!Init => ConfigInv
    <2> SUFFICES ASSUME Configuring!Init PROVE ConfigInv
      OBVIOUS
    <2>1. doc = None \/ doc \in Documents
      <3> SUFFICES ASSUME doc # None PROVE doc \in Documents
        OBVIOUS
      <3>1. PICK l \in [Configuring!LegacyField -> {None, 1}], f \in Configuring!LegacyField, n \in {None, 0} :
              doc = [Configuring!Blank EXCEPT !.legacy = l, !.nested[f] = n]
        BY DEF Configuring!Init
      <3> QED
        BY <3>1 DEF Configuring!Blank, Documents, Configuring!Value
    <2> QED
      BY <2>1 DEF Configuring!Init, ConfigInv
  <1>2. ConfigInv /\ [Configuring!Next]_configVars => ConfigInv'
    BY ConfigSteps DEF ConfigInv, configVars
  <1>3. ConfigInv => Configuring!TypeOK
    BY ApplicationsAssumption DEF ConfigConstants, ConfigInv, Configuring!TypeOK, Documents, Configs
  <1>4. ConfigInv /\ ConfigInv' /\ [Configuring!Next]_configVars =>
          \/ UNCHANGED configVars
          \/ Configuring!UpdateReadBackStep /\ Configuring!OthersChangesKeptStep
    <2> SUFFICES ASSUME ConfigInv
                 PROVE  Configuring!UpdateReadBackStep /\ Configuring!OthersChangesKeptStep
      OBVIOUS
    <2> DEFINE d == Configuring!Document(doc)
               now == Configuring!FromDocument(d)
    <2>1. d \in Documents /\ now \in Configuring!Settings
      BY DocumentForm, ReadsSettings DEF ConfigInv
    <2>2. Configuring!UpdateReadBackStep
      <3> SUFFICES ASSUME NEW p \in Program, NEW f \in Field, NEW v \in Configuring!Value, Configuring!Update(p, f, v)
                   PROVE  Configuring!Effective' = [Configuring!Effective EXCEPT ![f] = v]
        BY DEF Configuring!UpdateReadBackStep
      <3> DEFINE s == [now EXCEPT ![f] = v]
      <3>1. s \in Configuring!Settings
        BY <2>1 DEF Configuring!Settings
      <3>2. Configuring!Valid(s)
        BY <3>1, ApplicationsAssumption DEF ConfigConstants, Configuring!Valid, Configuring!Settings, Configuring!Value
      <3>3. doc' = Configuring!ApplyConfig(d, s)
        BY <3>2 DEF Configuring!Update
      <3>4. Configuring!Effective = now
        BY DEF Configuring!Effective
      <3> HIDE DEF s, d, now
      <3>5. Configuring!FromDocument(Configuring!Document(Configuring!ApplyConfig(d, s))) = s
        BY <2>1, <3>1, SettingsNormal, AppliedReadBack
      <3>6. Configuring!Effective' = s
        BY <3>3, <3>5 DEF Configuring!Effective
      <3> QED
        BY <3>4, <3>6 DEF s
    <2>3. Configuring!OthersChangesKeptStep
      <3> SUFFICES ASSUME NEW p \in Program, Configuring!Save(p), held[p].baseline # None, NEW f \in Field,
                          \A g \in Configuring!Section(f) : held[p].now[g] = held[p].baseline[g]
                   PROVE  Configuring!Effective'[f] = Configuring!Effective[f]
        BY DEF Configuring!OthersChangesKeptStep
      <3> DEFINE s == Configuring!Merge(p)
      <3>1. held[p] # None /\ doc' = Configuring!ApplyConfig(d, s)
        BY DEF Configuring!Save
      <3>2. s \in [Field -> Configuring!Value \cup {Alias}] /\ s[f] = now[f]
        BY <3>1, MergedForm
      <3>3. Configuring!Effective = now
        BY DEF Configuring!Effective
      <3> HIDE DEF s, d, now
      <3>4. Configuring!FromDocument(Configuring!Document(Configuring!ApplyConfig(d, s)))
              = [g \in Field |-> Configuring!Normal(s[g])]
        BY <2>1, <3>2, AppliedReadBack
      <3>5. Configuring!Effective'[f] = Configuring!Normal(now[f])
        BY <3>1, <3>2, <3>4 DEF Configuring!Effective
      <3>6. Configuring!Normal(now[f]) = now[f]
        BY <2>1, ApplicationsAssumption DEF ConfigConstants, Configuring!Settings, Configuring!Value, Configuring!Normal
      <3> QED
        BY <3>3, <3>5, <3>6
    <2> QED
      BY <2>2, <2>3
  <1> QED
    BY <1>1, <1>2, <1>3, <1>4, PTL DEF Configuring!Spec, ConfigMerged, configVars, Configuring!vars

(***************************************************************************)
(* DesktopReceive: receives of the desktop and their export.               *)
(***************************************************************************)

\* Every variable has its type.
ReceiveTyped ==
  /\ checkpoint \in [Transfer -> Checkpoints \cup {None}]
  /\ prepared \in [Transfer -> (SUBSET Receiving!Name) \cup {None}]
  /\ prep \in [Transfer -> {"none", "running", "ended"}]
  /\ receipt \in [Transfer -> Receipts]
  /\ root \subseteq Transfer /\ journal \subseteq Transfer /\ exported \subseteq Transfer
  /\ folder \in [Receiving!Name -> Transfer \cup {None, Foreign}]
  /\ export \in Exports \cup {None}
  /\ burn \in [held : BOOLEAN, offered : BOOLEAN, requests : SUBSET Retry]

\* Transfer t with checkpoint c, preview p, row s of its preparation and row r of its
\* download: a preview is that of the checkpoint, which is gone only with the row of the
\* preparation; the download starts after both; and what runs has a checkpoint.
TransferSound(t, c, p, s, r) ==
  /\ c # None => c.items \subseteq Items[t]
  /\ p # None => p \subseteq Items[t] /\ r.state = "none"
  /\ p # None /\ c # None => p = c.items
  /\ p # None /\ s # "none" => c # None
  /\ s = "running" => p = None /\ c # None /\ r.state = "none"
  /\ r.state = "running" => c # None
  /\ r.items \subseteq Items[t]

TransfersSound ==
  \A t \in Transfer : TransferSound(t, checkpoint[t], prepared[t], prep[t], receipt[t])

\* An export is of a complete receive whose items it has placed or has yet to place,
\* and what it placed is in the folder as long as it may fail.
ExportSound ==
  export # None =>
    /\ receipt[export.of].state = "complete"
    /\ export.at = "rename" =>
         /\ export.left \cup export.committed = receipt[export.of].items
         /\ \A n \in export.committed : folder[n] = export.of

\* A request to burn a note was taken out of the memory.
BurnSound == burn.requests = {} \/ (~burn.held /\ \E r \in Retry : burn.requests = {r})

ReceiveInv == ReceiveTyped /\ TransfersSound /\ ExportSound /\ BurnSound

\* The steps that touch the checkpoint, the preview and the rows of one transfer, which
\* is not the one being exported, keep the invariant.
LEMMA ReceiveOne ==
  ASSUME ReceiveInv, NEW t \in Transfer, NEW c \in Checkpoints \cup {None}, NEW p \in (SUBSET Receiving!Name) \cup {None},
         NEW s \in {"none", "running", "ended"}, NEW r \in Receipts,
         TransferSound(t, c, p, s, r), export # None => export.of # t,
         checkpoint' = [checkpoint EXCEPT ![t] = c], prepared' = [prepared EXCEPT ![t] = p],
         prep' = [prep EXCEPT ![t] = s], receipt' = [receipt EXCEPT ![t] = r],
         root' \subseteq Transfer, journal' \subseteq Transfer, exported' \subseteq Transfer,
         folder' = folder, export' = export, burn' = burn
  PROVE  ReceiveInv'
  <1>1. ReceiveTyped'
    BY DEF ReceiveInv, ReceiveTyped
  <1>2. TransfersSound'
    BY DEF ReceiveInv, ReceiveTyped, TransfersSound
  <1>3. ExportSound'
    <2>1. export # None => export.of \in Transfer
      BY DEF ReceiveInv, ReceiveTyped, Exports
    <2> QED
      BY <2>1 DEF ReceiveInv, ReceiveTyped, ExportSound
  <1>4. BurnSound'
    BY DEF ReceiveInv, BurnSound
  <1> QED
    BY <1>1, <1>2, <1>3, <1>4 DEF ReceiveInv

\* The items of a transfer are names of files.
LEMMA ItemsNamed ==
  ASSUME NEW t \in Transfer
  PROVE  Items[t] \subseteq Receiving!Name
  BY DEF Receiving!Name

\* Rows as the steps write them.
LEMMA RowsTyped ==
  ASSUME NEW s \in {"none", "running", "paused", "failed", "complete"},
         NEW e \in {"none", "awaiting", "failed", "exported"}, NEW items \in SUBSET Receiving!Name
  PROVE  /\ Receiving!RowOf(s, e, items) \in Receipts
         /\ Receiving!RowOf(s, e, items).state = s
         /\ Receiving!RowOf(s, e, items).export = e
         /\ Receiving!RowOf(s, e, items).items = items
  BY DEF Receiving!RowOf, Receipts

\* Preparing, choosing, downloading and discarding a receive.
LEMMA ReceiveMoves ==
  ASSUME ReceiveInv, NEW t \in Transfer,
         \/ Receiving!Prepare(t) \/ (\E read \in BOOLEAN : Receiving!Prepared(t, read)) \/ Receiving!StartPrepared(t)
         \/ Receiving!Complete(t) \/ (\E state \in {"paused", "failed"} : Receiving!Stop(t, state))
         \/ Receiving!Resume(t) \/ Receiving!Discard(t) \/ Receiving!DiscardPreparation(t)
         \/ \E items \in (SUBSET Items[t]) \ {{}} : Receiving!SelectItems(t, items)
  PROVE  ReceiveInv'
  <1> DEFINE c == checkpoint[t]
             p == prepared[t]
             s == prep[t]
             r == receipt[t]
  <1>1. /\ c \in Checkpoints \cup {None} /\ p \in (SUBSET Receiving!Name) \cup {None}
        /\ s \in {"none", "running", "ended"} /\ r \in Receipts /\ TransferSound(t, c, p, s, r)
    BY DEF ReceiveInv, ReceiveTyped, TransfersSound
  <1>2. /\ checkpoint = [checkpoint EXCEPT ![t] = c] /\ prepared = [prepared EXCEPT ![t] = p]
        /\ prep = [prep EXCEPT ![t] = s] /\ receipt = [receipt EXCEPT ![t] = r]
        /\ root \subseteq Transfer /\ journal \subseteq Transfer /\ exported \subseteq Transfer
    BY DEF ReceiveInv, ReceiveTyped
  <1>3. export # None /\ export.of = t => r.state = "complete"
    BY DEF ReceiveInv, ExportSound
  <1>5. Receiving!NoRow \in Receipts /\ Receiving!NoRow.state = "none" /\ Receiving!NoRow.items = {}
    BY RowsTyped DEF Receiving!NoRow
  <1>6. None \notin Checkpoints /\ None \notin SUBSET Receiving!Name /\ Items[t] \subseteq Receiving!Name
    BY ItemsNamed, ApplicationsAssumption DEF ReceiveConstants
  <1> HIDE DEF c, p, s, r
  <1>a. CASE Receiving!Prepare(t)
    <2> DEFINE d == Receiving!Entry("prepared", Items[t])
    <2>1. d \in Checkpoints /\ d.items = Items[t]
      BY <1>6 DEF Receiving!Entry, Checkpoints
    <2>2. checkpoint' = [checkpoint EXCEPT ![t] = d] /\ prep' = [prep EXCEPT ![t] = "running"]
      BY <1>a DEF Receiving!Prepare
    <2>3. p = None /\ r = Receiving!NoRow /\ export = None /\ UNCHANGED <<prepared, receipt, root, journal, exported, folder, export, burn>>
      BY <1>a DEF Receiving!Prepare, Receiving!Fresh, Receiving!Idle, p, r
    <2> HIDE DEF d
    <2>4. TransferSound(t, d, p, "running", r)
      BY <1>1, <1>5, <1>6, <2>1, <2>3 DEF TransferSound
    <2> QED
      BY <1>1, <1>2, <2>1, <2>2, <2>3, <2>4, ReceiveOne
  <1>b. ASSUME NEW read \in BOOLEAN, Receiving!Prepared(t, read) PROVE ReceiveInv'
    <2>1. PICK q \in {c.items, None} :
            /\ s = "running" /\ prepared' = [prepared EXCEPT ![t] = q] /\ prep' = [prep EXCEPT ![t] = "ended"]
            /\ UNCHANGED <<checkpoint, receipt, root, journal, exported, folder, export, burn>>
      BY <1>b DEF Receiving!Prepared, c, s
    <2>2. c # None /\ r.state = "none"
      BY <1>1, <2>1 DEF TransferSound
    <2>3. q \in (SUBSET Receiving!Name) \cup {None}
      BY <1>1, <2>2 DEF Checkpoints
    <2>4. TransferSound(t, c, q, "ended", r)
      BY <1>1, <2>1, <2>2 DEF TransferSound
    <2>5. export # None => export.of # t
      BY <1>3, <2>2
    <2> QED
      BY <1>1, <1>2, <2>1, <2>3, <2>4, <2>5, ReceiveOne
  <1>c. CASE Receiving!StartPrepared(t)
    <2>1. /\ p # None /\ export = None /\ prepared' = [prepared EXCEPT ![t] = None]
          /\ UNCHANGED <<prep, journal, exported, folder, export, burn>>
      BY <1>c DEF Receiving!StartPrepared, Receiving!Idle, p
    <2>a. s # "running"
      BY <1>1, <2>1 DEF TransferSound
    <2>2. CASE UNCHANGED <<checkpoint, receipt, root>>
      <3>1. TransferSound(t, c, None, s, r)
        BY <1>1, <2>a DEF TransferSound
      <3>2. /\ checkpoint' = [checkpoint EXCEPT ![t] = c] /\ prep' = [prep EXCEPT ![t] = s]
            /\ receipt' = [receipt EXCEPT ![t] = r]
            /\ root' \subseteq Transfer /\ journal' \subseteq Transfer /\ exported' \subseteq Transfer
        BY <1>2, <2>1, <2>2
      <3> QED
        BY <1>1, <2>1, <3>1, <3>2, ReceiveOne
    <2>3. CASE ~UNCHANGED <<checkpoint, receipt, root>>
      <3> DEFINE d == [c EXCEPT !.state = "running"]
                 q == Receiving!RowOf("running", "none", {})
      <3>1. /\ c # None /\ checkpoint' = [checkpoint EXCEPT ![t] = d]
            /\ receipt' = [receipt EXCEPT ![t] = q] /\ root' = root \cup {t}
        BY <1>c, <2>3 DEF Receiving!StartPrepared, c
      <3>2. d \in Checkpoints /\ d.items = c.items
        BY <1>1, <3>1 DEF Checkpoints
      <3>3. q \in Receipts /\ q.state = "running" /\ q.items = {}
        BY RowsTyped
      <3> HIDE DEF d, q
      <3>4. TransferSound(t, d, None, s, q)
        BY <1>1, <1>6, <2>a, <3>1, <3>2, <3>3 DEF TransferSound
      <3> QED
        BY <1>1, <1>2, <2>1, <3>1, <3>2, <3>3, <3>4, ReceiveOne
    <2> QED
      BY <2>2, <2>3
  <1>d. CASE Receiving!Complete(t) \/ Receiving!Resume(t)
    <2>1. PICK x \in {"running", "complete"}, e \in {"none", "awaiting"}, items \in {{}, c.items} :
            /\ r.state \in {"running", "paused"} /\ (r.state = "paused" => c # None)
            /\ checkpoint' = [checkpoint EXCEPT ![t] = [c EXCEPT !.state = x]]
            /\ receipt' = [receipt EXCEPT ![t] = Receiving!RowOf(x, e, items)]
            /\ UNCHANGED <<prepared, prep, root, journal, exported, folder, export, burn>>
      BY <1>d DEF Receiving!Complete, Receiving!Resume, c, r
    <2> DEFINE d == [c EXCEPT !.state = x]
               q == Receiving!RowOf(x, e, items)
    <2>2. c # None /\ p = None /\ s # "running"
      BY <1>1, <2>1 DEF TransferSound
    <2>3. d \in Checkpoints /\ d.items = c.items /\ items \in SUBSET Receiving!Name
      BY <1>1, <2>2 DEF Checkpoints
    <2>4. q \in Receipts /\ q.items = items
      BY <2>3, RowsTyped
    <2>5. checkpoint' = [checkpoint EXCEPT ![t] = d] /\ receipt' = [receipt EXCEPT ![t] = q]
      BY <2>1
    <2> HIDE DEF d, q
    <2>6. TransferSound(t, d, p, s, q)
      BY <1>1, <1>6, <2>2, <2>3, <2>4 DEF TransferSound
    <2>7. export # None => export.of # t
      BY <1>3, <2>1
    <2>8. /\ prepared' = [prepared EXCEPT ![t] = p] /\ prep' = [prep EXCEPT ![t] = s]
          /\ root' \subseteq Transfer /\ journal' \subseteq Transfer /\ exported' \subseteq Transfer
          /\ folder' = folder /\ export' = export /\ burn' = burn
      BY <1>2, <2>1
    <2> QED
      BY <1>1, <2>3, <2>4, <2>5, <2>6, <2>7, <2>8, ReceiveOne
  <1>e. ASSUME NEW state \in {"paused", "failed"}, Receiving!Stop(t, state) PROVE ReceiveInv'
    <2> DEFINE q == Receiving!RowOf(state, "none", {})
    <2>1. /\ r.state = "running" /\ receipt' = [receipt EXCEPT ![t] = q]
          /\ UNCHANGED <<checkpoint, prepared, prep, root, journal, exported, folder, export, burn>>
      BY <1>e DEF Receiving!Stop, r
    <2>2. q \in Receipts /\ q.items = {} /\ q.state = state
      BY RowsTyped
    <2> HIDE DEF q
    <2>3. TransferSound(t, c, p, s, q)
      BY <1>1, <2>1, <2>2 DEF TransferSound
    <2>4. /\ checkpoint' = [checkpoint EXCEPT ![t] = c] /\ prepared' = [prepared EXCEPT ![t] = p]
          /\ prep' = [prep EXCEPT ![t] = s]
          /\ root' \subseteq Transfer /\ journal' \subseteq Transfer /\ exported' \subseteq Transfer
      BY <1>2, <2>1
    <2> QED
      BY <1>1, <1>3, <2>1, <2>2, <2>3, <2>4, ReceiveOne
  <1>f. CASE Receiving!Discard(t)
    <2>1. /\ r.state \in {"paused", "failed", "complete"} /\ export = None
          /\ checkpoint' = [checkpoint EXCEPT ![t] = None] /\ receipt' = [receipt EXCEPT ![t] = Receiving!NoRow]
          /\ journal' = journal \ {t} /\ exported' \in {exported, journal'}
          /\ UNCHANGED <<prepared, prep, root, folder, export, burn>>
      BY <1>f DEF Receiving!Discard, Receiving!Discarded, Receiving!Idle, r
    <2>2. TransferSound(t, None, p, s, Receiving!NoRow)
      BY <1>1, <1>5, <2>1 DEF TransferSound
    <2>3. journal' \subseteq Transfer /\ exported' \subseteq Transfer
      BY <1>2, <2>1
    <2> QED
      BY <1>1, <1>2, <1>5, <2>1, <2>2, <2>3, ReceiveOne
  <1>h. CASE Receiving!DiscardPreparation(t)
    <2>1. /\ r.state # "running" /\ export = None
          /\ checkpoint' = [checkpoint EXCEPT ![t] = None] /\ prep' = [prep EXCEPT ![t] = "none"]
          /\ journal' = journal \ {t} /\ exported' \in {exported, journal'}
          /\ UNCHANGED <<prepared, receipt, root, folder, export, burn>>
      BY <1>h DEF Receiving!DiscardPreparation, Receiving!Discarded, Receiving!Idle, r
    <2>2. TransferSound(t, None, p, "none", r)
      BY <1>1, <2>1 DEF TransferSound
    <2>3. journal' \subseteq Transfer /\ exported' \subseteq Transfer
      BY <1>2, <2>1
    <2> QED
      BY <1>1, <1>2, <2>1, <2>2, <2>3, ReceiveOne
  <1>g. CASE \E items \in (SUBSET Items[t]) \ {{}} : Receiving!SelectItems(t, items)
    <2> PICK items \in (SUBSET Items[t]) \ {{}} : Receiving!SelectItems(t, items)
      BY <1>g
    <2> DEFINE d == Receiving!Entry("selected", items)
    <2>1. /\ p # None /\ c # None /\ export = None /\ items \subseteq p
          /\ checkpoint' = [checkpoint EXCEPT ![t] = d] /\ prepared' = [prepared EXCEPT ![t] = p \cap items]
          /\ UNCHANGED <<prep, receipt, root, journal, exported, folder, export, burn>>
      BY <1>2 DEF Receiving!SelectItems, Receiving!Idle, c, p, ReceiveInv, ReceiveTyped
    <2>2. d \in Checkpoints /\ d.items = items
      BY <1>6 DEF Receiving!Entry, Checkpoints
    <2> HIDE DEF d
    <2>3. p \cap items = items /\ items \in SUBSET Receiving!Name
      BY <1>6, <2>1
    <2>4. TransferSound(t, d, items, s, r)
      BY <1>1, <1>6, <2>1, <2>2 DEF TransferSound
    <2>5. /\ checkpoint' = [checkpoint EXCEPT ![t] = d] /\ prepared' = [prepared EXCEPT ![t] = items]
          /\ prep' = [prep EXCEPT ![t] = s] /\ receipt' = [receipt EXCEPT ![t] = r]
          /\ root' \subseteq Transfer /\ journal' \subseteq Transfer /\ exported' \subseteq Transfer
          /\ export = None /\ folder' = folder /\ export' = export /\ burn' = burn
      BY <1>2, <2>1, <2>3
    <2>6. d \in Checkpoints \cup {None} /\ items \in (SUBSET Receiving!Name) \cup {None}
      BY <2>2, <2>3
    <2> QED
      BY <1>1, <2>4, <2>5, <2>6, ReceiveOne
  <1> QED
    BY <1>a, <1>b, <1>c, <1>d, <1>e, <1>f, <1>g, <1>h

\* The steps of an export, and what others do to the folder.
LEMMA ExportMoves ==
  ASSUME ReceiveInv,
         \/ \E t \in Transfer : Receiving!StartExport(t)
         \/ \E n \in Receiving!Name : Receiving!RenameStaged(n) \/ Receiving!PutForeign(n) \/ Receiving!TakeAway(n)
         \/ Receiving!ExportFails \/ Receiving!CommitExport \/ Receiving!SaveJournal
  PROVE  ReceiveInv'
  <1> DEFINE Same(u) == receipt'[u].state = receipt[u].state /\ receipt'[u].items = receipt[u].items
  <1>1. checkpoint' = checkpoint /\ prepared' = prepared /\ prep' = prep /\ root' = root /\ burn' = burn
    BY DEF Receiving!StartExport, Receiving!RenameStaged, Receiving!PutForeign, Receiving!TakeAway, Receiving!ExportFails,
       Receiving!CommitExport, Receiving!SaveJournal
  <1>2. BurnSound'
    BY <1>1 DEF ReceiveInv, BurnSound
  <1>3. None \notin Transfer \cup {Foreign} /\ None \notin Exports
    BY ApplicationsAssumption DEF ReceiveConstants
  <1>4. export # None => export.of \in Transfer /\ export \in Exports
    BY DEF ReceiveInv, ReceiveTyped, Exports
  <1>5. \A t \in Transfer, e \in {"failed", "exported"} :
          receipt' = [receipt EXCEPT ![t].export = e] =>
            /\ receipt' \in [Transfer -> Receipts]
            /\ \A u \in Transfer : Same(u)
    BY DEF ReceiveInv, ReceiveTyped, Receipts
  <1>6. receipt' \in [Transfer -> Receipts] /\ (\A u \in Transfer : Same(u)) => TransfersSound'
    BY <1>1 DEF ReceiveInv, TransfersSound, TransferSound
  <1>7. receipt' = receipt => receipt' \in [Transfer -> Receipts] /\ \A u \in Transfer : Same(u)
    BY DEF ReceiveInv, ReceiveTyped
  <1>a. CASE \E t \in Transfer : Receiving!StartExport(t)
    <2> PICK t \in Transfer : Receiving!StartExport(t)
      BY <1>a
    <2>1. receipt[t].state = "complete" /\ UNCHANGED <<journal, exported, folder>> /\ export = None
      BY DEF Receiving!StartExport, Receiving!MayExport, Receiving!Idle
    <2>2. receipt[t].items \subseteq Receiving!Name
      BY DEF ReceiveInv, ReceiveTyped, Receipts
    <2> DEFINE x == [of |-> t, left |-> receipt[t].items, committed |-> {}, at |-> "rename"]
    <2>3. x \in Exports /\ x.of = t /\ x.left = receipt[t].items /\ x.committed = {} /\ x.at = "rename"
      BY <2>2 DEF Exports
    <2>4. (export' = x /\ receipt' = receipt) \/ (export' = export /\ receipt' = [receipt EXCEPT ![t].export = "failed"])
      BY DEF Receiving!StartExport
    <2> HIDE DEF x
    <2>5. receipt' \in [Transfer -> Receipts] /\ \A u \in Transfer : Same(u)
      BY <1>5, <1>7, <2>4
    <2>6. ExportSound'
      BY <1>1, <2>1, <2>3, <2>4, <2>5 DEF ExportSound
    <2>7. ReceiveTyped'
      BY <1>1, <2>1, <2>3, <2>4, <2>5 DEF ReceiveInv, ReceiveTyped
    <2> QED
      BY <1>2, <1>6, <2>5, <2>6, <2>7 DEF ReceiveInv
  <1>b. CASE \E n \in Receiving!Name : Receiving!RenameStaged(n)
    <2> PICK n \in Receiving!Name : Receiving!RenameStaged(n)
      BY <1>b
    <2> DEFINE x == [export EXCEPT !.left = @ \ {n}, !.committed = @ \cup {n}]
    <2>1. /\ export # None /\ export.at = "rename" /\ n \in export.left /\ folder' = [folder EXCEPT ![n] = export.of]
          /\ export' = x /\ UNCHANGED <<receipt, journal, exported>>
      BY DEF Receiving!RenameStaged
    <2>2. /\ x \in Exports /\ x.of = export.of /\ x.at = "rename" /\ x.left = export.left \ {n}
          /\ x.committed = export.committed \cup {n} /\ export.committed \subseteq Receiving!Name
      BY <1>4, <2>1 DEF Exports
    <2> HIDE DEF x
    <2>3. folder' \in [Receiving!Name -> Transfer \cup {None, Foreign}]
      BY <1>4, <2>1 DEF ReceiveInv, ReceiveTyped
    <2>4. x.left \cup x.committed = receipt[x.of].items
      BY <2>1, <2>2 DEF ReceiveInv, ExportSound
    <2>5. \A m \in x.committed : folder'[m] = x.of
      BY <1>4, <2>1, <2>2 DEF ReceiveInv, ReceiveTyped, ExportSound
    <2>6. ExportSound'
      BY <1>1, <2>1, <2>2, <2>4, <2>5 DEF ReceiveInv, ExportSound
    <2>7. ReceiveTyped'
      BY <1>1, <2>1, <2>2, <2>3 DEF ReceiveInv, ReceiveTyped
    <2> QED
      BY <1>2, <1>6, <1>7, <2>1, <2>6, <2>7 DEF ReceiveInv
  <1>c. CASE \E n \in Receiving!Name : Receiving!PutForeign(n) \/ Receiving!TakeAway(n)
    <2> PICK n \in Receiving!Name : Receiving!PutForeign(n) \/ Receiving!TakeAway(n)
      BY <1>c
    <2>1. UNCHANGED <<receipt, journal, exported, export>>
      BY DEF Receiving!PutForeign, Receiving!TakeAway
    <2>2. folder' \in [Receiving!Name -> Transfer \cup {None, Foreign}]
      BY DEF Receiving!PutForeign, Receiving!TakeAway, ReceiveInv, ReceiveTyped
    <2>3. export # None =>
            /\ export.committed \subseteq Receiving!Name
            /\ \A m \in export.committed : folder[m] = export.of => folder'[m] = folder[m]
      BY <1>3, <1>4 DEF Receiving!PutForeign, Receiving!TakeAway, Receiving!Idle, ReceiveInv, ReceiveTyped, Exports
    <2>4. ExportSound'
      BY <1>1, <2>1, <2>3 DEF ReceiveInv, ExportSound
    <2>5. ReceiveTyped'
      BY <1>1, <2>1, <2>2 DEF ReceiveInv, ReceiveTyped
    <2> QED
      BY <1>2, <1>6, <1>7, <2>1, <2>4, <2>5 DEF ReceiveInv
  <1>d. CASE Receiving!ExportFails
    <2>1. PICK removed \in SUBSET export.committed :
          /\ export # None /\ folder' = [n \in Receiving!Name |-> IF n \in removed THEN None ELSE folder[n]]
          /\ receipt' = [receipt EXCEPT ![export.of].export = "failed"] /\ export' = None /\ UNCHANGED <<journal, exported>>
      BY <1>d DEF Receiving!ExportFails
    <2>2. receipt' \in [Transfer -> Receipts] /\ \A u \in Transfer : Same(u)
      BY <1>4, <1>5, <2>1
    <2>3. ReceiveTyped'
      BY <1>1, <2>1, <2>2 DEF ReceiveInv, ReceiveTyped
    <2> QED
      BY <1>2, <1>6, <2>1, <2>2, <2>3 DEF ReceiveInv, ExportSound
  <1>e. CASE Receiving!CommitExport
    <2> DEFINE x == [export EXCEPT !.at = "journal"]
    <2>1. /\ export # None /\ receipt' = [receipt EXCEPT ![export.of].export = "exported"]
          /\ journal' = journal \cup {export.of} /\ export' = x /\ UNCHANGED <<exported, folder>>
      BY <1>e DEF Receiving!CommitExport
    <2>2. x \in Exports /\ x.of = export.of /\ x.at = "journal"
      BY <1>4, <2>1 DEF Exports
    <2> HIDE DEF x
    <2>3. receipt' \in [Transfer -> Receipts] /\ \A u \in Transfer : Same(u)
      BY <1>4, <1>5, <2>1
    <2>4. ReceiveTyped'
      BY <1>1, <1>4, <2>1, <2>2, <2>3 DEF ReceiveInv, ReceiveTyped
    <2>5. ExportSound'
      BY <1>4, <2>1, <2>2, <2>3 DEF ReceiveInv, ExportSound
    <2> QED
      BY <1>2, <1>6, <2>3, <2>4, <2>5 DEF ReceiveInv
  <1>f. CASE Receiving!SaveJournal
    <2>1. exported' \in {exported, journal} /\ export' = None /\ UNCHANGED <<receipt, journal, folder>>
      BY <1>f DEF Receiving!SaveJournal
    <2>2. ReceiveTyped'
      BY <1>1, <2>1 DEF ReceiveInv, ReceiveTyped
    <2> QED
      BY <1>2, <1>6, <1>7, <2>1, <2>2 DEF ReceiveInv, ExportSound
  <1> QED
    BY <1>a, <1>b, <1>c, <1>d, <1>e, <1>f

\* The row that a checkpoint on disk gets: of a download that does not run, and with
\* the items of the checkpoint, which are all in the folder when it counts as exported.
LEMMA RecoveredRow ==
  ASSUME ReceiveInv, NEW t \in Transfer
  PROVE  /\ Receiving!Recovered(t) \in Receipts /\ Receiving!Recovered(t).state # "running"
         /\ Receiving!Recovered(t).items \subseteq Items[t]
         /\ Receiving!Recovered(t).export = "exported" =>
              Receiving!Present(t) /\ Receiving!Recovered(t).items = checkpoint[t].items
  <1>1. checkpoint[t] = None \/ (checkpoint[t].items \in SUBSET Receiving!Name /\ checkpoint[t].items \subseteq Items[t])
    BY DEF ReceiveInv, ReceiveTyped, TransfersSound, TransferSound, Checkpoints
  <1> QED
    BY <1>1 DEF Receiving!Recovered, Receiving!RowOf, Receiving!NoRow, Receipts

\* The program ends and starts again.
LEMMA ReceiveRestarts ==
  ASSUME ReceiveInv, Receiving!Restart
  PROVE  ReceiveInv'
  <1>1. /\ checkpoint' = checkpoint /\ exported' = exported /\ folder' = folder /\ journal' = exported /\ export' = None
        /\ receipt' = [t \in Transfer |-> Receiving!Recovered(t)] /\ prepared' = [t \in Transfer |-> None]
        /\ prep' = [t \in Transfer |-> "none"]
        /\ root' \subseteq Transfer /\ burn' = [held |-> FALSE, offered |-> FALSE, requests |-> {}]
    BY DEF Receiving!Restart
  <1>2. receipt' \in [Transfer -> Receipts]
    BY <1>1, RecoveredRow
  <1>3. ReceiveTyped'
    BY <1>1, <1>2 DEF ReceiveInv, ReceiveTyped
  <1>4. TransfersSound'
    BY <1>1, RecoveredRow DEF ReceiveInv, TransfersSound, TransferSound
  <1> QED
    BY <1>1, <1>3, <1>4 DEF ReceiveInv, ExportSound, BurnSound

\* A note is opened, its burn requested and answered.
LEMMA BurnMoves ==
  ASSUME ReceiveInv,
         Receiving!OpenNote \/ \E r \in Retry : Receiving!TakeBurn(r) \/ Receiving!BurnAnswered(r)
  PROVE  ReceiveInv'
  <1>1. UNCHANGED <<checkpoint, prepared, prep, receipt, root, journal, exported, folder, export>>
    BY DEF Receiving!OpenNote, Receiving!TakeBurn, Receiving!BurnAnswered
  <1>2. burn \in [held : BOOLEAN, offered : BOOLEAN, requests : SUBSET Retry]
    BY DEF ReceiveInv, ReceiveTyped
  <1>3. burn' \in [held : BOOLEAN, offered : BOOLEAN, requests : SUBSET Retry] /\ BurnSound'
    <2>1. CASE Receiving!OpenNote
      BY <1>2, <2>1 DEF Receiving!OpenNote, BurnSound
    <2>2. CASE \E r \in Retry : Receiving!TakeBurn(r)
      BY <1>2, <2>2 DEF Receiving!TakeBurn, BurnSound, ReceiveInv
    <2>3. CASE \E r \in Retry : Receiving!BurnAnswered(r)
      <3>1. PICK r \in Retry, ok \in BOOLEAN :
              r \in burn.requests /\ burn' = [burn EXCEPT !.requests = @ \ {r}, !.offered = @ /\ ~ok]
        BY <2>3 DEF Receiving!BurnAnswered
      <3>2. burn' \in [held : BOOLEAN, offered : BOOLEAN, requests : SUBSET Retry] /\ burn'.requests = burn.requests \ {r}
        BY <1>2, <3>1
      <3>3. burn'.requests = {}
        BY <3>1, <3>2 DEF BurnSound, ReceiveInv
      <3> QED
        BY <3>2, <3>3 DEF BurnSound
    <2> QED
      BY <2>1, <2>2, <2>3
  <1>4. ReceiveTyped'
    BY <1>1, <1>3 DEF ReceiveInv, ReceiveTyped
  <1>5. TransfersSound' /\ ExportSound'
    BY <1>1 DEF ReceiveInv, TransfersSound, ExportSound
  <1> QED
    BY <1>3, <1>4, <1>5 DEF ReceiveInv

\* A transfer becomes exported by a step only with every chosen file in the folder.
LEMMA ExportSteps ==
  ASSUME ReceiveInv, Receiving!Next
  PROVE  Receiving!ExportedCompleteStep
  <1>1. None \notin Transfer
    BY ApplicationsAssumption DEF ReceiveConstants
  <1>2. receipt \in [Transfer -> Receipts] /\ (export # None => export \in Exports /\ export.of \in Transfer)
    BY DEF ReceiveInv, ReceiveTyped, Exports
  <1>a. CASE Receiving!CommitExport
    <2>1. /\ export # None /\ export.at = "rename" /\ export.left = {} /\ folder' = folder
          /\ receipt' = [receipt EXCEPT ![export.of].export = "exported"]
      BY <1>a DEF Receiving!CommitExport
    <2>2. \A n \in receipt[export.of].items : folder[n] = export.of
      BY <2>1 DEF ReceiveInv, ExportSound
    <2>3. receipt'[export.of].items = receipt[export.of].items /\ \A t \in Transfer \ {export.of} : receipt'[t] = receipt[t]
      BY <1>2, <2>1 DEF Receipts
    <2> QED
      BY <1>1, <1>2, <2>1, <2>2, <2>3 DEF Receiving!ExportedCompleteStep
  <1>b. CASE Receiving!Restart
    <2>1. receipt' = [t \in Transfer |-> Receiving!Recovered(t)] /\ folder' = folder /\ export' = None
      BY <1>b DEF Receiving!Restart
    <2>2. \A t \in Transfer :
            receipt'[t].export = "exported" => Receiving!Present(t) /\ receipt'[t].items = checkpoint[t].items
      BY <2>1, RecoveredRow
    <2> QED
      BY <2>1, <2>2 DEF Receiving!ExportedCompleteStep, Receiving!Present
  <1>c. CASE Receiving!ExportFails
    <2>1. export # None /\ receipt' = [receipt EXCEPT ![export.of].export = "failed"]
      BY <1>c DEF Receiving!ExportFails
    <2>2. \A t \in Transfer : receipt'[t].export = "exported" => receipt[t].export = "exported"
      BY <1>2, <2>1 DEF Receipts
    <2> QED
      BY <2>2 DEF Receiving!ExportedCompleteStep
  <1>d. CASE \E t \in Transfer : Receiving!StartExport(t)
    <2> PICK t \in Transfer : Receiving!StartExport(t)
      BY <1>d
    <2>1. receipt' = receipt \/ receipt' = [receipt EXCEPT ![t].export = "failed"]
      BY DEF Receiving!StartExport
    <2>2. \A u \in Transfer : receipt'[u].export = "exported" => receipt[u].export = "exported"
      BY <1>2, <2>1 DEF Receipts
    <2> QED
      BY <2>2 DEF Receiving!ExportedCompleteStep
  <1>e. CASE UNCHANGED receipt
    BY <1>e DEF Receiving!ExportedCompleteStep
  <1>f. ASSUME NEW t \in Transfer,
               \/ Receiving!StartPrepared(t) \/ Receiving!Complete(t) \/ Receiving!Resume(t) \/ Receiving!Discard(t)
               \/ \E state \in {"paused", "failed"} : Receiving!Stop(t, state)
        PROVE  Receiving!ExportedCompleteStep
    <2>1. receipt' = receipt \/ \E s \in {"none", "running", "paused", "failed", "complete"}, e \in {"none", "awaiting"},
                                  items \in {{}, checkpoint[t].items} :
            receipt' = [receipt EXCEPT ![t] = Receiving!RowOf(s, e, items)]
      BY <1>f DEF Receiving!StartPrepared, Receiving!Complete, Receiving!Stop, Receiving!Resume, Receiving!Discard,
         Receiving!NoRow
    <2>2. \A u \in Transfer : receipt'[u] = receipt[u] \/ receipt'[u].export \in {"none", "awaiting"}
      BY <1>2, <2>1 DEF Receiving!RowOf
    <2> QED
      BY <2>2 DEF Receiving!ExportedCompleteStep
  <1>g. ASSUME NEW t \in Transfer,
               \/ Receiving!Prepare(t) \/ (\E read \in BOOLEAN : Receiving!Prepared(t, read)) \/ Receiving!DiscardPreparation(t)
               \/ \E items \in (SUBSET Items[t]) \ {{}} : Receiving!SelectItems(t, items)
        PROVE  UNCHANGED receipt
    BY <1>g DEF Receiving!Prepare, Receiving!Prepared, Receiving!DiscardPreparation, Receiving!SelectItems
  <1>h. ASSUME NEW n, Receiving!RenameStaged(n) \/ Receiving!PutForeign(n) \/ Receiving!TakeAway(n)
        PROVE  UNCHANGED receipt
    BY <1>h DEF Receiving!RenameStaged, Receiving!PutForeign, Receiving!TakeAway
  <1>i. Receiving!SaveJournal \/ Receiving!OpenNote \/ (\E r \in Retry : Receiving!TakeBurn(r) \/ Receiving!BurnAnswered(r))
          => UNCHANGED receipt
    BY DEF Receiving!SaveJournal, Receiving!OpenNote, Receiving!TakeBurn, Receiving!BurnAnswered
  <1> QED
    BY <1>a, <1>b, <1>c, <1>d, <1>e, <1>f, <1>g, <1>h, <1>i DEF Receiving!Next

\* client.rs of the desktop, for any transfers and items: the preview is the checkpoint's
\* while there is one, a transfer becomes exported only with every chosen file in the
\* folder, and one request at a time burns a note, whatever other programs do to the
\* folder, whichever row is discarded and wherever the program ends.
THEOREM ReceivesAlwaysExported == Receiving!Spec => ReceivesExported
  <1>1. Receiving!Init => ReceiveInv
    BY DEF Receiving!Init, ReceiveInv, ReceiveTyped, TransfersSound, TransferSound, ExportSound, BurnSound,
       Receiving!NoRow, Receiving!RowOf, Receipts
  <1>2. ReceiveInv /\ Receiving!Next => ReceiveInv'
    BY ReceiveMoves, ExportMoves, ReceiveRestarts, BurnMoves DEF Receiving!Next
  <1>3. ReceiveInv /\ UNCHANGED receiveVars => ReceiveInv'
    BY DEF receiveVars, ReceiveInv, ReceiveTyped, TransfersSound, ExportSound, BurnSound
  <1>4. ReceiveInv => Receiving!TypeOK /\ Receiving!PreviewMatchesCheckpoint /\ Receiving!OneBurnRequest
    <2> SUFFICES ASSUME ReceiveInv PROVE Receiving!TypeOK /\ Receiving!PreviewMatchesCheckpoint /\ Receiving!OneBurnRequest
      OBVIOUS
    <2>1. ASSUME NEW t \in Transfer
          PROVE  /\ checkpoint[t] = None \/
                      checkpoint[t] \in [state : {"prepared", "selected", "running", "complete"}, items : SUBSET Items[t]]
                 /\ prepared[t] = None \/ prepared[t] \in SUBSET Items[t]
                 /\ prep[t] \in {"none", "running", "ended"}
                 /\ receipt[t] \in [state : {"none", "running", "paused", "failed", "complete"},
                                    export : {"none", "awaiting", "failed", "exported"}, items : SUBSET Items[t]]
                 /\ prepared[t] # None =>
                      /\ checkpoint[t] # None => prepared[t] = checkpoint[t].items
                      /\ checkpoint[t] = None => prep[t] = "none" /\ receipt[t].state = "none"
      BY DEF ReceiveInv, ReceiveTyped, TransfersSound, TransferSound, Checkpoints, Receipts
    <2>2. Receiving!TypeOK /\ Receiving!PreviewMatchesCheckpoint
      BY <2>1 DEF Receiving!TypeOK, Receiving!PreviewMatchesCheckpoint, ReceiveInv, ReceiveTyped
    <2>3. Receiving!OneBurnRequest
      BY DEF Receiving!OneBurnRequest, ReceiveInv, BurnSound
    <2> QED
      BY <2>2, <2>3
  <1>5. ReceiveInv /\ UNCHANGED receiveVars => Receiving!ExportedCompleteStep
    BY DEF receiveVars, Receiving!ExportedCompleteStep
  <1> QED
    BY <1>1, <1>2, <1>3, <1>4, <1>5, ExportSteps, PTL DEF Receiving!Spec, ReceivesExported, receiveVars, Receiving!vars

(***************************************************************************)
(* DesktopSend: transfers that the desktop starts.                         *)
(***************************************************************************)

\* Every variable has its type.
SendTyped ==
  /\ real \in [Origin -> Policies] /\ holder \in [Origin -> [Username -> Ids]] /\ contacts \in Lists \cup {None}
  /\ config \in Origin /\ client \in Origin /\ policy \in Views /\ signed_in \in BOOLEAN
  /\ draft \in Drafts /\ queue \in Commands \cup {None} /\ sends \in Seq(Sends)

\* A transfer that was started is the one that was asked for.
SendSound(r) ==
  /\ r.under.origin = r.origin
  /\ Sending!Enabled(r.under.of, r.transport)
  /\ r.hours # None => r.hours \in r.under.of.options
  /\ r.asked # None => r.to = r.asked[2]
  /\ r.apart /\ r.remembered => r.shown # "keyed"

\* The command that waits has the number of the account the user chose, and there is
\* room for its transfer.
QueueSound ==
  /\ Len(sends) <= MaxSends
  /\ queue # None => (queue.asked # None => queue.expected = queue.asked[2]) /\ Len(sends) < MaxSends

SendInv == SendTyped /\ QueueSound /\ \A i \in DOMAIN sends : SendSound(sends[i])

\* The choices of the panel leave a draft of its form.
LEMMA PanelMoves ==
  ASSUME SendInv,
         \/ \E u \in Username : Sending!TypeRecipient(u) \/ Sending!ChooseContact(u)
         \/ Sending!TypeRecipient(None)
         \/ \E t \in Transports : Sending!ChooseTransport(t)
         \/ \E h \in Sending!LifetimeChoices : Sending!ChooseLifetime(h)
         \/ Sending!ApplyServerDefault
  PROVE  SendInv'
  <1>1. UNCHANGED <<real, holder, config, client, policy, signed_in, contacts, queue, sends>>
    BY DEF Sending!TypeRecipient, Sending!ChooseContact, Sending!ChooseTransport, Sending!ChooseLifetime,
       Sending!ApplyServerDefault, Sending!Edit
  <1>2. draft \in Drafts /\ policy \in Views /\ contacts \in Lists \cup {None}
    BY DEF SendInv, SendTyped
  <1>3. draft' \in Drafts
    <2>1. CASE \E u \in Username : Sending!TypeRecipient(u)
      BY <1>2, <2>1 DEF Sending!TypeRecipient, Sending!Edit, Drafts
    <2>2. CASE Sending!TypeRecipient(None)
      BY <1>2, <2>2 DEF Sending!TypeRecipient, Sending!Edit, Drafts
    <2>3. CASE \E u \in Username : Sending!ChooseContact(u)
      <3> PICK u \in Username :
            contacts # None /\ draft' = [draft EXCEPT !.recipient = u, !.chosen = <<u, contacts.of[u], contacts.origin>>]
        BY <2>3 DEF Sending!ChooseContact, Sending!Edit
      <3>1. <<u, contacts.of[u], contacts.origin>> \in Username \X Ids \X Origin
        BY <1>2 DEF Lists
      <3> QED
        BY <1>2, <3>1 DEF Drafts
    <2>4. CASE \E t \in Transports : Sending!ChooseTransport(t)
      BY <1>2, <2>4 DEF Sending!ChooseTransport, Sending!Edit, Drafts
    <2>5. CASE \E h \in Sending!LifetimeChoices : Sending!ChooseLifetime(h)
      <3> PICK h \in Sending!LifetimeChoices : draft' = [draft EXCEPT !.hours = h]
        BY <2>5 DEF Sending!ChooseLifetime, Sending!Edit
      <3>1. h \in Hours \cup {None}
        BY <1>2 DEF Sending!LifetimeChoices, Drafts, Views, Hours
      <3> QED
        BY <1>2, <3>1 DEF Drafts
    <2>6. CASE Sending!ApplyServerDefault
      <3>1. policy.of # None => policy.of.default \in Transports
        BY <1>2, ApplicationsAssumption DEF SendConstants, Views
      <3> QED
        BY <1>2, <2>6, <3>1 DEF Sending!ApplyServerDefault, Sending!Edit, Drafts
    <2> QED
      BY <2>1, <2>2, <2>3, <2>4, <2>5, <2>6
  <1> QED
    BY <1>1, <1>3 DEF SendInv, SendTyped, QueueSound

\* What changes in the world and what the worker learns of it.
LEMMA WorldMoves ==
  ASSUME SendInv,
         \/ \E o \in Origin : Sending!ChangeInstance(o) \/ Sending!ReloadSettings(o)
         \/ \E o \in Origin : \E p \in Policies : Sending!SetPolicy(o, p)
         \/ \E o \in Origin : \E u \in Username : Sending!Reregister(o, u)
         \/ \E b \in BOOLEAN : Sending!RefreshPolicy(b) \/ Sending!Login(b)
         \/ \E b \in BOOLEAN : \E going \in BOOLEAN : Sending!RefreshAccount(b, going)
  PROVE  SendInv'
  <1>1. UNCHANGED <<draft, queue, sends>>
    BY DEF Sending!ChangeInstance, Sending!ReloadSettings, Sending!SetPolicy, Sending!Reregister, Sending!RefreshPolicy,
       Sending!RefreshAccount, Sending!Login
  <1>2. /\ real \in [Origin -> Policies] /\ holder \in [Origin -> [Username -> Ids]] /\ contacts \in Lists \cup {None}
        /\ config \in Origin /\ client \in Origin /\ policy \in Views /\ signed_in \in BOOLEAN
    BY DEF SendInv, SendTyped
  <1>3. MaxId \in Nat
    BY ApplicationsAssumption DEF SendConstants
  <1>4. /\ \A o \in Origin : Sending!Unknown(o) \in Views /\ Sending!Listed(o) \subseteq Lists \cup {None}
        /\ \A b \in BOOLEAN : Sending!Refreshed(b) \in Views
    BY <1>2 DEF Sending!Unknown, Sending!Refreshed, Sending!Listed, Views, Lists
  <1>5. /\ real' \in [Origin -> Policies] /\ holder' \in [Origin -> [Username -> Ids]] /\ contacts' \in Lists \cup {None}
        /\ config' \in Origin /\ client' \in Origin /\ policy' \in Views /\ signed_in' \in BOOLEAN
    <2>1. CASE \E o \in Origin : Sending!ChangeInstance(o) \/ Sending!ReloadSettings(o)
      BY <1>2, <1>4, <2>1 DEF Sending!ChangeInstance, Sending!ReloadSettings
    <2>2. CASE \E o \in Origin : \E p \in Policies : Sending!SetPolicy(o, p)
      BY <1>2, <2>2 DEF Sending!SetPolicy
    <2>3. CASE \E o \in Origin : \E u \in Username : Sending!Reregister(o, u)
      BY <1>2, <1>3, <2>3 DEF Sending!Reregister, Ids
    <2>4. CASE \E b \in BOOLEAN : Sending!RefreshPolicy(b)
      BY <1>2, <1>4, <2>4 DEF Sending!RefreshPolicy
    <2>5. CASE \/ \E b \in BOOLEAN : Sending!Login(b)
               \/ \E b \in BOOLEAN : \E going \in BOOLEAN : Sending!RefreshAccount(b, going)
      BY <1>2, <1>4, <2>5 DEF Sending!RefreshAccount, Sending!Login
    <2> QED
      BY <2>1, <2>2, <2>3, <2>4, <2>5
  <1> QED
    BY <1>1, <1>5 DEF SendInv, SendTyped, QueueSound

\* The command that the panel submits.
LEMMA SubmitMoves ==
  ASSUME SendInv, NEW b \in BOOLEAN, Sending!Submit(b)
  PROVE  SendInv'
  <1>1. draft \in Drafts
    BY DEF SendInv, SendTyped
  <1>2. Sending!ChosenAccount \in (Origin \X Ids) \cup {None}
    BY <1>1 DEF Sending!ChosenAccount, Drafts
  <1> DEFINE x == [transport |-> draft.transport, hours |-> draft.hours, recipient |-> draft.recipient,
                   expected |-> Sending!ExpectedRecipient, asked |-> Sending!ChosenAccount, include_key |-> b]
  <1>3. /\ queue' = x /\ Len(sends) < MaxSends
        /\ UNCHANGED <<real, holder, config, client, policy, signed_in, contacts, draft, sends>>
    BY DEF Sending!Submit, Sending!Open
  <1>4. x \in Commands /\ (x.asked # None => x.expected = x.asked[2])
    BY <1>1, <1>2 DEF Sending!ExpectedRecipient, Commands, Drafts
  <1> HIDE DEF x
  <1> QED
    BY <1>3, <1>4 DEF SendInv, SendTyped, QueueSound

\* The worker starts the transfer of the command, or refuses it.
LEMMA StartMoves ==
  ASSUME SendInv, Sending!StartSend
  PROVE  SendInv'
  <1>1. queue # None /\ queue' = None /\ UNCHANGED <<real, holder, config, client, policy, signed_in, contacts, draft>>
    BY DEF Sending!StartSend
  <1>2. /\ queue \in Commands /\ policy \in Views /\ config \in Origin /\ client \in Origin
        /\ holder \in [Origin -> [Username -> Ids]] /\ sends \in Seq(Sends)
        /\ (queue.asked # None => queue.expected = queue.asked[2]) /\ Len(sends) < MaxSends
    BY <1>1 DEF SendInv, SendTyped, QueueSound
  <1>3. CASE sends' = sends
    BY <1>1, <1>3 DEF SendInv, SendTyped, QueueSound
  <1>4. CASE sends' # sends
    <2> DEFINE x == [transport |-> queue.transport, hours |-> queue.hours, to |-> Sending!RecipientOf(queue),
                     asked |-> queue.asked, origin |-> config, under |-> policy, apart |-> ~queue.include_key,
                     remembered |-> TRUE, link |-> None, shown |-> None]
    <2>1. /\ Sending!ValidSendPolicy(queue) /\ (queue.expected = None \/ queue.expected = Sending!RecipientOf(queue))
          /\ sends' = Append(sends, x)
      BY <1>4 DEF Sending!StartSend
    <2>2. Sending!RecipientOf(queue) \in Ids \cup {None}
      BY <1>2 DEF Sending!RecipientOf, Commands
    <2>3. x \in Sends
      BY <1>2, <2>2 DEF Sends, Commands
    <2>4. /\ x.transport = queue.transport /\ x.hours = queue.hours /\ x.to = Sending!RecipientOf(queue) /\ x.asked = queue.asked
          /\ x.origin = config /\ x.under = policy /\ x.shown = None
      OBVIOUS
    <2> HIDE DEF x
    <2>5. SendSound(x)
      BY <1>2, <2>1, <2>4, ApplicationsAssumption DEF SendConstants, SendSound, Sending!ValidSendPolicy, Commands
    <2>6. sends' \in Seq(Sends) /\ Len(sends') = Len(sends) + 1 /\ Len(sends') <= MaxSends
      BY <1>2, <2>1, <2>3, ApplicationsAssumption DEF SendConstants
    <2>7. \A i \in DOMAIN sends' : sends'[i] = x \/ (i \in DOMAIN sends /\ sends'[i] = sends[i])
      BY <1>2, <2>1, <2>3
    <2>8. \A i \in DOMAIN sends' : SendSound(sends'[i])
      BY <2>5, <2>7 DEF SendInv
    <2> QED
      BY <1>1, <2>6, <2>8 DEF SendInv, SendTyped, QueueSound
  <1> QED
    BY <1>3, <1>4

\* The worker rewrites the rows one by one: reports, publications and restarts.
LEMMA RowsRewritten ==
  ASSUME SendInv, NEW g \in [DOMAIN sends -> Sends], \A i \in DOMAIN sends : SendSound(g[i]),
         sends' = g,
         \/ UNCHANGED <<config, client, policy, signed_in, contacts, draft, queue>>
         \/ /\ draft' = Sending!NewDraft /\ queue' = None /\ policy' = Sending!Unknown(config)
            /\ config' = config /\ client' = config /\ signed_in' = FALSE /\ contacts' = None,
         UNCHANGED <<real, holder>>
  PROVE  SendInv'
  <1>1. g \in Seq(Sends) /\ Len(g) = Len(sends) /\ DOMAIN g = DOMAIN sends
    BY DEF SendInv, SendTyped
  <1>2. /\ policy' \in Views /\ draft' \in Drafts /\ queue' \in {queue, None} /\ contacts' \in Lists \cup {None}
        /\ config' \in Origin /\ client' \in Origin
    <2>1. Sending!NewDraft \in Drafts
      BY DEF Sending!NewDraft, Drafts, Transports
    <2>2. \A o \in Origin : Sending!Unknown(o) \in Views
      BY DEF Sending!Unknown, Views
    <2>3. policy \in Views /\ draft \in Drafts /\ contacts \in Lists \cup {None} /\ config \in Origin /\ client \in Origin
      BY DEF SendInv, SendTyped
    <2>4. CASE UNCHANGED <<config, client, policy, signed_in, contacts, draft, queue>>
      BY <2>3, <2>4
    <2>5. CASE /\ draft' = Sending!NewDraft /\ queue' = None /\ policy' = Sending!Unknown(config)
               /\ config' = config /\ client' = config /\ contacts' = None
      BY <2>1, <2>2, <2>3, <2>5
    <2> QED
      BY <2>4, <2>5, Zenon
  <1>3. signed_in' \in BOOLEAN
    BY DEF SendInv, SendTyped
  <1>4. SendTyped'
    BY <1>1, <1>2, <1>3 DEF SendInv, SendTyped
  <1>5. QueueSound' /\ \A i \in DOMAIN sends' : SendSound(sends'[i])
    BY <1>1, <1>2 DEF SendInv, QueueSound
  <1> QED
    BY <1>4, <1>5 DEF SendInv

\* A link is reported, the snapshot published, the program started again.
LEMMA SendRowMoves ==
  ASSUME SendInv, (\E i \in DOMAIN sends : Sending!ShareReady(i)) \/ Sending!Publish \/ Sending!Restart
  PROVE  SendInv'
  <1>1. \A i \in DOMAIN sends : sends[i] \in Sends /\ SendSound(sends[i])
    BY DEF SendInv, SendTyped
  <1>2. None \notin {"keyed", "bare"}
    BY ApplicationsAssumption DEF SendConstants
  <1>3. \A r \in Sends, l \in {None, "keyed", "bare"} :
          /\ [r EXCEPT !.link = l] \in Sends /\ [r EXCEPT !.shown = l] \in Sends
          /\ SendSound(r) => SendSound([r EXCEPT !.link = l])
          /\ SendSound(r) /\ (r.apart /\ r.remembered => l # "keyed") => SendSound([r EXCEPT !.shown = l])
    BY DEF Sends, SendSound
  <1>4. \A r \in Sends : /\ [r EXCEPT !.remembered = FALSE, !.link = "bare", !.shown = None] \in Sends
                         /\ SendSound(r) => SendSound([r EXCEPT !.remembered = FALSE, !.link = "bare", !.shown = None])
    BY <1>2 DEF Sends, SendSound
  <1>5. \A r \in Sends : Sending!Presented(r) \in {None, "keyed", "bare"} /\ (r.apart /\ r.remembered => Sending!Presented(r) # "keyed")
    BY DEF Sends, Sending!Presented
  <1>a. ASSUME NEW i \in DOMAIN sends, Sending!ShareReady(i)
        PROVE  SendInv'
    <2> DEFINE g == [sends EXCEPT ![i].link = "keyed"]
    <2>1. sends' = g /\ UNCHANGED <<real, holder, config, client, policy, signed_in, contacts, draft, queue>>
      BY <1>a DEF Sending!ShareReady
    <2>2. DOMAIN g = DOMAIN sends /\ \A j \in DOMAIN sends : g[j] = IF j = i THEN [sends[i] EXCEPT !.link = "keyed"] ELSE sends[j]
      BY DEF SendInv, SendTyped
    <2>3. g \in [DOMAIN sends -> Sends] /\ \A j \in DOMAIN sends : SendSound(g[j])
      BY <1>1, <1>3, <2>2
    <2> HIDE DEF g
    <2> QED
      BY <2>1, <2>3, RowsRewritten
  <1>b. CASE Sending!Publish
    <2> DEFINE g == [j \in DOMAIN sends |-> [sends[j] EXCEPT !.shown = Sending!Presented(sends[j])]]
    <2>1. sends' = g /\ UNCHANGED <<real, holder, config, client, policy, signed_in, contacts, draft, queue>>
      BY <1>b DEF Sending!Publish
    <2>2. g \in [DOMAIN sends -> Sends] /\ \A j \in DOMAIN sends : SendSound(g[j])
      BY <1>1, <1>3, <1>5
    <2> HIDE DEF g
    <2> QED
      BY <2>1, <2>2, RowsRewritten
  <1>c. CASE Sending!Restart
    <2> DEFINE g == [j \in DOMAIN sends |-> [sends[j] EXCEPT !.remembered = FALSE, !.link = "bare", !.shown = None]]
    <2>1. /\ sends' = g /\ queue' = None /\ policy' = Sending!Unknown(config) /\ draft' = Sending!NewDraft
          /\ client' = config /\ signed_in' = FALSE /\ contacts' = None
          /\ UNCHANGED <<real, holder, config>>
      BY <1>c DEF Sending!Restart
    <2>2. g \in [DOMAIN sends -> Sends] /\ \A j \in DOMAIN sends : SendSound(g[j])
      BY <1>1, <1>4
    <2> HIDE DEF g
    <2> QED
      BY <2>1, <2>2, RowsRewritten
  <1> QED
    BY <1>a, <1>b, <1>c

\* client.rs start_send(), for any servers, policies, user names and drafts: a transfer
\* that was started was allowed by the policy of its own server when that was last known,
\* has a recipient of the number of the contact that was chosen, and shows no key that is
\* to travel apart, whatever the servers, the settings, the accounts and the panel do
\* between the choice and the start.
THEOREM SendsAlwaysAsAsked == Sending!Spec => []SendsAsAsked
  <1>1. Sending!Init => SendInv
    <2> SUFFICES ASSUME Sending!Init PROVE SendInv
      OBVIOUS
    <2>1. draft \in Drafts
      BY DEF Sending!Init, Sending!NewDraft, Drafts, Transports
    <2>2. policy \in Views
      BY DEF Sending!Init, Sending!Unknown, Views
    <2>3. real \in [Origin -> Policies] /\ holder \in [Origin -> [Username -> Ids]] /\ contacts \in Lists \cup {None}
      BY ApplicationsAssumption DEF SendConstants, Sending!Init, Ids
    <2>4. sends \in Seq(Sends) /\ DOMAIN sends = {} /\ Len(sends) = 0
      BY DEF Sending!Init
    <2>5. config \in Origin /\ client \in Origin /\ queue = None /\ signed_in \in BOOLEAN
      BY DEF Sending!Init
    <2> QED
      BY <2>1, <2>2, <2>3, <2>4, <2>5, ApplicationsAssumption DEF SendConstants, SendInv, SendTyped, QueueSound
  <1>2. SendInv /\ Sending!Next => SendInv'
    <2> SUFFICES ASSUME SendInv, Sending!Next PROVE SendInv'
      OBVIOUS
    <2>1. CASE \/ \E o \in Origin : Sending!ChangeInstance(o) \/ Sending!ReloadSettings(o)
               \/ \E o \in Origin : \E p \in Policies : Sending!SetPolicy(o, p)
               \/ \E o \in Origin : \E u \in Username : Sending!Reregister(o, u)
      BY <2>1, WorldMoves
    <2>2. ASSUME NEW u \in Username, Sending!TypeRecipient(u) \/ Sending!ChooseContact(u)
          PROVE  SendInv'
      BY <2>2, PanelMoves
    <2>3. ASSUME NEW t \in {"http", "live"}, Sending!ChooseTransport(t)
          PROVE  SendInv'
      BY <2>3, PanelMoves DEF Transports
    <2>4. CASE \/ Sending!TypeRecipient(None) \/ Sending!ApplyServerDefault
               \/ \E h \in Sending!LifetimeChoices : Sending!ChooseLifetime(h)
      BY <2>4, PanelMoves
    <2>5. ASSUME NEW b \in BOOLEAN, NEW going \in BOOLEAN,
                 Sending!RefreshPolicy(b) \/ Sending!Login(b) \/ Sending!RefreshAccount(b, going)
          PROVE  SendInv'
      BY <2>5, WorldMoves
    <2>6. ASSUME NEW b \in BOOLEAN, Sending!Submit(b)
          PROVE  SendInv'
      BY <2>6, SubmitMoves
    <2>7. CASE Sending!StartSend \/ Sending!Publish \/ Sending!Restart \/ \E i \in DOMAIN sends : Sending!ShareReady(i)
      BY <2>7, StartMoves, SendRowMoves
    <2> QED
      BY <2>1, <2>2, <2>3, <2>4, <2>5, <2>6, <2>7 DEF Sending!Next
  <1>3. SendInv /\ UNCHANGED sendVars => SendInv'
    BY DEF sendVars, SendInv, SendTyped, QueueSound
  <1>4. SendInv => SendsAsAsked
    <2> SUFFICES ASSUME SendInv PROVE SendsAsAsked
      OBVIOUS
    <2>1. Sending!TypeOK
      BY DEF SendInv, SendTyped, QueueSound, Sending!TypeOK, Ids, Views, Lists
    <2>2. \A r \in Sends : r.asked # None => r.asked = <<r.asked[1], r.asked[2]>>
      BY DEF Sends
    <2>3. \A i \in DOMAIN sends : sends[i] \in Sends /\ SendSound(sends[i])
      BY DEF SendInv, SendTyped
    <2>4. Sending!SentAsAsked /\ Sending!KeyKeptApart
      BY <2>2, <2>3 DEF SendSound, Sending!SentAsAsked, Sending!KeyKeptApart
    <2> QED
      BY <2>1, <2>4 DEF SendsAsAsked
  <1> QED
    BY <1>1, <1>2, <1>3, <1>4, PTL DEF Sending!Spec, sendVars, Sending!vars

(***************************************************************************)
(* DesktopAccount: the accounts of the desktop worker.                     *)
(***************************************************************************)

\* What the worker keeps: its client, what the views are shown, its receiver threads.
Desks == [config : Origin, store : Origin, service : Clients \cup {None}, accountId : Owner \cup {None}]
Mates == Origin \X Owner
Snaps == [url : Origin, account : Mates \cup {None}, history : Mates \cup {None}, staged : Mates \cup {None},
          policy : [origin : Origin, availability : {"available", "cached", "unavailable"}]]
Receivers == [origin : Origin, account : Owner, live : BOOLEAN, pc : {"wait", "sweep", "ended"}]

AccountTyped ==
  /\ valid \in SUBSET (Origin \X Owner) /\ receiving \in SUBSET (Origin \X Owner)
  /\ file \in Origin /\ kept \in [Origin -> Desk!Cookie \cup {None}]
  /\ desk \in Desks /\ snap \in Snaps
  /\ threads \in Seq(Receivers) /\ current \in 0..Len(threads) /\ handled \in 0..MaxCommands

\* The history shown, with snapshot sn, is that of an account of the email shown.
HistorySound(sn) == sn.history # None => Desk!SameEmail(sn.history, sn.account)

\* The account shown is that of the client the worker d holds.
AccountSound(d, sn) ==
  (d.service # None /\ sn.account # None) => d.service.cookie # None /\ sn.account = Desk!Of(d.service)

\* A receiver that was not told to stop is the one remembered, of client s's account,
\* whose staged entries are shown.
ReceiverSound(s, sn, ths, cur) ==
  \A i \in DOMAIN ths : ths[i].live =>
    i = cur /\ ths[i].origin = s.origin /\ ths[i].account = s.cookie.account /\ sn.staged = Desk!Of(s)

AccountInv ==
  /\ AccountTyped /\ HistorySound(snap) /\ AccountSound(desk, snap)
  /\ ReceiverSound(Desk!Service, snap, threads, current)

\* A client of a server has its form.
LEMMA ClientForm ==
  ASSUME NEW o \in Origin, NEW c \in Desk!Cookie \cup {None}
  PROVE  /\ Desk!Client(o, c) \in Clients /\ Desk!Client(o, c) # None
         /\ Desk!Client(o, c).origin = o /\ Desk!Client(o, c).cookie = c
  <1>1. Desk!Client(o, c) \in Clients /\ Desk!Client(o, c).origin = o /\ Desk!Client(o, c).cookie = c
    BY DEF Clients, Desk!Client
  <1> QED
    BY <1>1, ApplicationsAssumption DEF AccountConstants

\* The client the worker uses has its form, whether held or made from the record.
LEMMA ServiceForm ==
  ASSUME AccountInv
  PROVE  Desk!Service \in Clients
  BY ClientForm DEF AccountInv, AccountTyped, Desks, Desk!Service

\* An honoured client has a session of an account.
LEMMA HonouredForm ==
  ASSUME NEW s \in Clients, NEW vs, Desk!HonouredBy(s, vs)
  PROVE  /\ s.cookie \in Desk!Cookie /\ s.cookie # None /\ s.cookie.account \in Owner
         /\ Desk!Of(s) \in Mates /\ Desk!Of(s) # None /\ Desk!Of(s)[2] = s.cookie.account
  <1>1. s.cookie \in Desk!Cookie /\ s.cookie # None /\ s.cookie.account \in Owner /\ s.origin \in Origin
    BY DEF Clients, Desk!HonouredBy, Desk!Cookie
  <1>2. Desk!Of(s) \in Mates /\ Desk!Of(s)[2] = s.cookie.account
    BY <1>1 DEF Desk!Of, Mates
  <1> QED
    BY <1>1, <1>2, ApplicationsAssumption DEF AccountConstants, Mates

\* No receiver goes on after the one remembered was told to stop.
LEMMA CancelledForm ==
  ASSUME AccountInv
  PROVE  /\ Desk!Cancelled \in Seq(Receivers) /\ 0 \in 0..Len(Desk!Cancelled)
         /\ \A s, sn : ReceiverSound(s, sn, Desk!Cancelled, 0)
  <1> DEFINE C(i) == IF i = current THEN [threads[i] EXCEPT !.live = FALSE] ELSE threads[i]
  <1>1. threads \in Seq(Receivers) /\ Len(threads) \in Nat /\ DOMAIN threads = 1..Len(threads)
    BY DEF AccountInv, AccountTyped
  <1>2. \A i \in 1..Len(threads) : threads[i] \in Receivers
    BY <1>1
  <1>3. \A i \in 1..Len(threads) : C(i) \in Receivers /\ ~C(i).live
    BY <1>1, <1>2 DEF AccountInv, ReceiverSound, Receivers
  <1>4. Desk!Cancelled = [i \in 1..Len(threads) |-> C(i)]
    BY <1>1 DEF Desk!Cancelled
  <1> HIDE DEF C
  <1>5. Desk!Cancelled \in Seq(Receivers) /\ Len(Desk!Cancelled) = Len(threads)
    BY <1>1, <1>3, <1>4
  <1>6. \A i \in DOMAIN Desk!Cancelled : ~Desk!Cancelled[i].live
    BY <1>3, <1>4
  <1> QED
    BY <1>1, <1>5, <1>6 DEF ReceiverSound

\* What a refreshed policy leaves alone.
LEMMA PolicyForm ==
  ASSUME AccountInv, NEW sn \in Snaps, NEW ok \in BOOLEAN
  PROVE  /\ Desk!Policy(sn, ok) \in Snaps /\ Desk!Policy(sn, ok).account = sn.account
         /\ Desk!Policy(sn, ok).history = sn.history /\ Desk!Policy(sn, ok).staged = sn.staged
  BY DEF AccountInv, AccountTyped, Desks, Snaps, Desk!Policy

\* The history of an account of another email does not stay.
LEMMA SetAccountForm ==
  ASSUME NEW sn \in Snaps, HistorySound(sn), NEW m \in Mates
  PROVE  /\ Desk!SetAccount(sn, m) \in Snaps /\ HistorySound(Desk!SetAccount(sn, m))
         /\ Desk!SetAccount(sn, m).account = m /\ Desk!SetAccount(sn, m).staged = sn.staged
  <1> DEFINE n == Desk!SetAccount(sn, m)
  <1>1. /\ n \in Snaps /\ n.account = m /\ n.staged = sn.staged
        /\ n.history = IF Desk!SameEmail(sn.account, m) THEN sn.history ELSE None
    BY DEF Snaps, Desk!SetAccount
  <1> HIDE DEF n
  <1>2. HistorySound(n)
    BY <1>1 DEF HistorySound, Desk!SameEmail
  <1> QED
    BY <1>1, <1>2 DEF n

\* The receiver started is that of the client it was started for.
LEMMA StartedSound ==
  ASSUME NEW s \in Clients, NEW sn \in Snaps, NEW ths \in Seq(Receivers), NEW cur \in 0..Len(ths),
         ReceiverSound(s, sn, ths, cur), NEW vs, NEW en, Desk!StartReceiver(s, sn, ths, cur, vs, en)
  PROVE  /\ threads' \in Seq(Receivers) /\ current' \in 0..Len(threads')
         /\ snap' \in Snaps /\ snap'.account = sn.account /\ snap'.history = sn.history
         /\ ReceiverSound(s, snap', threads', current')
  <1>0. Len(ths) \in Nat /\ DOMAIN ths = 1..Len(ths)
    OBVIOUS
  <1>1. CASE snap' = sn /\ threads' = ths /\ current' = cur
    BY <1>1
  <1>2. CASE /\ Desk!MayStart(s, ths, cur, vs) /\ snap' = Desk!Staged(s, sn, cur)
             /\ threads' = Desk!Started(s, ths, cur, en)
             /\ current' = IF Desk!Starts(s, cur, en) THEN Len(threads') ELSE cur
    <2>1. CASE cur # 0
      BY <1>2, <2>1 DEF Desk!Staged, Desk!Started, Desk!Starts
    <2>2. CASE cur = 0
      <3>1. Desk!HonouredBy(s, vs)
        BY <1>2, <2>2 DEF Desk!MayStart
      <3>2. s.cookie.account \in Owner /\ s.origin \in Origin /\ Desk!Of(s) \in Mates
        BY <3>1, HonouredForm DEF Clients
      <3>3. \A i \in DOMAIN ths : ~ths[i].live
        BY <1>0, <2>2 DEF ReceiverSound
      <3>4. snap' \in Snaps /\ snap'.account = sn.account /\ snap'.history = sn.history /\ snap'.staged = Desk!Of(s)
        BY <1>2, <2>2, <3>2 DEF Desk!Staged, Snaps
      <3> DEFINE new == [origin |-> s.origin, account |-> s.cookie.account, live |-> TRUE, pc |-> "wait"]
      <3>5. new \in Receivers /\ new.origin = s.origin /\ new.account = s.cookie.account
        BY <3>2 DEF Receivers
      <3>6. CASE Desk!Starts(s, cur, en)
        <4>1. threads' = Append(ths, new) /\ current' = Len(threads')
          BY <1>2, <3>6 DEF Desk!Started
        <4> HIDE DEF new
        <4>2. threads' \in Seq(Receivers) /\ current' = Len(ths) + 1 /\ Len(threads') = Len(ths) + 1
          BY <1>0, <3>5, <4>1
        <4>3. \A i \in DOMAIN threads' : IF i = current' THEN threads'[i] = new ELSE i \in DOMAIN ths /\ threads'[i] = ths[i]
          BY <1>0, <4>1, <4>2
        <4>4. ReceiverSound(s, snap', threads', current')
          BY <3>3, <3>4, <3>5, <4>3 DEF ReceiverSound
        <4> QED
          BY <1>0, <3>4, <4>2, <4>4
      <3>7. CASE ~Desk!Starts(s, cur, en)
        <4>1. threads' = ths /\ current' = cur
          BY <1>2, <3>7 DEF Desk!Started
        <4> QED
          BY <3>3, <3>4, <4>1 DEF ReceiverSound
      <3> QED
        BY <3>6, <3>7
    <2> QED
      BY <2>1, <2>2
  <1> QED
    BY <1>1, <1>2 DEF Desk!StartReceiver

\* A step leaves AccountInv true when what it makes of the worker does.
LEMMA AccountStep ==
  ASSUME AccountInv, handled' \in 0..MaxCommands,
         valid' \in SUBSET (Origin \X Owner), receiving' \in SUBSET (Origin \X Owner), file' \in Origin,
         kept' \in [Origin -> Desk!Cookie \cup {None}], desk' \in Desks, snap' \in Snaps,
         threads' \in Seq(Receivers), current' \in 0..Len(threads'),
         HistorySound(snap'), AccountSound(desk', snap'), NEW s, s = Desk!Service',
         ReceiverSound(s, snap', threads', current')
  PROVE  AccountInv'
  BY DEF AccountInv, AccountTyped, HistorySound, AccountSound, ReceiverSound

\* A command that only ends the receiver.
LEMMA ReceiverEnded ==
  ASSUME AccountInv, handled' \in 0..MaxCommands, valid' \in SUBSET (Origin \X Owner), receiving' \in SUBSET (Origin \X Owner),
         file' = file, kept' = kept, desk' = desk, snap' = snap, threads' = Desk!Cancelled, current' = 0
  PROVE  AccountInv'
  <1>1. Desk!Service' = Desk!Service
    BY DEF Desk!Service, Desk!Client
  <1>2. ReceiverSound(Desk!Service, snap', threads', current')
    BY CancelledForm
  <1>3. threads' \in Seq(Receivers) /\ current' \in 0..Len(threads')
    BY CancelledForm
  <1>4. HistorySound(snap') /\ AccountSound(desk', snap')
    BY DEF AccountInv
  <1> QED
    BY <1>1, <1>2, <1>3, <1>4, AccountStep DEF AccountInv, AccountTyped

\* refresh_account(): the account read is the session's.
LEMMA RefreshKeeps ==
  ASSUME AccountInv, handled' \in 0..MaxCommands, Desk!RefreshAccount
  PROVE  AccountInv'
  <1> DEFINE s == Desk!Service
  <1>0. UNCHANGED <<valid, receiving, file, kept>>
    BY DEF Desk!RefreshAccount
  <1>1. s \in Clients /\ (desk.service # None => s = desk.service)
    BY ServiceForm DEF Desk!Service
  <1>2. PICK ok \in BOOLEAN, answer \in Desk!Answers(s) :
          CASE answer = "ok" ->
                 /\ desk' = [desk EXCEPT !.accountId = Desk!Of(s)[2]]
                 /\ \/ Desk!StartReceiver(s, Desk!SetAccount(Desk!Policy(snap, ok), Desk!Of(s)), threads, current, valid, receiving)
                    \/ /\ snap' = Desk!SetAccount(Desk!Policy(snap, ok), Desk!Of(s))
                       /\ UNCHANGED <<threads, current>>
            [] answer = "auth" ->
                 /\ snap' = [Desk!Policy(snap, ok) EXCEPT !.account = None, !.history = None]
                 /\ UNCHANGED <<desk, threads, current>>
            [] answer = "error" -> snap' = Desk!Policy(snap, ok) /\ UNCHANGED <<desk, threads, current>>
    BY DEF Desk!RefreshAccount
  <1> DEFINE sn == Desk!Policy(snap, ok)
  <1>3. sn \in Snaps /\ sn.account = snap.account /\ sn.history = snap.history /\ sn.staged = snap.staged
    BY PolicyForm DEF AccountInv, AccountTyped
  <1>4. HistorySound(sn) /\ AccountSound(desk, sn) /\ ReceiverSound(s, sn, threads, current)
    BY <1>3 DEF AccountInv, HistorySound, AccountSound, ReceiverSound
  <1>5. answer \in {"ok", "auth", "error"} /\ (answer = "ok" => Desk!HonouredBy(s, valid))
    BY <1>2 DEF Desk!Answers, Desk!Honoured
  <1> HIDE DEF s, sn
  <1>6. CASE answer = "ok"
    <2> DEFINE m == Desk!Of(s)
               sa == Desk!SetAccount(sn, m)
    <2>1. s.cookie # None /\ m \in Mates /\ m[2] \in Owner
      BY <1>1, <1>5, <1>6, HonouredForm
    <2>2. sa \in Snaps /\ HistorySound(sa) /\ sa.account = m /\ sa.staged = sn.staged
      BY <1>3, <1>4, <2>1, SetAccountForm
    <2>3. /\ desk' = [desk EXCEPT !.accountId = m[2]]
          /\ Desk!StartReceiver(s, sa, threads, current, valid, receiving) \/ (snap' = sa /\ UNCHANGED <<threads, current>>)
      BY <1>2, <1>6 DEF s, sn
    <2>4. desk' \in Desks /\ desk'.service = desk.service /\ desk'.store = desk.store
      BY <2>1, <2>3 DEF AccountInv, AccountTyped, Desks
    <2>5. ReceiverSound(s, sa, threads, current)
      BY <1>4, <2>2 DEF ReceiverSound
    <2>6. threads \in Seq(Receivers) /\ current \in 0..Len(threads)
      BY DEF AccountInv, AccountTyped
    <2> HIDE DEF sa
    <2>7. /\ threads' \in Seq(Receivers) /\ current' \in 0..Len(threads') /\ snap' \in Snaps
          /\ snap'.account = sa.account /\ snap'.history = sa.history /\ ReceiverSound(s, snap', threads', current')
      <3>1. CASE snap' = sa /\ UNCHANGED <<threads, current>>
        BY <2>2, <2>5, <2>6, <3>1
      <3>2. CASE Desk!StartReceiver(s, sa, threads, current, valid, receiving)
        BY <1>1, <2>2, <2>5, <2>6, <3>2, StartedSound
      <3> QED
        BY <2>3, <3>1, <3>2
    <2>8. HistorySound(snap') /\ AccountSound(desk', snap')
      BY <1>1, <2>1, <2>2, <2>4, <2>7 DEF HistorySound, AccountSound
    <2>9. s = Desk!Service'
      BY <1>0, <2>4 DEF s, Desk!Service
    <2> QED
      BY <1>0, <2>4, <2>7, <2>8, <2>9, AccountStep DEF AccountInv, AccountTyped
  <1>7. CASE answer = "auth"
    <2>1. snap' = [sn EXCEPT !.account = None, !.history = None] /\ UNCHANGED <<desk, threads, current>>
      BY <1>2, <1>7 DEF s, sn
    <2>2. snap' \in Snaps /\ snap'.account = None /\ snap'.history = None /\ snap'.staged = sn.staged
      BY <1>3, <2>1 DEF Snaps
    <2>3. s = Desk!Service'
      BY <1>0, <2>1 DEF s, Desk!Service
    <2>4. HistorySound(snap') /\ AccountSound(desk', snap') /\ ReceiverSound(s, snap', threads', current')
      BY <1>4, <2>1, <2>2 DEF HistorySound, AccountSound, ReceiverSound
    <2> QED
      BY <1>0, <2>1, <2>2, <2>3, <2>4, AccountStep DEF AccountInv, AccountTyped
  <1>8. CASE answer = "error"
    <2>1. snap' = sn /\ UNCHANGED <<desk, threads, current>>
      BY <1>2, <1>8 DEF s, sn
    <2>2. s = Desk!Service'
      BY <1>0, <2>1 DEF s, Desk!Service
    <2> QED
      BY <1>0, <1>3, <1>4, <2>1, <2>2, AccountStep DEF AccountInv, AccountTyped
  <1> QED
    BY <1>5, <1>6, <1>7, <1>8

\* The client and the snapshot of a new session.
LEMMA SignedInForm ==
  ASSUME AccountInv, NEW a \in Owner, NEW ok \in BOOLEAN
  PROVE  /\ Desk!Session(a) \in Clients /\ Desk!Session(a) # None
         /\ Desk!Session(a).cookie \in Desk!Cookie /\ Desk!Session(a).cookie # None /\ Desk!Session(a).cookie.account = a
         /\ Desk!SignedIn(a, ok) \in Snaps /\ Desk!SignedIn(a, ok).account = Desk!Of(Desk!Session(a))
         /\ HistorySound(Desk!SignedIn(a, ok))
  <1> DEFINE c == [from |-> desk.config, account |-> a]
  <1>1. desk.config \in Origin /\ c \in Desk!Cookie /\ c.account = a
    BY DEF AccountInv, AccountTyped, Desks, Desk!Cookie
  <1>2. c # None
    BY <1>1, ApplicationsAssumption DEF AccountConstants
  <1>3. Desk!Session(a) = Desk!Client(desk.config, c)
    BY DEF Desk!Session
  <1> HIDE DEF c
  <1>4. snap \in Snaps /\ HistorySound(snap)
    BY DEF AccountInv, AccountTyped
  <1> DEFINE m == <<desk.config, a>>
             sa == Desk!SetAccount(snap, m)
  <1>5. m \in Mates /\ sa \in Snaps /\ HistorySound(sa) /\ sa.account = m
    <2>1. m \in Mates
      BY <1>1 DEF Mates
    <2> QED
      BY <1>4, <2>1, SetAccountForm
  <1>6. Desk!SignedIn(a, ok) = Desk!Policy(sa, ok)
    BY DEF Desk!SignedIn
  <1> HIDE DEF sa
  <1>7. Desk!Policy(sa, ok) \in Snaps /\ Desk!Policy(sa, ok).account = m /\ Desk!Policy(sa, ok).history = sa.history
    BY <1>5, PolicyForm
  <1>8. Desk!Session(a) \in Clients /\ Desk!Session(a) # None /\ Desk!Session(a).cookie = c /\ Desk!Session(a).origin = desk.config
    BY <1>1, <1>3, ClientForm
  <1>9. m = Desk!Of(Desk!Session(a))
    BY <1>1, <1>8 DEF Desk!Of
  <1> QED
    BY <1>1, <1>2, <1>5, <1>6, <1>7, <1>8, <1>9 DEF HistorySound

\* login(): the receiver of the session before is gone before the new one is.
LEMMA LoginKeeps ==
  ASSUME AccountInv, handled' \in 0..MaxCommands, NEW a \in Owner, NEW remember \in BOOLEAN, Desk!Login(a, remember)
  PROVE  AccountInv'
  <1>0. receiving' = receiving /\ file' = file /\ desk.config \in Origin /\ desk.store \in Origin
    BY DEF Desk!Login, AccountInv, AccountTyped, Desks
  <1>1. valid' \in SUBSET (Origin \X Owner)
    BY <1>0 DEF Desk!Login, AccountInv, AccountTyped
  <1>2. CASE Desk!ReceiverOnly
    BY <1>0, <1>1, <1>2, ReceiverEnded DEF Desk!ReceiverOnly, AccountInv, AccountTyped
  <1>3. CASE ~Desk!ReceiverOnly
    <2> DEFINE s == Desk!Session(a)
    <2>1. PICK ok \in BOOLEAN :
            /\ kept' = [kept EXCEPT ![desk.store] = IF remember THEN s.cookie ELSE None]
            /\ desk' = [desk EXCEPT !.service = s, !.accountId = a]
            /\ Desk!StartReceiver(s, Desk!SignedIn(a, ok), Desk!Cancelled, 0, valid', receiving)
      BY <1>3 DEF Desk!Login
    <2> DEFINE sn == Desk!SignedIn(a, ok)
    <2>2. /\ s \in Clients /\ s # None /\ s.cookie \in Desk!Cookie /\ s.cookie # None /\ s.cookie.account = a
          /\ sn \in Snaps /\ sn.account = Desk!Of(s) /\ HistorySound(sn)
      BY SignedInForm
    <2> HIDE DEF s, sn
    <2>3. desk' \in Desks /\ desk'.service = s
      BY <2>1, <2>2 DEF s, sn, AccountInv, AccountTyped, Desks
    <2>4. kept' \in [Origin -> Desk!Cookie \cup {None}]
      BY <2>1, <2>2 DEF s, AccountInv, AccountTyped
    <2>5. ReceiverSound(s, sn, Desk!Cancelled, 0) /\ Desk!Cancelled \in Seq(Receivers) /\ 0 \in 0..Len(Desk!Cancelled)
      BY CancelledForm
    <2>6. Desk!StartReceiver(s, sn, Desk!Cancelled, 0, valid', receiving)
      BY <2>1 DEF s, sn
    <2>7. /\ threads' \in Seq(Receivers) /\ current' \in 0..Len(threads') /\ snap' \in Snaps
          /\ snap'.account = sn.account /\ snap'.history = sn.history /\ ReceiverSound(s, snap', threads', current')
      BY <2>2, <2>5, <2>6, StartedSound
    <2>8. s = Desk!Service'
      BY <2>2, <2>3 DEF Desk!Service
    <2>9. HistorySound(snap') /\ AccountSound(desk', snap')
      BY <2>2, <2>3, <2>7 DEF HistorySound, AccountSound
    <2> QED
      BY <1>0, <1>1, <2>3, <2>4, <2>7, <2>8, <2>9, AccountStep DEF AccountInv, AccountTyped
  <1> QED
    BY <1>2, <1>3

\* register(): no receiver is started.
LEMMA RegisterKeeps ==
  ASSUME AccountInv, handled' \in 0..MaxCommands, NEW a \in Owner, Desk!Register(a)
  PROVE  AccountInv'
  <1>0. receiving' = receiving /\ file' = file /\ kept' = kept /\ desk.config \in Origin
    BY DEF Desk!Register, Desk!ReceiverOnly, AccountInv, AccountTyped, Desks
  <1>1. valid' \in SUBSET (Origin \X Owner)
    BY <1>0 DEF Desk!Register, AccountInv, AccountTyped
  <1>2. CASE Desk!ReceiverOnly
    BY <1>0, <1>1, <1>2, ReceiverEnded DEF Desk!ReceiverOnly, AccountInv, AccountTyped
  <1>3. CASE ~Desk!ReceiverOnly
    <2> DEFINE s == Desk!Session(a)
    <2>1. PICK ok \in BOOLEAN :
            /\ desk' = [desk EXCEPT !.service = s, !.accountId = a] /\ snap' = Desk!SignedIn(a, ok)
            /\ threads' = Desk!Cancelled /\ current' = 0
      BY <1>3 DEF Desk!Register
    <2>2. /\ s \in Clients /\ s # None /\ s.cookie # None /\ s.cookie.account = a
          /\ snap' \in Snaps /\ snap'.account = Desk!Of(s) /\ HistorySound(snap')
      BY <2>1, SignedInForm
    <2> HIDE DEF s
    <2>3. desk' \in Desks /\ desk'.service = s
      BY <2>1, <2>2 DEF s, AccountInv, AccountTyped, Desks
    <2>4. ReceiverSound(s, snap', threads', current') /\ threads' \in Seq(Receivers) /\ current' \in 0..Len(threads')
      BY <2>1, CancelledForm
    <2>5. s = Desk!Service'
      BY <2>2, <2>3 DEF Desk!Service
    <2>6. AccountSound(desk', snap')
      BY <2>2, <2>3 DEF AccountSound
    <2> QED
      BY <1>0, <1>1, <2>2, <2>3, <2>4, <2>5, <2>6, AccountStep DEF AccountInv, AccountTyped
  <1> QED
    BY <1>2, <1>3

\* A command that ends the receiver and replaces what the worker keeps and shows.
LEMMA ReplacedSound ==
  ASSUME AccountInv, handled' \in 0..MaxCommands, valid' \in SUBSET (Origin \X Owner), receiving' = receiving, file' \in Origin,
         kept' \in [Origin -> Desk!Cookie \cup {None}], desk' \in Desks, snap' \in Snaps,
         HistorySound(snap'), AccountSound(desk', snap'), threads' = Desk!Cancelled, current' = 0
  PROVE  AccountInv'
  <1>1. ReceiverSound(Desk!Service', snap', threads', current') /\ threads' \in Seq(Receivers) /\ current' \in 0..Len(threads')
    BY CancelledForm
  <1> QED
    BY <1>1, AccountStep DEF AccountInv, AccountTyped

\* logout(): the client and what is shown go together, or stay together.
LEMMA LogoutKeeps ==
  ASSUME AccountInv, handled' \in 0..MaxCommands, Desk!Logout
  PROVE  AccountInv'
  <1>0. receiving' = receiving /\ file' = file /\ threads' = Desk!Cancelled /\ current' = 0
    BY DEF Desk!Logout
  <1>1. valid' \in SUBSET (Origin \X Owner)
    BY DEF Desk!Logout, AccountInv, AccountTyped
  <1>2. CASE desk' = [desk EXCEPT !.accountId = None] /\ UNCHANGED <<kept, snap>>
    <2>1. desk' \in Desks /\ desk'.service = desk.service
      BY <1>2 DEF AccountInv, AccountTyped, Desks
    <2>2. HistorySound(snap') /\ AccountSound(desk', snap')
      BY <1>2, <2>1 DEF AccountInv, AccountSound
    <2> QED
      BY <1>0, <1>1, <1>2, <2>1, <2>2, ReplacedSound DEF AccountInv, AccountTyped
  <1>3. CASE /\ kept' = [kept EXCEPT ![desk.store] = None] /\ desk' = [desk EXCEPT !.accountId = None, !.service = None]
             /\ snap' = [snap EXCEPT !.account = None, !.history = None, !.staged = None]
    <2>1. desk' \in Desks /\ desk'.service = None
      BY <1>3 DEF AccountInv, AccountTyped, Desks
    <2>2. snap' \in Snaps /\ snap'.history = None
      BY <1>3 DEF AccountInv, AccountTyped, Snaps
    <2>3. kept' \in [Origin -> Desk!Cookie \cup {None}]
      BY <1>3 DEF AccountInv, AccountTyped
    <2>4. HistorySound(snap') /\ AccountSound(desk', snap')
      BY <2>1, <2>2 DEF HistorySound, AccountSound
    <2> QED
      BY <1>0, <1>1, <2>1, <2>2, <2>3, <2>4, ReplacedSound DEF AccountInv, AccountTyped
  <1> QED
    BY <1>2, <1>3 DEF Desk!Logout

\* What a server shows before anyone signs in.
LEMMA BlankForm ==
  ASSUME NEW o \in Origin
  PROVE  Desk!Blank(o) \in Snaps /\ Desk!Blank(o).account = None /\ HistorySound(Desk!Blank(o))
  BY DEF Desk!Blank, Snaps, HistorySound

\* change_instance(): a failure after the store was replaced leaves the client and the
\* account of before, and no receiver.
LEMMA ChangeKeeps ==
  ASSUME AccountInv, handled' \in 0..MaxCommands, NEW o \in Origin, Desk!ChangeInstance(o)
  PROVE  AccountInv'
  <1>0. UNCHANGED <<valid, receiving, kept>> /\ threads' = Desk!Cancelled /\ current' = 0 /\ file' \in Origin
    BY DEF Desk!ChangeInstance, AccountInv, AccountTyped
  <1>1. CASE desk' = [desk EXCEPT !.accountId = None] /\ UNCHANGED snap
    <2>1. desk' \in Desks /\ desk'.service = desk.service
      BY <1>1 DEF AccountInv, AccountTyped, Desks
    <2>2. HistorySound(snap') /\ AccountSound(desk', snap')
      BY <1>1, <2>1 DEF AccountInv, AccountSound
    <2> QED
      BY <1>0, <1>1, <2>1, <2>2, ReplacedSound DEF AccountInv, AccountTyped
  <1>2. CASE desk' = [desk EXCEPT !.accountId = None, !.store = o] /\ UNCHANGED snap
    <2>1. desk' \in Desks /\ desk'.service = desk.service
      BY <1>2 DEF AccountInv, AccountTyped, Desks
    <2>2. HistorySound(snap') /\ AccountSound(desk', snap')
      BY <1>2, <2>1 DEF AccountInv, AccountSound
    <2> QED
      BY <1>0, <1>2, <2>1, <2>2, ReplacedSound DEF AccountInv, AccountTyped
  <1>3. CASE /\ desk' = [config |-> o, store |-> o, service |-> Desk!Client(o, kept[o]), accountId |-> None]
             /\ snap' = Desk!Blank(o)
    <2>1. Desk!Client(o, kept[o]) \in Clients
      BY ClientForm DEF AccountInv, AccountTyped
    <2>2. desk' \in Desks
      BY <1>3, <2>1 DEF Desks
    <2>3. snap' \in Snaps /\ snap'.account = None /\ HistorySound(snap')
      BY <1>3, BlankForm
    <2>4. AccountSound(desk', snap')
      BY <2>3 DEF AccountSound
    <2> QED
      BY <1>0, <2>2, <2>3, <2>4, ReplacedSound DEF AccountInv, AccountTyped
  <1> QED
    BY <1>1, <1>2, <1>3 DEF Desk!ChangeInstance

\* refresh_history(): the history read is that of the account read.
LEMMA HistoryKeeps ==
  ASSUME AccountInv, handled' \in 0..MaxCommands, Desk!RefreshHistory
  PROVE  AccountInv'
  <1> DEFINE s == Desk!Service
  <1>0. UNCHANGED <<valid, receiving, file, kept, threads, current>>
    BY DEF Desk!RefreshHistory
  <1>1. s \in Clients /\ (desk.service # None => s = desk.service)
    BY ServiceForm DEF Desk!Service
  <1>2. snap \in Snaps /\ HistorySound(snap) /\ AccountSound(desk, snap) /\ ReceiverSound(s, snap, threads, current)
    BY DEF AccountInv, AccountTyped
  <1>3. CASE desk' = desk /\ snap' = [snap EXCEPT !.history = None]
    <2>1. snap' \in Snaps /\ snap'.history = None /\ snap'.account = snap.account /\ snap'.staged = snap.staged
      BY <1>2, <1>3 DEF Snaps
    <2>2. HistorySound(snap') /\ AccountSound(desk', snap') /\ ReceiverSound(s, snap', threads', current')
      BY <1>0, <1>2, <1>3, <2>1 DEF HistorySound, AccountSound, ReceiverSound
    <2>3. s = Desk!Service'
      BY <1>0, <1>3 DEF Desk!Service
    <2> QED
      BY <1>0, <1>3, <2>1, <2>2, <2>3, AccountStep DEF AccountInv, AccountTyped
  <1>4. CASE \E page \in BOOLEAN :
               /\ Desk!HonouredBy(s, valid) /\ desk' = [desk EXCEPT !.accountId = Desk!Of(s)[2]]
               /\ snap' = [Desk!SetAccount(snap, Desk!Of(s)) EXCEPT !.history = IF page THEN Desk!Of(s) ELSE None]
    <2> DEFINE m == Desk!Of(s)
               sa == Desk!SetAccount(snap, m)
    <2>1. s.cookie # None /\ m \in Mates /\ m # None /\ m[2] \in Owner
      BY <1>1, <1>4, HonouredForm
    <2>2. sa \in Snaps /\ sa.account = m /\ sa.staged = snap.staged
      BY <1>2, <2>1, SetAccountForm
    <2>3. PICK page \in BOOLEAN : snap' = [sa EXCEPT !.history = IF page THEN m ELSE None]
      BY <1>4
    <2> HIDE DEF sa
    <2>4. snap' \in Snaps /\ snap'.account = m /\ snap'.staged = snap.staged /\ snap'.history \in {m, None}
      BY <2>1, <2>2, <2>3 DEF Snaps
    <2>5. desk' \in Desks /\ desk'.service = desk.service /\ desk'.store = desk.store
      BY <1>4, <2>1 DEF AccountInv, AccountTyped, Desks
    <2>6. s = Desk!Service'
      BY <1>0, <2>5 DEF Desk!Service
    <2> HIDE DEF s
    <2>7. HistorySound(snap') /\ AccountSound(desk', snap') /\ ReceiverSound(s, snap', threads', current')
      BY <1>0, <1>1, <1>2, <2>1, <2>4, <2>5 DEF HistorySound, AccountSound, ReceiverSound, Desk!SameEmail
    <2> QED
      BY <1>0, <2>4, <2>5, <2>6, <2>7, AccountStep DEF AccountInv, AccountTyped
  <1> QED
    BY <1>3, <1>4 DEF Desk!RefreshHistory, Desk!Answers, Desk!Honoured

\* AutomaticReceiving: the receiver restarted is that of the session.
LEMMA AutomaticKeeps ==
  ASSUME AccountInv, handled' \in 0..MaxCommands, NEW on \in BOOLEAN, Desk!AutomaticReceiving(on)
  PROVE  AccountInv'
  <1>0. UNCHANGED <<valid, file, kept, desk>>
    BY DEF Desk!AutomaticReceiving
  <1>1. CASE snap' = snap /\ threads' = Desk!Cancelled /\ current' = 0 /\ UNCHANGED receiving
    BY <1>0, <1>1, ReceiverEnded DEF AccountInv, AccountTyped
  <1>2. CASE /\ receiving' \in SUBSET (Origin \X Owner)
             /\ Desk!StartReceiver(Desk!Service, snap, Desk!Cancelled, 0, valid, receiving')
    <2>1. Desk!Service \in Clients /\ Desk!Service = Desk!Service'
      BY <1>0, ServiceForm DEF Desk!Service
    <2>2. /\ ReceiverSound(Desk!Service, snap, Desk!Cancelled, 0)
          /\ Desk!Cancelled \in Seq(Receivers) /\ 0 \in 0..Len(Desk!Cancelled) /\ snap \in Snaps
      BY CancelledForm DEF AccountInv, AccountTyped
    <2>3. /\ threads' \in Seq(Receivers) /\ current' \in 0..Len(threads') /\ snap' \in Snaps
          /\ snap'.account = snap.account /\ snap'.history = snap.history
          /\ ReceiverSound(Desk!Service, snap', threads', current')
      BY <1>2, <2>1, <2>2, StartedSound
    <2>4. HistorySound(snap') /\ AccountSound(desk', snap')
      BY <1>0, <2>3 DEF AccountInv, HistorySound, AccountSound
    <2> QED
      BY <1>0, <1>2, <2>1, <2>3, <2>4, AccountStep DEF AccountInv, AccountTyped
  <1>3. ASSUME NEW id \in Owner \cup {None}, id # None,
               receiving' = IF on THEN receiving \cup {<<Desk!Service.origin, id>>} ELSE receiving \ {<<Desk!Service.origin, id>>}
        PROVE  receiving' \in SUBSET (Origin \X Owner)
    <2>1. Desk!Service.origin \in Origin
      BY ServiceForm DEF Clients
    <2> QED
      BY <1>3, <2>1 DEF AccountInv, AccountTyped
  <1>4. desk.accountId \in Owner \cup {None} /\ (kept[desk.store] # None => kept[desk.store].account \in Owner)
    BY DEF AccountInv, AccountTyped, Desks, Desk!Cookie
  <1> QED
    BY <1>1, <1>2, <1>3, <1>4 DEF Desk!AutomaticReceiving

\* delete_account(): the client forgets its intent, and keeps its cookie.
LEMMA DeleteKeeps ==
  ASSUME AccountInv, handled' \in 0..MaxCommands, Desk!DeleteAccount
  PROVE  AccountInv'
  <1>0. /\ UNCHANGED <<receiving, file, kept, snap, threads, current>> /\ valid' \in SUBSET (Origin \X Owner)
        /\ desk' = [desk EXCEPT !.service = IF @ = None THEN None ELSE [@ EXCEPT !.intent = FALSE]]
    BY DEF Desk!DeleteAccount, AccountInv, AccountTyped
  <1>1. CASE desk.service = None
    <2>1. desk' = desk
      BY <1>0, <1>1 DEF AccountInv, AccountTyped, Desks
    <2>2. Desk!Service = Desk!Service'
      BY <1>0, <2>1 DEF Desk!Service
    <2> QED
      BY <1>0, <2>1, <2>2, AccountStep DEF AccountInv, AccountTyped
  <1>2. CASE desk.service # None
    <2> DEFINE s == [desk.service EXCEPT !.intent = FALSE]
    <2>1. s \in Clients /\ s.cookie = desk.service.cookie /\ s.origin = desk.service.origin
      BY <1>2 DEF AccountInv, AccountTyped, Desks, Clients
    <2>2. s # None
      BY <2>1, ApplicationsAssumption DEF AccountConstants
    <2>3. desk' = [desk EXCEPT !.service = s]
      BY <1>0, <1>2
    <2> HIDE DEF s
    <2>4. desk' \in Desks /\ desk'.service = s
      BY <2>1, <2>3 DEF AccountInv, AccountTyped, Desks
    <2>5. s = Desk!Service' /\ Desk!Service = desk.service
      BY <1>2, <2>2, <2>4 DEF Desk!Service
    <2>6. ReceiverSound(s, snap', threads', current')
      BY <1>0, <2>1, <2>5 DEF AccountInv, ReceiverSound, Desk!Of
    <2>7. HistorySound(snap') /\ AccountSound(desk', snap')
      BY <1>0, <1>2, <2>1, <2>4 DEF AccountInv, AccountSound, Desk!Of
    <2> QED
      BY <1>0, <2>4, <2>5, <2>6, <2>7, AccountStep DEF AccountInv, AccountTyped
  <1> QED
    BY <1>1, <1>2

\* The program is started again: every receiver thread ended with it.
LEMMA RestartKeeps ==
  ASSUME AccountInv, handled' \in 0..MaxCommands, Desk!Restart
  PROVE  AccountInv'
  <1> DEFINE C(i) == [threads[i] EXCEPT !.live = FALSE, !.pc = "ended"]
  <1>1. threads \in Seq(Receivers) /\ Len(threads) \in Nat /\ DOMAIN threads = 1..Len(threads)
    BY DEF AccountInv, AccountTyped
  <1>2. \A i \in 1..Len(threads) : threads[i] \in Receivers
    BY <1>1
  <1>3. \A i \in 1..Len(threads) : C(i) \in Receivers /\ ~C(i).live
    BY <1>2 DEF Receivers
  <1>4. threads' = [i \in 1..Len(threads) |-> C(i)] /\ current' = 0
    BY <1>1 DEF Desk!Restart
  <1> HIDE DEF C
  <1>5. threads' \in Seq(Receivers) /\ current' \in 0..Len(threads')
    BY <1>1, <1>3, <1>4
  <1>6. ReceiverSound(Desk!Service', snap', threads', current')
    BY <1>3, <1>4 DEF ReceiverSound
  <1>7. Desk!Client(file, kept[file]) \in Clients
    BY ClientForm DEF AccountInv, AccountTyped
  <1>8. desk' \in Desks
    BY <1>7 DEF Desk!Restart, Desks, AccountInv, AccountTyped
  <1>9. snap' \in Snaps /\ snap'.account = None /\ HistorySound(snap')
    BY BlankForm DEF Desk!Restart, AccountInv, AccountTyped
  <1>10. AccountSound(desk', snap')
    BY <1>9 DEF AccountSound
  <1> QED
    BY <1>5, <1>6, <1>8, <1>9, <1>10, AccountStep DEF Desk!Restart, AccountInv, AccountTyped

\* A receiver thread sweeps, publishes what it found if it may, or ends.
LEMMA ThreadKeeps ==
  ASSUME AccountInv, handled' \in 0..MaxCommands, NEW i \in DOMAIN threads,
         Desk!Sweep(i) \/ Desk!Publish(i) \/ Desk!EndThread(i)
  PROVE  AccountInv'
  <1>0. UNCHANGED <<valid, receiving, file, kept, desk, current>> /\ Desk!Service' = Desk!Service
    BY DEF Desk!Sweep, Desk!Publish, Desk!EndThread, Desk!Service
  <1>1. threads \in Seq(Receivers) /\ Len(threads) \in Nat /\ i \in 1..Len(threads) /\ threads[i] \in Receivers /\ snap \in Snaps
    BY DEF AccountInv, AccountTyped
  <1>2. PICK pc \in {"wait", "sweep", "ended"} : threads' = [threads EXCEPT ![i] = [threads[i] EXCEPT !.pc = pc]]
    BY <1>1 DEF Desk!Sweep, Desk!Publish, Desk!EndThread
  <1> DEFINE r == [threads[i] EXCEPT !.pc = pc]
  <1>3. r \in Receivers /\ r.live = threads[i].live /\ r.origin = threads[i].origin /\ r.account = threads[i].account
    BY <1>1 DEF Receivers
  <1>4. threads' = [threads EXCEPT ![i] = r]
    BY <1>2
  <1> HIDE DEF r
  <1>5. threads' \in Seq(Receivers) /\ Len(threads') = Len(threads)
    BY <1>1, <1>3, <1>4
  <1>6. snap' = snap \/ (threads[i].live /\ snap' = [snap EXCEPT !.staged = <<threads[i].origin, threads[i].account>>])
    BY DEF Desk!Sweep, Desk!Publish, Desk!EndThread
  <1>7. threads[i].live => snap.staged = <<threads[i].origin, threads[i].account>>
    BY DEF AccountInv, ReceiverSound, Desk!Of
  <1>8. snap' = snap
    BY <1>1, <1>6, <1>7 DEF Snaps
  <1>9. ReceiverSound(Desk!Service, snap', threads', current')
    BY <1>0, <1>1, <1>3, <1>4, <1>8 DEF AccountInv, ReceiverSound
  <1> QED
    BY <1>0, <1>5, <1>8, <1>9, AccountStep DEF AccountInv, AccountTyped

\* Steps of the servers and of other programs, and a reload of the settings: the client
\* and the receiver stay.
LEMMA OutsideKeeps ==
  ASSUME AccountInv, handled' \in 0..MaxCommands, valid' \in SUBSET (Origin \X Owner), receiving' = receiving, file' \in Origin,
         UNCHANGED <<kept, snap, threads, current>>, desk' \in {desk, [desk EXCEPT !.config = file]}
  PROVE  AccountInv'
  <1>1. desk' \in Desks /\ desk'.service = desk.service /\ desk'.store = desk.store
    BY DEF AccountInv, AccountTyped, Desks
  <1>2. Desk!Service = Desk!Service'
    BY <1>1 DEF Desk!Service
  <1>3. AccountSound(desk', snap') /\ HistorySound(snap') /\ ReceiverSound(Desk!Service, snap', threads', current')
    BY <1>1 DEF AccountInv, AccountSound
  <1> QED
    BY <1>1, <1>2, <1>3, AccountStep DEF AccountInv, AccountTyped

\* client.rs of the desktop: the staged deliveries shown and the thread that receives in
\* the background are those of the account of the worker's session at its server, and
\* the history shown is that of an account of the same email, whatever sign-ins,
\* expiries and changes of server fail halfway.
THEOREM AccountsAlwaysApart == Desk!Spec => []AccountsApart
  <1>1. Desk!Init => AccountInv
    <2> SUFFICES ASSUME Desk!Init PROVE AccountInv
      OBVIOUS
    <2>1. Desk!Client(file, None) \in Clients /\ file \in Origin
      BY ClientForm DEF Desk!Init
    <2>2. desk \in Desks
      BY <2>1 DEF Desk!Init, Desks
    <2>3. snap \in Snaps /\ snap.account = None /\ HistorySound(snap)
      BY BlankForm DEF Desk!Init
    <2>4. threads \in Seq(Receivers) /\ DOMAIN threads = {} /\ Len(threads) = 0
      BY DEF Desk!Init
    <2> QED
      BY <2>1, <2>2, <2>3, <2>4, ApplicationsAssumption
      DEF AccountConstants, Desk!Init, AccountInv, AccountTyped, AccountSound, ReceiverSound
  <1>2. AccountInv /\ Desk!Next => AccountInv'
    <2> SUFFICES ASSUME AccountInv, Desk!Next PROVE AccountInv'
      OBVIOUS
    <2>1. handled' \in 0..MaxCommands
      BY ApplicationsAssumption DEF AccountConstants, AccountInv, AccountTyped, Desk!Next
    <2>2. ASSUME Desk!ReloadSettings PROVE AccountInv'
      BY <2>1, <2>2, OutsideKeeps DEF Desk!ReloadSettings, AccountInv, AccountTyped
    <2>3. ASSUME NEW o \in Origin, Desk!EditConfig(o) PROVE AccountInv'
      BY <2>1, <2>3, OutsideKeeps DEF Desk!EditConfig, AccountInv, AccountTyped
    <2>4. ASSUME NEW o, NEW a, Desk!Expire(o, a) PROVE AccountInv'
      <3>1. valid' \in SUBSET (Origin \X Owner)
        BY <2>4 DEF Desk!Expire, AccountInv, AccountTyped
      <3> QED
        BY <2>1, <2>4, <3>1, OutsideKeeps DEF Desk!Expire, AccountInv, AccountTyped
    <2> QED
      BY <2>1, <2>2, <2>3, <2>4, RefreshKeeps, HistoryKeeps, LoginKeeps, RegisterKeeps, LogoutKeeps, DeleteKeeps, ChangeKeeps,
         AutomaticKeeps, RestartKeeps, ThreadKeeps
      DEF Desk!Next, Desk!Command
  <1>3. AccountInv /\ UNCHANGED accountVars => AccountInv'
    BY DEF accountVars, AccountInv, AccountTyped, HistorySound, AccountSound, ReceiverSound, Desk!Service
  <1>4. AccountInv => AccountsApart
    <2> SUFFICES ASSUME AccountInv PROVE AccountsApart
      OBVIOUS
    <2>1. Desk!TypeOK
      BY DEF AccountInv, AccountTyped, Desks, Clients, Snaps, Mates, Receivers, Desk!TypeOK, Desk!MemberOrNone
    <2>2. Desk!HistoryOfAccount
      BY DEF AccountInv, HistorySound, Desk!HistoryOfAccount
    <2>3. Desk!ReceiverOfAccount
      <3> SUFFICES ASSUME NEW i \in DOMAIN threads, threads[i].live
                   PROVE  /\ i = current
                          /\ <<threads[i].origin, threads[i].account>> = Desk!Of(Desk!Service)
                          /\ snap.staged = Desk!Of(Desk!Service)
                          /\ (desk.service # None /\ snap.account # None) => snap.account = Desk!Of(Desk!Service)
        BY DEF Desk!ReceiverOfAccount
      <3>1. /\ i = current /\ threads[i].origin = Desk!Service.origin /\ threads[i].account = Desk!Service.cookie.account
            /\ snap.staged = Desk!Of(Desk!Service)
        BY DEF AccountInv, ReceiverSound
      <3>2. desk.service # None => Desk!Service = desk.service
        BY DEF Desk!Service
      <3> QED
        BY <3>1, <3>2 DEF AccountInv, AccountSound, Desk!Of
    <2> QED
      BY <2>1, <2>2, <2>3 DEF AccountsApart
  <1> QED
    BY <1>1, <1>2, <1>3, <1>4, PTL DEF Desk!Spec, accountVars, Desk!vars

(***************************************************************************)
(* DesktopIngress and DesktopWindow: one window, and what it announces.    *)
(***************************************************************************)

\* The places of a process that holds the lock file.
Owning == {"locked", "binding", "serving", "window", "stopping"}

\* Who owns the window: the lock is held by the process at those places, the nonce is the
\* owner's from when it was written, and the socket from when it was bound.
OwnersSound ==
  \A p \in Instance :
    /\ phase[p] \in Owning => lock = p
    /\ phase[p] \in {"binding", "serving", "window"} => nonce = p
    /\ phase[p] \in {"serving", "window"} => socket = p

\* Inputs are accepted at most once, as the last step of the process that forwards them.
AcceptedSound ==
  \A p \in Instance :
    /\ accepted[p] <= 1 /\ (accepted[p] # 0 => phase[p] \in {"forwarded", "failed"})
    /\ phase[p] = "forwarded" => accepted[p] = 1

IngressInv == Ingress!TypeOK /\ OwnersSound /\ AcceptedSound

\* acquire_inputs() and acquire_owner(): the lock decides, and only its holder replaces
\* the nonce and the endpoint.
LEMMA OwnerMoves ==
  ASSUME IngressInv, NEW p \in Instance,
         \/ Ingress!AcquireInputs(p) \/ Ingress!RemoveStale(p) \/ Ingress!WriteNonce(p)
         \/ Ingress!Bind(p) \/ Ingress!BindPort(p)
  PROVE  IngressInv'
  <1>1. UNCHANGED <<unix, presented, channel, accepted, waiting, dialogs, routed>>
    BY DEF Ingress!AcquireInputs, Ingress!RemoveStale, Ingress!WriteNonce, Ingress!Bind, Ingress!BindPort, Ingress!Listen
  <1>2. Ingress!TypeOK'
    BY <1>1 DEF IngressInv, Ingress!TypeOK, Ingress!Move, Ingress!AcquireInputs, Ingress!RemoveStale, Ingress!WriteNonce,
       Ingress!Bind, Ingress!BindPort, Ingress!Listen
  <1>3. OwnersSound'
    BY ApplicationsAssumption DEF HostConstants, IngressInv, OwnersSound, Owning, Ingress!TypeOK, Ingress!Move, Ingress!AcquireInputs,
       Ingress!RemoveStale, Ingress!WriteNonce, Ingress!Bind, Ingress!BindPort, Ingress!Listen
  <1>4. AcceptedSound'
    BY <1>1 DEF IngressInv, AcceptedSound, Ingress!TypeOK, Ingress!Move, Ingress!AcquireInputs,
       Ingress!RemoveStale, Ingress!WriteNonce, Ingress!Bind, Ingress!BindPort, Ingress!Listen
  <1> QED
    BY <1>2, <1>3, <1>4 DEF IngressInv

\* forward(): a process gives its inputs to the endpoint once, and ends.
LEMMA ForwardMoves ==
  ASSUME IngressInv, NEW p \in Instance, Ingress!ReadNonce(p) \/ Ingress!Forward(p)
  PROVE  IngressInv'
  <1>1. UNCHANGED <<unix, lock, socket, nonce, waiting, dialogs, routed>>
    BY DEF Ingress!ReadNonce, Ingress!Forward
  <1>2. PICK place \in {"failed", "connecting", "forwarded"} : phase' = [phase EXCEPT ![p] = place]
    BY DEF Ingress!ReadNonce, Ingress!Forward, Ingress!Move
  <1>3. phase' \in [Instance -> {"new", "locked", "binding", "serving", "window", "forwarding",
                           "connecting", "forwarded", "failed", "stopping", "unlocked", "ended"}]
    BY <1>2 DEF IngressInv, Ingress!TypeOK
  <1>4. presented' \in [Instance -> Instance \cup {None}]
    BY DEF IngressInv, Ingress!TypeOK, Ingress!ReadNonce, Ingress!Forward
  <1>5. /\ channel' \in [Instance -> Seq(Instance)] /\ accepted' \in [Instance -> Nat]
        /\ \A q \in Instance \ {p} : accepted'[q] = accepted[q]
        /\ accepted'[p] <= 1 /\ (accepted'[p] # 0 => phase'[p] \in {"forwarded", "failed"})
        /\ (phase'[p] = "forwarded" => accepted'[p] = 1)
    <2>0. channel \in [Instance -> Seq(Instance)] /\ accepted \in [Instance -> Nat] /\ DOMAIN phase = Instance
      BY DEF IngressInv, Ingress!TypeOK
    <2>1. phase[p] \in {"forwarding", "connecting"} /\ accepted[p] = 0
      BY DEF IngressInv, AcceptedSound, Ingress!TypeOK, Ingress!ReadNonce, Ingress!Forward
    <2>2. CASE UNCHANGED <<channel, accepted>> /\ phase' = [phase EXCEPT ![p] = "failed"]
      BY <2>0, <2>1, <2>2
    <2>3. CASE UNCHANGED <<channel, accepted>> /\ phase' = [phase EXCEPT ![p] = "connecting"]
      BY <2>0, <2>1, <2>3
    <2>4. CASE /\ socket # None /\ channel' = [channel EXCEPT ![socket] = Append(channel[socket], p)]
               /\ accepted' = [accepted EXCEPT ![p] = accepted[p] + 1]
               /\ \E in_time \in BOOLEAN : phase' = [phase EXCEPT ![p] = IF in_time THEN "forwarded" ELSE "failed"]
      <3>1. socket \in Instance
        BY <2>4 DEF IngressInv, Ingress!TypeOK
      <3>2. Append(channel[socket], p) \in Seq(Instance)
        BY <2>0, <3>1
      <3>3. channel' \in [Instance -> Seq(Instance)]
        BY <2>0, <2>4, <3>1, <3>2
      <3>4. accepted' \in [Instance -> Nat] /\ accepted'[p] = 1 /\ \A q \in Instance \ {p} : accepted'[q] = accepted[q]
        BY <2>0, <2>1, <2>4
      <3>5. phase'[p] \in {"forwarded", "failed"}
        BY <2>0, <2>4
      <3> QED
        BY <3>3, <3>4, <3>5
    <2> QED
      BY <2>2, <2>3, <2>4 DEF Ingress!ReadNonce, Ingress!Forward, Ingress!Move
  <1>6. Ingress!TypeOK'
    BY <1>1, <1>3, <1>4, <1>5 DEF IngressInv, Ingress!TypeOK
  <1>7. OwnersSound'
    BY <1>1, <1>2 DEF IngressInv, OwnersSound, Owning, Ingress!TypeOK
  <1>8. AcceptedSound'
    BY <1>2, <1>5 DEF IngressInv, AcceptedSound, Ingress!TypeOK
  <1> QED
    BY <1>6, <1>7, <1>8 DEF IngressInv

\* route_inputs(): inputs reach a panel, or a question about them the screen.
LEMMA RouteForm ==
  ASSUME IngressInv, NEW p \in Instance, Ingress!Route(p)
  PROVE  waiting' \in Instance \cup {None} /\ dialogs' \in Nat /\ routed' \in SUBSET Instance
  BY DEF IngressInv, Ingress!TypeOK, Ingress!Route

\* The window opens, polls its channel, and is answered.
LEMMA PanelRoutes ==
  ASSUME IngressInv,
         \/ \E p \in Instance : Ingress!OpenWindow(p) \/ Ingress!TryRecv(p)
         \/ \E open \in BOOLEAN : Ingress!AnswerDialog(open)
  PROVE  IngressInv'
  <1>1. UNCHANGED <<unix, lock, socket, nonce, presented, accepted>>
    BY DEF Ingress!OpenWindow, Ingress!TryRecv, Ingress!AnswerDialog
  <1>2. ASSUME NEW p \in Instance, Ingress!OpenWindow(p) PROVE IngressInv'
    <2>1. phase' = [phase EXCEPT ![p] = "window"] /\ phase[p] = "serving" /\ channel' = channel
      BY <1>2 DEF Ingress!OpenWindow, Ingress!Move
    <2>2. waiting' \in Instance \cup {None} /\ dialogs' \in Nat /\ routed' \in SUBSET Instance
      BY <1>2, RouteForm DEF Ingress!OpenWindow
    <2>3. Ingress!TypeOK'
      BY <1>1, <2>1, <2>2 DEF IngressInv, Ingress!TypeOK
    <2>4. OwnersSound' /\ AcceptedSound'
      BY <1>1, <2>1 DEF IngressInv, OwnersSound, AcceptedSound, Owning, Ingress!TypeOK
    <2> QED
      BY <2>3, <2>4 DEF IngressInv
  <1>3. ASSUME NEW p \in Instance, Ingress!TryRecv(p) PROVE IngressInv'
    <2>1. phase' = phase /\ channel' = [channel EXCEPT ![p] = Tail(channel[p])] /\ channel[p] \in Seq(Instance) /\ channel[p] # <<>>
      BY <1>3 DEF Ingress!TryRecv, IngressInv, Ingress!TypeOK
    <2>2. Head(channel[p]) \in Instance /\ Tail(channel[p]) \in Seq(Instance)
      BY <2>1
    <2>3. waiting' \in Instance \cup {None} /\ dialogs' \in Nat /\ routed' \in SUBSET Instance
      BY <1>3, <2>2, RouteForm DEF Ingress!TryRecv
    <2>4. channel' \in [Instance -> Seq(Instance)]
      BY <2>1, <2>2 DEF IngressInv, Ingress!TypeOK
    <2>5. Ingress!TypeOK'
      BY <1>1, <2>1, <2>3, <2>4 DEF IngressInv, Ingress!TypeOK
    <2>6. OwnersSound' /\ AcceptedSound'
      BY <1>1, <2>1 DEF IngressInv, OwnersSound, AcceptedSound
    <2> QED
      BY <2>5, <2>6 DEF IngressInv
  <1>4. ASSUME NEW open \in BOOLEAN, Ingress!AnswerDialog(open) PROVE IngressInv'
    <2>1. phase' = phase /\ channel' = channel
      BY <1>4 DEF Ingress!AnswerDialog
    <2>2. waiting' = None /\ dialogs' \in Nat /\ routed' \in SUBSET Instance
      BY <1>4 DEF Ingress!AnswerDialog, IngressInv, Ingress!TypeOK
    <2>3. Ingress!TypeOK'
      BY <1>1, <2>1, <2>2 DEF IngressInv, Ingress!TypeOK
    <2>4. OwnersSound' /\ AcceptedSound'
      BY <1>1, <2>1 DEF IngressInv, OwnersSound, AcceptedSound
    <2> QED
      BY <2>3, <2>4 DEF IngressInv
  <1> QED
    BY <1>2, <1>3, <1>4

\* Drop of InstanceOwner, an update, a kill: the endpoint goes before the lock, or stays
\* behind for the next owner to remove.
LEMMA EndMoves ==
  ASSUME IngressInv, NEW p \in Instance,
         Ingress!Stop(p) \/ Ingress!Unlink(p) \/ Ingress!ActivateUpdate(p) \/ Ingress!Kill(p)
  PROVE  IngressInv'
  <1>1. UNCHANGED <<unix, nonce, presented, accepted, routed>>
    BY DEF Ingress!Stop, Ingress!Unlink, Ingress!ActivateUpdate, Ingress!Kill
  <1>2. phase[p] \in Owning
    BY DEF Owning, Ingress!Stop, Ingress!Unlink, Ingress!ActivateUpdate, Ingress!Kill, Ingress!Serves
  <1>3. \E place \in {"stopping", "ended"} :
          /\ phase' = [phase EXCEPT ![p] = place]
          /\ place = "stopping" => UNCHANGED <<lock, socket>>
    BY DEF Ingress!Stop, Ingress!Unlink, Ingress!ActivateUpdate, Ingress!Kill, Ingress!Move
  <1>4. channel' \in [Instance -> Seq(Instance)] /\ waiting' \in Instance \cup {None} /\ dialogs' \in Nat
    <2>1. <<>> \in Seq(Instance)
      OBVIOUS
    <2>2. channel' \in {channel, [channel EXCEPT ![p] = <<>>]} /\ waiting' \in {waiting, None} /\ dialogs' \in {dialogs, 0}
      BY DEF Ingress!Stop, Ingress!Unlink, Ingress!ActivateUpdate, Ingress!Kill, Ingress!Closed
    <2>3. channel \in [Instance -> Seq(Instance)] /\ waiting \in Instance \cup {None} /\ dialogs \in Nat
      BY DEF IngressInv, Ingress!TypeOK
    <2>4. channel' \in [Instance -> Seq(Instance)]
      BY <2>1, <2>2, <2>3
    <2> QED
      BY <2>2, <2>3, <2>4
  <1>5. lock' \in {lock, None} /\ socket' \in {socket, None}
    BY DEF Ingress!Stop, Ingress!Unlink, Ingress!ActivateUpdate, Ingress!Kill
  <1>6. Ingress!TypeOK'
    <2>1. {lock, socket, nonce, waiting}' \subseteq Instance \cup {None}
      BY <1>1, <1>4, <1>5 DEF IngressInv, Ingress!TypeOK
    <2>2. phase' \in [Instance -> {"new", "locked", "binding", "serving", "window", "forwarding",
                                   "connecting", "forwarded", "failed", "stopping", "unlocked", "ended"}]
      BY <1>3 DEF IngressInv, Ingress!TypeOK
    <2> QED
      BY <1>1, <1>4, <2>1, <2>2 DEF IngressInv, Ingress!TypeOK
  <1>7. \A q \in Instance \ {p} : phase'[q] = phase[q] /\ phase[q] \notin Owning
    BY <1>2, <1>3 DEF IngressInv, OwnersSound, Ingress!TypeOK
  <1>8. OwnersSound'
    BY <1>2, <1>3, <1>7 DEF IngressInv, OwnersSound, Owning, Ingress!TypeOK
  <1>9. AcceptedSound'
    BY <1>1, <1>2, <1>3, <1>7 DEF IngressInv, AcceptedSound, Owning, Ingress!TypeOK
  <1> QED
    BY <1>6, <1>8, <1>9 DEF IngressInv

\* No process is at a place before it is started.
LEMMA IngressStarts ==
  ASSUME Ingress!Init
  PROVE  IngressInv
  <1>1. <<>> \in Seq(Instance)
    OBVIOUS
  <1>2. Ingress!TypeOK
    BY <1>1 DEF Ingress!Init, Ingress!TypeOK
  <1> QED
    BY <1>2 DEF Ingress!Init, IngressInv, OwnersSound, AcceptedSound, Owning

\* The states of a transfer.
TaskStates == {"absent", "running", "pausing", "paused", "complete", "failed", "discarded"}

\* Every identifier that was given out is at most next_id, a message that was shown and is
\* still in the history is remembered as seen, and none is shown more often than allowed.
MessagesSound ==
  /\ \A i \in Window!Ids \cup seen : i <= next_id
  /\ \A i \in Window!Message : shown[i] # 0 => i <= next_id /\ (i \in Window!Ids => i \in seen)
  /\ \A i \in Window!Message : shown[i] <= (IF Window!Operational(i) THEN 1 ELSE 0)

\* A completed transfer only ever becomes discarded, the snapshot follows, and an announced
\* one that is still shown as complete was in the last poll.
CompletionSound(j) ==
  /\ snapshot[j] = "complete" => job[j] \in {"complete", "discarded"}
  /\ snapshot[j] = "discarded" => job[j] = "discarded"
  /\ notified[j] <= 1 /\ (~baselined => notified[j] = 0)
  /\ notified[j] # 0 => snapshot[j] \in {"complete", "discarded"}
  /\ (baselined /\ notified[j] # 0 /\ snapshot[j] = "complete") => j \in completed

WindowInv == Window!TypeOK /\ MessagesSound /\ \A j \in Task : CompletionSound(j)

\* What a step makes of the state of one transfer.
Onward(old, new) ==
  new \in TaskStates /\ (old = "discarded" => new = "discarded") /\ (old = "complete" => new \in {"complete", "discarded"})

\* A command moves transfers onward.
LEMMA ApplyForm ==
  ASSUME WindowInv, NEW command, Window!Apply(command)
  PROVE  job' \in [Task -> TaskStates] /\ \A j \in Task : Onward(job[j], job'[j])
  <1>1. job \in [Task -> TaskStates]
    BY DEF WindowInv, Window!TypeOK, Window!Saved, TaskStates
  <1>2. CASE job' = [j \in Task |-> IF job[j] \in {"running", "pausing"} THEN "paused" ELSE job[j]]
    BY <1>1, <1>2 DEF Onward, TaskStates
  <1>3. CASE \E found \in [Task -> {"absent"} \cup Window!Saved] :
               job' = [j \in Task |-> IF job[j] = "absent" THEN found[j] ELSE job[j]]
    BY <1>1, <1>3 DEF Onward, TaskStates, Window!Saved
  <1>4. ASSUME NEW j \in Task, NEW k \in {"run", "pause", "discard"}, job' = [job EXCEPT ![j] = Window!Turned(k, job[j])]
        PROVE  job' \in [Task -> TaskStates] /\ \A i \in Task : Onward(job[i], job'[i])
    <2>1. Onward(job[j], Window!Turned(k, job[j]))
      BY <1>1 DEF Onward, TaskStates, Window!Turned, Window!Saved
    <2> QED
      BY <1>1, <1>4, <2>1 DEF Onward
  <1> QED
    BY <1>2, <1>3, <1>4 DEF Window!Apply

\* Transfers that move onward, and a snapshot that is taken or left, keep completions
\* announced once.
LEMMA OnwardSound ==
  ASSUME WindowInv, UNCHANGED <<completed, baselined, notified>>, job' \in [Task -> TaskStates],
         \A j \in Task : Onward(job[j], job'[j]), snapshot' \in {snapshot, job'}
  PROVE  snapshot' \in [Task -> TaskStates] /\ \A j \in Task : CompletionSound(j)'
  <1>1. job \in [Task -> TaskStates] /\ snapshot \in [Task -> TaskStates]
    BY DEF WindowInv, Window!TypeOK, Window!Saved, TaskStates
  <1>2. ASSUME NEW j \in Task PROVE CompletionSound(j)'
    <2>1. CompletionSound(j) /\ Onward(job[j], job'[j])
      BY DEF WindowInv
    <2> QED
      BY <2>1 DEF CompletionSound, Onward
  <1> QED
    BY <1>1, <1>2

\* The types of everything but the transfers, when a step leaves the interface alone.
LEMMA UiTyped ==
  ASSUME WindowInv, UNCHANGED <<seen, shown, completed, baselined, notified>>,
         commands' \in Seq(Window!Command), Len(commands') <= Capacity,
         job' \in [Task -> TaskStates], snapshot' \in [Task -> TaskStates],
         messages' \in Seq(Window!Message), Len(messages') <= History, next_id' \in 0..MaxMessages,
         window' \in {"open", "minimized", "quitting", "waiting", "closed"}
  PROVE  Window!TypeOK'
  BY DEF WindowInv, Window!TypeOK, Window!Saved, TaskStates, Window!Message

\* Commands that are submitted, and the window itself: nothing shown changes.
LEMMA WindowMoves ==
  ASSUME WindowInv, UNCHANGED <<job, snapshot, messages, next_id, seen, shown, completed, baselined, notified>>,
         commands' \in Seq(Window!Command), Len(commands') <= Capacity,
         window' \in {"open", "minimized", "quitting", "waiting", "closed"}
  PROVE  WindowInv'
  <1>1. Window!Ids' = Window!Ids
    BY DEF Window!Ids, Window!Range
  <1>2. Window!TypeOK'
    BY <1>1 DEF WindowInv, Window!TypeOK, Window!Message
  <1>3. MessagesSound'
    BY <1>1 DEF WindowInv, MessagesSound, Window!Message, Window!Operational
  <1>4. \A j \in Task : CompletionSound(j)'
    BY DEF WindowInv, CompletionSound
  <1> QED
    BY <1>2, <1>3, <1>4 DEF WindowInv

\* The identifiers of a sequence of messages.
LEMMA IdsForm ==
  ASSUME WindowInv
  PROVE  /\ messages \in Seq(Window!Message) /\ Len(messages) \in Nat /\ Window!Message \subseteq Nat
         /\ Window!Ids = {messages[k] : k \in 1..Len(messages)} /\ Window!Ids \subseteq Window!Message
  <1>1. messages \in Seq(Window!Message) /\ Len(messages) \in Nat /\ DOMAIN messages = 1..Len(messages)
    BY DEF WindowInv, Window!TypeOK
  <1>2. Window!Ids = {messages[k] : k \in 1..Len(messages)}
    BY <1>1 DEF Window!Ids, Window!Range
  <1>3. \A k \in 1..Len(messages) : messages[k] \in Window!Message
    BY <1>1
  <1>4. Window!Ids \subseteq Window!Message
    BY <1>2, <1>3
  <1>5. Window!Message \subseteq Nat
    BY ApplicationsAssumption DEF HostConstants, Window!Message
  <1> QED
    BY <1>1, <1>2, <1>4, <1>5

\* record_message(): a new identifier comes, an old one may go.
LEMMA RecordForm ==
  ASSUME WindowInv, UNCHANGED <<seen, shown>>, Window!RecordMessage
  PROVE  /\ messages' \in Seq(Window!Message) /\ Len(messages') <= History /\ next_id' \in 0..MaxMessages
         /\ MessagesSound'
  <1> DEFINE all == Append(messages, next_id + 1)
             n == Len(messages)
  <1>1. /\ messages \in Seq(Window!Message) /\ n \in Nat /\ n <= History /\ next_id \in 0..MaxMessages /\ next_id < MaxMessages
        /\ next_id' = next_id + 1 /\ History \in Nat /\ MaxMessages \in Nat
    BY ApplicationsAssumption DEF HostConstants, WindowInv, Window!TypeOK, Window!RecordMessage
  <1>2. next_id + 1 \in Window!Message /\ next_id' \in 0..MaxMessages
    BY <1>1 DEF Window!Message
  <1>3. all \in Seq(Window!Message) /\ Len(all) = n + 1 /\ \A k \in 1..(n + 1) : all[k] = IF k = n + 1 THEN next_id + 1 ELSE messages[k]
    BY <1>1, <1>2
  <1>4. messages' = IF Len(all) > History THEN Tail(all) ELSE all
    BY <1>1 DEF Window!RecordMessage
  <1> HIDE DEF all, n
  <1>5. /\ messages' \in Seq(Window!Message) /\ Len(messages') <= History
        /\ \A k \in DOMAIN messages' : \E m \in 1..(n + 1) : messages'[k] = all[m]
    <2>1. CASE Len(all) > History
      <3>1. messages' = Tail(all) /\ Len(all) = History + 1 /\ all # <<>>
        BY <1>1, <1>3, <1>4, <2>1
      <3>2. messages' \in Seq(Window!Message) /\ Len(messages') = Len(all) - 1 /\ \A k \in 1..(Len(all) - 1) : messages'[k] = all[k + 1]
        BY <1>3, <3>1
      <3>3. DOMAIN messages' = 1..n
        BY <1>1, <1>3, <3>2
      <3>4. \A k \in DOMAIN messages' : k + 1 \in 1..(n + 1) /\ messages'[k] = all[k + 1]
        BY <1>1, <1>3, <3>2, <3>3
      <3> QED
        BY <1>1, <3>1, <3>2, <3>4
    <2>2. CASE ~(Len(all) > History)
      BY <1>1, <1>3, <1>4, <2>2
    <2> QED
      BY <2>1, <2>2
  <1>6. Window!Ids' = {messages'[k] : k \in DOMAIN messages'}
    BY DEF Window!Ids, Window!Range
  <1>7. Window!Ids' \subseteq Window!Ids \cup {next_id + 1}
    <2>1. Window!Ids = {messages[k] : k \in 1..n}
      BY IdsForm DEF n
    <2>2. \A m \in 1..(n + 1) : all[m] \in Window!Ids \cup {next_id + 1}
      <3>1. SUFFICES ASSUME NEW m \in 1..(n + 1), m # n + 1 PROVE m \in 1..n
        BY <1>1, <1>3, <2>1
      <3> QED
        BY <1>1, <3>1 DEF n
    <2> QED
      BY <1>5, <1>6, <2>2
  <1>8. MessagesSound' 
    <2>1. Window!Message \subseteq Nat /\ Window!Ids \subseteq Window!Message /\ seen \subseteq Window!Message
      BY IdsForm DEF WindowInv, Window!TypeOK
    <2>2. \A i \in (Window!Ids \cup seen)' : i <= next_id'
      BY <1>1, <1>7, <2>1 DEF WindowInv, MessagesSound
    <2>3. \A i \in Window!Message : shown[i] # 0 => i <= next_id' /\ (i \in Window!Ids' => i \in seen')
      BY <1>1, <1>7, <2>1 DEF WindowInv, MessagesSound
    <2> QED
      BY <2>2, <2>3 DEF WindowInv, MessagesSound, Window!Message, Window!Operational
  <1> QED
    BY <1>2, <1>5, <1>8, <1>1

\* handle(), publish() and the end of a transfer: the worker moves transfers onward.
LEMMA TransferMoves ==
  ASSUME WindowInv, Window!Handle \/ Window!Publish \/ \E j \in Task : Window!JobEnds(j)
  PROVE  WindowInv'
  <1>1. UNCHANGED <<seen, shown, completed, baselined, notified, window>>
    BY DEF Window!Handle, Window!Publish, Window!JobEnds, Window!ui
  <1>2. job \in [Task -> TaskStates] /\ snapshot \in [Task -> TaskStates] /\ commands \in Seq(Window!Command) /\ Len(commands) <= Capacity
    BY DEF WindowInv, Window!TypeOK, Window!Saved, TaskStates
  <1>3. job' \in [Task -> TaskStates] /\ \A j \in Task : Onward(job[j], job'[j])
    <2>1. CASE job' = job
      BY <1>2, <2>1 DEF Onward
    <2>2. CASE Window!Apply(Head(commands))
      BY <2>2, ApplyForm
    <2>3. ASSUME NEW j \in Task, Window!JobEnds(j) PROVE job' \in [Task -> TaskStates] /\ \A i \in Task : Onward(job[i], job'[i])
      BY <1>2, <2>3 DEF Window!JobEnds, Onward, TaskStates
    <2> QED
      BY <2>1, <2>2, <2>3 DEF Window!Handle, Window!Publish
  <1>4. snapshot' \in {snapshot, job'}
    BY DEF Window!Handle, Window!Publish, Window!JobEnds
  <1>5. snapshot' \in [Task -> TaskStates] /\ \A j \in Task : CompletionSound(j)'
    BY <1>1, <1>3, <1>4, OnwardSound
  <1>6. commands' \in Seq(Window!Command) /\ Len(commands') <= Capacity
    <2>1. CASE commands' = commands
      BY <1>2, <2>1
    <2>2. CASE commands # <<>> /\ commands' = Tail(commands)
      <3>1. Len(commands) \in Nat /\ commands' \in Seq(Window!Command) /\ Len(commands') = Len(commands) - 1
        BY <1>2, <2>2
      <3> QED
        BY <1>2, <3>1, ApplicationsAssumption DEF HostConstants
    <2> QED
      BY <2>1, <2>2 DEF Window!Handle, Window!Publish, Window!JobEnds
  <1>7. messages' \in Seq(Window!Message) /\ Len(messages') <= History /\ next_id' \in 0..MaxMessages /\ MessagesSound'
    <2>1. CASE Window!RecordMessage
      BY <1>1, <2>1, RecordForm
    <2>2. CASE UNCHANGED <<messages, next_id>>
      <3>1. Window!Ids' = Window!Ids
        BY <2>2 DEF Window!Ids, Window!Range
      <3>2. MessagesSound'
        BY <1>1, <2>2, <3>1 DEF WindowInv, MessagesSound, Window!Message, Window!Operational
      <3> QED
        BY <2>2, <3>2 DEF WindowInv, Window!TypeOK, Window!Message
    <2> QED
      BY <2>1, <2>2 DEF Window!Handle, Window!Publish, Window!JobEnds
  <1>8. Window!TypeOK'
    BY <1>1, <1>3, <1>5, <1>6, <1>7, UiTyped DEF WindowInv, Window!TypeOK
  <1> QED
    BY <1>5, <1>7, <1>8 DEF WindowInv

\* One round of the window's loop: what was not seen is shown, what was not complete in
\* the last round is announced.
LEMMA PollMoves ==
  ASSUME WindowInv, Window!Poll
  PROVE  WindowInv'
  <1>1. UNCHANGED <<commands, job, snapshot, messages, next_id, window>> /\ baselined' = TRUE
    BY DEF Window!Poll
  <1>2. Window!Ids' = Window!Ids
    BY <1>1 DEF Window!Ids, Window!Range
  <1>3. seen' = Window!Ids
    BY DEF Window!Poll, Window!Remembered, Window!TakeMessages
  <1>4. /\ Window!Message \subseteq Nat /\ Window!Ids \subseteq Window!Message
        /\ shown \in [Window!Message -> Nat] /\ notified \in [Task -> Nat]
    BY IdsForm DEF WindowInv, Window!TypeOK
  <1>5. shown' = [i \in Window!Message |-> shown[i] + (IF i \in Window!Ids \ seen /\ Window!Operational(i) THEN 1 ELSE 0)]
    BY DEF Window!Poll, Window!TakeMessages
  <1>6. /\ completed' = {j \in Task : snapshot[j] = "complete"}
        /\ notified' = [j \in Task |-> notified[j]
                          + (IF baselined /\ snapshot[j] = "complete" /\ j \notin completed THEN 1 ELSE 0)
                          + (IF ~baselined /\ snapshot[j] = "complete" THEN 1 ELSE 0)]
    BY DEF Window!Poll, Window!NewlyCompleted
  <1>7. shown' \in [Window!Message -> Nat] /\ notified' \in [Task -> Nat]
    BY <1>4, <1>5, <1>6
  <1>8. Window!TypeOK'
    BY <1>1, <1>3, <1>4, <1>6, <1>7 DEF WindowInv, Window!TypeOK, Window!Message
  <1>9. MessagesSound'
    <2>1. ASSUME NEW i \in Window!Message
          PROVE  /\ shown'[i] # 0 => i <= next_id /\ (i \in Window!Ids => i \in seen')
                 /\ shown'[i] <= (IF Window!Operational(i) THEN 1 ELSE 0)
      <3>1. CASE i \in Window!Ids \ seen /\ Window!Operational(i)
        <4>1. shown[i] = 0 /\ shown[i] \in Nat /\ i <= next_id
          BY <1>4, <3>1 DEF WindowInv, MessagesSound
        <4> QED
          BY <1>3, <1>5, <3>1, <4>1
      <3>2. CASE ~(i \in Window!Ids \ seen /\ Window!Operational(i))
        <4>1. shown'[i] = shown[i]
          BY <1>4, <1>5, <3>2
        <4> QED
          BY <1>3, <4>1 DEF WindowInv, MessagesSound
      <3> QED
        BY <3>1, <3>2
    <2>2. \A i \in Window!Ids \cup seen' : i <= next_id
      BY <1>3 DEF WindowInv, MessagesSound
    <2> QED
      BY <1>1, <1>2, <2>1, <2>2 DEF MessagesSound, Window!Message, Window!Operational
  <1>10. ASSUME NEW j \in Task PROVE CompletionSound(j)'
    <2>1. CompletionSound(j) /\ notified[j] \in Nat
      BY <1>4 DEF WindowInv
    <2> QED
      BY <1>1, <1>6, <2>1 DEF CompletionSound
  <1> QED
    BY <1>8, <1>9, <1>10 DEF WindowInv

\* The first snapshot has no rows, and nothing was announced.
LEMMA WindowStarts ==
  ASSUME Window!Init
  PROVE  WindowInv
  <1>1. commands \in Seq(Window!Command) /\ Len(commands) = 0 /\ messages \in Seq(Window!Message) /\ Len(messages) = 0
    BY DEF Window!Init
  <1>2. Capacity \in Nat /\ History \in Nat /\ MaxMessages \in Nat
    BY ApplicationsAssumption DEF HostConstants
  <1>3. Window!TypeOK
    <2>1. job \in [Task -> TaskStates] /\ snapshot \in [Task -> TaskStates]
      BY DEF Window!Init, Window!Saved, TaskStates
    <2>2. shown \in [Window!Message -> Nat] /\ notified \in [Task -> Nat]
      BY DEF Window!Init
    <2>3. next_id \in 0..MaxMessages
      BY <1>2 DEF Window!Init
    <2>4. seen \subseteq Window!Message /\ completed \subseteq Task /\ baselined \in BOOLEAN /\ window = "open"
      BY Zenon DEF Window!Init
    <2>5. Len(commands) <= Capacity /\ Len(messages) <= History
      BY <1>1, <1>2
    <2> QED
      BY <1>1, <2>1, <2>2, <2>3, <2>4, <2>5 DEF Window!TypeOK, Window!Saved, TaskStates
  <1>4. Window!Ids = {}
    BY DEF Window!Init, Window!Ids, Window!Range
  <1>5. MessagesSound
    BY <1>4 DEF Window!Init, MessagesSound
  <1>6. \A j \in Task : CompletionSound(j)
    BY DEF Window!Init, CompletionSound
  <1> QED
    BY <1>3, <1>5, <1>6 DEF WindowInv

\* dispatch(), the buttons of the window and its end.
LEMMA FrameMoves ==
  ASSUME WindowInv,
         \/ \E command \in Window!Command : Window!Dispatch(command)
         \/ Window!Close \/ Window!Show \/ Window!Quit \/ Window!SubmitShutdown
         \/ \E timeout \in BOOLEAN : Window!End(timeout)
  PROVE  WindowInv'
  <1>1. UNCHANGED <<job, snapshot, messages, next_id, seen, shown, completed, baselined, notified>>
    BY DEF Window!Dispatch, Window!Close, Window!Show, Window!Quit, Window!SubmitShutdown, Window!End, Window!ui
  <1>2. window' \in {"open", "minimized", "quitting", "waiting", "closed"}
    BY DEF WindowInv, Window!TypeOK, Window!Dispatch, Window!Close, Window!Show, Window!Quit, Window!SubmitShutdown, Window!End
  <1>3. commands' \in Seq(Window!Command) /\ Len(commands') <= Capacity
    <2>1. commands \in Seq(Window!Command) /\ Len(commands) <= Capacity /\ Len(commands) \in Nat /\ Capacity \in Nat
      BY ApplicationsAssumption DEF HostConstants, WindowInv, Window!TypeOK
    <2>2. Window!Shutdown \in Window!Command
      BY DEF Window!Command
    <2>3. ASSUME NEW c \in Window!Command, Len(commands) < Capacity, commands' = Append(commands, c)
          PROVE  commands' \in Seq(Window!Command) /\ Len(commands') <= Capacity
      BY <2>1, <2>3
    <2> QED
      BY <2>1, <2>2, <2>3 DEF Window!Dispatch, Window!Close, Window!Show, Window!Quit, Window!SubmitShutdown, Window!End
  <1> QED
    BY <1>1, <1>2, <1>3, WindowMoves

\* ingress.rs and app.rs: whichever process is killed or dropped at whatever point, the one
\* that serves the window can be reached and is the only one, inputs are accepted once, and
\* a failure or a completion is announced at most once, a completion the first poll
\* found not at all.
THEOREM HostAlwaysSafe == Ingress!Spec /\ Window!Spec => []DesktopHostSafe
  <1>1. IngressInv /\ Ingress!Next => IngressInv'
    BY OwnerMoves, ForwardMoves, PanelRoutes, EndMoves DEF Ingress!Next
  <1>2. IngressInv /\ UNCHANGED ingressVars => IngressInv'
    BY DEF ingressVars, IngressInv, Ingress!TypeOK, OwnersSound, AcceptedSound
  <1>3. Ingress!Spec => []IngressInv
    BY <1>1, <1>2, IngressStarts, PTL DEF Ingress!Spec, ingressVars, Ingress!vars
  <1>4. WindowInv /\ Window!Next => WindowInv'
    BY TransferMoves, PollMoves, FrameMoves DEF Window!Next
  <1>5. WindowInv /\ UNCHANGED windowVars => WindowInv'
    BY WindowMoves DEF windowVars, WindowInv, Window!TypeOK
  <1>6. Window!Spec => []WindowInv
    BY <1>4, <1>5, WindowStarts, PTL DEF Window!Spec, windowVars, Window!vars
  <1>7. IngressInv /\ WindowInv => DesktopHostSafe
    BY DEF IngressInv, OwnersSound, AcceptedSound, Owning, Ingress!OwnerReachable, Ingress!ForwardedOnce, Ingress!Serves,
       WindowInv, MessagesSound, CompletionSound, Window!AnnouncedOnce, DesktopHostSafe
  <1> QED
    BY <1>3, <1>6, <1>7, PTL
=============================================================================
