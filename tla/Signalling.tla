----------------------------- MODULE Signalling -----------------------------
(***************************************************************************)
(* The signalling endpoints of live shares on the server                   *)
(* (WebRtcTransferController, and destroy() and consume() of               *)
(* TransferController): the row of one transfer in the database, and its   *)
(* receiver sessions in the cache, which every request reads, changes and  *)
(* writes back as a whole under a cache lock.                              *)
(*                                                                         *)
(* The lock is a lease of five seconds: a request that is slower goes on   *)
(* without it.  end(), destroy() and removal revoke the sessions without   *)
(* the lock.  Capabilities are preconditions, except that of consume().    *)
(***************************************************************************)
EXTENDS Naturals, FiniteSets

CONSTANTS
  Request,      \* requests the server can work on at a time
  Session,      \* session ULIDs
  Description,  \* SDP descriptions
  Limit,        \* filebeam.webrtc.session_limit
  Burn,         \* values of "a burn-on-read note"
  MaxEvents,    \* bound on leases and caches lost and ticks of the clock together
  None

VARIABLES
  row,     \* the transfer: status, and the session that claimed a burn note
  cached,  \* the session list in the cache, by session
  pulse,   \* when the heartbeat of the sender runs out
  lock,    \* the request whose lease of the cache lock runs, or None
  req,     \* the requests being worked on
  ack,     \* ack[s]: the session as the last successful answer left it
  now,     \* the clock, in units of session_idle_seconds
  faults   \* leases that ran out under their holder, and caches lost

vars == <<row, cached, pulse, lock, req, ack, now, faults>>

\* cancelled is treated as failed is, and waiting as active: the progress of a session
\* is left out
Terminal == {"completed", "failed"}
Idle == [op |-> "none", pc |-> "idle", s |-> None, d |-> None, list |-> None]
NoSessions == [s \in Session |-> None]

\* newSession()
NewSession == [offer |-> None, answer |-> None, status |-> "active", until |-> now + 1]

SenderIsLive == pulse > now

Fresh(list, s) == list[s] # None /\ list[s].until > now

Prune(list) == [s \in Session |-> IF Fresh(list, s) THEN list[s] ELSE None]

Admitted(list) == {s \in Session : list[s] # None /\ list[s].status \notin Terminal}

\* register() forgets what has ended before it counts
WithoutEnded(list) == [s \in Session |-> IF s \in Admitted(list) THEN list[s] ELSE None]

Step(r, next) == req' = [req EXCEPT ![r] = next]

\* The lock is released only by its owner
Release(r) == lock' = IF lock = r THEN None ELSE lock

\* abort(): the request ends, nothing is written
Abort(r) == Step(r, Idle) /\ Release(r) /\ UNCHANGED <<row, cached, pulse, ack, now, faults>>
-----------------------------------------------------------------------------
(* Requests that use the session list.                                     *)

\* A receiver's requests, and a consume(), carry a session they were told of.  An
\* update() of an active session does what show() does.
Ops ==
  [op : {"sessions"}, s : {None}, d : {None}] \cup
  [op : {"register"}, s : {x \in Session : ack[x] = None}, d : {None}] \cup
  [op : {"offer"}, s : {x \in Session : ack[x] # None}, d : Description] \cup
  [op : {"answer"}, s : Session, d : Description] \cup
  [op : {"show", "consume"}, s : {x \in Session : ack[x] # None}, d : {None}] \cup
  [op : {"update"}, s : {x \in Session : ack[x] # None}, d : Terminal]

\* A new session's ULID is nobody else's
Unclaimed(o) == o.op = "register" => \A q \in Request : req[q].s # o.s

\* withSessions() and prune(): the lock, and the list as it is now.  A request that waits for the
\* lock, or gives up after three seconds, changes nothing; what it checks on the way in
\* it checks again under the lock.
Enter(r) ==
  /\ req[r].pc = "idle" /\ lock = None
  /\ \E o \in Ops :
       /\ Unclaimed(o)
       /\ o.op # "consume" => row.status = "live"
       /\ o.op \in {"register", "answer", "show"} => SenderIsLive
       /\ Step(r, [op |-> o.op, pc |-> "in", s |-> o.s, d |-> o.d,
                   list |-> IF o.op = "consume" THEN None ELSE Prune(cached)])
  /\ lock' = r
  /\ UNCHANGED <<row, cached, pulse, ack, now, faults>>

\* What offer(), answer(), show() and update() do to their entry, None when they abort
Mutated(q, e) ==
  LET refreshed == [e EXCEPT !.until = now + 1]
      open == e.status \notin Terminal
  IN CASE q.op = "offer" -> IF open /\ e.offer \in {None, q.d}
                            THEN [refreshed EXCEPT !.offer = q.d] ELSE None
       [] q.op = "answer" -> IF open /\ e.offer # None /\ e.answer \in {None, q.d}
                             THEN [e EXCEPT !.answer = q.d] ELSE None
       [] q.op = "show" -> IF open THEN refreshed ELSE e
       [] q.op = "update" -> IF open THEN [refreshed EXCEPT !.status = q.d]
                             ELSE IF e.status = q.d THEN e ELSE None

\* assertCurrentLive(), senderIsLive() and the change of the list
Check(r) ==
  LET q == req[r]
      list == q.list
      next == IF q.op \in {"sessions", "register"} THEN list
              ELSE IF list[q.s] = None \/ Mutated(q, list[q.s]) = None THEN None
              ELSE [list EXCEPT ![q.s] = Mutated(q, list[q.s])]
      capacity == Cardinality(Admitted(list)) < Limit
  IN /\ q.pc = "in" /\ q.op # "consume"
     /\ IF /\ row.status = "live" /\ (q.op # "sessions" => SenderIsLive)
           /\ next # None /\ (q.op = "register" => capacity)
        THEN /\ pulse' = IF q.op = "sessions" THEN now + 1 ELSE pulse
             /\ Step(r, IF q.op = "register"
                        THEN [Idle EXCEPT !.pc = "claim", !.s = q.s, !.list = WithoutEnded(next)]
                        ELSE [Idle EXCEPT !.pc = "put", !.s = q.s, !.list = next])
             /\ UNCHANGED <<row, cached, lock, ack, now, faults>>
        ELSE Abort(r)

\* Faulty variant: a claim whose session the cache has lost is given away again.
MayClaimAgain(list) == row.burn /\ row.claimed # None => list[row.claimed] = None

\* "A reservation is deliberately never reassigned"
MayClaim(list) == row.burn => row.claimed = None

\* register(): the transaction on the row
Claim(r) ==
  LET q == req[r]
  IN /\ q.pc = "claim"
     /\ IF row.status = "live" /\ MayClaim(q.list)
        THEN /\ row' = IF row.burn THEN [row EXCEPT !.claimed = q.s] ELSE row
             /\ Step(r, [q EXCEPT !.pc = "put", !.list = [q.list EXCEPT ![q.s] = NewSession]])
             /\ UNCHANGED <<cached, pulse, lock, ack, now, faults>>
        ELSE Abort(r)

\* Cache::put() and the answer
Put(r) ==
  /\ req[r].pc = "put"
  /\ cached' = req[r].list
  /\ ack' = IF req[r].s = None THEN ack ELSE [ack EXCEPT ![req[r].s] = req[r].list[req[r].s]]
  /\ Step(r, Idle) /\ Release(r)
  /\ UNCHANGED <<row, pulse, now, faults>>

\* consume(): the transaction, which reads the cache too; token_hash is the session's
Consume(r) ==
  LET q == req[r]
  IN /\ q.pc = "in" /\ q.op = "consume"
     /\ IF /\ row.burn /\ row.status = "live" /\ row.claimed = q.s
           /\ Fresh(cached, q.s)
        THEN /\ row' = [row EXCEPT !.status = "deleting"]
             /\ Step(r, [Idle EXCEPT !.pc = "revoke"])
             /\ UNCHANGED <<cached, pulse, lock, ack, now, faults>>
        ELSE Abort(r)
-----------------------------------------------------------------------------
(* Requests that do not.                                                   *)

\* publish(): the transaction, and then the heartbeat
Publish(r) ==
  /\ req[r].pc = "idle" /\ row.status \in {"pending", "live"}
  /\ row' = [row EXCEPT !.status = "live"]
  /\ Step(r, [Idle EXCEPT !.pc = "pulse"])
  /\ UNCHANGED <<cached, pulse, lock, ack, now, faults>>

PulseSender(r) ==
  /\ req[r].pc = "pulse"
  /\ pulse' = now + 1 /\ Step(r, Idle)
  /\ UNCHANGED <<row, cached, lock, ack, now, faults>>

\* end(); destroy(), a takedown and pruning with RemoveTransfer
End(r) ==
  /\ req[r].pc = "idle"
  /\ \/ row.status \in {"live", "ended"} /\ row' = [row EXCEPT !.status = "ended"]
     \/ row.status # "deleting" /\ row' = [row EXCEPT !.status = "deleting"]
  /\ Step(r, [Idle EXCEPT !.pc = "revoke"])
  /\ UNCHANGED <<cached, pulse, lock, ack, now, faults>>

\* revoke()
Revoke(r) ==
  /\ req[r].pc = "revoke"
  /\ cached' = NoSessions /\ pulse' = 0
  /\ Step(r, Idle) /\ Release(r)
  /\ UNCHANGED <<row, ack, now, faults>>
-----------------------------------------------------------------------------
(* Faults and time.                                                        *)

\* A request dies, or its client is gone: the lock stays
Die(r) ==
  /\ req[r].pc # "idle"
  /\ Step(r, Idle)
  /\ UNCHANGED <<row, cached, pulse, lock, ack, now, faults>>

Working(r) == req[r].pc \notin {"idle", "pulse"}

\* The lease runs out, under a request that died or one that is slow
LeaseExpires ==
  /\ lock # None
  /\ IF Working(lock) THEN now + faults < MaxEvents /\ faults' = faults + 1 ELSE UNCHANGED faults
  /\ lock' = None
  /\ UNCHANGED <<row, cached, pulse, req, ack, now>>

\* The cache is flushed or evicts its entries
CacheLost ==
  /\ now + faults < MaxEvents /\ faults' = faults + 1
  /\ cached' = NoSessions /\ pulse' = 0
  /\ UNCHANGED <<row, lock, req, ack, now>>

Tick ==
  /\ now + faults < MaxEvents /\ now' = now + 1
  /\ UNCHANGED <<row, cached, pulse, lock, req, ack, faults>>

Init ==
  /\ row \in [status : {"pending"}, claimed : {None}, burn : Burn]
  /\ cached = NoSessions /\ pulse = 0 /\ lock = None
  /\ req = [r \in Request |-> Idle] /\ ack = NoSessions
  /\ now = 0 /\ faults = 0

Next ==
  \/ \E r \in Request :
       \/ Enter(r)
       \/ Check(r)
       \/ Claim(r)
       \/ Put(r)
       \/ Consume(r)
       \/ Publish(r)
       \/ PulseSender(r)
       \/ End(r)
       \/ Revoke(r)
       \/ Die(r)
  \/ LeaseExpires
  \/ CacheLost
  \/ Tick

Spec == Init /\ [][Next]_vars
-----------------------------------------------------------------------------
(* Properties.                                                             *)

Entry ==
  [offer : Description \cup {None}, answer : Description \cup {None},
   status : {"active"} \cup Terminal, until : 1..(MaxEvents + 1)]

Sessions == [Session -> Entry \cup {None}]

\* Constants as the server configures them.
SignallingConstants ==
  /\ IsFiniteSet(Session) /\ Limit \in Nat /\ MaxEvents \in Nat /\ Burn \subseteq BOOLEAN
  /\ None \notin Session /\ None \notin Request /\ None \notin Entry /\ None \notin Sessions
  /\ None \notin Description

ASSUME SignallingAssumption == SignallingConstants

\* Every variable has its type.
TypeOK ==
  /\ row.status \in {"pending", "live", "ended", "deleting"} /\ row.claimed \in Session \cup {None}
  /\ \A s \in Session : {cached[s], ack[s]} \subseteq Entry \cup {None}
  /\ pulse \in 0..(MaxEvents + 1) /\ lock \in Request \cup {None}
  /\ \A r \in Request :
       req[r].pc \in {"idle", "in", "claim", "put", "revoke", "pulse"}

\* register(): whatever leases run out, requests die and caches are lost, no two
\* receivers are ever admitted to a burn-on-read note.
BurnClaimedOnce ==
  row.burn => \A s \in Session : ack[s] # None \/ cached[s] # None => row.claimed = s

\* register(): the receivers that are served are never more than the limit, also when
\* two requests work on the list at once.
CapacityHeld == Cardinality(Admitted(Prune(cached))) <= Limit

\* withSessions(): while every holder keeps its lease, what a client was answered is
\* what the list says: a session that has not expired is not lost, its descriptions
\* do not change and what has ended stays ended.
AcknowledgedKept ==
  faults = 0 /\ row.status = "live" =>
    \A s \in Session : Fresh(ack, s) =>
      IF cached[s] = None THEN ack[s].status \in Terminal
      ELSE /\ ack[s].offer # None => cached[s].offer = ack[s].offer
           /\ ack[s].answer # None => cached[s].answer = ack[s].answer
           /\ ack[s].status \in Terminal => cached[s].status = ack[s].status

\* end(): a list that a request writes back after it was revoked is of no use to
\* anybody, for the transfer never becomes live again.
EndedIsFinalStep ==
  /\ row.status \in {"ended", "deleting"} => row'.status \in {"ended", "deleting"}
  /\ row.status = "deleting" => row'.status = "deleting"

\* All of the above: what the signalling endpoints promise receivers and senders.
SignallingSafe ==
  /\ [](TypeOK /\ BurnClaimedOnce /\ CapacityHeld /\ AcknowledgedKept)
  /\ [][EndedIsFinalStep]_vars
=============================================================================
