-------------------------- MODULE SignallingProofs --------------------------
(***************************************************************************)
(* The signalling endpoints, proved for every number of requests,          *)
(* sessions and descriptions, every limit and every number of faults.      *)
(***************************************************************************)
EXTENDS Signalling, FiniteSetTheorems, TLAPS

(* The inductive invariant.                                                *)

\* Requests that work on a copy of the session list.
Listing(q) == q.pc \in {"claim", "put"} \/ (q.pc = "in" /\ q.op # "consume")

RequestTyped(q) ==
  /\ DOMAIN q = {"op", "pc", "s", "d", "list"}
  /\ q.pc \in {"idle", "in", "claim", "put", "revoke", "pulse"}
  /\ q.s \in Session \cup {None}
  /\ Listing(q) => q.list \in Sessions
  /\ q.pc = "claim" => q.s \in Session
  /\ q.pc = "in" =>
       \/ q.op = "sessions" /\ q.s = None
       \/ q.op \in {"register", "show", "consume"} /\ q.s \in Session
       \/ q.op \in {"offer", "answer"} /\ q.s \in Session /\ q.d \in Description
       \/ q.op = "update" /\ q.s \in Session /\ q.d \in Terminal

\* The types of the variables, in full.
Typed ==
  /\ row \in [status : {"pending", "live", "ended", "deleting"}, claimed : Session \cup {None}, burn : BOOLEAN]
  /\ cached \in Sessions /\ ack \in Sessions
  /\ pulse \in 0..(MaxEvents + 1) /\ lock \in Request \cup {None}
  /\ now \in Nat /\ faults \in Nat /\ now + faults <= MaxEvents
  /\ DOMAIN req = Request /\ \A r \in Request : RequestTyped(req[r])

\* A request that revokes has ended the transfer first.
RevokedEnded == \A r \in Request : req[r].pc = "revoke" => row.status \in {"ended", "deleting"}

\* Every copy of the list respects the limit, and register() keeps a place free.
Room(list) == Cardinality(Admitted(list)) <= Limit

RoomKept ==
  /\ Room(cached)
  /\ \A r \in Request : /\ Listing(req[r]) => Room(req[r].list)
                        /\ req[r].pc = "claim" => Cardinality(Admitted(req[r].list)) < Limit

\* No copy of the list has another session than the one that claimed a burn note.
ClaimedOnly(list) == \A s \in Session : list[s] # None => row.claimed = s

ClaimsKept ==
  row.burn => /\ ClaimedOnly(cached) /\ ClaimedOnly(ack)
              /\ \A r \in Request : Listing(req[r]) => ClaimedOnly(req[r].list)

\* Without faults the lock excludes.
Exclusive == faults = 0 => \A r \in Request : Listing(req[r]) => lock = r

\* A list has what the clients were answered, except what has expired or ended.
Answered(list, s) ==
  \/ list[s] = ack[s]
  \/ list[s] = None /\ (ack[s].until <= now \/ ack[s].status \in Terminal)

AnswersKept ==
  faults = 0 /\ row.status \in {"pending", "live"} =>
    /\ \A s \in Session : Answered(cached, s)
    /\ \A r \in Request : Listing(req[r]) =>
         \A s \in Session : (req[r].pc = "put" /\ req[r].s = s) \/ Answered(req[r].list, s)

SignallingInv == Typed /\ RevokedEnded /\ RoomKept /\ ClaimsKept /\ Exclusive /\ AnswersKept

-----------------------------------------------------------------------------
(* Lists.                                                                  *)

\* A request moves and leaves the others alone.
LEMMA Stepped ==
  ASSUME Typed, NEW r \in Request, NEW next, Step(r, next)
  PROVE  /\ req'[r] = next /\ DOMAIN req' = Request
         /\ \A q \in Request : q # r => req'[q] = req[q]
  BY DEF Typed, Step

\* Pruning drops what has expired and changes nothing else.
LEMMA Pruned ==
  ASSUME NEW list \in Sessions
  PROVE  /\ Prune(list) \in Sessions
         /\ \A s \in Session : Prune(list)[s] = list[s] \/ (Prune(list)[s] = None /\ (list[s] # None => ~(list[s].until > now)))
  BY DEF Prune, Fresh, Sessions

\* What has fewer admitted sessions has room.
LEMMA FewerAdmitted ==
  ASSUME SignallingConstants, NEW list, NEW other, Admitted(other) \subseteq Admitted(list)
  PROVE  Cardinality(Admitted(other)) <= Cardinality(Admitted(list)) /\ Cardinality(Admitted(list)) \in Nat
         /\ Cardinality(Admitted(other)) \in Nat
  <1>1. IsFiniteSet(Admitted(list))
    BY FS_Subset DEF SignallingConstants, Admitted
  <1> QED
    BY <1>1, FS_Subset, FS_CardinalityType

\* One more session needs one more place.
LEMMA OneMoreAdmitted ==
  ASSUME SignallingConstants, NEW list, NEW other, NEW s \in Session, Admitted(other) \subseteq Admitted(list) \cup {s}
  PROVE  Cardinality(Admitted(other)) <= Cardinality(Admitted(list)) + 1
  <1>1. IsFiniteSet(Admitted(list)) /\ Cardinality(Admitted(list)) \in Nat
    BY FS_Subset, FS_CardinalityType DEF SignallingConstants, Admitted
  <1>2. IsFiniteSet(Admitted(list) \cup {s}) /\ Cardinality(Admitted(list) \cup {s}) \in Nat
        /\ Cardinality(Admitted(list) \cup {s}) <= Cardinality(Admitted(list)) + 1
    BY <1>1, FS_AddElement
  <1>3. Cardinality(Admitted(other)) <= Cardinality(Admitted(list) \cup {s}) /\ Cardinality(Admitted(other)) \in Nat
    BY <1>2, FS_Subset, FS_CardinalityType
  <1> QED
    BY <1>1, <1>2, <1>3

\* An empty list has room.
LEMMA NobodyAdmitted ==
  ASSUME SignallingConstants
  PROVE  Room(NoSessions) /\ NoSessions \in Sessions
  <1>1. Admitted(NoSessions) = {}
    BY DEF Admitted, NoSessions
  <1> QED
    BY <1>1, FS_EmptySet DEF Room, SignallingConstants, Sessions, NoSessions

-----------------------------------------------------------------------------
(* The steps.                                                              *)

Ended == {"ended", "deleting"}

\* What a request that works on a list must have established.
Prepared(q, claimed) ==
  /\ Room(q.list) /\ (q.pc = "claim" => Cardinality(Admitted(q.list)) < Limit)
  /\ row.burn => \A s \in Session : q.list[s] # None => claimed = s
  /\ faults = 0 /\ row.status \notin Ended =>
       \A s \in Session : (q.pc = "put" /\ q.s = s) \/ Answered(q.list, s)

\* Steps of one request that leave the cache, the clients and the clock alone.
LEMMA RequestMoves ==
  ASSUME SignallingConstants, SignallingInv, NEW r \in Request,
         DOMAIN req' = Request, \A q \in Request : q # r => req'[q] = req[q],
         UNCHANGED <<cached, ack, now, faults>>, pulse' \in 0..(MaxEvents + 1),
         lock' = lock \/ (lock = r /\ lock' = None) \/ (lock = None /\ lock' = r),
         row' \in [status : {"pending", "live", "ended", "deleting"}, claimed : Session \cup {None}, burn : BOOLEAN],
         row'.burn = row.burn, row'.claimed = row.claimed \/ row.claimed = None,
         row.status \in Ended => row'.status \in Ended,
         RequestTyped(req'[r]), req'[r].pc = "revoke" => row'.status \in Ended,
         Listing(req'[r]) => Prepared(req'[r], row'.claimed) /\ (faults = 0 => lock' = r)
  PROVE  SignallingInv'
  <1> USE DEF SignallingInv
  <1>1. Typed'
    BY DEF Typed, SignallingConstants
  <1>2. RevokedEnded'
    BY DEF RevokedEnded, Ended
  <1>3. RoomKept'
    <2>1. Room(cached)'
      BY DEF RoomKept, Room, Admitted
    <2>2. ASSUME NEW q \in Request, Listing(req'[q])
          PROVE  Room(req'[q].list) /\ (req'[q].pc = "claim" => Cardinality(Admitted(req'[q].list)) < Limit)
      <3>1. CASE q = r
        BY <2>2, <3>1 DEF Prepared
      <3>2. CASE q # r
        BY <2>2, <3>2 DEF RoomKept
      <3> QED
        BY <3>1, <3>2
    <2>3. \A q \in Request : req'[q].pc = "claim" => Listing(req'[q])
      BY DEF Listing
    <2> QED
      BY <2>1, <2>2, <2>3 DEF RoomKept, Room, Admitted, Listing
  <1>4. ClaimsKept'
    <2> SUFFICES ASSUME row.burn
                 PROVE  /\ ClaimedOnly(cached)' /\ ClaimedOnly(ack)'
                        /\ \A q \in Request : Listing(req[q])' => ClaimedOnly(req[q].list)'
      BY DEF ClaimsKept
    <2>1. \A list : ClaimedOnly(list) => \A s \in Session : list[s] # None => row'.claimed = s
      BY DEF ClaimedOnly, SignallingConstants
    <2>2. ClaimedOnly(cached) /\ ClaimedOnly(ack) /\ \A q \in Request : Listing(req[q]) => ClaimedOnly(req[q].list)
      BY DEF ClaimsKept
    <2>3. ASSUME NEW q \in Request, Listing(req'[q])
          PROVE  \A s \in Session : req'[q].list[s] # None => row'.claimed = s
      <3>1. CASE q = r
        BY <2>3, <3>1 DEF Prepared
      <3>2. CASE q # r
        BY <2>1, <2>2, <2>3, <3>2
      <3> QED
        BY <3>1, <3>2
    <2> QED
      BY <2>1, <2>2, <2>3 DEF ClaimedOnly, Listing
  <1>5. Exclusive'
    <2> SUFFICES ASSUME faults = 0, NEW q \in Request, Listing(req'[q])
                 PROVE  lock' = q
      BY DEF Exclusive, Listing
    <2>1. CASE q = r
      BY <2>1
    <2>2. CASE q # r
      BY <2>2 DEF Exclusive, SignallingConstants
    <2> QED
      BY <2>1, <2>2
  <1>6. AnswersKept'
    <2> SUFFICES ASSUME faults = 0, row'.status \in {"pending", "live"}
                 PROVE  /\ \A s \in Session : Answered(cached, s)
                        /\ \A q \in Request : Listing(req'[q]) =>
                             \A s \in Session : (req'[q].pc = "put" /\ req'[q].s = s) \/ Answered(req'[q].list, s)
      BY DEF AnswersKept, Answered, Listing
    <2>1. row.status \notin Ended /\ row.status \in {"pending", "live"}
      BY DEF Ended, Typed
    <2>2. /\ \A s \in Session : Answered(cached, s)
          /\ \A q \in Request : Listing(req[q]) =>
               \A s \in Session : (req[q].pc = "put" /\ req[q].s = s) \/ Answered(req[q].list, s)
      BY <2>1 DEF AnswersKept
    <2>3. ASSUME NEW q \in Request, Listing(req'[q])
          PROVE  \A s \in Session : (req'[q].pc = "put" /\ req'[q].s = s) \/ Answered(req'[q].list, s)
      <3>1. CASE q = r
        BY <2>1, <2>3, <3>1 DEF Prepared
      <3>2. CASE q # r
        BY <2>2, <2>3, <3>2
      <3> QED
        BY <3>1, <3>2
    <2> QED
      BY <2>2, <2>3
  <1> QED
    BY <1>1, <1>2, <1>3, <1>4, <1>5, <1>6

\* A request that is over, or works without the list, is in nobody's way.
LEMMA Rests ==
  ASSUME NEW pc \in {"idle", "revoke", "pulse"}
  PROVE  LET q == [Idle EXCEPT !.pc = pc] IN RequestTyped(q) /\ ~Listing(q) /\ q.pc = pc
  BY DEF Idle, RequestTyped, Listing

\* Idle is at rest.
LEMMA IdleRests == RequestTyped(Idle) /\ ~Listing(Idle) /\ Idle.pc = "idle"
  BY DEF Idle, RequestTyped, Listing

\* abort() keeps the invariant.
LEMMA AbortKeeps ==
  ASSUME SignallingConstants, SignallingInv, NEW r \in Request, Abort(r)
  PROVE  SignallingInv'
  <1>1. req'[r] = Idle /\ DOMAIN req' = Request /\ \A q \in Request : q # r => req'[q] = req[q]
    BY Stepped DEF SignallingInv, Abort
  <1>2. pulse' \in 0..(MaxEvents + 1)
    BY DEF SignallingInv, Typed, Abort
  <1>3. lock' = lock \/ (lock = r /\ lock' = None)
    BY DEF Abort, Release
  <1>4. row' = row /\ row \in [status : {"pending", "live", "ended", "deleting"}, claimed : Session \cup {None}, burn : BOOLEAN]
    BY DEF SignallingInv, Typed, Abort
  <1>5. RequestTyped(req'[r]) /\ ~Listing(req'[r]) /\ req'[r].pc # "revoke"
    BY <1>1, IdleRests
  <1> QED
    BY <1>1, <1>2, <1>3, <1>4, <1>5, RequestMoves DEF Abort

\* A request that dies leaves the lock behind.
LEMMA DieKeeps ==
  ASSUME SignallingConstants, SignallingInv, NEW r \in Request, Die(r)
  PROVE  SignallingInv'
  <1>1. req'[r] = Idle /\ DOMAIN req' = Request /\ \A q \in Request : q # r => req'[q] = req[q]
    BY Stepped DEF SignallingInv, Die
  <1>2. pulse' \in 0..(MaxEvents + 1)
    BY DEF SignallingInv, Typed, Die
  <1>3. row' = row /\ row \in [status : {"pending", "live", "ended", "deleting"}, claimed : Session \cup {None}, burn : BOOLEAN]
    BY DEF SignallingInv, Typed, Die
  <1>4. RequestTyped(req'[r]) /\ ~Listing(req'[r]) /\ req'[r].pc # "revoke"
    BY <1>1, IdleRests
  <1> QED
    BY <1>1, <1>2, <1>3, <1>4, RequestMoves DEF Die

\* The heartbeat of publish() keeps the invariant.
LEMMA PulseSenderKeeps ==
  ASSUME SignallingConstants, SignallingInv, NEW r \in Request, PulseSender(r)
  PROVE  SignallingInv'
  <1>1. req'[r] = Idle /\ DOMAIN req' = Request /\ \A q \in Request : q # r => req'[q] = req[q]
    BY Stepped DEF SignallingInv, PulseSender
  <1>2. pulse' \in 0..(MaxEvents + 1)
    BY DEF SignallingInv, Typed, PulseSender, SignallingConstants
  <1>3. row' = row /\ row \in [status : {"pending", "live", "ended", "deleting"}, claimed : Session \cup {None}, burn : BOOLEAN]
    BY DEF SignallingInv, Typed, PulseSender
  <1>4. RequestTyped(req'[r]) /\ ~Listing(req'[r]) /\ req'[r].pc # "revoke"
    BY <1>1, IdleRests
  <1> QED
    BY <1>1, <1>2, <1>3, <1>4, RequestMoves DEF PulseSender

\* publish() keeps the invariant.
LEMMA PublishKeeps ==
  ASSUME SignallingConstants, SignallingInv, NEW r \in Request, Publish(r)
  PROVE  SignallingInv'
  <1>1. req'[r] = [Idle EXCEPT !.pc = "pulse"] /\ DOMAIN req' = Request /\ \A q \in Request : q # r => req'[q] = req[q]
    BY Stepped DEF SignallingInv, Publish
  <1>2. pulse' \in 0..(MaxEvents + 1)
    BY DEF SignallingInv, Typed, Publish
  <1>3. /\ row' \in [status : {"pending", "live", "ended", "deleting"}, claimed : Session \cup {None}, burn : BOOLEAN]
        /\ row'.burn = row.burn /\ row'.claimed = row.claimed /\ row.status \notin Ended
    BY DEF SignallingInv, Typed, Publish, Ended
  <1>4. RequestTyped(req'[r]) /\ ~Listing(req'[r]) /\ req'[r].pc # "revoke"
    BY <1>1, Rests
  <1> QED
    BY <1>1, <1>2, <1>3, <1>4, RequestMoves DEF Publish

\* end(), destroy() and removal keep the invariant.
LEMMA EndKeeps ==
  ASSUME SignallingConstants, SignallingInv, NEW r \in Request, End(r)
  PROVE  SignallingInv'
  <1>1. req'[r] = [Idle EXCEPT !.pc = "revoke"] /\ DOMAIN req' = Request /\ \A q \in Request : q # r => req'[q] = req[q]
    BY Stepped DEF SignallingInv, End
  <1>2. pulse' \in 0..(MaxEvents + 1)
    BY DEF SignallingInv, Typed, End
  <1>3. /\ row' \in [status : {"pending", "live", "ended", "deleting"}, claimed : Session \cup {None}, burn : BOOLEAN]
        /\ row'.burn = row.burn /\ row'.claimed = row.claimed /\ row'.status \in Ended
    BY DEF SignallingInv, Typed, End, Ended
  <1>4. RequestTyped(req'[r]) /\ ~Listing(req'[r])
    BY <1>1, Rests
  <1> QED
    BY <1>1, <1>2, <1>3, <1>4, RequestMoves DEF End

\* consume() keeps the invariant.
LEMMA ConsumeKeeps ==
  ASSUME SignallingConstants, SignallingInv, NEW r \in Request, Consume(r)
  PROVE  SignallingInv'
  <1>1. CASE Abort(r)
    BY <1>1, AbortKeeps
  <1>2. CASE ~Abort(r)
    <2>1. /\ row' = [row EXCEPT !.status = "deleting"]
          /\ Step(r, [Idle EXCEPT !.pc = "revoke"])
          /\ UNCHANGED <<cached, pulse, lock, ack, now, faults>>
      BY <1>2 DEF Consume
    <2>2. req'[r] = [Idle EXCEPT !.pc = "revoke"] /\ DOMAIN req' = Request /\ \A q \in Request : q # r => req'[q] = req[q]
      BY <2>1, Stepped DEF SignallingInv
    <2>3. pulse' \in 0..(MaxEvents + 1)
      BY <2>1 DEF SignallingInv, Typed
    <2>4. /\ row' \in [status : {"pending", "live", "ended", "deleting"}, claimed : Session \cup {None}, burn : BOOLEAN]
          /\ row'.burn = row.burn /\ row'.claimed = row.claimed /\ row'.status \in Ended
      BY <2>1 DEF SignallingInv, Typed, Ended
    <2>5. RequestTyped(req'[r]) /\ ~Listing(req'[r])
      BY <2>2, Rests
    <2> QED
      BY <2>1, <2>2, <2>3, <2>4, <2>5, RequestMoves
  <1> QED
    BY <1>1, <1>2

-----------------------------------------------------------------------------
(* Requests that work on the list.                                         *)

\* The list as withSessions() reads it.
LEMMA PrunedPrepared ==
  ASSUME SignallingConstants, SignallingInv
  PROVE  /\ Room(Prune(cached))
         /\ row.burn => \A s \in Session : Prune(cached)[s] # None => row.claimed = s
         /\ faults = 0 /\ row.status \notin Ended => \A s \in Session : Answered(Prune(cached), s)
  <1>1. cached \in Sessions /\ ack \in Sessions /\ now \in Nat /\ row.status \in {"pending", "live"} \cup Ended
    BY DEF SignallingInv, Typed, Ended
  <1>2. /\ Prune(cached) \in Sessions
        /\ \A s \in Session : Prune(cached)[s] = cached[s] \/ (Prune(cached)[s] = None /\ (cached[s] # None => ~(cached[s].until > now)))
    BY <1>1, Pruned
  <1>3. Room(Prune(cached))
    <2>1. Admitted(Prune(cached)) \subseteq Admitted(cached)
      BY <1>2 DEF Admitted
    <2>2. Room(cached)
      BY DEF SignallingInv, RoomKept
    <2> QED
      BY <2>1, <2>2, FewerAdmitted DEF Room, SignallingConstants
  <1>4. row.burn => \A s \in Session : Prune(cached)[s] # None => row.claimed = s
    BY <1>2 DEF SignallingInv, ClaimsKept, ClaimedOnly
  <1>5. ASSUME faults = 0, row.status \notin Ended, NEW s \in Session
        PROVE  Answered(Prune(cached), s)
    <2>1. Answered(cached, s)
      BY <1>1, <1>5 DEF SignallingInv, AnswersKept
    <2>2. ack[s] # None => ack[s].until \in Nat
      BY <1>1 DEF Sessions, Entry
    <2> QED
      BY <1>1, <1>2, <2>1, <2>2 DEF Answered
  <1> QED
    BY <1>3, <1>4, <1>5

\* What a request that may be made looks like.
LEMMA RequestsTyped ==
  ASSUME NEW o \in Ops
  PROVE  \/ o.op = "sessions" /\ o.s = None
         \/ o.op \in {"register", "show", "consume"} /\ o.s \in Session
         \/ o.op \in {"offer", "answer"} /\ o.s \in Session /\ o.d \in Description
         \/ o.op = "update" /\ o.s \in Session /\ o.d \in Terminal
  BY DEF Ops

\* withSessions() keeps the invariant.
LEMMA EnterKeeps ==
  ASSUME SignallingConstants, SignallingInv, NEW r \in Request, Enter(r)
  PROVE  SignallingInv'
  <1> PICK o \in Ops :
        Step(r, [op |-> o.op, pc |-> "in", s |-> o.s, d |-> o.d,
                 list |-> IF o.op = "consume" THEN None ELSE Prune(cached)])
    BY DEF Enter
  <1>1. /\ DOMAIN req'[r] = {"op", "pc", "s", "d", "list"}
        /\ req'[r].pc = "in" /\ req'[r].op = o.op /\ req'[r].s = o.s /\ req'[r].d = o.d
        /\ req'[r].list = IF o.op = "consume" THEN None ELSE Prune(cached)
        /\ DOMAIN req' = Request /\ \A q \in Request : q # r => req'[q] = req[q]
    BY Stepped DEF SignallingInv
  <1>2. pulse' \in 0..(MaxEvents + 1)
    BY DEF SignallingInv, Typed, Enter
  <1>3. lock = None /\ lock' = r
    BY DEF Enter
  <1>4. row' = row /\ row \in [status : {"pending", "live", "ended", "deleting"}, claimed : Session \cup {None}, burn : BOOLEAN]
    BY DEF SignallingInv, Typed, Enter
  <1>5. RequestTyped(req'[r])
    <2>1. Prune(cached) \in Sessions
      BY Pruned DEF SignallingInv, Typed
    <2>2. o.op = "consume" => ~Listing(req'[r])
      BY <1>1 DEF Listing
    <2> QED
      BY <1>1, <2>1, <2>2, RequestsTyped DEF RequestTyped
  <1>6. Listing(req'[r]) => Prepared(req'[r], row'.claimed)
    <2> SUFFICES ASSUME Listing(req'[r])
                 PROVE  Prepared(req'[r], row'.claimed)
      OBVIOUS
    <2>1. req'[r].list = Prune(cached)
      BY <1>1 DEF Listing
    <2> QED
      BY <1>1, <1>4, <2>1, PrunedPrepared DEF Prepared
  <1> QED
    BY <1>1, <1>2, <1>3, <1>4, <1>5, <1>6, RequestMoves DEF Enter

\* What a request does to its entry leaves it an entry, and none that has ended opens again.
LEMMA MutatedEntry ==
  ASSUME SignallingConstants, Typed, NEW q, NEW e \in Entry, RequestTyped(q), q.pc = "in",
         q.op \in {"offer", "answer", "show", "update"}, Mutated(q, e) # None
  PROVE  Mutated(q, e) \in Entry /\ (Mutated(q, e).status \notin Terminal => e.status \notin Terminal)
  <1>1. now + 1 \in 1..(MaxEvents + 1)
    BY DEF Typed, SignallingConstants
  <1>2. CASE q.op = "offer"
    BY <1>1, <1>2 DEF Mutated, Entry, RequestTyped, Terminal
  <1>3. CASE q.op = "answer"
    BY <1>1, <1>3 DEF Mutated, Entry, RequestTyped, Terminal
  <1>4. CASE q.op = "show"
    BY <1>1, <1>4 DEF Mutated, Entry, RequestTyped, Terminal
  <1>5. CASE q.op = "update"
    BY <1>1, <1>5 DEF Mutated, Entry, RequestTyped, Terminal
  <1> QED
    BY <1>2, <1>3, <1>4, <1>5

\* What a request that works on the list knows of its copy.
LEMMA CopyKnown ==
  ASSUME SignallingConstants, SignallingInv, NEW r \in Request, Listing(req[r])
  PROVE  /\ req[r].list \in Sessions /\ RequestTyped(req[r])
         /\ Room(req[r].list) /\ (req[r].pc = "claim" => Cardinality(Admitted(req[r].list)) < Limit)
         /\ row.burn => \A s \in Session : req[r].list[s] # None => row.claimed = s
         /\ faults = 0 => lock = r
         /\ faults = 0 /\ row.status \notin Ended /\ req[r].pc # "put" => \A s \in Session : Answered(req[r].list, s)
         /\ faults = 0 /\ row.status \notin Ended => \A s \in Session : s # req[r].s => Answered(req[r].list, s)
  <1>1. row.status \in {"pending", "live"} \cup Ended
    BY DEF SignallingInv, Typed, Ended
  <1> QED
    BY <1>1 DEF SignallingInv, Typed, RequestTyped, RoomKept, ClaimsKept, ClaimedOnly, Exclusive, AnswersKept

\* register() may drop what has ended: its clients were told.
LEMMA EndedForgotten ==
  ASSUME NEW list \in Sessions
  PROVE  /\ WithoutEnded(list) \in Sessions
         /\ Admitted(WithoutEnded(list)) \subseteq Admitted(list)
         /\ \A s \in Session : WithoutEnded(list)[s] # None => WithoutEnded(list)[s] = list[s]
         /\ \A s \in Session : Answered(list, s) => Answered(WithoutEnded(list), s)
  <1>1. /\ WithoutEnded(list) \in Sessions
        /\ \A s \in Session : WithoutEnded(list)[s] = IF s \in Admitted(list) THEN list[s] ELSE None
    BY DEF WithoutEnded, Sessions
  <1> QED
    BY <1>1 DEF Admitted, Answered

\* A list whose entry of one session is changed.
LEMMA EntryChanged ==
  ASSUME SignallingConstants, NEW list \in Sessions, NEW s \in Session, NEW e \in Entry
  PROVE  LET next == [list EXCEPT ![s] = e]
         IN /\ next \in Sessions /\ next[s] = e
            /\ \A x \in Session : x # s => next[x] = list[x]
            /\ Admitted(next) \subseteq Admitted(list) \cup {s}
            /\ \A x \in Session : x # s /\ Answered(list, x) => Answered(next, x)
  BY DEF Sessions, Admitted, Answered

\* The change of the list, made under the lock, keeps the invariant.
LEMMA CheckKeeps ==
  ASSUME SignallingConstants, SignallingInv, NEW r \in Request, Check(r)
  PROVE  SignallingInv'
  <1> DEFINE q == req[r]
             next == IF q.op \in {"sessions", "register"} THEN q.list
                     ELSE IF q.list[q.s] = None \/ Mutated(q, q.list[q.s]) = None THEN None
                     ELSE [q.list EXCEPT ![q.s] = Mutated(q, q.list[q.s])]
             copy == IF q.op = "register"
                     THEN [Idle EXCEPT !.pc = "claim", !.s = q.s, !.list = WithoutEnded(next)]
                     ELSE [Idle EXCEPT !.pc = "put", !.s = q.s, !.list = next]
  <1>1. CASE Abort(r)
    BY <1>1, AbortKeeps
  <1>2. CASE ~Abort(r)
    <2>1. /\ pulse' = IF q.op = "sessions" THEN now + 1 ELSE pulse
          /\ Step(r, copy) /\ q.pc = "in" /\ q.op # "consume" /\ next # None
          /\ q.op = "register" => Cardinality(Admitted(q.list)) < Limit
          /\ UNCHANGED <<row, cached, lock, ack, now, faults>>
      BY <1>2 DEF Check
    <2>2. req'[r] = copy /\ DOMAIN req' = Request /\ \A p \in Request : p # r => req'[p] = req[p]
      BY <2>1, Stepped DEF SignallingInv
    <2>3. pulse' \in 0..(MaxEvents + 1)
      BY <2>1 DEF SignallingInv, Typed, SignallingConstants
    <2>4. row' = row /\ row \in [status : {"pending", "live", "ended", "deleting"}, claimed : Session \cup {None}, burn : BOOLEAN]
      BY <2>1 DEF SignallingInv, Typed
    <2>5. /\ q.list \in Sessions /\ RequestTyped(q) /\ Room(q.list)
          /\ row.burn => \A s \in Session : q.list[s] # None => row.claimed = s
          /\ faults = 0 => lock = r
          /\ faults = 0 /\ row.status \notin Ended => \A s \in Session : Answered(q.list, s)
      BY <2>1, CopyKnown DEF Listing
    <2>6. CASE q.op = "register"
      <3>1. /\ DOMAIN req'[r] = {"op", "pc", "s", "d", "list"}
            /\ req'[r].pc = "claim" /\ req'[r].s = q.s /\ req'[r].list = WithoutEnded(q.list)
        BY <2>2, <2>6 DEF Idle
      <3>2. q.s \in Session
        BY <2>1, <2>5, <2>6 DEF RequestTyped
      <3>3. /\ WithoutEnded(q.list) \in Sessions
            /\ Admitted(WithoutEnded(q.list)) \subseteq Admitted(q.list)
            /\ \A s \in Session : WithoutEnded(q.list)[s] # None => WithoutEnded(q.list)[s] = q.list[s]
            /\ \A s \in Session : Answered(q.list, s) => Answered(WithoutEnded(q.list), s)
        BY <2>5, EndedForgotten
      <3>4. RequestTyped(req'[r]) /\ req'[r].pc # "revoke"
        BY <3>1, <3>2, <3>3 DEF RequestTyped, Listing
      <3>5. Room(req'[r].list) /\ Cardinality(Admitted(req'[r].list)) < Limit
        BY <2>1, <2>6, <3>1, <3>3, FewerAdmitted DEF Room, SignallingConstants
      <3>6. Prepared(req'[r], row'.claimed)
        BY <2>4, <2>5, <3>1, <3>3, <3>5 DEF Prepared
      <3> HIDE DEF copy, next, q
      <3> QED
        BY <2>1, <2>2, <2>3, <2>4, <2>5, <3>4, <3>6, RequestMoves
    <2>7. CASE q.op # "register"
      <3>1. /\ DOMAIN req'[r] = {"op", "pc", "s", "d", "list"}
            /\ req'[r].pc = "put" /\ req'[r].s = q.s /\ req'[r].list = next
        BY <2>2, <2>7 DEF Idle
      <3>2. /\ next \in Sessions /\ Admitted(next) \subseteq Admitted(q.list)
            /\ \A s \in Session : next[s] # None => q.list[s] # None
            /\ \A s \in Session : s # q.s /\ Answered(q.list, s) => Answered(next, s)
        <4>1. CASE q.op = "sessions"
          BY <2>5, <4>1
        <4>2. CASE q.op # "sessions"
          <5>1. q.op \in {"offer", "answer", "show", "update"} /\ q.s \in Session
            BY <2>1, <2>5, <2>7, <4>2 DEF RequestTyped
          <5>2. /\ q.list[q.s] # None /\ Mutated(q, q.list[q.s]) # None
                /\ next = [q.list EXCEPT ![q.s] = Mutated(q, q.list[q.s])]
            BY <2>1, <5>1
          <5>3. q.list[q.s] \in Entry
            BY <2>5, <5>1, <5>2 DEF Sessions
          <5>4. /\ Mutated(q, q.list[q.s]) \in Entry
                /\ Mutated(q, q.list[q.s]).status \notin Terminal => q.list[q.s].status \notin Terminal
            BY <2>1, <2>5, <5>1, <5>2, <5>3, MutatedEntry DEF SignallingInv
          <5>5. /\ next \in Sessions /\ next[q.s] = Mutated(q, q.list[q.s])
                /\ \A x \in Session : x # q.s => next[x] = q.list[x]
                /\ \A x \in Session : x # q.s /\ Answered(q.list, x) => Answered(next, x)
            <6> DEFINE e == Mutated(q, q.list[q.s])
            <6> HIDE DEF e
            <6>1. e \in Entry /\ next = [q.list EXCEPT ![q.s] = e]
              BY <5>2, <5>4 DEF e
            <6> HIDE DEF q, next
            <6>2. /\ [q.list EXCEPT ![q.s] = e] \in Sessions /\ [q.list EXCEPT ![q.s] = e][q.s] = e
                  /\ \A x \in Session : x # q.s => [q.list EXCEPT ![q.s] = e][x] = q.list[x]
                  /\ \A x \in Session : x # q.s /\ Answered(q.list, x) => Answered([q.list EXCEPT ![q.s] = e], x)
              BY <2>5, <5>1, <6>1, EntryChanged
            <6> QED
              BY <6>1, <6>2 DEF e
          <5> HIDE DEF next
          <5>6. Admitted(next) \subseteq Admitted(q.list)
            BY <5>2, <5>4, <5>5 DEF Admitted
          <5> QED
            BY <5>2, <5>5, <5>6
        <4> QED
          BY <4>1, <4>2
      <3> HIDE DEF next
      <3>3. q.s \in Session \cup {None}
        BY <2>5 DEF RequestTyped
      <3>4. RequestTyped(req'[r]) /\ req'[r].pc # "revoke"
        BY <3>1, <3>2, <3>3 DEF RequestTyped, Listing
      <3>5. Room(req'[r].list)
        BY <2>5, <3>1, <3>2, FewerAdmitted DEF Room, SignallingConstants
      <3>6. Prepared(req'[r], row'.claimed)
        BY <2>4, <2>5, <3>1, <3>2, <3>5 DEF Prepared
      <3> HIDE DEF copy, q
      <3> QED
        BY <2>1, <2>2, <2>3, <2>4, <2>5, <3>4, <3>6, RequestMoves
    <2> QED
      BY <2>6, <2>7
  <1> QED
    BY <1>1, <1>2

\* register() claims a burn note once, and takes the place it has kept free.
LEMMA ClaimKeeps ==
  ASSUME SignallingConstants, SignallingInv, NEW r \in Request, Claim(r)
  PROVE  SignallingInv'
  <1>1. CASE Abort(r)
    BY <1>1, AbortKeeps
  <1>2. CASE ~Abort(r)
    <2> DEFINE q == req[r]
               next == [q.list EXCEPT ![q.s] = NewSession]
    <2>1. /\ row.status = "live" /\ MayClaim(q.list) /\ q.pc = "claim"
          /\ row' = IF row.burn THEN [row EXCEPT !.claimed = q.s] ELSE row
          /\ Step(r, [q EXCEPT !.pc = "put", !.list = next])
          /\ UNCHANGED <<cached, pulse, lock, ack, now, faults>>
      BY <1>2 DEF Claim
    <2>2. /\ q.list \in Sessions /\ RequestTyped(q) /\ Cardinality(Admitted(q.list)) < Limit
          /\ row.burn => \A s \in Session : q.list[s] # None => row.claimed = s
          /\ faults = 0 => lock = r
          /\ faults = 0 /\ row.status \notin Ended => \A s \in Session : Answered(q.list, s)
      BY <2>1, CopyKnown DEF Listing
    <2>3. q.s \in Session /\ NewSession \in Entry
      <3>1. now + 1 \in 1..(MaxEvents + 1)
        BY DEF SignallingInv, Typed, SignallingConstants
      <3> QED
        BY <2>1, <2>2, <3>1 DEF RequestTyped, NewSession, Entry
    <2>4. DOMAIN req' = Request /\ \A p \in Request : p # r => req'[p] = req[p]
      BY <2>1, Stepped DEF SignallingInv
    <2>5. /\ DOMAIN req'[r] = {"op", "pc", "s", "d", "list"}
          /\ req'[r].pc = "put" /\ req'[r].s = q.s /\ req'[r].list = next
      <3>1. req'[r] = [q EXCEPT !.pc = "put", !.list = next]
        BY <2>1, Stepped DEF SignallingInv
      <3> QED
        BY <2>2, <3>1 DEF RequestTyped
    <2>6. /\ row' \in [status : {"pending", "live", "ended", "deleting"}, claimed : Session \cup {None}, burn : BOOLEAN]
          /\ row'.burn = row.burn /\ row'.status = row.status
          /\ row.burn => row.claimed = None /\ row'.claimed = q.s
          /\ ~row.burn => row'.claimed = row.claimed
      BY <2>1, <2>3 DEF SignallingInv, Typed, MayClaim
    <2>7. pulse' \in 0..(MaxEvents + 1)
      BY <2>1 DEF SignallingInv, Typed
    <2>8. /\ next \in Sessions /\ next[q.s] = NewSession
          /\ \A x \in Session : x # q.s => next[x] = q.list[x]
          /\ Admitted(next) \subseteq Admitted(q.list) \cup {q.s}
          /\ \A x \in Session : x # q.s /\ Answered(q.list, x) => Answered(next, x)
      <3> HIDE DEF q
      <3> QED
        BY <2>2, <2>3, EntryChanged
    <2> HIDE DEF next
    <2>9. RequestTyped(req'[r]) /\ req'[r].pc # "revoke"
      BY <2>3, <2>5, <2>8 DEF RequestTyped, Listing
    <2>10. Room(next)
      <3>1. Cardinality(Admitted(next)) <= Cardinality(Admitted(q.list)) + 1
        BY <2>3, <2>8, OneMoreAdmitted
      <3>2. Cardinality(Admitted(next)) \in Nat /\ Cardinality(Admitted(q.list)) \in Nat
        BY FewerAdmitted
      <3> QED
        BY <2>2, <3>1, <3>2 DEF Room, SignallingConstants
    <2>11. Prepared(req'[r], row'.claimed)
      BY <2>2, <2>3, <2>5, <2>6, <2>8, <2>10 DEF Prepared, SignallingConstants
    <2> HIDE DEF q
    <2> QED
      BY <2>1, <2>2, <2>4, <2>6, <2>7, <2>9, <2>11, RequestMoves
  <1> QED
    BY <1>1, <1>2

\* Cache::put() makes the copy the list and tells the client.
LEMMA PutKeeps ==
  ASSUME SignallingConstants, SignallingInv, NEW r \in Request, Put(r)
  PROVE  SignallingInv'
  <1>1. req'[r] = Idle /\ DOMAIN req' = Request /\ \A q \in Request : q # r => req'[q] = req[q]
    BY Stepped DEF SignallingInv, Put
  <1>2. /\ req[r].list \in Sessions /\ RequestTyped(req[r]) /\ Room(req[r].list)
        /\ row.burn => \A s \in Session : req[r].list[s] # None => row.claimed = s
        /\ faults = 0 => lock = r
        /\ faults = 0 /\ row.status \notin Ended => \A s \in Session : s # req[r].s => Answered(req[r].list, s)
    BY CopyKnown DEF Listing, Put
  <1>3. /\ row' = row /\ pulse' = pulse /\ now' = now /\ faults' = faults /\ cached' = req[r].list
        /\ lock' = lock \/ (lock = r /\ lock' = None)
    BY DEF Put, Release
  <1>4. /\ ack' \in Sessions
        /\ \A s \in Session : ack'[s] = IF s = req[r].s THEN req[r].list[s] ELSE ack[s]
    <2>1. ack \in Sessions
      BY DEF SignallingInv, Typed
    <2>2. req[r].s \in Session \cup {None}
      BY <1>2 DEF RequestTyped
    <2>3. ack' = IF req[r].s = None THEN ack ELSE [ack EXCEPT ![req[r].s] = req[r].list[req[r].s]]
      BY DEF Put
    <2> QED
      BY <1>2, <2>1, <2>2, <2>3 DEF Sessions, SignallingConstants
  <1>5. \A q \in Request : Listing(req'[q]) => q # r /\ Listing(req[q]) /\ req'[q] = req[q]
    BY <1>1, IdleRests
  <1>6. Typed'
    BY <1>1, <1>2, <1>3, <1>4, IdleRests DEF SignallingInv, Typed
  <1>7. RevokedEnded'
    BY <1>1, <1>3, IdleRests DEF SignallingInv, RevokedEnded
  <1>8. RoomKept'
    <2>1. Room(cached')
      BY <1>2, <1>3
    <2>2. \A q \in Request : Listing(req'[q]) =>
            Room(req'[q].list) /\ (req'[q].pc = "claim" => Cardinality(Admitted(req'[q].list)) < Limit)
      BY <1>5 DEF SignallingInv, RoomKept
    <2>3. \A q \in Request : req'[q].pc = "claim" => Listing(req'[q])
      BY DEF Listing
    <2> QED
      BY <2>1, <2>2, <2>3 DEF RoomKept, Room, Admitted, Listing
  <1>9. ClaimsKept'
    <2> SUFFICES ASSUME row.burn
                 PROVE  /\ \A s \in Session : cached'[s] # None => row.claimed = s
                        /\ \A s \in Session : ack'[s] # None => row.claimed = s
                        /\ \A q \in Request : Listing(req'[q]) => \A s \in Session : req'[q].list[s] # None => row.claimed = s
      BY <1>3 DEF ClaimsKept, ClaimedOnly, Listing
    <2> QED
      BY <1>2, <1>3, <1>4, <1>5 DEF SignallingInv, ClaimsKept, ClaimedOnly
  <1>10. Exclusive'
    <2> SUFFICES ASSUME faults = 0, NEW q \in Request, Listing(req'[q])
                 PROVE  lock' = q
      BY <1>3 DEF Exclusive, Listing
    <2> QED
      BY <1>2, <1>5 DEF SignallingInv, Exclusive
  <1>11. AnswersKept'
    <2> SUFFICES ASSUME faults = 0, row.status \in {"pending", "live"}
                 PROVE  /\ \A s \in Session : Answered(cached, s)'
                        /\ \A q \in Request : ~Listing(req'[q])
      BY <1>3 DEF AnswersKept, Answered, Listing
    <2>1. row.status \notin Ended
      BY DEF Ended
    <2>2. \A q \in Request : ~Listing(req'[q])
      BY <1>2, <1>5 DEF SignallingInv, Exclusive
    <2>3. ASSUME NEW s \in Session
          PROVE  Answered(cached, s)'
      <3>1. CASE s = req[r].s
        BY <1>3, <1>4, <3>1 DEF Answered
      <3>2. CASE s # req[r].s
        BY <1>2, <1>3, <1>4, <2>1, <3>2 DEF Answered
      <3> QED
        BY <3>1, <3>2
    <2> QED
      BY <2>2, <2>3
  <1> QED
    BY <1>6, <1>7, <1>8, <1>9, <1>10, <1>11 DEF SignallingInv

-----------------------------------------------------------------------------
(* What happens without the lock, and time.                                *)

\* revoke() empties the list of a transfer that has ended.
LEMMA RevokeKeeps ==
  ASSUME SignallingConstants, SignallingInv, NEW r \in Request, Revoke(r)
  PROVE  SignallingInv'
  <1>1. req'[r] = Idle /\ DOMAIN req' = Request /\ \A q \in Request : q # r => req'[q] = req[q]
    BY Stepped DEF SignallingInv, Revoke
  <1>2. /\ row' = row /\ ack' = ack /\ now' = now /\ faults' = faults /\ cached' = NoSessions /\ pulse' = 0
        /\ lock' = lock \/ (lock = r /\ lock' = None)
    BY DEF Revoke, Release
  <1>3. row.status \in Ended
    BY DEF SignallingInv, RevokedEnded, Revoke, Ended
  <1>4. \A q \in Request : Listing(req'[q]) => q # r /\ Listing(req[q]) /\ req'[q] = req[q]
    BY <1>1, IdleRests
  <1>5. Typed'
    BY <1>1, <1>2, IdleRests, NobodyAdmitted DEF SignallingInv, Typed, SignallingConstants
  <1>6. RevokedEnded'
    BY <1>1, <1>2, IdleRests DEF SignallingInv, RevokedEnded
  <1>7. RoomKept'
    <2>1. Room(cached')
      BY <1>2, NobodyAdmitted
    <2>2. \A q \in Request : Listing(req'[q]) =>
            Room(req'[q].list) /\ (req'[q].pc = "claim" => Cardinality(Admitted(req'[q].list)) < Limit)
      BY <1>4 DEF SignallingInv, RoomKept
    <2>3. \A q \in Request : req'[q].pc = "claim" => Listing(req'[q])
      BY DEF Listing
    <2> QED
      BY <2>1, <2>2, <2>3 DEF RoomKept, Room, Admitted, Listing
  <1>8. ClaimsKept'
    <2> SUFFICES ASSUME row.burn
                 PROVE  /\ \A s \in Session : cached'[s] # None => row.claimed = s
                        /\ \A s \in Session : ack'[s] # None => row.claimed = s
                        /\ \A q \in Request : Listing(req'[q]) => \A s \in Session : req'[q].list[s] # None => row.claimed = s
      BY <1>2 DEF ClaimsKept, ClaimedOnly, Listing
    <2>1. \A s \in Session : cached'[s] = None
      BY <1>2 DEF NoSessions
    <2> QED
      BY <1>2, <1>4, <2>1 DEF SignallingInv, ClaimsKept, ClaimedOnly
  <1>9. Exclusive'
    <2> SUFFICES ASSUME faults = 0, NEW q \in Request, Listing(req'[q])
                 PROVE  lock' = q
      BY <1>2 DEF Exclusive, Listing
    <2> QED
      BY <1>2, <1>4 DEF SignallingInv, Exclusive
  <1>10. AnswersKept'
    BY <1>2, <1>3 DEF AnswersKept, Ended
  <1> QED
    BY <1>5, <1>6, <1>7, <1>8, <1>9, <1>10 DEF SignallingInv

\* A lease that runs out under its holder is a fault; under a dead request it frees the lock.
LEMMA LeaseExpiresKeeps ==
  ASSUME SignallingConstants, SignallingInv, LeaseExpires
  PROVE  SignallingInv'
  <1>1. UNCHANGED <<row, cached, pulse, req, ack, now>> /\ lock' = None /\ lock \in Request
    BY DEF LeaseExpires, SignallingInv, Typed
  <1>2. /\ faults' \in Nat /\ now + faults' <= MaxEvents /\ (faults' = 0 => faults = 0)
        /\ faults' = 0 => \A r \in Request : ~Listing(req[r])
    <2>1. CASE Working(lock)
      BY <2>1 DEF LeaseExpires, SignallingInv, Typed, SignallingConstants
    <2>2. CASE ~Working(lock)
      <3>1. ~Listing(req[lock])
        BY <2>2 DEF Working, Listing
      <3>2. faults' = faults
        BY <2>2 DEF LeaseExpires
      <3> QED
        BY <3>1, <3>2 DEF SignallingInv, Typed, Exclusive
    <2> QED
      BY <2>1, <2>2
  <1>3. Typed'
    BY <1>1, <1>2 DEF SignallingInv, Typed, RequestTyped, Listing
  <1>4. RevokedEnded'
    BY <1>1 DEF SignallingInv, RevokedEnded
  <1>5. RoomKept'
    BY <1>1 DEF SignallingInv, RoomKept, Room, Admitted, Listing
  <1>6. ClaimsKept'
    BY <1>1 DEF SignallingInv, ClaimsKept, ClaimedOnly, Listing
  <1>7. Exclusive'
    BY <1>1, <1>2 DEF Exclusive, Listing
  <1>8. AnswersKept'
    BY <1>1, <1>2 DEF SignallingInv, AnswersKept, Answered, Listing
  <1> QED
    BY <1>3, <1>4, <1>5, <1>6, <1>7, <1>8 DEF SignallingInv

\* A cache that is lost is a fault.
LEMMA CacheLostKeeps ==
  ASSUME SignallingConstants, SignallingInv, CacheLost
  PROVE  SignallingInv'
  <1>1. /\ UNCHANGED <<row, lock, req, ack, now>> /\ cached' = NoSessions /\ pulse' = 0
        /\ faults' \in Nat /\ faults' # 0 /\ now + faults' <= MaxEvents
    BY DEF CacheLost, SignallingInv, Typed, SignallingConstants
  <1>2. Typed'
    <2>1. cached' \in Sessions /\ pulse' \in 0..(MaxEvents + 1)
      BY <1>1, NobodyAdmitted DEF SignallingConstants
    <2> QED
      BY <1>1, <2>1 DEF SignallingInv, Typed
  <1>3. RevokedEnded'
    BY <1>1 DEF SignallingInv, RevokedEnded
  <1>4. RoomKept'
    <2>1. Room(cached')
      BY <1>1, NobodyAdmitted
    <2> QED
      BY <1>1, <2>1 DEF SignallingInv, RoomKept, Room, Admitted, Listing
  <1>5. ClaimsKept'
    <2>1. \A s \in Session : cached'[s] = None
      BY <1>1 DEF NoSessions
    <2> QED
      BY <1>1, <2>1 DEF SignallingInv, ClaimsKept, ClaimedOnly, Listing
  <1>6. Exclusive' /\ AnswersKept'
    BY <1>1 DEF Exclusive, AnswersKept
  <1> QED
    BY <1>2, <1>3, <1>4, <1>5, <1>6 DEF SignallingInv

\* Time passes: what has expired stays expired.
LEMMA TickKeeps ==
  ASSUME SignallingConstants, SignallingInv, Tick
  PROVE  SignallingInv'
  <1>1. /\ UNCHANGED <<row, cached, pulse, lock, req, ack, faults>>
        /\ now' \in Nat /\ now' = now + 1 /\ now' + faults <= MaxEvents
    BY DEF Tick, SignallingInv, Typed, SignallingConstants
  <1>2. Typed'
    BY <1>1 DEF SignallingInv, Typed, RequestTyped, Listing
  <1>3. RevokedEnded'
    BY <1>1 DEF SignallingInv, RevokedEnded
  <1>4. RoomKept'
    BY <1>1 DEF SignallingInv, RoomKept, Room, Admitted, Listing
  <1>5. ClaimsKept'
    BY <1>1 DEF SignallingInv, ClaimsKept, ClaimedOnly, Listing
  <1>6. Exclusive'
    BY <1>1 DEF SignallingInv, Exclusive, Listing
  <1>7. AnswersKept'
    <2>1. \A list, s : s \in Session /\ list \in Sessions /\ Answered(list, s) =>
            list[s] = ack[s] \/ (list[s] = None /\ (ack[s].until <= now' \/ ack[s].status \in Terminal))
      <3> SUFFICES ASSUME NEW list \in Sessions, NEW s \in Session, Answered(list, s), list[s] # ack[s], ack[s].status \notin Terminal
                   PROVE  list[s] = None /\ ack[s].until <= now'
        BY DEF Answered
      <3>1. ack[s] \in Entry /\ list[s] = None /\ ack[s].until <= now
        BY DEF Answered, Sessions, SignallingInv, Typed
      <3>2. ack[s].until \in Int /\ now \in Int
        BY <3>1 DEF Entry, SignallingInv, Typed
      <3> QED
        BY <1>1, <3>1, <3>2
    <2>2. cached \in Sessions /\ \A r \in Request : Listing(req[r]) => req[r].list \in Sessions
      BY DEF SignallingInv, Typed, RequestTyped
    <2> SUFFICES ASSUME faults = 0, row.status \in {"pending", "live"}
                 PROVE  /\ \A s \in Session : cached[s] = ack[s] \/ (cached[s] = None /\ (ack[s].until <= now' \/ ack[s].status \in Terminal))
                        /\ \A r \in Request : Listing(req[r]) =>
                             \A s \in Session : (req[r].pc = "put" /\ req[r].s = s) \/ req[r].list[s] = ack[s]
                               \/ (req[r].list[s] = None /\ (ack[s].until <= now' \/ ack[s].status \in Terminal))
      BY <1>1 DEF AnswersKept, Answered, Listing
    <2> QED
      BY <2>1, <2>2 DEF SignallingInv, AnswersKept
  <1> QED
    BY <1>2, <1>3, <1>4, <1>5, <1>6, <1>7 DEF SignallingInv

-----------------------------------------------------------------------------
(* The theorem.                                                            *)

\* The invariant holds before the first request.
LEMMA InvInit ==
  ASSUME SignallingConstants, Init
  PROVE  SignallingInv
  <1>1. \A r \in Request : req[r] = Idle
    BY DEF Init
  <1>2. NoSessions \in Sessions /\ Room(NoSessions) /\ \A s \in Session : NoSessions[s] = None
    BY NobodyAdmitted DEF NoSessions
  <1>3. \A r \in Request : RequestTyped(req[r]) /\ ~Listing(req[r]) /\ req[r].pc = "idle"
    BY <1>1, IdleRests
  <1>4. Typed
    BY <1>2, <1>3 DEF Init, Typed, SignallingConstants
  <1>5. RevokedEnded /\ RoomKept
    BY <1>2, <1>3 DEF Init, RevokedEnded, RoomKept
  <1>6. ClaimsKept /\ Exclusive
    BY <1>2, <1>3 DEF Init, ClaimsKept, ClaimedOnly, Exclusive
  <1>7. AnswersKept
    BY <1>2, <1>3 DEF Init, AnswersKept, Answered
  <1> QED
    BY <1>4, <1>5, <1>6, <1>7 DEF SignallingInv

\* Every step keeps the invariant.
LEMMA InvKept ==
  ASSUME SignallingConstants, SignallingInv, [Next]_vars
  PROVE  SignallingInv'
  <1>1. CASE UNCHANGED vars
    <2>1. Typed'
      BY <1>1 DEF vars, SignallingInv, Typed, RequestTyped, Listing
    <2>2. RevokedEnded' /\ Exclusive'
      BY <1>1 DEF vars, SignallingInv, RevokedEnded, Exclusive, Listing
    <2>3. RoomKept' /\ ClaimsKept'
      BY <1>1 DEF vars, SignallingInv, RoomKept, Room, Admitted, ClaimsKept, ClaimedOnly, Listing
    <2>4. AnswersKept'
      BY <1>1 DEF vars, SignallingInv, AnswersKept, Answered, Listing
    <2> QED
      BY <2>1, <2>2, <2>3, <2>4 DEF SignallingInv
  <1>2. ASSUME NEW r \in Request, Enter(r) PROVE SignallingInv'
    BY <1>2, EnterKeeps
  <1>3. ASSUME NEW r \in Request, Check(r) PROVE SignallingInv'
    BY <1>3, CheckKeeps
  <1>4. ASSUME NEW r \in Request, Claim(r) PROVE SignallingInv'
    BY <1>4, ClaimKeeps
  <1>5. ASSUME NEW r \in Request, Put(r) PROVE SignallingInv'
    BY <1>5, PutKeeps
  <1>6. ASSUME NEW r \in Request, Consume(r) PROVE SignallingInv'
    BY <1>6, ConsumeKeeps
  <1>7. ASSUME NEW r \in Request, Publish(r) PROVE SignallingInv'
    BY <1>7, PublishKeeps
  <1>8. ASSUME NEW r \in Request, PulseSender(r) PROVE SignallingInv'
    BY <1>8, PulseSenderKeeps
  <1>9. ASSUME NEW r \in Request, End(r) PROVE SignallingInv'
    BY <1>9, EndKeeps
  <1>10. ASSUME NEW r \in Request, Revoke(r) PROVE SignallingInv'
    BY <1>10, RevokeKeeps
  <1>11. ASSUME NEW r \in Request, Die(r) PROVE SignallingInv'
    BY <1>11, DieKeeps
  <1>12. CASE LeaseExpires
    BY <1>12, LeaseExpiresKeeps
  <1>13. CASE CacheLost
    BY <1>13, CacheLostKeeps
  <1>14. CASE Tick
    BY <1>14, TickKeeps
  <1> QED
    BY <1>1, <1>2, <1>3, <1>4, <1>5, <1>6, <1>7, <1>8, <1>9, <1>10, <1>11, <1>12, <1>13, <1>14 DEF Next

\* What the invariant says to the clients.
LEMMA InvSafe ==
  ASSUME SignallingConstants, SignallingInv
  PROVE  TypeOK /\ BurnClaimedOnce /\ CapacityHeld /\ AcknowledgedKept
  <1>1. cached \in Sessions /\ ack \in Sessions /\ now \in Nat
    BY DEF SignallingInv, Typed
  <1>2. TypeOK
    BY DEF SignallingInv, Typed, RequestTyped, Sessions, TypeOK
  <1>3. BurnClaimedOnce
    BY DEF SignallingInv, ClaimsKept, ClaimedOnly, BurnClaimedOnce
  <1>4. CapacityHeld
    BY PrunedPrepared DEF CapacityHeld, Room
  <1>5. AcknowledgedKept
    <2> SUFFICES ASSUME faults = 0, row.status = "live", NEW s \in Session, Fresh(ack, s)
                 PROVE  IF cached[s] = None THEN ack[s].status \in Terminal ELSE cached[s] = ack[s]
      BY DEF AcknowledgedKept
    <2>1. Answered(cached, s)
      BY DEF SignallingInv, AnswersKept
    <2>2. ack[s] # None /\ ack[s].until \in Int /\ ~(ack[s].until <= now)
      BY <1>1 DEF Fresh, Sessions, Entry
    <2> QED
      BY <2>1, <2>2 DEF Answered
  <1> QED
    BY <1>2, <1>3, <1>4, <1>5

\* end() and removal are final: no action makes an ended transfer live again.
LEMMA EndedStays ==
  ASSUME SignallingInv, [Next]_vars
  PROVE  EndedIsFinalStep
  <1>1. row \in [status : {"pending", "live", "ended", "deleting"}, claimed : Session \cup {None}, burn : BOOLEAN]
    BY DEF SignallingInv, Typed
  <1>2. \/ row' = row
        \/ \E r \in Request : Claim(r) \/ Consume(r) \/ Publish(r) \/ End(r)
    BY DEF Next, vars, Enter, Check, Abort, Put, PulseSender, Revoke, Die, LeaseExpires, CacheLost, Tick
  <1>3. ASSUME NEW r \in Request, Claim(r) PROVE row'.status = row.status
    BY <1>1, <1>3 DEF Claim, Abort
  <1>4. ASSUME NEW r \in Request, Consume(r) PROVE row'.status \in {row.status, "deleting"}
    BY <1>1, <1>4 DEF Consume, Abort
  <1>5. ASSUME NEW r \in Request, Publish(r) PROVE row.status \in {"pending", "live"}
    BY <1>5 DEF Publish
  <1>6. ASSUME NEW r \in Request, End(r) PROVE EndedIsFinalStep
    BY <1>1, <1>6 DEF End, EndedIsFinalStep
  <1> QED
    BY <1>2, <1>3, <1>4, <1>5, <1>6 DEF EndedIsFinalStep

\* The signalling endpoints, for every number of requests, sessions, faults and ticks:
\* a burn note is claimed once, the limit holds, and, as long as no lease runs out
\* under its holder and no cache is lost, what a client was answered stays; an ended
\* transfer never becomes live again (WebRtcTransferController, TransferController).
THEOREM SignallingStaysSafe == Spec => SignallingSafe
  <1> SUFFICES ASSUME SignallingConstants PROVE Spec => SignallingSafe
    BY SignallingAssumption
  <1>1. Init => SignallingInv
    BY InvInit
  <1>2. SignallingInv /\ [Next]_vars => SignallingInv'
    BY InvKept
  <1>3. SignallingInv => TypeOK /\ BurnClaimedOnce /\ CapacityHeld /\ AcknowledgedKept
    BY InvSafe
  <1>4. SignallingInv /\ [Next]_vars => [EndedIsFinalStep]_vars
    BY EndedStays
  <1> QED
    BY <1>1, <1>2, <1>3, <1>4, PTL DEF Spec, SignallingSafe
=============================================================================
