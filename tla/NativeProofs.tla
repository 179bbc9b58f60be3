---------------------------- MODULE NativeProofs ----------------------------
(***************************************************************************)
(* Theorems about the components of NativeDisk: what the native client has *)
(* on disk when it dies, what live shares and sealed transfers are made of,*)
(* and what a sender is shown of its receivers.  They hold for every size, *)
(* number of identifiers, processes, keys, retries, files, chunks, items,  *)
(* deliveries, sessions, transfers, recipients and requests, and every     *)
(* limit.                                                                  *)
(*                                                                         *)
(* No theorem is about two of the components.                              *)
(***************************************************************************)
EXTENDS NativeDisk, FiniteSetTheorems, SequenceTheorems, WellFoundedInduction, TLAPS

-----------------------------------------------------------------------------
(* Staged uploads.                                                         *)

\* The server and what is on disk.
Served ==
  /\ sidecar \in Staging!Id \cup {Missing} /\ published \in BOOLEAN /\ resets \in 0..Ids
  /\ stage \in [Staging!Id -> Stages \cup {Missing}] /\ late \subseteq Staging!Part
  /\ Staging!NoForgottenStage

\* A session believes in no byte the server does not have.
Backed(t) == t.offset = 0 \/ Staging!Gone(t.id) \/ published \/ t.offset <= stage[t.id].offset

\* The worker's identity is the one on disk once a request may have used it.
Working ==
  /\ client \in [pc : {"away", "save", "begin", "part", "sent", "complete", "done"},
                 session : Staging!StageSession \cup {Missing}, part : 1..MaxPart]
  /\ client.session = Missing <=> client.pc = "away"
  /\ client.pc = "save" => sidecar \in {Missing, client.session.id}
  /\ client.pc \in {"begin", "part", "sent", "complete"} => sidecar = client.session.id
  /\ client.pc \in {"save", "begin"} => client.session.offset = 0
  /\ client.pc \in {"part", "sent"} => client.session.offset < Size
  /\ client.pc = "done" => client.session.state = "complete"
  /\ client.pc # "away" /\ client.session.state = "complete" => published
  /\ client.pc # "away" => Backed(client.session)

\* The inductive invariant of a staged upload.
StagingInv == Served /\ Working

\* The worker is away after every error and every death.
LEMMA AwayWorks ==
  ASSUME StagingConstants, client' = Staging!Away
  PROVE  Working'
  BY DEF StagingConstants, Working, Staging!Away

\* A session that is accepted decides what the worker does next.
LEMMA GoesOn ==
  ASSUME StagingConstants, NEW t \in Staging!StageSession \cup {Missing}, NEW part \in 1..MaxPart, Staging!GoOn(t, part),
         t # Missing => sidecar' = t.id /\ (t.state = "complete" => published') /\ Backed(t)'
  PROVE  Working'
  <1>1. CASE t = Missing
    BY <1>1, AwayWorks DEF Staging!GoOn, Staging!Fail
  <1>2. CASE t # Missing
    <2>1. /\ client' = [pc |-> Staging!Act(t), session |-> t, part |-> part]
          /\ t \in Staging!StageSession
      BY <1>2 DEF Staging!GoOn
    <2>2. /\ Staging!Act(t) \in {"part", "done", "complete"}
          /\ Staging!Act(t) = "part" => t.offset < Size
          /\ Staging!Act(t) = "done" => t.state = "complete"
      BY <2>1 DEF Staging!Act
    <2> QED
      BY <1>2, <2>1, <2>2 DEF Working, Backed
  <1> QED
    BY <1>1, <1>2

\* What the server does on its own takes nothing from a session that is not gone.
LEMMA ServerAlone ==
  ASSUME StagingConstants, StagingInv, UNCHANGED <<sidecar, client, published>>,
         stage' \in [Staging!Id -> Stages \cup {Missing}],
         \A id \in Staging!Id : \/ stage'[id] = stage[id]
                                \/ stage[id] # Missing /\ stage'[id] = Missing /\ stage[id].lost
                                \/ stage[id] # Missing /\ stage'[id] # Missing /\ stage'[id].lost
                                \/ /\ stage[id] # Missing /\ stage'[id] # Missing /\ stage'[id].lost = stage[id].lost
                                   /\ stage[id].offset <= stage'[id].offset,
         resets' \in 0..Ids, late' \subseteq Staging!Part
  PROVE  StagingInv'
  <1>1. Served'
    BY DEF StagingInv, Served, Staging!NoForgottenStage
  <1>2. ASSUME client.pc # "away" PROVE Backed(client.session)'
    <2>1. client.session \in Staging!StageSession /\ Backed(client.session)
      BY <1>2 DEF StagingInv, Working
    <2>2. client.session.id \in Staging!Id /\ client.session.offset \in Nat
      BY <2>1 DEF Staging!StageSession
    <2>3. \A id \in Staging!Id : (stage[id] # Missing => stage[id].offset \in Nat) /\ (stage'[id] # Missing => stage'[id].offset \in Nat)
      BY DEF StagingInv, Served, Stages
    <2> QED
      BY <2>1, <2>2, <2>3 DEF Backed, Staging!Gone
  <1>3. Working'
    BY <1>2 DEF StagingInv, Working
  <1> QED
    BY <1>1, <1>3 DEF StagingInv

\* A part that is stored moves its stage on and leaves the others alone.
LEMMA StoreMoves ==
  ASSUME StagingConstants, Served, NEW p \in Staging!Part, Staging!Store(p)
  PROVE  /\ stage' \in [Staging!Id -> Stages \cup {Missing}]
         /\ \A id \in Staging!Id :
              \/ stage'[id] = stage[id]
              \/ /\ stage[id] # Missing /\ stage'[id] # Missing /\ stage'[id].lost = stage[id].lost
                 /\ stage[id].offset <= stage'[id].offset
  <1>1. CASE Staging!Storable(p)
    <2>1. p.id \in Staging!Id /\ p.offset \in Nat /\ p.size \in Nat
      BY DEF Staging!Part, StagingConstants
    <2>2. /\ stage[p.id] \in Stages /\ p.offset = stage[p.id].offset /\ p.offset + p.size <= Size
      BY <1>1, <2>1 DEF Staging!Storable, Staging!Gone, Staging!Extends, Served
    <2> DEFINE next == [stage[p.id] EXCEPT !.offset = p.offset + p.size, !.parts = stage[p.id].parts \cup {p}]
    <2>3. next \in Stages /\ next.lost = stage[p.id].lost /\ stage[p.id].offset <= next.offset
      <3>1. p.offset + p.size \in 0..Size /\ stage[p.id].offset <= p.offset + p.size
        BY <2>1, <2>2 DEF StagingConstants
      <3>2. stage[p.id].parts \cup {p} \in SUBSET Staging!Part
        BY <2>2 DEF Stages
      <3> QED
        BY <2>2, <3>1, <3>2 DEF Stages
    <2>4. stage' = [stage EXCEPT ![p.id] = next]
      BY <1>1, <2>1, <2>2 DEF Staging!Store, Served, Stages
    <2> HIDE DEF next
    <2> QED
      BY <2>1, <2>2, <2>3, <2>4 DEF Served, StagingConstants
  <1>2. CASE ~Staging!Storable(p)
    BY <1>2 DEF Staging!Store, Served
  <1> QED
    BY <1>1, <1>2

\* A late part keeps the invariant.
LEMMA LatePartKeeps ==
  ASSUME StagingConstants, StagingInv, NEW p \in late, Staging!LatePart(p)
  PROVE  StagingInv'
  <1>1. p \in Staging!Part /\ late' \subseteq Staging!Part /\ Staging!Store(p)
        /\ UNCHANGED <<sidecar, client, published, resets>>
    BY DEF StagingInv, Served, Staging!LatePart
  <1>2. resets' \in 0..Ids
    BY <1>1 DEF StagingInv, Served
  <1> QED
    BY <1>1, <1>2, StoreMoves, ServerAlone DEF StagingInv

\* A stage that vanishes is gone for its session too.
LEMMA LoseStageKeeps ==
  ASSUME StagingConstants, StagingInv, NEW id \in Staging!Id, Staging!LoseStage(id)
  PROVE  StagingInv'
  <1>1. /\ stage[id] \in Stages /\ stage[id] # Missing /\ UNCHANGED <<sidecar, client, published, late, resets>>
        /\ stage' = [stage EXCEPT ![id] = IF stage[id].lost THEN Missing ELSE [stage[id] EXCEPT !.lost = TRUE]]
    BY DEF StagingInv, Served, Staging!LoseStage
  <1>2. [stage[id] EXCEPT !.lost = TRUE] \in Stages /\ [stage[id] EXCEPT !.lost = TRUE].lost
    BY <1>1 DEF Stages
  <1>3. stage' \in [Staging!Id -> Stages \cup {Missing}]
    BY <1>1, <1>2 DEF StagingInv, Served
  <1>4. \A i \in Staging!Id : \/ stage'[i] = stage[i]
                              \/ stage[i] # Missing /\ stage'[i] = Missing /\ stage[i].lost
                              \/ stage[i] # Missing /\ stage'[i] # Missing /\ stage'[i].lost
    <2>1. \A i \in Staging!Id : i # id => stage'[i] = stage[i]
      BY <1>1 DEF StagingInv, Served
    <2>2. stage'[id] = IF stage[id].lost THEN Missing ELSE [stage[id] EXCEPT !.lost = TRUE]
      BY <1>1 DEF StagingInv, Served
    <2> QED
      BY <1>1, <1>2, <2>1, <2>2 DEF StagingConstants
  <1>5. resets' \in 0..Ids /\ late' \subseteq Staging!Part
    BY <1>1 DEF StagingInv, Served
  <1> QED
    BY <1>1, <1>3, <1>4, <1>5, ServerAlone

\* A direct PUT that is executed late stores the chunk.
LEMMA LateDirectKeeps ==
  ASSUME StagingConstants, StagingInv, Staging!LateDirect
  PROVE  StagingInv'
  <1>1. published' = TRUE /\ UNCHANGED <<sidecar, client, stage, late, resets>>
    BY DEF Staging!LateDirect
  <1>2. Served'
    BY <1>1 DEF StagingInv, Served, Staging!NoForgottenStage
  <1>3. Working'
    BY <1>1 DEF StagingInv, Working, Backed
  <1> QED
    BY <1>2, <1>3 DEF StagingInv

\* The worker dies, or the job ends.
LEMMA DiesKeeps ==
  ASSUME StagingConstants, StagingInv, Staging!Dies
  PROVE  StagingInv'
  BY AwayWorks DEF StagingInv, Served, Staging!NoForgottenStage, Staging!Dies

\* A chunk is opened with the identity on disk or with one nobody has used.
LEMMA OpenKeeps ==
  ASSUME StagingConstants, StagingInv, Staging!Open
  PROVE  StagingInv'
  <1> PICK id \in IF sidecar = Missing THEN Staging!Unused ELSE {sidecar} :
        client' = [pc |-> "save", session |-> Staging!New(id), part |-> 1]
    BY DEF Staging!Open
  <1>1. id \in Staging!Id /\ sidecar \in {Missing, id}
    BY DEF StagingInv, Served, Staging!Unused
  <1>2. Staging!New(id) \in Staging!StageSession /\ Staging!New(id).id = id /\ Staging!New(id).offset = 0
        /\ Staging!New(id).state = "receiving"
    BY <1>1 DEF Staging!New, Staging!StageSession, StagingConstants
  <1>3. Working'
    BY <1>1, <1>2 DEF Staging!Open, Working, Backed, StagingConstants
  <1>4. Served'
    BY DEF Staging!Open, StagingInv, Served, Staging!NoForgottenStage, StagingConstants
  <1> QED
    BY <1>3, <1>4 DEF StagingInv

\* The identity is durable before the first request uses it.
LEMMA SaveIdentityKeeps ==
  ASSUME StagingConstants, StagingInv, Staging!SaveIdentity
  PROVE  StagingInv'
  <1>1. /\ client.pc = "save" /\ client' = [client EXCEPT !.pc = "begin"] /\ sidecar' = client.session.id
        /\ UNCHANGED <<stage, published, late, resets>>
    BY DEF Staging!SaveIdentity
  <1>2. client.session \in Staging!StageSession /\ client.session.id \in Staging!Id /\ sidecar \in {Missing, client.session.id}
    BY <1>1 DEF StagingInv, Working, Staging!StageSession
  <1>3. client'.pc = "begin" /\ client'.session = client.session /\ client'.part = client.part
        /\ client' \in [pc : {"away", "save", "begin", "part", "sent", "complete", "done"},
                 session : Staging!StageSession \cup {Missing}, part : 1..MaxPart]
    BY <1>1 DEF StagingInv, Working
  <1>4. Served'
    BY <1>1, <1>2 DEF StagingInv, Served, Staging!NoForgottenStage, StagingConstants
  <1>5. Working'
    BY <1>1, <1>2, <1>3 DEF StagingInv, Working, Backed, StagingConstants
  <1> QED
    BY <1>4, <1>5 DEF StagingInv

\* What the server may answer of a stage.
LEMMA Reconciled ==
  ASSUME StagingConstants, NEW t \in Staging!StageSession, NEW answer \in [offset : 0..Size, state : {"receiving", "complete"}]
  PROVE  LET n == Staging!Reconcile(t, answer)
         IN /\ n \in Staging!StageSession \cup {Missing}
            /\ n # Missing => n.id = t.id /\ n.offset = answer.offset /\ n.state = answer.state /\ n.retries = t.retries
  BY DEF Staging!Reconcile, Staging!StageSession, StagingConstants

\* PUT .../uploads/<id> makes no stage but the one the disk names.
LEMMA BeginKeeps ==
  ASSUME StagingConstants, StagingInv, Staging!Begin
  PROVE  StagingInv'
  <1> DEFINE t == client.session
             row == [offset |-> 0, parts |-> {}, lost |-> FALSE]
             made == IF published \/ stage[t.id] # Missing THEN stage ELSE [stage EXCEPT ![t.id] = row]
             answer == IF published THEN [offset |-> Size, state |-> "complete"] ELSE [offset |-> made[t.id].offset, state |-> "receiving"]
  <1>1. t \in Staging!StageSession /\ t.id \in Staging!Id /\ sidecar = t.id
    BY DEF Staging!Begin, StagingInv, Working, Staging!StageSession
  <1>2. stage' = made /\ UNCHANGED <<sidecar, published, late, resets>>
    BY DEF Staging!Begin
  <1>3. /\ made \in [Staging!Id -> Stages \cup {Missing}] /\ (~published => made[t.id] \in Stages)
        /\ \A i \in Staging!Id : i # t.id => made[i] = stage[i]
    <2>1. row \in Stages
      BY DEF Stages, StagingConstants
    <2> QED
      BY <1>1, <2>1 DEF StagingInv, Served
  <1>4. Served'
    BY <1>1, <1>2, <1>3 DEF StagingInv, Served, Staging!NoForgottenStage
  <1>5. \/ client' = Staging!Away
        \/ \E part \in 1..MaxPart : Staging!GoOn(Staging!Reconcile(t, answer), part)
    BY DEF Staging!Begin, Staging!Fail
  <1>6. CASE client' = Staging!Away
    BY <1>4, <1>6, AwayWorks DEF StagingInv
  <1>7. CASE \E part \in 1..MaxPart : Staging!GoOn(Staging!Reconcile(t, answer), part)
    <2> PICK part \in 1..MaxPart : Staging!GoOn(Staging!Reconcile(t, answer), part)
      BY <1>7
    <2>1. /\ answer \in [offset : 0..Size, state : {"receiving", "complete"}]
          /\ answer.state = "complete" => published
          /\ ~published => answer.offset = made[t.id].offset
      <3>1. CASE published
        BY <3>1 DEF StagingConstants
      <3>2. CASE ~published
        <4>1. made[t.id] \in Stages
          BY <1>3, <3>2
        <4> HIDE DEF made, t
        <4> QED
          BY <3>2, <4>1 DEF Stages
      <3> QED
        BY <3>1, <3>2
    <2> HIDE DEF answer
    <2> PICK n : n = Staging!Reconcile(t, answer)
      OBVIOUS
    <2>2. /\ n \in Staging!StageSession \cup {Missing}
          /\ n # Missing => n.id = t.id /\ n.offset = answer.offset /\ n.state = answer.state
      <3> HIDE DEF t
      <3> QED
        BY <1>1, <2>1, Reconciled
    <2>3. n # Missing => sidecar' = n.id /\ (n.state = "complete" => published') /\ Backed(n)'
      <3>1. ~published => stage'[t.id].offset = made[t.id].offset /\ made[t.id].offset \in Nat
        BY <1>2, <1>3 DEF Stages
      <3> HIDE DEF made, t
      <3> QED
        BY <1>1, <1>2, <2>1, <2>2, <3>1 DEF Backed
    <2>4. Working'
      BY <2>2, <2>3, GoesOn
    <2> QED
      BY <1>4, <2>4 DEF StagingInv
  <1> QED
    BY <1>5, <1>6, <1>7

\* The part that the worker sends lies within the chunk.
LEMMA ThisPartTyped ==
  ASSUME StagingConstants, StagingInv, client.pc \in {"part", "sent"}
  PROVE  Staging!ThisPart \in Staging!Part /\ client.session \in Staging!StageSession /\ client.part \in 1..MaxPart
         /\ client.session.id \in Staging!Id /\ sidecar = client.session.id
  <1>1. /\ client.session \in Staging!StageSession /\ client.part \in 1..MaxPart /\ sidecar = client.session.id
        /\ client.session.offset < Size
    BY DEF StagingInv, Working
  <1>2. client.session.id \in Staging!Id /\ client.session.offset \in 0..(Size - 1)
    BY <1>1 DEF Staging!StageSession, StagingConstants
  <1>3. (IF Size - client.session.offset < client.part THEN Size - client.session.offset ELSE client.part) \in 1..Size
    BY <1>1, <1>2 DEF StagingConstants
  <1> QED
    BY <1>1, <1>2, <1>3 DEF Staging!ThisPart, Staging!Part

\* A part on its way may arrive at any time from now on.
LEMMA SendPartKeeps ==
  ASSUME StagingConstants, StagingInv, Staging!SendPart
  PROVE  StagingInv'
  <1>1. /\ client.pc = "part" /\ client' = [client EXCEPT !.pc = "sent"] /\ late' = late \cup {Staging!ThisPart}
        /\ UNCHANGED <<sidecar, stage, published, resets>>
    BY DEF Staging!SendPart
  <1>2. Served'
    BY <1>1, ThisPartTyped DEF StagingInv, Served, Staging!NoForgottenStage
  <1>3. client'.pc = "sent" /\ client'.session = client.session /\ client'.part = client.part
        /\ client' \in [pc : {"away", "save", "begin", "part", "sent", "complete", "done"},
                 session : Staging!StageSession \cup {Missing}, part : 1..MaxPart]
    BY <1>1 DEF StagingInv, Working
  <1>4. Working'
    BY <1>1, <1>3 DEF StagingInv, Working, Backed, Staging!Gone
  <1> QED
    BY <1>2, <1>4 DEF StagingInv

\* Parts stay within their bounds.
LEMMA PartsClamped ==
  ASSUME StagingConstants, NEW n \in 1..MaxPart
  PROVE  Staging!Shrink(n) \in 1..MaxPart /\ \A m \in Staging!Grow(n) : m \in 1..MaxPart
  <1>1. \A m \in Int : Staging!Clamped(m) \in 1..MaxPart
    BY DEF Staging!Clamped, StagingConstants
  <1>2. n \div 2 \in Int
    BY DEF StagingConstants
  <1>3. \A m \in 1..((3 * n) \div 2) : m \in Int
    BY DEF StagingConstants
  <1> QED
    BY <1>1, <1>2, <1>3 DEF Staging!Shrink, Staging!Grow

\* An answer acknowledges bytes the server has.
LEMMA PartAnsweredKeeps ==
  ASSUME StagingConstants, StagingInv, Staging!PartAnswered
  PROVE  StagingInv'
  <1> DEFINE t == client.session
  <1> PICK n : n = Staging!AcknowledgePart(t, Staging!ThisPart.size, Staging!Received(t.id))
    OBVIOUS
  <1>1. client.pc = "sent" /\ ~Staging!Gone(t.id) /\ UNCHANGED <<sidecar, stage, published, late, resets>>
    BY DEF Staging!PartAnswered
  <1>2. Served'
    BY <1>1 DEF StagingInv, Served, Staging!NoForgottenStage
  <1>3. client' = Staging!Away \/ \E part \in Staging!Grow(client.part) : Staging!GoOn(n, part)
    BY DEF Staging!PartAnswered, Staging!Fail
  <1>4. CASE client' = Staging!Away
    BY <1>2, <1>4, AwayWorks DEF StagingInv
  <1>5. CASE \E part \in Staging!Grow(client.part) : Staging!GoOn(n, part)
    <2> PICK part \in Staging!Grow(client.part) : Staging!GoOn(n, part)
      BY <1>5
    <2>1. t \in Staging!StageSession /\ t.id \in Staging!Id /\ sidecar = t.id /\ part \in 1..MaxPart
      BY <1>1, ThisPartTyped, PartsClamped
    <2>2. published \in BOOLEAN /\ stage[t.id] \in Stages
      BY <1>1, <2>1 DEF StagingInv, Served, Staging!Gone
    <2>3. /\ Staging!Received(t.id) \in [offset : 0..Size, state : {"receiving", "complete"}]
          /\ Staging!Received(t.id).state = "receiving"
          /\ Staging!Received(t.id).offset = stage[t.id].offset
          /\ Staging!Received(t.id).offset \in Nat
      BY <2>2 DEF Staging!Received, Stages, StagingConstants
    <2>4. /\ n \in Staging!StageSession \cup {Missing}
          /\ n # Missing => n.id = t.id /\ n.offset = Staging!Received(t.id).offset /\ n.state = Staging!Received(t.id).state
      <3> HIDE DEF t
      <3> DEFINE m == Staging!Reconcile(t, Staging!Received(t.id))
      <3>1. /\ m \in Staging!StageSession \cup {Missing}
            /\ m # Missing => m.id = t.id /\ m.offset = Staging!Received(t.id).offset /\ m.state = Staging!Received(t.id).state
        BY <2>1, <2>3, Reconciled
      <3>2. n \in {Missing, [m EXCEPT !.retries = 0]} /\ (n # Missing => m # Missing)
        BY DEF Staging!AcknowledgePart
      <3> HIDE DEF m
      <3> QED
        BY <3>1, <3>2 DEF Staging!StageSession, StagingConstants
    <2>5. n # Missing => sidecar' = n.id /\ (n.state = "complete" => published') /\ Backed(n)'
      BY <1>1, <2>1, <2>2, <2>3, <2>4 DEF Backed
    <2>6. Working'
      BY <2>1, <2>4, <2>5, GoesOn
    <2> QED
      BY <1>2, <2>6 DEF StagingInv
  <1> QED
    BY <1>3, <1>4, <1>5

\* Trying again changes nothing but the count.
LEMMA Retried ==
  ASSUME StagingConstants, NEW t \in Staging!StageSession
  PROVE  LET n == Staging!RecordRetry(t)
         IN n \in Staging!StageSession \cup {Missing} /\ (n # Missing => n.id = t.id /\ n.offset = t.offset /\ n.state = t.state)
  BY DEF Staging!RecordRetry, Staging!StageSession, StagingConstants

\* A part without an answer is sent again.
LEMMA PartUncertainKeeps ==
  ASSUME StagingConstants, StagingInv, Staging!PartUncertain
  PROVE  StagingInv'
  <1> DEFINE t == client.session
  <1> PICK n : n = Staging!RecordRetry(t)
    OBVIOUS
  <1>1. client.pc = "sent" /\ UNCHANGED <<sidecar, stage, published, late, resets>>
    BY DEF Staging!PartUncertain
  <1>2. Served'
    BY <1>1 DEF StagingInv, Served, Staging!NoForgottenStage
  <1> PICK part \in {client.part, Staging!Shrink(client.part)} : Staging!GoOn(n, part)
    BY DEF Staging!PartUncertain
  <1>3. t \in Staging!StageSession /\ sidecar = t.id /\ part \in 1..MaxPart
    BY <1>1, ThisPartTyped, PartsClamped
  <1>4. Backed(t) /\ (t.state = "complete" => published)
    BY <1>1 DEF StagingInv, Working
  <1>5. n \in Staging!StageSession \cup {Missing} /\ (n # Missing => n.id = t.id /\ n.offset = t.offset /\ n.state = t.state)
    BY <1>3, Retried
  <1>6. n # Missing => sidecar' = n.id /\ (n.state = "complete" => published') /\ Backed(n)'
    BY <1>1, <1>3, <1>4, <1>5 DEF Backed, Staging!Gone
  <1>7. Working'
    BY <1>3, <1>5, <1>6, GoesOn
  <1> QED
    BY <1>2, <1>7 DEF StagingInv

\* A stage that is gone is replaced by one that is durable before it is begun.
LEMMA PartGoneKeeps ==
  ASSUME StagingConstants, StagingInv, Staging!PartGone
  PROVE  StagingInv'
  <1> PICK id \in Staging!Unused :
        LET n == Staging!Reset(client.session, id)
        IN IF n = Missing THEN Staging!Fail /\ UNCHANGED <<sidecar, resets>>
           ELSE /\ sidecar' = id /\ resets' = (IF resets < Ids THEN resets + 1 ELSE resets)
                /\ client' = [pc |-> "begin", session |-> Staging!Restarted(n), part |-> client.part]
    BY DEF Staging!PartGone
  <1>1. client.pc = "sent" /\ Staging!Gone(client.session.id) /\ UNCHANGED <<stage, published, late>>
    BY DEF Staging!PartGone
  <1>2. client.session \in Staging!StageSession /\ sidecar = client.session.id /\ client.part \in 1..MaxPart
    BY <1>1, ThisPartTyped
  <1>3. id \in Staging!Id
    BY DEF Staging!Unused
  <1>4. CASE Staging!Reset(client.session, id) = Missing
    <2>1. client' = Staging!Away /\ UNCHANGED <<sidecar, resets>>
      BY <1>4 DEF Staging!Fail
    <2> QED
      BY <1>1, <2>1, AwayWorks DEF StagingInv, Served, Staging!NoForgottenStage
  <1>5. CASE Staging!Reset(client.session, id) # Missing
    <2>1. /\ sidecar' = id /\ resets' = (IF resets < Ids THEN resets + 1 ELSE resets)
          /\ client' = [pc |-> "begin", session |-> Staging!New(id), part |-> client.part]
      <3>1. Staging!Reset(client.session, id).id = id
        BY <1>2, <1>5 DEF Staging!Reset, Staging!StageSession
      <3> QED
        BY <1>5, <3>1 DEF Staging!Restarted
    <2>2. Staging!New(id) \in Staging!StageSession /\ Staging!New(id).id = id /\ Staging!New(id).offset = 0
          /\ Staging!New(id).state = "receiving"
      BY <1>3 DEF Staging!New, Staging!StageSession, StagingConstants
    <2>3. Working'
      BY <1>2, <2>1, <2>2 DEF Working, Backed, StagingConstants
    <2>4. resets' \in 0..Ids
      BY <2>1 DEF StagingInv, Served, StagingConstants
    <2>5. Served'
      BY <1>1, <1>2, <1>3, <2>1, <2>4 DEF StagingInv, Served, Staging!NoForgottenStage, Staging!Gone
    <2> QED
      BY <2>3, <2>5 DEF StagingInv
  <1> QED
    BY <1>4, <1>5

\* POST .../complete publishes what is whole, whether the answer arrives or not.
LEMMA CompleteStageKeeps ==
  ASSUME StagingConstants, StagingInv, Staging!CompleteStage
  PROVE  StagingInv'
  <1> DEFINE t == client.session
             answer == [offset |-> Size, state |-> "complete"]
  <1>1. /\ client.pc = "complete" /\ UNCHANGED <<sidecar, stage, late, resets>>
        /\ \/ published' = TRUE /\ (Staging!GoOn(Staging!Reconcile(t, answer), client.part) \/ Staging!GoOn(Staging!RecordRetry(t), client.part))
           \/ client' = Staging!Away /\ published' = published
    BY DEF Staging!CompleteStage, Staging!Fail
  <1>2. Served'
    BY <1>1 DEF StagingInv, Served, Staging!NoForgottenStage
  <1>3. t \in Staging!StageSession /\ sidecar = t.id /\ client.part \in 1..MaxPart
    BY <1>1 DEF StagingInv, Working
  <1>4. CASE client' = Staging!Away
    BY <1>2, <1>4, AwayWorks DEF StagingInv
  <1>5. CASE published' = TRUE /\ Staging!GoOn(Staging!Reconcile(t, answer), client.part)
    <2>1. answer \in [offset : 0..Size, state : {"receiving", "complete"}]
      BY DEF StagingConstants
    <2> HIDE DEF answer, t
    <2> PICK n : n = Staging!Reconcile(t, answer)
      OBVIOUS
    <2>2. n \in Staging!StageSession \cup {Missing} /\ (n # Missing => n.id = t.id)
      BY <1>3, <2>1, Reconciled
    <2>3. n # Missing => sidecar' = n.id /\ (n.state = "complete" => published') /\ Backed(n)'
      BY <1>1, <1>3, <1>5, <2>2 DEF Backed
    <2>4. Staging!GoOn(n, client.part)
      BY <1>5
    <2> QED
      BY <1>2, <1>3, <2>2, <2>3, <2>4, GoesOn DEF StagingInv
  <1>6. CASE published' = TRUE /\ Staging!GoOn(Staging!RecordRetry(t), client.part)
    <2> HIDE DEF t
    <2> PICK n : n = Staging!RecordRetry(t)
      OBVIOUS
    <2>1. n \in Staging!StageSession \cup {Missing} /\ (n # Missing => n.id = t.id)
      BY <1>3, Retried
    <2>2. n # Missing => sidecar' = n.id /\ (n.state = "complete" => published') /\ Backed(n)'
      BY <1>1, <1>3, <1>6, <2>1 DEF Backed
    <2>3. Staging!GoOn(n, client.part)
      BY <1>6
    <2> QED
      BY <1>2, <1>3, <2>1, <2>2, <2>3, GoesOn DEF StagingInv
  <1> QED
    BY <1>1, <1>4, <1>5, <1>6

\* Staged uploads, whatever the sizes, the limits and the number of identities: the
\* client never believes in bytes its stage does not hold, a chunk it reports is stored,
\* and the sidecar names every stage that holds a reservation (upload.rs stage() and
\* complete_stage()).
THEOREM StagedUploadStaysExact == Staging!Spec => []StagedUploadExact
  <1> SUFFICES ASSUME StagingConstants PROVE Staging!Spec => []Staging!StagedUploadExact
    BY NativeAssumption DEF StagedUploadExact
  <1>1. Staging!Init => StagingInv
    <2> SUFFICES ASSUME Staging!Init PROVE StagingInv
      OBVIOUS
    <2>1. Served
      <3>1. stage \in [Staging!Id -> Stages \cup {Missing}] /\ \A i \in Staging!Id : stage[i] = Missing
        BY DEF Staging!Init
      <3>2. Staging!NoForgottenStage
        BY <3>1 DEF Staging!NoForgottenStage
      <3>3. sidecar \in Staging!Id \cup {Missing} /\ published \in BOOLEAN /\ late \subseteq Staging!Part /\ resets = 0
        BY DEF Staging!Init
      <3>4. 0 \in 0..Ids
        BY DEF StagingConstants
      <3> QED
        BY <3>1, <3>2, <3>3, <3>4 DEF Served
    <2>2. Working
      BY DEF Staging!Init, Working, Staging!Away, StagingConstants
    <2> QED
      BY <2>1, <2>2 DEF StagingInv
  <1>2. StagingInv /\ [Staging!Next]_(Staging!vars) => StagingInv'
    <2> SUFFICES ASSUME StagingInv, [Staging!Next]_(Staging!vars) PROVE StagingInv'
      OBVIOUS
    <2>1. CASE UNCHANGED Staging!vars
      BY <2>1 DEF Staging!vars, StagingInv, Served, Working, Backed, Staging!Gone, Staging!NoForgottenStage
    <2>2. CASE Staging!Next
      BY <2>2, OpenKeeps, SaveIdentityKeeps, BeginKeeps, SendPartKeeps, PartAnsweredKeeps, PartUncertainKeeps,
         PartGoneKeeps, CompleteStageKeeps, DiesKeeps, LoseStageKeeps, LatePartKeeps, LateDirectKeeps DEF Staging!Next
    <2> QED
      BY <2>1, <2>2
  <1>3. StagingInv => Staging!StagedUploadExact
    <2> SUFFICES ASSUME StagingInv PROVE Staging!StagedUploadExact
      OBVIOUS
    <2>1. Staging!TypeOK
      BY DEF StagingInv, Served, Working, Stages, Staging!TypeOK
    <2>2. Staging!NeverAhead
      BY DEF StagingInv, Working, Backed, Staging!NeverAhead
    <2>3. Staging!DoneMeansPublished
      BY DEF StagingInv, Working, Staging!DoneMeansPublished
    <2> QED
      BY <2>1, <2>2, <2>3 DEF StagingInv, Served, Staging!StagedUploadExact
  <1> QED
    BY <1>1, <1>2, <1>3, PTL DEF Staging!Spec

-----------------------------------------------------------------------------
(* The record of a download.                                               *)

\* What a worker carries from one request to the next.
Runs == [source : {"public", "inbox", Missing}, background : BOOLEAN, resumed : BOOLEAN, key : Key \cup {Missing},
         password : BOOLEAN, seen : Envelopes \cup {Missing}, attempts : 0..MaxAttempts, session : BOOLEAN]

\* The types of the variables, and a job that runs has a directory.
StartTyped ==
  /\ server \in [transfer : Transfers, state : Starting!States, identity : {1, 2}]
  /\ sessions \in 0..Cardinality(Stores) /\ disk \in [Stores -> Directories \cup {Missing}] /\ run \in Runs
  /\ phase \in {"idle", "capabilities", "metadata", "unlock", "key", "manifest", "session", "record", "download"}
  /\ IF phase = "idle" THEN directory = Missing ELSE directory \in Stores /\ disk[directory] # Missing /\ run.source # Missing

\* Until its record is saved, a new job has its directory to itself.
FreshStart ==
  phase # "idle" /\ ~run.resumed =>
    /\ phase # "download" => disk[directory].job = Missing
    /\ run.source = "inbox" => disk[directory].secret = Missing
    /\ phase \in {"manifest", "session", "record"} /\ run.source = "public" => disk[directory].secret = run.key
    /\ phase \in {"unlock", "key", "manifest", "session", "record"} => run.seen # Missing

\* A resumed job goes by its record.
ResumedStart ==
  phase # "idle" /\ run.resumed =>
    /\ phase \in {"capabilities", "metadata", "unlock", "manifest", "download"}
    /\ disk[directory].job # Missing
    /\ phase \in {"unlock", "manifest"} => run.seen = disk[directory].job.envelope

\* Past the manifest the key and the password are the right ones.
OpenedStart ==
  /\ phase \in {"session", "record", "download"} => run.key = TheKey /\ run.password /\ ~server.transfer.note
  /\ phase = "record" /\ run.seen.kind = "descriptor" => run.session

\* The inductive invariant of the record of a download.
StartingInv ==
  /\ StartTyped /\ FreshStart /\ ResumedStart /\ OpenedStart
  /\ Starting!RecordResumable /\ Starting!DownloadAuthentic

\* A record outlives every step that leaves the disk alone.
LEMMA RecordsStay ==
  ASSUME Starting!RecordResumable, disk' = disk
  PROVE  Starting!RecordResumable'
  BY DEF Starting!RecordResumable, Starting!Saved

\* What a job starts with.
LEMMA NoRunTyped ==
  ASSUME StartingConstants
  PROVE  Starting!NoRun \in Runs /\ Starting!NoRun.resumed = FALSE
  <1>1. 0 \in 0..MaxAttempts
    BY DEF StartingConstants
  <1> QED
    BY <1>1 DEF Starting!NoRun, Runs

\* A job that ends leaves its directory as it is.
LEMMA EndsKeep ==
  ASSUME StartingConstants, StartingInv, Starting!Ended, disk' = disk,
         server' \in [transfer : Transfers, state : Starting!States, identity : {1, 2}], sessions' \in 0..Cardinality(Stores)
  PROVE  StartingInv'
  <1>1. phase' = "idle" /\ directory' = Missing /\ run' = Starting!NoRun
    BY DEF Starting!Ended
  <1>3. StartTyped'
    BY <1>1, NoRunTyped DEF StartingInv, StartTyped
  <1>4. FreshStart' /\ ResumedStart' /\ OpenedStart' /\ Starting!DownloadAuthentic'
    BY <1>1 DEF FreshStart, ResumedStart, OpenedStart, Starting!DownloadAuthentic, Starting!At
  <1> QED
    BY <1>3, <1>4, RecordsStay DEF StartingInv

\* The server goes on without the client.
LEMMA ServerGoesOn ==
  ASSUME StartingConstants, StartingInv, Starting!SenderGoesOn \/ Starting!ServerReplaced
  PROVE  StartingInv'
  <1>1. /\ server' \in [transfer : Transfers, state : Starting!States, identity : {1, 2}]
        /\ server'.transfer = server.transfer /\ UNCHANGED <<sessions, disk, phase, directory, run>>
    BY DEF StartingInv, StartTyped, Starting!SenderGoesOn, Starting!ServerReplaced, Starting!States
  <1>2. StartTyped'
    BY <1>1 DEF StartingInv, StartTyped
  <1>3. FreshStart' /\ ResumedStart' /\ OpenedStart'
    BY <1>1 DEF StartingInv, FreshStart, ResumedStart, OpenedStart
  <1>4. Starting!DownloadAuthentic'
    BY <1>1 DEF StartingInv, Starting!DownloadAuthentic, Starting!Saved, Starting!At
  <1> QED
    BY <1>1, <1>2, <1>3, <1>4, RecordsStay DEF StartingInv

\* An error, a cancellation or a death.
LEMMA FailsKeeps ==
  ASSUME StartingConstants, StartingInv, Starting!Fails
  PROVE  StartingInv'
  BY EndsKeep DEF StartingInv, StartTyped, Starting!Fails

\* A start makes a directory of its own.
LEMMA RunKeeps ==
  ASSUME StartingConstants, StartingInv, NEW d \in Stores, NEW key \in Key \cup {Missing}, NEW background \in BOOLEAN,
         Starting!RunPublic(d, key, background) \/ Starting!RunInbox(d, key, background)
  PROVE  StartingInv'
  <1>1. PICK source \in {"public", "inbox"} :
          run' = [Starting!NoRun EXCEPT !.source = source, !.background = background, !.key = key]
    BY DEF Starting!RunPublic, Starting!RunInbox
  <1>2. /\ disk[d] = Missing /\ disk' = [disk EXCEPT ![d] = [secret |-> Missing, job |-> Missing]]
        /\ phase' = "capabilities" /\ directory' = d /\ UNCHANGED <<server, sessions>>
    BY DEF Starting!RunPublic, Starting!RunInbox
  <1>3. run' \in Runs /\ run'.source = source /\ run'.resumed = FALSE
    BY <1>1, NoRunTyped DEF Runs
  <1>4. /\ disk' \in [Stores -> Directories \cup {Missing}] /\ disk'[d] # Missing
        /\ disk'[d].secret = Missing /\ disk'[d].job = Missing /\ \A x \in Stores : x # d => disk'[x] = disk[x]
    <2>1. [secret |-> Missing, job |-> Missing] \in Directories
      BY DEF Directories
    <2> QED
      BY <1>2, <2>1 DEF StartingInv, StartTyped, StartingConstants
  <1>5. StartTyped'
    BY <1>2, <1>3, <1>4 DEF StartingInv, StartTyped, StartingConstants
  <1>6. FreshStart' /\ ResumedStart' /\ OpenedStart' /\ Starting!DownloadAuthentic'
    BY <1>2, <1>3, <1>4 DEF FreshStart, ResumedStart, OpenedStart, Starting!DownloadAuthentic, Starting!At
  <1>7. Starting!RecordResumable'
    BY <1>4 DEF StartingInv, Starting!RecordResumable, Starting!Saved
  <1> QED
    BY <1>5, <1>6, <1>7 DEF StartingInv

\* A resumption finds the record it goes by.
LEMMA ResumeKeeps ==
  ASSUME StartingConstants, StartingInv, NEW d \in Stores,
         Starting!Resume(d) \/ \E key \in Key : Starting!ResumeInbox(d, key)
  PROVE  StartingInv'
  <1>1. run' \in Runs /\ run'.source # Missing /\ run'.resumed = TRUE
    <2>1. CASE Starting!Resume(d)
      <3>1. run' = [Starting!NoRun EXCEPT !.source = "public", !.resumed = TRUE]
        BY <2>1 DEF Starting!Resume
      <3> QED
        BY <3>1, NoRunTyped DEF Runs, StartingConstants
    <2>2. CASE \E key \in Key : Starting!ResumeInbox(d, key)
      <3>1. PICK key \in Key : run' = [Starting!NoRun EXCEPT !.source = "inbox", !.resumed = TRUE, !.key = key]
        BY <2>2 DEF Starting!ResumeInbox
      <3> QED
        BY <3>1, NoRunTyped DEF Runs, StartingConstants
    <2> QED
      BY <2>1, <2>2
  <1>2. /\ disk[d] # Missing /\ disk[d].job # Missing
        /\ phase' = "capabilities" /\ directory' = d /\ UNCHANGED <<server, sessions, disk>>
    BY DEF Starting!Resume, Starting!ResumeInbox, Starting!Saved
  <1>4. StartTyped'
    BY <1>1, <1>2 DEF StartingInv, StartTyped, StartingConstants
  <1>5. FreshStart' /\ ResumedStart' /\ OpenedStart' /\ Starting!DownloadAuthentic'
    BY <1>1, <1>2 DEF FreshStart, ResumedStart, OpenedStart, Starting!DownloadAuthentic, Starting!At
  <1> QED
    BY <1>2, <1>4, <1>5, RecordsStay DEF StartingInv

\* A job that moves on by what it holds in memory.
LEMMA MovesOn ==
  ASSUME StartingConstants, StartingInv, UNCHANGED <<server, sessions, disk, directory>>, phase # "idle",
         phase' \in {"capabilities", "metadata", "unlock", "key", "manifest", "session", "record", "download"},
         run' \in Runs, run'.source = run.source, run'.resumed = run.resumed,
         FreshStart', ResumedStart', OpenedStart', Starting!DownloadAuthentic'
  PROVE  StartingInv'
  <1>1. StartTyped'
    BY DEF StartingInv, StartTyped
  <1> QED
    BY <1>1, RecordsStay DEF StartingInv

\* A running job has a directory and a typed memory.
LEMMA Running ==
  ASSUME StartingInv, phase # "idle"
  PROVE  directory \in Stores /\ disk[directory] \in Directories /\ disk[directory] # Missing /\ run \in Runs /\ run.source # Missing
         /\ run.resumed \in BOOLEAN
  BY DEF StartingInv, StartTyped, Runs

\* capabilities() keeps the invariant.
LEMMA CapabilitiesKeeps ==
  ASSUME StartingConstants, StartingInv, Starting!Capabilities
  PROVE  StartingInv'
  <1>1. phase = "capabilities" /\ phase' = "metadata" /\ UNCHANGED <<server, sessions, disk, directory>>
    BY DEF Starting!Capabilities, Starting!At, Starting!Goto
  <1>2. run' \in {run, [run EXCEPT !.key = disk[directory].secret]}
    BY DEF Starting!Capabilities
  <1>3. run' \in Runs /\ run'.source = run.source /\ run'.resumed = run.resumed
    BY <1>1, <1>2, Running DEF Runs, Directories
  <1>4. FreshStart' /\ ResumedStart' /\ OpenedStart' /\ Starting!DownloadAuthentic'
    BY <1>1, <1>3 DEF StartingInv, FreshStart, ResumedStart, OpenedStart, Starting!DownloadAuthentic, Starting!At
  <1> QED
    BY <1>1, <1>3, <1>4, MovesOn

\* metadata() of a pending transfer keeps the invariant.
LEMMA MetadataPendingKeeps ==
  ASSUME StartingConstants, StartingInv, Starting!MetadataPending
  PROVE  StartingInv'
  <1>1. /\ phase = "metadata" /\ run' = [run EXCEPT !.attempts = run.attempts + 1] /\ run.attempts < MaxAttempts
        /\ UNCHANGED <<server, sessions, disk, phase, directory>>
    BY DEF Starting!MetadataPending, Starting!At
  <1>2. run \in Runs
    BY <1>1, Running
  <1>3. run.attempts + 1 \in 0..MaxAttempts
    <2>1. run.attempts \in 0..MaxAttempts
      BY <1>2 DEF Runs
    <2> QED
      BY <1>1, <2>1 DEF StartingConstants
  <1>4. run' \in Runs /\ run'.source = run.source /\ run'.resumed = run.resumed
    BY <1>1, <1>2, <1>3 DEF Runs
  <1>5. FreshStart' /\ ResumedStart' /\ OpenedStart' /\ Starting!DownloadAuthentic'
    BY <1>1, <1>4 DEF StartingInv, FreshStart, ResumedStart, OpenedStart, Starting!DownloadAuthentic, Starting!At
  <1> QED
    BY <1>1, <1>4, <1>5, MovesOn

\* metadata() shows the envelope, or finds the one of the record again.
LEMMA MetadataKeeps ==
  ASSUME StartingConstants, StartingInv, Starting!Metadata
  PROVE  StartingInv'
  <1>1. /\ phase = "metadata" /\ phase' = "unlock" /\ UNCHANGED <<server, sessions, disk, directory>>
        /\ run' = [run EXCEPT !.seen = IF run.resumed THEN disk[directory].job.envelope ELSE Starting!Envelope]
    BY DEF Starting!Metadata, Starting!At, Starting!Goto
  <1>2. Starting!Envelope \in Envelopes
    BY DEF Starting!Envelope, Envelopes, StartingInv, StartTyped
  <1>3. run.resumed => disk[directory].job.envelope \in Envelopes
    <2> SUFFICES ASSUME run.resumed PROVE disk[directory].job.envelope \in Envelopes
      OBVIOUS
    <2>1. disk[directory].job \in Records
      BY <1>1, Running DEF StartingInv, ResumedStart, Directories
    <2> QED
      BY <2>1 DEF Records
  <1>4. run \in Runs
    BY <1>1, Running
  <1>5. /\ run' \in Runs /\ run'.source = run.source /\ run'.resumed = run.resumed
        /\ run'.seen \in Envelopes
        /\ run.resumed => run'.seen = disk[directory].job.envelope
    BY <1>1, <1>2, <1>3, <1>4 DEF Runs
  <1>6. FreshStart' /\ ResumedStart' /\ OpenedStart' /\ Starting!DownloadAuthentic'
    BY <1>1, <1>5 DEF StartingInv, FreshStart, ResumedStart, OpenedStart, Starting!DownloadAuthentic, Starting!At, StartingConstants
  <1> QED
    BY <1>1, <1>5, <1>6, MovesOn

\* unlock() keeps the invariant: nothing is believed of the key yet.
LEMMA UnlockKeeps ==
  ASSUME StartingConstants, StartingInv, NEW key \in Key, NEW password \in BOOLEAN, Starting!Unlock(key, password)
  PROVE  StartingInv'
  <1>1. /\ phase = "unlock" /\ phase' = (IF run.resumed THEN "manifest" ELSE "key") /\ UNCHANGED <<server, sessions, disk, directory>>
        /\ run' = [run EXCEPT !.key = key, !.password = password]
    BY DEF Starting!Unlock, Starting!At, Starting!Goto
  <1>2. run \in Runs
    BY <1>1, Running
  <1>3. run' \in Runs /\ run'.source = run.source /\ run'.resumed = run.resumed /\ run'.seen = run.seen
    BY <1>1, <1>2 DEF Runs
  <1>4. FreshStart' /\ ResumedStart' /\ OpenedStart' /\ Starting!DownloadAuthentic'
    BY <1>1, <1>3 DEF StartingInv, FreshStart, ResumedStart, OpenedStart, Starting!DownloadAuthentic, Starting!At
  <1> QED
    BY <1>1, <1>3, <1>4, MovesOn

\* Only the key and the password together get past the manifest.
LEMMA ManifestKeeps ==
  ASSUME StartingConstants, StartingInv, Starting!Manifest
  PROVE  StartingInv'
  <1>1. /\ phase = "manifest" /\ Starting!Opens /\ UNCHANGED <<server, sessions, disk, directory, run>>
        /\ phase' = (IF run.resumed THEN "download" ELSE IF run.seen.kind = "descriptor" THEN "session" ELSE "record")
    BY DEF Starting!Manifest, Starting!At, Starting!Goto
  <1>2. run \in Runs
    BY <1>1, Running
  <1>3. FreshStart' /\ ResumedStart' /\ OpenedStart' /\ Starting!DownloadAuthentic'
    BY <1>1, Running DEF StartingInv, FreshStart, ResumedStart, OpenedStart, Starting!DownloadAuthentic, Starting!At, Starting!Saved, Starting!Opens
  <1> QED
    BY <1>1, <1>2, <1>3, MovesOn

\* A directory whose key or record is written.
LEMMA DirectoryWritten ==
  ASSUME StartingConstants, StartingInv, phase # "idle", NEW next \in Directories, disk' = [disk EXCEPT ![directory] = next]
  PROVE  /\ disk' \in [Stores -> Directories \cup {Missing}] /\ disk'[directory] = next /\ disk'[directory] # Missing
         /\ \A d \in Stores : d # directory => disk'[d] = disk[d]
  BY Running DEF StartingInv, StartTyped, StartingConstants

\* save_secret(): the key of a link is beside the record before the record is.
LEMMA StoreKeyKeeps ==
  ASSUME StartingConstants, StartingInv, Starting!StoreKey
  PROVE  StartingInv'
  <1>1. /\ phase = "key" /\ phase' = "manifest" /\ UNCHANGED <<server, sessions, directory, run>>
        /\ disk' = IF run.source = "public" THEN [disk EXCEPT ![directory].secret = run.key] ELSE disk
    BY DEF Starting!StoreKey, Starting!At, Starting!Goto
  <1>2. ~run.resumed /\ disk[directory].job = Missing /\ run.seen # Missing /\ run.source \in {"public", "inbox"} /\ run.key \in Key \cup {Missing}
        /\ (run.source = "inbox" => disk[directory].secret = Missing)
    BY <1>1, Running DEF StartingInv, ResumedStart, FreshStart, Runs
  <1>3. CASE run.source = "inbox"
    <2>1. FreshStart' /\ ResumedStart' /\ OpenedStart' /\ Starting!DownloadAuthentic'
      BY <1>1, <1>2, <1>3 DEF FreshStart, ResumedStart, OpenedStart, Starting!DownloadAuthentic, Starting!At
    <2> QED
      BY <1>1, <1>3, <2>1, Running, MovesOn
  <1>4. CASE run.source = "public"
    <2>1. PICK next : next = [disk[directory] EXCEPT !.secret = run.key]
      OBVIOUS
    <2>2. next \in Directories /\ next.secret = run.key /\ next.job = Missing
      BY <1>1, <1>2, <2>1, Running DEF Directories
    <2>3. disk' = [disk EXCEPT ![directory] = next]
      BY <1>1, <1>4, <2>1
    <2>4. /\ disk' \in [Stores -> Directories \cup {Missing}] /\ disk'[directory] = next /\ disk'[directory] # Missing
          /\ \A d \in Stores : d # directory => disk'[d] = disk[d]
      BY <1>1, <2>2, <2>3, DirectoryWritten
    <2>5. StartTyped'
      BY <1>1, <2>4 DEF StartingInv, StartTyped
    <2>6. FreshStart' /\ ResumedStart' /\ OpenedStart' /\ Starting!DownloadAuthentic'
      BY <1>1, <1>2, <1>4, <2>2, <2>4 DEF FreshStart, ResumedStart, OpenedStart, Starting!DownloadAuthentic, Starting!At
    <2>7. Starting!RecordResumable'
      BY <2>2, <2>4 DEF StartingInv, Starting!RecordResumable, Starting!Saved
    <2> QED
      BY <2>5, <2>6, <2>7 DEF StartingInv
  <1> QED
    BY <1>2, <1>3, <1>4

\* The directories are counted as they are.
LEMMA CountedAlike == Starting!Cardinality(Stores) = Cardinality(Stores)
  BY DEF Starting!Cardinality, Cardinality

\* create_turbo_session() keeps the invariant, answered or not.
LEMMA CreateTurboSessionKeeps ==
  ASSUME StartingConstants, StartingInv, Starting!CreateTurboSession
  PROVE  StartingInv'
  <1>1. phase = "session" /\ sessions < Cardinality(Stores) /\ sessions' = sessions + 1 /\ UNCHANGED <<server, disk>>
    BY CountedAlike DEF Starting!CreateTurboSession, Starting!At
  <1>2. sessions' \in 0..Cardinality(Stores) /\ server' \in [transfer : Transfers, state : Starting!States, identity : {1, 2}]
    <2>1. Cardinality(Stores) \in Nat
      BY FS_CardinalityType DEF StartingConstants
    <2> QED
      BY <1>1, <2>1 DEF StartingInv, StartTyped
  <1>3. CASE Starting!Ended
    BY <1>1, <1>2, <1>3, EndsKeep
  <1>4. CASE phase' = "record" /\ directory' = directory /\ run' = [run EXCEPT !.session = TRUE]
    <2>1. run \in Runs
      BY <1>1, Running
    <2>2. /\ run' \in Runs /\ run'.source = run.source /\ run'.resumed = run.resumed /\ run'.seen = run.seen
          /\ run'.key = run.key /\ run'.password = run.password /\ run'.session
      BY <1>4, <2>1 DEF Runs
    <2>3. StartTyped'
      BY <1>1, <1>2, <1>4, <2>2 DEF StartingInv, StartTyped
    <2>4. FreshStart' /\ ResumedStart' /\ OpenedStart' /\ Starting!DownloadAuthentic'
      BY <1>1, <1>4, <2>2 DEF StartingInv, FreshStart, ResumedStart, OpenedStart, Starting!DownloadAuthentic, Starting!At
    <2> QED
      BY <1>1, <2>3, <2>4, RecordsStay DEF StartingInv
  <1> QED
    BY <1>3, <1>4 DEF Starting!CreateTurboSession, Starting!Goto

\* The record is saved with all that a resumption needs.
LEMMA SaveRecordKeeps ==
  ASSUME StartingConstants, StartingInv, Starting!SaveRecord
  PROVE  StartingInv'
  <1>1. phase = "record" /\ UNCHANGED <<server, sessions>>
    BY DEF Starting!SaveRecord, Starting!At
  <1>2. /\ ~run.resumed /\ run.seen # Missing /\ run.key = TheKey /\ run.password /\ ~server.transfer.note
        /\ run.source = "inbox" => disk[directory].secret = Missing
        /\ run.source = "public" => disk[directory].secret = TheKey
        /\ run.seen.kind = "descriptor" => run.session
    BY <1>1 DEF StartingInv, ResumedStart, FreshStart, OpenedStart
  <1>3. PICK written : written = [source |-> run.source, envelope |-> run.seen, session |-> run.session, complete |-> FALSE]
    OBVIOUS
  <1>4. written \in Records /\ written.source = run.source /\ written.envelope = run.seen /\ written.session = run.session /\ ~written.complete
    <2>1. run \in Runs /\ run.source # Missing /\ run.seen # Missing
      BY <1>1, <1>2, Running
    <2>2. run.source \in {"public", "inbox"} /\ run.seen \in Envelopes /\ run.session \in BOOLEAN
      BY <2>1 DEF Runs
    <2> QED
      BY <1>3, <2>2 DEF Records
  <1>5. PICK next : next = [disk[directory] EXCEPT !.job = written]
    OBVIOUS
  <1>6. next \in Directories /\ next.secret = disk[directory].secret /\ next.job = written
    BY <1>1, <1>4, <1>5, Running DEF Directories
  <1>7. disk' = [disk EXCEPT ![directory] = next]
    BY <1>3, <1>5 DEF Starting!SaveRecord
  <1>8. /\ disk' \in [Stores -> Directories \cup {Missing}] /\ disk'[directory] = next /\ disk'[directory] # Missing
        /\ \A d \in Stores : d # directory => disk'[d] = disk[d]
    BY <1>1, <1>6, <1>7, DirectoryWritten
  <1>9. Starting!RecordResumable'
    BY <1>2, <1>4, <1>6, <1>8 DEF StartingInv, Starting!RecordResumable, Starting!Saved
  <1>10. CASE Starting!Ended
    <2>1. phase' = "idle" /\ directory' = Missing /\ run' = Starting!NoRun
      BY <1>10 DEF Starting!Ended
    <2>2. StartTyped'
      BY <1>1, <1>8, <2>1, NoRunTyped DEF StartingInv, StartTyped
    <2>3. FreshStart' /\ ResumedStart' /\ OpenedStart' /\ Starting!DownloadAuthentic'
      BY <2>1 DEF FreshStart, ResumedStart, OpenedStart, Starting!DownloadAuthentic, Starting!At
    <2> QED
      BY <1>9, <2>2, <2>3 DEF StartingInv
  <1>11. CASE phase' = "download" /\ UNCHANGED <<directory, run>>
    <2>1. StartTyped'
      BY <1>1, <1>8, <1>11 DEF StartingInv, StartTyped
    <2>2. FreshStart' /\ ResumedStart' /\ OpenedStart'
      BY <1>1, <1>2, <1>6, <1>8, <1>11 DEF FreshStart, ResumedStart, OpenedStart
    <2>3. Starting!DownloadAuthentic'
      BY <1>1, <1>2, <1>4, <1>6, <1>8, <1>11 DEF Starting!DownloadAuthentic, Starting!Saved, Starting!At, StartingConstants
    <2> QED
      BY <1>9, <2>1, <2>2, <2>3 DEF StartingInv
  <1> QED
    BY <1>10, <1>11 DEF Starting!SaveRecord, Starting!Goto

\* A complete download needs no key any more.
LEMMA DownloadKeeps ==
  ASSUME StartingConstants, StartingInv, Starting!Download
  PROVE  StartingInv'
  <1>1. /\ phase = "download" /\ UNCHANGED <<server, sessions>> /\ phase' = "idle" /\ directory' = Missing /\ run' = Starting!NoRun
        /\ disk' = [disk EXCEPT ![directory].job.complete = TRUE, ![directory].secret = Missing]
    BY DEF Starting!Download, Starting!At, Starting!Ended
  <1>2. disk[directory] \in Directories /\ disk[directory].job \in Records
    BY <1>1, Running DEF StartingInv, Starting!DownloadAuthentic, Starting!Saved, Starting!At, Directories
  <1>3. PICK written : written = [disk[directory].job EXCEPT !.complete = TRUE]
    OBVIOUS
  <1>4. written \in Records /\ written.complete /\ written.envelope = disk[directory].job.envelope
        /\ written.session = disk[directory].job.session
    BY <1>2, <1>3 DEF Records
  <1>5. PICK next : next = [disk[directory] EXCEPT !.job = written, !.secret = Missing]
    OBVIOUS
  <1>6. next \in Directories /\ next.secret = Missing /\ next.job = written
    BY <1>2, <1>4, <1>5 DEF Directories
  <1>7. disk' = [disk EXCEPT ![directory] = next]
    BY <1>1, <1>2, <1>3, <1>5, Running DEF StartingInv, StartTyped, Directories
  <1>8. /\ disk' \in [Stores -> Directories \cup {Missing}] /\ disk'[directory] = next
        /\ \A d \in Stores : d # directory => disk'[d] = disk[d]
    BY <1>1, <1>6, <1>7, DirectoryWritten
  <1>9. Starting!RecordResumable'
    <2>1. disk[directory].job.envelope.kind = "descriptor" => disk[directory].job.session
      BY <1>1, <1>2, Running DEF StartingInv, Starting!RecordResumable, Starting!Saved, StartingConstants
    <2> QED
      BY <1>4, <1>6, <1>8, <2>1 DEF StartingInv, Starting!RecordResumable, Starting!Saved
  <1>10. StartTyped'
    BY <1>1, <1>8, NoRunTyped DEF StartingInv, StartTyped
  <1>11. FreshStart' /\ ResumedStart' /\ OpenedStart' /\ Starting!DownloadAuthentic'
    BY <1>1 DEF FreshStart, ResumedStart, OpenedStart, Starting!DownloadAuthentic, Starting!At
  <1> QED
    BY <1>9, <1>10, <1>11 DEF StartingInv

\* The record of a download, for every key, every kind of transfer and any number of
\* starts: whenever the process dies, an unfinished record has the key that opens it
\* and the session it needs, the key of a delivery is never on disk, and a download
\* runs only for a durable record and what authentically opened it (download.rs
\* async_run() and async_resume()).
THEOREM DownloadRecordStaysUsable == Starting!Spec => []DownloadRecordUsable
  <1> SUFFICES ASSUME StartingConstants PROVE Starting!Spec => []Starting!DownloadRecordUsable
    BY NativeAssumption DEF DownloadRecordUsable
  <1>1. Starting!Init => StartingInv
    <2> SUFFICES ASSUME Starting!Init PROVE StartingInv
      OBVIOUS
    <2>1. \A d \in Stores : disk[d] = Missing
      BY DEF Starting!Init
    <2>2. StartTyped
      <3>1. sessions \in 0..Cardinality(Stores)
        BY FS_CardinalityType DEF Starting!Init, StartingConstants
      <3>2. run \in Runs
        BY NoRunTyped DEF Starting!Init
      <3> QED
        BY <3>1, <3>2 DEF Starting!Init, StartTyped, Starting!States
    <2>3. FreshStart /\ ResumedStart /\ OpenedStart /\ Starting!DownloadAuthentic
      BY DEF Starting!Init, FreshStart, ResumedStart, OpenedStart, Starting!DownloadAuthentic, Starting!At
    <2>4. Starting!RecordResumable
      BY <2>1 DEF Starting!RecordResumable, Starting!Saved
    <2> QED
      BY <2>2, <2>3, <2>4 DEF StartingInv
  <1>2. StartingInv /\ [Starting!Next]_(Starting!vars) => StartingInv'
    <2> SUFFICES ASSUME StartingInv, [Starting!Next]_(Starting!vars) PROVE StartingInv'
      OBVIOUS
    <2>1. CASE UNCHANGED Starting!vars
      <3>1. StartTyped' /\ FreshStart' /\ ResumedStart' /\ OpenedStart' /\ Starting!DownloadAuthentic'
        BY <2>1 DEF Starting!vars, StartingInv, StartTyped, FreshStart, ResumedStart, OpenedStart,
                    Starting!DownloadAuthentic, Starting!Saved, Starting!At
      <3>2. disk' = disk
        BY <2>1 DEF Starting!vars
      <3> QED
        BY <3>1, <3>2, RecordsStay DEF StartingInv
    <2>2. ASSUME NEW d \in Stores, NEW background \in BOOLEAN, NEW key \in Key \cup {Missing},
                 Starting!RunPublic(d, key, background) \/ Starting!RunInbox(d, key, background)
          PROVE  StartingInv'
      BY <2>2, RunKeeps
    <2>3. CASE Starting!Next
      BY <2>2, <2>3, ServerGoesOn, FailsKeeps, ResumeKeeps, CapabilitiesKeeps, MetadataPendingKeeps, MetadataKeeps,
         UnlockKeeps, StoreKeyKeeps, ManifestKeeps, CreateTurboSessionKeeps, SaveRecordKeeps, DownloadKeeps
         DEF Starting!Next, Starting!LinkKeys
    <2> QED
      BY <2>1, <2>3
  <1>3. StartingInv => Starting!DownloadRecordUsable
    <2> SUFFICES ASSUME StartingInv PROVE Starting!DownloadRecordUsable
      OBVIOUS
    <2>1. \A d \in Stores : disk[d] # Missing => disk[d].secret \in Key \cup {Missing}
      BY DEF StartingInv, StartTyped, Directories
    <2>2. run.attempts \in 0..MaxAttempts
      BY DEF StartingInv, StartTyped, Runs
    <2>3. Starting!TypeOK
      BY <2>1, <2>2, CountedAlike DEF StartingInv, StartTyped, Starting!TypeOK
    <2> QED
      BY <2>3 DEF StartingInv, Starting!DownloadRecordUsable
  <1> QED
    BY <1>1, <1>2, <1>3, PTL DEF Starting!Spec

-----------------------------------------------------------------------------
(* The checkpoint store.                                                   *)

\* The files of a job directory.
Files ==
  [key : 1..MaxKey \cup {Missing, Torn}, dir : {"absent", "live", "gone"}, temp : Saving!Sealed \cup {Missing, Torn},
   record : Saving!Sealed \cup {Missing}, spool : Value \cup {Missing, Torn}, artifact : Value \cup {Missing}]

\* The steps of a process without the lock, and with it.
Unlocked == {"idle", "opening"}
Locked == {"keying", "writingkey", "open", "saving", "renaming", "syncing", "spooling", "linking"}

\* What a process knows of the files it works on.
Sound(x, files, n) ==
  /\ x \in [pc : Unlocked \cup Locked, key : 1..MaxKey \cup {Missing}, want : Value \cup {Missing}]
  /\ x.pc \in Locked \ {"keying", "writingkey"} => x.key \in 1..MaxKey
  /\ x.pc \in {"saving", "renaming", "spooling", "linking"} => x.want \in Value
  /\ x.pc = "writingkey" => n < MaxKey
  /\ x.pc = "renaming" => files.temp \in Saving!Sealed /\ files.temp.value = x.want
  /\ x.pc = "linking" => files.spool \in Value

\* What a reader finds; a missing record is a value too.
ValueOf(file) == IF file = Missing THEN Missing ELSE file.value

\* Both versions of the record are settled, and no artifact has two.
Durable(files, synced, values) ==
  files.dir # "gone" =>
    /\ ValueOf(files.record) \in values /\ ValueOf(synced.record) \in values
    /\ windows => synced.record = files.record
    /\ synced.artifact \in {Missing, files.artifact}

\* The inductive invariant of the checkpoint store.
SavingInv ==
  /\ current \in Files /\ kept \in Files /\ keys \in 0..MaxKey /\ owner \in Process \cup {Missing}
  /\ settled \subseteq Value \cup {Missing} /\ windows \in Windows /\ proc = [p \in Process |-> proc[p]]
  /\ \A p \in Process : Sound(proc[p], current, keys) /\ (proc[p].pc \in Locked => owner = p)
  /\ Durable(current, kept, settled)

\* A process that moves under the lock, or touches nothing that the lock guards.
LEMMA ProcessMoves ==
  ASSUME SavingConstants, SavingInv, NEW p \in Process, NEW x, proc' = [proc EXCEPT ![p] = x],
         Sound(x, current', keys'), x.pc \in Locked => owner' = p,
         \/ owner \in {p, Missing}
         \/ owner' = owner /\ keys' = keys /\ current'.temp = current.temp /\ current'.spool = current.spool,
         current' \in Files, kept' \in Files, keys' \in 0..MaxKey, owner' \in Process \cup {Missing},
         settled' \subseteq Value \cup {Missing}, windows' = windows, Durable(current', kept', settled')
  PROVE  SavingInv'
  <1>1. proc' = [q \in Process |-> proc'[q]] /\ proc'[p] = x /\ \A q \in Process : q # p => proc'[q] = proc[q]
    BY DEF SavingInv
  <1>2. ASSUME NEW q \in Process PROVE Sound(proc'[q], current', keys') /\ (proc'[q].pc \in Locked => owner' = q)
    <2>1. CASE q = p
      BY <1>1, <2>1
    <2>2. CASE q # p /\ owner \in {p, Missing}
      <3>1. Sound(proc[q], current, keys) /\ proc[q].pc \notin Locked /\ proc'[q] = proc[q]
        BY <1>1, <2>2 DEF SavingInv, SavingConstants
      <3> QED
        BY <3>1 DEF Sound, Locked
    <2>3. CASE q # p /\ owner' = owner /\ keys' = keys /\ current'.temp = current.temp /\ current'.spool = current.spool
      <3>1. Sound(proc[q], current, keys) /\ (proc[q].pc \in Locked => owner = q) /\ proc'[q] = proc[q]
        BY <1>1, <2>3 DEF SavingInv
      <3> QED
        BY <2>3, <3>1 DEF Sound
    <2> QED
      BY <2>1, <2>2, <2>3
  <1>3. Durable(current, kept, settled)'
    BY DEF Durable, ValueOf
  <1>4. \A q \in Process : Sound(proc[q], current, keys)'
    BY <1>2 DEF Sound
  <1> QED
    BY <1>1, <1>2, <1>3, <1>4 DEF SavingInv

\* What a process may do that holds the lock, or waits for it.
LEMMA ProcessKnown ==
  ASSUME SavingInv, NEW p \in Process
  PROVE  /\ proc[p] \in [pc : Unlocked \cup Locked, key : 1..MaxKey \cup {Missing}, want : Value \cup {Missing}]
         /\ Sound(proc[p], current, keys) /\ (proc[p].pc \in Locked => owner = p)
  BY DEF SavingInv, Sound

\* Idle knows nothing.
LEMMA IdleSound ==
  ASSUME NEW files, NEW n
  PROVE  Sound(Saving!Idle, files, n) /\ Saving!Idle.pc = "idle"
  BY DEF Sound, Saving!Idle, Unlocked, Locked

\* A process that only goes on to another step.
LEMMA StepOnly ==
  ASSUME SavingConstants, SavingInv, NEW p \in Process, NEW pc1 \in Unlocked \cup Locked,
         proc' = [proc EXCEPT ![p].pc = pc1], UNCHANGED <<current, kept, keys, settled, windows>>,
         owner' = owner \/ (owner = Missing /\ owner' = p), pc1 \in Locked => owner' = p,
         pc1 \notin {"writingkey", "renaming", "linking"},
         pc1 \in Locked \ {"keying"} => proc[p].pc \in Locked \ {"keying", "writingkey"},
         pc1 \in {"saving", "spooling"} => proc[p].want \in Value
  PROVE  SavingInv'
  <1>1. PICK x : x = [proc[p] EXCEPT !.pc = pc1]
    OBVIOUS
  <1>2. Sound(x, current', keys')
    BY <1>1, ProcessKnown DEF Sound, Locked
  <1>3. x.pc = pc1
    BY <1>1, ProcessKnown
  <1>4. proc' = [proc EXCEPT ![p] = x]
    BY <1>1
  <1>5. current' \in Files /\ kept' \in Files /\ keys' \in 0..MaxKey /\ owner' \in Process \cup {Missing} /\ settled' \subseteq Value \cup {Missing}
        /\ Durable(current', kept', settled')
    BY DEF SavingInv
  <1> QED
    BY <1>2, <1>3, <1>4, <1>5, ProcessMoves

\* Store::open and acquire_lock keep the invariant.
LEMMA OpensKeep ==
  ASSUME SavingConstants, SavingInv, NEW p \in Process, Saving!Open(p) \/ Saving!AcquireLock(p) \/ Saving!SaveFails(p)
  PROVE  SavingInv'
  <1>1. CASE Saving!Open(p)
    <2>1. proc' = [proc EXCEPT ![p].pc = "opening"] /\ UNCHANGED <<current, kept, keys, owner, settled, windows>>
      BY <1>1 DEF Saving!Open, Saving!Move
    <2>2. "opening" \in Unlocked \cup Locked /\ "opening" \notin Locked
      BY DEF Unlocked, Locked
    <2> QED
      BY <2>1, <2>2, StepOnly
  <1>2. CASE Saving!AcquireLock(p)
    <2>1. CASE owner = Missing
      BY <1>2, <2>1, StepOnly DEF Saving!AcquireLock, Saving!Move, Unlocked, Locked
    <2>2. CASE owner # Missing
      BY <1>2, <2>2, StepOnly DEF Saving!AcquireLock, Saving!Move, Unlocked, Locked
    <2> QED
      BY <2>1, <2>2
  <1>3. CASE Saving!SaveFails(p)
    <2>1. /\ proc' = [proc EXCEPT ![p].pc = "open"] /\ UNCHANGED <<current, kept, keys, owner, settled, windows>>
          /\ proc[p].pc \in Locked \ {"keying", "writingkey"} /\ owner = p
      BY <1>3, ProcessKnown DEF Saving!SaveFails, Saving!Move, Locked
    <2>2. "open" \in Unlocked \cup Locked
      BY DEF Locked
    <2> QED
      BY <2>1, <2>2, StepOnly
  <1> QED
    BY <1>1, <1>2, <1>3

\* A process that lets go of the lock, or dies.
LEMMA LetsGo ==
  ASSUME SavingConstants, SavingInv, NEW p \in Process, proc' = [proc EXCEPT ![p] = Saving!Idle],
         owner' = IF owner = p THEN Missing ELSE owner, UNCHANGED <<current, kept, keys, settled, windows>>
  PROVE  SavingInv'
  <1>1. current' \in Files /\ kept' \in Files /\ keys' \in 0..MaxKey /\ owner' \in Process \cup {Missing} /\ settled' \subseteq Value \cup {Missing}
        /\ Durable(current', kept', settled')
    BY DEF SavingInv
  <1>2. Sound(Saving!Idle, current', keys') /\ Saving!Idle.pc \notin Locked
    BY IdleSound DEF Locked
  <1> QED
    BY <1>1, <1>2, ProcessMoves

\* Drop for Store, and a crash.
LEMMA ClosesKeep ==
  ASSUME SavingConstants, SavingInv, NEW p \in Process, Saving!Close(p) \/ Saving!Crash(p)
  PROVE  SavingInv'
  <1>1. CASE Saving!Close(p)
    BY <1>1, ProcessKnown, LetsGo DEF Saving!Close, Saving!Release, Locked
  <1>2. CASE Saving!Crash(p)
    BY <1>2, LetsGo DEF Saving!Crash
  <1> QED
    BY <1>1, <1>2

\* A new directory, published empty.
LEMMA CreateKeeps ==
  ASSUME SavingConstants, SavingInv, NEW p \in Process, Saving!Create(p)
  PROVE  SavingInv'
  <1>1. /\ current.dir = "absent" /\ current' = [current EXCEPT !.dir = "live"] /\ kept' = [kept EXCEPT !.dir = "live", !.key = current.key]
        /\ proc' = [proc EXCEPT ![p].pc = "opening"] /\ UNCHANGED <<keys, owner, settled, windows>>
    BY DEF Saving!Create, Saving!Move
  <1>2. PICK x : x = [proc[p] EXCEPT !.pc = "opening"]
    OBVIOUS
  <1>3. /\ current' \in Files /\ kept' \in Files /\ current'.temp = current.temp /\ current'.spool = current.spool /\ current'.record = current.record
        /\ current'.artifact = current.artifact /\ kept'.record = kept.record /\ kept'.artifact = kept.artifact
    BY <1>1 DEF SavingInv, Files
  <1>4. Durable(current', kept', settled')
    BY <1>1, <1>3 DEF SavingInv, Durable
  <1>5. Sound(x, current', keys') /\ x.pc = "opening"
    BY <1>2, ProcessKnown DEF Sound, Unlocked, Locked
  <1>6. keys' \in 0..MaxKey /\ owner' \in Process \cup {Missing} /\ settled' \subseteq Value \cup {Missing}
    BY <1>1 DEF SavingInv
  <1>7. proc' = [proc EXCEPT ![p] = x]
    BY <1>1, <1>2
  <1> QED
    BY <1>1, <1>3, <1>4, <1>5, <1>6, <1>7, ProcessMoves DEF Locked

\* A holder that writes files which are not records or artifacts yet.
LEMMA HolderWrites ==
  ASSUME SavingConstants, SavingInv, NEW p \in Process, owner = p, NEW x, proc' = [proc EXCEPT ![p] = x],
         Sound(x, current', keys'), x.pc \in Locked, UNCHANGED <<owner, settled, windows>>, keys' \in 0..MaxKey,
         current' \in Files, kept' \in Files, current'.dir = current.dir, current'.record = current.record, current'.artifact = current.artifact,
         kept'.record = kept.record, kept'.artifact = kept.artifact
  PROVE  SavingInv'
  <1>1. Durable(current', kept', settled')
    BY DEF SavingInv, Durable
  <1>2. owner' \in Process \cup {Missing} /\ settled' \subseteq Value \cup {Missing}
    BY DEF SavingInv
  <1> QED
    BY <1>1, <1>2, ProcessMoves

\* The catalog key is read, or its file is created.
LEMMA LoadOrCreateKeeps ==
  ASSUME SavingConstants, SavingInv, NEW p \in Process, Saving!LoadOrCreate(p)
  PROVE  SavingInv'
  <1>1. proc[p].pc = "keying" /\ owner = p /\ (current.key = Missing => keys < MaxKey) /\ UNCHANGED <<kept, keys, settled, windows>>
    BY ProcessKnown DEF Saving!LoadOrCreate, Locked
  <1>2. kept' \in Files /\ keys' \in 0..MaxKey /\ current \in Files
    BY <1>1 DEF SavingInv
  <1>3. CASE current.key = Torn
    <2>1. owner' = Missing /\ proc' = [proc EXCEPT ![p] = Saving!Idle] /\ current' = current
      BY <1>3 DEF Saving!LoadOrCreate, Saving!Release, SavingConstants
    <2> QED
      BY <1>1, <2>1, LetsGo
  <1>4. CASE current.key = Missing
    <2>1. current' = [current EXCEPT !.key = Torn] /\ proc' = [proc EXCEPT ![p].pc = "writingkey"] /\ owner' = owner
      BY <1>4 DEF Saving!LoadOrCreate, Saving!Move, SavingConstants
    <2>2. PICK x : x = [proc[p] EXCEPT !.pc = "writingkey"]
      OBVIOUS
    <2>3. current' \in Files /\ current'.dir = current.dir /\ current'.record = current.record /\ current'.artifact = current.artifact
      BY <1>2, <2>1 DEF Files
    <2>4. Sound(x, current', keys') /\ x.pc = "writingkey"
      BY <1>1, <1>4, <2>2, ProcessKnown DEF Sound, Locked
    <2>5. proc' = [proc EXCEPT ![p] = x]
      BY <2>1, <2>2
    <2> QED
      BY <1>1, <1>2, <2>1, <2>3, <2>4, <2>5, HolderWrites DEF Locked
  <1>5. CASE current.key \notin {Missing, Torn}
    <2>1. current' = current /\ proc' = [proc EXCEPT ![p].pc = "open", ![p].key = current.key] /\ owner' = owner
      BY <1>5 DEF Saving!LoadOrCreate
    <2>2. PICK x : x = [proc[p] EXCEPT !.pc = "open", !.key = current.key]
      OBVIOUS
    <2>3. current.key \in 1..MaxKey
      BY <1>2, <1>5 DEF Files
    <2>4. Sound(x, current', keys') /\ x.pc = "open"
      BY <2>2, <2>3, ProcessKnown DEF Sound, Locked
    <2>5. proc' = [proc EXCEPT ![p] = x]
      BY <2>1, <2>2 DEF SavingInv
    <2> QED
      BY <1>1, <1>2, <2>1, <2>4, <2>5, HolderWrites DEF Locked
  <1> QED
    BY <1>3, <1>4, <1>5

\* The key is written; keys are never reused.
LEMMA WriteKeyKeeps ==
  ASSUME SavingConstants, SavingInv, NEW p \in Process, Saving!WriteKey(p)
  PROVE  SavingInv'
  <1>1. /\ proc[p].pc = "writingkey" /\ owner = p /\ keys < MaxKey /\ keys' = keys + 1 /\ current' = [current EXCEPT !.key = keys + 1]
        /\ kept' = (IF windows THEN [kept EXCEPT !.key = keys + 1] ELSE kept)
        /\ proc' = [proc EXCEPT ![p].pc = "open", ![p].key = keys + 1] /\ UNCHANGED <<owner, settled, windows>>
    BY ProcessKnown DEF Saving!WriteKey, Locked, Sound
  <1>2. keys + 1 \in 1..MaxKey /\ keys' \in 0..MaxKey
    BY <1>1 DEF SavingInv, SavingConstants
  <1>3. PICK x : x = [proc[p] EXCEPT !.pc = "open", !.key = keys + 1]
    OBVIOUS
  <1>4. /\ current' \in Files /\ current'.dir = current.dir /\ current'.record = current.record /\ current'.artifact = current.artifact
        /\ kept' \in Files /\ kept'.record = kept.record /\ kept'.artifact = kept.artifact
    BY <1>1, <1>2 DEF SavingInv, Files
  <1>5. Sound(x, current', keys') /\ x.pc = "open"
    BY <1>2, <1>3, ProcessKnown DEF Sound, Locked
  <1>6. proc' = [proc EXCEPT ![p] = x]
    BY <1>1, <1>3 DEF SavingInv
  <1> QED
    BY <1>1, <1>2, <1>4, <1>5, <1>6, HolderWrites DEF Locked

\* A save begins with a file of its own.
LEMMA StartSaveKeeps ==
  ASSUME SavingConstants, SavingInv, NEW p \in Process, NEW v \in Value, Saving!StartSave(p, v)
  PROVE  SavingInv'
  <1>1. /\ proc[p].pc = "open" /\ owner = p /\ current' = [current EXCEPT !.temp = Torn]
        /\ proc' = [proc EXCEPT ![p].pc = "saving", ![p].want = v] /\ UNCHANGED <<kept, keys, owner, settled, windows>>
    BY ProcessKnown DEF Saving!StartSave, Locked
  <1>2. PICK x : x = [proc[p] EXCEPT !.pc = "saving", !.want = v]
    OBVIOUS
  <1>3. /\ current' \in Files /\ current'.dir = current.dir /\ current'.record = current.record /\ current'.artifact = current.artifact
        /\ kept' \in Files /\ keys' \in 0..MaxKey
    BY <1>1 DEF SavingInv, Files
  <1>4. Sound(x, current', keys') /\ x.pc = "saving"
    BY <1>1, <1>2, ProcessKnown DEF Sound, Locked
  <1>5. proc' = [proc EXCEPT ![p] = x]
    BY <1>1, <1>2 DEF SavingInv
  <1> QED
    BY <1>1, <1>3, <1>4, <1>5, HolderWrites DEF Locked

\* The temporary file has what will be renamed.
LEMMA WriteTemporaryKeeps ==
  ASSUME SavingConstants, SavingInv, NEW p \in Process, Saving!WriteTemporary(p)
  PROVE  SavingInv'
  <1>1. /\ proc[p].pc = "saving" /\ owner = p /\ current' = [current EXCEPT !.temp = [value |-> proc[p].want, key |-> proc[p].key]]
        /\ proc' = [proc EXCEPT ![p].pc = "renaming"] /\ UNCHANGED <<kept, keys, owner, settled, windows>>
    BY ProcessKnown DEF Saving!WriteTemporary, Saving!Move, Locked
  <1>2. PICK x : x = [proc[p] EXCEPT !.pc = "renaming"]
    OBVIOUS
  <1>3. PICK sealed : sealed = [value |-> proc[p].want, key |-> proc[p].key]
    OBVIOUS
  <1>4. sealed \in Saving!Sealed /\ sealed.value = proc[p].want
    BY <1>1, <1>3, ProcessKnown DEF Sound, Saving!Sealed, Locked
  <1>5. /\ current' \in Files /\ current'.dir = current.dir /\ current'.record = current.record /\ current'.artifact = current.artifact
        /\ current'.temp = sealed /\ kept' \in Files /\ keys' \in 0..MaxKey
    BY <1>1, <1>3, <1>4 DEF SavingInv, Files
  <1>6. Sound(x, current', keys') /\ x.pc = "renaming"
    BY <1>1, <1>2, <1>4, <1>5, ProcessKnown DEF Sound, Locked
  <1>7. proc' = [proc EXCEPT ![p] = x]
    BY <1>1, <1>2
  <1> QED
    BY <1>1, <1>5, <1>6, <1>7, HolderWrites DEF Locked

\* The rename makes the new record one that may be found.
LEMMA RenameKeeps ==
  ASSUME SavingConstants, SavingInv, NEW p \in Process, Saving!Rename(p)
  PROVE  SavingInv'
  <1>1. /\ proc[p].pc = "renaming" /\ owner = p /\ current' = [current EXCEPT !.record = current.temp, !.temp = Missing]
        /\ kept' = (IF windows THEN [kept EXCEPT !.record = current.temp, !.temp = Missing] ELSE kept)
        /\ settled' = settled \cup {proc[p].want} /\ proc' = [proc EXCEPT ![p].pc = "syncing"]
        /\ UNCHANGED <<keys, owner, windows>>
    BY ProcessKnown DEF Saving!Rename, Saving!Move, Locked
  <1>2. current.temp \in Saving!Sealed /\ current.temp.value = proc[p].want /\ proc[p].want \in Value /\ current.temp # Missing
    BY <1>1, ProcessKnown DEF Sound, SavingConstants
  <1>3. PICK x : x = [proc[p] EXCEPT !.pc = "syncing"]
    OBVIOUS
  <1>4. /\ current' \in Files /\ current'.dir = current.dir /\ current'.record = current.temp /\ current'.artifact = current.artifact
        /\ kept' \in Files /\ kept'.artifact = kept.artifact /\ keys' \in 0..MaxKey
        /\ kept'.record = IF windows THEN current.temp ELSE kept.record
    BY <1>1, <1>2 DEF SavingInv, Files
  <1>5. Sound(x, current', keys') /\ x.pc = "syncing"
    BY <1>1, <1>3, ProcessKnown DEF Sound, Locked
  <1>6. Durable(current', kept', settled')
    BY <1>1, <1>2, <1>4 DEF SavingInv, Durable, ValueOf
  <1>7. settled' \subseteq Value \cup {Missing} /\ owner' \in Process \cup {Missing}
    BY <1>1, <1>2 DEF SavingInv
  <1>8. proc' = [proc EXCEPT ![p] = x]
    BY <1>1, <1>3
  <1> QED
    BY <1>1, <1>4, <1>5, <1>6, <1>7, <1>8, ProcessMoves

\* A save that returned is the only record that may be found.
LEMMA SyncDirectoryKeeps ==
  ASSUME SavingConstants, SavingInv, NEW p \in Process, Saving!SyncDirectory(p)
  PROVE  SavingInv'
  <1>1. /\ proc[p].pc = "syncing" /\ owner = p /\ kept' = (IF windows THEN kept ELSE [current EXCEPT !.key = kept.key])
        /\ settled' = (IF current.dir = "live" /\ current.record # Missing THEN {current.record.value} ELSE settled)
        /\ proc' = [proc EXCEPT ![p].pc = "open"] /\ UNCHANGED <<current, keys, owner, windows>>
    BY ProcessKnown DEF Saving!SyncDirectory, Saving!Move, Locked
  <1>2. PICK x : x = [proc[p] EXCEPT !.pc = "open"]
    OBVIOUS
  <1>3. /\ current' \in Files /\ kept' \in Files /\ keys' \in 0..MaxKey
        /\ ~windows => kept'.record = current.record /\ kept'.artifact = current.artifact
    BY <1>1 DEF SavingInv, Files
  <1>4. Sound(x, current', keys') /\ x.pc = "open"
    BY <1>1, <1>2, ProcessKnown DEF Sound, Locked
  <1>5. Durable(current', kept', settled')
    <2>1. windows \in BOOLEAN
      BY DEF SavingInv, SavingConstants
    <2>2. CASE windows
      BY <1>1, <2>2 DEF SavingInv, Durable, ValueOf
    <2>3. CASE ~windows
      BY <1>1, <1>3, <2>3 DEF SavingInv, Durable, ValueOf
    <2> QED
      BY <2>1, <2>2, <2>3
  <1>6. settled' \subseteq Value \cup {Missing} /\ owner' \in Process \cup {Missing}
    <2>1. current.record # Missing => current.record.value \in Value
      BY DEF SavingInv, Files, Saving!Sealed
    <2> QED
      BY <1>1, <2>1 DEF SavingInv
  <1>7. proc' = [proc EXCEPT ![p] = x]
    BY <1>1, <1>2
  <1> QED
    BY <1>1, <1>3, <1>4, <1>5, <1>6, <1>7, ProcessMoves

\* A record that is removed is gone for good.
LEMMA RemoveRecordKeeps ==
  ASSUME SavingConstants, SavingInv, NEW p \in Process, Saving!RemoveRecord(p)
  PROVE  SavingInv'
  <1>1. /\ proc[p].pc = "open" /\ owner = p /\ current' = [current EXCEPT !.record = Missing]
        /\ kept' = [current EXCEPT !.key = kept.key, !.record = Missing] /\ settled' = {Missing}
        /\ proc' = proc /\ UNCHANGED <<keys, owner, windows>>
    BY ProcessKnown DEF Saving!RemoveRecord, Locked
  <1>2. /\ current' \in Files /\ current'.record = Missing /\ current'.artifact = current.artifact
        /\ kept' \in Files /\ kept'.record = Missing /\ kept'.artifact = current.artifact /\ keys' \in 0..MaxKey
    BY <1>1 DEF SavingInv, Files
  <1>3. Durable(current', kept', settled')
    BY <1>1, <1>2 DEF Durable, ValueOf
  <1>4. PICK x : x = proc[p]
    OBVIOUS
  <1>5. Sound(x, current', keys') /\ x.pc = "open"
    BY <1>1, <1>4, ProcessKnown DEF Sound
  <1>6. settled' \subseteq Value \cup {Missing} /\ owner' \in Process \cup {Missing}
    BY <1>1 DEF SavingInv
  <1>7. proc' = [proc EXCEPT ![p] = x]
    BY <1>1, <1>4 DEF SavingInv
  <1> QED
    BY <1>1, <1>2, <1>3, <1>5, <1>6, <1>7, ProcessMoves

\* An artifact begins with a file of its own.
LEMMA StartPersistKeeps ==
  ASSUME SavingConstants, SavingInv, NEW p \in Process, NEW v \in Value, Saving!StartPersist(p, v)
  PROVE  SavingInv'
  <1>1. /\ proc[p].pc = "open" /\ owner = p /\ current' = [current EXCEPT !.spool = Torn]
        /\ proc' = [proc EXCEPT ![p].pc = "spooling", ![p].want = v] /\ UNCHANGED <<kept, keys, owner, settled, windows>>
    BY ProcessKnown DEF Saving!StartPersist, Locked
  <1>2. PICK x : x = [proc[p] EXCEPT !.pc = "spooling", !.want = v]
    OBVIOUS
  <1>3. /\ current' \in Files /\ current'.dir = current.dir /\ current'.record = current.record /\ current'.artifact = current.artifact
        /\ kept' \in Files /\ keys' \in 0..MaxKey
    BY <1>1 DEF SavingInv, Files
  <1>4. Sound(x, current', keys') /\ x.pc = "spooling"
    BY <1>1, <1>2, ProcessKnown DEF Sound, Locked
  <1>5. proc' = [proc EXCEPT ![p] = x]
    BY <1>1, <1>2 DEF SavingInv
  <1> QED
    BY <1>1, <1>3, <1>4, <1>5, HolderWrites DEF Locked

\* The artifact is written whole before it is linked.
LEMMA WriteSpoolKeeps ==
  ASSUME SavingConstants, SavingInv, NEW p \in Process, Saving!WriteSpool(p)
  PROVE  SavingInv'
  <1>1. /\ proc[p].pc = "spooling" /\ owner = p /\ current' = [current EXCEPT !.spool = proc[p].want]
        /\ proc' = [proc EXCEPT ![p].pc = "linking"] /\ UNCHANGED <<kept, keys, owner, settled, windows>>
    BY ProcessKnown DEF Saving!WriteSpool, Saving!Move, Locked
  <1>2. PICK x : x = [proc[p] EXCEPT !.pc = "linking"]
    OBVIOUS
  <1>3. proc[p].want \in Value
    BY <1>1, ProcessKnown DEF Sound
  <1>4. /\ current' \in Files /\ current'.dir = current.dir /\ current'.record = current.record /\ current'.artifact = current.artifact
        /\ current'.spool \in Value /\ kept' \in Files /\ keys' \in 0..MaxKey
    BY <1>1, <1>3 DEF SavingInv, Files
  <1>5. Sound(x, current', keys') /\ x.pc = "linking"
    BY <1>1, <1>2, <1>3, <1>4, ProcessKnown DEF Sound, Locked
  <1>6. proc' = [proc EXCEPT ![p] = x]
    BY <1>1, <1>2
  <1> QED
    BY <1>1, <1>4, <1>5, <1>6, HolderWrites DEF Locked

\* An artifact is linked where there is none.
LEMMA LinkImmutableKeeps ==
  ASSUME SavingConstants, SavingInv, NEW p \in Process, Saving!LinkImmutable(p)
  PROVE  SavingInv'
  <1>1. /\ proc[p].pc = "linking" /\ owner = p /\ current.artifact = Missing /\ current' = [current EXCEPT !.artifact = current.spool, !.spool = Missing]
        /\ kept' = (IF windows THEN [kept EXCEPT !.artifact = current.spool, !.spool = Missing] ELSE kept)
        /\ proc' = [proc EXCEPT ![p].pc = "syncing"] /\ UNCHANGED <<keys, owner, settled, windows>>
    BY ProcessKnown DEF Saving!LinkImmutable, Saving!Move, Locked
  <1>2. PICK x : x = [proc[p] EXCEPT !.pc = "syncing"]
    OBVIOUS
  <1>3. current.spool \in Value
    BY <1>1, ProcessKnown DEF Sound
  <1>4. /\ current' \in Files /\ current'.dir = current.dir /\ current'.record = current.record /\ current'.artifact = current.spool
        /\ kept' \in Files /\ kept'.record = kept.record /\ keys' \in 0..MaxKey
        /\ kept'.artifact \in {current.spool, kept.artifact}
    BY <1>1, <1>3 DEF SavingInv, Files
  <1>5. Sound(x, current', keys') /\ x.pc = "syncing"
    BY <1>1, <1>2, ProcessKnown DEF Sound, Locked
  <1>6. Durable(current', kept', settled')
    BY <1>1, <1>4 DEF SavingInv, Durable
  <1>7. settled' \subseteq Value \cup {Missing} /\ owner' \in Process \cup {Missing}
    BY <1>1 DEF SavingInv
  <1>8. proc' = [proc EXCEPT ![p] = x]
    BY <1>1, <1>2
  <1> QED
    BY <1>1, <1>4, <1>5, <1>6, <1>7, <1>8, ProcessMoves

\* Nobody works in a directory that is discarded.
LEMMA DiscardKeeps ==
  ASSUME SavingConstants, SavingInv, NEW p \in Process, Saving!Discard(p)
  PROVE  SavingInv'
  <1>1. /\ proc[p].pc = "idle" /\ owner = Missing /\ UNCHANGED <<kept, keys, owner, proc, settled, windows>>
        /\ current' = [current EXCEPT !.dir = "gone", !.temp = Missing, !.record = Missing, !.spool = Missing, !.artifact = Missing]
    BY DEF Saving!Discard
  <1>2. current' \in Files /\ current'.dir = "gone" /\ kept' \in Files /\ keys' \in 0..MaxKey
    BY <1>1 DEF SavingInv, Files
  <1>3. PICK x : x = proc[p]
    OBVIOUS
  <1>4. Sound(x, current', keys') /\ x.pc \notin Locked
    BY <1>1, <1>3, ProcessKnown DEF Sound, Locked
  <1>5. Durable(current', kept', settled')
    BY <1>2 DEF Durable
  <1>6. settled' \subseteq Value \cup {Missing} /\ owner' \in Process \cup {Missing}
    BY <1>1 DEF SavingInv
  <1>7. proc' = [proc EXCEPT ![p] = x]
    BY <1>1, <1>3 DEF SavingInv
  <1> QED
    BY <1>1, <1>2, <1>4, <1>5, <1>6, <1>7, ProcessMoves

\* After a power loss every entry is one of the two it had.
LEMMA PowerLossKeeps ==
  ASSUME SavingConstants, SavingInv, Saving!PowerLoss
  PROVE  SavingInv'
  <1>1. /\ proc' = [p \in Process |-> Saving!Idle] /\ owner' = Missing /\ kept' = current' /\ UNCHANGED <<keys, settled, windows>>
        /\ current' \in [key : {current.key, kept.key}, dir : {current.dir}, temp : {current.temp, kept.temp},
                     record : {current.record, kept.record}, spool : {current.spool, kept.spool},
                     artifact : {current.artifact, kept.artifact}]
    BY DEF Saving!PowerLoss
  <1>2. current' \in Files /\ current'.dir = current.dir /\ current'.record \in {current.record, kept.record}
    BY <1>1 DEF SavingInv, Files
  <1>3. Durable(current', kept', settled')
    BY <1>1, <1>2 DEF SavingInv, Durable
  <1>4. Durable(current, kept, settled)'
    BY <1>1, <1>3 DEF Durable, ValueOf
  <1>5. ASSUME NEW p \in Process PROVE Sound(proc'[p], current', keys') /\ proc'[p].pc \notin Locked
    BY <1>1, IdleSound DEF Locked
  <1>6. \A p \in Process : Sound(proc[p], current, keys)'
    BY <1>5 DEF Sound
  <1> QED
    BY <1>1, <1>2, <1>4, <1>5, <1>6 DEF SavingInv

\* One step of any process, or a power loss, keeps the invariant.
LEMMA SavingStep ==
  ASSUME SavingConstants, SavingInv, [Saving!Next]_(Saving!vars)
  PROVE  SavingInv'
  <1>1. CASE UNCHANGED Saving!vars
    BY <1>1 DEF Saving!vars, SavingInv, Durable, ValueOf, Sound
  <1>2. ASSUME NEW p \in Process, NEW v \in Value, Saving!StartSave(p, v) \/ Saving!StartPersist(p, v)
        PROVE  SavingInv'
    BY <1>2, StartSaveKeeps, StartPersistKeeps
  <1>3. ASSUME NEW p \in Process,
               \/ Saving!Create(p) \/ Saving!Open(p) \/ Saving!AcquireLock(p) \/ Saving!LoadOrCreate(p)
               \/ Saving!WriteKey(p) \/ Saving!Close(p) \/ Saving!WriteTemporary(p) \/ Saving!Rename(p)
               \/ Saving!SyncDirectory(p) \/ Saving!SaveFails(p) \/ Saving!RemoveRecord(p) \/ Saving!WriteSpool(p)
               \/ Saving!LinkImmutable(p) \/ Saving!Discard(p) \/ Saving!Crash(p)
        PROVE  SavingInv'
    BY <1>3, CreateKeeps, OpensKeep, LoadOrCreateKeeps, WriteKeyKeeps, ClosesKeep, WriteTemporaryKeeps, RenameKeeps,
       SyncDirectoryKeeps, RemoveRecordKeeps, WriteSpoolKeeps, LinkImmutableKeeps, DiscardKeeps
  <1>4. CASE Saving!Next
    BY <1>2, <1>3, <1>4, PowerLossKeeps DEF Saving!Next
  <1> QED
    BY <1>1, <1>4

\* Only a link, a discard and a power loss touch the artifact.
LEMMA ArtifactKept ==
  ASSUME SavingConstants, SavingInv, [Saving!Next]_(Saving!vars)
  PROVE  Saving!ImmutableOnceStep
  <1> SUFFICES ASSUME current.dir = "live", current'.dir = "live", current.artifact # Missing
               PROVE  current'.artifact = current.artifact \/ (current'.artifact = Missing /\ kept.artifact = Missing)
    BY DEF Saving!ImmutableOnceStep
  <1>1. current \in Files
    BY DEF SavingInv
  <1>2. CASE UNCHANGED current
    BY <1>2
  <1>3. CASE Saving!PowerLoss
    <2>1. current'.artifact \in {current.artifact, kept.artifact}
      BY <1>3 DEF Saving!PowerLoss
    <2> QED
      BY <2>1 DEF SavingInv, Durable
  <1>4. ASSUME NEW p \in Process, NEW v \in Value, Saving!StartSave(p, v) \/ Saving!StartPersist(p, v)
        PROVE  current'.artifact = current.artifact
    BY <1>1, <1>4 DEF Saving!StartSave, Saving!StartPersist, Files
  <1>5. ASSUME NEW p \in Process, Saving!Create(p) \/ Saving!WriteTemporary(p) \/ Saving!Rename(p) \/ Saving!WriteSpool(p)
        PROVE  current'.artifact = current.artifact
    BY <1>1, <1>5 DEF Saving!Create, Saving!WriteTemporary, Saving!Rename, Saving!WriteSpool, Files
  <1>6. ASSUME NEW p \in Process, Saving!LoadOrCreate(p) \/ Saving!WriteKey(p) \/ Saving!RemoveRecord(p)
        PROVE  current'.artifact = current.artifact
    BY <1>1, <1>6 DEF Saving!LoadOrCreate, Saving!WriteKey, Saving!RemoveRecord, Files
  <1>7. ASSUME NEW p \in Process, Saving!LinkImmutable(p) \/ Saving!Discard(p)
        PROVE  FALSE
    BY <1>1, <1>7 DEF Saving!LinkImmutable, Saving!Discard, Files
  <1>8. ASSUME NEW p \in Process, \/ Saving!Open(p) \/ Saving!AcquireLock(p) \/ Saving!Close(p)
                                  \/ Saving!SyncDirectory(p) \/ Saving!SaveFails(p) \/ Saving!Crash(p)
        PROVE  UNCHANGED current
    BY <1>8 DEF Saving!Open, Saving!AcquireLock, Saving!Close, Saving!SyncDirectory, Saving!SaveFails, Saving!Crash
  <1>9. CASE Saving!Next
    BY <1>2, <1>3, <1>4, <1>5, <1>6, <1>7, <1>8, <1>9 DEF Saving!Next
  <1> QED
    BY <1>2, <1>9 DEF Saving!vars

\* Whatever fails and whenever the power goes, the record that save() left is that
\* of the last save that returned or of one attempted since, and an artifact that
\* persist_immutable() published never has other contents (checkpoint.rs).
THEOREM CheckpointStaysAtomic == Saving!Spec => CheckpointAtomic
  <1> SUFFICES ASSUME SavingConstants PROVE Saving!Spec => Saving!CheckpointAtomic
    BY NativeAssumption DEF CheckpointAtomic
  <1>1. Saving!Init => SavingInv
    <2> SUFFICES ASSUME Saving!Init PROVE SavingInv
      OBVIOUS
    <2>1. current \in Files /\ kept \in Files /\ current.record = Missing /\ kept = current
      BY DEF Saving!Init, Files
    <2>2. \A p \in Process : Sound(proc[p], current, keys) /\ proc[p].pc \notin Locked
      BY IdleSound DEF Saving!Init, Locked
    <2>3. Durable(current, kept, settled)
      BY <2>1 DEF Durable, ValueOf, Saving!Init
    <2>4. keys \in 0..MaxKey /\ proc = [p \in Process |-> proc[p]]
      BY DEF Saving!Init, SavingConstants
    <2> QED
      BY <2>1, <2>2, <2>3, <2>4 DEF SavingInv, Saving!Init
  <1>2. SavingInv /\ [Saving!Next]_(Saving!vars) => SavingInv'
    BY SavingStep
  <1>3. SavingInv => Saving!TypeOK /\ Saving!SaveAtomic
    <2> SUFFICES ASSUME SavingInv PROVE Saving!TypeOK /\ Saving!SaveAtomic
      OBVIOUS
    <2>1. Saving!SaveAtomic
      BY DEF SavingInv, Durable, ValueOf, Saving!SaveAtomic
    <2>2. \A p \in Process : proc[p].pc \in Unlocked \cup Locked
      BY DEF SavingInv, Sound
    <2>3. Saving!TypeOK
      BY <2>2 DEF SavingInv, Files, Unlocked, Locked, Saving!TypeOK
    <2> QED
      BY <2>1, <2>3
  <1>4. SavingInv /\ [Saving!Next]_(Saving!vars) => Saving!ImmutableOnceStep
    BY ArtifactKept
  <1> QED
    BY <1>1, <1>2, <1>3, <1>4, PTL DEF Saving!Spec, Saving!CheckpointAtomic

-----------------------------------------------------------------------------
(* The progress of a download.                                             *)

\* A process at work.
Downloads ==
  [pc : {"idle", "consume", "fetch", "written", "staged", "renamed", "synced", "finalize", "last"}, job : Downloading!Job \cup {Missing},
   fetching : SUBSET Downloading!Chunk, again : SUBSET Downloading!Chunk,
   at : Downloading!Chunk \cup {Missing}, item : Downloading!Item \cup {Missing}]

\* Files and the process have their types.
DownloadTyped ==
  /\ saved \in Downloading!Job \cup {Missing} /\ spooled \subseteq Downloading!Chunk /\ plain \subseteq Downloading!Chunk
  /\ cipher \in [Downloading!Chunk -> {"none", "part", "badpart", "whole", "bad"}] /\ final \in BOOLEAN
  /\ target \in [Downloading!Item -> {"none", "ours", "other"}] /\ download \in Downloads
  /\ dir \in [Downloading!Item -> {"synced", "loose", "torn"}]

\* The saved job says no more than what is in the output directory, but for an entry
\* that was left without a sync; while the operating system has the job nothing has
\* been published.
DiskSound ==
  /\ saved = Missing => \A i \in Downloading!Item : target[i] # "ours"
  /\ saved # Missing =>
       /\ \A i \in saved.published : target[i] = "ours" \/ dir[i] = "torn"
       /\ saved.state = "awaiting-execution" => saved.published = {}
       /\ saved.state = "complete" => saved.selected \subseteq saved.published
       /\ \A i \in Downloading!Item : target[i] = "ours" => i \in saved.selected /\ saved.state # "awaiting-execution"

\* The job in memory is the saved one but for its state and what it has verified.
RunSound ==
  /\ download.pc = "idle" <=> download = Downloading!Idle
  /\ download.pc # "idle" =>
       /\ saved \in Downloading!Job /\ download.job \in Downloading!Job
       /\ download.job.selected = saved.selected /\ download.job.published = saved.published
       /\ download.job.state # "complete"
       /\ \A c \in download.job.verified \cap Downloading!Selected(download.job) :
            c \in plain \/ c[1] \in download.job.published
  /\ download.pc \notin {"idle", "consume"} => download.job.state # "awaiting-execution" /\ saved.state # "awaiting-execution"
  /\ download.pc = "written" => download.at \in plain
  /\ download.pc \in {"staged", "renamed", "synced"} => download.item \in download.job.selected
  /\ download.pc \in {"renamed", "synced"} => target[download.item] = "ours"
  /\ download.pc = "last" => download.job.selected \subseteq download.job.published

\* Only the entry that the process at work renamed last is without its sync.
DirSound == \A i \in Downloading!Item : dir[i] = "loose" => download.pc = "renamed" /\ download.item = i

\* The inductive invariant of a download.
DownloadInv == DownloadTyped /\ DiskSound /\ RunSound /\ DirSound

\* What every step keeps.
DownloadKept == DownloadInv' /\ Downloading!NeverReplacedStep

\* Nobody at work.
LEMMA DownloadIdle ==
  /\ Downloading!Idle \in Downloads /\ Downloading!Idle.pc = "idle" /\ Downloading!Idle.fetching = {}
  /\ Downloading!Idle.job = Missing /\ Downloading!Idle.at = Missing /\ Downloading!Idle.item = Missing
  BY DEF Downloading!Idle, Downloads

\* A process that ended relies on nothing.
LEMMA DownloadEnded ==
  ASSUME Downloading!Stopped
  PROVE  RunSound' /\ download' \in Downloads
  BY DownloadIdle DEF Downloading!Stopped, RunSound

\* The parts of a job.
LEMMA JobParts ==
  ASSUME NEW x \in Downloading!Job
  PROVE  /\ x.selected \subseteq Downloading!Item /\ x.published \subseteq Downloading!Item /\ x.verified \subseteq Downloading!Chunk
         /\ x.state \in {"awaiting-execution", "running", "paused", "complete"} /\ x # Missing
         /\ \A s \in {"awaiting-execution", "running", "paused", "complete"} :
              LET y == [x EXCEPT !.state = s]
              IN y \in Downloading!Job /\ y.state = s /\ y.selected = x.selected /\ y.published = x.published /\ y.verified = x.verified
         /\ \A v \in SUBSET Downloading!Chunk :
              LET y == [x EXCEPT !.verified = v]
              IN y \in Downloading!Job /\ y.state = x.state /\ y.selected = x.selected /\ y.published = x.published /\ y.verified = v
         /\ \A p \in SUBSET Downloading!Item :
              LET y == [x EXCEPT !.published = p]
              IN y \in Downloading!Job /\ y.state = x.state /\ y.selected = x.selected /\ y.published = p /\ y.verified = x.verified
         /\ [x EXCEPT !.envelope = "manifest"] \in Downloading!Job
  BY NativeAssumption DEF Downloading!Job, DownloadConstants

\* No entry is left without a sync by a process that had none.
LEMMA DownloadSynced ==
  ASSUME DownloadInv, dir' = dir, download.pc # "renamed" \/ download' = download
  PROVE  DirSound' /\ dir' \in [Downloading!Item -> {"synced", "loose", "torn"}]
  BY DEF DownloadInv, DownloadTyped, DirSound

\* The job is saved with the selection and the publications it had.
LEMMA DownloadSaves ==
  ASSUME DownloadInv, NEW x \in Downloading!Job, saved \in Downloading!Job, saved' = x, target' = target, dir' = dir,
         x.selected = saved.selected, x.published = saved.published, x.state # "awaiting-execution",
         x.state = "complete" => x.selected \subseteq x.published
  PROVE  DiskSound' /\ Downloading!NeverReplacedStep
  BY JobParts DEF DownloadInv, DownloadTyped, DiskSound, Downloading!NeverReplacedStep

\* A step that changes neither the record nor the directory.
LEMMA DownloadStill ==
  ASSUME DownloadInv, saved' = saved, target' = target, dir' = dir
  PROVE  DiskSound' /\ Downloading!NeverReplacedStep
  BY DEF DownloadInv, DownloadTyped, DiskSound, Downloading!NeverReplacedStep

\* The steps of a process that stay within its memory.
LEMMA DownloadThinks ==
  ASSUME DownloadInv, download' \in Downloads, RunSound', plain' \subseteq Downloading!Chunk, spooled' \subseteq Downloading!Chunk,
         cipher' \in [Downloading!Chunk -> {"none", "part", "badpart", "whole", "bad"}], final' \in BOOLEAN,
         saved' = saved, target' = target, dir' = dir, download.pc # "renamed" \/ download' = download
  PROVE  DownloadKept
  BY DownloadStill, DownloadSynced DEF DownloadInv, DownloadTyped, DownloadKept

\* What is known of a process at work.
LEMMA DownloadAtWork ==
  ASSUME DownloadInv, download.pc # "idle"
  PROVE  /\ saved \in Downloading!Job /\ download.job \in Downloading!Job /\ saved # Missing
         /\ download.job.selected = saved.selected /\ download.job.published = saved.published
         /\ download.job.state # "complete" /\ download.job.verified \subseteq Downloading!Chunk
         /\ download.job.selected \subseteq Downloading!Item /\ download.job.published \subseteq Downloading!Item
         /\ \A c \in download.job.verified \cap Downloading!Selected(download.job) :
              c \in plain \/ c[1] \in download.job.published
  BY JobParts DEF DownloadInv, RunSound

\* A download starts or is prepared.
LEMMA DownloadStarts ==
  ASSUME DownloadInv, NEW background, NEW turbo \in BOOLEAN, Downloading!Start(background, turbo)
  PROVE  DownloadKept
  <1> DEFINE x == [state |-> IF background THEN "awaiting-execution" ELSE "running", turbo |-> turbo,
                   selected |-> Downloading!Item, frozen |-> FALSE, verified |-> {}, published |-> {},
                   envelope |-> IF turbo THEN "descriptor" ELSE "manifest"]
             y == [Downloading!Idle EXCEPT !.pc = "fetch", !.job = x]
  <1>1. saved' = x /\ download' = (IF background THEN Downloading!Idle ELSE y)
        /\ UNCHANGED <<cipher, spooled, plain, target, dir, final>> /\ saved = Missing /\ download = Downloading!Idle
    BY DEF Downloading!Start, Downloading!Save
  <1>2. \A i \in Downloading!Item : target[i] = "none"
    BY DEF Downloading!Start
  <1>3. x \in Downloading!Job /\ x.selected = Downloading!Item /\ x.published = {} /\ x.verified = {}
        /\ x.state \in {"awaiting-execution", "running"} /\ (~background => x.state = "running")
    BY DEF Downloading!Job
  <1> HIDE DEF x
  <1>4. y \in Downloads /\ y.pc = "fetch" /\ y.job = x
    BY <1>3, DownloadIdle DEF Downloads, Downloading!Idle
  <1> HIDE DEF y
  <1>5. DownloadTyped'
    BY <1>1, <1>3, <1>4, DownloadIdle DEF DownloadInv, DownloadTyped
  <1>6. DiskSound'
    BY <1>1, <1>2, <1>3, JobParts DEF DiskSound
  <1>7. RunSound'
    <2>1. CASE background
      BY <1>1, <2>1, DownloadIdle DEF RunSound
    <2>2. CASE ~background
      BY <1>1, <1>3, <1>4, <2>2, DownloadIdle DEF RunSound
    <2> QED
      BY <2>1, <2>2
  <1>8. Downloading!NeverReplacedStep
    BY <1>1 DEF Downloading!NeverReplacedStep
  <1>9. DirSound'
    BY <1>1, DownloadIdle, DownloadSynced
  <1> QED
    BY <1>5, <1>6, <1>7, <1>8, <1>9 DEF DownloadInv, DownloadKept

\* A job that the operating system has is only chosen from, and listed.
LEMMA DownloadAwaits ==
  ASSUME DownloadInv, NEW s \in SUBSET Downloading!Item, Downloading!SelectItems(s) \/ Downloading!BackgroundWork
  PROVE  DownloadKept
  <1>1. download = Downloading!Idle /\ saved \in Downloading!Job /\ saved.state = "awaiting-execution" /\ ~saved.frozen
        /\ UNCHANGED <<cipher, spooled, plain, target, dir, download, final>>
    BY DEF Downloading!SelectItems, Downloading!BackgroundWork, Downloading!Awaiting, DownloadInv, DownloadTyped
  <1>2. \A i \in Downloading!Item : target[i] # "ours"
    BY <1>1, JobParts DEF DownloadInv, DiskSound
  <1>3. saved.published = {}
    BY <1>1, <1>2, JobParts DEF DownloadInv, DiskSound
  <1>4. saved' \in Downloading!Job /\ saved'.published = saved.published /\ saved'.state = saved.state
    BY <1>1 DEF Downloading!SelectItems, Downloading!BackgroundWork, Downloading!Save, Downloading!Job
  <1>5. DownloadTyped'
    BY <1>1, <1>4 DEF DownloadInv, DownloadTyped
  <1>6. DiskSound'
    BY <1>1, <1>2, <1>3, <1>4, JobParts DEF DiskSound
  <1>7. RunSound'
    BY <1>1, DownloadIdle DEF RunSound
  <1>8. Downloading!NeverReplacedStep
    BY <1>1 DEF Downloading!NeverReplacedStep
  <1>9. DirSound'
    BY <1>1, DownloadSynced
  <1> QED
    BY <1>5, <1>6, <1>7, <1>8, <1>9 DEF DownloadInv, DownloadKept

\* The operating system delivers a chunk.
LEMMA DownloadIngests ==
  ASSUME DownloadInv, NEW c \in Downloading!Chunk, Downloading!Ingest(c)
  PROVE  DownloadKept
  <1>1. DownloadTyped /\ RunSound
    BY DEF DownloadInv
  <1>2. UNCHANGED <<saved, cipher, plain, target, dir, download, final>> /\ spooled' = spooled \cup {c}
    BY DEF Downloading!Ingest
  <1>3. RunSound'
    BY <1>1, <1>2 DEF RunSound, Downloading!Selected, Downloading!Idle
  <1> QED
    BY <1>1, <1>2, <1>3, DownloadThinks DEF DownloadTyped

\* A process ends, and leaves what it had not synced as it may be.
LEMMA DownloadEndsIn ==
  ASSUME DownloadInv, Downloading!Stopped, UNCHANGED <<saved, spooled, final>>, plain' \subseteq plain,
         cipher' \in [Downloading!Chunk -> {"none", "part", "badpart", "whole", "bad"}],
         target' \in [Downloading!Item -> {"none", "ours", "other"}], dir' \in [Downloading!Item -> {"synced", "torn"}],
         \A i \in Downloading!Item :
           /\ target'[i] = "ours" => target[i] = "ours"
           /\ target[i] = "other" => target'[i] = "other"
           /\ target[i] = "ours" => target'[i] = "ours" \/ dir'[i] = "torn"
           /\ dir[i] = "torn" => target'[i] = "ours" \/ dir'[i] = "torn"
  PROVE  DownloadKept
  <1>1. DownloadTyped' /\ RunSound'
    BY DownloadEnded DEF DownloadInv, DownloadTyped
  <1>2. saved = Missing \/ saved.published \subseteq Downloading!Item
    BY JobParts DEF DownloadInv, DownloadTyped
  <1>3. DiskSound'
    BY <1>2 DEF DownloadInv, DiskSound
  <1>4. DirSound'
    BY DEF DirSound
  <1>5. Downloading!NeverReplacedStep
    BY DEF Downloading!NeverReplacedStep
  <1> QED
    BY <1>1, <1>3, <1>4, <1>5 DEF DownloadInv, DownloadKept

\* The process is gone: the entry it renamed without a sync may be lost.
LEMMA DownloadBroken ==
  ASSUME DownloadInv, Downloading!Stopped, UNCHANGED <<saved, cipher, spooled, plain, target, final>>,
         dir' = [i \in Downloading!Item |-> Downloading!Interrupted(i)]
  PROVE  DownloadKept
  <1>1. DownloadTyped /\ DirSound
    BY DEF DownloadInv
  <1>2. dir' \in [Downloading!Item -> {"synced", "torn"}] /\ \A i \in Downloading!Item : dir[i] = "torn" => dir'[i] = "torn"
    BY <1>1 DEF DownloadTyped, DirSound, Downloading!Interrupted
  <1> QED
    BY <1>1, <1>2, DownloadEndsIn DEF DownloadTyped

\* The process is gone, the power fails, or the sender finishes.
LEMMA DownloadSurroundings ==
  ASSUME DownloadInv, Downloading!Dies \/ Downloading!PowerLoss \/ Downloading!SenderFinishes
  PROVE  DownloadKept
  <1>1. DownloadTyped /\ RunSound /\ DirSound
    BY DEF DownloadInv
  <1>2. CASE Downloading!Dies
    <2>1. Downloading!Stopped /\ UNCHANGED <<saved, cipher, spooled, plain, target, final>>
          /\ dir' = [i \in Downloading!Item |-> Downloading!Interrupted(i)]
      BY <1>2 DEF Downloading!Dies
    <2> QED
      BY <1>1, <2>1, DownloadBroken
  <1>3. CASE Downloading!PowerLoss
    <2>1. Downloading!Stopped /\ UNCHANGED <<saved, spooled, final>> /\ plain' \subseteq plain
      BY <1>3 DEF Downloading!PowerLoss
    <2>2. cipher' \in [Downloading!Chunk -> {"none", "part", "badpart", "whole", "bad"}]
      BY <1>1, <1>3 DEF Downloading!PowerLoss, DownloadTyped
    <2>3. PICK gone \in SUBSET {i \in Downloading!Item : target[i] = "ours" /\ dir[i] # "synced"} :
            /\ target' = [i \in Downloading!Item |-> IF i \in gone THEN "none" ELSE target[i]]
            /\ dir' = [i \in Downloading!Item |-> IF target'[i] = "ours" THEN "synced" ELSE Downloading!Interrupted(i)]
      BY <1>3 DEF Downloading!PowerLoss
    <2>4. target' \in [Downloading!Item -> {"none", "ours", "other"}]
          /\ dir' \in [Downloading!Item -> {"synced", "torn"}]
          /\ \A i \in Downloading!Item :
               /\ target'[i] = "ours" => target[i] = "ours"
               /\ target[i] = "other" => target'[i] = "other"
               /\ target[i] = "ours" => target'[i] = "ours" \/ dir'[i] = "torn"
               /\ dir[i] = "torn" => target'[i] = "ours" \/ dir'[i] = "torn"
      BY <1>1, <2>3 DEF DownloadTyped, DirSound, Downloading!Interrupted
    <2> QED
      BY <1>1, <2>1, <2>2, <2>4, DownloadEndsIn DEF DownloadTyped
  <1>4. CASE Downloading!SenderFinishes
    <2>1. UNCHANGED <<saved, cipher, spooled, plain, target, dir, download>> /\ final' = TRUE
      BY <1>4 DEF Downloading!SenderFinishes
    <2>2. RunSound'
      BY <1>1, <2>1 DEF RunSound, Downloading!Selected, Downloading!Idle
    <2> QED
      BY <1>1, <2>1, <2>2, DownloadThinks DEF DownloadTyped
  <1> QED
    BY <1>2, <1>3, <1>4

\* Somebody else writes to the directory.
LEMMA DownloadOther ==
  ASSUME DownloadInv, NEW i \in Downloading!Item, Downloading!OtherCreates(i)
  PROVE  DownloadKept
  <1>1. DownloadTyped /\ RunSound /\ DiskSound
    BY DEF DownloadInv
  <1>2. target[i] = "none" /\ target' = [target EXCEPT ![i] = "other"] /\ UNCHANGED <<saved, cipher, spooled, plain, dir, download, final>>
    BY DEF Downloading!OtherCreates
  <1>3. target' \in [Downloading!Item -> {"none", "ours", "other"}] /\ \A j \in Downloading!Item : target'[j] = "ours" <=> target[j] = "ours"
    BY <1>1, <1>2 DEF DownloadTyped
  <1>4. \A j \in Downloading!Item : target[j] = "other" => target'[j] = "other"
    BY <1>1, <1>2 DEF DownloadTyped
  <1>5. DownloadTyped'
    BY <1>1, <1>2, <1>3 DEF DownloadTyped
  <1>6. DiskSound'
    BY <1>1, <1>2, <1>3, JobParts DEF DownloadTyped, DiskSound
  <1>7. RunSound'
    <2>1. download.pc \in {"renamed", "synced"} => download.item \in Downloading!Item
      BY <1>1, JobParts DEF RunSound
    <2> QED
      BY <1>1, <1>2, <1>3, <2>1 DEF RunSound, Downloading!Selected, Downloading!Idle
  <1>8. Downloading!NeverReplacedStep
    BY <1>2, <1>4 DEF Downloading!NeverReplacedStep
  <1>9. DirSound'
    BY <1>2, DownloadSynced
  <1> QED
    BY <1>5, <1>6, <1>7, <1>8, <1>9 DEF DownloadInv, DownloadKept

\* async_resume: what is retained and authenticates is written again.
LEMMA DownloadResumes ==
  ASSUME DownloadInv, Downloading!Resume
  PROVE  DownloadKept
  <1> DEFINE x == [saved EXCEPT !.verified = Downloading!Restored(saved)]
             y == [Downloading!Idle EXCEPT !.pc = "consume", !.job = x]
  <1>1. DownloadTyped /\ saved \in Downloading!Job /\ saved.state # "complete" /\ download = Downloading!Idle /\ UNCHANGED <<saved, cipher, spooled, target, dir, final>>
    BY DEF DownloadInv, DownloadTyped, Downloading!Resume
  <1>2. Downloading!Restored(saved) \subseteq saved.verified /\ Downloading!Restored(saved) \in SUBSET Downloading!Chunk
    BY <1>1, JobParts DEF Downloading!Restored
  <1>3. x \in Downloading!Job /\ x.state = saved.state /\ x.selected = saved.selected /\ x.published = saved.published
        /\ x.verified = Downloading!Restored(saved)
    BY <1>1, <1>2 DEF Downloading!Job
  <1>4. download' = y
    BY DEF Downloading!Resume
  <1>5. plain' = plain \cup {c \in Downloading!Selected(saved) \cap saved.verified : cipher[c] = "whole"}
    BY DEF Downloading!Resume
  <1> HIDE DEF x
  <1>6. y \in Downloads /\ y.pc = "consume" /\ y.job = x
    BY <1>3, DownloadIdle DEF Downloads, Downloading!Idle
  <1> HIDE DEF y
  <1>7. \A c \in x.verified \cap Downloading!Selected(x) : c \in plain' \/ c[1] \in x.published
    BY <1>2, <1>3, <1>5 DEF Downloading!Restored, Downloading!Selected
  <1>8. RunSound'
    BY <1>1, <1>3, <1>4, <1>6, <1>7, DownloadIdle DEF RunSound, Downloading!Selected
  <1>9. plain' \subseteq Downloading!Chunk
    BY <1>1, <1>5, JobParts DEF DownloadTyped, Downloading!Selected
  <1> QED
    BY <1>1, <1>4, <1>6, <1>8, <1>9, DownloadThinks, DownloadIdle DEF DownloadTyped

\* A spooled chunk is written, and counts in memory.
LEMMA DownloadConsumes ==
  ASSUME DownloadInv, NEW c \in Downloading!Chunk, Downloading!ConsumeBackground(c)
  PROVE  DownloadKept
  <1>1. DownloadTyped /\ RunSound /\ download.pc = "consume" /\ UNCHANGED <<saved, cipher, target, dir, final>>
        /\ plain' = plain \cup {c} /\ spooled' = spooled \ {c} /\ download \in Downloads
    BY DEF DownloadInv, DownloadTyped, Downloading!ConsumeBackground
  <1> DEFINE x == [download.job EXCEPT !.verified = download.job.verified \cup {c}]
             y == [download EXCEPT !.job = x]
  <1>2. download.job \in Downloading!Job /\ download.job.verified \cup {c} \in SUBSET Downloading!Chunk
    BY <1>1, DownloadAtWork
  <1>3. x \in Downloading!Job /\ x.state = download.job.state /\ x.selected = download.job.selected
        /\ x.published = download.job.published /\ x.verified = download.job.verified \cup {c}
    BY <1>2 DEF Downloading!Job
  <1>4. download' = y
    BY DEF Downloading!ConsumeBackground
  <1> HIDE DEF x
  <1>5. y \in Downloads /\ y.pc = "consume" /\ y.job = x
    BY <1>1, <1>3 DEF Downloads
  <1> HIDE DEF y
  <1>6. \A b \in x.verified \cap Downloading!Selected(x) : b \in plain' \/ b[1] \in x.published
    BY <1>1, <1>3, DownloadAtWork DEF Downloading!Selected
  <1>7. RunSound'
    BY <1>1, <1>3, <1>4, <1>5, <1>6, DownloadIdle DEF RunSound, Downloading!Selected
  <1> QED
    BY <1>1, <1>4, <1>5, <1>7, DownloadThinks DEF DownloadTyped

\* The job in memory is saved, and the process goes on with it.
LEMMA DownloadRecords ==
  ASSUME DownloadInv, NEW x \in Downloading!Job, saved' = x, download' \in Downloads, download'.pc \in {"fetch", "finalize"}, download'.job = x,
         x.selected = saved.selected, x.published = saved.published, x.state \in {"running", "paused"},
         \A c \in x.verified \cap Downloading!Selected(x) : c \in plain \/ c[1] \in x.published,
         UNCHANGED <<spooled, plain, cipher, target, dir, final>>, saved \in Downloading!Job, download.pc # "renamed"
  PROVE  DownloadKept
  <1>1. DownloadTyped'
    BY DEF DownloadInv, DownloadTyped
  <1>2. RunSound'
    BY DownloadIdle DEF RunSound, Downloading!Selected
  <1> QED
    BY <1>1, <1>2, DownloadSaves, DownloadSynced DEF DownloadInv, DownloadKept

\* The state of a job at work is that of a job that is not over.
LEMMA DownloadState ==
  ASSUME DownloadInv, download.pc \notin {"idle", "consume"}
  PROVE  download.job.state \in {"running", "paused"} /\ saved.state # "awaiting-execution"
  BY DownloadAtWork, JobParts DEF DownloadInv, RunSound

\* What was consumed is saved, and a verified chunk is.
LEMMA DownloadVerifies ==
  ASSUME DownloadInv, Downloading!SaveResumed \/ Downloading!RecordVerified
  PROVE  DownloadKept
  <1>1. download.pc \in {"consume", "written"} /\ download \in Downloads /\ RunSound /\ UNCHANGED <<cipher, spooled, plain, target, dir, final>>
    BY DEF DownloadInv, DownloadTyped, Downloading!SaveResumed, Downloading!RecordVerified
  <1>2. download.job \in Downloading!Job
    BY <1>1, DownloadAtWork
  <1>3. CASE Downloading!SaveResumed
    <2> DEFINE s == IF download.job.state = "awaiting-execution" THEN "running" ELSE download.job.state
               x == [download.job EXCEPT !.state = s]
               y == [download EXCEPT !.pc = "fetch", !.job = x]
    <2>1. s \in {"running", "paused"}
      BY <1>1, <1>2, DownloadAtWork, JobParts
    <2>2. saved' = x /\ download' = y
      BY <1>3 DEF Downloading!SaveResumed, Downloading!Save
    <2> HIDE DEF s
    <2>3. x \in Downloading!Job /\ x.state = s /\ x.selected = download.job.selected
          /\ x.published = download.job.published /\ x.verified = download.job.verified
      BY <1>2, <2>1 DEF Downloading!Job
    <2> HIDE DEF x
    <2>4. y \in Downloads /\ y.pc = "fetch" /\ y.job = x
      BY <1>1, <2>3 DEF Downloads
    <2> HIDE DEF y
    <2>5. \A c \in x.verified \cap Downloading!Selected(x) : c \in plain \/ c[1] \in x.published
      BY <1>1, <2>3, DownloadAtWork DEF Downloading!Selected
    <2> QED
      BY <1>1, <2>1, <2>2, <2>3, <2>4, <2>5, DownloadAtWork, DownloadRecords
  <1>4. CASE Downloading!RecordVerified
    <2> DEFINE x == [download.job EXCEPT !.verified = download.job.verified \cup {download.at}]
               y == [download EXCEPT !.pc = "fetch", !.job = x, !.at = Missing]
    <2>1. download.at \in plain /\ download.at \in Downloading!Chunk /\ download.pc = "written"
      BY <1>1, <1>4 DEF RunSound, Downloading!RecordVerified, DownloadInv, DownloadTyped
    <2>2. saved' = x /\ download' = y
      BY <1>4 DEF Downloading!RecordVerified, Downloading!Save
    <2>3. x \in Downloading!Job /\ x.state = download.job.state /\ x.selected = download.job.selected
          /\ x.published = download.job.published /\ x.verified = download.job.verified \cup {download.at}
      BY <1>2, <2>1 DEF Downloading!Job
    <2> HIDE DEF x
    <2>4. y \in Downloads /\ y.pc = "fetch" /\ y.job = x
      BY <1>1, <2>3 DEF Downloads
    <2> HIDE DEF y
    <2>5. \A c \in x.verified \cap Downloading!Selected(x) : c \in plain \/ c[1] \in x.published
      BY <1>1, <2>1, <2>3, DownloadAtWork DEF Downloading!Selected
    <2>6. x.state \in {"running", "paused"}
      BY <2>1, <2>3, DownloadState
    <2> QED
      BY <1>1, <2>2, <2>3, <2>4, <2>5, <2>6, DownloadAtWork, DownloadRecords
  <1> QED
    BY <1>3, <1>4

\* The job is saved as paused or complete, and the process ends.
LEMMA DownloadStopsSaved ==
  ASSUME DownloadInv, Downloading!FetchFails \/ Downloading!Complete
  PROVE  DownloadKept
  <1>1. download.pc \in {"fetch", "last"} /\ RunSound /\ UNCHANGED <<cipher, spooled, plain, target, dir, final>> /\ Downloading!Stopped
    BY DEF DownloadInv, Downloading!FetchFails, Downloading!Complete, Downloading!Paused
  <1>2. download.job \in Downloading!Job
    BY <1>1, DownloadAtWork
  <1>3. PICK s \in {"paused", "complete"} : saved' = [download.job EXCEPT !.state = s] /\ (s = "complete" => download.pc = "last")
    BY DEF Downloading!FetchFails, Downloading!Complete, Downloading!Paused, Downloading!Save
  <1> DEFINE x == [download.job EXCEPT !.state = s]
  <1>4. x \in Downloading!Job /\ x.state = s /\ x.selected = download.job.selected /\ x.published = download.job.published
    BY <1>2 DEF Downloading!Job
  <1>5. saved' = x
    BY <1>3
  <1> HIDE DEF x
  <1>6. s = "complete" => x.selected \subseteq x.published
    BY <1>1, <1>3, <1>4 DEF RunSound
  <1>7. DiskSound' /\ Downloading!NeverReplacedStep
    BY <1>1, <1>4, <1>5, <1>6, DownloadAtWork, DownloadSaves
  <1>8. DownloadTyped'
    BY <1>1, <1>4, <1>5, DownloadEnded DEF DownloadInv, DownloadTyped
  <1> QED
    BY <1>1, <1>7, <1>8, DownloadEnded, DownloadSynced DEF DownloadInv, DownloadKept

\* A step that changes the place of the process, but not its job.
LEMMA DownloadMoves ==
  ASSUME DownloadInv, download.pc # "idle", download' \in Downloads, download'.job = download.job, plain \subseteq plain', plain' \subseteq Downloading!Chunk,
         cipher' \in [Downloading!Chunk -> {"none", "part", "badpart", "whole", "bad"}], UNCHANGED <<saved, spooled, target, dir, final>>,
         download'.pc # "idle", download'.pc # "consume" => download.pc # "consume",
         download'.pc = "written" => download'.at \in plain',
         download.pc # "renamed",
         download'.pc \in {"staged", "renamed", "synced"} => download'.item \in download.job.selected,
         download'.pc \in {"renamed", "synced"} => target[download'.item] = "ours",
         download'.pc = "last" => download.job.selected \subseteq download.job.published
  PROVE  DownloadKept
  <1>1. DownloadTyped /\ RunSound
    BY DEF DownloadInv
  <1>2. RunSound'
    BY <1>1, DownloadIdle DEF RunSound, Downloading!Selected
  <1> QED
    BY <1>1, <1>2, DownloadThinks DEF DownloadTyped

\* A chunk is requested, arrives, and is authenticated.
LEMMA DownloadFetches ==
  ASSUME DownloadInv, NEW c \in Downloading!Chunk,
         Downloading!StartFetch(c) \/ Downloading!ReceiveBody(c) \/ Downloading!Authenticate(c) \/ Downloading!AuthenticationFails(c)
  PROVE  DownloadKept
  <1>1. DownloadTyped /\ RunSound /\ download \in Downloads
    BY DEF DownloadInv, DownloadTyped
  <1>2. CASE Downloading!StartFetch(c)
    <2>1. download' = [download EXCEPT !.fetching = download.fetching \cup {c}] /\ download.pc = "fetch"
          /\ UNCHANGED <<saved, cipher, spooled, plain, target, dir, final>>
      BY <1>2 DEF Downloading!StartFetch
    <2>2. download' \in Downloads /\ download'.job = download.job /\ download'.pc = "fetch"
      BY <1>1, <2>1 DEF Downloads
    <2> QED
      BY <1>1, <2>1, <2>2, DownloadMoves DEF DownloadTyped
  <1>3. CASE Downloading!ReceiveBody(c)
    <2>1. download.pc # "idle" /\ UNCHANGED <<saved, spooled, plain, target, dir, download, final>>
      BY <1>3 DEF Downloading!ReceiveBody
    <2>2. cipher' \in [Downloading!Chunk -> {"none", "part", "badpart", "whole", "bad"}]
      BY <1>1, <1>3 DEF Downloading!ReceiveBody, DownloadTyped
    <2>3. RunSound'
      BY <1>1, <2>1 DEF RunSound, Downloading!Selected, Downloading!Idle
    <2> QED
      BY <1>1, <2>1, <2>2, <2>3, DownloadThinks DEF DownloadTyped
  <1>4. CASE Downloading!Authenticate(c)
    <2>1. download' = [download EXCEPT !.pc = "written", !.at = c, !.fetching = download.fetching \ {c}, !.again = download.again \ {c}]
          /\ download.pc = "fetch" /\ UNCHANGED <<saved, cipher, spooled, target, dir, final>> /\ plain' = plain \cup {c}
      BY <1>4 DEF Downloading!Authenticate
    <2>2. download' \in Downloads /\ download'.job = download.job /\ download'.pc = "written" /\ download'.at = c
      BY <1>1, <2>1 DEF Downloads
    <2> QED
      BY <1>1, <2>1, <2>2, DownloadMoves DEF DownloadTyped
  <1>5. CASE Downloading!AuthenticationFails(c)
    <2>1. download.pc = "fetch" /\ UNCHANGED <<saved, spooled, plain, target, dir, final>>
          /\ (Downloading!Stopped \/ download' = [download EXCEPT !.again = download.again \cup {c}])
      BY <1>5 DEF Downloading!AuthenticationFails
    <2>2. cipher' \in [Downloading!Chunk -> {"none", "part", "badpart", "whole", "bad"}]
      BY <1>1, <1>5 DEF Downloading!AuthenticationFails, DownloadTyped
    <2>3. CASE Downloading!Stopped
      BY <1>1, <2>1, <2>2, <2>3, DownloadEnded, DownloadThinks DEF DownloadTyped
    <2>4. CASE download' = [download EXCEPT !.again = download.again \cup {c}]
      <3>1. download' \in Downloads /\ download'.job = download.job /\ download'.pc = "fetch"
        BY <1>1, <2>1, <2>4 DEF Downloads
      <3> QED
        BY <1>1, <2>1, <2>2, <3>1, DownloadMoves DEF DownloadTyped
    <2> QED
      BY <2>1, <2>3, <2>4
  <1> QED
    BY <1>2, <1>3, <1>4, <1>5

\* The digest is checked before anything is in the output directory.
LEMMA DownloadStages ==
  ASSUME DownloadInv, NEW i \in Downloading!Item, Downloading!StagePublication(i)
  PROVE  DownloadKept
  <1>1. DownloadTyped /\ RunSound /\ download \in Downloads
    BY DEF DownloadInv, DownloadTyped
  <1>2. download.pc \in {"fetch", "finalize"} /\ i \in download.job.selected /\ UNCHANGED <<saved, cipher, spooled, plain, target, dir, final>>
    BY DEF Downloading!StagePublication, Downloading!Unpublished
  <1>3. CASE Downloading!Stopped
    BY <1>1, <1>2, <1>3, DownloadEnded, DownloadThinks DEF DownloadTyped
  <1>4. CASE download' = [download EXCEPT !.pc = IF target[i] = "ours" THEN "synced" ELSE "staged", !.item = i]
    <2>1. download' \in Downloads /\ download'.job = download.job /\ download'.item = i
          /\ download'.pc = (IF target[i] = "ours" THEN "synced" ELSE "staged")
      BY <1>1, <1>4 DEF Downloads
    <2> QED
      BY <1>1, <1>2, <2>1, DownloadMoves DEF DownloadTyped
  <1> QED
    BY <1>3, <1>4 DEF Downloading!StagePublication

\* The rename keeps a name that is taken.
LEMMA DownloadRenames ==
  ASSUME DownloadInv, Downloading!RenameNoclobber
  PROVE  DownloadKept
  <1>1. DownloadTyped /\ RunSound /\ DiskSound /\ download \in Downloads /\ download.pc = "staged"
        /\ UNCHANGED <<saved, cipher, spooled, plain, final>>
    BY DEF DownloadInv, DownloadTyped, Downloading!RenameNoclobber
  <1>2. PICK i \in Downloading!Item : i = download.item /\ i \in download.job.selected
    BY <1>1, DownloadAtWork DEF RunSound
  <1>3. CASE Downloading!Stopped /\ target' = target /\ dir' = dir
    BY <1>1, <1>3, DownloadEnded, DownloadThinks DEF DownloadTyped
  <1>4. CASE /\ target[i] # "other" /\ target' = [target EXCEPT ![i] = "ours"] /\ dir' = [dir EXCEPT ![i] = "loose"]
             /\ download' = [download EXCEPT !.pc = "renamed"]
    <2>1. target' \in [Downloading!Item -> {"none", "ours", "other"}] /\ target'[i] = "ours"
          /\ (\A j \in Downloading!Item : (target[j] = "ours" => target'[j] = "ours") /\ (target[j] = "other" => target'[j] = "other"))
          /\ dir' \in [Downloading!Item -> {"synced", "loose", "torn"}]
          /\ \A j \in Downloading!Item \ {i} : target'[j] = target[j] /\ dir'[j] = dir[j]
      BY <1>1, <1>4 DEF DownloadTyped
    <2>2. download' \in Downloads /\ download'.job = download.job /\ download'.pc = "renamed" /\ download'.item = i
      BY <1>1, <1>2, <1>4 DEF Downloads
    <2>3. DownloadTyped'
      BY <1>1, <2>1, <2>2 DEF DownloadTyped
    <2>4. saved \in Downloading!Job /\ i \in saved.selected /\ saved.state # "awaiting-execution" /\ saved # Missing
          /\ saved.published \subseteq Downloading!Item
      BY <1>1, <1>2, DownloadAtWork, DownloadState
    <2>5. DiskSound'
      BY <1>1, <2>1, <2>4 DEF DiskSound
    <2>6. RunSound'
      BY <1>1, <1>2, <2>1, <2>2, DownloadIdle DEF RunSound, Downloading!Selected
    <2>7. Downloading!NeverReplacedStep
      BY <1>1, <2>1 DEF Downloading!NeverReplacedStep
    <2>8. DirSound'
      BY <1>1, <2>1, <2>2 DEF DownloadInv, DirSound
    <2> QED
      BY <2>3, <2>5, <2>6, <2>7, <2>8 DEF DownloadInv, DownloadKept
  <1> QED
    BY <1>2, <1>3, <1>4 DEF Downloading!RenameNoclobber

\* The directory is synced.
LEMMA DownloadSyncs ==
  ASSUME DownloadInv, Downloading!SyncParent
  PROVE  DownloadKept
  <1>1. DownloadTyped /\ RunSound /\ DiskSound /\ DirSound /\ download \in Downloads /\ download.pc = "renamed"
        /\ UNCHANGED <<saved, cipher, spooled, plain, target, final>>
        /\ dir' = [i \in Downloading!Item |-> IF target[i] = "ours" THEN "synced" ELSE dir[i]]
    BY DEF DownloadInv, DownloadTyped, Downloading!SyncParent
  <1>2. download' = [download EXCEPT !.pc = "synced"]
    BY DEF Downloading!SyncParent
  <1>3. download' \in Downloads /\ download'.job = download.job /\ download'.pc = "synced" /\ download'.item = download.item
    BY <1>1, <1>2 DEF Downloads
  <1>4. dir' \in [Downloading!Item -> {"synced", "torn"}]
        /\ \A i \in Downloading!Item : dir[i] = "torn" => target[i] = "ours" \/ dir'[i] = "torn"
    <2>1. download.item \in Downloading!Item /\ target[download.item] = "ours"
      BY <1>1, DownloadAtWork DEF RunSound
    <2> QED
      BY <1>1, <2>1 DEF DownloadTyped, DirSound
  <1>5. DownloadTyped' /\ DirSound'
    BY <1>1, <1>3, <1>4 DEF DownloadTyped, DirSound
  <1>6. saved \in Downloading!Job /\ saved.published \subseteq Downloading!Item
    BY <1>1, DownloadAtWork
  <1>7. DiskSound'
    BY <1>1, <1>4, <1>6 DEF DiskSound
  <1>8. RunSound'
    BY <1>1, <1>3, DownloadIdle DEF RunSound, Downloading!Selected
  <1>9. Downloading!NeverReplacedStep
    BY <1>1 DEF Downloading!NeverReplacedStep
  <1> QED
    BY <1>5, <1>7, <1>8, <1>9 DEF DownloadInv, DownloadKept

\* The publication is recorded once the file is there.
LEMMA DownloadPublishes ==
  ASSUME DownloadInv, Downloading!RecordPublished
  PROVE  DownloadKept
  <1>1. DownloadTyped /\ RunSound /\ DiskSound /\ download \in Downloads /\ download.pc = "synced"
        /\ UNCHANGED <<spooled, plain, target, dir, final>>
    BY DEF DownloadInv, DownloadTyped, Downloading!RecordPublished
  <1>2. PICK i \in Downloading!Item : i = download.item /\ i \in download.job.selected /\ target[i] = "ours"
    BY <1>1, DownloadAtWork DEF RunSound
  <1> DEFINE x == [download.job EXCEPT !.published = download.job.published \cup {i}]
  <1>3. PICK pc \in {"fetch", "finalize"} : saved' = x /\ download' = [download EXCEPT !.pc = pc, !.job = x, !.item = Missing]
    BY <1>2 DEF Downloading!RecordPublished, Downloading!Save
  <1> DEFINE y == [download EXCEPT !.pc = pc, !.job = x, !.item = Missing]
  <1>4. download.job \in Downloading!Job /\ download.job.published \cup {i} \subseteq Downloading!Item
    BY <1>1, DownloadAtWork
  <1>5. x \in Downloading!Job /\ x.state = download.job.state /\ x.selected = download.job.selected
        /\ x.published = download.job.published \cup {i} /\ x.verified = download.job.verified
    BY <1>4 DEF Downloading!Job
  <1>6. saved' = x /\ download' = y
    BY <1>3
  <1> HIDE DEF x
  <1>7. y \in Downloads /\ y.pc = pc /\ y.job = x
    BY <1>1, <1>5 DEF Downloads
  <1> HIDE DEF y
  <1>8. cipher' \in [Downloading!Chunk -> {"none", "part", "badpart", "whole", "bad"}]
    BY <1>1 DEF Downloading!RecordPublished, DownloadTyped
  <1>9. DownloadTyped'
    BY <1>1, <1>5, <1>6, <1>7, <1>8 DEF DownloadTyped
  <1>10. x.state \in {"running", "paused"} /\ x.selected = saved.selected /\ x.published = saved.published \cup {i} /\ saved \in Downloading!Job /\ saved # Missing
    BY <1>1, <1>5, DownloadState, DownloadAtWork
  <1>11. x # Missing
    BY <1>5, JobParts
  <1>12. DiskSound'
    BY <1>1, <1>2, <1>6, <1>10, <1>11 DEF DiskSound
  <1>13. RunSound'
    BY <1>1, <1>5, <1>6, <1>7, <1>10, DownloadAtWork, DownloadIdle DEF RunSound, Downloading!Selected
  <1>14. Downloading!NeverReplacedStep
    BY <1>1, <1>6, <1>10 DEF Downloading!NeverReplacedStep
  <1> QED
    BY <1>1, <1>9, <1>12, <1>13, <1>14, DownloadSynced DEF DownloadInv, DownloadKept

\* The end of a run.
LEMMA DownloadEnds ==
  ASSUME DownloadInv, Downloading!QueueDone \/ Downloading!FinalizeTurbo \/ Downloading!ReportCompleted
  PROVE  DownloadKept
  <1>1. /\ DownloadTyped /\ RunSound /\ download \in Downloads /\ download.pc # "renamed"
        /\ UNCHANGED <<saved, cipher, spooled, plain, target, dir, final>>
    BY DEF DownloadInv, DownloadTyped, Downloading!QueueDone, Downloading!FinalizeTurbo, Downloading!ReportCompleted
  <1>2. CASE Downloading!FinalizeTurbo
    <2> DEFINE x == [download.job EXCEPT !.envelope = "manifest"]
               y == [download EXCEPT !.job = x]
    <2>1. download.pc = "finalize" /\ download' = y
      BY <1>2 DEF Downloading!FinalizeTurbo
    <2>2. download.job \in Downloading!Job
      BY <2>1, DownloadAtWork
    <2>3. x \in Downloading!Job /\ x.state = download.job.state /\ x.selected = download.job.selected
          /\ x.published = download.job.published /\ x.verified = download.job.verified
      BY <2>2 DEF Downloading!Job
    <2> HIDE DEF x
    <2>4. y \in Downloads /\ y.pc = "finalize" /\ y.job = x
      BY <1>1, <2>1, <2>3 DEF Downloads
    <2> HIDE DEF y
    <2>5. RunSound'
      BY <1>1, <2>1, <2>3, <2>4, DownloadIdle DEF RunSound, Downloading!Selected
    <2> QED
      BY <1>1, <2>1, <2>4, <2>5, DownloadThinks DEF DownloadTyped
  <1>3. CASE Downloading!Stopped
    BY <1>1, <1>3, DownloadEnded, DownloadThinks DEF DownloadTyped
  <1>4. ASSUME NEW pc \in {"finalize", "last"}, download' = [download EXCEPT !.pc = pc], download.pc \in {"fetch", "finalize"},
               pc = "last" => download.job.selected \subseteq download.job.published
        PROVE  DownloadKept
    <2>1. download' \in Downloads /\ download'.job = download.job /\ download'.pc = pc
      BY <1>1, <1>4 DEF Downloads
    <2> QED
      BY <1>1, <1>4, <2>1, DownloadMoves DEF DownloadTyped
  <1>5. CASE Downloading!QueueDone
    <2>1. PICK pc \in {"finalize", "last"} : /\ download' = [download EXCEPT !.pc = pc] /\ download.pc = "fetch"
                                             /\ pc = "last" => download.job.selected \subseteq download.job.published
      BY <1>5 DEF Downloading!QueueDone
    <2> QED
      BY <1>4, <2>1
  <1>6. CASE Downloading!ReportCompleted
    BY <1>3, <1>4, <1>6 DEF Downloading!ReportCompleted
  <1> QED
    BY <1>2, <1>5, <1>6

\* Every step of a download keeps its invariant and replaces nothing.
LEMMA DownloadNext ==
  ASSUME DownloadInv, [Downloading!Next]_downloadVars
  PROVE  DownloadInv' /\ [Downloading!NeverReplacedStep]_downloadVars
  <1>1. ASSUME NEW background \in Background, NEW turbo \in Turbo, Downloading!Start(background, turbo)
        PROVE  DownloadKept
    BY <1>1, DownloadStarts, NativeAssumption DEF DownloadConstants
  <1>2. ASSUME NEW c \in Downloading!Chunk,
               \/ Downloading!Ingest(c) \/ Downloading!ConsumeBackground(c) \/ Downloading!StartFetch(c) \/ Downloading!ReceiveBody(c)
               \/ Downloading!Authenticate(c) \/ Downloading!AuthenticationFails(c)
        PROVE  DownloadKept
    BY <1>2, DownloadIngests, DownloadConsumes, DownloadFetches
  <1>3. ASSUME NEW i \in Downloading!Item, Downloading!StagePublication(i) \/ Downloading!OtherCreates(i)
        PROVE  DownloadKept
    BY <1>3, DownloadStages, DownloadOther
  <1>4. ASSUME NEW items \in SUBSET Downloading!Item, Downloading!SelectItems(items)
        PROVE  DownloadKept
    BY <1>4, DownloadAwaits
  <1>5. CASE Downloading!BackgroundWork
    <2>1. {} \in SUBSET Downloading!Item
      OBVIOUS
    <2> QED
      BY <1>5, <2>1, DownloadAwaits DEF DownloadKept
  <1>6. CASE Downloading!Resume \/ Downloading!SaveResumed \/ Downloading!RecordVerified \/ Downloading!FetchFails \/ Downloading!Complete
    BY <1>6, DownloadResumes, DownloadVerifies, DownloadStopsSaved DEF DownloadKept
  <1>7. CASE \/ Downloading!QueueDone \/ Downloading!FinalizeTurbo \/ Downloading!ReportCompleted
             \/ Downloading!RenameNoclobber \/ Downloading!SyncParent \/ Downloading!RecordPublished
    BY <1>7, DownloadEnds, DownloadRenames, DownloadSyncs, DownloadPublishes DEF DownloadKept
  <1>8. CASE Downloading!Dies \/ Downloading!PowerLoss \/ Downloading!SenderFinishes
    BY <1>8, DownloadSurroundings DEF DownloadKept
  <1>9. CASE UNCHANGED downloadVars
    <2>1. UNCHANGED <<saved, cipher, spooled, plain, target, dir, download, final>>
      BY <1>9 DEF downloadVars
    <2>2. RunSound'
      BY <2>1 DEF DownloadInv, RunSound, Downloading!Selected, Downloading!Idle
    <2> QED
      BY <2>1, <2>2, DownloadThinks DEF DownloadInv, DownloadTyped, DownloadKept
  <1> QED
    BY <1>1, <1>2, <1>3, <1>4, <1>5, <1>6, <1>7, <1>8, <1>9 DEF Downloading!Next, DownloadKept

\* download.rs: for any number of files, chunks and slots, and whatever dies or is
\* lost, a chunk counts as verified only while its plaintext is written, a saved
\* publication is in the output directory unless the process that renamed it ended
\* before it synced the directory, a complete job has published all it
\* selected, and neither another program's file nor a frozen selection is replaced.
THEOREM DownloadStaysExact == Downloading!Spec => DownloadExact
  <1>1. Downloading!Init => DownloadInv
    BY DownloadIdle DEF Downloading!Init, DownloadInv, DownloadTyped, DiskSound, RunSound, DirSound
  <1>2. DownloadInv /\ [Downloading!Next]_downloadVars => DownloadInv'
    BY DownloadNext
  <1>3. DownloadInv /\ [Downloading!Next]_downloadVars => [Downloading!NeverReplacedStep]_downloadVars
    BY DownloadNext
  <1>4. DownloadInv => Downloading!TypeOK /\ Downloading!VerifiedWritten /\ Downloading!PublicationDurable
    BY DEF DownloadInv, DownloadTyped, DiskSound, RunSound, Downloads, Downloading!TypeOK, Downloading!VerifiedWritten, Downloading!PublicationDurable
  <1> QED
    BY <1>1, <1>2, <1>3, <1>4, PTL DEF Downloading!Spec, DownloadExact, downloadVars, Downloading!vars

-----------------------------------------------------------------------------
(* Transfers that the operating system executes.                           *)

\* A job that prepares has no checkpoint yet, and one that goes on has one;
\* the system was asked for nothing before there is a checkpoint; what it sent
\* with success the server has.
HostSound ==
  /\ job = "prepare" => record = Missing
  /\ job \in {"reconcile", "finalize", "resume"} => record # Missing
  /\ record = Missing => \A i \in Work : task[i] = "none"
  /\ Hosting!Upload => \A i \in Work : task[i] = "success" => i \in stored

\* The inductive invariant of background execution.
HostInv == CompletionsSafe /\ HostSound

\* The parts of a checkpoint.
LEMMA CheckpointParts ==
  ASSUME HostInv, record # Missing
  PROVE  /\ record \in Prepared /\ record.done \subseteq Work /\ record.selected \subseteq Work /\ record.frozen \in BOOLEAN
         /\ record.state \in {"awaiting-execution", "running", "complete"}
  <1>1. record \in Prepared
    BY DEF HostInv, CompletionsSafe, Hosting!TypeOK, Prepared
  <1> QED
    BY <1>1 DEF Prepared

\* The application takes up a job, or dies, or is started again.
LEMMA HostJobs ==
  ASSUME HostInv,
         UNCHANGED <<direction, status, record, retained, task, stored, delivered>>, app' \in BOOLEAN,
         \/ job' \in {Missing, job}
         \/ job' = "prepare" /\ record = Missing
         \/ job' \in {"reconcile", "finalize", "resume"} /\ record # Missing
  PROVE  HostInv'
  <1>1. Missing \notin {"prepare", "reconcile", "finalize", "resume"}
    BY NativeAssumption DEF HostConstants
  <1> QED
    BY <1>1 DEF HostInv, HostSound, CompletionsSafe, Hosting!TypeOK, Hosting!CompletionsSafe, Hosting!SelectionFrozen, Hosting!Upload

\* The checkpoint is first saved when every ciphertext of an upload is on disk.
LEMMA HostPrepared ==
  ASSUME HostInv, Hosting!Prepared
  PROVE  HostInv'
  <1>1. Missing \notin {"prepare", "reconcile", "finalize", "resume"}
    BY NativeAssumption DEF HostConstants
  <1>2. record = Missing /\ \A i \in Work : task[i] = "none"
    BY DEF HostInv, HostSound, Hosting!Prepared
  <1>3. Hosting!Record \in Prepared /\ Hosting!Record.done = {} /\ Hosting!Record # Missing
    <2>1. Hosting!Record \in Prepared /\ Hosting!Record.done = {}
      BY DEF Hosting!Record, Prepared
    <2> QED
      BY <2>1, NativeAssumption DEF HostConstants
  <1>4. record' = Hosting!Record /\ job' = Missing /\ retained' = [i \in Work |-> IF Hosting!Upload THEN "right" ELSE Missing]
        /\ UNCHANGED <<direction, status, app, task, stored, delivered>>
    BY DEF Hosting!Prepared
  <1> QED
    BY <1>1, <1>2, <1>3, <1>4 DEF HostInv, HostSound, CompletionsSafe, Hosting!TypeOK, Hosting!CompletionsSafe,
       Hosting!SelectionFrozen, Hosting!Upload, Prepared

\* A checkpoint changes its progress, its selection or its state while a job or
\* a call has it, with the ciphertexts it no longer needs.
LEMMA HostSaves ==
  ASSUME HostInv, record # Missing, NEW r \in Prepared, record' = r, job' \in {job, Missing},
         UNCHANGED <<direction, status, app, task, delivered>>,
         retained' \in [Work -> {Missing, "right", "wrong"}], stored \subseteq stored', stored' \subseteq Work,
         Hosting!Upload => r.done \subseteq stored' /\ \A i \in Work \ r.done : retained'[i] = "right",
         \A i \in Work : ~Hosting!Upload /\ task[i] # "none" => r.frozen /\ i \in r.selected
  PROVE  HostInv'
  <1>1. Missing \notin {"prepare", "reconcile", "finalize", "resume"} /\ r # Missing
    BY NativeAssumption DEF HostConstants
  <1>2. Hosting!TypeOK'
    BY <1>1 DEF HostInv, CompletionsSafe, Hosting!TypeOK, Prepared
  <1>3. Hosting!CompletionsSafe' /\ Hosting!SelectionFrozen'
    BY DEF Hosting!CompletionsSafe, Hosting!SelectionFrozen, Hosting!Upload
  <1>4. HostSound'
    BY <1>1 DEF HostInv, HostSound, Hosting!Upload
  <1> QED
    BY <1>2, <1>3, <1>4 DEF HostInv, CompletionsSafe

\* A selection is made once, before the system was asked for anything.
LEMMA HostSelects ==
  ASSUME HostInv, NEW items \in SUBSET Work, Hosting!SelectItems(items)
  PROVE  HostInv'
  <1> DEFINE r == [record EXCEPT !.selected = items, !.frozen = TRUE]
  <1>1. record # Missing /\ record' = r /\ ~record.frozen /\ ~Hosting!Upload
        /\ UNCHANGED <<direction, status, app, job, retained, task, stored, delivered>>
    BY DEF Hosting!SelectItems, Hosting!Opened
  <1>2. r \in Prepared
    BY <1>1, CheckpointParts DEF Prepared
  <1>3. \A i \in Work : task[i] = "none"
    BY <1>1 DEF HostInv, CompletionsSafe, Hosting!SelectionFrozen
  <1>4. retained \in [Work -> {Missing, "right", "wrong"}] /\ stored \subseteq Work
    BY DEF HostInv, CompletionsSafe, Hosting!TypeOK
  <1> HIDE DEF r
  <1> QED
    BY <1>1, <1>2, <1>3, <1>4, HostSaves

\* What the host asks for is in the checkpoint, and in the selection of a
\* download, which the listing has frozen.
LEMMA HostQueues ==
  ASSUME HostInv, Hosting!PendingUploadWork \/ Hosting!PendingDownloadWork \/ Hosting!PendingInboxDownloadWork
  PROVE  HostInv'
  <1> DEFINE r == IF Hosting!Upload THEN record ELSE [record EXCEPT !.frozen = TRUE]
  <1>1. record # Missing /\ record' = r /\ (task' = task \/ Hosting!Queue)
        /\ UNCHANGED <<direction, status, app, job, retained, stored, delivered>>
    BY DEF Hosting!PendingUploadWork, Hosting!PendingDownloadWork, Hosting!PendingInboxDownloadWork, Hosting!ListDownloadWork, Hosting!Opened
  <1>2. r \in Prepared /\ r.done = record.done /\ r.selected = record.selected /\ r # Missing /\ (~Hosting!Upload => r.frozen)
    BY <1>1, CheckpointParts, NativeAssumption DEF Prepared, HostConstants
  <1> HIDE DEF r
  <1>3. /\ task' \in [Work -> {"none", "queued", "success", "lost", "failed", "wrong"}]
        /\ \A i \in Work : task'[i] = task[i] \/ (task'[i] = "queued" /\ i \in Hosting!Pending)
    BY <1>1 DEF Hosting!Queue, HostInv, CompletionsSafe, Hosting!TypeOK
  <1>4. ~Hosting!Upload => Hosting!Pending \subseteq record.selected
    BY DEF Hosting!Pending
  <1>5. Hosting!TypeOK'
    BY <1>1, <1>2, <1>3 DEF HostInv, CompletionsSafe, Hosting!TypeOK, Prepared
  <1>6. Hosting!CompletionsSafe' /\ HostSound'
    BY <1>1, <1>2, <1>3 DEF HostInv, CompletionsSafe, HostSound, Hosting!CompletionsSafe, Hosting!Upload
  <1>7. Hosting!SelectionFrozen'
    BY <1>1, <1>2, <1>3, <1>4 DEF HostInv, CompletionsSafe, Hosting!SelectionFrozen, Hosting!Upload
  <1> QED
    BY <1>5, <1>6, <1>7 DEF HostInv, CompletionsSafe

\* The system runs a request that it was asked for: a success has arrived.
LEMMA HostRuns ==
  ASSUME HostInv, NEW i \in Work, NEW answer \in {"success", "lost", "failed", "wrong"}, Hosting!SystemRuns(i, answer)
  PROVE  HostInv'
  <1>1. /\ task[i] = "queued" /\ task' = [task EXCEPT ![i] = answer] /\ stored \subseteq stored' /\ stored' \subseteq Work
        /\ (Hosting!Upload /\ answer = "success" => i \in stored')
        /\ UNCHANGED <<direction, status, app, job, record, retained, delivered>>
    BY DEF Hosting!SystemRuns, HostInv, CompletionsSafe, Hosting!TypeOK
  <1>2. task' \in [Work -> {"none", "queued", "success", "lost", "failed", "wrong"}] /\ \A k \in Work : k # i => task'[k] = task[k]
    BY <1>1 DEF HostInv, CompletionsSafe, Hosting!TypeOK
  <1>3. task'[i] = answer
    BY <1>1 DEF HostInv, CompletionsSafe, Hosting!TypeOK
  <1>4. Hosting!TypeOK' /\ Hosting!CompletionsSafe'
    BY <1>1, <1>2 DEF HostInv, CompletionsSafe, Hosting!TypeOK, Hosting!CompletionsSafe, Hosting!Upload
  <1>5. Hosting!SelectionFrozen' /\ HostSound'
    BY <1>1, <1>2, <1>3 DEF HostInv, CompletionsSafe, HostSound, Hosting!SelectionFrozen, Hosting!Upload
  <1> QED
    BY <1>4, <1>5 DEF HostInv, CompletionsSafe

\* A completion is acknowledged only for a chunk that the server has.
LEMMA HostIngests ==
  ASSUME HostInv, NEW i \in Work, Hosting!IngestUpload(i) \/ Hosting!IngestDownload(i)
  PROVE  HostInv'
  <1>1. record # Missing /\ UNCHANGED <<direction, status, app, job, task, stored, delivered>>
    BY DEF Hosting!IngestUpload, Hosting!IngestDownload, Hosting!Opened
  <1>2. /\ retained \in [Work -> {Missing, "right", "wrong"}] /\ stored \subseteq Work
        /\ Hosting!CompletionsSafe /\ Hosting!SelectionFrozen
    BY DEF HostInv, CompletionsSafe, Hosting!TypeOK
  <1>3. CASE Hosting!IngestUpload(i)
    <2> DEFINE r == [record EXCEPT !.done = @ \cup {i}]
    <2>1. record' = r /\ Hosting!Upload /\ task[i] = "success"
          /\ (retained' = [retained EXCEPT ![i] = Missing] \/ retained' = retained)
      BY <1>3 DEF Hosting!IngestUpload, Hosting!Acknowledge, Hosting!Created
    <2>2. r \in Prepared /\ r.done = record.done \cup {i}
      BY <1>1, CheckpointParts DEF Prepared
    <2> HIDE DEF r
    <2>3. i \in stored
      BY <2>1 DEF HostInv, HostSound
    <2>4. retained' \in [Work -> {Missing, "right", "wrong"}] /\ \A k \in Work \ {i} : retained'[k] = retained[k]
      BY <1>2, <2>1
    <2>5. r.done \subseteq stored' /\ \A k \in Work \ r.done : retained'[k] = "right"
      BY <1>1, <1>2, <2>1, <2>2, <2>3, <2>4 DEF Hosting!CompletionsSafe
    <2> QED
      BY <1>1, <1>2, <2>1, <2>2, <2>4, <2>5, HostSaves
  <1>4. CASE Hosting!IngestDownload(i)
    <2>1. record' = record /\ ~Hosting!Upload /\ retained' \in [Work -> {Missing, "right", "wrong"}]
      BY <1>2, <1>4 DEF Hosting!IngestDownload
    <2>2. \A k \in Work : task[k] # "none" => record.frozen /\ k \in record.selected
      BY <1>2, <2>1 DEF Hosting!SelectionFrozen
    <2> QED
      BY <1>1, <1>2, <2>1, <2>2, CheckpointParts, HostSaves
  <1> QED
    BY <1>3, <1>4

\* What the ledger of the server has is complete.
LEMMA HostReconciles ==
  ASSUME HostInv, Hosting!Reconciled
  PROVE  HostInv'
  <1>1. record # Missing /\ job' = Missing /\ UNCHANGED <<direction, status, app, task, stored, delivered>>
    BY DEF Hosting!Reconciled, HostInv, HostSound
  <1>2. /\ retained \in [Work -> {Missing, "right", "wrong"}] /\ stored \subseteq Work
        /\ Hosting!CompletionsSafe /\ Hosting!SelectionFrozen
    BY DEF HostInv, CompletionsSafe, Hosting!TypeOK
  <1>3. \A k \in Work : ~Hosting!Upload /\ task[k] # "none" => record.frozen /\ k \in record.selected
    BY <1>2 DEF Hosting!SelectionFrozen
  <1>4. CASE record' = [record EXCEPT !.done = @ \cup stored]
             /\ retained' = [i \in Work |-> IF i \in record'.done THEN Missing ELSE retained[i]]
    <2> DEFINE r == [record EXCEPT !.done = @ \cup stored]
    <2>1. r \in Prepared /\ r.done = record.done \cup stored /\ r.frozen = record.frozen /\ r.selected = record.selected
      BY <1>1, <1>2, CheckpointParts DEF Prepared
    <2>2. record' = r /\ retained' = [i \in Work |-> IF i \in r.done THEN Missing ELSE retained[i]]
      BY <1>4
    <2> HIDE DEF r
    <2>3. retained' \in [Work -> {Missing, "right", "wrong"}]
      BY <1>2, <2>2
    <2>4. Hosting!Upload => r.done \subseteq stored' /\ \A k \in Work \ r.done : retained'[k] = "right"
      BY <1>1, <1>2, <2>1, <2>2 DEF Hosting!CompletionsSafe
    <2> QED
      BY <1>1, <1>2, <1>3, <2>1, <2>2, <2>3, <2>4, HostSaves
  <1>5. CASE UNCHANGED <<record, retained>>
    BY <1>1, <1>2, <1>3, <1>5, CheckpointParts, HostSaves DEF Hosting!CompletionsSafe
  <1> QED
    BY <1>4, <1>5 DEF Hosting!Reconciled

\* A foreground job moves the checkpoint on, and may end there.
LEMMA HostMoves ==
  ASSUME HostInv, Hosting!Finalizing \/ Hosting!Resumed
  PROVE  HostInv'
  <1> DEFINE r == [record EXCEPT !.state = "running"]
  <1>1. /\ record # Missing /\ job' \in {job, Missing} /\ record' \in {r, record}
        /\ UNCHANGED <<direction, status, app, retained, task, stored, delivered>>
    BY DEF Hosting!Finalizing, Hosting!Resumed, HostInv, HostSound
  <1>2. /\ retained \in [Work -> {Missing, "right", "wrong"}] /\ stored \subseteq Work
        /\ Hosting!CompletionsSafe /\ Hosting!SelectionFrozen
    BY DEF HostInv, CompletionsSafe, Hosting!TypeOK
  <1>3. r \in Prepared /\ r.done = record.done /\ r.frozen = record.frozen /\ r.selected = record.selected
    BY <1>1, CheckpointParts DEF Prepared
  <1> HIDE DEF r
  <1>4. PICK x \in Prepared : record' = x /\ x.done = record.done /\ x.frozen = record.frozen /\ x.selected = record.selected
    BY <1>1, <1>3, CheckpointParts
  <1>5. \A k \in Work : ~Hosting!Upload /\ task[k] # "none" => x.frozen /\ k \in x.selected
    BY <1>2, <1>4 DEF Hosting!SelectionFrozen
  <1>6. Hosting!Upload => x.done \subseteq stored' /\ \A k \in Work \ x.done : retained'[k] = "right"
    BY <1>1, <1>2, <1>4 DEF Hosting!CompletionsSafe
  <1> QED
    BY <1>1, <1>2, <1>4, <1>5, <1>6, HostSaves

\* The last job completes the checkpoint, or leaves everything as it was.
LEMMA HostFinalizes ==
  ASSUME HostInv, Hosting!Finalized
  PROVE  HostInv'
  <1>1. record # Missing /\ record \in Prepared /\ job' = Missing /\ UNCHANGED <<direction, status, app, task>>
    BY CheckpointParts DEF Hosting!Finalized, HostInv, HostSound
  <1>2. Missing \notin {"prepare", "reconcile", "finalize", "resume"} /\ Missing \notin Prepared
    BY NativeAssumption DEF HostConstants
  <1> DEFINE r == [record EXCEPT !.state = "complete", !.done = IF Hosting!Upload THEN Work ELSE @]
  <1>3. r \in Prepared /\ r.frozen = record.frozen /\ r.selected = record.selected /\ (Hosting!Upload => r.done = Work)
    BY <1>1, CheckpointParts DEF Prepared
  <1>4. CASE /\ record' = r /\ delivered' = record.selected /\ stored' = (IF Hosting!Upload THEN Work ELSE stored)
             /\ retained' = [i \in Work |-> Missing]
    <2> HIDE DEF r
    <2>1. Hosting!TypeOK'
      BY <1>1, <1>3, <1>4, CheckpointParts DEF HostInv, CompletionsSafe, Hosting!TypeOK, Prepared
    <2>2. Hosting!CompletionsSafe' /\ HostSound'
      BY <1>1, <1>2, <1>3, <1>4 DEF Hosting!CompletionsSafe, HostInv, HostSound, Hosting!Upload
    <2>3. Hosting!SelectionFrozen'
      BY <1>1, <1>3, <1>4 DEF HostInv, CompletionsSafe, Hosting!SelectionFrozen, Hosting!Upload
    <2> QED
      BY <2>1, <2>2, <2>3 DEF HostInv, CompletionsSafe
  <1>5. CASE UNCHANGED <<record, delivered, stored, retained>>
    <2>1. /\ retained \in [Work -> {Missing, "right", "wrong"}] /\ stored \subseteq Work
          /\ Hosting!CompletionsSafe /\ Hosting!SelectionFrozen
      BY DEF HostInv, CompletionsSafe, Hosting!TypeOK
    <2> QED
      BY <1>1, <1>5, <2>1, HostSaves DEF Hosting!CompletionsSafe, Hosting!SelectionFrozen
  <1> QED
    BY <1>4, <1>5 DEF Hosting!Finalized

\* Every step of background execution keeps its invariant.
LEMMA HostNext ==
  ASSUME HostInv, [Hosting!Next]_hostVars
  PROVE  HostInv'
  <1>1. ASSUME NEW valid \in BOOLEAN,
               \/ Hosting!PrepareUpload(valid) \/ Hosting!PrepareUploadSources(valid) \/ Hosting!PrepareDownload(valid)
               \/ Hosting!PrepareInboxDownload(valid) \/ Hosting!FinalizeInboxDownload(valid)
        PROVE  HostInv'
    BY <1>1, HostJobs DEF Hosting!PrepareUpload, Hosting!PrepareUploadSources, Hosting!PrepareDownload, Hosting!PrepareInboxDownload,
       Hosting!FinalizeInboxDownload, Hosting!Prepare, Hosting!Finalize, Hosting!StartJob, HostInv, CompletionsSafe, Hosting!TypeOK
  <1>2. CASE Hosting!Reconcile \/ Hosting!FinalizeUpload \/ Hosting!FinalizeDownload \/ Hosting!Resume
    BY <1>2, HostJobs DEF Hosting!Reconcile, Hosting!FinalizeUpload, Hosting!FinalizeDownload, Hosting!Resume, Hosting!Finalize,
       Hosting!StartJob, HostInv, CompletionsSafe, Hosting!TypeOK
  <1>3. CASE Hosting!Killed \/ Hosting!Relaunched
    BY <1>3, HostJobs DEF Hosting!Killed, Hosting!Relaunched
  <1>4. CASE UNCHANGED hostVars
    BY <1>4, HostJobs DEF hostVars, HostInv, CompletionsSafe, Hosting!TypeOK
  <1> QED
    BY <1>1, <1>2, <1>3, <1>4, HostPrepared, HostReconciles, HostMoves, HostFinalizes, HostQueues, HostSelects, HostIngests, HostRuns
       DEF Hosting!Next

\* background.rs: for any number of items, whatever the operating system delivers
\* late, twice or not at all and whenever it kills the application, a completion
\* advances an upload only when the server has the chunk, its ciphertext is kept
\* until then, and no request leaves for an item outside the frozen selection.
THEOREM CompletionsAlwaysSafe == Hosting!Spec => []CompletionsSafe
  <1>1. Hosting!Init => HostInv
    BY NativeAssumption DEF Hosting!Init, HostInv, HostSound, CompletionsSafe, Hosting!TypeOK, Hosting!CompletionsSafe, Hosting!SelectionFrozen,
       Hosting!Upload, HostConstants
  <1>2. HostInv /\ [Hosting!Next]_hostVars => HostInv'
    BY HostNext
  <1>3. HostInv => CompletionsSafe
    BY DEF HostInv
  <1> QED
    BY <1>1, <1>2, <1>3, PTL DEF Hosting!Spec, hostVars, Hosting!vars

-----------------------------------------------------------------------------
(* Sums of the sizes of deliveries, by a smallest counterexample: the      *)
(* library's induction theorems take an operator and cannot be used.       *)

\* The delivery that a sum takes out first.
Picked(s) == CHOOSE x \in s : TRUE

\* f adds up the sizes over every subset of D.
SumsOver(f, D) == f = [s \in SUBSET D |-> IF s = {} THEN 0 ELSE Bytes[Picked(s)] + f[s \ {Picked(s)}]]

\* The size of a set of deliveries.
Total(S) == (CHOOSE f : SumsOver(f, S))[S]

\* The deliveries that count against the cache.
Counted(e) == {d \in Delivery : e[d] \notin {Missing, "dismissed"}}

\* Used adds up what counts, for any entries and for those a step leaves.
LEMMA UsedIsTotal ==
  /\ \A e : Receiving!Used(e) = Total(Counted(e))
  /\ Receiving!Used(entry)' = Total(Counted(entry'))
  BY DEF Receiving!Used, Receiving!MapThenSumSet, Receiving!MapThenFoldSet, Total, SumsOver, Picked, Counted

\* Induction over finite sets: if a claim fails for a part of D, it fails for
\* a part of D below which it holds.
LEMMA MinimalSet ==
  ASSUME NEW D, IsFiniteSet(D), NEW T \in SUBSET SUBSET D, T # {}
  PROVE  \E S \in T : \A R \in T : R \subseteq S => R = S
  <1>1. IsWellFoundedOn(StrictSubsetOrdering(D), FiniteSubsetsOf(D))
    BY FS_StrictSubsetOrderingWellFounded
  <1>2. T \subseteq FiniteSubsetsOf(D)
    BY FS_Subset DEF FiniteSubsetsOf
  <1>3. PICK S \in T : \A R \in T : ~(<<R, S>> \in StrictSubsetOrdering(D))
    <2> HIDE DEF IsWellFoundedOn, StrictSubsetOrdering, FiniteSubsetsOf
    <2> QED
      BY <1>1, <1>2, WFMin
  <1> QED
    BY <1>3 DEF StrictSubsetOrdering

\* A set that is not empty has the element a sum takes out.
LEMMA PickedIn == ASSUME NEW s, s # {} PROVE Picked(s) \in s
  BY DEF Picked

\* Two functions that satisfy the equation of the sum agree where both are
\* defined.
LEMMA SumsAgree ==
  ASSUME NEW D, IsFiniteSet(D), NEW A \in SUBSET D, NEW B \in SUBSET D, NEW f, NEW g, SumsOver(f, A), SumsOver(g, B)
  PROVE  \A s \in (SUBSET A) \cap (SUBSET B) : f[s] = g[s]
  <1> DEFINE T == {s \in (SUBSET A) \cap (SUBSET B) : f[s] # g[s]}
  <1> SUFFICES ASSUME T # {} PROVE FALSE
    OBVIOUS
  <1>0. T \in SUBSET SUBSET D
    OBVIOUS
  <1>1. PICK s \in T : \A r \in T : r \subseteq s => r = s
    <2> HIDE DEF T
    <2> QED
      BY <1>0, MinimalSet
  <1>2. s # {}
    BY DEF SumsOver
  <1>3. Picked(s) \in s
    BY <1>2, PickedIn
  <1>4. f[s \ {Picked(s)}] = g[s \ {Picked(s)}]
    BY <1>1, <1>3
  <1>5. s \in SUBSET A /\ s \in SUBSET B /\ f[s] # g[s]
    OBVIOUS
  <1> HIDE DEF T
  <1>6. f[s] = Bytes[Picked(s)] + f[s \ {Picked(s)}] /\ g[s] = Bytes[Picked(s)] + g[s \ {Picked(s)}]
    BY <1>2, <1>5 DEF SumsOver
  <1> QED
    BY <1>4, <1>5, <1>6

\* The sum over a part does not depend on the whole it is taken of.
LEMMA SumOfPart ==
  ASSUME NEW D, IsFiniteSet(D), NEW R \in SUBSET D, NEW f, NEW g, SumsOver(f, D), SumsOver(g, R)
  PROVE  f[R] = g[R]
  BY SumsAgree

\* The recursive equation of the sum has a solution over every finite set.
LEMMA SumExists ==
  ASSUME NEW D, IsFiniteSet(D)
  PROVE  \A S \in SUBSET D : \E f : SumsOver(f, S)
  <1> DEFINE T == {S \in SUBSET D : ~\E f : SumsOver(f, S)}
  <1> SUFFICES ASSUME T # {} PROVE FALSE
    OBVIOUS
  <1>0. T \in SUBSET SUBSET D
    OBVIOUS
  <1>1. PICK S \in T : \A R \in T : R \subseteq S => R = S
    <2> HIDE DEF T
    <2> QED
      BY <1>0, MinimalSet
  <1> DEFINE F(R) == CHOOSE f : SumsOver(f, R)
             h == [s \in SUBSET S |-> IF s = {} THEN 0 ELSE Bytes[Picked(s)] + F(s \ {Picked(s)})[s \ {Picked(s)}]]
  <1>2. \A R \in SUBSET S : R # S => SumsOver(F(R), R)
    <2> TAKE R \in SUBSET S
    <2> HAVE R # S
    <2>1. \E f : SumsOver(f, R)
      BY <1>1
    <2> QED
      BY <2>1
  <1> HIDE DEF F
  <1>3. \A s \in SUBSET S : s # S => h[s] = F(s)[s]
    <2> SUFFICES ASSUME NEW s \in SUBSET S, s # S PROVE h[s] = F(s)[s]
      OBVIOUS
    <2>1. SumsOver(F(s), s)
      BY <1>2
    <2>2. CASE s = {}
      BY <2>1, <2>2 DEF SumsOver
    <2>3. CASE s # {}
      <3> DEFINE r == s \ {Picked(s)}
      <3>1. r \in SUBSET s /\ r \in SUBSET S /\ r # S
        BY <2>3, PickedIn
      <3>2. F(s)[s] = Bytes[Picked(s)] + F(s)[r]
        BY <2>1, <2>3 DEF SumsOver
      <3>3. SumsOver(F(r), r)
        BY <3>1, <1>2
      <3>4. F(s)[r] = F(r)[r]
        BY <2>1, <3>1, <3>3, FS_Subset, SumOfPart
      <3> QED
        BY <2>3, <3>2, <3>4
    <2> QED
      BY <2>2, <2>3
  <1>4. SumsOver(h, S)
    <2>1. ASSUME NEW s \in SUBSET S, s # {}
          PROVE  h[s] = Bytes[Picked(s)] + h[s \ {Picked(s)}]
      <3>1. s \ {Picked(s)} \in SUBSET S /\ s \ {Picked(s)} # S
        BY <2>1, PickedIn
      <3> QED
        BY <2>1, <3>1, <1>3
    <2>2. {} \in SUBSET S => h[{}] = 0
      OBVIOUS
    <2>3. h = [s \in SUBSET S |-> h[s]]
      OBVIOUS
    <2> HIDE DEF h
    <2> QED
      BY <2>1, <2>2, <2>3 DEF SumsOver
  <1> QED
    BY <1>1, <1>4

\* The equation that Total satisfies.
LEMMA TotalStep ==
  ASSUME NEW S, IsFiniteSet(S)
  PROVE  /\ Total({}) = 0
         /\ S # {} => Total(S) = Bytes[Picked(S)] + Total(S \ {Picked(S)})
  <1> DEFINE F(R) == CHOOSE f : SumsOver(f, R)
  <1>1. \A R \in SUBSET S : SumsOver(F(R), R)
    BY SumExists
  <1>2. \A R : Total(R) = F(R)[R]
    BY DEF Total
  <1> HIDE DEF F
  <1>3. Total({}) = 0
    BY <1>1, <1>2 DEF SumsOver
  <1>4. ASSUME S # {}
        PROVE  Total(S) = Bytes[Picked(S)] + Total(S \ {Picked(S)})
    <2> DEFINE R == S \ {Picked(S)}
    <2>1. R \in SUBSET S /\ R \in SUBSET R
      OBVIOUS
    <2>2. F(S)[R] = F(R)[R]
      BY <1>1, <2>1, SumOfPart
    <2>3. F(S)[S] = Bytes[Picked(S)] + F(S)[R]
      BY <1>1, <1>4 DEF SumsOver
    <2> QED
      BY <1>2, <2>2, <2>3
  <1> QED
    BY <1>3, <1>4

\* What the proofs use of the constants.
LEMMA InboxFacts ==
  /\ IsFiniteSet(Delivery) /\ CacheLimit \in Nat /\ Last \in Nat /\ \A d \in Delivery : Bytes[d] \in Nat
  /\ Missing \notin Receiving!EntryState /\ Missing \notin Delivery /\ Missing \notin Nat
  BY NativeAssumption DEF InboxConstants

\* A sum of sizes is a natural number.
LEMMA TotalType == \A S \in SUBSET Delivery : Total(S) \in Nat
  <1> DEFINE T == {S \in SUBSET Delivery : Total(S) \notin Nat}
  <1> SUFFICES ASSUME T # {} PROVE FALSE
    OBVIOUS
  <1>0. T \in SUBSET SUBSET Delivery
    OBVIOUS
  <1>1. PICK S \in T : \A R \in T : R \subseteq S => R = S
    <2> HIDE DEF T
    <2> QED
      BY <1>0, InboxFacts, MinimalSet
  <1>2. S # {}
    <2>1. Total({}) = 0 /\ 0 \in Nat
      BY FS_EmptySet, TotalStep
    <2> QED
      BY <2>1
  <1>3. Picked(S) \in S /\ IsFiniteSet(S)
    BY <1>2, InboxFacts, PickedIn, FS_Subset
  <1>4. Total(S \ {Picked(S)}) \in Nat
    BY <1>1, <1>3
  <1> QED
    BY <1>2, <1>3, <1>4, InboxFacts, TotalStep

\* The order does not matter: any delivery may be taken out first.
LEMMA TotalRemove == \A S \in SUBSET Delivery : \A d \in S : Total(S) = Bytes[d] + Total(S \ {d})
  <1> DEFINE T == {S \in SUBSET Delivery : \E d \in S : Total(S) # Bytes[d] + Total(S \ {d})}
  <1> SUFFICES ASSUME T # {} PROVE FALSE
    OBVIOUS
  <1>0. T \in SUBSET SUBSET Delivery
    OBVIOUS
  <1>1. PICK S \in T : \A R \in T : R \subseteq S => R = S
    <2> HIDE DEF T
    <2> QED
      BY <1>0, InboxFacts, MinimalSet
  <1>2. PICK d \in S : Total(S) # Bytes[d] + Total(S \ {d})
    OBVIOUS
  <1> DEFINE x == Picked(S)
  <1>3. x \in S /\ IsFiniteSet(S) /\ Total(S) = Bytes[x] + Total(S \ {x})
    BY InboxFacts, PickedIn, FS_Subset, TotalStep
  <1> HIDE DEF x
  <1>4. x # d
    BY <1>2, <1>3
  <1>5. Total(S \ {x}) = Bytes[d] + Total((S \ {x}) \ {d})
    BY <1>1, <1>3, <1>4
  <1>6. Total(S \ {d}) = Bytes[x] + Total((S \ {d}) \ {x})
    BY <1>1, <1>3, <1>4
  <1>7. (S \ {d}) \ {x} = (S \ {x}) \ {d}
    OBVIOUS
  <1>8. Bytes[d] \in Nat /\ Bytes[x] \in Nat /\ Total((S \ {x}) \ {d}) \in Nat
    BY <1>3, InboxFacts, TotalType
  <1> HIDE DEF T
  <1>9. Total(S) = Bytes[x] + (Bytes[d] + Total((S \ {x}) \ {d}))
    BY <1>3, <1>5
  <1>10. Bytes[d] + Total(S \ {d}) = Bytes[d] + (Bytes[x] + Total((S \ {x}) \ {d}))
    BY <1>6, <1>7
  <1> QED
    BY <1>2, <1>8, <1>9, <1>10

\* A chunk that is not on the disk has a first one before it.
LEMMA FirstChunk ==
  ASSUME NEW S \in SUBSET Receiving!Chunk, S # {}
  PROVE  Receiving!Min(S) \in S
  <1> DEFINE T == {0..c : c \in S}
             D == 0..Last
  <1>1. Receiving!Chunk = 0..Last /\ IsFiniteSet(D) /\ Last \in Nat
    BY InboxFacts, FS_Interval DEF Receiving!Chunk
  <1>2. T \in SUBSET SUBSET D
    <2>1. ASSUME NEW c \in S PROVE 0..c \subseteq D
      BY <1>1
    <2> HIDE DEF D
    <2> QED
      BY <2>1
  <1>3. PICK R \in T : \A Q \in T : Q \subseteq R => Q = R
    <2>1. T # {}
      OBVIOUS
    <2> HIDE DEF T, D
    <2> QED
      BY <1>1, <1>2, <2>1, MinimalSet
  <1>4. PICK m \in S : R = 0..m
    OBVIOUS
  <1>5. ASSUME NEW y \in S, ~(m <= y)
        PROVE  FALSE
    <2>1. m \in Nat /\ y \in Nat /\ y < m
      BY <1>1, <1>5
    <2>2. 0..y \subseteq 0..m /\ m \notin 0..y /\ m \in 0..m
      BY <2>1
    <2> QED
      BY <1>3, <1>4, <2>2
  <1> HIDE DEF T
  <1>6. \E x \in S : \A y \in S : x <= y
    BY <1>5
  <1> QED
    BY <1>6 DEF Receiving!Min

-----------------------------------------------------------------------------
(* The staged deliveries of the inbox.                                     *)

\* The saved states of the deliveries, and the running sweep.
Entries == [Delivery -> Receiving!EntryState \cup {Missing}]
Sweeps ==
  [pc : {"idle", "list", "associate", "fetch", "request", "stored"}, todo : SUBSET Delivery, seen : SUBSET Delivery, at : Delivery \cup {Missing},
   entry : Entries \cup {Missing}]

\* What is on the disk of a delivery, and all of it.
Present(files, d) == \E c \in Receiving!Chunk : files[d][c] \in Receiving!Stored
Whole(files, d) == \A c \in Receiving!Chunk : files[d][c] \in Receiving!Stored

\* Entries e account for the files and keep to the limit.
EntriesSound(e, files) ==
  /\ e \in Entries /\ Total(Counted(e)) <= CacheLimit
  /\ \A d \in Delivery : Present(files, d) => e[d] # Missing
  /\ \A d \in Delivery : e[d] = "staged-locked" => Whole(files, d)

\* A sweep x works on entries as sound as the saved ones e, which dismiss no less.
SweepSound(x, e, files) ==
  /\ x.pc = "idle" <=> x = Receiving!NoSweep
  /\ x.pc # "idle" => EntriesSound(x.entry, files) /\ \A d \in Delivery : e[d] = "dismissed" => x.entry[d] = "dismissed"
  /\ x.pc \in {"associate", "fetch", "request", "stored"} => x.at \in Delivery /\ x.entry[x.at] \notin {"staged-locked", "dismissed"}
  /\ x.pc = "associate" /\ x.entry[x.at] = Missing => Total(Counted(x.entry)) + Bytes[x.at] <= CacheLimit
  /\ x.pc \in {"fetch", "request", "stored"} => x.entry[x.at] # Missing /\ e[x.at] # Missing

\* A staging record is past the last chunk only when all are there.
RecordsSound(g, files) == \A d \in Delivery : g[d] = Last + 1 => Whole(files, d)

\* A sweep x requests what record g points at, a chunk that is missing.
RequestSound(x, g, files) ==
  x.pc = "request" => g[x.at] \in Receiving!Chunk /\ files[x.at][g[x.at]] \notin Receiving!Stored

\* The inductive invariant of the receiver.
InboxInv ==
  /\ Receiving!TypeOK /\ sweep \in Sweeps
  /\ EntriesSound(entry, fetched) /\ SweepSound(sweep, entry, fetched) /\ RecordsSound(staging, fetched)
  /\ RequestSound(sweep, staging, fetched)

\* What every step keeps.
InboxKept == InboxInv' /\ Receiving!DismissedStaysStep

\* The contents of the disk.
InboxFiles == [Delivery -> [Receiving!Chunk -> {"none", "good", "damaged"}]]

\* A step that leaves sound values keeps the invariant.
LEMMA InboxMoves ==
  ASSUME InboxInv,
         NEW e, NEW x, NEW f, NEW g, entry' = e, sweep' = x, fetched' = f, staging' = g,
         listed' \in [Delivery -> {"no", "manual", "auto"}], enabled' \in BOOLEAN, output' \in SUBSET Delivery,
         x \in Sweeps, f \in InboxFiles, g \in [Delivery -> 0..(Last + 1) \cup {Missing}],
         EntriesSound(e, f), SweepSound(x, e, f), RecordsSound(g, f), RequestSound(x, g, f),
         \A d \in Delivery : entry[d] = "dismissed" => e[d] = "dismissed" /\ \A c \in Receiving!Chunk : f[d][c] \in {"none", fetched[d][c]}
  PROVE  InboxKept
  <1>1. x.pc \in {"idle", "list", "associate", "fetch", "request", "stored"} /\ x.todo \subseteq Delivery /\ e \in Entries
    BY DEF Sweeps, EntriesSound
  <1>2. Receiving!TypeOK'
    BY <1>1 DEF Receiving!TypeOK, Entries, InboxFiles
  <1>3. EntriesSound(entry, fetched)'
    BY DEF EntriesSound, Present, Whole, Counted, Total, SumsOver
  <1>4. SweepSound(sweep, entry, fetched)'
    BY DEF SweepSound, EntriesSound, Present, Whole, Counted, Total, SumsOver
  <1>5. RecordsSound(staging, fetched)' /\ Receiving!DismissedStaysStep /\ RequestSound(sweep, staging, fetched)'
    BY DEF RecordsSound, RequestSound, Whole, Receiving!DismissedStaysStep
  <1> QED
    BY <1>2, <1>3, <1>4, <1>5 DEF InboxKept, InboxInv, Sweeps, Entries

\* What a step starts from.
LEMMA InboxTypes ==
  ASSUME InboxInv
  PROVE  /\ listed \in [Delivery -> {"no", "manual", "auto"}] /\ enabled \in BOOLEAN /\ output \in SUBSET Delivery
         /\ entry \in Entries /\ staging \in [Delivery -> 0..(Last + 1) \cup {Missing}] /\ fetched \in InboxFiles /\ sweep \in Sweeps
         /\ EntriesSound(entry, fetched) /\ SweepSound(sweep, entry, fetched) /\ RecordsSound(staging, fetched)
         /\ RequestSound(sweep, staging, fetched)
  BY DEF InboxInv, Receiving!TypeOK, Entries, InboxFiles

\* Nobody sweeps.
LEMMA SweepIdle ==
  /\ Receiving!NoSweep \in Sweeps /\ Receiving!NoSweep.pc = "idle"
  /\ \A e, f : SweepSound(Receiving!NoSweep, e, f)
  /\ \A g, f : RequestSound(Receiving!NoSweep, g, f)
  <1>1. Receiving!NoSweep \in Sweeps /\ Receiving!NoSweep.pc = "idle"
    BY DEF Receiving!NoSweep, Sweeps
  <1> QED
    BY <1>1 DEF SweepSound, RequestSound

\* Entries that count alike, keep what is there and announce no more are sound.
LEMMA EntriesChange ==
  ASSUME NEW e, NEW f, NEW x \in Entries, EntriesSound(e, f),
         \A d \in Delivery : x[d] \in {Missing, "dismissed"} <=> e[d] \in {Missing, "dismissed"},
         \A d \in Delivery : e[d] # Missing => x[d] # Missing,
         \A d \in Delivery : x[d] = "staged-locked" => e[d] = "staged-locked" \/ Whole(f, d)
  PROVE  EntriesSound(x, f) /\ Counted(x) = Counted(e)
  <1>1. Counted(x) = Counted(e)
    BY DEF Counted
  <1> QED
    BY <1>1 DEF EntriesSound

\* A new entry counts for its size.
LEMMA EntryAdded ==
  ASSUME NEW e \in Entries, NEW d \in Delivery, e[d] = Missing
  PROVE  Total(Counted([e EXCEPT ![d] = "downloading"])) = Total(Counted(e)) + Bytes[d]
  <1> DEFINE S == Counted([e EXCEPT ![d] = "downloading"])
  <1>1. S \in SUBSET Delivery /\ d \in S /\ S \ {d} = Counted(e)
    BY InboxFacts DEF Counted, Entries, Receiving!EntryState
  <1> HIDE DEF S
  <1>2. Total(S) = Bytes[d] + Total(Counted(e))
    BY <1>1, TotalRemove
  <1>3. Bytes[d] \in Nat /\ Total(Counted(e)) \in Nat
    BY <1>1, InboxFacts, TotalType
  <1> QED
    BY <1>2, <1>3 DEF S

\* A dismissed one no longer does.
LEMMA EntryDropped ==
  ASSUME NEW e \in Entries, NEW d \in Delivery
  PROVE  Total(Counted([e EXCEPT ![d] = "dismissed"])) <= Total(Counted(e))
  <1> DEFINE S == Counted([e EXCEPT ![d] = "dismissed"])
  <1>1. S = Counted(e) \ {d} /\ Counted(e) \in SUBSET Delivery /\ S \in SUBSET Delivery
    BY DEF Counted, Entries
  <1> HIDE DEF S
  <1>2. Bytes[d] \in Nat /\ Total(Counted(e)) \in Nat /\ Total(S) \in Nat
    BY <1>1, InboxFacts, TotalType
  <1>3. CASE d \in Counted(e)
    <2>1. Total(Counted(e)) = Bytes[d] + Total(S)
      BY <1>1, <1>3, TotalRemove
    <2> QED
      BY <1>2, <2>1 DEF S
  <1>4. CASE d \notin Counted(e)
    <2>1. S = Counted(e)
      BY <1>1, <1>4
    <2> QED
      BY <1>2, <2>1 DEF S
  <1> QED
    BY <1>3, <1>4

\* The server, an export or a crash leaves entries and files as they are.
LEMMA InboxSurroundings ==
  ASSUME InboxInv,
         \/ \E d \in Delivery : Receiving!Lists(d) \/ Receiving!Export(d)
         \/ Receiving!Crash \/ UNCHANGED inboxVars
  PROVE  InboxKept
  <1>1. /\ UNCHANGED <<entry, fetched, staging>> /\ (sweep' = Receiving!NoSweep \/ sweep' = sweep)
        /\ listed' \in [Delivery -> {"no", "manual", "auto"}] /\ enabled' \in BOOLEAN /\ output' \in SUBSET Delivery
    BY InboxTypes DEF Receiving!Lists, Receiving!Export, Receiving!Crash, inboxVars
  <1>2. PICK x \in Sweeps : sweep' = x /\ SweepSound(x, entry, fetched) /\ RequestSound(x, staging, fetched)
    BY <1>1, InboxTypes, SweepIdle
  <1> QED
    BY <1>1, <1>2, InboxTypes, InboxMoves

\* Turning automatic receiving off pauses what is downloading.
LEMMA InboxEnables ==
  ASSUME InboxInv, NEW on \in BOOLEAN, Receiving!SetEnabled(on)
  PROVE  InboxKept
  <1> DEFINE e == IF on THEN entry ELSE [d \in Delivery |-> IF entry[d] = "downloading" THEN "paused-local" ELSE entry[d]]
  <1>1. sweep' = Receiving!NoSweep /\ enabled' = on /\ entry' = e /\ UNCHANGED <<listed, staging, fetched, output>>
    BY DEF Receiving!SetEnabled
  <1>2. /\ e \in Entries /\ \A d \in Delivery : entry[d] = "dismissed" => e[d] = "dismissed"
        /\ \A d \in Delivery : e[d] \in {Missing, "dismissed"} <=> entry[d] \in {Missing, "dismissed"}
        /\ \A d \in Delivery : entry[d] # Missing => e[d] # Missing
        /\ \A d \in Delivery : e[d] = "staged-locked" => entry[d] = "staged-locked"
    BY InboxTypes, InboxFacts DEF Entries, Receiving!EntryState
  <1> HIDE DEF e
  <1>3. EntriesSound(e, fetched)
    BY <1>2, InboxTypes, EntriesChange
  <1> QED
    BY <1>1, <1>2, <1>3, InboxTypes, InboxMoves, SweepIdle

\* A sweep begins with the saved entries.
LEMMA InboxSweeps ==
  ASSUME InboxInv, Receiving!StartSweep
  PROVE  InboxKept
  <1> DEFINE seen == {d \in Delivery : listed[d] # "no"}
             x == [pc |-> "list", todo |-> seen, seen |-> seen, at |-> Missing, entry |-> entry]
  <1>1. sweep' = x /\ UNCHANGED <<listed, enabled, entry, staging, fetched, output>>
    BY DEF Receiving!StartSweep
  <1>2. x \in Sweeps /\ x.pc = "list" /\ x.entry = entry
    BY InboxTypes DEF Sweeps
  <1> HIDE DEF x
  <1>3. SweepSound(x, entry, fetched) /\ RequestSound(x, staging, fetched)
    BY <1>2, InboxTypes, SweepIdle DEF SweepSound, RequestSound
  <1> QED
    BY <1>1, <1>2, <1>3, InboxTypes, InboxMoves

\* A delivery that is skipped keeps its entry, or has it paused.
LEMMA InboxSkips ==
  ASSUME InboxInv, NEW d \in Delivery, Receiving!Skip(d)
  PROVE  InboxKept
  <1> DEFINE v == IF listed[d] # "auto" /\ sweep.entry[d] # Missing /\ ~Receiving!Finished(sweep.entry[d])
                  THEN "paused-policy" ELSE sweep.entry[d]
             e == [sweep.entry EXCEPT ![d] = v]
             x == [sweep EXCEPT !.todo = sweep.todo \ {d}, !.entry = e]
  <1>1. sweep.pc = "list" /\ sweep' = x /\ UNCHANGED <<listed, enabled, entry, staging, fetched, output>>
    BY DEF Receiving!Skip
  <1>2. sweep.entry \in Entries /\ EntriesSound(sweep.entry, fetched)
    BY <1>1, InboxTypes DEF SweepSound, EntriesSound
  <1>3. /\ e \in Entries /\ \A k \in Delivery : sweep.entry[k] = "dismissed" => e[k] = "dismissed"
        /\ \A k \in Delivery : e[k] \in {Missing, "dismissed"} <=> sweep.entry[k] \in {Missing, "dismissed"}
        /\ \A k \in Delivery : sweep.entry[k] # Missing => e[k] # Missing
        /\ \A k \in Delivery : e[k] = "staged-locked" => sweep.entry[k] = "staged-locked"
    BY <1>2, InboxFacts DEF Entries, Receiving!EntryState, Receiving!Finished
  <1> HIDE DEF e
  <1>4. x \in Sweeps /\ x.pc = "list" /\ x.entry = e
    BY <1>1, <1>3, InboxTypes DEF Sweeps
  <1> HIDE DEF x
  <1>5. EntriesSound(e, fetched)
    BY <1>2, <1>3, EntriesChange
  <1>6. SweepSound(x, entry, fetched) /\ RequestSound(x, staging, fetched)
    BY <1>1, <1>3, <1>4, <1>5, InboxTypes, SweepIdle DEF SweepSound, RequestSound
  <1> QED
    BY <1>1, <1>4, <1>6, InboxTypes, InboxMoves

\* The staging record is saved before the entry; what does not fit is refused.
LEMMA InboxPrepares ==
  ASSUME InboxInv, NEW d \in Delivery, Receiving!Prepare(d)
  PROVE  InboxKept
  <1> DEFINE x == [sweep EXCEPT !.pc = "associate", !.at = d, !.todo = sweep.todo \ {d}]
             g == [staging EXCEPT ![d] = IF staging[d] = Missing THEN 0 ELSE staging[d]]
  <1>1. /\ sweep.pc = "list" /\ sweep' = x /\ staging' = g /\ UNCHANGED <<listed, enabled, entry, fetched, output>>
        /\ ~Receiving!Finished(sweep.entry[d])
        /\ sweep.entry[d] = Missing => Total(Counted(sweep.entry)) + Bytes[d] <= CacheLimit
    BY UsedIsTotal DEF Receiving!Prepare
  <1>2. sweep.entry[d] \notin {"staged-locked", "dismissed"}
    BY <1>1 DEF Receiving!Finished
  <1>3. x \in Sweeps /\ x.pc = "associate" /\ x.at = d /\ x.entry = sweep.entry
    BY <1>1, InboxTypes DEF Sweeps
  <1>4. g \in [Delivery -> 0..(Last + 1) \cup {Missing}] /\ RecordsSound(g, fetched)
    <2>1. 0 \in 0..(Last + 1) /\ 0 # Last + 1
      BY InboxFacts
    <2> QED
      BY <2>1, InboxTypes DEF RecordsSound
  <1> HIDE DEF x, g
  <1>5. SweepSound(x, entry, fetched) /\ RequestSound(x, g, fetched)
    BY <1>1, <1>2, <1>3, InboxTypes, SweepIdle DEF SweepSound, RequestSound
  <1> QED
    BY <1>1, <1>3, <1>4, <1>5, InboxTypes, InboxMoves

\* The entry is saved before the first chunk is fetched, and there is room for it.
LEMMA InboxAssociates ==
  ASSUME InboxInv, Receiving!Associate
  PROVE  InboxKept
  <1> DEFINE d == sweep.at
             e == IF sweep.entry[d] = Missing THEN [sweep.entry EXCEPT ![d] = "downloading"] ELSE sweep.entry
             x == [sweep EXCEPT !.pc = "fetch", !.entry = e]
  <1>1. sweep.pc = "associate" /\ sweep' = x /\ entry' = e /\ UNCHANGED <<listed, enabled, staging, fetched, output>>
    BY DEF Receiving!Associate
  <1>2. /\ sweep.entry \in Entries /\ EntriesSound(sweep.entry, fetched) /\ d \in Delivery
        /\ sweep.entry[d] \notin {"staged-locked", "dismissed"}
        /\ \A k \in Delivery : entry[k] = "dismissed" => sweep.entry[k] = "dismissed"
        /\ sweep.entry[d] = Missing => Total(Counted(sweep.entry)) + Bytes[d] <= CacheLimit
    BY <1>1, InboxTypes DEF SweepSound, EntriesSound
  <1> HIDE DEF d
  <1>3. /\ e \in Entries /\ e[d] \notin {Missing, "staged-locked", "dismissed"}
        /\ \A k \in Delivery : k # d => e[k] = sweep.entry[k]
    BY <1>2, InboxFacts DEF Entries, Receiving!EntryState
  <1>4. Total(Counted(e)) <= CacheLimit
    BY <1>2, EntryAdded DEF EntriesSound
  <1> HIDE DEF e
  <1>5. x \in Sweeps /\ x.pc = "fetch" /\ x.entry = e /\ x.at = d
    BY <1>1, <1>3, InboxTypes DEF Sweeps, d
  <1> HIDE DEF x
  <1>6. EntriesSound(e, fetched) /\ \A k \in Delivery : entry[k] = "dismissed" => e[k] = "dismissed"
    BY <1>2, <1>3, <1>4 DEF EntriesSound
  <1>7. SweepSound(x, e, fetched) /\ RequestSound(x, staging, fetched)
    BY <1>2, <1>3, <1>5, <1>6, SweepIdle DEF SweepSound, RequestSound
  <1> QED
    BY <1>1, <1>5, <1>6, <1>7, InboxTypes, InboxMoves

\* A staging record points at the first chunk that is missing, or past the last.
LEMMA RecordPoints ==
  ASSUME NEW d, NEW files
  PROVE  /\ Receiving!Reconcile(d, files) \in 0..(Last + 1)
         /\ Receiving!Reconcile(d, files) = Last + 1 <=> \A c \in Receiving!Chunk : files[c] \in Receiving!Stored
         /\ Receiving!Reconcile(d, files) # Last + 1 =>
              Receiving!Reconcile(d, files) \in Receiving!Chunk /\ files[Receiving!Reconcile(d, files)] \notin Receiving!Stored
  <1>1. Receiving!Chunk = 0..Last /\ Last \in Nat
    BY InboxFacts DEF Receiving!Chunk
  <1>2. CASE \A c \in Receiving!Chunk : files[c] \in Receiving!Stored
    BY <1>1, <1>2 DEF Receiving!Reconcile
  <1>3. CASE ~\A c \in Receiving!Chunk : files[c] \in Receiving!Stored
    <2> DEFINE S == {c \in Receiving!Chunk : files[c] \notin Receiving!Stored}
    <2>1. S \in SUBSET Receiving!Chunk /\ S # {}
      BY <1>3
    <2>2. Receiving!Reconcile(d, files) = Receiving!Min(S)
      BY <1>3 DEF Receiving!Reconcile
    <2>3. ASSUME NEW m \in S PROVE m \in 0..Last /\ m \in Receiving!Chunk /\ files[m] \notin Receiving!Stored
      BY <1>1
    <2> HIDE DEF S
    <2>4. Receiving!Min(S) \in S
      BY <1>1, <2>1, FirstChunk
    <2> QED
      BY <1>1, <1>3, <2>2, <2>3, <2>4
  <1> QED
    BY <1>2, <1>3

\* What a sweep that fetches knows.
LEMMA InboxFetching ==
  ASSUME InboxInv, sweep.pc \in {"fetch", "request", "stored"}
  PROVE  /\ sweep.entry \in Entries /\ EntriesSound(sweep.entry, fetched) /\ sweep.at \in Delivery
         /\ sweep.entry[sweep.at] \notin {Missing, "staged-locked", "dismissed"} /\ entry[sweep.at] \notin {Missing, "dismissed"}
         /\ \A k \in Delivery : entry[k] = "dismissed" => sweep.entry[k] = "dismissed"
  BY InboxTypes DEF SweepSound, EntriesSound

\* The place of a sweep that fetches.
LEMMA InboxPlace ==
  ASSUME InboxInv, sweep.pc \in {"fetch", "request", "stored"}, NEW pc \in {"fetch", "request", "stored"}
  PROVE  LET x == [sweep EXCEPT !.pc = pc]
         IN x \in Sweeps /\ x.pc = pc /\ x.at = sweep.at /\ x.entry = sweep.entry /\ SweepSound(x, entry, fetched)
  <1> DEFINE x == [sweep EXCEPT !.pc = pc]
  <1>1. x \in Sweeps /\ x.pc = pc /\ x.at = sweep.at /\ x.entry = sweep.entry
    BY InboxTypes DEF Sweeps
  <1> HIDE DEF x
  <1>2. SweepSound(x, entry, fetched)
    BY <1>1, InboxFetching, SweepIdle DEF SweepSound
  <1> QED
    BY <1>1, <1>2 DEF x

\* The record is brought up to what is on the disk.
LEMMA InboxRecords ==
  ASSUME InboxInv, Receiving!Pending \/ Receiving!SaveStaging
  PROVE  InboxKept
  <1> DEFINE d == sweep.at
             n == Receiving!Reconcile(d, fetched[d])
             g == [staging EXCEPT ![d] = n]
  <1>1. /\ sweep.pc \in {"fetch", "stored"} /\ staging' = g /\ UNCHANGED <<listed, enabled, entry, fetched, output>>
        /\ \E pc \in {"fetch", "request"} : sweep' = [sweep EXCEPT !.pc = pc] /\ (pc = "request" => n # Last + 1)
    <2>1. CASE Receiving!Pending
      <3>1. sweep.pc = "fetch" => sweep = [sweep EXCEPT !.pc = "fetch"]
        BY InboxTypes DEF Sweeps
      <3> QED
        BY <2>1, <3>1 DEF Receiving!Pending
    <2>2. CASE Receiving!SaveStaging
      BY <2>2 DEF Receiving!SaveStaging
    <2> QED
      BY <2>1, <2>2
  <1>2. PICK pc \in {"fetch", "request"} : sweep' = [sweep EXCEPT !.pc = pc] /\ (pc = "request" => n # Last + 1)
    BY <1>1
  <1>3. d \in Delivery
    BY <1>1, InboxFetching
  <1>4. /\ n \in 0..(Last + 1) /\ (n = Last + 1 => Whole(fetched, d))
        /\ n # Last + 1 => n \in Receiving!Chunk /\ fetched[d][n] \notin Receiving!Stored
    BY RecordPoints DEF Whole
  <1>5. staging \in [Delivery -> 0..(Last + 1) \cup {Missing}]
    BY InboxTypes
  <1> DEFINE x == [sweep EXCEPT !.pc = pc]
  <1>6. x \in Sweeps /\ x.pc = pc /\ x.at = d /\ SweepSound(x, entry, fetched) /\ sweep' = x
    BY <1>1, <1>2, InboxPlace
  <1> HIDE DEF d, n, x
  <1>7. g \in [Delivery -> 0..(Last + 1) \cup {Missing}] /\ g[d] = n /\ \A k \in Delivery : k # d => g[k] = staging[k]
    BY <1>3, <1>4, <1>5
  <1> HIDE DEF g
  <1>8. RecordsSound(g, fetched)
    BY <1>4, <1>7, InboxTypes DEF RecordsSound
  <1>9. RequestSound(x, g, fetched)
    BY <1>2, <1>4, <1>6, <1>7 DEF RequestSound
  <1> QED
    BY <1>1, <1>6, <1>7, <1>8, <1>9, InboxTypes, InboxMoves

\* A chunk is stored only for a delivery with an entry, and nothing is lost by it.
LEMMA InboxFetches ==
  ASSUME InboxInv, NEW c \in Receiving!Chunk, Receiving!StoreChunk(c)
  PROVE  InboxKept
  <1>1. PICK got \in Receiving!Stored : fetched' = [fetched EXCEPT ![sweep.at][c] = got]
    BY DEF Receiving!StoreChunk
  <1> DEFINE d == sweep.at
             f == [fetched EXCEPT ![d][c] = got]
             x == [sweep EXCEPT !.pc = "stored"]
  <1>2. sweep.pc = "request" /\ fetched' = f /\ sweep' = x /\ UNCHANGED <<listed, enabled, entry, staging, output>>
    BY <1>1 DEF Receiving!StoreChunk
  <1>3. /\ sweep.entry \in Entries /\ EntriesSound(sweep.entry, fetched) /\ d \in Delivery
        /\ sweep.entry[d] \notin {Missing, "staged-locked", "dismissed"} /\ entry[d] \notin {Missing, "dismissed"}
    BY <1>2, InboxFetching
  <1>4. x \in Sweeps /\ x.pc = "stored" /\ x.at = d /\ x.entry = sweep.entry /\ SweepSound(x, entry, fetched)
    BY <1>2, InboxPlace
  <1> HIDE DEF d, x
  <1>5. /\ f \in InboxFiles /\ \A k \in Delivery : k # d => f[k] = fetched[k]
        /\ \A k \in Delivery, b \in Receiving!Chunk : fetched[k][b] \in Receiving!Stored => f[k][b] \in Receiving!Stored
    BY <1>3, InboxTypes DEF InboxFiles, Receiving!Stored
  <1> HIDE DEF f
  <1>6. \A k \in Delivery : Whole(fetched, k) => Whole(f, k)
    BY <1>5 DEF Whole
  <1>7. RecordsSound(staging, f) /\ RequestSound(x, staging, f)
    BY <1>4, <1>6, InboxTypes DEF RecordsSound, RequestSound
  <1>8. ASSUME NEW e, EntriesSound(e, fetched), e[d] # Missing
        PROVE  EntriesSound(e, f)
    <2>1. \A k \in Delivery : k # d => (Present(f, k) <=> Present(fetched, k))
      BY <1>5 DEF Present
    <2> QED
      BY <1>6, <1>8, <2>1 DEF EntriesSound
  <1>9. EntriesSound(entry, f) /\ EntriesSound(sweep.entry, f)
    BY <1>3, <1>8, InboxTypes
  <1>10. SweepSound(x, entry, f)
    BY <1>4, <1>9, InboxTypes DEF SweepSound
  <1> QED
    BY <1>2, <1>3, <1>4, <1>5, <1>7, <1>9, <1>10, InboxTypes, InboxMoves

\* A delivery is announced when its staging record is past the last chunk.
LEMMA InboxFetched ==
  ASSUME InboxInv, Receiving!FetchEnds
  PROVE  InboxKept
  <1> DEFINE d == sweep.at
             done == staging[d] = Last + 1
             e == [sweep.entry EXCEPT ![d] = IF done THEN "staged-locked" ELSE "downloading"]
             y == [sweep EXCEPT !.pc = "list", !.at = Missing, !.entry = e]
  <1>1. /\ sweep.pc \in {"fetch", "request", "stored"} /\ sweep' = (IF done THEN y ELSE Receiving!NoSweep) /\ entry' = e
        /\ UNCHANGED <<listed, enabled, staging, fetched, output>>
    BY DEF Receiving!FetchEnds
  <1>2. /\ sweep.entry \in Entries /\ EntriesSound(sweep.entry, fetched) /\ d \in Delivery
        /\ sweep.entry[d] \notin {Missing, "staged-locked", "dismissed"}
        /\ \A k \in Delivery : entry[k] = "dismissed" => sweep.entry[k] = "dismissed"
    BY <1>1, InboxTypes DEF SweepSound, EntriesSound
  <1>3. done => Whole(fetched, d)
    BY <1>2, InboxTypes DEF RecordsSound
  <1> HIDE DEF d, done
  <1>4. /\ e \in Entries /\ e[d] \notin {Missing, "dismissed"} /\ (e[d] = "staged-locked" => done)
        /\ \A k \in Delivery : k # d => e[k] = sweep.entry[k]
    BY <1>2, InboxFacts DEF Entries, Receiving!EntryState
  <1> HIDE DEF e
  <1>5. EntriesSound(e, fetched) /\ \A k \in Delivery : entry[k] = "dismissed" => e[k] = "dismissed"
    BY <1>2, <1>3, <1>4, EntriesChange
  <1>6. y \in Sweeps /\ y.pc = "list" /\ y.entry = e
    BY <1>4, InboxTypes DEF Sweeps
  <1> HIDE DEF y
  <1>7. SweepSound(y, e, fetched) /\ RequestSound(y, staging, fetched)
    BY <1>5, <1>6, SweepIdle DEF SweepSound, RequestSound
  <1>8. PICK x \in Sweeps : sweep' = x /\ SweepSound(x, e, fetched) /\ RequestSound(x, staging, fetched)
    BY <1>1, <1>6, <1>7, SweepIdle
  <1> QED
    BY <1>1, <1>5, <1>8, InboxTypes, InboxMoves

\* The end of a sweep saves its entries, and what was not listed is unavailable.
LEMMA InboxEnds ==
  ASSUME InboxInv, Receiving!EndSweep
  PROVE  InboxKept
  <1> DEFINE e == [d \in Delivery |->
                     IF sweep.entry[d] # Missing /\ d \notin sweep.seen /\ ~Receiving!Finished(sweep.entry[d])
                     THEN "unavailable" ELSE sweep.entry[d]]
  <1>1. sweep.pc = "list" /\ sweep' = Receiving!NoSweep /\ entry' = e /\ UNCHANGED <<listed, enabled, staging, fetched, output>>
    BY DEF Receiving!EndSweep
  <1>2. /\ sweep.entry \in Entries /\ EntriesSound(sweep.entry, fetched)
        /\ \A k \in Delivery : entry[k] = "dismissed" => sweep.entry[k] = "dismissed"
    BY <1>1, InboxTypes DEF SweepSound, EntriesSound
  <1>3. /\ e \in Entries /\ \A k \in Delivery : sweep.entry[k] = "dismissed" => e[k] = "dismissed"
        /\ \A k \in Delivery : e[k] \in {Missing, "dismissed"} <=> sweep.entry[k] \in {Missing, "dismissed"}
        /\ \A k \in Delivery : sweep.entry[k] # Missing => e[k] # Missing
        /\ \A k \in Delivery : e[k] = "staged-locked" => sweep.entry[k] = "staged-locked"
    BY <1>2, InboxFacts DEF Entries, Receiving!EntryState, Receiving!Finished
  <1> HIDE DEF e
  <1>4. EntriesSound(e, fetched) /\ \A k \in Delivery : entry[k] = "dismissed" => e[k] = "dismissed"
    BY <1>2, <1>3, EntriesChange
  <1> QED
    BY <1>1, <1>4, InboxTypes, InboxMoves, SweepIdle

\* The entry is dismissed first; the files go with it or stay, and stay accounted for.
LEMMA InboxDismisses ==
  ASSUME InboxInv, NEW d \in Delivery, Receiving!Dismiss(d)
  PROVE  InboxKept
  <1> DEFINE e == [entry EXCEPT ![d] = "dismissed"]
             g == [staging EXCEPT ![d] = Missing]
             f == [fetched EXCEPT ![d] = [c \in Receiving!Chunk |-> "none"]]
  <1>1. /\ sweep' = Receiving!NoSweep /\ entry' = e /\ UNCHANGED <<listed, enabled, output>> /\ entry[d] # Missing
        /\ ((fetched' = fetched /\ staging' = staging) \/ (fetched' = f /\ staging' = g))
    BY DEF Receiving!Dismiss
  <1>2. e \in Entries /\ e[d] = "dismissed" /\ \A k \in Delivery : k # d => e[k] = entry[k]
    BY InboxTypes DEF Entries, Receiving!EntryState
  <1>3. Total(Counted(e)) <= CacheLimit
    <2>1. Total(Counted(e)) <= Total(Counted(entry))
      BY InboxTypes, EntryDropped
    <2>2. Counted(e) \in SUBSET Delivery /\ Counted(entry) \in SUBSET Delivery
      BY DEF Counted
    <2>3. Total(Counted(e)) \in Nat /\ Total(Counted(entry)) \in Nat /\ Total(Counted(entry)) <= CacheLimit
      BY <2>2, TotalType, InboxTypes DEF EntriesSound
    <2> HIDE DEF e
    <2> QED
      BY <2>1, <2>3, InboxFacts
  <1> HIDE DEF e
  <1>4. Missing # "dismissed"
    BY InboxFacts DEF Receiving!EntryState
  <1>5. EntriesSound(e, fetched)
    BY <1>2, <1>3, <1>4, InboxTypes DEF EntriesSound
  <1>6. CASE fetched' = fetched /\ staging' = staging
    BY <1>1, <1>2, <1>5, <1>6, InboxTypes, InboxMoves, SweepIdle
  <1>7. CASE fetched' = f /\ staging' = g
    <2>1. f \in InboxFiles /\ f[d] = [c \in Receiving!Chunk |-> "none"] /\ \A k \in Delivery : k # d => f[k] = fetched[k]
      BY InboxTypes DEF InboxFiles
    <2>2. g \in [Delivery -> 0..(Last + 1) \cup {Missing}] /\ g[d] = Missing /\ \A k \in Delivery : k # d => g[k] = staging[k]
      BY InboxTypes
    <2> HIDE DEF f, g
    <2>3. ~Present(f, d) /\ \A k \in Delivery : k # d => (Present(f, k) <=> Present(fetched, k)) /\ (Whole(f, k) <=> Whole(fetched, k))
      BY <2>1 DEF Present, Whole, Receiving!Stored
    <2>4. EntriesSound(e, f)
      BY <1>2, <1>5, <2>3 DEF EntriesSound
    <2>5. RecordsSound(g, f)
      BY <2>2, <2>3, InboxTypes, InboxFacts DEF RecordsSound
    <2>6. \A k \in Delivery : entry[k] = "dismissed" => e[k] = "dismissed" /\ \A c \in Receiving!Chunk : f[k][c] \in {"none", fetched[k][c]}
      BY <1>2, <2>1
    <2> QED
      BY <1>1, <1>7, <2>1, <2>2, <2>4, <2>5, <2>6, InboxTypes, InboxMoves, SweepIdle
  <1> QED
    BY <1>1, <1>6, <1>7

\* Every step of the receiver keeps its invariant and dismisses for good.
LEMMA InboxNext ==
  ASSUME InboxInv, [Receiving!Next]_inboxVars
  PROVE  InboxKept
  BY InboxSurroundings, InboxEnables, InboxSweeps, InboxSkips, InboxPrepares, InboxAssociates, InboxRecords, InboxFetches, InboxFetched, InboxEnds,
     InboxDismisses DEF Receiving!Next

\* inbox_receiver.rs and inbox_staging.rs: for any deliveries, sizes and limit,
\* whenever the process dies, every ciphertext on disk belongs to a saved entry,
\* what the entries count for stays within the limit, a chunk on disk is not requested
\* again, what is announced as staged is complete, and what was dismissed is never
\* downloaded again.
THEOREM InboxAlwaysAccounted == Receiving!Spec => InboxAccounted
  <1>1. Receiving!Init => InboxInv
    <2> SUFFICES ASSUME Receiving!Init PROVE InboxInv
      OBVIOUS
    <2>1. Receiving!TypeOK
      BY SweepIdle DEF Receiving!Init, Receiving!TypeOK, Receiving!NoSweep
    <2>2. Counted(entry) = {} /\ Total({}) = 0
      BY FS_EmptySet, TotalStep DEF Receiving!Init, Counted
    <2>3. EntriesSound(entry, fetched)
      BY <2>2, InboxFacts DEF Receiving!Init, EntriesSound, Entries, Present, Receiving!Stored, Receiving!EntryState
    <2>4. RecordsSound(staging, fetched)
      BY InboxFacts DEF Receiving!Init, RecordsSound
    <2> QED
      BY <2>1, <2>3, <2>4, SweepIdle DEF Receiving!Init, InboxInv
  <1>2. InboxInv /\ [Receiving!Next]_inboxVars => InboxInv' /\ [Receiving!DismissedStaysStep]_inboxVars
    BY InboxNext DEF InboxKept
  <1>3. InboxInv => Receiving!TypeOK /\ Receiving!CiphertextAccounted /\ Receiving!StagedComplete
    BY UsedIsTotal DEF InboxInv, EntriesSound, Present, Whole, Receiving!CiphertextAccounted, Receiving!StagedComplete
  <1>4. InboxInv => Receiving!RequestedOnce
    BY DEF InboxInv, RequestSound, Receiving!RequestedOnce
  <1> QED
    BY <1>1, <1>2, <1>3, <1>4, PTL DEF Receiving!Spec, InboxAccounted, inboxVars, Receiving!vars

-----------------------------------------------------------------------------
(* A live share, its sender and a receiver.                                *)

\* The transfer, the saved job, the two processes, and the messages between them.
Shares == [status : {"pending", "live", "ended"}, manifest : Sharing!Epoch \cup {Missing}, pulse : BOOLEAN,
           claim : Sid \cup {Missing}, burn : BOOLEAN]
Spools == [state : {"preparing", "sending", "serving", "ended"}, durable : SUBSET Piece, manifest : Sharing!Epoch \cup {Missing}]
Peers == [at : {"none", "answering", "waiting", "serving"}, pending : Nat \cup {Missing}]
Senders == [up : BOOLEAN, epoch : Sharing!Epoch, answered : SUBSET Sid, peer : [Sid -> Peers]]
Receivers == [pc : {"idle", "registering", "registered", "polling", "connecting", "connected", "requesting"},
              sid : Sid \cup {Missing}, want : Piece \cup {Missing}, announced : BOOLEAN, bytes : Seq(Piece \X Nat),
              seq : 0..MaxSeq, answer : Sharing!Epoch \cup {Missing}, have : [Piece -> Seq(Piece \X Nat)], used : SUBSET Sid]
Ups == [kind : {"request"}, seq : Nat, chunk : Piece] \cup [kind : {"ack"}, seq : Nat]
Downs == [kind : {"chunk"}, seq : Nat, chunk : Piece] \cup [kind : {"frame"}, seq : Nat, of : Piece, offset : Nat]
Channels == [open : BOOLEAN, up : Seq(Ups), down : Seq(Downs)]

LiveTyped ==
  /\ share \in Shares /\ seats \in [Sid -> Seats \cup {Missing}] /\ sender \in Senders
  /\ spool \in Spools /\ recv \in Receivers /\ wire \in [Sid -> Channels]

\* What is published was prepared, and its envelope is saved.
SpoolSound ==
  /\ spool.state # "preparing" \/ share.status # "pending" => spool.durable = Piece
  /\ share.status = "live" => spool.durable = Piece /\ spool.manifest = share.manifest /\ share.manifest # Missing

\* The identifier of a session is used once, and is cached by the receiver that has it.
SeatsSound ==
  /\ \A x \in Sid : x \notin recv.used => seats[x] = Missing
  /\ recv.pc # "idle" => recv.sid \in recv.used
  /\ recv.pc = "registering" => seats[recv.sid] = Missing

\* A burn-on-read note has one session: the one that claimed it.
ClaimSound ==
  share.burn =>
    /\ \A x \in Sid : wire[x].open \/ seats[x] # Missing => x = share.claim
    /\ recv.pc # "idle" => recv.sid = share.claim

\* No message of w says that a chunk is asked for, up to place n.
NoRequest(w, n) == \A k \in 1..n : w.up[k].kind # "request"

Request(r) == [kind |-> "request", seq |-> r.seq - 1, chunk |-> r.want]
Frame(r, i) == [kind |-> "frame", seq |-> r.seq - 1, of |-> r.want, offset |-> i]

\* The request is under way to the sender.
AskedOn(r, w) ==
  /\ ~r.announced /\ w.down = <<>> /\ Len(w.up) # 0
  /\ w.up[Len(w.up)] = Request(r) /\ NoRequest(w, Len(w.up) - 1)

\* The answer is under way to the receiver: first what announces it, then the frames
\* the receiver does not have.
AnsweredOn(r, w) ==
  /\ NoRequest(w, Len(w.up))
  /\ r.announced => /\ Len(w.down) = Frames - Len(r.bytes)
                    /\ \A i \in 1..Len(w.down) : w.down[i] = Frame(r, Len(r.bytes) + i)
  /\ ~r.announced => /\ Len(w.down) = Frames + 1 /\ w.down[1].kind = "chunk"
                     /\ \A i \in 2..Len(w.down) : w.down[i] = Frame(r, i - 1)

\* The channel w of receiver r carries at most one request and the answer to it.
ChannelSound(r, w) ==
  /\ r.pc = "connected" => w.down = <<>> /\ NoRequest(w, Len(w.up))
  /\ r.pc = "requesting" =>
       /\ r.want \in Piece /\ r.seq # 0 /\ Len(r.bytes) < Frames /\ (~r.announced => r.bytes = <<>>)
       /\ \A i \in 1..Len(r.bytes) : r.bytes[i] = <<r.want, i>>
       /\ AskedOn(r, w) \/ AnsweredOn(r, w)

WireSound == recv.pc \in {"connected", "requesting"} /\ wire[recv.sid].open => ChannelSound(recv, wire[recv.sid])

LiveInv == LiveTyped /\ SpoolSound /\ SeatsSound /\ ClaimSound /\ WireSound /\ Sharing!ReceivedExact

\* The session of a receiver that is not idle is one of them.
LEMMA SidForm ==
  ASSUME LiveInv, recv.pc # "idle"
  PROVE  recv.sid \in Sid /\ recv.sid # Missing
  BY NativeAssumption DEF SharingConstants, LiveInv, LiveTyped, SeatsSound, Receivers

\* A closed channel carries nothing.
LEMMA ClosedForm ==
  Sharing!Closed \in Channels /\ ~Sharing!Closed.open
  BY DEF Sharing!Closed, Channels

\* Closing channels leaves the others alone.
LEMMA CloseForm ==
  ASSUME LiveInv, NEW ss
  PROVE  /\ Sharing!CloseWire(ss) \in [Sid -> Channels]
         /\ \A x \in Sid : Sharing!CloseWire(ss)[x].open => x \notin ss /\ Sharing!CloseWire(ss)[x] = wire[x]
  <1>1. wire \in [Sid -> Channels]
    BY DEF LiveInv, LiveTyped
  <1>2. Sharing!CloseWire(ss) = [x \in Sid |-> IF x \in ss THEN Sharing!Closed ELSE wire[x]]
    BY DEF Sharing!CloseWire
  <1> QED
    BY <1>1, <1>2, ClosedForm

\* The sender without some of its peers.
LEMMA WithoutForm ==
  ASSUME LiveInv, NEW ps
  PROVE  Sharing!WithoutPeers(ps) \in Senders
  <1>1. sender \in Senders /\ Sharing!NoPeer \in Peers
    BY DEF LiveInv, LiveTyped, Sharing!NoPeer, Peers
  <1>2. [x \in Sid |-> IF x \in ps THEN Sharing!NoPeer ELSE sender.peer[x]] \in [Sid -> Peers]
    BY <1>1 DEF Senders
  <1> QED
    BY <1>1, <1>2 DEF Sharing!WithoutPeers, Senders

\* The receiver without its session.
LEMMA DisconnectedForm ==
  ASSUME LiveInv
  PROVE  /\ Sharing!Disconnected \in Receivers /\ Sharing!Disconnected.pc = "idle"
         /\ Sharing!Disconnected.used = recv.used /\ Sharing!Disconnected.have = recv.have
  <1>1. <<>> \in Seq(Piece \X Nat)
    OBVIOUS
  <1> QED
    BY <1>1 DEF LiveInv, LiveTyped, Receivers, Sharing!Disconnected

\* A step that leaves the receiver alone, caches no session and sends nothing.
LEMMA SideStep ==
  ASSUME LiveInv, share' \in Shares, seats' \in [Sid -> Seats \cup {Missing}], sender' \in Senders, spool' \in Spools,
         recv' = recv, wire' \in [Sid -> Channels], share'.burn = share.burn, share'.claim = share.claim, SpoolSound',
         \A x \in Sid : seats'[x] # Missing => seats[x] # Missing,
         \A x \in Sid : wire'[x].open => wire'[x] = wire[x]
  PROVE  LiveInv'
  <1>1. LiveTyped'
    BY DEF LiveInv, LiveTyped
  <1>2. SeatsSound'
    BY SidForm DEF LiveInv, SeatsSound
  <1>3. ClaimSound'
    BY DEF LiveInv, ClaimSound
  <1>4. WireSound'
    BY SidForm DEF LiveInv, WireSound, ChannelSound, AskedOn, AnsweredOn, NoRequest, Request, Frame
  <1>5. Sharing!ReceivedExact'
    BY DEF LiveInv, Sharing!ReceivedExact, Sharing!Whole
  <1> QED
    BY <1>1, <1>2, <1>3, <1>4, <1>5 DEF LiveInv

\* continue_job of a live transfer: chunks are durable before they are published, and one
\* envelope is saved before it is.
LEMMA SpoolMoves ==
  ASSUME LiveInv,
         \/ \E c \in Piece : Sharing!PrepareChunk(c)
         \/ Sharing!Prepared \/ Sharing!SaveManifest \/ Sharing!Publish \/ Sharing!EndLive
         \/ Sharing!PulseExpires \/ Sharing!SenderResumes
  PROVE  LiveInv'
  <1>1. UNCHANGED <<seats, recv, wire>>
    BY DEF Sharing!PrepareChunk, Sharing!Prepared, Sharing!SaveManifest, Sharing!Publish, Sharing!EndLive,
       Sharing!PulseExpires, Sharing!SenderResumes
  <1>2. share \in Shares /\ sender \in Senders /\ spool \in Spools /\ SpoolSound /\ Missing \notin Sharing!Epoch
    BY NativeAssumption DEF SharingConstants, LiveInv, LiveTyped
  <1>3. share' \in Shares /\ share'.burn = share.burn /\ share'.claim = share.claim
    BY <1>2 DEF Shares, Spools, Sharing!PrepareChunk, Sharing!Prepared, Sharing!SaveManifest, Sharing!Publish, Sharing!EndLive,
       Sharing!PulseExpires, Sharing!SenderResumes
  <1>4. sender' \in Senders
    <2>1. CASE sender' = sender
      BY <1>2, <2>1
    <2>2. CASE Sharing!SenderResumes
      <3>1. sender.epoch + 1 \in Sharing!Epoch
        BY <1>2, <2>2, NativeAssumption DEF SharingConstants, Sharing!SenderResumes, Senders, Sharing!Epoch
      <3>2. sender' = [sender EXCEPT !.up = TRUE, !.epoch = sender.epoch + 1]
        BY <2>2 DEF Sharing!SenderResumes
      <3> QED
        BY <1>2, <3>1, <3>2 DEF Senders
    <2> QED
      BY <2>1, <2>2 DEF Sharing!PrepareChunk, Sharing!Prepared, Sharing!SaveManifest, Sharing!Publish, Sharing!EndLive, Sharing!PulseExpires
  <1>5. spool' \in Spools
    BY <1>2 DEF Spools, Senders, Sharing!PrepareChunk, Sharing!Prepared, Sharing!SaveManifest, Sharing!Publish, Sharing!EndLive,
       Sharing!PulseExpires, Sharing!SenderResumes
  <1>6. SpoolSound'
    <2>1. CASE \E c \in Piece : Sharing!PrepareChunk(c)
      BY <1>2, <2>1 DEF SpoolSound, Spools, Sharing!PrepareChunk
    <2>2. CASE Sharing!Prepared
      BY <1>2, <2>2 DEF SpoolSound, Spools, Sharing!Prepared
    <2>3. CASE Sharing!SaveManifest
      BY <1>2, <2>3 DEF SpoolSound, Spools, Sharing!SaveManifest
    <2>4. CASE Sharing!Publish
      BY <1>2, <2>4 DEF SpoolSound, Spools, Shares, Sharing!Publish
    <2>5. CASE Sharing!EndLive
      BY <1>2, <2>5 DEF SpoolSound, Spools, Shares, Sharing!EndLive
    <2>6. CASE Sharing!PulseExpires \/ Sharing!SenderResumes
      BY <1>2, <2>6 DEF SpoolSound, Shares, Sharing!PulseExpires, Sharing!SenderResumes
    <2> QED
      BY <2>1, <2>2, <2>3, <2>4, <2>5, <2>6
  <1> QED
    BY <1>1, <1>3, <1>4, <1>5, <1>6, SideStep DEF LiveInv, LiveTyped

\* serve_live and the end of a peer: channels close, sessions expire or are revoked, and an
\* answer is recorded.
LEMMA PeerMoves ==
  ASSUME LiveInv,
         \/ Sharing!Poll \/ Sharing!SenderStops \/ Sharing!RevokeSessions
         \/ \E x \in Sid : Sharing!Answer(x) \/ Sharing!SenderConnected(x) \/ Sharing!PeerEnds(x) \/ Sharing!SessionExpires(x)
  PROVE  LiveInv'
  <1>1. spool' = spool /\ recv' = recv
    BY DEF Sharing!Poll, Sharing!SenderStops, Sharing!RevokeSessions, Sharing!Answer, Sharing!SenderConnected,
       Sharing!PeerEnds, Sharing!SessionExpires
  <1>2. share \in Shares /\ sender \in Senders /\ seats \in [Sid -> Seats \cup {Missing}] /\ wire \in [Sid -> Channels]
    BY DEF LiveInv, LiveTyped
  <1>3. share' \in Shares /\ share'.burn = share.burn /\ share'.claim = share.claim /\ SpoolSound'
    <2>1. share' = share \/ \E pulse \in BOOLEAN : share' = [share EXCEPT !.pulse = pulse]
      BY DEF Sharing!Poll, Sharing!SenderStops, Sharing!RevokeSessions, Sharing!Answer, Sharing!SenderConnected,
         Sharing!PeerEnds, Sharing!SessionExpires
    <2>2. share' \in Shares /\ share'.burn = share.burn /\ share'.claim = share.claim /\ share'.status = share.status /\ share'.manifest = share.manifest
      BY <1>2, <2>1 DEF Shares
    <2> QED
      BY <1>1, <2>2 DEF LiveInv, SpoolSound
  <1>4. wire' \in [Sid -> Channels] /\ \A x \in Sid : wire'[x].open => wire'[x] = wire[x]
    <2>1. wire' = wire \/ \E ss : wire' = Sharing!CloseWire(ss)
      BY DEF Sharing!Poll, Sharing!SenderStops, Sharing!RevokeSessions, Sharing!Answer, Sharing!SenderConnected,
         Sharing!PeerEnds, Sharing!SessionExpires
    <2> QED
      BY <1>2, <2>1, CloseForm
  <1>5. seats' \in [Sid -> Seats \cup {Missing}] /\ \A x \in Sid : seats'[x] # Missing => seats[x] # Missing
    <2>1. CASE seats' = seats
      BY <1>2, <2>1
    <2>2. CASE Sharing!RevokeSessions
      BY <2>2 DEF Sharing!RevokeSessions
    <2>3. CASE \E x \in Sid : Sharing!SessionExpires(x)
      BY <1>2, <2>3 DEF Sharing!SessionExpires
    <2>4. ASSUME NEW x \in Sid, Sharing!Answer(x), seats' # seats
          PROVE  seats' \in [Sid -> Seats \cup {Missing}] /\ \A y \in Sid : seats'[y] # Missing => seats[y] # Missing
      <3>1. Sharing!Open(x) /\ seats' = [seats EXCEPT ![x].answer = sender.epoch]
        BY <2>4 DEF Sharing!Answer
      <3>2. seats[x] \in Seats
        BY <1>2, <3>1 DEF Sharing!Open
      <3>3. [seats[x] EXCEPT !.answer = sender.epoch] \in Seats
        BY <1>2, <3>2 DEF Seats, Senders
      <3>4. seats' = [seats EXCEPT ![x] = [seats[x] EXCEPT !.answer = sender.epoch]]
        BY <1>2, <3>1
      <3> QED
        BY <1>2, <3>1, <3>3, <3>4 DEF Sharing!Open
    <2> QED
      BY <2>1, <2>2, <2>3, <2>4 DEF Sharing!Poll, Sharing!SenderStops, Sharing!SenderConnected, Sharing!PeerEnds
  <1>6. sender' \in Senders
    <2>1. CASE sender' = sender \/ \E ps : sender' = Sharing!WithoutPeers(ps)
      BY <1>2, <2>1, WithoutForm
    <2>2. CASE Sharing!SenderStops
      <3>1. Sharing!WithoutPeers(Sid) \in Senders
        BY WithoutForm
      <3> QED
        BY <2>2, <3>1 DEF Sharing!SenderStops, Senders
    <2>3. ASSUME NEW x \in Sid, NEW at \in {"waiting", "serving"}, sender' = [sender EXCEPT !.peer[x].at = at] PROVE sender' \in Senders
      <3> DEFINE p == [sender.peer[x] EXCEPT !.at = at]
      <3>1. sender.peer \in [Sid -> Peers] /\ p \in Peers
        BY <1>2 DEF Senders, Peers
      <3>2. sender' = [sender EXCEPT !.peer = [sender.peer EXCEPT ![x] = p]]
        BY <2>3
      <3> HIDE DEF p
      <3> QED
        BY <1>2, <3>1, <3>2 DEF Senders
    <2>4. CASE Sharing!Poll
      <3> DEFINE stopped == {x \in Sharing!Busy : seats[x] # Missing /\ seats[x].status \in Sharing!Terminal}
                 still == {x \in sender.answered : Sharing!Open(x)}
                 wants == {x \in Sid : Sharing!Open(x) /\ seats[x].offer /\ x \notin Sharing!Busy \cup still}
      <3>0. still \in SUBSET Sid /\ wants \in SUBSET Sid
        BY <1>2 DEF Senders
      <3>1. PICK new \in SUBSET wants :
              sender' = [Sharing!WithoutPeers(stopped) EXCEPT
                           !.answered = still \cup new,
                           !.peer = [x \in Sid |-> IF x \in new THEN [Sharing!NoPeer EXCEPT !.at = "answering"] ELSE @[x]]]
        BY <2>4 DEF Sharing!Poll
      <3>9. new \in SUBSET Sid
        BY <3>0, <3>1
      <3> HIDE DEF stopped, still, wants
      <3> DEFINE w == Sharing!WithoutPeers(stopped)
                 n == [Sharing!NoPeer EXCEPT !.at = "answering"]
                 q == [x \in Sid |-> IF x \in new THEN n ELSE w.peer[x]]
      <3>2. w \in Senders
        BY WithoutForm
      <3>3. n \in Peers
        BY DEF Sharing!NoPeer, Peers
      <3>4. sender' = [w EXCEPT !.answered = still \cup new, !.peer = q]
        BY <3>1
      <3> HIDE DEF w, n
      <3>5. q \in [Sid -> Peers]
        BY <3>2, <3>3 DEF Senders
      <3> HIDE DEF q
      <3> QED
        BY <3>0, <3>9, <3>2, <3>4, <3>5 DEF Senders
    <2> QED
      BY <2>1, <2>2, <2>3, <2>4 DEF Sharing!RevokeSessions, Sharing!Answer, Sharing!SenderConnected,
         Sharing!PeerEnds, Sharing!SessionExpires
  <1> QED
    BY <1>1, <1>3, <1>4, <1>5, <1>6, SideStep DEF LiveInv, LiveTyped

\* What is left of a queue.
LEMMA TailForm ==
  ASSUME NEW S, NEW q \in Seq(S), q # <<>>
  PROVE  /\ Len(q) \in Nat \ {0} /\ Len(Tail(q)) = Len(q) - 1 /\ Tail(q) \in Seq(S)
         /\ \A k \in 1..Len(q) - 1 : Tail(q)[k] = q[k + 1]
         /\ Len(q) = 1 => Tail(q) = <<>>
  <1>1. Len(q) \in Nat \ {0} /\ Len(Tail(q)) = Len(q) - 1 /\ Tail(q) \in Seq(S)
        /\ \A k \in 1..Len(q) - 1 : Tail(q)[k] = q[k + 1]
    OBVIOUS
  <1>2. ASSUME Len(q) = 1 PROVE Tail(q) = <<>>
    <2>1. Len(Tail(q)) = 0
      BY <1>1, <1>2
    <2> QED
      BY <1>1, <2>1, EmptySeq
  <1> QED
    BY <1>1, <1>2

\* Cut announces the chunk and lists its frames in order.
LEMMA CutForm ==
  ASSUME NEW m \in [kind : {"request"}, seq : Nat, chunk : Piece]
  PROVE  /\ Sharing!Cut(m, m.chunk) \in Seq(Downs)
         /\ Len(Sharing!Cut(m, m.chunk)) = Frames + 1
         /\ Sharing!Cut(m, m.chunk)[1].kind = "chunk"
         /\ \A i \in 2..Frames + 1 :
              Sharing!Cut(m, m.chunk)[i] = [kind |-> "frame", seq |-> m.seq, of |-> m.chunk, offset |-> i - 1]
  <1> DEFINE head == [kind |-> "chunk", seq |-> m.seq, chunk |-> m.chunk]
             body == [i \in 1..Frames |-> [kind |-> "frame", seq |-> m.seq, of |-> m.chunk, offset |-> i]]
  <1>1. head \in Downs /\ head.kind = "chunk"
    BY DEF Downs
  <1>2. Frames \in Nat
    BY NativeAssumption DEF SharingConstants
  <1>3. \A i \in 1..Frames : [kind |-> "frame", seq |-> m.seq, of |-> m.chunk, offset |-> i] \in Downs
    BY DEF Downs
  <1>4. body \in [1..Frames -> Downs]
    BY <1>3
  <1>5. body \in Seq(Downs) /\ Len(body) = Frames
    BY <1>2, <1>4
  <1>6. \A i \in 2..Frames + 1 : body[i - 1] = [kind |-> "frame", seq |-> m.seq, of |-> m.chunk, offset |-> i - 1]
    BY <1>2
  <1>7. Sharing!Cut(m, m.chunk) = <<head>> \o body
    BY DEF Sharing!Cut
  <1> HIDE DEF head, body
  <1>8. <<head>> \in Seq(Downs) /\ Len(<<head>>) = 1 /\ <<head>>[1] = head
    BY <1>1
  <1>9. <<head>> \o body \in Seq(Downs) /\ Len(<<head>> \o body) = Frames + 1 /\ (<<head>> \o body)[1] = head
        /\ \A i \in 2..Frames + 1 : (<<head>> \o body)[i] = body[i - 1]
    BY <1>2, <1>5, <1>8
  <1> QED
    BY <1>1, <1>6, <1>7, <1>9

\* An acknowledgement that is taken from the channel changes nothing for the receiver.
LEMMA AckTaken ==
  ASSUME NEW r \in Receivers, NEW w \in Channels, NEW v \in Channels, ChannelSound(r, w),
         w.up # <<>>, Head(w.up).kind # "request", v.up = Tail(w.up), v.down = w.down
  PROVE  ChannelSound(r, v)
  <1>1. w.up \in Seq(Ups) /\ Len(w.up) \in Nat \ {0} /\ w.up[1].kind # "request"
    BY DEF Channels
  <1>2. Len(v.up) = Len(w.up) - 1 /\ \A k \in 1..Len(v.up) : v.up[k] = w.up[k + 1]
    BY <1>1
  <1>3. ASSUME NoRequest(w, Len(w.up)) PROVE NoRequest(v, Len(v.up))
    BY <1>1, <1>2, <1>3 DEF NoRequest
  <1>4. ASSUME AskedOn(r, w) PROVE AskedOn(r, v)
    <2>1. Len(w.up) # 1
      BY <1>1, <1>4 DEF AskedOn, Request
    <2>0. Len(v.up) \in 1..Len(v.up) /\ Len(v.up) + 1 = Len(w.up)
      <3>1. \A n \in Nat \ {0} : n # 1 => n - 1 \in 1..(n - 1) /\ n - 1 + 1 = n
        OBVIOUS
      <3> QED
        BY <1>1, <1>2, <2>1, <3>1
    <2>2. v.up[Len(v.up)] = Request(r)
      <3>1. v.up[Len(v.up)] = w.up[Len(v.up) + 1]
        BY <1>2, <2>0
      <3> QED
        BY <1>4, <2>0, <3>1 DEF AskedOn
    <2>3. NoRequest(v, Len(v.up) - 1)
      BY <1>1, <1>2, <1>4, <2>1 DEF AskedOn, NoRequest
    <2>4. Len(v.up) # 0
      BY <1>1, <1>2, <2>1
    <2> QED
      BY <1>4, <2>2, <2>3, <2>4 DEF AskedOn
  <1>5. ASSUME AnsweredOn(r, w) PROVE AnsweredOn(r, v)
    BY <1>3, <1>5 DEF AnsweredOn
  <1> QED
    BY <1>3, <1>4, <1>5 DEF ChannelSound

\* A request that is taken from the channel was the last one, and is answered.
LEMMA RequestTaken ==
  ASSUME NEW r \in Receivers, NEW w \in Channels, NEW v \in Channels, ChannelSound(r, w),
         r.pc \in {"connected", "requesting"}, w.up # <<>>, Head(w.up).kind = "request",
         v.up = Tail(w.up), v.down = w.down \o Sharing!Cut(Head(w.up), Head(w.up).chunk)
  PROVE  ChannelSound(r, v)
  <1>1. w.up \in Seq(Ups) /\ Len(w.up) \in Nat \ {0} /\ w.up[1] = Head(w.up)
    BY DEF Channels
  <1>2. ~NoRequest(w, Len(w.up))
    BY <1>1 DEF NoRequest
  <1>3. r.pc = "requesting" /\ AskedOn(r, w)
    BY <1>2 DEF ChannelSound, AnsweredOn
  <1>4. Len(w.up) = 1 /\ Head(w.up) = Request(r) /\ w.down = <<>>
    <2>1. w.up[Len(w.up)] = Request(r) /\ NoRequest(w, Len(w.up) - 1) /\ w.down = <<>>
      BY <1>3 DEF AskedOn
    <2>2. ~(1 \in 1..(Len(w.up) - 1))
      BY <1>1, <2>1 DEF NoRequest
    <2>3. Len(w.up) = 1
      <3>1. \A n \in Nat \ {0} : ~(1 \in 1..(n - 1)) => n = 1
        OBVIOUS
      <3> QED
        BY <1>1, <2>2, <3>1
    <2> QED
      BY <1>1, <2>1, <2>3
  <1> DEFINE cut == Sharing!Cut(Head(w.up), Head(w.up).chunk)
  <1>5. r.want \in Piece /\ r.seq \in Nat /\ r.seq # 0
    BY <1>3, NativeAssumption DEF SharingConstants, ChannelSound, Receivers
  <1>6. Head(w.up) \in [kind : {"request"}, seq : Nat, chunk : Piece] /\ Head(w.up).seq = r.seq - 1 /\ Head(w.up).chunk = r.want
    BY <1>4, <1>5 DEF Request
  <1>7. cut \in Seq(Downs) /\ Len(cut) = Frames + 1 /\ cut[1].kind = "chunk"
        /\ \A i \in 2..Frames + 1 : cut[i] = Frame(r, i - 1)
    BY <1>6, CutForm DEF Frame
  <1> HIDE DEF cut
  <1>8. v.down = cut /\ v.up = <<>>
    <2>1. v.down = <<>> \o cut
      BY <1>4 DEF cut
    <2>2. <<>> \o cut = cut
      BY <1>7
    <2>3. Tail(w.up) = <<>>
      BY <1>1, <1>4, TailForm
    <2> QED
      BY <2>1, <2>2, <2>3
  <1>9. AnsweredOn(r, v)
    BY <1>3, <1>7, <1>8 DEF AnsweredOn, NoRequest, AskedOn
  <1> QED
    BY <1>3, <1>9 DEF ChannelSound

\* A step that leaves everything but the sender and one channel alone.
LEMMA StreamStep ==
  ASSUME LiveInv, UNCHANGED <<share, seats, spool, recv>>, sender' \in Senders, NEW x \in Sid, NEW w \in Channels,
         wire[x].open, wire' = [wire EXCEPT ![x] = w],
         recv.pc \in {"connected", "requesting"} /\ recv.sid = x => ChannelSound(recv, w)
  PROVE  LiveInv'
  <1>1. wire \in [Sid -> Channels]
    BY DEF LiveInv, LiveTyped
  <1>2. wire' \in [Sid -> Channels] /\ wire'[x] = w /\ \A y \in Sid \ {x} : wire'[y] = wire[y]
    BY <1>1
  <1>3. LiveTyped'
    BY <1>2 DEF LiveInv, LiveTyped
  <1>4. SpoolSound' /\ SeatsSound' /\ Sharing!ReceivedExact'
    BY DEF LiveInv, SpoolSound, SeatsSound, Sharing!ReceivedExact, Sharing!Whole
  <1>5. ClaimSound'
    BY <1>2 DEF LiveInv, ClaimSound
  <1>6. WireSound'
    <2>1. SUFFICES ASSUME recv.pc \in {"connected", "requesting"}, wire'[recv.sid].open PROVE ChannelSound(recv, wire'[recv.sid])
      BY DEF WireSound, ChannelSound, AskedOn, AnsweredOn, NoRequest, Request, Frame
    <2>2. recv.sid \in Sid
      BY <2>1, SidForm
    <2>3. CASE recv.sid = x
      BY <1>2, <2>1, <2>3
    <2>4. CASE recv.sid # x
      BY <1>2, <2>1, <2>2, <2>4 DEF LiveInv, WireSound
    <2> QED
      BY <2>3, <2>4
  <1> QED
    BY <1>3, <1>4, <1>5, <1>6 DEF LiveInv

\* serve_artifacts: a request is answered with its chunk, an acknowledgement is taken, and
\* everything else ends the peer.
LEMMA ServeMoves ==
  ASSUME LiveInv, NEW x \in Sid, Sharing!ServeMessage(x)
  PROVE  LiveInv'
  <1> DEFINE m == Head(wire[x].up)
  <1>1. /\ share \in Shares /\ sender \in Senders /\ spool \in Spools /\ recv \in Receivers
        /\ seats \in [Sid -> Seats \cup {Missing}] /\ wire \in [Sid -> Channels] /\ wire[x] \in Channels
    BY DEF LiveInv, LiveTyped
  <1>2. UNCHANGED <<share, seats, spool, recv>> /\ wire[x].open /\ wire[x].up # <<>>
    BY DEF Sharing!ServeMessage
  <1>3. wire[x].up \in Seq(Ups) /\ wire[x].down \in Seq(Downs) /\ m \in Ups /\ Tail(wire[x].up) \in Seq(Ups)
    BY <1>1, <1>2 DEF Channels
  <1>4. recv.pc \in {"connected", "requesting"} /\ recv.sid = x => ChannelSound(recv, wire[x])
    BY <1>2 DEF LiveInv, WireSound
  <1>5. ASSUME NEW n \in Nat \cup {Missing}, sender' = [sender EXCEPT !.peer[x].pending = n] PROVE sender' \in Senders
    <2> DEFINE p == [sender.peer[x] EXCEPT !.pending = n]
    <2>1. sender.peer \in [Sid -> Peers] /\ p \in Peers
      BY <1>1 DEF Senders, Peers
    <2>2. sender' = [sender EXCEPT !.peer = [sender.peer EXCEPT ![x] = p]]
      BY <1>5
    <2> HIDE DEF p
    <2> QED
      BY <1>1, <2>1, <2>2 DEF Senders
  <1>6. CASE wire' = Sharing!CloseWire({x}) /\ sender' = Sharing!WithoutPeers({x})
    <2>1. sender' \in Senders /\ wire' \in [Sid -> Channels] /\ \A y \in Sid : wire'[y].open => wire'[y] = wire[y]
      BY <1>6, WithoutForm, CloseForm
    <2>2. SpoolSound'
      BY <1>2 DEF LiveInv, SpoolSound
    <2> QED
      BY <1>1, <1>2, <2>1, <2>2, SideStep
  <1>7. CASE m.kind = "ack" /\ Sharing!Send(x, <<>>) /\ sender' = [sender EXCEPT !.peer[x].pending = Missing]
    <2> DEFINE w == [wire[x] EXCEPT !.up = Tail(wire[x].up)]
    <2>1. wire[x].down \o <<>> = wire[x].down
      BY <1>3
    <2>2. wire' = [wire EXCEPT ![x] = w]
      BY <1>1, <1>7, <2>1 DEF Sharing!Send, Channels
    <2>3. w \in Channels /\ w.up = Tail(wire[x].up) /\ w.down = wire[x].down
      BY <1>1, <1>3 DEF Channels
    <2> HIDE DEF w
    <2>4. recv.pc \in {"connected", "requesting"} /\ recv.sid = x => ChannelSound(recv, w)
      BY <1>1, <1>2, <1>4, <1>7, <2>3, AckTaken
    <2>5. sender' \in Senders
      BY <1>5, <1>7
    <2> QED
      BY <1>2, <2>2, <2>3, <2>4, <2>5, StreamStep
  <1>8. CASE m.kind = "request" /\ Sharing!Send(x, Sharing!Cut(m, m.chunk)) /\ sender' = [sender EXCEPT !.peer[x].pending = m.seq]
    <2> DEFINE cut == Sharing!Cut(m, m.chunk)
               w == [wire[x] EXCEPT !.down = wire[x].down \o cut, !.up = Tail(wire[x].up)]
    <2>1. m \in [kind : {"request"}, seq : Nat, chunk : Piece]
      BY <1>3, <1>8 DEF Ups
    <2>2. cut \in Seq(Downs)
      BY <2>1, CutForm
    <2>3. wire' = [wire EXCEPT ![x] = w]
      BY <1>1, <1>8 DEF Sharing!Send, Channels
    <2> HIDE DEF cut
    <2>4. wire[x].down \o cut \in Seq(Downs)
      BY <1>3, <2>2
    <2>5. w \in Channels /\ w.up = Tail(wire[x].up) /\ w.down = wire[x].down \o cut
      BY <1>1, <1>3, <2>4 DEF Channels
    <2> HIDE DEF w
    <2>6. recv.pc \in {"connected", "requesting"} /\ recv.sid = x => ChannelSound(recv, w)
      BY <1>1, <1>2, <1>4, <1>8, <2>5, RequestTaken DEF cut
    <2>7. sender' \in Senders
      <3>1. m.seq \in Nat
        BY <2>1
      <3> QED
        BY <1>5, <1>8, <3>1
    <2> QED
      BY <1>2, <2>3, <2>5, <2>6, <2>7, StreamStep
  <1> QED
    <2>1. \/ m.kind = "request" /\ Sharing!Send(x, Sharing!Cut(m, m.chunk)) /\ sender' = [sender EXCEPT !.peer[x].pending = m.seq]
          \/ m.kind = "ack" /\ Sharing!Send(x, <<>>) /\ sender' = [sender EXCEPT !.peer[x].pending = Missing]
          \/ wire' = Sharing!CloseWire({x}) /\ sender' = Sharing!WithoutPeers({x})
      BY DEF Sharing!ServeMessage
    <2> QED
      BY <1>6, <1>7, <1>8, <2>1

\* The sessions with one of them changed.
LEMMA SeatForm ==
  ASSUME LiveInv, NEW x \in Sid, NEW q \in Seats
  PROVE  /\ [seats EXCEPT ![x] = q] \in [Sid -> Seats \cup {Missing}] /\ [seats EXCEPT ![x] = q][x] = q
         /\ \A y \in Sid \ {x} : [seats EXCEPT ![x] = q][y] = seats[y]
  BY DEF LiveInv, LiveTyped

\* A session whose status is reported is still a session, and no session is added.
LEMMA StatusForm ==
  ASSUME LiveInv, NEW x \in Sid, Sharing!Open(x), NEW s \in {"waiting", "active"} \cup Sharing!Terminal
  PROVE  /\ [seats EXCEPT ![x].status = s] \in [Sid -> Seats \cup {Missing}]
         /\ \A y \in Sid : [seats EXCEPT ![x].status = s][y] # Missing => seats[y] # Missing
  <1>1. seats \in [Sid -> Seats \cup {Missing}] /\ seats[x] \in Seats /\ seats[x] # Missing
    BY DEF LiveInv, LiveTyped, Sharing!Open
  <1>2. [seats[x] EXCEPT !.status = s] \in Seats
    BY <1>1 DEF Seats
  <1>3. [seats EXCEPT ![x].status = s] = [seats EXCEPT ![x] = [seats[x] EXCEPT !.status = s]]
    BY <1>1
  <1> QED
    BY <1>1, <1>2, <1>3

\* The receiver gives its session up: nothing is cached, and only its own channel changes.
LEMMA LeaveStep ==
  ASSUME LiveInv, recv.pc # "idle", recv' = Sharing!Disconnected, UNCHANGED <<share, sender, spool>>,
         seats' \in [Sid -> Seats \cup {Missing}], wire' \in [Sid -> Channels],
         \A x \in Sid : seats'[x] # Missing => seats[x] # Missing,
         \A x \in Sid : wire'[x].open => wire[x].open \/ x = recv.sid
  PROVE  LiveInv'
  <1>1. recv' \in Receivers /\ recv'.pc = "idle" /\ recv'.used = recv.used /\ recv'.have = recv.have
    BY DisconnectedForm
  <1>2. LiveTyped'
    BY <1>1 DEF LiveInv, LiveTyped
  <1>3. SpoolSound'
    BY DEF LiveInv, SpoolSound
  <1>4. SeatsSound'
    BY <1>1 DEF LiveInv, SeatsSound
  <1>5. ClaimSound'
    BY <1>1 DEF LiveInv, ClaimSound
  <1>6. WireSound'
    BY <1>1 DEF WireSound
  <1>7. Sharing!ReceivedExact'
    BY <1>1 DEF LiveInv, Sharing!ReceivedExact, Sharing!Whole
  <1> QED
    BY <1>2, <1>3, <1>4, <1>5, <1>6, <1>7 DEF LiveInv

\* A step of a receiver that keeps its session and what it has, and sends nothing.
LEMMA MoveStep ==
  ASSUME LiveInv, recv.pc # "idle", recv' \in Receivers, UNCHANGED <<share, sender, spool, wire>>,
         recv'.pc \in {"registered", "polling", "connecting"}, recv'.sid = recv.sid, recv'.used = recv.used, recv'.have = recv.have,
         seats' \in [Sid -> Seats \cup {Missing}], \A x \in Sid : seats'[x] # Missing => seats[x] # Missing \/ x = recv.sid
  PROVE  LiveInv'
  <1>1. recv.sid \in Sid /\ recv.sid \in recv.used
    BY SidForm DEF LiveInv, SeatsSound
  <1>2. LiveTyped'
    BY DEF LiveInv, LiveTyped
  <1>3. SpoolSound'
    BY DEF LiveInv, SpoolSound
  <1>4. SeatsSound'
    BY <1>1 DEF LiveInv, SeatsSound
  <1>5. ClaimSound'
    BY <1>1 DEF LiveInv, ClaimSound
  <1>6. WireSound'
    BY DEF WireSound
  <1>7. Sharing!ReceivedExact'
    BY DEF LiveInv, Sharing!ReceivedExact, Sharing!Whole
  <1> QED
    BY <1>2, <1>3, <1>4, <1>5, <1>6, <1>7 DEF LiveInv

\* Everything that ends a session of the receiver.
LEMMA LeaveMoves ==
  ASSUME LiveInv,
         \/ Sharing!CacheSession /\ recv' = Sharing!Disconnected /\ UNCHANGED seats
         \/ Sharing!ReceiverDies \/ Sharing!ConnectFails \/ Sharing!RequestFails \/ Sharing!Finish
  PROVE  LiveInv'
  <1>1. recv.pc # "idle" /\ recv' = Sharing!Disconnected /\ UNCHANGED <<share, sender, spool>>
    BY DEF Sharing!CacheSession, Sharing!ReceiverDies, Sharing!ConnectFails, Sharing!Abandon, Sharing!RequestFails, Sharing!Finish
  <1>2. recv.sid \in Sid /\ wire \in [Sid -> Channels] /\ seats \in [Sid -> Seats \cup {Missing}]
    BY <1>1, SidForm DEF LiveInv, LiveTyped
  <1>3. wire' = wire \/ wire' = Sharing!CloseWire({recv.sid})
    BY DEF Sharing!CacheSession, Sharing!ReceiverDies, Sharing!ConnectFails, Sharing!Abandon, Sharing!RequestFails, Sharing!Finish
  <1>4. wire' \in [Sid -> Channels] /\ \A x \in Sid : wire'[x].open => wire[x].open
    BY <1>2, <1>3, CloseForm
  <1>5. \/ seats' = seats
        \/ Sharing!Open(recv.sid) /\ \E s \in {"failed", "completed"} : seats' = [seats EXCEPT ![recv.sid].status = s]
    BY DEF Sharing!CacheSession, Sharing!ReceiverDies, Sharing!ConnectFails, Sharing!Abandon, Sharing!RequestFails, Sharing!Finish,
       Sharing!Publishable
  <1>6. seats' \in [Sid -> Seats \cup {Missing}] /\ \A x \in Sid : seats'[x] # Missing => seats[x] # Missing
    <2>1. CASE seats' = seats
      BY <1>2, <2>1
    <2>2. ASSUME NEW s \in {"failed", "completed"}, Sharing!Open(recv.sid), seats' = [seats EXCEPT ![recv.sid].status = s]
          PROVE  seats' \in [Sid -> Seats \cup {Missing}] /\ \A x \in Sid : seats'[x] # Missing => seats[x] # Missing
      <3>1. s \in {"waiting", "active"} \cup Sharing!Terminal
        BY DEF Sharing!Terminal
      <3> QED
        BY <1>2, <2>2, <3>1, StatusForm
    <2> QED
      BY <1>5, <2>1, <2>2
  <1> QED
    BY <1>1, <1>4, <1>6, LeaveStep

\* register(): a session with a fresh identifier, and the claim of a burn-on-read note.
LEMMA RegisterMoves ==
  ASSUME LiveInv, NEW x \in Sid, Sharing!Register(x)
  PROVE  LiveInv'
  <1>1. share \in Shares /\ recv \in Receivers /\ Missing \notin Sid
    BY NativeAssumption DEF SharingConstants, LiveInv, LiveTyped
  <1>2. UNCHANGED <<seats, sender, spool, wire>> /\ x \notin recv.used /\ (share.burn => share.claim = Missing)
    BY DEF Sharing!Register, Sharing!MayClaim
  <1>3. share' \in Shares /\ share'.burn = share.burn /\ share'.status = share.status /\ share'.manifest = share.manifest
        /\ (share.burn => share'.claim = x)
    BY <1>1 DEF Sharing!Register, Shares
  <1>4. recv' \in Receivers /\ recv'.pc = "registering" /\ recv'.sid = x /\ recv'.used = recv.used \cup {x} /\ recv'.have = recv.have
    BY <1>1 DEF Sharing!Register, Receivers
  <1>5. seats[x] = Missing
    BY <1>2 DEF LiveInv, SeatsSound
  <1>6. ClaimSound'
    BY <1>1, <1>2, <1>3, <1>4 DEF LiveInv, ClaimSound
  <1>7. LiveTyped' /\ SpoolSound'
    BY <1>2, <1>3, <1>4 DEF LiveInv, LiveTyped, SpoolSound
  <1>8. SeatsSound'
    BY <1>2, <1>4, <1>5 DEF LiveInv, SeatsSound
  <1>9. WireSound' /\ Sharing!ReceivedExact'
    BY <1>4 DEF LiveInv, WireSound, Sharing!ReceivedExact, Sharing!Whole
  <1> QED
    BY <1>6, <1>7, <1>8, <1>9 DEF LiveInv

\* The session is cached, its offer is sent, and its answer is taken.
LEMMA SessionMoves ==
  ASSUME LiveInv, \/ Sharing!CacheSession /\ recv'.pc = "registered"
                  \/ Sharing!Offer \/ Sharing!TakeAnswer
  PROVE  LiveInv'
  <1>1. recv.pc # "idle" /\ UNCHANGED <<share, sender, spool, wire>>
    BY DEF Sharing!CacheSession, Sharing!Offer, Sharing!TakeAnswer
  <1>2. recv \in Receivers /\ recv.sid \in Sid /\ seats \in [Sid -> Seats \cup {Missing}]
    BY <1>1, SidForm DEF LiveInv, LiveTyped
  <1>3. CASE Sharing!CacheSession /\ recv'.pc = "registered"
    <2> DEFINE q == [offer |-> FALSE, answer |-> Missing, status |-> "waiting"]
    <2>1. Sharing!Disconnected.pc = "idle"
      BY DisconnectedForm
    <2>2. recv' = [recv EXCEPT !.pc = "registered"] /\ seats' = [seats EXCEPT ![recv.sid] = q]
      BY <1>3, <2>1 DEF Sharing!CacheSession
    <2>3. q \in Seats
      BY DEF Seats
    <2> HIDE DEF q
    <2>4. seats' \in [Sid -> Seats \cup {Missing}] /\ \A x \in Sid : seats'[x] # Missing => seats[x] # Missing \/ x = recv.sid
      BY <1>2, <2>2, <2>3
    <2>5. recv' \in Receivers /\ recv'.pc = "registered" /\ recv'.sid = recv.sid /\ recv'.used = recv.used /\ recv'.have = recv.have
      BY <1>2, <2>2 DEF Receivers
    <2> QED
      BY <1>1, <2>4, <2>5, MoveStep
  <1>4. CASE Sharing!Offer
    <2> DEFINE q == [seats[recv.sid] EXCEPT !.offer = TRUE]
    <2>1. seats[recv.sid] \in Seats
      BY <1>2, <1>4 DEF Sharing!Offer, Sharing!Publishable, Sharing!Open
    <2>2. q \in Seats
      BY <2>1 DEF Seats
    <2>3. seats' = [seats EXCEPT ![recv.sid] = q]
      BY <1>2, <1>4 DEF Sharing!Offer
    <2> HIDE DEF q
    <2>4. seats' \in [Sid -> Seats \cup {Missing}] /\ \A x \in Sid : seats'[x] # Missing => seats[x] # Missing \/ x = recv.sid
      BY <1>2, <2>2, <2>3
    <2>5. recv' \in Receivers /\ recv'.pc = "polling" /\ recv'.sid = recv.sid /\ recv'.used = recv.used /\ recv'.have = recv.have
      BY <1>2, <1>4 DEF Receivers, Sharing!Offer
    <2> QED
      BY <1>1, <2>4, <2>5, MoveStep
  <1>5. CASE Sharing!TakeAnswer
    <2>1. seats[recv.sid] \in Seats
      BY <1>2, <1>5 DEF Sharing!TakeAnswer
    <2>2. recv' = [recv EXCEPT !.pc = "connecting", !.answer = seats[recv.sid].answer] /\ seats' = seats
      BY <1>5 DEF Sharing!TakeAnswer
    <2>3. seats[recv.sid].answer \in Sharing!Epoch \cup {Missing}
      BY <2>1 DEF Seats
    <2>4. recv' \in Receivers /\ recv'.pc = "connecting" /\ recv'.sid = recv.sid /\ recv'.used = recv.used /\ recv'.have = recv.have
      BY <1>2, <2>2, <2>3 DEF Receivers
    <2> QED
      BY <1>1, <1>2, <2>2, <2>4, MoveStep
  <1> QED
    BY <1>3, <1>4, <1>5

\* The receiver moves and its own channel changes, and both agree afterwards.
LEMMA TalkStep ==
  ASSUME LiveInv, recv.pc # "idle", recv' \in Receivers, UNCHANGED <<share, sender, spool>>, NEW w \in Channels,
         wire' = [wire EXCEPT ![recv.sid] = w], recv'.pc \in {"connected", "requesting"}, recv'.sid = recv.sid, recv'.used = recv.used,
         ChannelSound(recv', w), Sharing!ReceivedExact',
         seats' \in [Sid -> Seats \cup {Missing}], \A x \in Sid : seats'[x] # Missing => seats[x] # Missing
  PROVE  LiveInv'
  <1>1. recv.sid \in Sid /\ recv.sid \in recv.used /\ wire \in [Sid -> Channels]
    BY SidForm DEF LiveInv, LiveTyped, SeatsSound
  <1>2. wire' \in [Sid -> Channels] /\ wire'[recv.sid] = w /\ \A y \in Sid : wire'[y].open => wire[y].open \/ y = recv.sid
    BY <1>1
  <1>3. LiveTyped'
    BY <1>2 DEF LiveInv, LiveTyped
  <1>4. SpoolSound'
    BY DEF LiveInv, SpoolSound
  <1>5. SeatsSound'
    BY <1>1 DEF LiveInv, SeatsSound
  <1>6. ClaimSound'
    BY <1>1, <1>2 DEF LiveInv, ClaimSound
  <1>7. ChannelSound(recv, wire[recv.sid])'
    BY <1>2 DEF ChannelSound, AskedOn, AnsweredOn, NoRequest, Request, Frame
  <1>8. WireSound'
    BY <1>7 DEF WireSound
  <1> QED
    BY <1>3, <1>4, <1>5, <1>6, <1>8 DEF LiveInv

\* ICE connects: the channel is new, and the session is reported as active or given up.
LEMMA ConnectMoves ==
  ASSUME LiveInv, Sharing!Connect
  PROVE  LiveInv'
  <1> DEFINE w == [Sharing!Closed EXCEPT !.open = TRUE]
  <1>1. recv.pc # "idle" /\ UNCHANGED <<share, sender, spool>> /\ wire' = [wire EXCEPT ![recv.sid] = w]
    BY DEF Sharing!Connect
  <1>2. recv \in Receivers /\ recv.sid \in Sid /\ wire \in [Sid -> Channels] /\ seats \in [Sid -> Seats \cup {Missing}]
    BY <1>1, SidForm DEF LiveInv, LiveTyped
  <1>3. w \in Channels /\ w.down = <<>> /\ w.up = <<>>
    <2>1. \A z \in Channels : [z EXCEPT !.open = TRUE] \in Channels /\ [z EXCEPT !.open = TRUE].down = z.down /\ [z EXCEPT !.open = TRUE].up = z.up
      BY DEF Channels
    <2>2. Sharing!Closed.down = <<>> /\ Sharing!Closed.up = <<>>
      BY DEF Sharing!Closed
    <2> QED
      BY <2>1, <2>2, ClosedForm
  <1> HIDE DEF w
  <1>4. CASE Sharing!Publishable
    <2>1. Sharing!Open(recv.sid) /\ seats' = [seats EXCEPT ![recv.sid].status = "active"] /\ recv' = [recv EXCEPT !.pc = "connected"]
      BY <1>4 DEF Sharing!Connect, Sharing!Publishable
    <2>2. seats' \in [Sid -> Seats \cup {Missing}] /\ \A x \in Sid : seats'[x] # Missing => seats[x] # Missing
      BY <1>2, <2>1, StatusForm
    <2>3. recv' \in Receivers /\ recv'.pc = "connected" /\ recv'.sid = recv.sid /\ recv'.used = recv.used /\ recv'.have = recv.have
      BY <1>2, <2>1 DEF Receivers
    <2>4. ChannelSound(recv', w)
      BY <1>3, <2>3 DEF ChannelSound, NoRequest
    <2>5. Sharing!ReceivedExact'
      BY <2>3 DEF LiveInv, Sharing!ReceivedExact, Sharing!Whole
    <2> QED
      BY <1>1, <1>3, <2>2, <2>3, <2>4, <2>5, TalkStep
  <1>5. CASE ~Sharing!Publishable
    <2>1. seats' = seats /\ recv' = Sharing!Disconnected
      BY <1>5 DEF Sharing!Connect
    <2>2. wire' \in [Sid -> Channels] /\ \A x \in Sid : wire'[x].open => wire[x].open \/ x = recv.sid
      BY <1>1, <1>2, <1>3
    <2> QED
      BY <1>1, <1>2, <2>1, <2>2, LeaveStep
  <1> QED
    BY <1>4, <1>5

\* Asking for a chunk: nothing else is asked for on the channel, and nothing is under way.
LEMMA RequestMoves ==
  ASSUME LiveInv, NEW c \in Piece, Sharing!RequestChunk(c)
  PROVE  LiveInv'
  <1> DEFINE m == [kind |-> "request", seq |-> recv.seq, chunk |-> c]
             v == wire[recv.sid]
             w == [v EXCEPT !.up = Append(v.up, m)]
  <1>1. recv.pc = "connected" /\ recv.seq < MaxSeq /\ v.open /\ UNCHANGED <<share, seats, sender, spool>>
    BY DEF Sharing!RequestChunk
  <1>2. /\ recv \in Receivers /\ recv.sid \in Sid /\ wire \in [Sid -> Channels] /\ seats \in [Sid -> Seats \cup {Missing}]
        /\ v \in Channels /\ MaxSeq \in Nat /\ recv.seq \in Nat /\ Frames \in Nat \ {0}
    BY <1>1, SidForm, NativeAssumption DEF SharingConstants, LiveInv, LiveTyped, Receivers
  <1>3. v.down = <<>> /\ NoRequest(v, Len(v.up))
    BY <1>1 DEF LiveInv, WireSound, ChannelSound
  <1>4. wire' = [wire EXCEPT ![recv.sid] = w]
    BY <1>2 DEF Sharing!RequestChunk
  <1>5. m \in Ups
    BY <1>2 DEF Ups
  <1>6. v.up \in Seq(Ups)
    BY <1>2 DEF Channels
  <1>7. recv' = [recv EXCEPT !.pc = "requesting", !.want = c, !.announced = FALSE, !.bytes = <<>>, !.seq = recv.seq + 1]
    BY DEF Sharing!RequestChunk
  <1>8. /\ recv' \in Receivers /\ recv'.pc = "requesting" /\ recv'.sid = recv.sid /\ recv'.used = recv.used /\ recv'.have = recv.have
        /\ recv'.want = c /\ recv'.announced = FALSE /\ recv'.bytes = <<>> /\ recv'.seq = recv.seq + 1
    <2>1. <<>> \in Seq(Piece \X Nat) /\ recv.seq + 1 \in 0..MaxSeq
      BY <1>1, <1>2
    <2> DEFINE none == <<>>
               next == recv.seq + 1
    <2>2. recv' = [recv EXCEPT !.pc = "requesting", !.want = c, !.announced = FALSE, !.bytes = none, !.seq = next]
      BY <1>7
    <2> HIDE DEF none, next
    <2>3. none \in Seq(Piece \X Nat) /\ next \in 0..MaxSeq /\ FALSE \in BOOLEAN
      BY <2>1 DEF none, next
    <2>4. recv' \in Receivers /\ recv'.pc = "requesting" /\ recv'.sid = recv.sid /\ recv'.used = recv.used /\ recv'.have = recv.have
          /\ recv'.want = c /\ recv'.announced = FALSE /\ recv'.bytes = none /\ recv'.seq = next
      BY <1>2, <2>2, <2>3 DEF Receivers
    <2> QED
      BY <2>4 DEF none, next
  <1>9. Request(recv') = m
    <2>1. recv'.seq - 1 = recv.seq
      BY <1>2, <1>8
    <2> QED
      BY <1>8, <2>1 DEF Request
  <1> HIDE DEF m
  <1>10. Append(v.up, m) \in Seq(Ups) /\ Len(Append(v.up, m)) = Len(v.up) + 1 /\ Append(v.up, m)[Len(v.up) + 1] = m
         /\ Len(v.up) \in Nat /\ \A k \in 1..Len(v.up) : Append(v.up, m)[k] = v.up[k]
    BY <1>5, <1>6
  <1>11. w \in Channels /\ w.up = Append(v.up, m) /\ w.down = <<>>
    BY <1>2, <1>3, <1>10 DEF Channels
  <1> HIDE DEF v, w
  <1>12. AskedOn(recv', w)
    <2>1. NoRequest(w, Len(w.up) - 1)
      BY <1>3, <1>10, <1>11 DEF NoRequest
    <2>2. Len(w.up) # 0 /\ w.up[Len(w.up)] = Request(recv')
      BY <1>9, <1>10, <1>11
    <2> QED
      BY <1>8, <1>11, <2>1, <2>2 DEF AskedOn
  <1>13. ChannelSound(recv', w)
    <2>1. Len(<<>>) = 0 /\ 0 < Frames /\ recv.seq + 1 # 0
      BY <1>2
    <2> QED
      BY <1>8, <1>12, <2>1 DEF ChannelSound
  <1>14. Sharing!ReceivedExact'
    BY <1>8 DEF LiveInv, Sharing!ReceivedExact, Sharing!Whole
  <1>15. recv.pc # "idle"
    BY <1>1
  <1> QED
    BY <1>1, <1>2, <1>4, <1>8, <1>11, <1>13, <1>14, <1>15, TalkStep

\* request_chunk: what the receiver has of the chunk are its first frames, in order, and
\* the rest of them is under way; with the last one the chunk is complete.
LEMMA ReceiveMoves ==
  ASSUME LiveInv, Sharing!ReceiveMessage
  PROVE  LiveInv'
  <1> DEFINE v == wire[recv.sid]
             m == Head(v.down)
             bytes == IF m.kind = "frame" THEN Append(recv.bytes, <<m.of, m.offset>>) ELSE recv.bytes
             ack == [kind |-> "ack", seq |-> m.seq]
             w == [v EXCEPT !.down = Tail(v.down), !.up = IF Len(bytes) = Frames THEN Append(v.up, ack) ELSE v.up]
  <1>1. recv.pc = "requesting" /\ v.open /\ v.down # <<>> /\ UNCHANGED <<share, seats, sender, spool>>
    BY DEF Sharing!ReceiveMessage
  <1>2. /\ recv \in Receivers /\ recv.sid \in Sid /\ wire \in [Sid -> Channels] /\ seats \in [Sid -> Seats \cup {Missing}]
        /\ v \in Channels /\ recv.seq \in Nat /\ Frames \in Nat \ {0} /\ recv.pc # "idle"
    BY <1>1, SidForm, NativeAssumption DEF SharingConstants, LiveInv, LiveTyped, Receivers
  <1>3. ChannelSound(recv, v)
    BY <1>1 DEF LiveInv, WireSound
  <1>4. /\ recv.want \in Piece /\ recv.seq # 0 /\ Len(recv.bytes) < Frames /\ (~recv.announced => recv.bytes = <<>>)
        /\ \A i \in 1..Len(recv.bytes) : recv.bytes[i] = <<recv.want, i>>
        /\ AnsweredOn(recv, v)
    BY <1>1, <1>3 DEF ChannelSound, AskedOn
  <1>5. v.up \in Seq(Ups) /\ v.down \in Seq(Downs) /\ recv.bytes \in Seq(Piece \X Nat) /\ recv.announced \in BOOLEAN
        /\ recv.have \in [Piece -> Seq(Piece \X Nat)]
    BY <1>2 DEF Channels, Receivers
  <1>6. /\ Len(v.down) \in Nat \ {0} /\ Len(Tail(v.down)) = Len(v.down) - 1 /\ Tail(v.down) \in Seq(Downs)
        /\ \A k \in 1..Len(v.down) - 1 : Tail(v.down)[k] = v.down[k + 1]
        /\ Len(v.down) = 1 => Tail(v.down) = <<>>
    BY <1>1, <1>5, TailForm
  <1>7. m = v.down[1] /\ m \in Downs
    BY <1>1, <1>5
  <1>8. /\ recv' = [recv EXCEPT !.announced = TRUE, !.bytes = bytes,
                                !.pc = IF Len(bytes) = Frames THEN "connected" ELSE @,
                                !.have[recv.want] = IF Len(bytes) = Frames THEN bytes ELSE @]
        /\ wire' = [wire EXCEPT ![recv.sid] = w]
    BY <1>2 DEF Sharing!ReceiveMessage, Channels
  <1>9. CASE ~recv.announced
    <2>1. m.kind # "frame" /\ Len(v.down) = Frames + 1 /\ recv.bytes = <<>> /\ \A i \in 2..Len(v.down) : v.down[i] = Frame(recv, i - 1)
      BY <1>4, <1>7, <1>9 DEF AnsweredOn
    <2>2. bytes = <<>> /\ Len(bytes) = 0 /\ Len(bytes) # Frames
      BY <1>2, <2>1
    <2>3. w \in Channels /\ w.down = Tail(v.down) /\ w.up = v.up
      BY <1>2, <1>5, <1>6, <2>2 DEF Channels
    <2>4. recv' = [recv EXCEPT !.announced = TRUE, !.bytes = <<>>]
      BY <1>2, <1>5, <1>8, <2>2 DEF Receivers
    <2>5. /\ recv' \in Receivers /\ recv'.pc = "requesting" /\ recv'.sid = recv.sid /\ recv'.used = recv.used /\ recv'.have = recv.have
          /\ recv'.want = recv.want /\ recv'.announced = TRUE /\ recv'.bytes = <<>> /\ recv'.seq = recv.seq
      <3> DEFINE none == <<>>
      <3>1. none \in Seq(Piece \X Nat)
        OBVIOUS
      <3>2. recv' = [recv EXCEPT !.announced = TRUE, !.bytes = none]
        BY <2>4
      <3> HIDE DEF none
      <3>3. recv' \in Receivers /\ recv'.pc = recv.pc /\ recv'.sid = recv.sid /\ recv'.used = recv.used /\ recv'.have = recv.have
            /\ recv'.want = recv.want /\ recv'.announced = TRUE /\ recv'.bytes = none /\ recv'.seq = recv.seq
        BY <1>2, <3>1, <3>2 DEF Receivers
      <3> QED
        BY <1>1, <3>3 DEF none
    <2>6. wire' = [wire EXCEPT ![recv.sid] = w]
      BY <1>8
    <2> HIDE DEF v, m, bytes, w
    <2>7. AnsweredOn(recv', w)
      <3>1. NoRequest(w, Len(w.up))
        BY <1>4, <2>3 DEF AnsweredOn, NoRequest
      <3>2. Len(w.down) = Frames - 0 /\ \A i \in 1..Len(w.down) : w.down[i] = Frame(recv, 0 + i)
        <4>1. Len(w.down) = Frames
          BY <1>2, <1>6, <2>1, <2>3
        <4>2. ASSUME NEW i \in 1..Frames PROVE w.down[i] = Frame(recv, 0 + i)
          <5>1. i + 1 \in 2..Len(v.down) /\ i \in 1..Len(v.down) - 1 /\ i + 1 - 1 = 0 + i
            BY <1>2, <2>1, <4>2
          <5>2. v.down[i + 1] = Frame(recv, i + 1 - 1)
            BY <2>1, <5>1
          <5> QED
            BY <1>6, <2>3, <5>1, <5>2
        <4> QED
          BY <1>2, <4>1, <4>2
      <3>3. \A i : Frame(recv', i) = Frame(recv, i)
        BY <2>5 DEF Frame
      <3>4. Len(<<>>) = 0
        OBVIOUS
      <3> QED
        BY <2>5, <3>1, <3>2, <3>3, <3>4 DEF AnsweredOn
    <2>8. ChannelSound(recv', w)
      <3>1. Len(<<>>) = 0 /\ 0 < Frames
        BY <1>2
      <3> QED
        BY <1>4, <2>5, <2>7, <3>1 DEF ChannelSound
    <2>9. Sharing!ReceivedExact'
      BY <2>5 DEF LiveInv, Sharing!ReceivedExact, Sharing!Whole
    <2> QED
      BY <1>1, <1>2, <2>3, <2>5, <2>6, <2>8, <2>9, TalkStep
  <1>10. CASE recv.announced
    <2> DEFINE n == Len(recv.bytes)
               q == <<recv.want, n + 1>>
    <2>1. n \in Nat /\ n < Frames /\ Len(v.down) = Frames - n /\ \A i \in 1..Len(v.down) : v.down[i] = Frame(recv, n + i)
      <3>1. n \in Nat
        BY <1>5
      <3>2. Len(v.down) = Frames - n /\ \A i \in 1..Len(v.down) : v.down[i] = Frame(recv, n + i)
        BY <1>4, <1>10, Zenon DEF AnsweredOn
      <3> QED
        BY <1>4, <3>1, <3>2
    <2>2. m = Frame(recv, n + 1)
      <3>1. 1 \in 1..Len(v.down)
        BY <1>6
      <3> QED
        BY <1>7, <2>1, <3>1
    <2>3. m.kind = "frame" /\ m.of = recv.want /\ m.offset = n + 1 /\ m.seq = recv.seq - 1
      BY <2>2 DEF Frame
    <2>4. bytes = Append(recv.bytes, q)
      BY <2>3
    <2>5. q \in Piece \X Nat
      BY <1>4, <2>1
    <2>6. ack \in Ups /\ ack.kind # "request"
      BY <1>2, <1>4, <2>3 DEF Ups
    <2> HIDE DEF ack, m, bytes
    <2>7. bytes \in Seq(Piece \X Nat) /\ Len(bytes) = n + 1 /\ \A i \in 1..n + 1 : bytes[i] = <<recv.want, i>>
      <3>1. bytes \in Seq(Piece \X Nat) /\ Len(bytes) = n + 1 /\ bytes[n + 1] = q /\ \A i \in 1..n : bytes[i] = recv.bytes[i]
        BY <1>5, <2>4, <2>5
      <3>2. \A i \in 1..n + 1 : i = n + 1 \/ i \in 1..n
        BY <2>1
      <3> QED
        BY <1>4, <3>1, <3>2
    <2>8. CASE n + 1 = Frames
      <3>1. w = [v EXCEPT !.down = Tail(v.down), !.up = Append(v.up, ack)]
        BY <2>7, <2>8
      <3>2. Append(v.up, ack) \in Seq(Ups) /\ Len(Append(v.up, ack)) = Len(v.up) + 1 /\ Append(v.up, ack)[Len(v.up) + 1] = ack
            /\ Len(v.up) \in Nat /\ \A k \in 1..Len(v.up) : Append(v.up, ack)[k] = v.up[k]
        BY <1>5, <2>6
      <3>3. w \in Channels /\ w.down = Tail(v.down) /\ w.up = Append(v.up, ack)
        BY <1>2, <1>6, <3>1, <3>2 DEF Channels
      <3>4. Tail(v.down) = <<>>
        BY <1>2, <1>6, <2>1, <2>8
      <3>5. recv' = [recv EXCEPT !.announced = TRUE, !.bytes = bytes, !.pc = "connected", !.have = [recv.have EXCEPT ![recv.want] = bytes]]
        BY <1>8, <2>7, <2>8
      <3>6. [recv.have EXCEPT ![recv.want] = bytes] \in [Piece -> Seq(Piece \X Nat)]
        BY <1>5, <2>7
      <3>7. recv' \in Receivers /\ recv'.pc = "connected" /\ recv'.sid = recv.sid /\ recv'.used = recv.used
            /\ recv'.have = [recv.have EXCEPT ![recv.want] = bytes]
        BY <1>2, <2>7, <3>5, <3>6 DEF Receivers
      <3>8. wire' = [wire EXCEPT ![recv.sid] = w]
        BY <1>8
      <3> HIDE DEF v, w
      <3>9. NoRequest(w, Len(w.up))
        <4>1. \A k \in 1..Len(v.up) + 1 : k = Len(v.up) + 1 \/ k \in 1..Len(v.up)
          BY <3>2
        <4>2. NoRequest(v, Len(v.up))
          BY <1>4 DEF AnsweredOn
        <4> QED
          BY <2>6, <3>2, <3>3, <4>1, <4>2 DEF NoRequest
      <3>10. ChannelSound(recv', w)
        BY <3>3, <3>4, <3>7, <3>9 DEF ChannelSound
      <3>11. bytes = Sharing!Whole(recv.want)
        <4>1. bytes = [i \in 1..Frames |-> bytes[i]]
          BY <2>7, <2>8
        <4> QED
          BY <2>7, <2>8, <4>1 DEF Sharing!Whole
      <3>12. Sharing!ReceivedExact'
        <4>1. \A c \in Piece : recv'.have[c] = recv.have[c] \/ recv'.have[c] = Sharing!Whole(c)
          BY <1>4, <1>5, <3>7, <3>11
        <4> QED
          BY <4>1 DEF LiveInv, Sharing!ReceivedExact, Sharing!Whole
      <3> QED
        BY <1>1, <1>2, <3>3, <3>7, <3>8, <3>10, <3>12, TalkStep
    <2>9. CASE n + 1 # Frames
      <3>1. w = [v EXCEPT !.down = Tail(v.down), !.up = v.up]
        BY <2>7, <2>9
      <3>2. w \in Channels /\ w.down = Tail(v.down) /\ w.up = v.up
        BY <1>2, <1>5, <1>6, <3>1 DEF Channels
      <3>3. recv' = [recv EXCEPT !.announced = TRUE, !.bytes = bytes, !.pc = recv.pc, !.have = [recv.have EXCEPT ![recv.want] = recv.have[recv.want]]]
        BY <1>8, <2>7, <2>9
      <3>4. [recv.have EXCEPT ![recv.want] = recv.have[recv.want]] = recv.have
        BY <1>5
      <3>5. /\ recv' \in Receivers /\ recv'.pc = "requesting" /\ recv'.sid = recv.sid /\ recv'.used = recv.used /\ recv'.have = recv.have
            /\ recv'.want = recv.want /\ recv'.announced = TRUE /\ recv'.bytes = bytes /\ recv'.seq = recv.seq
        BY <1>1, <1>2, <2>7, <3>3, <3>4 DEF Receivers
      <3>6. wire' = [wire EXCEPT ![recv.sid] = w]
        BY <1>8
      <3> HIDE DEF v, w, n
      <3>7. AnsweredOn(recv', w)
        <4>1. NoRequest(w, Len(w.up))
          BY <1>4, <3>2 DEF AnsweredOn, NoRequest
        <4>2. Len(w.down) = Frames - (n + 1)
          <5>1. \A k \in Nat : Frames - k - 1 = Frames - (k + 1)
            BY <1>2
          <5> QED
            BY <1>6, <2>1, <3>2, <5>1
        <4>3. ASSUME NEW i \in 1..Len(w.down) PROVE w.down[i] = Frame(recv, n + 1 + i)
          <5>1. i + 1 \in 1..Len(v.down) /\ i \in 1..Len(v.down) - 1 /\ n + (i + 1) = n + 1 + i
            <6>1. \A k, l, j \in Nat : j \in 1..(l - (k + 1)) => j + 1 \in 1..(l - k) /\ j \in 1..(l - k - 1) /\ k + (j + 1) = k + 1 + j
              OBVIOUS
            <6>2. i \in Nat
              OBVIOUS
            <6> QED
              BY <1>2, <2>1, <4>2, <6>1, <6>2
          <5>2. v.down[i + 1] = Frame(recv, n + (i + 1))
            BY <2>1, <5>1
          <5> QED
            BY <1>6, <3>2, <5>1, <5>2
        <4>4. \A i : Frame(recv', i) = Frame(recv, i)
          BY <3>5 DEF Frame
        <4> QED
          BY <2>7, <3>5, <4>1, <4>2, <4>3, <4>4 DEF AnsweredOn
      <3>8. ChannelSound(recv', w)
        <4>1. Len(bytes) < Frames
          BY <1>2, <2>1, <2>7, <2>9
        <4> QED
          BY <1>4, <2>7, <3>5, <3>7, <4>1 DEF ChannelSound
      <3>9. Sharing!ReceivedExact'
        BY <3>5 DEF LiveInv, Sharing!ReceivedExact, Sharing!Whole
      <3> QED
        BY <1>1, <1>2, <3>2, <3>5, <3>6, <3>8, <3>9, TalkStep
    <2> QED
      BY <2>8, <2>9
  <1> QED
    BY <1>9, <1>10

\* The first state.
LEMMA LiveStart ==
  ASSUME Sharing!Init
  PROVE  LiveInv
  <1>1. share \in Shares /\ share.status = "pending" /\ share.claim = Missing
    <2>1. PICK b \in Burnable : share = [status |-> "pending", manifest |-> Missing, pulse |-> FALSE, claim |-> Missing, burn |-> b]
      BY DEF Sharing!Init
    <2>2. b \in BOOLEAN
      BY NativeAssumption DEF SharingConstants
    <2> QED
      BY <2>1, <2>2 DEF Shares
  <1>2. spool \in Spools /\ spool.state = "preparing"
    BY DEF Sharing!Init, Spools
  <1>3. seats = [x \in Sid |-> Missing] /\ wire = [x \in Sid |-> Sharing!Closed]
    BY DEF Sharing!Init
  <1>4. sender \in Senders
    <2>1. Sharing!NoPeer \in Peers /\ 1 \in Sharing!Epoch
      BY NativeAssumption DEF SharingConstants, Sharing!NoPeer, Peers, Sharing!Epoch
    <2>2. [x \in Sid |-> Sharing!NoPeer] \in [Sid -> Peers]
      BY <2>1
    <2> QED
      BY <2>1, <2>2 DEF Sharing!Init, Senders
  <1>5. recv \in Receivers /\ recv.pc = "idle" /\ recv.used = {} /\ recv.have = [c \in Piece |-> <<>>]
    <2> DEFINE none == <<>>
               have == [c \in Piece |-> none]
    <2>1. none \in Seq(Piece \X Nat) /\ 0 \in 0..MaxSeq
      BY NativeAssumption DEF SharingConstants
    <2>2. recv = [pc |-> "idle", sid |-> Missing, want |-> Missing, announced |-> FALSE, bytes |-> none, seq |-> 0,
                  answer |-> Missing, have |-> have, used |-> {}]
      BY DEF Sharing!Init
    <2> HIDE DEF none
    <2>3. have \in [Piece -> Seq(Piece \X Nat)]
      BY <2>1
    <2> HIDE DEF have
    <2>4. recv \in Receivers /\ recv.pc = "idle" /\ recv.used = {} /\ recv.have = have
      BY <2>1, <2>2, <2>3 DEF Receivers
    <2> QED
      BY <2>4 DEF have, none
  <1>6. LiveTyped
    BY <1>1, <1>2, <1>3, <1>4, <1>5, ClosedForm DEF LiveTyped
  <1>7. SpoolSound /\ SeatsSound /\ WireSound
    BY <1>1, <1>2, <1>3, <1>5 DEF SpoolSound, SeatsSound, WireSound
  <1>8. ClaimSound
    BY <1>3, <1>5, ClosedForm DEF ClaimSound
  <1>9. Sharing!ReceivedExact
    BY <1>5 DEF Sharing!ReceivedExact
  <1> QED
    BY <1>6, <1>7, <1>8, <1>9 DEF LiveInv

\* Every step keeps the invariant.
LEMMA LiveStep ==
  ASSUME LiveInv, [Sharing!Next]_liveVars
  PROVE  LiveInv'
  <1>1. CASE UNCHANGED liveVars
    <2>1. UNCHANGED <<share, seats, sender, spool, recv, wire>>
      BY <1>1 DEF liveVars
    <2>2. SpoolSound'
      BY <2>1 DEF LiveInv, SpoolSound
    <2> QED
      BY <2>1, <2>2, SideStep DEF LiveInv, LiveTyped
  <1>2. CASE Sharing!CacheSession
    <2>1. \/ recv' = Sharing!Disconnected /\ UNCHANGED seats
          \/ recv' = [recv EXCEPT !.pc = "registered"]
      BY <1>2 DEF Sharing!CacheSession
    <2>2. recv' = [recv EXCEPT !.pc = "registered"] => recv'.pc = "registered"
      BY DEF LiveInv, LiveTyped, Receivers
    <2> QED
      BY <1>2, <2>1, <2>2, LeaveMoves, SessionMoves
  <1>3. CASE \/ \E c \in Piece : Sharing!PrepareChunk(c)
             \/ Sharing!Prepared \/ Sharing!SaveManifest \/ Sharing!Publish \/ Sharing!EndLive
             \/ Sharing!PulseExpires \/ Sharing!SenderResumes
    BY <1>3, SpoolMoves
  <1>4. CASE \/ Sharing!Poll \/ Sharing!SenderStops \/ Sharing!RevokeSessions
             \/ \E x \in Sid : Sharing!Answer(x) \/ Sharing!SenderConnected(x) \/ Sharing!PeerEnds(x) \/ Sharing!SessionExpires(x)
    BY <1>4, PeerMoves
  <1>5. CASE \E x \in Sid : Sharing!ServeMessage(x) \/ Sharing!Register(x)
    BY <1>5, ServeMoves, RegisterMoves
  <1>6. CASE Sharing!Offer \/ Sharing!TakeAnswer
    BY <1>6, SessionMoves
  <1>7. CASE Sharing!ReceiverDies \/ Sharing!ConnectFails \/ Sharing!RequestFails \/ Sharing!Finish
    BY <1>7, LeaveMoves
  <1>8. CASE Sharing!Connect \/ Sharing!ReceiveMessage \/ \E c \in Piece : Sharing!RequestChunk(c)
    BY <1>8, ConnectMoves, ReceiveMoves, RequestMoves
  <1> QED
    BY <1>1, <1>2, <1>3, <1>4, <1>5, <1>6, <1>7, <1>8 DEF Sharing!Next

\* The invariant implies what is promised of every state.
LEMMA LiveShows ==
  ASSUME LiveInv
  PROVE  Sharing!TypeOK /\ Sharing!ReceivedExact /\ Sharing!ShareServable /\ Sharing!BurnClaimedOnce
  <1>1. Sharing!TypeOK
    <2>1. share.status \in {"pending", "live", "ended"} /\ share.manifest \in Sharing!Epoch \cup {Missing}
          /\ share.pulse \in BOOLEAN /\ share.claim \in Sid \cup {Missing}
      BY DEF LiveInv, LiveTyped, Shares
    <2>2. \A x \in Sid : seats[x] # Missing => /\ seats[x].answer \in Sharing!Epoch \cup {Missing}
                                               /\ seats[x].status \in {"waiting", "active"} \cup Sharing!Terminal
      BY DEF LiveInv, LiveTyped, Seats
    <2>3. spool.state \in {"preparing", "sending", "serving", "ended"} /\ spool.durable \subseteq Piece
      BY DEF LiveInv, LiveTyped, Spools
    <2>4. sender.epoch \in Sharing!Epoch /\ \A x \in Sid : sender.peer[x].at \in {"none", "answering", "waiting", "serving"}
      BY DEF LiveInv, LiveTyped, Senders, Peers
    <2>5. recv.pc \in {"idle", "registering", "registered", "polling", "connecting", "connected", "requesting"} /\ recv.seq \in 0..MaxSeq
      BY DEF LiveInv, LiveTyped, Receivers
    <2> QED
      BY <2>1, <2>2, <2>3, <2>4, <2>5 DEF Sharing!TypeOK
  <1>2. Sharing!ShareServable
    BY DEF LiveInv, SpoolSound, Sharing!ShareServable
  <1>3. Sharing!BurnClaimedOnce
    BY DEF LiveInv, ClaimSound, Sharing!BurnClaimedOnce
  <1> QED
    BY <1>1, <1>2, <1>3 DEF LiveInv

\* A step that reports a status does so for a session that is open.
LEMMA ReportStep ==
  ASSUME LiveInv, NEW x \in Sid, Sharing!Open(x), NEW y \in Sid,
         \/ \E s : seats' = [seats EXCEPT ![x].status = s]
         \/ seats' = [seats EXCEPT ![x].offer = TRUE]
         \/ seats[x].answer \in {Missing, sender.epoch} /\ seats' = [seats EXCEPT ![x].answer = sender.epoch],
         seats[y] # Missing
  PROVE  /\ seats[y].answer # Missing => seats'[y].answer = seats[y].answer
         /\ seats[y].status \in Sharing!Terminal => seats'[y].status = seats[y].status
  <1>1. seats \in [Sid -> Seats \cup {Missing}] /\ seats[x] \in Seats /\ seats[x].status \notin Sharing!Terminal
    BY DEF LiveInv, LiveTyped, Sharing!Open
  <1>2. CASE y # x
    BY <1>1, <1>2
  <1>3. CASE y = x
    <2>1. \/ \E s : seats'[x] = [seats[x] EXCEPT !.status = s]
          \/ seats'[x] = [seats[x] EXCEPT !.offer = TRUE]
          \/ seats[x].answer \in {Missing, sender.epoch} /\ seats'[x] = [seats[x] EXCEPT !.answer = sender.epoch]
      BY <1>1
    <2> QED
      BY <1>1, <1>3, <2>1 DEF Seats
  <1> QED
    BY <1>2, <1>3

\* An answer and a terminal status are final, and a share that has ended stays so.
LEMMA LiveMonotone ==
  ASSUME LiveInv, [Sharing!Next]_liveVars
  PROVE  Sharing!SignallingMonotoneStep
  <1>1. share.status = "ended" => share'.status = "ended"
    <2>1. share \in Shares
      BY DEF LiveInv, LiveTyped
    <2>2. \/ share' = share
          \/ \E b \in BOOLEAN : share' = [share EXCEPT !.pulse = b]
          \/ \E c : share' = [share EXCEPT !.claim = c]
          \/ share' = [share EXCEPT !.status = "ended"]
          \/ share.status # "ended"
      BY DEF liveVars, Sharing!Next, Sharing!PrepareChunk, Sharing!RequestChunk, Sharing!Prepared, Sharing!SaveManifest,
         Sharing!Publish, Sharing!Poll, Sharing!SenderStops, Sharing!SenderResumes, Sharing!EndLive, Sharing!RevokeSessions,
         Sharing!Answer, Sharing!SenderConnected, Sharing!ServeMessage, Sharing!PeerEnds, Sharing!SessionExpires, Sharing!Register,
         Sharing!PulseExpires, Sharing!CacheSession, Sharing!Offer, Sharing!TakeAnswer, Sharing!Connect, Sharing!ConnectFails,
         Sharing!Abandon, Sharing!ReceiverDies, Sharing!RequestFails, Sharing!ReceiveMessage, Sharing!Finish
    <2> QED
      BY <2>1, <2>2 DEF Shares
  <1>2. ASSUME NEW y \in Sid, seats[y] # Missing, seats'[y] # Missing
        PROVE  /\ seats[y].answer # Missing => seats'[y].answer = seats[y].answer
               /\ seats[y].status \in Sharing!Terminal => seats'[y].status = seats[y].status
    <2>1. seats \in [Sid -> Seats \cup {Missing}]
      BY DEF LiveInv, LiveTyped
    <2>2. CASE seats'[y] = seats[y]
      BY <2>2
    <2>3. CASE Sharing!CacheSession /\ seats' # seats
      <3>1. recv.pc = "registering" /\ seats[recv.sid] = Missing
        BY <2>3 DEF Sharing!CacheSession, LiveInv, SeatsSound
      <3>2. y # recv.sid
        BY <1>2, <3>1
      <3>3. seats'[y] = seats[y]
        BY <2>1, <2>3, <3>2 DEF Sharing!CacheSession
      <3> QED
        BY <3>3
    <2>4. CASE Sharing!RevokeSessions
      BY <1>2, <2>4 DEF Sharing!RevokeSessions
    <2>5. CASE \E x \in Sid : Sharing!SessionExpires(x)
      BY <1>2, <2>1, <2>5 DEF Sharing!SessionExpires
    <2>6. ASSUME NEW x \in Sid, Sharing!Answer(x), seats' # seats
          PROVE  /\ seats[y].answer # Missing => seats'[y].answer = seats[y].answer
                 /\ seats[y].status \in Sharing!Terminal => seats'[y].status = seats[y].status
      <3>1. Sharing!Open(x) /\ seats[x].answer \in {Missing, sender.epoch} /\ seats' = [seats EXCEPT ![x].answer = sender.epoch]
        BY <2>6 DEF Sharing!Answer
      <3> QED
        BY <1>2, <3>1, ReportStep
    <2>7. CASE (Sharing!Offer \/ Sharing!Connect \/ Sharing!RequestFails \/ Sharing!Finish) /\ seats' # seats
      <3>1. recv.pc # "idle" /\ Sharing!Open(recv.sid)
            /\ \/ \E s : seats' = [seats EXCEPT ![recv.sid].status = s]
               \/ seats' = [seats EXCEPT ![recv.sid].offer = TRUE]
        BY <2>7 DEF Sharing!Offer, Sharing!Connect, Sharing!RequestFails, Sharing!Finish, Sharing!Publishable
      <3>2. recv.sid \in Sid
        BY <3>1, SidForm
      <3> QED
        BY <1>2, <3>1, <3>2, ReportStep
    <2>8. \/ seats' = seats \/ Sharing!CacheSession \/ Sharing!RevokeSessions \/ Sharing!Offer \/ Sharing!Connect \/ Sharing!RequestFails
          \/ Sharing!Finish \/ \E x \in Sid : Sharing!SessionExpires(x) \/ Sharing!Answer(x)
      BY DEF liveVars, Sharing!Next, Sharing!PrepareChunk, Sharing!RequestChunk, Sharing!Prepared, Sharing!SaveManifest,
         Sharing!Publish, Sharing!Poll, Sharing!SenderStops, Sharing!SenderResumes, Sharing!EndLive,
         Sharing!SenderConnected, Sharing!ServeMessage, Sharing!PeerEnds, Sharing!Register,
         Sharing!PulseExpires, Sharing!TakeAnswer, Sharing!ConnectFails, Sharing!Abandon, Sharing!ReceiverDies, Sharing!ReceiveMessage
    <2> QED
      BY <2>2, <2>3, <2>4, <2>5, <2>6, <2>7, <2>8
  <1> QED
    BY <1>1, <1>2 DEF Sharing!SignallingMonotoneStep

\* LiveShareSafe for every set of chunks, sessions and incarnations of the sender: what the
\* receiver has of a share, what a published share can serve, who reads a burn-on-read note,
\* and what signalling never takes back.
THEOREM LiveShareStaysSafe ==
  Sharing!Spec => LiveShareSafe
  <1>1. Sharing!Init => LiveInv
    BY LiveStart
  <1>2. LiveInv /\ [Sharing!Next]_liveVars => LiveInv'
    BY LiveStep
  <1>3. LiveInv => Sharing!TypeOK /\ Sharing!ReceivedExact /\ Sharing!ShareServable /\ Sharing!BurnClaimedOnce
    BY LiveShows
  <1>4. LiveInv /\ [Sharing!Next]_liveVars => [Sharing!SignallingMonotoneStep]_liveVars
    BY LiveMonotone
  <1> QED
    BY <1>1, <1>2, <1>3, <1>4, PTL DEF Sharing!Spec, Sharing!vars, liveVars, LiveShareSafe

-----------------------------------------------------------------------------
(* What is sealed and what is opened: Sealing.                             *)

\* A chunk ciphertext is that of a recorded place of some transfer.
ChunkSound(boxes, x) ==
  \E key \in MasterKeys, t \in Transfer : \E p \in Sealed!Places(t) :
    boxes[t] # Missing /\ p \in boxes[t].chunks /\ x = Sealed!SealedChunk(key, t, p[1], p[2])

\* An envelope carries the salt of its transfer, and was sealed for it.
EnvelopeSound(boxes, e) ==
  \E key \in MasterKeys, t \in Transfer, purpose \in {"manifest", "descriptor"} :
    /\ boxes[t] # Missing
    /\ e = [salt |-> boxes[t].salt, prefix |-> Sealed!Prefix(t, purpose),
            cipher |-> Sealed!SealedMeta(key, t, purpose)]

\* A transfer key is sealed for the recipient of its transfer.
AddressSound(boxes, x) ==
  \E t \in Transfer, b \in Bundle :
    /\ boxes[t] # Missing /\ boxes[t].recipient = b
    /\ x = Sealed!SealFor(b, Sealed!ShareKey(t), Sealed!RecipientAad(t, b))

\* The local copy of a note is sealed as that of its transfer.
NoteSound(boxes, t) ==
  boxes[t] # Missing /\ boxes[t].note # Missing =>
    \E key \in MasterKeys : boxes[t].note = Sealed!SealedNote(key, t)

SealTyped ==
  /\ parcel \in [Transfer -> Parcels \cup {Missing}]
  /\ \A t \in Transfer : parcel[t] # Missing => parcel[t].chunks \subseteq Sealed!Places(t)
  /\ master \in [Transfer -> MasterKeys \cup {Missing}]
  /\ halts \in 0..MaxStops

\* A receiver reads a transfer that was begun.
ReaderTyped ==
  reader # Missing =>
    /\ reader = [t |-> reader.t, bundle |-> reader.bundle, master |-> reader.master,
                 items |-> reader.items, list |-> reader.list, plain |-> reader.plain]
    /\ reader.t \in Transfer /\ parcel[reader.t] # Missing

StoreSound ==
  /\ \A x \in chunks : ChunkSound(parcel, x)
  /\ \A e \in envelopes : EnvelopeSound(parcel, e)
  /\ \A x \in addressed : AddressSound(parcel, x)
  /\ \A t \in Transfer : NoteSound(parcel, t)

ReaderSound ==
  ReaderTyped /\ Sealed!ReceivedExact /\ Sealed!KeyRequired /\ Sealed!ListingMatched

\* The items of a manifest are those of a listing.
Matched(items, list) ==
  /\ {items[k].id : k \in DOMAIN items} = {list[k].id : k \in DOMAIN list}
  /\ \A k \in DOMAIN items : \E n \in DOMAIN list :
       list[n].id = items[k].id /\ list[n].count = items[k].count

\* Everything stored was sealed for a place of a transfer that was begun, and the
\* checkpoint of a transfer keeps what its objects were sealed with.
SealInv == SealTyped /\ StoreSound /\ ReaderSound

\* What begun transfers keep: salt, recipient, note and the places already sealed.
Kept(boxes, next) ==
  \A t \in Transfer : boxes[t] # Missing =>
    /\ next[t] # Missing
    /\ next[t].salt = boxes[t].salt /\ next[t].recipient = boxes[t].recipient
    /\ next[t].note = boxes[t].note /\ boxes[t].chunks \subseteq next[t].chunks

\* A ciphertext has the parts it was made of.
LEMMA CipherParts ==
  ASSUME NEW key, NEW nonce, NEW aad, NEW text
  PROVE  /\ Sealed!Encrypt(key, nonce, aad, text).key = key /\ Sealed!Encrypt(key, nonce, aad, text).nonce = nonce
         /\ Sealed!Encrypt(key, nonce, aad, text).aad = aad /\ Sealed!Encrypt(key, nonce, aad, text).plain = text
BY DEF Sealed!Encrypt

\* A place is an item and an index of one of its chunks, which no manifest index is.
LEMMA PlaceShape ==
  ASSUME SealingConstants, NEW t \in Transfer, NEW p \in Sealed!Places(t)
  PROVE  p = <<p[1], p[2]>> /\ p[2] # -1
<1>1. PICK k \in DOMAIN Content[t] : \E c \in 0..(Sealed!ChunkCount(Content[t][k].size) - 1) : p = <<Content[t][k].id, c>>
  BY DEF Sealed!Places
<1>2. PICK c \in 0..(Sealed!ChunkCount(Content[t][k].size) - 1) : p = <<Content[t][k].id, c>>
  BY <1>1
<1>3. c # -1
  OBVIOUS
<1>. QED  BY <1>2, <1>3

\* What is sealed stays sound while transfers keep what they were begun with.
LEMMA SoundKept ==
  ASSUME NEW boxes, NEW next, Kept(boxes, next)
  PROVE  /\ \A x : ChunkSound(boxes, x) => ChunkSound(next, x)
         /\ \A e : EnvelopeSound(boxes, e) => EnvelopeSound(next, e)
         /\ \A x : AddressSound(boxes, x) => AddressSound(next, x)
         /\ \A t \in Transfer : boxes[t] # Missing /\ NoteSound(boxes, t) => NoteSound(next, t)
<1>1. \A x : ChunkSound(boxes, x) => ChunkSound(next, x)
  BY DEF ChunkSound, Kept
<1>2. \A e : EnvelopeSound(boxes, e) => EnvelopeSound(next, e)
  BY DEF EnvelopeSound, Kept
<1>3. \A x : AddressSound(boxes, x) => AddressSound(next, x)
  BY DEF AddressSound, Kept
<1>4. \A t \in Transfer : boxes[t] # Missing /\ NoteSound(boxes, t) => NoteSound(next, t)
  BY DEF NoteSound, Kept
<1>. QED  BY <1>1, <1>2, <1>3, <1>4

\* ListingMatched, of the manifest and the listing a receiver has.
LEMMA MatchedReader ==
  /\ Sealed!ListingMatched <=> (reader # Missing => Matched(reader.items, reader.list))
  /\ Sealed!ListingMatched' <=> (reader' # Missing => Matched(reader'.items, reader'.list))
<1>1. Sealed!ListingMatched <=> (reader # Missing => Matched(reader.items, reader.list))
  BY Zenon DEF Sealed!ListingMatched, Matched
<1>2. Sealed!ListingMatched' <=> (reader' # Missing => Matched(reader'.items, reader'.list))
  BY Zenon DEF Sealed!ListingMatched, Matched
<1>. QED  BY <1>1, <1>2

\* What is stored stays sound when what is added is.
LEMMA StoreGrows ==
  ASSUME StoreSound, Kept(parcel, parcel'),
         \A x \in chunks' : x \in chunks \/ ChunkSound(parcel', x),
         \A e \in envelopes' : e \in envelopes \/ EnvelopeSound(parcel', e),
         \A x \in addressed' : x \in addressed \/ AddressSound(parcel', x),
         \A t \in Transfer : parcel[t] = Missing => NoteSound(parcel', t)
  PROVE  StoreSound'
<1>1. \A x \in chunks' : ChunkSound(parcel', x)
  BY SoundKept DEF StoreSound
<1>2. \A e \in envelopes' : EnvelopeSound(parcel', e)
  BY SoundKept DEF StoreSound
<1>3. \A x \in addressed' : AddressSound(parcel', x)
  BY SoundKept DEF StoreSound
<1>4. \A t \in Transfer : NoteSound(parcel', t)
  BY SoundKept DEF StoreSound
<1>. QED  BY <1>1, <1>2, <1>3, <1>4 DEF StoreSound

\* A receiver is not disturbed by senders.
LEMMA ReaderKept ==
  ASSUME ReaderSound, Kept(parcel, parcel'), reader' = reader
  PROVE  ReaderSound'
<1>1. ReaderTyped'
  BY DEF ReaderSound, ReaderTyped, Kept
<1>2. Sealed!ReceivedExact'
  BY DEF ReaderSound, Sealed!ReceivedExact
<1>3. Sealed!KeyRequired'
  BY DEF ReaderSound, ReaderTyped, Sealed!KeyRequired, Kept
<1>4. Sealed!ListingMatched'
  BY MatchedReader DEF ReaderSound
<1>. QED  BY <1>1, <1>2, <1>3, <1>4 DEF ReaderSound

\* A transfer is begun under a key of its own, and addressed to its recipient.
LEMMA SealBegin ==
  ASSUME SealingConstants, SealInv, NEW t \in Transfer, Sealed!Begin(t)
  PROVE  SealInv'
<1>1. PICK salt \in {Missing, t}, b \in Bundle \cup {Missing}, note \in BOOLEAN :
        /\ b # Missing => salt = Missing
        /\ \E w \in (IF note THEN Sealed!Typed(salt) ELSE {Missing}) :
             /\ master' = [master EXCEPT ![t] = IF note THEN Sealed!MasterKey(Sealed!ShareKey(t), salt, w) ELSE Missing]
             /\ parcel' = [parcel EXCEPT ![t] =
                  [salt |-> salt, recipient |-> b, chunks |-> {},
                   note |-> IF note THEN Sealed!SealedNote(Sealed!MasterKey(Sealed!ShareKey(t), salt, w), t) ELSE Missing,
                   descriptor |-> FALSE, manifest |-> FALSE]]
        /\ addressed' = addressed \cup
             (IF b = Missing THEN {} ELSE {Sealed!SealFor(b, Sealed!ShareKey(t), Sealed!RecipientAad(t, b))})
  BY Zenon DEF Sealed!Begin
<1>2. PICK w \in (IF note THEN Sealed!Typed(salt) ELSE {Missing}) :
        /\ master' = [master EXCEPT ![t] = IF note THEN Sealed!MasterKey(Sealed!ShareKey(t), salt, w) ELSE Missing]
        /\ parcel' = [parcel EXCEPT ![t] =
             [salt |-> salt, recipient |-> b, chunks |-> {},
              note |-> IF note THEN Sealed!SealedNote(Sealed!MasterKey(Sealed!ShareKey(t), salt, w), t) ELSE Missing,
              descriptor |-> FALSE, manifest |-> FALSE]]
  BY <1>1
<1> DEFINE key == Sealed!MasterKey(Sealed!ShareKey(t), salt, w)
           letter == IF note THEN Sealed!SealedNote(key, t) ELSE Missing
           rec == [salt |-> salt, recipient |-> b, chunks |-> {}, note |-> letter,
                   descriptor |-> FALSE, manifest |-> FALSE]
<1>3. key \in MasterKeys
  <2>1. w \in Password \cup {Missing}
    BY DEF Sealed!Typed
  <2>. QED  BY <2>1 DEF MasterKeys
<1>4. master' = [master EXCEPT ![t] = IF note THEN key ELSE Missing] /\ parcel' = [parcel EXCEPT ![t] = rec]
  BY <1>2
<1> HIDE DEF key
<1>5. letter = Missing \/ letter = Sealed!SealedNote(key, t)
  OBVIOUS
<1>6. letter \in {Sealed!SealedNote(k, u) : k \in MasterKeys, u \in Transfer} \cup {Missing}
  BY <1>3, <1>5
<1> HIDE DEF letter
<1>7. /\ rec \in Parcels /\ rec.salt = salt /\ rec.recipient = b /\ rec.chunks = {} /\ rec.note = letter
  BY <1>6 DEF Parcels
<1>8. rec # Missing
  BY <1>7 DEF SealingConstants
<1> HIDE DEF rec
<1>9. parcel[t] = Missing /\ UNCHANGED <<chunks, envelopes, reader, halts>>
  BY DEF Sealed!Begin
<1>10. Kept(parcel, parcel')
  BY <1>4, <1>9 DEF Kept, SealInv, SealTyped
<1>11. SealTyped'
  <2>1. parcel' \in [Transfer -> Parcels \cup {Missing}]
    BY <1>4, <1>7 DEF SealInv, SealTyped
  <2>2. \A u \in Transfer : parcel'[u] # Missing => parcel'[u].chunks \subseteq Sealed!Places(u)
    BY <1>4, <1>7 DEF SealInv, SealTyped
  <2>3. master' \in [Transfer -> MasterKeys \cup {Missing}]
    BY <1>4, <1>3 DEF SealInv, SealTyped
  <2>. QED  BY <2>1, <2>2, <2>3, <1>9 DEF SealInv, SealTyped
<1>12. parcel'[t] = rec
  BY <1>4 DEF SealInv, SealTyped
<1>13. \A x \in addressed' : x \in addressed \/ AddressSound(parcel', x)
  BY <1>1, <1>7, <1>8, <1>12 DEF AddressSound
<1>14. \A u \in Transfer : parcel[u] = Missing => NoteSound(parcel', u)
  <2>1. NoteSound(parcel', t)
    BY <1>3, <1>5, <1>7, <1>12 DEF NoteSound
  <2>2. \A u \in Transfer : parcel[u] = Missing /\ u # t => parcel'[u] = Missing
    BY <1>4 DEF SealInv, SealTyped
  <2>. QED  BY <2>1, <2>2 DEF NoteSound
<1>15. StoreSound'
  BY <1>9, <1>10, <1>13, <1>14, StoreGrows DEF SealInv
<1>16. ReaderSound'
  BY <1>9, <1>10, ReaderKept DEF SealInv
<1>. QED  BY <1>11, <1>15, <1>16 DEF SealInv

\* The password of a resumed job gives a key, whichever it is.
LEMMA SealUnlock ==
  ASSUME SealInv, NEW t \in Transfer, Sealed!Unlock(t)
  PROVE  SealInv'
<1>1. PICK w \in Sealed!Typed(parcel[t].salt) :
        master' = [master EXCEPT ![t] = Sealed!MasterKey(Sealed!ShareKey(t), parcel[t].salt, w)]
  BY DEF Sealed!Unlock
<1>2. UNCHANGED <<parcel, chunks, envelopes, addressed, reader, halts>> /\ parcel[t] # Missing
  BY DEF Sealed!Unlock
<1>3. w \in Password \cup {Missing}
  BY DEF Sealed!Typed
<1>4. parcel[t].salt \in Transfer \cup {Missing}
  BY <1>2 DEF SealInv, SealTyped, Parcels
<1>5. Sealed!MasterKey(Sealed!ShareKey(t), parcel[t].salt, w) \in MasterKeys
  BY <1>3, <1>4 DEF MasterKeys
<1>6. SealTyped'
  BY <1>1, <1>2, <1>5 DEF SealInv, SealTyped
<1>7. Kept(parcel, parcel')
  BY <1>2 DEF Kept
<1>8. StoreSound'
  BY <1>2 DEF SealInv, StoreSound
<1>9. ReaderSound'
  BY <1>2, <1>7, ReaderKept DEF SealInv
<1>. QED  BY <1>6, <1>8, <1>9 DEF SealInv

\* A checkpoint whose flags change and whose places grow keeps the rest.
LEMMA ParcelGrows ==
  ASSUME SealingConstants, SealInv, NEW t \in Transfer, parcel[t] # Missing,
         NEW rec \in Parcels, rec.salt = parcel[t].salt, rec.recipient = parcel[t].recipient,
         rec.note = parcel[t].note, parcel[t].chunks \subseteq rec.chunks,
         rec.chunks \subseteq Sealed!Places(t),
         parcel' = [parcel EXCEPT ![t] = rec],
         master' \in [Transfer -> MasterKeys \cup {Missing}], halts' = halts
  PROVE  SealTyped' /\ Kept(parcel, parcel') /\ parcel'[t] = rec
<1>1. rec # Missing
  BY DEF SealingConstants
<1>2. parcel'[t] = rec /\ \A u \in Transfer : u # t => parcel'[u] = parcel[u]
  BY DEF SealInv, SealTyped
<1>3. Kept(parcel, parcel')
  BY <1>1, <1>2 DEF Kept
<1>4. parcel' \in [Transfer -> Parcels \cup {Missing}]
  BY DEF SealInv, SealTyped
<1>5. \A u \in Transfer : parcel'[u] # Missing => parcel'[u].chunks \subseteq Sealed!Places(u)
  BY <1>2 DEF SealInv, SealTyped
<1>. QED  BY <1>2, <1>3, <1>4, <1>5 DEF SealInv, SealTyped

\* A chunk is sealed for the place that is recorded.
LEMMA SealOneChunk ==
  ASSUME SealingConstants, SealInv, NEW t \in Transfer, Sealed!SealChunk(t)
  PROVE  SealInv'
<1>1. PICK p \in Sealed!Places(t) \ parcel[t].chunks :
        /\ parcel' = [parcel EXCEPT ![t].chunks = @ \cup {p}]
        /\ chunks' = chunks \cup {Sealed!SealedChunk(master[t], t, p[1], p[2])}
  BY DEF Sealed!SealChunk
<1>2. /\ parcel[t] # Missing /\ master[t] # Missing
      /\ UNCHANGED <<master, envelopes, addressed, reader, halts>>
  BY DEF Sealed!SealChunk
<1>3. parcel[t] \in Parcels /\ master[t] \in MasterKeys /\ parcel[t].chunks \subseteq Sealed!Places(t)
  BY <1>2 DEF SealInv, SealTyped
<1> DEFINE rec == [parcel[t] EXCEPT !.chunks = @ \cup {p}]
<1>4. p \in UNION {Sealed!Places(u) : u \in Transfer}
  BY <1>1
<1>5. /\ rec \in Parcels /\ rec.salt = parcel[t].salt /\ rec.recipient = parcel[t].recipient
      /\ rec.note = parcel[t].note /\ rec.chunks = parcel[t].chunks \cup {p}
  BY <1>3, <1>4 DEF Parcels
<1>6. parcel' = [parcel EXCEPT ![t] = rec]
  BY <1>1
<1> HIDE DEF rec
<1>7. master' \in [Transfer -> MasterKeys \cup {Missing}]
  BY <1>2 DEF SealInv, SealTyped
<1>8. SealTyped' /\ Kept(parcel, parcel') /\ parcel'[t] = rec
  <2>1. rec.chunks \subseteq Sealed!Places(t) /\ parcel[t].chunks \subseteq rec.chunks
    BY <1>1, <1>3, <1>5
  <2>. QED  BY <1>2, <1>5, <1>6, <1>7, <2>1, ParcelGrows
<1>9. ChunkSound(parcel', Sealed!SealedChunk(master[t], t, p[1], p[2]))
  <2>1. parcel'[t] # Missing /\ p \in parcel'[t].chunks
    BY <1>2, <1>5, <1>8 DEF Kept
  <2>. QED  BY <1>1, <1>3, <2>1 DEF ChunkSound
<1>10. \A u \in Transfer : parcel[u] = Missing => NoteSound(parcel', u)
  BY <1>2, <1>6 DEF SealInv, SealTyped, NoteSound
<1>11. StoreSound'
  BY <1>1, <1>2, <1>8, <1>9, <1>10, StoreGrows DEF SealInv
<1>12. ReaderSound'
  BY <1>2, <1>8, ReaderKept DEF SealInv
<1>. QED  BY <1>8, <1>11, <1>12 DEF SealInv

\* An envelope is sealed with the salt and for the transfer of its checkpoint.
LEMMA SealEnvelope ==
  ASSUME SealingConstants, SealInv, NEW t \in Transfer, parcel[t] # Missing, master[t] # Missing,
         NEW purpose \in {"manifest", "descriptor"},
         NEW rec \in Parcels, rec.salt = parcel[t].salt, rec.recipient = parcel[t].recipient,
         rec.note = parcel[t].note, rec.chunks = parcel[t].chunks,
         parcel' = [parcel EXCEPT ![t] = rec],
         master' \in [Transfer -> MasterKeys \cup {Missing}],
         envelopes' = envelopes \cup
           {[salt |-> parcel[t].salt, prefix |-> Sealed!Prefix(t, purpose),
             cipher |-> Sealed!SealedMeta(master[t], t, purpose)]},
         UNCHANGED <<chunks, addressed, reader, halts>>
  PROVE  SealInv'
<1>1. master[t] \in MasterKeys /\ parcel[t].chunks \subseteq Sealed!Places(t)
  BY DEF SealInv, SealTyped
<1>2. SealTyped' /\ Kept(parcel, parcel') /\ parcel'[t] = rec
  BY <1>1, ParcelGrows
<1> DEFINE e == [salt |-> parcel[t].salt, prefix |-> Sealed!Prefix(t, purpose),
                 cipher |-> Sealed!SealedMeta(master[t], t, purpose)]
<1>3. EnvelopeSound(parcel', e)
  <2>1. parcel'[t] # Missing /\ parcel'[t].salt = parcel[t].salt
    BY <1>2 DEF Kept
  <2>. QED  BY <1>1, <2>1 DEF EnvelopeSound
<1>4. envelopes' = envelopes \cup {e}
  OBVIOUS
<1> HIDE DEF e
<1>5. \A u \in Transfer : parcel[u] = Missing => NoteSound(parcel', u)
  BY DEF SealInv, SealTyped, NoteSound
<1>6. StoreSound'
  BY <1>2, <1>3, <1>4, <1>5, StoreGrows DEF SealInv
<1>7. ReaderSound'
  BY <1>2, ReaderKept DEF SealInv
<1>. QED  BY <1>2, <1>6, <1>7 DEF SealInv

\* A flag of a checkpoint is set, and the rest of it stays.
LEMMA FlagSet ==
  ASSUME NEW box \in Parcels, NEW flag \in BOOLEAN
  PROVE  /\ [box EXCEPT !.descriptor = flag] \in Parcels
         /\ [box EXCEPT !.descriptor = flag].salt = box.salt /\ [box EXCEPT !.descriptor = flag].recipient = box.recipient
         /\ [box EXCEPT !.descriptor = flag].note = box.note /\ [box EXCEPT !.descriptor = flag].chunks = box.chunks
         /\ [box EXCEPT !.manifest = flag] \in Parcels
         /\ [box EXCEPT !.manifest = flag].salt = box.salt /\ [box EXCEPT !.manifest = flag].recipient = box.recipient
         /\ [box EXCEPT !.manifest = flag].note = box.note /\ [box EXCEPT !.manifest = flag].chunks = box.chunks
BY DEF Parcels

\* The descriptor, and the manifest, after which the key is forgotten.
LEMMA SealMetas ==
  ASSUME SealingConstants, SealInv, NEW t \in Transfer,
         Sealed!SealDescriptor(t) \/ Sealed!SealManifest(t)
  PROVE  SealInv'
<1>1. CASE Sealed!SealDescriptor(t)
  <2>1. parcel[t] # Missing /\ master[t] # Missing
    BY <1>1 DEF Sealed!SealDescriptor
  <2>2. parcel[t] \in Parcels
    BY <2>1 DEF SealInv, SealTyped
  <2> DEFINE rec == [parcel[t] EXCEPT !.descriptor = TRUE]
  <2>3. /\ rec \in Parcels /\ rec.salt = parcel[t].salt /\ rec.recipient = parcel[t].recipient
        /\ rec.note = parcel[t].note /\ rec.chunks = parcel[t].chunks
    BY <2>2, FlagSet
  <2>4. parcel' = [parcel EXCEPT ![t] = rec] /\ UNCHANGED <<chunks, addressed, reader, halts>>
    BY <1>1 DEF Sealed!SealDescriptor
  <2> HIDE DEF rec
  <2>5. master' \in [Transfer -> MasterKeys \cup {Missing}]
    BY <1>1 DEF Sealed!SealDescriptor, SealInv, SealTyped
  <2>6. envelopes' = envelopes \cup
          {[salt |-> parcel[t].salt, prefix |-> Sealed!Prefix(t, "descriptor"),
            cipher |-> Sealed!SealedMeta(master[t], t, "descriptor")]}
    BY <1>1 DEF Sealed!SealDescriptor
  <2>7. "descriptor" \in {"manifest", "descriptor"}
    OBVIOUS
  <2>. QED  BY <2>1, <2>3, <2>4, <2>5, <2>6, <2>7, SealEnvelope, Zenon
<1>2. CASE Sealed!SealManifest(t)
  <2>1. parcel[t] # Missing /\ master[t] # Missing
    BY <1>2 DEF Sealed!SealManifest
  <2>2. parcel[t] \in Parcels
    BY <2>1 DEF SealInv, SealTyped
  <2> DEFINE rec == [parcel[t] EXCEPT !.manifest = TRUE]
  <2>3. /\ rec \in Parcels /\ rec.salt = parcel[t].salt /\ rec.recipient = parcel[t].recipient
        /\ rec.note = parcel[t].note /\ rec.chunks = parcel[t].chunks
    BY <2>2, FlagSet
  <2>4. parcel' = [parcel EXCEPT ![t] = rec] /\ UNCHANGED <<chunks, addressed, reader, halts>>
    BY <1>2 DEF Sealed!SealManifest
  <2> HIDE DEF rec
  <2>5. master' \in [Transfer -> MasterKeys \cup {Missing}]
    BY <1>2 DEF Sealed!SealManifest, SealInv, SealTyped
  <2>6. envelopes' = envelopes \cup
          {[salt |-> parcel[t].salt, prefix |-> Sealed!Prefix(t, "manifest"),
            cipher |-> Sealed!SealedMeta(master[t], t, "manifest")]}
    BY <1>2 DEF Sealed!SealManifest
  <2>7. "manifest" \in {"manifest", "descriptor"}
    OBVIOUS
  <2>. QED  BY <2>1, <2>3, <2>4, <2>5, <2>6, <2>7, SealEnvelope, Zenon
<1>. QED  BY <1>1, <1>2

\* The key of a process that ends is gone, and nothing else.
LEMMA SealStop ==
  ASSUME SealingConstants, SealInv, NEW t \in Transfer, Sealed!Stop(t)
  PROVE  SealInv'
<1>1. UNCHANGED <<parcel, chunks, envelopes, addressed, reader>>
  BY DEF Sealed!Stop
<1>2. master' \in [Transfer -> MasterKeys \cup {Missing}] /\ halts' \in 0..MaxStops
  BY DEF Sealed!Stop, SealInv, SealTyped, SealingConstants
<1>3. SealTyped'
  BY <1>1, <1>2 DEF SealInv, SealTyped
<1>4. StoreSound'
  BY <1>1 DEF SealInv, StoreSound
<1>5. ReaderSound'
  BY <1>1, ReaderKept DEF SealInv, Kept
<1>. QED  BY <1>3, <1>4, <1>5 DEF SealInv

\* A function over the first numbers is a sequence.
LEMMA SequenceShape ==
  ASSUME NEW n \in Nat, NEW s, DOMAIN s = 1..n, s = [k \in 1..n |-> s[k]]
  PROVE  s \in Seq({s[k] : k \in 1..n}) /\ Len(s) = n
<1>1. s \in [1..n -> {s[k] : k \in 1..n}]
  OBVIOUS
<1>. QED  BY <1>1

\* The manifest of a transfer has its files, in order.
LEMMA ManifestShape ==
  ASSUME SealingConstants, NEW t \in Transfer
  PROVE  /\ Len(Sealed!ManifestItems(t)) = Len(Content[t])
         /\ DOMAIN Sealed!ManifestItems(t) = 1..Len(Content[t])
<1> DEFINE n == Len(Content[t])
           s == Sealed!ManifestItems(t)
<1>1. n \in Nat /\ DOMAIN s = 1..n /\ s = [k \in 1..n |-> s[k]]
  BY DEF SealingConstants, Sealed!ManifestItems
<1> HIDE DEF n, s
<1>2. Len(s) = n
  BY <1>1, SequenceShape
<1>. QED  BY <1>1, <1>2 DEF n, s

\* A listing is a sequence, whatever the server made of it.
LEMMA ListingShape ==
  ASSUME SealingConstants, NEW t \in Transfer, NEW list \in Sealed!Listings(t)
  PROVE  Len(list) \in Nat /\ DOMAIN list = 1..Len(list)
<1> DEFINE n == Len(Content[t])
           s == Sealed!Listed(t)
<1>1. n \in Nat \ {0} /\ DOMAIN s = 1..n /\ s = [k \in 1..n |-> s[k]]
  BY DEF SealingConstants, Sealed!Listed
<1>2. \/ list = s \/ list = Tail(s) \/ list = [s EXCEPT ![Len(s)] = s[1]] \/ list = [s EXCEPT ![1].count = @ + 1]
      \/ \E u \in Transfer : list = [s EXCEPT ![1].id = Sealed!Listed(u)[1].id]
  BY DEF Sealed!Listings
<1> HIDE DEF n, s
<1>3. s \in Seq({s[k] : k \in 1..n}) /\ Len(s) = n
  BY <1>1, SequenceShape
<1>4. CASE list = Tail(s)
  <2>1. s # <<>>
    BY <1>1, <1>3
  <2>2. Tail(s) \in Seq({s[k] : k \in 1..n})
    BY <1>3, <2>1, HeadTailProperties
  <2>. QED  BY <2>2, <1>4
<1>5. CASE list # Tail(s)
  <2>1. DOMAIN list = 1..n /\ list = [k \in 1..n |-> list[k]]
    BY <1>1, <1>2, <1>5
  <2>2. Len(list) = n
    BY <1>1, <2>1, SequenceShape
  <2>. QED  BY <1>1, <2>1, <2>2
<1>. QED  BY <1>4, <1>5

\* As many distinct items as the listing has entries, each of them in it: all of it.
LEMMA AcceptsMatched ==
  ASSUME NEW items, NEW list, NEW purpose, Len(items) \in Nat, DOMAIN items = 1..Len(items),
         DOMAIN list = 1..Len(list), Sealed!Accepts(purpose, items, list)
  PROVE  Matched(items, list)
<1> DEFINE n == Len(items)
           A == {items[k].id : k \in 1..n}
           B == {list[k].id : k \in 1..n}
           f == [k \in 1..n |-> items[k].id]
           g == [k \in 1..n |-> list[k].id]
<1>1. n \in Nat /\ Len(list) = n /\ DOMAIN items = 1..n /\ DOMAIN list = 1..n
  BY DEF Sealed!Accepts
<1>2. \A k \in 1..n : \E m \in 1..n : list[m].id = items[k].id /\ list[m].count = items[k].count
  BY <1>1 DEF Sealed!Accepts, Sealed!ItemValid
<1>3. \A k \in 1..n : \A m \in 1..(k - 1) : items[m].id # items[k].id
  BY <1>1 DEF Sealed!Accepts, Sealed!ItemValid
<1> HIDE DEF n
<1>4. \A k, m \in 1..n : items[k].id = items[m].id => k = m
  BY <1>1, <1>3
<1>5. f \in Surjection(1..n, A) /\ f \in Injection(1..n, A)
  BY <1>4 DEF Surjection, Injection, IsInjective
<1>6. g \in Surjection(1..n, B)
  BY DEF Surjection
<1>7. IsFiniteSet(1..n)
  BY <1>1, FS_Interval
<1>8. A \in SUBSET B
  BY <1>2
<1> HIDE DEF A, B, f, g
<1>9. Cardinality(A) = Cardinality(1..n)
  BY <1>5, <1>7, FS_Surjection
<1>10. IsFiniteSet(B) /\ Cardinality(B) <= Cardinality(1..n)
  BY <1>6, <1>7, FS_Surjection
<1>11. Cardinality(A) <= Cardinality(B) /\ (Cardinality(B) = Cardinality(A) => B = A)
  BY <1>8, <1>10, FS_Subset
<1>12. Cardinality(B) \in Nat /\ Cardinality(1..n) \in Nat
  BY <1>7, <1>10, FS_CardinalityType
<1>13. A = B
  BY <1>9, <1>10, <1>11, <1>12
<1>. QED  BY <1>1, <1>2, <1>13 DEF Matched, A, B

\* An envelope that opens as that of t was sealed for t: its items and its salt are.
LEMMA OpenedEnvelope ==
  ASSUME SealInv, NEW t \in Transfer, NEW e \in envelopes, NEW key,
         NEW purpose \in {"manifest", "descriptor"}, Sealed!Opens(e, key, t, purpose)
  PROVE  parcel[t] # Missing /\ e.salt = parcel[t].salt /\ e.cipher.plain.items = Sealed!ManifestItems(t)
<1>1. PICK k \in MasterKeys, u \in Transfer, use \in {"manifest", "descriptor"} :
        /\ parcel[u] # Missing
        /\ e = [salt |-> parcel[u].salt, prefix |-> Sealed!Prefix(u, use),
                cipher |-> Sealed!SealedMeta(k, u, use)]
  BY DEF SealInv, StoreSound, EnvelopeSound
<1>2. e.salt = parcel[u].salt /\ e.cipher = Sealed!SealedMeta(k, u, use)
  BY <1>1
<1>3. /\ e.cipher.aad = Sealed!Aad(u, use, Sealed!ManifestIndex)
      /\ e.cipher.plain.items = Sealed!ManifestItems(u)
  <2> DEFINE text == [purpose |-> use, items |-> Sealed!ManifestItems(u)]
  <2>1. text.items = Sealed!ManifestItems(u)
    OBVIOUS
  <2>2. e.cipher = Sealed!Encrypt(k, Sealed!Nonce(Sealed!Prefix(u, use), Sealed!ManifestIndex),
                                  Sealed!Aad(u, use, Sealed!ManifestIndex), text)
    BY <1>2 DEF Sealed!SealedMeta, Sealed!MetaAad
  <2> HIDE DEF text
  <2>. QED  BY <2>1, <2>2, CipherParts
<1>4. e.cipher.aad = Sealed!Aad(t, purpose, Sealed!ManifestIndex)
  BY DEF Sealed!Opens, Sealed!Decrypts, Sealed!MetaAad
<1>5. u = t
  <2>1. Sealed!Aad(u, use, Sealed!ManifestIndex) = Sealed!Aad(t, purpose, Sealed!ManifestIndex)
    BY <1>3, <1>4
  <2>. QED  BY <2>1 DEF Sealed!Aad
<1>. QED  BY <1>1, <1>2, <1>3, <1>5

\* What a receiver starts with.
LEMMA ReaderOpens ==
  ASSUME SealingConstants, SealInv, NEW t \in Transfer, NEW e \in envelopes, NEW key, NEW b,
         NEW purpose \in {"manifest", "descriptor"}, NEW list \in Sealed!Listings(t),
         Sealed!Opens(e, key, t, purpose), Sealed!Accepts(purpose, e.cipher.plain.items, list),
         b # Missing => parcel[t].recipient = b,
         parcel[t].salt # Missing =>
           \E w \in Password :
             key = Sealed!ProtectedKey(Sealed!ShareKey(t), Sealed!PasswordKey(w, parcel[t].salt)),
         reader' = Sealed!Received(t, b, key, e.cipher.plain.items, list),
         UNCHANGED <<parcel, master, chunks, envelopes, addressed, halts>>
  PROVE  SealInv'
<1>1. parcel[t] # Missing /\ e.cipher.plain.items = Sealed!ManifestItems(t)
  BY OpenedEnvelope
<1> DEFINE items == Sealed!ManifestItems(t)
<1>2. /\ reader'.t = t /\ reader'.bundle = b /\ reader'.master = key /\ reader'.items = items
      /\ reader'.list = list /\ reader'.plain = {}
      /\ reader' = [t |-> reader'.t, bundle |-> reader'.bundle, master |-> reader'.master,
                    items |-> reader'.items, list |-> reader'.list, plain |-> reader'.plain]
  BY <1>1 DEF Sealed!Received
<1>3. Matched(items, list)
  <2>1. Len(items) \in Nat /\ DOMAIN items = 1..Len(items)
    BY ManifestShape DEF SealingConstants
  <2>2. DOMAIN list = 1..Len(list)
    BY ListingShape
  <2>3. Sealed!Accepts(purpose, items, list)
    BY <1>1
  <2> HIDE DEF items
  <2>. QED  BY <2>1, <2>2, <2>3, AcceptsMatched
<1> HIDE DEF items
<1>4. ReaderTyped'
  BY <1>1, <1>2 DEF ReaderTyped
<1>5. Sealed!ReceivedExact'
  BY <1>2 DEF Sealed!ReceivedExact, items
<1>6. Sealed!KeyRequired'
  BY <1>2 DEF Sealed!KeyRequired
<1>7. Sealed!ListingMatched'
  BY <1>2, <1>3, MatchedReader
<1>8. SealTyped' /\ StoreSound'
  BY DEF SealInv, SealTyped, StoreSound
<1>. QED  BY <1>4, <1>5, <1>6, <1>7, <1>8 DEF SealInv, ReaderSound

\* A link opens the transfer it names, with the password of its salt.
LEMMA SealOpenLink ==
  ASSUME SealingConstants, SealInv, NEW t \in Transfer, Sealed!OpenLink(t)
  PROVE  SealInv'
<1>1. PICK e \in envelopes, purpose \in {"manifest", "descriptor"}, list \in Sealed!Listings(t) :
        \E w \in Sealed!Typed(e.salt) :
          /\ Sealed!Opens(e, Sealed!MasterKey(Sealed!ShareKey(t), e.salt, w), t, purpose)
          /\ Sealed!Accepts(purpose, e.cipher.plain.items, list)
          /\ reader' = Sealed!Received(t, Missing, Sealed!MasterKey(Sealed!ShareKey(t), e.salt, w),
                                       e.cipher.plain.items, list)
  BY Zenon DEF Sealed!OpenLink
<1>2. PICK w \in Sealed!Typed(e.salt) :
        /\ Sealed!Opens(e, Sealed!MasterKey(Sealed!ShareKey(t), e.salt, w), t, purpose)
        /\ Sealed!Accepts(purpose, e.cipher.plain.items, list)
        /\ reader' = Sealed!Received(t, Missing, Sealed!MasterKey(Sealed!ShareKey(t), e.salt, w),
                                     e.cipher.plain.items, list)
  BY <1>1
<1> DEFINE key == Sealed!MasterKey(Sealed!ShareKey(t), e.salt, w)
           b == Missing
<1>3. parcel[t].salt # Missing =>
        \E v \in Password : key = Sealed!ProtectedKey(Sealed!ShareKey(t), Sealed!PasswordKey(v, parcel[t].salt))
  <2>1. e.salt = parcel[t].salt
    BY <1>2, OpenedEnvelope
  <2>2. e.salt # Missing => w \in Password
    BY DEF Sealed!Typed
  <2>3. e.salt # Missing => key = Sealed!ProtectedKey(Sealed!ShareKey(t), Sealed!PasswordKey(w, e.salt))
    BY DEF Sealed!MasterKey
  <2>. QED  BY <2>1, <2>2, <2>3
<1>4. Sealed!Opens(e, key, t, purpose) /\ reader' = Sealed!Received(t, b, key, e.cipher.plain.items, list)
  BY <1>2
<1>5. UNCHANGED <<parcel, master, chunks, envelopes, addressed, halts>>
  BY DEF Sealed!OpenLink
<1>6. b # Missing => parcel[t].recipient = b
  OBVIOUS
<1> HIDE DEF key, b
<1>. QED  BY <1>2, <1>3, <1>4, <1>5, <1>6, ReaderOpens

\* The inbox opens a transfer for the bundle it was sealed for, and no protected one.
LEMMA SealOpenInbox ==
  ASSUME SealingConstants, SealInv, NEW t \in Transfer, NEW b \in Bundle, Sealed!OpenInbox(t, b)
  PROVE  SealInv'
<1>1. PICK x \in addressed, e \in envelopes, list \in Sealed!Listings(t) :
        /\ Sealed!OpensFor(x, b, Sealed!RecipientAad(t, b)) /\ e.salt = Missing
        /\ Sealed!Opens(e, x.key, t, "manifest")
        /\ Sealed!Accepts("manifest", e.cipher.plain.items, list)
        /\ reader' = Sealed!Received(t, b, x.key, e.cipher.plain.items, list)
  BY Zenon DEF Sealed!OpenInbox
<1>2. parcel[t].recipient = b
  <2>1. PICK u \in Transfer, c \in Bundle :
          /\ parcel[u].recipient = c
          /\ x = Sealed!SealFor(c, Sealed!ShareKey(u), Sealed!RecipientAad(u, c))
    BY DEF SealInv, StoreSound, AddressSound
  <2>2. x.aad = Sealed!RecipientAad(u, c) /\ x.aad = Sealed!RecipientAad(t, b)
    BY <1>1, <2>1 DEF Sealed!SealFor, Sealed!OpensFor
  <2>3. u = t /\ c = b
    BY <2>2 DEF Sealed!RecipientAad
  <2>. QED  BY <2>1, <2>3
<1> DEFINE purpose == "manifest"
<1>3. purpose \in {"manifest", "descriptor"}
  OBVIOUS
<1>4. /\ Sealed!Opens(e, x.key, t, purpose)
      /\ Sealed!Accepts(purpose, e.cipher.plain.items, list)
  BY <1>1
<1> HIDE DEF purpose
<1>5. parcel[t].salt = Missing
  BY <1>1, <1>3, <1>4, OpenedEnvelope
<1>6. UNCHANGED <<parcel, master, chunks, envelopes, addressed, halts>>
  BY DEF Sealed!OpenInbox
<1> DEFINE key == x.key
<1>7. /\ Sealed!Opens(e, key, t, purpose)
      /\ reader' = Sealed!Received(t, b, key, e.cipher.plain.items, list)
  BY <1>1, <1>4
<1> HIDE DEF key
<1>. QED  BY <1>2, <1>3, <1>4, <1>5, <1>6, <1>7, ReaderOpens

\* A ciphertext that opens at a place is that of the place.
LEMMA SealReadChunk ==
  ASSUME SealInv, Sealed!ReadChunk
  PROVE  SealInv'
<1>1. PICK k \in DOMAIN reader.items, x \in chunks :
        \E c \in 0..(reader.items[k].count - 1) :
          /\ <<reader.items[k].id, c>> \notin {<<g[1], g[2]>> : g \in reader.plain}
          /\ Sealed!Decrypts(x, Sealed!ItemKey(reader.master, reader.t, reader.items[k].id),
                             Sealed!Nonce(reader.items[k].prefix, c),
                             Sealed!Aad(reader.t, reader.items[k].id, c))
          /\ x.plain.len = Sealed!PlaintextLen(reader.items[k].size, c)
          /\ reader' = [reader EXCEPT !.plain = @ \cup {<<reader.items[k].id, c, x.plain>>}]
  BY Zenon DEF Sealed!ReadChunk
<1>2. PICK c : /\ x.aad = Sealed!Aad(reader.t, reader.items[k].id, c)
               /\ reader' = [reader EXCEPT !.plain = @ \cup {<<reader.items[k].id, c, x.plain>>}]
  BY <1>1 DEF Sealed!Decrypts
<1>3. reader # Missing /\ UNCHANGED <<parcel, master, chunks, envelopes, addressed, halts>>
  BY DEF Sealed!ReadChunk
<1>4. x.plain = Sealed!ChunkText(reader.t, reader.items[k].id, c)
  <2>1. PICK key \in MasterKeys, t \in Transfer : \E p \in Sealed!Places(t) : x = Sealed!SealedChunk(key, t, p[1], p[2])
    BY DEF SealInv, StoreSound, ChunkSound
  <2>2. PICK p \in Sealed!Places(t) : x = Sealed!SealedChunk(key, t, p[1], p[2])
    BY <2>1
  <2>3. x.aad = Sealed!Aad(t, p[1], p[2]) /\ x.plain = Sealed!ChunkText(t, p[1], p[2])
    BY <2>2, CipherParts DEF Sealed!SealedChunk
  <2>4. Sealed!Aad(t, p[1], p[2]) = Sealed!Aad(reader.t, reader.items[k].id, c)
    BY <1>2, <2>3
  <2>5. t = reader.t /\ p[1] = reader.items[k].id /\ p[2] = c
    BY <2>4 DEF Sealed!Aad
  <2>. QED  BY <2>3, <2>5
<1> DEFINE piece == <<reader.items[k].id, c, x.plain>>
<1>5. /\ reader'.t = reader.t /\ reader'.bundle = reader.bundle /\ reader'.master = reader.master
      /\ reader'.items = reader.items /\ reader'.list = reader.list
      /\ reader'.plain = reader.plain \cup {piece}
      /\ reader' = [t |-> reader'.t, bundle |-> reader'.bundle, master |-> reader'.master,
                    items |-> reader'.items, list |-> reader'.list, plain |-> reader'.plain]
  BY <1>2, <1>3 DEF SealInv, ReaderSound, ReaderTyped
<1>6. piece[1] = reader.items[k].id /\ piece[2] = c /\ piece[3] = x.plain
  OBVIOUS
<1> HIDE DEF piece
<1>7. ReaderTyped'
  BY <1>3, <1>5 DEF SealInv, ReaderSound, ReaderTyped
<1>8. Sealed!ReceivedExact'
  BY <1>3, <1>4, <1>5, <1>6 DEF SealInv, ReaderSound, Sealed!ReceivedExact
<1>9. Sealed!KeyRequired'
  BY <1>3, <1>5 DEF SealInv, ReaderSound, Sealed!KeyRequired
<1>10. Sealed!ListingMatched'
  BY <1>3, <1>5, MatchedReader DEF SealInv, ReaderSound
<1>11. SealTyped' /\ StoreSound'
  BY <1>3 DEF SealInv, SealTyped, StoreSound
<1>. QED  BY <1>7, <1>8, <1>9, <1>10, <1>11 DEF SealInv, ReaderSound

\* A receiver that closes leaves nothing behind.
LEMMA SealClose ==
  ASSUME SealInv, Sealed!Close
  PROVE  SealInv'
<1>1. reader' = Missing /\ UNCHANGED <<parcel, master, chunks, envelopes, addressed, halts>>
  BY DEF Sealed!Close
<1>2. ReaderSound'
  BY <1>1 DEF ReaderSound, ReaderTyped, Sealed!ReceivedExact, Sealed!KeyRequired, Sealed!ListingMatched
<1>3. SealTyped' /\ StoreSound'
  BY <1>1 DEF SealInv, SealTyped, StoreSound
<1>. QED  BY <1>2, <1>3 DEF SealInv

\* Nothing is stored and nobody reads.
LEMMA SealStart ==
  ASSUME SealingConstants, Sealed!Init
  PROVE  SealInv
<1>1. SealTyped
  BY DEF Sealed!Init, SealTyped, SealingConstants
<1>2. StoreSound
  BY DEF Sealed!Init, StoreSound, NoteSound
<1>3. ReaderSound
  BY DEF Sealed!Init, ReaderSound, ReaderTyped, Sealed!ReceivedExact, Sealed!KeyRequired, Sealed!ListingMatched
<1>. QED  BY <1>1, <1>2, <1>3 DEF SealInv

\* Every step of senders and receivers keeps the invariant.
LEMMA SealNext ==
  ASSUME SealingConstants, SealInv, [Sealed!Next]_sealingVars
  PROVE  SealInv'
<1>1. CASE UNCHANGED sealingVars
  <2>1. UNCHANGED <<parcel, master, chunks, envelopes, addressed, reader, halts>>
    BY <1>1 DEF sealingVars
  <2>2. ReaderSound'
    BY <2>1, ReaderKept DEF SealInv, Kept
  <2>3. SealTyped' /\ StoreSound'
    BY <2>1 DEF SealInv, SealTyped, StoreSound
  <2>. QED  BY <2>2, <2>3 DEF SealInv
<1>2. CASE \E t \in Transfer :
             \/ Sealed!Begin(t) \/ Sealed!Unlock(t) \/ Sealed!SealChunk(t) \/ Sealed!SealDescriptor(t)
             \/ Sealed!SealManifest(t) \/ Sealed!Stop(t)
  BY <1>2, SealBegin, SealUnlock, SealOneChunk, SealMetas, SealStop
<1>3. CASE \E t \in Transfer : Sealed!OpenLink(t) \/ \E b \in Bundle : Sealed!OpenInbox(t, b)
  BY <1>3, SealOpenLink, SealOpenInbox
<1>4. CASE Sealed!ReadChunk \/ Sealed!Close
  BY <1>4, SealReadChunk, SealClose
<1>. QED  BY <1>1, <1>2, <1>3, <1>4 DEF Sealed!Next

\* Whatever is sealed under one key and one nonce is one ciphertext: a chunk has an
\* index no manifest has, and prefixes are drawn for one use.
LEMMA NoncesDiffer ==
  ASSUME SealingConstants, SealInv
  PROVE  Sealed!NonceUnique
<1> DEFINE Chunk(x, key, t, p) == p \in Sealed!Places(t) /\ x = Sealed!SealedChunk(key, t, p[1], p[2])
           Meta(x, key, t, use) == use \in {"manifest", "descriptor"} /\ x = Sealed!SealedMeta(key, t, use)
           Note(x, key, t) == x = Sealed!SealedNote(key, t)
<1>1. \A x \in chunks : \E key, t, p : t \in Transfer /\ Chunk(x, key, t, p)
  BY DEF SealInv, StoreSound, ChunkSound
<1>2. \A x \in Sealed!Metas : \E key, t, use : Meta(x, key, t, use)
  BY DEF SealInv, StoreSound, EnvelopeSound, Sealed!Metas
<1>3. \A x \in Sealed!Notes : \E key, t : Note(x, key, t)
  BY DEF SealInv, StoreSound, NoteSound, Sealed!Notes
<1>4. ASSUME NEW x, NEW key, NEW t \in Transfer, NEW p, Chunk(x, key, t, p)
      PROVE  /\ x.key = Sealed!ItemKey(key, t, p[1])
             /\ x.nonce = Sealed!Nonce(Sealed!Prefix(t, p[1]), p[2]) /\ p[2] # Sealed!ManifestIndex
  <2>1. p[2] # -1
    BY <1>4, PlaceShape
  <2>. QED  BY <1>4, <2>1, CipherParts DEF Sealed!SealedChunk, Sealed!ItemPrefix, Sealed!ManifestIndex
<1>5. ASSUME NEW x, NEW key, NEW t, NEW use, Meta(x, key, t, use)
      PROVE  /\ x.key = key /\ x.nonce = Sealed!Nonce(Sealed!Prefix(t, use), Sealed!ManifestIndex)
             /\ use # "note"
  BY <1>5, CipherParts DEF Sealed!SealedMeta
<1>6. ASSUME NEW x, NEW key, NEW t, Note(x, key, t)
      PROVE  x.key = key /\ x.nonce = Sealed!Nonce(Sealed!Prefix(t, "note"), Sealed!ManifestIndex)
  BY <1>6, CipherParts DEF Sealed!SealedNote
<1> HIDE DEF Chunk, Meta, Note
<1>7. SUFFICES ASSUME NEW x \in chunks \cup Sealed!Metas \cup Sealed!Notes,
                      NEW y \in chunks \cup Sealed!Metas \cup Sealed!Notes,
                      x.key = y.key, x.nonce = y.nonce
               PROVE  x = y
  BY DEF Sealed!NonceUnique
<1>8. CASE x \in chunks /\ y \in chunks
  <2>1. PICK k1, t1, p1 : t1 \in Transfer /\ Chunk(x, k1, t1, p1)
    BY <1>1, <1>8
  <2>2. PICK k2, t2, p2 : t2 \in Transfer /\ Chunk(y, k2, t2, p2)
    BY <1>1, <1>8
  <2>3. Sealed!ItemKey(k1, t1, p1[1]) = Sealed!ItemKey(k2, t2, p2[1])
    BY <1>4, <1>7, <2>1, <2>2
  <2>4. Sealed!Nonce(Sealed!Prefix(t1, p1[1]), p1[2]) = Sealed!Nonce(Sealed!Prefix(t2, p2[1]), p2[2])
    BY <1>4, <1>7, <2>1, <2>2
  <2>5. k1 = k2 /\ t1 = t2 /\ p1[1] = p2[1]
    BY <2>3 DEF Sealed!ItemKey
  <2>6. p1[2] = p2[2]
    BY <2>4 DEF Sealed!Nonce
  <2>. QED  BY <2>1, <2>2, <2>5, <2>6 DEF Chunk
<1>9. CASE x \notin chunks /\ y \notin chunks
  <2>1. CASE x \in Sealed!Metas /\ y \in Sealed!Metas
    <3>1. PICK k1, t1, u1 : Meta(x, k1, t1, u1)
      BY <1>2, <2>1
    <3>2. PICK k2, t2, u2 : Meta(y, k2, t2, u2)
      BY <1>2, <2>1
    <3>3. k1 = k2
      BY <1>5, <1>7, <3>1, <3>2
    <3>4. Sealed!Nonce(Sealed!Prefix(t1, u1), Sealed!ManifestIndex) = Sealed!Nonce(Sealed!Prefix(t2, u2), Sealed!ManifestIndex)
      BY <1>5, <1>7, <3>1, <3>2
    <3>5. Sealed!Prefix(t1, u1) = Sealed!Prefix(t2, u2)
      BY <3>4 DEF Sealed!Nonce
    <3>6. t1 = t2 /\ u1 = u2
      BY <3>5 DEF Sealed!Prefix
    <3>. QED  BY <3>1, <3>2, <3>3, <3>6 DEF Meta
  <2>2. CASE x \in Sealed!Notes /\ y \in Sealed!Notes
    <3>1. PICK k1, t1 : Note(x, k1, t1)
      BY <1>3, <2>2
    <3>2. PICK k2, t2 : Note(y, k2, t2)
      BY <1>3, <2>2
    <3>3. k1 = k2
      BY <1>6, <1>7, <3>1, <3>2
    <3>4. Sealed!Nonce(Sealed!Prefix(t1, "note"), Sealed!ManifestIndex) = Sealed!Nonce(Sealed!Prefix(t2, "note"), Sealed!ManifestIndex)
      BY <1>6, <1>7, <3>1, <3>2
    <3>5. Sealed!Prefix(t1, "note") = Sealed!Prefix(t2, "note")
      BY <3>4 DEF Sealed!Nonce
    <3>6. t1 = t2
      BY <3>5 DEF Sealed!Prefix
    <3>. QED  BY <3>1, <3>2, <3>3, <3>6 DEF Note
  <2>3. ASSUME NEW m \in Sealed!Metas, NEW n \in Sealed!Notes
        PROVE  m.nonce # n.nonce
    <3>1. PICK k1, t1, u1 : Meta(m, k1, t1, u1)
      BY <1>2
    <3>2. PICK k2, t2 : Note(n, k2, t2)
      BY <1>3
    <3>3. /\ m.nonce = Sealed!Nonce(Sealed!Prefix(t1, u1), Sealed!ManifestIndex) /\ u1 # "note"
          /\ n.nonce = Sealed!Nonce(Sealed!Prefix(t2, "note"), Sealed!ManifestIndex)
      BY <1>5, <1>6, <3>1, <3>2
    <3>4. Sealed!Prefix(t1, u1) # Sealed!Prefix(t2, "note")
      BY <3>3 DEF Sealed!Prefix
    <3>. QED  BY <3>3, <3>4 DEF Sealed!Nonce
  <2>. QED  BY <1>7, <1>9, <2>1, <2>2, <2>3
<1>10. ASSUME NEW c \in chunks, NEW m \in Sealed!Metas \cup Sealed!Notes
       PROVE  c.nonce # m.nonce
  <2>1. PICK k1, t1, p1 : t1 \in Transfer /\ Chunk(c, k1, t1, p1)
    BY <1>1
  <2>2. \E prefix : m.nonce = Sealed!Nonce(prefix, Sealed!ManifestIndex)
    BY <1>2, <1>3, <1>5, <1>6
  <2>3. c.nonce = Sealed!Nonce(Sealed!Prefix(t1, p1[1]), p1[2]) /\ p1[2] # Sealed!ManifestIndex
    BY <1>4, <2>1
  <2>. QED  BY <2>2, <2>3 DEF Sealed!Nonce
<1>. QED  BY <1>7, <1>8, <1>9, <1>10

\* What is recorded of a chunk is the place it is sealed for.
LEMMA SealTypes ==
  ASSUME SealingConstants, SealInv
  PROVE  Sealed!TypeOK
<1>1. \A x \in chunks : \E t \in Transfer : parcel[t] # Missing /\ <<x.aad.item, x.aad.index>> \in parcel[t].chunks
  <2>1. SUFFICES ASSUME NEW x \in chunks
                 PROVE  \E t \in Transfer : parcel[t] # Missing /\ <<x.aad.item, x.aad.index>> \in parcel[t].chunks
    OBVIOUS
  <2>2. PICK key \in MasterKeys, t \in Transfer : \E p \in Sealed!Places(t) :
          parcel[t] # Missing /\ p \in parcel[t].chunks /\ x = Sealed!SealedChunk(key, t, p[1], p[2])
    BY DEF SealInv, StoreSound, ChunkSound
  <2>3. PICK p \in Sealed!Places(t) :
          parcel[t] # Missing /\ p \in parcel[t].chunks /\ x = Sealed!SealedChunk(key, t, p[1], p[2])
    BY <2>2
  <2>4. x.aad = Sealed!Aad(t, p[1], p[2])
    BY <2>3, CipherParts DEF Sealed!SealedChunk
  <2>5. x.aad.item = p[1] /\ x.aad.index = p[2]
    BY <2>4 DEF Sealed!Aad
  <2>6. p = <<p[1], p[2]>>
    BY PlaceShape
  <2>. QED  BY <2>3, <2>5, <2>6
<1>. QED  BY <1>1 DEF Sealed!TypeOK, SealInv, SealTyped, ReaderSound, ReaderTyped

\* encryption/src/lib.rs with upload.rs, download.rs and inbox_staging.rs: for any
\* transfers, files, passwords, recipients and listings, no key seals two texts under
\* one nonce, and whatever storage answers with, a receiver accepts only what was sealed
\* for that place of that transfer, with a key it was meant to have, and all of it.
THEOREM SealingStaysExact == Sealed!Spec => []SealingExact
<1>1. Sealed!Init => SealInv
  BY NativeAssumption, SealStart
<1>2. SealInv /\ [Sealed!Next]_sealingVars => SealInv'
  BY NativeAssumption, SealNext
<1>3. SealInv => SealingExact
  BY NativeAssumption, NoncesDiffer, SealTypes DEF SealingExact, SealInv, ReaderSound
<1>. QED  BY <1>1, <1>2, <1>3, PTL DEF Sealed!Spec, Sealed!vars, sealingVars

-----------------------------------------------------------------------------
(* What the sender of a Turbo share is shown: TurboSessions.               *)

Lists == [Watcher -> Shown \cup {Missing}]

\* A request that has read the list of sessions.
Calls ==
  [pc : {"in"}, report : Reports \cup {Missing}, s : Watcher, available : BOOLEAN, list : Lists, number : Nat]

ReportTyped ==
  /\ upload \in {"pending", "available", "deleting"} /\ mutex \in Handler \cup {Missing}
  /\ count \in Nat /\ hour \in Nat /\ pauses \in Nat /\ lapses \in Nat
  /\ shown \in Lists /\ watcher \in [Watcher -> Watching \cup {Missing}]
  /\ reports \subseteq Reports
  /\ call \in [Handler -> Calls \cup {Reporting!Idle}]

\* What is shown of a download is true of it, and was reported.
EntrySound(e, s, dl, sent) ==
  e # Missing =>
    /\ dl[s] # Missing /\ e.progress <= dl[s].done + 1
    /\ e.status = "completed" => dl[s].done = Parts
    /\ \/ e.sequence = 0 /\ e.status = "waiting"
       \/ \E x \in sent : x.s = s /\ x.sequence = e.sequence /\ x.status = e.status

\* No more sessions than the limit.
Room(list) == Cardinality({s \in Watcher : list[s] # Missing}) <= Watchers

ListSound(list, dl, sent) == Room(list) /\ \A s \in Watcher : EntrySound(list[s], s, dl, sent)

\* A report is true when it is sent, and stays true.
SentSound(x, dl) ==
  /\ dl[x.s] # Missing /\ x.sequence >= 1 /\ x.progress <= dl[x.s].done
  /\ x.status = "completed" => dl[x.s].done = Parts

\* A request that asks for a session is the only one that knows it.
CallSound(r) ==
  call[r].pc = "in" =>
    /\ call[r].report # Missing => call[r].report \in reports /\ call[r].report.s = call[r].s
    /\ call[r].report = Missing =>
         watcher[call[r].s] = Missing /\ \A q \in Handler : q # r => call[q].s # call[r].s
    /\ ListSound(call[r].list, watcher, reports)

\* A download that never stopped uses every sequence once.
WatcherSound(w, s, sent) ==
  w # Missing =>
    /\ w.saved <= w.sequence /\ (w.waiting => w.up)
    /\ w.up /\ ~w.stopped =>
         /\ \A x \in sent : x.s = s => x.sequence <= w.sequence
         /\ \A x, y \in sent : x.s = s /\ y.s = s /\ x.sequence = y.sequence => x = y

\* While nobody lost its lease, a request holds the lock and the list is as it read it.
Lockstep ==
  \A r \in Handler : call[r].pc = "in" =>
    /\ mutex = r /\ call[r].number = count
    /\ \A s \in Watcher : call[r].list[s] \in {shown[s], Missing}

NumbersApart(list, n) ==
  /\ \A s \in Watcher : list[s] # Missing => list[s].number <= n
  /\ \A s, u \in Watcher : s # u /\ list[s] # Missing /\ list[u] # Missing => list[s].number # list[u].number

\* A download that completed without a stop is shown so.
EndShown(e, w) == e # Missing /\ w # Missing /\ w.complete /\ ~w.stopped => e.status = "completed"

Serial ==
  lapses = 0 =>
    Lockstep /\ NumbersApart(shown, count) /\ \A s \in Watcher : EndShown(shown[s], watcher[s])

ReportInv ==
  /\ ReportTyped /\ ListSound(shown, watcher, reports)
  /\ \A r \in Handler : CallSound(r)
  /\ \A x \in reports : SentSound(x, watcher)
  /\ \A s \in Watcher : WatcherSound(watcher[s], s, reports)
  /\ Serial

\* Downloads only verify more.
Further(dl, next) ==
  \A s \in Watcher : dl[s] # Missing =>
    /\ next[s] # Missing /\ dl[s].done <= next[s].done
    /\ dl[s].done = Parts => next[s].done = Parts

\* What is true of a download stays true.
LEMMA EntryKept ==
  ASSUME ReportConstants, NEW dl \in [Watcher -> Watching \cup {Missing}],
         NEW next \in [Watcher -> Watching \cup {Missing}], Further(dl, next),
         NEW sent \in SUBSET Reports, NEW more \in SUBSET Reports, sent \subseteq more,
         NEW list \in Lists, ListSound(list, dl, sent)
  PROVE  ListSound(list, next, more)
<1>1. SUFFICES ASSUME NEW s \in Watcher, list[s] # Missing
               PROVE  EntrySound(list[s], s, next, more)
  BY DEF ListSound, EntrySound
<1>2. EntrySound(list[s], s, dl, sent)
  BY DEF ListSound
<1>3. dl[s] # Missing /\ next[s] # Missing /\ dl[s].done <= next[s].done /\ (dl[s].done = Parts => next[s].done = Parts)
  BY <1>1, <1>2 DEF EntrySound, Further
<1>4. list[s].progress \in Nat /\ dl[s].done \in Nat /\ next[s].done \in Nat
  BY <1>1, <1>3 DEF Lists, Shown, Watching, ReportConstants
<1>5. list[s].progress <= next[s].done + 1
  BY <1>1, <1>2, <1>3, <1>4 DEF EntrySound
<1>6. \/ list[s].sequence = 0 /\ list[s].status = "waiting"
      \/ \E x \in more : x.s = s /\ x.sequence = list[s].sequence /\ x.status = list[s].status
  BY <1>1, <1>2 DEF EntrySound
<1>. QED  BY <1>1, <1>2, <1>3, <1>5, <1>6 DEF EntrySound

\* So do reports.
LEMMA SentKept ==
  ASSUME ReportConstants, NEW dl \in [Watcher -> Watching \cup {Missing}],
         NEW next \in [Watcher -> Watching \cup {Missing}], Further(dl, next),
         NEW x \in Reports, SentSound(x, dl)
  PROVE  SentSound(x, next)
<1>1. x.s \in Watcher /\ x.progress \in Nat
  BY DEF Reports, ReportConstants
<1>2. dl[x.s] # Missing /\ next[x.s] # Missing /\ dl[x.s].done <= next[x.s].done /\ (dl[x.s].done = Parts => next[x.s].done = Parts)
  BY <1>1 DEF SentSound, Further
<1>3. dl[x.s].done \in Nat /\ next[x.s].done \in Nat
  BY <1>1, <1>2 DEF Watching, ReportConstants
<1>4. x.progress <= next[x.s].done
  BY <1>1, <1>2, <1>3 DEF SentSound
<1>. QED  BY <1>2, <1>4 DEF SentSound

\* A list without expired sessions, and one that is as long.
LEMMA RoomKept ==
  ASSUME ReportConstants, NEW list, NEW less, Room(list),
         \A s \in Watcher : less[s] # Missing => list[s] # Missing
  PROVE  Room(less)
<1> DEFINE A == {s \in Watcher : list[s] # Missing}
           B == {s \in Watcher : less[s] # Missing}
<1>1. B \in SUBSET A /\ A \in SUBSET Watcher
  OBVIOUS
<1>2. IsFiniteSet(A)
  BY <1>1, FS_Subset DEF ReportConstants
<1>3. IsFiniteSet(B) /\ Cardinality(B) <= Cardinality(A)
  BY <1>1, <1>2, FS_Subset
<1>4. Cardinality(A) \in Nat /\ Cardinality(B) \in Nat
  BY <1>2, <1>3, FS_CardinalityType
<1>5. Cardinality(A) <= Watchers
  BY DEF Room
<1> HIDE DEF A, B
<1>6. Cardinality(B) <= Watchers
  BY <1>3, <1>4, <1>5 DEF ReportConstants
<1>. QED  BY <1>6 DEF Room, B

\* A request that is being worked on.
LEMMA CallShape ==
  ASSUME ReportConstants, ReportInv, NEW r \in Handler, call[r].pc = "in"
  PROVE  /\ call[r] \in Calls /\ call[r].list \in Lists /\ call[r].s \in Watcher /\ call[r].number \in Nat
         /\ call[r].report # Missing => call[r].report \in reports /\ call[r].report.s = call[r].s
         /\ call[r].report = Missing => watcher[call[r].s] = Missing
         /\ ListSound(call[r].list, watcher, reports)
<1>1. call[r] \in Calls \cup {Reporting!Idle}
  BY DEF ReportInv, ReportTyped
<1>2. call[r] # Reporting!Idle
  BY DEF Reporting!Idle
<1>3. call[r] \in Calls
  BY <1>1, <1>2
<1>4. CallSound(r)
  BY DEF ReportInv
<1>. QED  BY <1>3, <1>4 DEF Calls, CallSound

\* Requests only end.
CallsEnd == \A q \in Handler : call'[q] \in {call[q], Reporting!Idle}

\* What is known of requests and reports outlives a step of a download.
LEMMA ReportsCarry ==
  ASSUME ReportConstants, ReportInv,
         watcher' \in [Watcher -> Watching \cup {Missing}], reports' \subseteq Reports,
         Further(watcher, watcher'), reports \subseteq reports', CallsEnd,
         \A q \in Handler : call'[q].pc = "in" /\ call[q].report = Missing => watcher'[call[q].s] = Missing
  PROVE  /\ \A q \in Handler : CallSound(q)'
         /\ ListSound(shown, watcher', reports')
         /\ \A q \in Handler : call[q].pc = "in" => ListSound(call[q].list, watcher', reports')
         /\ \A x \in reports : SentSound(x, watcher')
<1>0. /\ watcher \in [Watcher -> Watching \cup {Missing}] /\ reports \in SUBSET Reports
      /\ shown \in Lists /\ ListSound(shown, watcher, reports) /\ \A x \in reports : SentSound(x, watcher)
  BY DEF ReportInv, ReportTyped
<1>1. ListSound(shown, watcher', reports')
  BY <1>0, EntryKept
<1>2. ASSUME NEW q \in Handler, call[q].pc = "in" PROVE ListSound(call[q].list, watcher', reports')
  <2>1. call[q].list \in Lists /\ ListSound(call[q].list, watcher, reports)
    BY <1>2, CallShape
  <2>. QED  BY <1>0, <2>1, EntryKept
<1>3. \A x \in reports : SentSound(x, watcher')
  BY <1>0, SentKept
<1>4. ASSUME NEW q \in Handler PROVE CallSound(q)'
  <2>1. SUFFICES ASSUME call'[q].pc = "in" PROVE CallSound(q)'
    BY DEF CallSound
  <2>2. call'[q] = call[q] /\ call[q].pc = "in"
    BY <2>1 DEF CallsEnd, Reporting!Idle
  <2>3. CallSound(q) /\ call[q].s \in Watcher
    BY <2>2, CallShape DEF ReportInv
  <2>4. call[q].report # Missing => call[q].report \in reports' /\ call[q].report.s = call[q].s
    BY <2>2, CallShape
  <2>5. ASSUME call[q].report = Missing, NEW p \in Handler, p # q PROVE call'[p].s # call'[q].s
    <3>1. call[p].s # call[q].s
      BY <2>2, <2>3, <2>5 DEF CallSound
    <3>2. Reporting!Idle.s # call[q].s
      BY <2>3 DEF Reporting!Idle, ReportConstants
    <3>. QED  BY <2>2, <3>1, <3>2 DEF CallsEnd
  <2>. QED  BY <1>2, <2>1, <2>2, <2>4, <2>5 DEF CallSound
<1>. QED  BY <1>1, <1>2, <1>3, <1>4

\* A download that is unchanged is further.
LEMMA FurtherSame ==
  ASSUME ReportConstants, NEW dl \in [Watcher -> Watching \cup {Missing}]
  PROVE  Further(dl, dl)
<1>1. ASSUME NEW s \in Watcher, dl[s] # Missing PROVE dl[s].done \in Nat
  BY <1>1 DEF Watching, ReportConstants
<1>. QED  BY <1>1 DEF Further

\* Complete, Remove, Tick, Die and the end of a lease leave downloads and lists alone.
LEMMA QuietStep ==
  ASSUME ReportConstants, ReportInv, UNCHANGED <<shown, count, watcher, reports, pauses>>, CallsEnd,
         call' \in [Handler -> Calls \cup {Reporting!Idle}],
         upload' \in {"pending", "available", "deleting"}, mutex' \in Handler \cup {Missing},
         hour' \in Nat, lapses' \in Nat, lapses' = 0 => lapses = 0,
         lapses' = 0 => \A q \in Handler : call'[q].pc = "in" => mutex' = mutex
  PROVE  ReportInv'
<1>0. /\ watcher' \in [Watcher -> Watching \cup {Missing}] /\ reports' \subseteq Reports
      /\ watcher' = watcher /\ reports' = reports /\ shown' = shown /\ count' = count
  BY DEF ReportInv, ReportTyped
<1>1. Further(watcher, watcher')
  BY <1>0, FurtherSame
<1>2. \A q \in Handler : call'[q].pc = "in" => call'[q] = call[q]
  BY DEF CallsEnd, Reporting!Idle
<1>3. \A q \in Handler : call'[q].pc = "in" /\ call[q].report = Missing => watcher'[call[q].s] = Missing
  BY <1>0, <1>2, CallShape
<1>4. /\ \A q \in Handler : CallSound(q)'
      /\ ListSound(shown, watcher', reports')
      /\ \A x \in reports : SentSound(x, watcher')
  BY <1>0, <1>1, <1>3, ReportsCarry
<1>5. ReportTyped'
  BY <1>0 DEF ReportInv, ReportTyped
<1>6. ASSUME lapses' = 0 PROVE Lockstep'
  BY <1>0, <1>2, <1>6 DEF ReportInv, Serial, Lockstep
<1>7. Serial'
  BY <1>0, <1>6 DEF ReportInv, Serial
<1>8. \A s \in Watcher : WatcherSound(watcher[s], s, reports)' 
  BY <1>0 DEF ReportInv
<1>. QED  BY <1>0, <1>4, <1>5, <1>7, <1>8 DEF ReportInv

\* Complete: the upload is completed.
LEMMA UploadCompletes ==
  ASSUME ReportConstants, ReportInv, Reporting!Complete
  PROVE  ReportInv'
<1>1. UNCHANGED <<shown, count, mutex, call, watcher, reports, hour, pauses, lapses>> /\ upload' = "available"
  BY DEF Reporting!Complete
<1>2. ReportTyped /\ CallsEnd
  BY <1>1 DEF ReportInv, CallsEnd
<1>. QED  BY <1>1, <1>2, QuietStep DEF ReportTyped

\* Remove: the transfer is removed.
LEMMA UploadRemoved ==
  ASSUME ReportConstants, ReportInv, Reporting!Remove
  PROVE  ReportInv'
<1>1. UNCHANGED <<shown, count, mutex, call, watcher, reports, hour, pauses, lapses>> /\ upload' = "deleting"
  BY DEF Reporting!Remove
<1>2. ReportTyped /\ CallsEnd
  BY <1>1 DEF ReportInv, CallsEnd
<1>. QED  BY <1>1, <1>2, QuietStep DEF ReportTyped

\* Tick: time passes.
LEMMA HourPasses ==
  ASSUME ReportConstants, ReportInv, Reporting!Tick
  PROVE  ReportInv'
<1>1. UNCHANGED <<upload, shown, count, mutex, call, watcher, reports, pauses, lapses>> /\ hour' = hour + 1
  BY DEF Reporting!Tick
<1>2. ReportTyped /\ CallsEnd
  BY <1>1 DEF ReportInv, CallsEnd
<1>3. hour' \in Nat
  BY <1>1, <1>2 DEF ReportTyped
<1>. QED  BY <1>1, <1>2, <1>3, QuietStep DEF ReportTyped

\* Die(r): the lock stays with the request that died.
LEMMA RequestDies ==
  ASSUME ReportConstants, ReportInv, NEW r \in Handler, Reporting!Die(r)
  PROVE  ReportInv'
<1>1. UNCHANGED <<upload, shown, count, mutex, watcher, reports, hour, pauses, lapses>>
      /\ call' = [call EXCEPT ![r] = Reporting!Idle]
  BY DEF Reporting!Die, Reporting!Step
<1>2. ReportTyped
  BY DEF ReportInv
<1>3. call' \in [Handler -> Calls \cup {Reporting!Idle}] /\ CallsEnd
  BY <1>1, <1>2 DEF ReportTyped, CallsEnd
<1>. QED  BY <1>1, <1>2, <1>3, QuietStep DEF ReportTyped

\* LeaseExpires: that of a request at work is counted.
LEMMA LeaseLost ==
  ASSUME ReportConstants, ReportInv, Reporting!LeaseExpires
  PROVE  ReportInv'
<1>1. /\ UNCHANGED <<upload, shown, count, call, watcher, reports, hour, pauses>>
      /\ mutex # Missing /\ mutex' = Missing
      /\ IF call[mutex].pc = "in" THEN lapses' = lapses + 1 ELSE lapses' = lapses
  BY DEF Reporting!LeaseExpires
<1>2. ReportTyped /\ CallsEnd
  BY <1>1 DEF ReportInv, CallsEnd
<1>3. lapses \in Nat /\ mutex \in Handler
  BY <1>1, <1>2 DEF ReportTyped
<1>4. lapses' \in Nat /\ (lapses' = 0 => lapses = 0 /\ call[mutex].pc # "in")
  BY <1>1, <1>3
<1>5. lapses' = 0 => \A q \in Handler : call'[q].pc # "in"
  BY <1>1, <1>4 DEF ReportInv, Serial, Lockstep
<1>6. lapses' = 0 => \A q \in Handler : call'[q].pc = "in" => mutex' = mutex
  BY <1>5
<1>. QED  BY <1>1, <1>2, <1>4, <1>6, QuietStep DEF ReportTyped

\* Enter(r): a request reads the list, without the sessions that expired.
LEMMA RequestEnters ==
  ASSUME ReportConstants, ReportInv, NEW r \in Handler, Reporting!Enter(r)
  PROVE  ReportInv'
<1>1. /\ call[r].pc = "idle" /\ mutex = Missing /\ mutex' = r
      /\ UNCHANGED <<upload, shown, count, watcher, reports, hour, pauses, lapses>>
  BY DEF Reporting!Enter
<1>2. PICK s \in Watcher :
        \E report \in {x \in reports : x.s = s} \cup {Missing} :
          /\ report = Missing => watcher[s] = Missing /\ \A q \in Handler : call[q].s # s
          /\ call' = [call EXCEPT ![r] = [pc |-> "in", report |-> report, s |-> s, available |-> upload = "available",
                        list |-> Reporting!Active(shown), number |-> count]]
  BY Zenon DEF Reporting!Enter, Reporting!Step
<1>3. PICK report \in {x \in reports : x.s = s} \cup {Missing} :
          /\ report = Missing => watcher[s] = Missing /\ \A q \in Handler : call[q].s # s
          /\ call' = [call EXCEPT ![r] = [pc |-> "in", report |-> report, s |-> s, available |-> upload = "available",
                        list |-> Reporting!Active(shown), number |-> count]]
  BY <1>2, Zenon
<1> DEFINE list == Reporting!Active(shown)
           flag == upload = "available"
           next == [pc |-> "in", report |-> report, s |-> s, available |-> flag, list |-> list, number |-> count]
<1>4. call' = [call EXCEPT ![r] = next]
  BY <1>3
<1>5. list \in Lists /\ \A u \in Watcher : list[u] \in {shown[u], Missing}
  BY DEF ReportInv, ReportTyped, Lists, Reporting!Active
<1>6. flag \in BOOLEAN
  OBVIOUS
<1>7. ReportTyped
  BY DEF ReportInv
<1> HIDE DEF list, flag
<1>8. /\ next \in Calls /\ next.pc = "in" /\ next.report = report /\ next.s = s /\ next.list = list
      /\ next.number = count
  BY <1>3, <1>5, <1>6, <1>7 DEF Calls, ReportTyped
<1> HIDE DEF next
<1>9. ReportTyped'
  <2>1. call' \in [Handler -> Calls \cup {Reporting!Idle}]
    BY <1>4, <1>7, <1>8 DEF ReportTyped
  <2>. QED  BY <1>1, <1>7, <2>1 DEF ReportTyped
<1>10. ListSound(list, watcher, reports)
  <2>1. Room(list)
    BY <1>5, RoomKept DEF ReportInv, ListSound
  <2>. QED  BY <1>5, <2>1 DEF ReportInv, ListSound, EntrySound
<1>11. call'[r] = next /\ \A q \in Handler : q # r => call'[q] = call[q]
  BY <1>4, <1>7 DEF ReportTyped
<1>12. report # Missing => watcher[s] # Missing
  BY <1>3 DEF ReportInv, SentSound
<1>13. ASSUME NEW q \in Handler PROVE CallSound(q)'
  <2>1. CASE q = r
    <3>1. report # Missing => report \in reports' /\ report.s = s
      BY <1>1, <1>3
    <3>2. ASSUME report = Missing PROVE watcher'[s] = Missing /\ \A p \in Handler : p # r => call'[p].s # s
      BY <1>1, <1>3, <1>11, <3>2
    <3>3. ListSound(list, watcher', reports')
      BY <1>1, <1>10
    <3>. QED  BY <2>1, <1>8, <1>11, <3>1, <3>2, <3>3 DEF CallSound
  <2>2. CASE q # r
    <3>1. CallSound(q) /\ call'[q] = call[q]
      BY <1>11, <2>2 DEF ReportInv
    <3>2. SUFFICES ASSUME call[q].pc = "in" PROVE CallSound(q)'
      BY <3>1 DEF CallSound
    <3>3. ASSUME call[q].report = Missing PROVE call'[r].s # call[q].s
      <4>1. watcher[call[q].s] = Missing
        BY <3>1, <3>2, <3>3 DEF CallSound
      <4>2. CASE report = Missing
        BY <1>3, <1>8, <1>11, <4>2
      <4>3. CASE report # Missing
        BY <1>8, <1>11, <1>12, <4>1, <4>3
      <4>. QED  BY <4>2, <4>3
    <3>4. ASSUME call[q].report = Missing, NEW p \in Handler, p # q PROVE call'[p].s # call'[q].s
      BY <1>11, <3>1, <3>2, <3>3, <3>4 DEF CallSound
    <3>. QED  BY <1>1, <3>1, <3>2, <3>4 DEF CallSound
  <2>. QED  BY <2>1, <2>2
<1>14. Serial'
  <2>1. SUFFICES ASSUME lapses = 0 PROVE Serial'
    BY <1>1 DEF Serial
  <2>2. Lockstep
    BY <2>1 DEF ReportInv, Serial
  <2>3. \A q \in Handler : call[q].pc # "in"
    BY <1>1, <2>2 DEF Lockstep, ReportConstants
  <2>4. Lockstep'
    BY <1>1, <1>5, <1>8, <1>11, <2>3 DEF Lockstep
  <2>. QED  BY <1>1, <2>1, <2>4 DEF ReportInv, Serial
<1>15. /\ ListSound(shown', watcher', reports') /\ \A x \in reports' : SentSound(x, watcher')
       /\ \A u \in Watcher : WatcherSound(watcher'[u], u, reports')
  BY <1>1 DEF ReportInv
<1>. QED  BY <1>9, <1>13, <1>14, <1>15 DEF ReportInv

\* A download that is replaced by one that is as far.
LEMMA WatcherReplaced ==
  ASSUME ReportConstants, ReportInv, NEW s \in Watcher, watcher[s] # Missing, NEW rec \in Watching,
         watcher[s].done <= rec.done, watcher' = [watcher EXCEPT ![s] = rec]
  PROVE  /\ watcher' \in [Watcher -> Watching \cup {Missing}] /\ Further(watcher, watcher')
         /\ watcher'[s] = rec /\ \A u \in Watcher : u # s => watcher'[u] = watcher[u]
<1>0. watcher \in [Watcher -> Watching \cup {Missing}]
  BY DEF ReportInv, ReportTyped
<1>1. watcher' \in [Watcher -> Watching \cup {Missing}]
      /\ watcher'[s] = rec /\ \A u \in Watcher : u # s => watcher'[u] = watcher[u]
  BY <1>0
<1>2. rec # Missing /\ watcher[s] \in Watching /\ Further(watcher, watcher)
  BY <1>0, FurtherSame DEF ReportConstants
<1>3. rec.done \in 0..Parts /\ watcher[s].done \in 0..Parts
  BY <1>2 DEF Watching
<1>4. watcher[s].done = Parts => rec.done = Parts
  BY <1>3 DEF ReportConstants
<1>5. \A u \in Watcher : watcher[u] # Missing =>
        /\ watcher'[u] # Missing /\ watcher[u].done <= watcher'[u].done
        /\ watcher[u].done = Parts => watcher'[u].done = Parts
  BY <1>1, <1>2, <1>4 DEF Further
<1>6. Further(watcher, watcher')
  BY <1>5 DEF Further
<1>. QED  BY <1>1, <1>6

\* A step of a download, with what it reports.
LEMMA DownloadSteps ==
  ASSUME ReportConstants, ReportInv, NEW s \in Watcher, watcher[s] # Missing, NEW rec \in Watching,
         watcher[s].done <= rec.done, watcher' = [watcher EXCEPT ![s] = rec],
         UNCHANGED <<upload, shown, count, mutex, call, hour, lapses>>, pauses' \in Nat,
         reports' \subseteq Reports, reports \subseteq reports',
         \A x \in reports' : x \in reports \/ (x.s = s /\ SentSound(x, watcher')),
         WatcherSound(rec, s, reports'), EndShown(shown[s], watcher[s]) => EndShown(shown[s], rec)
  PROVE  ReportInv'
<1>1. /\ watcher' \in [Watcher -> Watching \cup {Missing}] /\ Further(watcher, watcher')
      /\ watcher'[s] = rec /\ \A u \in Watcher : u # s => watcher'[u] = watcher[u]
  BY WatcherReplaced
<1>2. CallsEnd
  BY DEF CallsEnd
<1>3. ASSUME NEW q \in Handler, call'[q].pc = "in", call[q].report = Missing PROVE watcher'[call[q].s] = Missing
  <2>1. watcher[call[q].s] = Missing /\ call[q].s \in Watcher
    BY <1>3, CallShape
  <2>. QED  BY <1>1, <2>1
<1>4. /\ \A q \in Handler : CallSound(q)'
      /\ ListSound(shown, watcher', reports') /\ \A x \in reports : SentSound(x, watcher')
  BY <1>1, <1>2, <1>3, ReportsCarry
<1>5. ReportTyped'
  BY <1>1 DEF ReportInv, ReportTyped
<1>6. ASSUME NEW u \in Watcher PROVE WatcherSound(watcher'[u], u, reports')
  <2>1. CASE u = s
    BY <1>1, <2>1
  <2>2. CASE u # s
    <3>1. WatcherSound(watcher[u], u, reports) /\ watcher'[u] = watcher[u]
      BY <1>1, <2>2 DEF ReportInv
    <3>2. \A x \in reports' : x.s = u => x \in reports
      BY <2>2
    <3>. QED  BY <3>1, <3>2 DEF WatcherSound
  <2>. QED  BY <2>1, <2>2
<1>7. Serial'
  <2>1. SUFFICES ASSUME lapses = 0 PROVE Serial'
    BY DEF Serial
  <2>2. Lockstep /\ NumbersApart(shown, count) /\ \A u \in Watcher : EndShown(shown[u], watcher[u])
    BY <2>1 DEF ReportInv, Serial
  <2>3. Lockstep' /\ NumbersApart(shown', count')
    BY <2>2 DEF Lockstep
  <2>4. \A u \in Watcher : EndShown(shown'[u], watcher'[u])
    BY <1>1, <2>2
  <2>. QED  BY <2>3, <2>4 DEF Serial
<1>. QED  BY <1>4, <1>5, <1>6, <1>7 DEF ReportInv

\* A report with the next sequence of a download is the only one with it.
LEMMA NextReport ==
  ASSUME ReportConstants, ReportInv, NEW s \in Watcher, watcher[s] # Missing, watcher[s].up,
         NEW rec \in Watching, NEW x \in Reports, x.s = s, x.sequence = watcher[s].sequence + 1,
         rec.sequence = x.sequence, rec.saved = watcher[s].saved, rec.up = watcher[s].up,
         rec.stopped = watcher[s].stopped
  PROVE  WatcherSound(rec, s, reports \cup {x})
<1>1. watcher[s] \in Watching /\ WatcherSound(watcher[s], s, reports) /\ reports \subseteq Reports
  BY DEF ReportInv, ReportTyped
<1>2. watcher[s].sequence \in Nat /\ watcher[s].saved \in Nat /\ \A y \in reports : y.sequence \in Nat
  BY <1>1 DEF Watching, Reports
<1>3. rec.saved <= rec.sequence /\ rec.up
  BY <1>1, <1>2 DEF WatcherSound
<1>4. ASSUME ~rec.stopped PROVE \A y \in reports : y.s = s => y.sequence < x.sequence
  BY <1>1, <1>2, <1>4 DEF WatcherSound
<1>5. ASSUME ~rec.stopped, NEW y \in reports \cup {x}, y.s = s PROVE y.sequence <= rec.sequence
  BY <1>2, <1>4, <1>5
<1>6. ASSUME ~rec.stopped, NEW y \in reports \cup {x}, NEW z \in reports \cup {x}, y.s = s, z.s = s,
             y.sequence = z.sequence
      PROVE  y = z
  <2>1. CASE y \in reports /\ z \in reports
    BY <1>1, <1>3, <1>6, <2>1 DEF WatcherSound
  <2>2. CASE y \in reports /\ z = x
    BY <1>2, <1>4, <1>6, <2>2
  <2>3. CASE y = x /\ z \in reports
    BY <1>2, <1>4, <1>6, <2>3
  <2>. QED  BY <1>6, <2>1, <2>2, <2>3
<1>. QED  BY <1>3, <1>5, <1>6 DEF WatcherSound

\* A download record with other numbers and flags is one.
LEMMA WatchingWith ==
  ASSUME NEW w \in Watching
  PROVE  /\ \A d \in 0..Parts, n \in Nat, p \in BOOLEAN :
              [w EXCEPT !.done = d, !.sequence = n, !.waiting = p] \in Watching
         /\ \A n \in Nat, p \in BOOLEAN : [w EXCEPT !.sequence = n, !.waiting = p] \in Watching
         /\ \A n \in Nat, p, k, m \in BOOLEAN :
              [w EXCEPT !.up = k, !.waiting = p, !.sequence = n, !.stopped = m] \in Watching
         /\ \A n \in Nat, p, k \in BOOLEAN : [w EXCEPT !.up = k, !.waiting = p, !.sequence = n] \in Watching
         /\ \A k, m \in BOOLEAN : [w EXCEPT !.up = k, !.stopped = m] \in Watching
         /\ \A n \in Nat, p, k \in BOOLEAN : [w EXCEPT !.waiting = p, !.saved = n, !.complete = k] \in Watching
BY DEF Watching

\* A download that is at work.
LEMMA WatcherShape ==
  ASSUME ReportConstants, ReportInv, NEW s \in Watcher, watcher[s] # Missing
  PROVE  /\ watcher[s] \in Watching /\ WatcherSound(watcher[s], s, reports)
         /\ watcher[s].done \in 0..Parts /\ watcher[s].done \in Nat /\ watcher[s].sequence \in Nat
         /\ watcher[s].saved \in Nat /\ watcher[s].saved <= watcher[s].sequence
<1>1. watcher[s] \in Watching /\ WatcherSound(watcher[s], s, reports)
  BY DEF ReportInv, ReportTyped
<1>. QED  BY <1>1 DEF Watching, WatcherSound, ReportConstants

\* ReportChunk(s): a chunk more is verified and reported.
LEMMA ChunkReported ==
  ASSUME ReportConstants, ReportInv, NEW s \in Watcher, Reporting!ReportChunk(s)
  PROVE  ReportInv'
<1> DEFINE w == watcher[s]
           rec == [w EXCEPT !.done = w.done + 1, !.sequence = w.sequence + 1, !.waiting = TRUE]
           x == [s |-> s, sequence |-> w.sequence + 1, progress |-> w.done + 1, status |-> "downloading"]
<1>1. /\ w # Missing /\ w.up /\ w.done < Parts
      /\ UNCHANGED <<upload, shown, count, mutex, call, hour, pauses, lapses>>
      /\ reports' = reports \cup {x}
  BY DEF Reporting!ReportChunk, Reporting!Send
<1>2. /\ w \in Watching /\ w.done \in 0..Parts /\ w.done \in Nat /\ w.sequence \in Nat
      /\ watcher \in [Watcher -> Watching \cup {Missing}] /\ reports \subseteq Reports /\ pauses \in Nat
  BY <1>1, WatcherShape DEF ReportInv, ReportTyped
<1>3. w.done + 1 \in 0..Parts /\ w.sequence + 1 \in Nat /\ w.done <= w.done + 1 /\ w.sequence + 1 >= 1
  BY <1>1, <1>2 DEF ReportConstants
<1>4. rec \in Watching
  BY <1>2, <1>3, WatchingWith
<1>5. /\ rec.done = w.done + 1 /\ rec.sequence = w.sequence + 1 /\ rec.saved = w.saved /\ rec.up = w.up
      /\ rec.stopped = w.stopped /\ rec.complete = w.complete
  BY <1>2 DEF Watching
<1>6. watcher' = [watcher EXCEPT ![s] = rec]
  BY <1>2 DEF Reporting!ReportChunk
<1>7. /\ x \in Reports /\ x.s = s /\ x.sequence = w.sequence + 1 /\ x.progress = w.done + 1
      /\ x.status = "downloading"
  BY <1>3 DEF Reports
<1> HIDE DEF x, rec
<1>8. watcher'[s] = rec
  BY <1>2, <1>6
<1>9. SentSound(x, watcher')
  BY <1>3, <1>4, <1>5, <1>7, <1>8 DEF SentSound, ReportConstants
<1>10. WatcherSound(rec, s, reports')
  BY <1>1, <1>4, <1>5, <1>7, NextReport
<1>11. EndShown(shown[s], w) => EndShown(shown[s], rec)
  BY <1>1, <1>5 DEF EndShown
<1>12. \A y \in reports' : y \in reports \/ (y.s = s /\ SentSound(y, watcher'))
  BY <1>1, <1>7, <1>9
<1>13. reports' \subseteq Reports /\ reports \subseteq reports' /\ pauses' \in Nat
  BY <1>1, <1>2, <1>7
<1>. QED  BY <1>1, <1>3, <1>4, <1>5, <1>6, <1>10, <1>11, <1>12, <1>13, DownloadSteps

\* ReportComplete(s): a download that has everything says so.
LEMMA EndReported ==
  ASSUME ReportConstants, ReportInv, NEW s \in Watcher, Reporting!ReportComplete(s)
  PROVE  ReportInv'
<1> DEFINE w == watcher[s]
           rec == [w EXCEPT !.sequence = w.sequence + 1, !.waiting = TRUE]
           x == [s |-> s, sequence |-> w.sequence + 1, progress |-> w.done, status |-> "completed"]
<1>1. /\ w # Missing /\ w.up /\ w.done = Parts
      /\ UNCHANGED <<upload, shown, count, mutex, call, hour, pauses, lapses>>
      /\ reports' = reports \cup {x}
  BY DEF Reporting!ReportComplete, Reporting!Send
<1>2. /\ w \in Watching /\ w.done \in 0..Parts /\ w.done \in Nat /\ w.sequence \in Nat
      /\ watcher \in [Watcher -> Watching \cup {Missing}] /\ reports \subseteq Reports /\ pauses \in Nat
  BY <1>1, WatcherShape DEF ReportInv, ReportTyped
<1>3. w.sequence + 1 \in Nat /\ w.sequence + 1 >= 1
  BY <1>2
<1>4. rec \in Watching
  BY <1>2, <1>3, WatchingWith
<1>5. /\ rec.done = w.done /\ rec.sequence = w.sequence + 1 /\ rec.saved = w.saved /\ rec.up = w.up
      /\ rec.stopped = w.stopped /\ rec.complete = w.complete
  BY <1>2 DEF Watching
<1>6. watcher' = [watcher EXCEPT ![s] = rec]
  BY <1>2 DEF Reporting!ReportComplete
<1>7. /\ x \in Reports /\ x.s = s /\ x.sequence = w.sequence + 1 /\ x.progress = w.done
      /\ x.status = "completed"
  BY <1>2, <1>3 DEF Reports
<1> HIDE DEF x, rec
<1>8. watcher'[s] = rec
  BY <1>2, <1>6
<1>9. SentSound(x, watcher')
  BY <1>1, <1>2, <1>3, <1>4, <1>5, <1>7, <1>8 DEF SentSound, ReportConstants
<1>10. WatcherSound(rec, s, reports')
  BY <1>1, <1>4, <1>5, <1>7, NextReport
<1>11. EndShown(shown[s], w) => EndShown(shown[s], rec)
  BY <1>1, <1>5 DEF EndShown
<1>12. \A y \in reports' : y \in reports \/ (y.s = s /\ SentSound(y, watcher'))
  BY <1>1, <1>7, <1>9
<1>13. reports' \subseteq Reports /\ reports \subseteq reports' /\ pauses' \in Nat
  BY <1>1, <1>2, <1>7
<1>14. w.done <= rec.done
  BY <1>2, <1>5
<1>. QED  BY <1>1, <1>4, <1>5, <1>6, <1>10, <1>11, <1>12, <1>13, <1>14, DownloadSteps

\* Stop(s): only the saved sequence is left.
LEMMA DownloadStops ==
  ASSUME ReportConstants, ReportInv, NEW s \in Watcher, Reporting!Stop(s)
  PROVE  ReportInv'
<1> DEFINE w == watcher[s]
           rec == [w EXCEPT !.up = FALSE, !.waiting = FALSE, !.sequence = w.saved, !.stopped = TRUE]
<1>1. /\ w # Missing /\ pauses' = pauses + 1
      /\ UNCHANGED <<upload, shown, count, mutex, call, hour, reports, lapses>>
  BY DEF Reporting!Stop
<1>2. /\ w \in Watching /\ w.done \in Nat /\ w.saved \in Nat
      /\ watcher \in [Watcher -> Watching \cup {Missing}] /\ reports \subseteq Reports /\ pauses \in Nat
  BY <1>1, WatcherShape DEF ReportInv, ReportTyped
<1>4. rec \in Watching
  BY <1>2, WatchingWith
<1>5. rec.done = w.done /\ rec.sequence = w.saved /\ rec.saved = w.saved /\ rec.stopped /\ ~rec.waiting
  BY <1>2 DEF Watching
<1>6. watcher' = [watcher EXCEPT ![s] = rec]
  BY <1>2 DEF Reporting!Stop
<1> HIDE DEF rec
<1>7. WatcherSound(rec, s, reports')
  BY <1>2, <1>5 DEF WatcherSound
<1>8. EndShown(shown[s], rec)
  BY <1>5 DEF EndShown
<1>9. w.done <= rec.done /\ pauses' \in Nat /\ reports' \subseteq Reports /\ reports' = reports
  BY <1>1, <1>2, <1>5
<1>. QED  BY <1>1, <1>4, <1>6, <1>7, <1>8, <1>9, DownloadSteps

\* Resume(s): a download that goes on may use sequences again.
LEMMA WatcherResumes ==
  ASSUME ReportConstants, ReportInv, NEW s \in Watcher, Reporting!Resume(s)
  PROVE  ReportInv'
<1> DEFINE w == watcher[s]
           rec == [w EXCEPT !.up = TRUE, !.stopped = TRUE]
<1>1. w # Missing /\ UNCHANGED <<upload, shown, count, mutex, call, hour, reports, pauses, lapses>>
  BY DEF Reporting!Resume
<1>2. /\ w \in Watching /\ w.done \in Nat /\ w.saved <= w.sequence
      /\ watcher \in [Watcher -> Watching \cup {Missing}] /\ reports \subseteq Reports /\ pauses \in Nat
  BY <1>1, WatcherShape DEF ReportInv, ReportTyped
<1>4. rec \in Watching
  BY <1>2, WatchingWith
<1>5. rec.done = w.done /\ rec.sequence = w.sequence /\ rec.saved = w.saved /\ rec.stopped /\ rec.up
  BY <1>2 DEF Watching
<1>6. watcher' = [watcher EXCEPT ![s] = rec]
  BY <1>2 DEF Reporting!Resume
<1> HIDE DEF rec
<1>7. WatcherSound(rec, s, reports')
  BY <1>2, <1>5 DEF WatcherSound
<1>8. EndShown(shown[s], rec)
  BY <1>5 DEF EndShown
<1>9. w.done <= rec.done /\ pauses' \in Nat /\ reports' \subseteq Reports /\ reports' = reports
  BY <1>1, <1>2, <1>5
<1>. QED  BY <1>1, <1>4, <1>6, <1>7, <1>8, <1>9, DownloadSteps

\* Write(r, list): a request that ends, and what it leaves.
LEMMA ListWritten ==
  ASSUME ReportConstants, ReportInv, NEW r \in Handler, call[r].pc = "in", NEW list \in Lists,
         Reporting!Write(r, list), count' \in Nat,
         watcher' \in [Watcher -> Watching \cup {Missing}], Further(watcher, watcher'),
         \A q \in Handler : q # r /\ call[q].pc = "in" /\ call[q].report = Missing => watcher'[call[q].s] = Missing,
         ListSound(list, watcher', reports), \A s \in Watcher : WatcherSound(watcher'[s], s, reports),
         lapses = 0 => NumbersApart(list, count') /\ \A s \in Watcher : EndShown(list[s], watcher'[s])
  PROVE  ReportInv'
<1>1. /\ shown' = list /\ call' = [call EXCEPT ![r] = Reporting!Idle]
      /\ mutex' = IF mutex = r THEN Missing ELSE mutex
      /\ UNCHANGED <<upload, reports, hour, pauses, lapses>>
  BY DEF Reporting!Write, Reporting!Step, Reporting!Release
<1>2. ReportTyped
  BY DEF ReportInv
<1>3. /\ call' \in [Handler -> Calls \cup {Reporting!Idle}] /\ call'[r] = Reporting!Idle
      /\ \A q \in Handler : q # r => call'[q] = call[q]
  BY <1>1, <1>2 DEF ReportTyped
<1>4. CallsEnd /\ call'[r].pc # "in"
  BY <1>3 DEF CallsEnd, Reporting!Idle
<1>5. \A q \in Handler : call'[q].pc = "in" /\ call[q].report = Missing => watcher'[call[q].s] = Missing
  BY <1>3, <1>4
<1>6. reports' \subseteq Reports /\ reports' = reports
  BY <1>1, <1>2 DEF ReportTyped
<1>7. (\A q \in Handler : CallSound(q)') /\ \A x \in reports : SentSound(x, watcher')
  BY <1>4, <1>5, <1>6, ReportsCarry
<1>8. ReportTyped'
  BY <1>1, <1>2, <1>3 DEF ReportTyped
<1>9. ASSUME lapses = 0 PROVE Lockstep'
  <2>1. \A q \in Handler : call[q].pc = "in" => mutex = q
    BY <1>9 DEF ReportInv, Serial, Lockstep
  <2>2. \A q \in Handler : call'[q].pc # "in"
    BY <1>3, <1>4, <2>1
  <2>. QED  BY <2>2 DEF Lockstep
<1>10. Serial'
  BY <1>1, <1>9 DEF Serial
<1>. QED  BY <1>1, <1>6, <1>7, <1>8, <1>10 DEF ReportInv

\* The list as a request read it, while nobody lost its lease.
LEMMA ListRead ==
  ASSUME ReportConstants, ReportInv, NEW r \in Handler, call[r].pc = "in", lapses = 0
  PROVE  /\ call[r].number = count /\ NumbersApart(call[r].list, count)
         /\ NumbersApart(shown, count) /\ \A s \in Watcher : EndShown(shown[s], watcher[s])
         /\ \A s \in Watcher : call[r].list[s] \in {shown[s], Missing} /\ EndShown(call[r].list[s], watcher[s])
<1>1. Lockstep /\ NumbersApart(shown, count) /\ \A s \in Watcher : EndShown(shown[s], watcher[s])
  BY DEF ReportInv, Serial
<1>2. call[r].number = count /\ \A s \in Watcher : call[r].list[s] \in {shown[s], Missing}
  BY <1>1 DEF Lockstep
<1>3. NumbersApart(call[r].list, count)
  BY <1>1, <1>2 DEF NumbersApart
<1>4. \A s \in Watcher : EndShown(call[r].list[s], watcher[s])
  BY <1>1, <1>2 DEF EndShown
<1>. QED  BY <1>1, <1>2, <1>3, <1>4

\* Store(r), when there is no room.
LEMMA StoreRefused ==
  ASSUME ReportConstants, ReportInv, NEW r \in Handler, call[r].pc = "in", Reporting!Write(r, shown),
         UNCHANGED <<count, watcher>>
  PROVE  ReportInv'
<1>1. /\ shown \in Lists /\ count' \in Nat /\ watcher' \in [Watcher -> Watching \cup {Missing}]
      /\ watcher' = watcher /\ ListSound(shown, watcher, reports) /\ count' = count
      /\ \A s \in Watcher : WatcherSound(watcher[s], s, reports)
  BY DEF ReportInv, ReportTyped
<1>2. Further(watcher, watcher')
  BY <1>1, FurtherSame
<1>3. \A q \in Handler : q # r /\ call[q].pc = "in" /\ call[q].report = Missing => watcher'[call[q].s] = Missing
  BY <1>1, CallShape
<1>4. lapses = 0 => NumbersApart(shown, count') /\ \A s \in Watcher : EndShown(shown[s], watcher'[s])
  BY <1>1, ListRead
<1>. QED  BY <1>1, <1>2, <1>3, <1>4, ListWritten

\* A download with a new session.
LEMMA FreshWatcher ==
  ASSUME ReportConstants, NEW k \in BOOLEAN, NEW n \in BOOLEAN
  PROVE  [up |-> k, waiting |-> n, done |-> 0, sequence |-> 0, saved |-> 0, complete |-> n, stopped |-> n] \in Watching
BY DEF Watching, ReportConstants

\* A list with one entry more.
LEMMA RoomForOne ==
  ASSUME ReportConstants, NEW list \in Lists, NEW s \in Watcher, NEW e,
         Cardinality({u \in Watcher : list[u] # Missing}) < Watchers
  PROVE  Room([list EXCEPT ![s] = e])
<1> DEFINE A == {u \in Watcher : list[u] # Missing}
           B == {u \in Watcher : [list EXCEPT ![s] = e][u] # Missing}
<1>1. A \in SUBSET Watcher /\ B \in SUBSET (A \cup {s}) /\ A \cup {s} \in SUBSET Watcher
  BY DEF Lists
<1>2. IsFiniteSet(A) /\ IsFiniteSet(A \cup {s})
  BY <1>1, FS_Subset DEF ReportConstants
<1>3. IsFiniteSet(B) /\ Cardinality(B) <= Cardinality(A \cup {s})
  BY <1>1, <1>2, FS_Subset
<1>4. Cardinality(A \cup {s}) = Cardinality(A) \/ Cardinality(A \cup {s}) = Cardinality(A) + 1
  BY <1>2, FS_AddElement
<1>5. Cardinality(A) \in Nat /\ Cardinality(B) \in Nat /\ Cardinality(A) < Watchers
  BY <1>2, <1>3, FS_CardinalityType
<1> HIDE DEF A, B
<1>6. Cardinality(B) <= Watchers
  BY <1>3, <1>4, <1>5 DEF ReportConstants
<1>. QED  BY <1>6 DEF Room, B

\* Store(r): a new session, the only one with its number.
LEMMA SessionStored ==
  ASSUME ReportConstants, ReportInv, NEW r \in Handler, Reporting!Store(r)
  PROVE  ReportInv'
<1> DEFINE s == call[r].s
           n == call[r].number + 1
           old == call[r].list
           e == Reporting!NewSession(n)
           rec == [up |-> TRUE, waiting |-> FALSE, done |-> 0, sequence |-> 0, saved |-> 0,
                   complete |-> FALSE, stopped |-> FALSE]
           list == [old EXCEPT ![s] = e]
<1>1. call[r].pc = "in" /\ call[r].report = Missing
  BY DEF Reporting!Store
<1>. DEFINE held == {u \in Watcher : old[u] # Missing}
<1>0. Reporting!Cardinality(held) = Cardinality(held)
  BY DEF Reporting!Cardinality, Cardinality
<1>2. CASE ~(Cardinality(held) < Watchers)
  <2>1. Reporting!Write(r, shown) /\ UNCHANGED <<count, watcher>>
    BY <1>0, <1>2 DEF Reporting!Store
  <2>. QED  BY <1>1, <2>1, StoreRefused
<1>3. CASE Cardinality(held) < Watchers
  <2>1. Reporting!Write(r, list) /\ count' = n /\ watcher' = [watcher EXCEPT ![s] = rec]
    BY <1>0, <1>3 DEF Reporting!Store
  <2>2. /\ old \in Lists /\ s \in Watcher /\ call[r].number \in Nat /\ watcher[s] = Missing
        /\ ListSound(old, watcher, reports) /\ CallSound(r)
    BY <1>1, CallShape DEF ReportInv
  <2>3. /\ watcher \in [Watcher -> Watching \cup {Missing}] /\ hour \in Nat /\ count \in Nat /\ reports \subseteq Reports
        /\ \A x \in reports : SentSound(x, watcher)
        /\ \A u \in Watcher : WatcherSound(watcher[u], u, reports)
    BY DEF ReportInv, ReportTyped
  <2>4. n \in Nat /\ hour + 1 \in Nat
    BY <2>2, <2>3
  <2>5. /\ e \in Shown /\ e.number = n /\ e.progress = 0 /\ e.status = "waiting" /\ e.sequence = 0
    BY <2>4 DEF Reporting!NewSession, Shown, ReportConstants
  <2>6. rec \in Watching
    BY FreshWatcher
  <2>7. /\ rec.done = 0 /\ rec.sequence = 0 /\ rec.saved = 0 /\ ~rec.complete /\ ~rec.waiting
    OBVIOUS
  <2> HIDE DEF rec, e
  <2>8. /\ watcher' \in [Watcher -> Watching \cup {Missing}] /\ watcher'[s] = rec
        /\ \A u \in Watcher : u # s => watcher'[u] = watcher[u]
    BY <2>1, <2>2, <2>3, <2>6
  <2>9. Further(watcher, watcher')
    <3>1. Further(watcher, watcher)
      BY <2>3, FurtherSame
    <3>2. \A u \in Watcher : watcher[u] # Missing => watcher'[u] = watcher[u]
      BY <2>2, <2>8
    <3>. QED  BY <3>1, <3>2 DEF Further
  <2>10. \A x \in reports : x.s # s
    BY <2>2, <2>3 DEF SentSound
  <2>11. list \in Lists /\ list[s] = e /\ \A u \in Watcher : u # s => list[u] = old[u]
    BY <2>2, <2>5 DEF Lists
  <2>12. ListSound(list, watcher', reports)
    <3>1. Room(list)
      BY <1>3, <2>2, RoomForOne
    <3>2. ListSound(old, watcher', reports)
      BY <2>2, <2>3, <2>8, <2>9, EntryKept
    <3>3. EntrySound(e, s, watcher', reports)
      <4>1. watcher'[s] # Missing /\ e.progress <= watcher'[s].done + 1
        BY <2>5, <2>6, <2>7, <2>8 DEF ReportConstants
      <4>. QED  BY <2>5, <4>1 DEF EntrySound
    <3>4. \A u \in Watcher : EntrySound(list[u], u, watcher', reports)
      BY <2>11, <3>2, <3>3 DEF ListSound
    <3> HIDE DEF list
    <3>. QED  BY <3>1, <3>4 DEF ListSound
  <2> HIDE DEF list
  <2>13. ASSUME NEW u \in Watcher PROVE WatcherSound(watcher'[u], u, reports)
    <3>1. CASE u = s
      <4>1. \A x \in reports : x.s # u
        BY <2>10, <3>1
      <4>2. rec.saved <= rec.sequence
        BY <2>7
      <4>. QED  BY <2>7, <2>8, <3>1, <4>1, <4>2 DEF WatcherSound
    <3>2. CASE u # s
      BY <2>3, <2>8, <3>2
    <3>. QED  BY <3>1, <3>2
  <2>14. ASSUME NEW q \in Handler, q # r, call[q].pc = "in", call[q].report = Missing
         PROVE  watcher'[call[q].s] = Missing
    <3>1. call[q].s # s
      BY <1>1, <2>2, <2>14 DEF CallSound
    <3>2. watcher[call[q].s] = Missing /\ call[q].s \in Watcher
      BY <2>14, CallShape
    <3>. QED  BY <2>8, <3>1, <3>2
  <2>15. ASSUME lapses = 0
         PROVE  NumbersApart(list, count') /\ \A u \in Watcher : EndShown(list[u], watcher'[u])
    <3>1. /\ call[r].number = count /\ NumbersApart(old, count)
          /\ \A u \in Watcher : EndShown(old[u], watcher[u])
      BY <1>1, <2>15, ListRead
    <3>2. n = count + 1 /\ count' = n
      BY <2>1, <3>1
    <3>3. \A u \in Watcher : u # s /\ list[u] # Missing => list[u].number \in Nat /\ list[u].number <= count
      BY <2>2, <2>11, <3>1 DEF NumbersApart, Lists, Shown
    <3>4. \A u \in Watcher : u # s /\ list[u] # Missing => list[u].number # n /\ list[u].number <= n
      BY <2>3, <3>2, <3>3
    <3>5. list[s].number = n /\ n <= n
      BY <2>4, <2>5, <2>11
    <3>6. \A u, v \in Watcher : u # s /\ v # s /\ u # v /\ list[u] # Missing /\ list[v] # Missing =>
            list[u].number # list[v].number
      BY <2>11, <3>1 DEF NumbersApart
    <3>7. NumbersApart(list, n)
      <4>1. \A u \in Watcher : list[u] # Missing => list[u].number <= n
        BY <3>4, <3>5
      <4>2. ASSUME NEW u \in Watcher, NEW v \in Watcher, u # v, list[u] # Missing, list[v] # Missing
            PROVE  list[u].number # list[v].number
        BY <3>4, <3>5, <3>6, <4>2
      <4>. QED  BY <4>1, <4>2 DEF NumbersApart
    <3>8. ASSUME NEW u \in Watcher PROVE EndShown(list[u], watcher'[u])
      <4>1. CASE u = s
        BY <2>7, <2>8, <4>1 DEF EndShown
      <4>2. CASE u # s
        BY <2>8, <2>11, <3>1, <4>2
      <4>. QED  BY <4>1, <4>2
    <3>. QED  BY <3>2, <3>7, <3>8
  <2>16. count' \in Nat
    BY <2>1, <2>4
  <2>. QED  BY <1>1, <2>1, <2>8, <2>9, <2>11, <2>12, <2>13, <2>14, <2>15, <2>16, ListWritten
<1>. QED  BY <1>2, <1>3

\* What an answer, if it is awaited, may make of a download.
Answered(s, report, ok) ==
  /\ watcher' \in [Watcher -> Watching \cup {Missing}] /\ Further(watcher, watcher')
  /\ watcher[s] # Missing /\ \A u \in Watcher : u # s => watcher'[u] = watcher[u]
  /\ \A u \in Watcher : WatcherSound(watcher'[u], u, reports)
  /\ watcher'[s].complete /\ ~watcher'[s].stopped =>
       \/ watcher[s].complete /\ ~watcher[s].stopped
       \/ /\ ok /\ report.status = "completed" /\ watcher[s].up /\ ~watcher[s].stopped
          /\ watcher[s].sequence = report.sequence

\* Answer(s, report, ok): a report is about a download that has begun.
LEMMA AnswerGiven ==
  ASSUME ReportConstants, ReportInv, NEW s \in Watcher, NEW report \in reports, report.s = s,
         NEW ok \in BOOLEAN, Reporting!Answer(s, report, ok)
  PROVE  Answered(s, report, ok)
<1> DEFINE w == watcher[s]
           flag == report.status = "completed"
           no == [w EXCEPT !.up = FALSE, !.waiting = FALSE, !.sequence = w.saved]
           yes == [w EXCEPT !.waiting = FALSE, !.saved = w.sequence, !.complete = flag]
<1>1. /\ w # Missing /\ watcher \in [Watcher -> Watching \cup {Missing}]
      /\ \A u \in Watcher : WatcherSound(watcher[u], u, reports)
  BY DEF ReportInv, ReportTyped, SentSound
<1>2. /\ w \in Watching /\ w.done \in Nat /\ w.sequence \in Nat /\ w.saved \in Nat /\ w.saved <= w.sequence
  BY <1>1, WatcherShape
<1>3. CASE ~Reporting!Awaited(s, report)
  <2>1. watcher' = watcher
    BY <1>3 DEF Reporting!Answer
  <2>2. Further(watcher, watcher')
    BY <1>1, <2>1, FurtherSame
  <2>. QED  BY <1>1, <2>1, <2>2 DEF Answered
<1>4. CASE Reporting!Awaited(s, report) /\ ~ok
  <2>1. watcher' = [watcher EXCEPT ![s] = no]
    BY <1>1, <1>4 DEF Reporting!Answer
  <2>2. no \in Watching
    BY <1>2, WatchingWith
  <2>3. /\ no.done = w.done /\ no.sequence = w.saved /\ no.saved = w.saved /\ ~no.up /\ ~no.waiting
        /\ no.complete = w.complete /\ no.stopped = w.stopped
    BY <1>2 DEF Watching
  <2> HIDE DEF no
  <2>4. w.done <= no.done /\ WatcherSound(no, s, reports)
    BY <1>2, <2>3 DEF WatcherSound
  <2>5. /\ watcher' \in [Watcher -> Watching \cup {Missing}] /\ Further(watcher, watcher')
        /\ watcher'[s] = no /\ \A u \in Watcher : u # s => watcher'[u] = watcher[u]
    BY <1>1, <2>1, <2>2, <2>4, WatcherReplaced
  <2>6. \A u \in Watcher : WatcherSound(watcher'[u], u, reports)
    BY <1>1, <2>4, <2>5
  <2>. QED  BY <1>1, <2>3, <2>5, <2>6 DEF Answered
<1>5. CASE Reporting!Awaited(s, report) /\ ok
  <2>0. w.waiting /\ w.sequence = report.sequence /\ w.up
    BY <1>1, <1>5 DEF Reporting!Awaited, WatcherSound
  <2>1. watcher' = [watcher EXCEPT ![s] = yes]
    BY <1>1, <1>5 DEF Reporting!Answer
  <2>2. flag \in BOOLEAN
    OBVIOUS
  <2>2a. yes \in Watching
    <3> HIDE DEF flag
    <3>. QED  BY <1>2, <2>2, WatchingWith
  <2>3. /\ yes.done = w.done /\ yes.sequence = w.sequence /\ yes.saved = w.sequence /\ yes.up = w.up /\ ~yes.waiting
        /\ (yes.complete => report.status = "completed") /\ yes.stopped = w.stopped
    BY <1>2 DEF Watching
  <2> HIDE DEF yes
  <2>4. w.done <= yes.done /\ WatcherSound(yes, s, reports)
    BY <1>1, <1>2, <2>3 DEF WatcherSound
  <2>5. /\ watcher' \in [Watcher -> Watching \cup {Missing}] /\ Further(watcher, watcher')
        /\ watcher'[s] = yes /\ \A u \in Watcher : u # s => watcher'[u] = watcher[u]
    BY <1>1, <2>1, <2>2a, <2>4, WatcherReplaced
  <2>6. \A u \in Watcher : WatcherSound(watcher'[u], u, reports)
    BY <1>1, <2>4, <2>5
  <2>. QED  BY <1>1, <1>5, <2>0, <2>3, <2>5, <2>6 DEF Answered
<1>. QED  BY <1>3, <1>4, <1>5

\* A request with a report ends, with a list in which nothing is untrue.
LEMMA ReportWritten ==
  ASSUME ReportConstants, ReportInv, NEW r \in Handler, call[r].pc = "in", call[r].report # Missing,
         NEW list \in Lists, NEW ok \in BOOLEAN, Reporting!Write(r, list), count' = count,
         Answered(call[r].s, call[r].report, ok), ListSound(list, watcher', reports),
         lapses = 0 =>
           /\ NumbersApart(list, count)
           /\ \A u \in Watcher : u # call[r].s => EndShown(list[u], watcher[u])
           /\ EndShown(list[call[r].s], watcher'[call[r].s])
  PROVE  ReportInv'
<1> DEFINE s == call[r].s
<1>1. s \in Watcher /\ watcher[s] # Missing /\ \A u \in Watcher : u # s => watcher'[u] = watcher[u]
  BY CallShape DEF Answered
<1>2. ASSUME NEW q \in Handler, q # r, call[q].pc = "in", call[q].report = Missing
      PROVE  watcher'[call[q].s] = Missing
  <2>1. watcher[call[q].s] = Missing /\ call[q].s \in Watcher
    BY <1>2, CallShape
  <2>. QED  BY <1>1, <2>1
<1>3. ASSUME lapses = 0, NEW u \in Watcher PROVE EndShown(list[u], watcher'[u])
  BY <1>1, <1>3
<1>4. count' \in Nat
  BY DEF ReportInv, ReportTyped
<1>. QED  BY <1>2, <1>3, <1>4, ListWritten DEF Answered

\* update() without a change of the list.
LEMMA UpdateRefused ==
  ASSUME ReportConstants, ReportInv, NEW r \in Handler, call[r].pc = "in", call[r].report # Missing,
         Reporting!Write(r, shown), Reporting!Answer(call[r].s, call[r].report, FALSE), count' = count
  PROVE  ReportInv'
<1> DEFINE s == call[r].s
<1>1. s \in Watcher /\ call[r].report \in reports /\ call[r].report.s = s
  BY CallShape
<1>2. Answered(s, call[r].report, FALSE)
  BY <1>1, AnswerGiven
<1>3. shown \in Lists /\ ListSound(shown, watcher, reports) /\ reports \in SUBSET Reports
      /\ watcher \in [Watcher -> Watching \cup {Missing}]
  BY DEF ReportInv, ReportTyped
<1>4. ListSound(shown, watcher', reports)
  BY <1>2, <1>3, EntryKept DEF Answered
<1>5. ASSUME lapses = 0
      PROVE  /\ NumbersApart(shown, count) /\ EndShown(shown[s], watcher'[s])
             /\ \A u \in Watcher : EndShown(shown[u], watcher[u])
  <2>1. NumbersApart(shown, count) /\ \A u \in Watcher : EndShown(shown[u], watcher[u])
    BY <1>5, ListRead
  <2>2. EndShown(shown[s], watcher'[s])
    BY <1>1, <1>2, <2>1 DEF EndShown, Answered
  <2>. QED  BY <2>1, <2>2
<1>. QED  BY <1>2, <1>3, <1>4, <1>5, ReportWritten

\* Stale(e, report): a report that is awaited and not newer is the one that is shown.
LEMMA UpdateStale ==
  ASSUME ReportConstants, ReportInv, NEW r \in Handler, call[r].pc = "in", call[r].report # Missing,
         call[r].list[call[r].s] # Missing, Reporting!Stale(call[r].list[call[r].s], call[r].report),
         Reporting!Write(r, call[r].list), Reporting!Answer(call[r].s, call[r].report, TRUE), count' = count
  PROVE  ReportInv'
<1> DEFINE s == call[r].s
           x == call[r].report
           list == call[r].list
           e == list[s]
<1>1. /\ s \in Watcher /\ x \in reports /\ x.s = s /\ list \in Lists /\ ListSound(list, watcher, reports)
  BY CallShape
<1>2. Answered(s, x, TRUE)
  BY <1>1, AnswerGiven
<1>3. /\ reports \in SUBSET Reports /\ watcher \in [Watcher -> Watching \cup {Missing}]
      /\ \A y \in reports : SentSound(y, watcher)
      /\ WatcherSound(watcher[s], s, reports)
  BY <1>1 DEF ReportInv, ReportTyped
<1>4. ListSound(list, watcher', reports)
  BY <1>1, <1>2, <1>3, EntryKept DEF Answered
<1>5. ASSUME lapses = 0
      PROVE  /\ NumbersApart(list, count) /\ EndShown(e, watcher'[s])
             /\ \A u \in Watcher : EndShown(list[u], watcher[u])
  <2>1. NumbersApart(list, count) /\ \A u \in Watcher : EndShown(list[u], watcher[u])
    BY <1>5, ListRead
  <2>2. SUFFICES ASSUME watcher'[s].complete, ~watcher'[s].stopped, e.status # "completed"
                 PROVE  FALSE
    BY <2>1 DEF EndShown
  <2>3. /\ x.status = "completed" /\ watcher[s].up /\ ~watcher[s].stopped /\ watcher[s].sequence = x.sequence
        /\ watcher[s] # Missing
    BY <1>1, <1>2, <2>1, <2>2 DEF EndShown, Answered
  <2>4. x.sequence <= e.sequence
    <3>1. e.status \in {"waiting", "downloading", "completed"}
      BY <1>1 DEF Lists, Shown
    <3>. QED  BY <2>2, <3>1 DEF Reporting!Stale, Reporting!Terminal
  <2>5. /\ x.sequence \in Nat /\ x.sequence >= 1 /\ e.sequence \in Nat
    BY <1>1, <1>3 DEF SentSound, Reports, Lists, Shown
  <2>6. PICK y \in reports : y.s = s /\ y.sequence = e.sequence /\ y.status = e.status
    <3>1. EntrySound(e, s, watcher, reports) /\ e # Missing
      BY <1>1 DEF ListSound
    <3>2. e.sequence # 0
      BY <2>4, <2>5
    <3>. QED  BY <3>1, <3>2 DEF EntrySound
  <2>7. y.sequence <= x.sequence /\ y.sequence \in Nat
    BY <1>3, <2>3, <2>6 DEF WatcherSound, Reports
  <2>8. y.sequence = x.sequence
    BY <2>4, <2>5, <2>6, <2>7
  <2>9. y = x
    BY <1>1, <1>3, <2>3, <2>6, <2>8 DEF WatcherSound
  <2>. QED  BY <2>2, <2>3, <2>6, <2>9
<1>. QED  BY <1>1, <1>2, <1>4, <1>5, ReportWritten

\* What a newer report makes of an entry.
LEMMA ReportedEntry ==
  ASSUME ReportConstants, ReportInv, NEW e \in Shown, NEW x \in Reports
  PROVE  /\ Reporting!Reported(e, x) \in Shown
         /\ Reporting!Reported(e, x).number = e.number
         /\ Reporting!Reported(e, x).sequence = x.sequence /\ Reporting!Reported(e, x).status = x.status
         /\ Reporting!Reported(e, x).progress \in {e.progress, x.progress, Parts + 1}
         /\ Reporting!Reported(e, x).progress = Parts + 1 =>
              e.progress = Parts + 1 \/ x.progress = Parts + 1 \/ x.status = "completed"
         /\ Reporting!Reported(e, x).progress >= e.progress
<1> DEFINE p == IF x.status = "completed" THEN Parts + 1 ELSE x.progress
           m == IF p > e.progress THEN p ELSE e.progress
           next == [e EXCEPT !.sequence = x.sequence, !.status = x.status, !.until = hour + 1, !.progress = m]
<1>1. /\ x.sequence \in Nat /\ x.progress \in 0..Parts /\ x.status \in {"downloading", "completed"}
      /\ e.progress \in 0..(Parts + 1) /\ hour + 1 \in Nat /\ Parts \in Nat
  BY DEF Reports, Shown, ReportInv, ReportTyped, ReportConstants
<1>2. p \in 0..(Parts + 1)
  BY <1>1
<1>3. p \in {x.progress, Parts + 1} /\ (p = Parts + 1 => x.progress = Parts + 1 \/ x.status = "completed")
  OBVIOUS
<1> HIDE DEF p
<1>4. /\ m \in 0..(Parts + 1) /\ m >= e.progress /\ m \in {p, e.progress}
  BY <1>1, <1>2
<1>5. Reporting!Reported(e, x) = next
  BY DEF Reporting!Reported, p
<1> HIDE DEF m
<1>6. /\ next \in Shown /\ next.number = e.number /\ next.sequence = x.sequence /\ next.status = x.status
      /\ next.progress = m
  BY <1>1, <1>4 DEF Shown
<1> HIDE DEF next
<1>. QED  BY <1>3, <1>4, <1>5, <1>6

\* A newer report is shown.
LEMMA UpdateShown ==
  ASSUME ReportConstants, ReportInv, NEW r \in Handler, call[r].pc = "in", call[r].report # Missing,
         call[r].list[call[r].s] # Missing, ~Reporting!Stale(call[r].list[call[r].s], call[r].report),
         Reporting!Write(r, [call[r].list EXCEPT ![call[r].s] =
                               Reporting!Reported(call[r].list[call[r].s], call[r].report)]),
         Reporting!Answer(call[r].s, call[r].report, TRUE), count' = count
  PROVE  ReportInv'
<1> DEFINE s == call[r].s
           x == call[r].report
           old == call[r].list
           e == old[s]
           next == Reporting!Reported(e, x)
           list == [old EXCEPT ![s] = next]
<1>1. /\ s \in Watcher /\ x \in reports /\ x.s = s /\ old \in Lists /\ ListSound(old, watcher, reports)
  BY CallShape
<1>2. Answered(s, x, TRUE)
  BY <1>1, AnswerGiven
<1>3. /\ reports \in SUBSET Reports /\ watcher \in [Watcher -> Watching \cup {Missing}]
      /\ SentSound(x, watcher) /\ x \in Reports /\ e \in Shown /\ e # Missing
  BY <1>1 DEF ReportInv, ReportTyped, Lists
<1>4. /\ next \in Shown /\ next.number = e.number /\ next.sequence = x.sequence /\ next.status = x.status
      /\ next.progress \in {e.progress, x.progress, Parts + 1}
      /\ next.progress = Parts + 1 => e.progress = Parts + 1 \/ x.progress = Parts + 1 \/ x.status = "completed"
  BY <1>3, ReportedEntry
<1> HIDE DEF next
<1>5. list \in Lists /\ list[s] = next /\ next # Missing /\ \A u \in Watcher : u # s => list[u] = old[u]
  BY <1>1, <1>4 DEF Lists, ReportConstants
<1>6. ListSound(old, watcher', reports) /\ SentSound(x, watcher')
  <2>1. /\ watcher' \in [Watcher -> Watching \cup {Missing}] /\ Further(watcher, watcher')
    BY <1>2 DEF Answered
  <2>2. ListSound(old, watcher', reports)
    BY <1>1, <1>3, <2>1, EntryKept
  <2>3. SentSound(x, watcher')
    BY <1>3, <2>1, SentKept
  <2>. QED  BY <2>2, <2>3
<1>7. EntrySound(next, s, watcher', reports)
  <2>1. /\ watcher'[s] # Missing /\ x.progress <= watcher'[s].done /\ e.progress <= watcher'[s].done + 1
        /\ x.status = "completed" => watcher'[s].done = Parts
    BY <1>1, <1>3, <1>6 DEF SentSound, ListSound, EntrySound
  <2>2. watcher'[s].done \in Nat /\ x.progress \in Nat /\ e.progress \in Nat /\ Parts \in Nat
    BY <1>1, <1>2, <1>3, <2>1 DEF Answered, Watching, Reports, Shown, ReportConstants
  <2>3. next.progress <= watcher'[s].done + 1
    BY <1>4, <2>1, <2>2
  <2>. QED  BY <1>1, <1>4, <2>1, <2>3 DEF EntrySound
<1>8. ListSound(list, watcher', reports)
  <2>1. Room(list)
    <3>1. \A u \in Watcher : list[u] # Missing => old[u] # Missing
      BY <1>3, <1>5
    <3> HIDE DEF list
    <3>. QED  BY <1>1, <3>1, RoomKept DEF ListSound
  <2>2. \A u \in Watcher : EntrySound(list[u], u, watcher', reports)
    BY <1>5, <1>6, <1>7 DEF ListSound
  <2> HIDE DEF list
  <2>. QED  BY <2>1, <2>2 DEF ListSound
<1>9. Reporting!Write(r, list)
  BY DEF next
<1> HIDE DEF list
<1>10. ASSUME lapses = 0
       PROVE  /\ NumbersApart(list, count) /\ EndShown(list[s], watcher'[s])
              /\ \A u \in Watcher : u # s => EndShown(list[u], watcher[u])
  <2>1. NumbersApart(old, count) /\ \A u \in Watcher : EndShown(old[u], watcher[u])
    BY <1>10, ListRead
  <2>2. \A u \in Watcher : (list[u] # Missing <=> old[u] # Missing) /\ (old[u] # Missing => list[u].number = old[u].number)
    BY <1>3, <1>4, <1>5
  <2>3. NumbersApart(list, count)
    BY <2>1, <2>2 DEF NumbersApart
  <2>4. e.status # "completed"
    BY DEF Reporting!Stale, Reporting!Terminal
  <2>5. EndShown(next, watcher'[s])
    BY <1>1, <1>2, <1>3, <1>4, <2>1, <2>4 DEF EndShown, Answered
  <2>6. \A u \in Watcher : u # s => EndShown(list[u], watcher[u])
    BY <1>5, <2>1
  <2>. QED  BY <1>5, <2>3, <2>5, <2>6
<1>. QED  BY <1>2, <1>5, <1>8, <1>9, <1>10, ReportWritten

\* Update(r): a report is refused, ignored or shown.
LEMMA SessionUpdated ==
  ASSUME ReportConstants, ReportInv, NEW r \in Handler, Reporting!Update(r)
  PROVE  ReportInv'
<1> DEFINE s == call[r].s
           x == call[r].report
           e == call[r].list[s]
<1>1. call[r].pc = "in" /\ x # Missing /\ count' = count
  BY DEF Reporting!Update
<1>2. \/ Reporting!Write(r, shown) /\ Reporting!Answer(s, x, FALSE)
      \/ /\ e # Missing /\ Reporting!Stale(e, x)
         /\ Reporting!Write(r, call[r].list) /\ Reporting!Answer(s, x, TRUE)
      \/ /\ e # Missing /\ ~Reporting!Stale(e, x) /\ Reporting!Answer(s, x, TRUE)
         /\ Reporting!Write(r, [call[r].list EXCEPT ![s] = Reporting!Reported(e, x)])
  BY DEF Reporting!Update
<1>. QED  BY <1>1, <1>2, UpdateRefused, UpdateStale, UpdateShown

\* Nothing is shown at first.
LEMMA ReportStart ==
  ASSUME ReportConstants, Reporting!Init
  PROVE  ReportInv
<1>1. /\ upload = "pending" /\ shown = [s \in Watcher |-> Missing] /\ count = 0 /\ mutex = Missing
      /\ call = [r \in Handler |-> Reporting!Idle] /\ watcher = [s \in Watcher |-> Missing]
      /\ reports = {} /\ hour = 0 /\ pauses = 0 /\ lapses = 0
  BY DEF Reporting!Init, Reporting!NoSessions
<1>2. ReportTyped
  BY <1>1 DEF ReportTyped, Lists
<1>3. \A r \in Handler : call[r].pc # "in"
  BY <1>1 DEF Reporting!Idle
<1>4. Room(shown)
  <2>1. {s \in Watcher : shown[s] # Missing} = {}
    BY <1>1
  <2>2. Cardinality({s \in Watcher : shown[s] # Missing}) = 0
    BY <2>1, FS_EmptySet
  <2>3. 0 <= Watchers
    BY DEF ReportConstants
  <2>. QED  BY <2>2, <2>3 DEF Room
<1>5. ListSound(shown, watcher, reports)
  BY <1>1, <1>4 DEF ListSound, EntrySound
<1>6. Serial
  BY <1>1, <1>3 DEF Serial, Lockstep, NumbersApart, EndShown
<1>. QED  BY <1>1, <1>2, <1>3, <1>5, <1>6 DEF ReportInv, CallSound, WatcherSound

\* Every step keeps it.
LEMMA ReportInvStep ==
  ASSUME ReportConstants, ReportInv, [Reporting!Next]_reportVars
  PROVE  ReportInv'
<1>1. CASE UNCHANGED reportVars
  BY <1>1 DEF reportVars, ReportInv, ReportTyped, ListSound, CallSound, Serial, Lockstep
<1>2. CASE \E r \in Handler : Reporting!Enter(r) \/ Reporting!Store(r) \/ Reporting!Update(r) \/ Reporting!Die(r)
  BY <1>2, RequestEnters, SessionStored, SessionUpdated, RequestDies
<1>3. CASE \E s \in Watcher :
             \/ Reporting!ReportChunk(s) \/ Reporting!ReportComplete(s)
             \/ Reporting!Stop(s) \/ Reporting!Resume(s)
  BY <1>3, ChunkReported, EndReported, DownloadStops, WatcherResumes
<1>4. CASE Reporting!Complete \/ Reporting!Remove \/ Reporting!LeaseExpires \/ Reporting!Tick
  BY <1>4, UploadCompletes, UploadRemoved, LeaseLost, HourPasses
<1>. QED  BY <1>1, <1>2, <1>3, <1>4 DEF Reporting!Next

\* It is what ReportsHonest says of every state.
LEMMA ReportImplied ==
  ASSUME ReportConstants, ReportInv
  PROVE  Reporting!TypeOK /\ Reporting!SessionsDistinct /\ Reporting!ReportsTrue
<1>1. /\ ReportTyped /\ ListSound(shown, watcher, reports) /\ shown \in Lists
      /\ watcher \in [Watcher -> Watching \cup {Missing}]
      /\ \A s \in Watcher : WatcherSound(watcher[s], s, reports)
  BY DEF ReportInv, ReportTyped
<1>2. Reporting!TypeOK
  <2>1. ASSUME NEW s \in Watcher, shown[s] # Missing
        PROVE  /\ shown[s].progress \in 0..(Parts + 1) /\ shown[s].sequence \in Nat
               /\ shown[s].status \in {"waiting", "downloading"} \cup Reporting!Terminal
    BY <1>1, <2>1 DEF Lists, Shown, Reporting!Terminal
  <2>2. ASSUME NEW s \in Watcher, watcher[s] # Missing
        PROVE  watcher[s].done \in 0..Parts /\ watcher[s].saved <= watcher[s].sequence
    BY <2>2, WatcherShape
  <2>. QED  BY <1>1, <2>1, <2>2 DEF Reporting!TypeOK, ReportTyped
<1>3. Reporting!SessionsDistinct
  <2> DEFINE A == {s \in Watcher : Reporting!Active(shown)[s] # Missing}
             list == Reporting!Active(shown)
  <2>1. \A s \in Watcher : list[s] # Missing => shown[s] # Missing
    BY DEF Reporting!Active
  <2>2. Room(list)
    <3> HIDE DEF list
    <3>. QED  BY <1>1, <2>1, RoomKept DEF ListSound
  <2>3. Reporting!Cardinality(A) = Cardinality(A)
    BY DEF Reporting!Cardinality, Cardinality
  <2>4. Reporting!Cardinality(A) <= Watchers
    BY <2>2, <2>3 DEF Room
  <2>5. lapses = 0 => NumbersApart(shown, count)
    BY DEF ReportInv, Serial
  <2>. QED  BY <2>4, <2>5 DEF Reporting!SessionsDistinct, NumbersApart
<1>4. Reporting!ReportsTrue
  <2>1. lapses = 0 => \A s \in Watcher : EndShown(shown[s], watcher[s])
    BY DEF ReportInv, Serial
  <2>. QED  BY <1>1, <2>1 DEF Reporting!ReportsTrue, ListSound, EntrySound, EndShown
<1>. QED  BY <1>2, <1>3, <1>4

\* An entry that is later than another of the same session, or the same.
Onward(e, next) ==
  /\ next.sequence >= e.sequence /\ next.progress >= e.progress
  /\ e.status = "completed" => next.status = e.status

\* What is shown does not go back in a step that writes the list.
LEMMA ListOnward ==
  ASSUME ReportConstants, ReportInv, lapses = 0, [Reporting!Next]_reportVars,
         NEW s \in Watcher, shown[s] # Missing, shown'[s] # Missing
  PROVE  Onward(shown[s], shown'[s])
<1>1. /\ shown \in Lists /\ shown[s] \in Shown /\ reports \subseteq Reports
      /\ EntrySound(shown[s], s, watcher, reports)
  BY DEF ReportInv, ReportTyped, Lists, ListSound
<1>2. shown[s].sequence \in Nat /\ shown[s].progress \in Nat
  BY <1>1 DEF Shown, ReportConstants
<1>3. CASE shown'[s] = shown[s]
  BY <1>2, <1>3 DEF Onward
<1>4. ASSUME shown' # shown
      PROVE  \E r \in Handler : Reporting!Store(r) \/ Reporting!Update(r)
  BY <1>4 DEF Reporting!Next, reportVars, Reporting!Enter, Reporting!Die, Reporting!ReportChunk,
     Reporting!ReportComplete, Reporting!Stop, Reporting!Resume, Reporting!Complete, Reporting!Remove,
     Reporting!LeaseExpires, Reporting!Tick
<1>5. ASSUME NEW r \in Handler, Reporting!Store(r) PROVE shown'[s] = shown[s]
  <2>1. call[r].pc = "in" /\ call[r].report = Missing
    BY <1>5 DEF Reporting!Store
  <2>2. /\ call[r].list \in Lists /\ watcher[call[r].s] = Missing /\ call[r].list[s] \in {shown[s], Missing}
        /\ call[r].s \in Watcher
    BY <2>1, CallShape, ListRead
  <2>3. s # call[r].s
    BY <1>1, <2>2 DEF EntrySound
  <2>4. shown' = shown \/ shown' = [call[r].list EXCEPT ![call[r].s] = Reporting!NewSession(call[r].number + 1)]
    BY <1>5 DEF Reporting!Store, Reporting!Write
  <2>. QED  BY <2>2, <2>3, <2>4 DEF Lists
<1>6. ASSUME NEW r \in Handler, Reporting!Update(r), shown'[s] # shown[s] PROVE Onward(shown[s], shown'[s])
  <2> DEFINE u == call[r].s
             x == call[r].report
             list == call[r].list
             e == list[u]
  <2>1. call[r].pc = "in" /\ x # Missing
    BY <1>6 DEF Reporting!Update
  <2>2. list \in Lists /\ u \in Watcher /\ x \in reports /\ list[s] \in {shown[s], Missing}
    BY <2>1, CallShape, ListRead
  <2>3. \/ shown' = shown \/ shown' = list
        \/ e # Missing /\ ~Reporting!Stale(e, x) /\ shown' = [list EXCEPT ![u] = Reporting!Reported(e, x)]
    BY <1>6 DEF Reporting!Update, Reporting!Write
  <2>4. s = u /\ e # Missing /\ ~Reporting!Stale(e, x) /\ shown' = [list EXCEPT ![u] = Reporting!Reported(e, x)]
    BY <1>6, <2>2, <2>3 DEF Lists
  <2>5. e = shown[s] /\ shown'[s] = Reporting!Reported(e, x) /\ x \in Reports
    BY <1>1, <2>2, <2>4 DEF Lists
  <2>6. /\ Reporting!Reported(e, x).sequence = x.sequence
        /\ Reporting!Reported(e, x).progress >= e.progress
    BY <1>1, <2>5, ReportedEntry
  <2>7. ~(x.sequence <= e.sequence) /\ e.status # "completed"
    BY <2>4 DEF Reporting!Stale, Reporting!Terminal
  <2>8. x.sequence \in Nat
    BY <2>5 DEF Reports
  <2>. QED  BY <1>2, <2>5, <2>6, <2>7, <2>8 DEF Onward
<1>. QED  BY <1>3, <1>4, <1>5, <1>6

\* So no step of the list takes a report back.
LEMMA ReportMonotone ==
  ASSUME ReportConstants, ReportInv, [Reporting!Next]_reportVars
  PROVE  Reporting!ReportsMonotoneStep
<1>1. ASSUME NEW s \in Watcher, lapses = 0, shown[s] # Missing, shown'[s] # Missing
      PROVE  Onward(shown[s], shown'[s])
  BY <1>1, ListOnward
<1>2. \A s \in Watcher : shown[s] # Missing => shown[s].status \in {"waiting", "downloading", "completed"}
  BY DEF ReportInv, ReportTyped, Lists, Shown
<1>. QED  BY <1>1, <1>2 DEF Reporting!ReportsMonotoneStep, Onward, Reporting!Terminal

\* DownloadSessionController: for every number of requests, sessions and chunks and
\* every limit, what the sender is shown of its receivers is true, distinct and within
\* the limit, and does not go back while requests keep their lease, although reports
\* arrive late, twice and in any order, and downloads stop and go on.
THEOREM ReportsAlwaysHonest == Reporting!Spec => ReportsHonest
<1>0. ReportConstants
  BY NativeAssumption
<1>1. Reporting!Init => ReportInv
  BY <1>0, ReportStart
<1>2. ReportInv /\ [Reporting!Next]_reportVars => ReportInv'
  BY <1>0, ReportInvStep
<1>3. ReportInv => Reporting!TypeOK /\ Reporting!SessionsDistinct /\ Reporting!ReportsTrue
  BY <1>0, ReportImplied
<1>4. ReportInv /\ [Reporting!Next]_reportVars => [Reporting!ReportsMonotoneStep]_reportVars
  BY <1>0, ReportMonotone
<1>5. Reporting!vars = reportVars
  BY DEF Reporting!vars, reportVars
<1>. QED  BY <1>1, <1>2, <1>3, <1>4, <1>5, PTL DEF Reporting!Spec, Reporting!vars, reportVars, ReportsHonest
=============================================================================
