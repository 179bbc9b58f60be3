----------------------------- MODULE StageClient -----------------------------
(***************************************************************************)
(* The client of a staged chunk upload: stage() and complete_stage() of    *)
(* protocol/upload.rs over the StageSession of crates/transfer.  The       *)
(* handlers of the server are atomic here; ChunkStage opens them up.       *)
(* Every request may be executed without an answer, or late, when a proxy  *)
(* answered long before; the process may die anywhere and come back with   *)
(* the sidecar it saved last.  Sizes are counted in minimum parts.         *)
(***************************************************************************)
EXTENDS Naturals, FiniteSets

CONSTANTS
  Size,       \* ciphertext_bytes
  MaxPart,    \* part_max_bytes
  MaxRetries, \* MAX_STAGE_RETRIES
  MaxResets,  \* MAX_STAGE_RESETS
  Ids,        \* how many stage identifiers a behaviour may draw
  None

VARIABLES
  sidecar,   \* the identity in stage-<item>-<position>.json
  client,    \* the worker in stage()
  stage,     \* the server's rows, by identifier
  published, \* the chunk is stored
  late,      \* part requests that may still be executed
  resets     \* identities that replaced a lost one since the chunk was last opened

vars == <<sidecar, client, stage, published, late, resets>>

Id == 1..Ids
Part == [id : Id, offset : 0..(Size - 1), size : 1..Size]
Rank(state) == CASE state = "receiving" -> 0 [] state = "finalizing" -> 1 [] state = "complete" -> 2

StageSession == [id : Id, offset : 0..Size, state : {"receiving", "finalizing", "complete"},
                 retries : 0..MaxRetries, resets : 0..MaxResets]

Away == [pc |-> "away", session |-> None, part |-> 1]

TypeOK ==
  /\ sidecar \in Id \cup {None} /\ published \in BOOLEAN /\ resets \in 0..Ids
  /\ client.pc \in {"away", "save", "begin", "part", "sent", "complete", "done"}
  /\ client.session \in StageSession \cup {None} /\ client.part \in 1..MaxPart
  /\ stage \in [Id -> [offset : 0..Size, parts : SUBSET Part, lost : BOOLEAN] \cup {None}]
  /\ late \subseteq Part

\* StageSession::new
New(id) == [id |-> id, offset |-> 0, state |-> "receiving", retries |-> 0, resets |-> 0]

Init ==
  /\ sidecar = None /\ client = Away /\ stage = [i \in Id |-> None]
  /\ published = FALSE /\ late = {} /\ resets = 0
-----------------------------------------------------------------------------
(* The server.                                                             *)

Received(id) == [offset |-> stage[id].offset, state |-> "receiving"]

\* 410: there is no row, or the chunk is not stored and its stage is lost.
Gone(id) == stage[id] # None => stage[id].lost /\ ~published

\* part(): the same part again is acknowledged, the next part is stored; a stage whose
\* chunk is stored takes none.
Repeats(p) == p \in stage[p.id].parts
Extends(p) == p.offset = stage[p.id].offset /\ p.offset + p.size <= Size
Storable(p) == ~published /\ ~Gone(p.id) /\ ~Repeats(p) /\ Extends(p)

Store(p) ==
  stage' = IF Storable(p) THEN [stage EXCEPT ![p.id].offset = p.offset + p.size, ![p.id].parts = @ \cup {p}]
                        ELSE stage

\* Staging files vanish, expire and are pruned.
LoseStage(id) ==
  /\ stage[id] # None
  /\ stage' = [stage EXCEPT ![id] = IF stage[id].lost THEN None ELSE [@ EXCEPT !.lost = TRUE]]
  /\ UNCHANGED <<sidecar, client, published, late, resets>>

LatePart(p) ==
  /\ p \in late /\ late' = late \ {p} /\ Store(p)
  /\ UNCHANGED <<sidecar, client, published, resets>>

\* The direct PUT that upload_chunk() gave up before it staged, executed late: publish().
LateDirect ==
  /\ ~published /\ published' = TRUE
  /\ UNCHANGED <<sidecar, client, stage, late, resets>>
-----------------------------------------------------------------------------
(* What StageSession accepts and returns; None stands for an error.        *)

\* validate_status and reconcile
Reconcile(s, answer) ==
  IF \/ answer.offset > Size \/ (answer.state # "receiving" /\ answer.offset # Size)
     \/ answer.offset < s.offset \/ Rank(answer.state) < Rank(s.state)
  THEN None ELSE [s EXCEPT !.offset = answer.offset, !.state = answer.state]

\* acknowledge_part: the answer must acknowledge exactly the part that was sent.
AcknowledgePart(s, size, answer) ==
  IF Reconcile(s, answer) = None \/ answer.offset # s.offset + size THEN None
  ELSE [Reconcile(s, answer) EXCEPT !.retries = 0]

RecordRetry(s) == IF s.retries >= MaxRetries THEN None ELSE [s EXCEPT !.retries = @ + 1]

Reset(s, id) ==
  IF s.resets >= MaxResets THEN None
  ELSE [s EXCEPT !.id = id, !.offset = 0, !.state = "receiving", !.retries = 0, !.resets = @ + 1]

\* UploadTransport: parts stay within the advertised bounds.
Clamped(n) == IF n < 1 THEN 1 ELSE IF n > MaxPart THEN MaxPart ELSE n
Grow(n) == {Clamped(m) : m \in 1..((3 * n) \div 2)}
Shrink(n) == Clamped(n \div 2)
-----------------------------------------------------------------------------
(* stage()                                                                 *)

\* The job ends with an error; resume opens the chunk again.
Fail == client' = Away

Act(s) == CASE s.state = "receiving" /\ s.offset < Size -> "part"
            [] s.state = "complete" -> "done"
            [] OTHER -> "complete"

\* A session that was refused ends the job; another one goes on.
GoOn(s, part) == IF s = None THEN Fail ELSE client' = [pc |-> Act(s), session |-> s, part |-> part]

Unused == {i \in Id : stage[i] = None /\ sidecar # i /\ \A p \in late : p.id # i}

\* The saved identity, or a new one; never the saved offset.
Open ==
  /\ client.pc = "away"
  /\ \E id \in IF sidecar = None THEN Unused ELSE {sidecar} :
       client' = [pc |-> "save", session |-> New(id), part |-> 1]
  /\ resets' = 0
  /\ UNCHANGED <<sidecar, stage, published, late>>

\* Faulty variant: the request goes out before the identity is durable.
SaveIdentityLate ==
  /\ client.pc = "save"
  /\ stage' = [stage EXCEPT ![client.session.id] = [offset |-> 0, parts |-> {}, lost |-> FALSE]]
  /\ client' = [client EXCEPT !.pc = "begin"]
  /\ UNCHANGED <<sidecar, published, late, resets>>

SaveIdentity ==
  /\ client.pc = "save"
  /\ sidecar' = client.session.id /\ client' = [client EXCEPT !.pc = "begin"]
  /\ UNCHANGED <<stage, published, late, resets>>

\* PUT .../uploads/<id>: an expired row is refused, and that ends the job.
Begin ==
  /\ client.pc = "begin"
  /\ LET id == client.session.id
         made == IF published \/ stage[id] # None THEN stage
                 ELSE [stage EXCEPT ![id] = [offset |-> 0, parts |-> {}, lost |-> FALSE]]
     IN /\ stage' = made
        /\ IF ~published /\ made[id].lost THEN Fail
           ELSE \E part \in 1..MaxPart :
                  GoOn(Reconcile(client.session, IF published THEN [offset |-> Size, state |-> "complete"]
                                                 ELSE [offset |-> made[id].offset, state |-> "receiving"]), part)
  /\ UNCHANGED <<sidecar, published, late, resets>>

ThisPart == [id |-> client.session.id, offset |-> client.session.offset,
             size |-> IF Size - client.session.offset < client.part THEN Size - client.session.offset ELSE client.part]

SendPart ==
  /\ client.pc = "part"
  /\ late' = late \cup {ThisPart} /\ client' = [client EXCEPT !.pc = "sent"]
  /\ UNCHANGED <<sidecar, stage, published, resets>>

\* A success: stored or stored before.  A conflict ends the job; 423 is uncertain.
PartAnswered ==
  /\ client.pc = "sent" /\ ThisPart \notin late /\ ~Gone(client.session.id)
  /\ LET s == client.session
     IN IF Repeats(ThisPart)
        THEN \E part \in Grow(client.part) : GoOn(AcknowledgePart(s, ThisPart.size, Received(s.id)), part)
        ELSE ~published /\ Fail
  /\ UNCHANGED <<sidecar, stage, published, late, resets>>

\* 408, 423, 429 and 5xx make the next part smaller; a timeout does not.
PartUncertain ==
  /\ client.pc = "sent"
  /\ \E part \in {client.part, Shrink(client.part)} : GoOn(RecordRetry(client.session), part)
  /\ UNCHANGED <<sidecar, stage, published, late, resets>>

\* StageSession::new on the way back into stage().
Restarted(s) == New(s.id)

\* 410: the replacement identity is durable before stage() starts again with it,
\* and stage() makes a new session of it.
PartGone ==
  /\ client.pc = "sent" /\ ThisPart \notin late /\ Gone(client.session.id)
  /\ \E id \in Unused :
       LET s == Reset(client.session, id)
       IN IF s = None THEN Fail /\ UNCHANGED <<sidecar, resets>>
          ELSE /\ sidecar' = id /\ resets' = (IF resets < Ids THEN resets + 1 ELSE resets)
               /\ client' = [pc |-> "begin", session |-> Restarted(s), part |-> client.part]
  /\ UNCHANGED <<stage, published, late>>

\* POST .../complete, answered or not; anything but success ends the job.
CompleteStage ==
  /\ client.pc = "complete"
  /\ IF ~Gone(client.session.id) /\ (published \/ stage[client.session.id].offset = Size)
     THEN /\ published' = TRUE
          /\ GoOn(Reconcile(client.session, [offset |-> Size, state |-> "complete"]), client.part)
             \/ GoOn(RecordRetry(client.session), client.part)
     ELSE Fail /\ UNCHANGED published
  /\ UNCHANGED <<sidecar, stage, late, resets>>

\* SIGKILL, cancellation, or the end of the whole job.
Dies ==
  /\ client.pc \notin {"away", "done"} /\ client' = Away
  /\ UNCHANGED <<sidecar, stage, published, late, resets>>

Next ==
  \/ Open \/ SaveIdentity \/ Begin \/ SendPart \/ PartAnswered \/ PartUncertain \/ PartGone \/ CompleteStage \/ Dies
  \/ \E id \in Id : LoseStage(id)
  \/ \E p \in late : LatePart(p)
  \/ LateDirect

Spec == Init /\ [][Next]_vars
-----------------------------------------------------------------------------
\* However parts are lost, repeated and delayed, and whichever stages vanish,
\* the client never believes in bytes that its stage does not hold.
NeverAhead ==
  client.session # None /\ client.pc # "done" =>
    LET id == client.session.id
    IN client.session.offset = 0 \/ Gone(id) \/ published \/ client.session.offset <= stage[id].offset

\* A worker that reports its chunk as complete left it stored at the server.
DoneMeansPublished == client.pc = "done" => published

\* A stage that still holds a reservation is the one the sidecar names, so no
\* crash leaves one behind that nobody continues.
NoForgottenStage == \A id \in Id : stage[id] # None /\ ~stage[id].lost => id = sidecar \/ published

\* All of the above: what a staged upload may rely on after any loss or crash.
StagedUploadExact == TypeOK /\ NeverAhead /\ DoneMeansPublished /\ NoForgottenStage
=============================================================================
