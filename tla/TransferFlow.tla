---------------------------- MODULE TransferFlow ----------------------------
(***************************************************************************)
(* What the user is shown of a transfer (ProgressView) and how much of it  *)
(* is in flight (TransferPace), side by side, each over variables of its   *)
(* own.  The run checks and the proofs show the property stated here.      *)
(***************************************************************************)
EXTENDS Integers, FiniteSets, Sequences

CONSTANTS
  Portion, Length, Tag, MaxGeneration, Parts,   \* ProgressView
  Request, BodyBytes, Configured, Memory,       \* TransferPace
  Fixed, Slot, MaxConcurrency, MinEvents,
  CongestionCooldown, Retired, MaxNow,
  Missing

VARIABLES
  active, loaded, base, durable, sum, closing, progress, view, outcome,  \* ProgressView
  maximum, budget, moment, bodies, ended, allowed, requests,    \* TransferPace
  retired, window, moved, rate, probe, cooldown, successes, congestion

progressVars == <<active, loaded, base, durable, sum, closing, progress, view, outcome>>
paceVars ==
  <<maximum, budget, moment, bodies, ended, allowed, requests, retired, window, moved, rate, probe, cooldown,
    successes, congestion>>

Showing == INSTANCE ProgressView WITH Chunk <- Portion, Size <- Length, None <- Missing
Pacing == INSTANCE TransferPace WITH
  Key <- Request, Bytes <- BodyBytes, now <- moment, body <- bodies, current <- allowed, None <- Missing

-----------------------------------------------------------------------------
\* Chunks have sizes, and a bar has parts.
ProgressConstants ==
  /\ IsFiniteSet(Portion) /\ Length \in [Portion -> Nat]
  /\ Tag \in Nat /\ MaxGeneration \in Nat /\ Parts \in Nat \ {0}

\* The window of a sample.
Windows == [start : Nat, bytes : Nat, events : Nat]

\* A slot takes memory.
PaceConstants ==
  /\ BodyBytes \in Nat /\ Configured \subseteq Nat /\ Memory \subseteq Nat
  /\ Fixed \in Nat /\ Slot \in Nat \ {0} /\ MaxConcurrency \in Nat \ {0} /\ MinEvents \in Nat
  /\ CongestionCooldown \in Nat /\ Retired \in Nat /\ MaxNow \in Nat

ASSUME FlowAssumption ==
  /\ ProgressConstants /\ PaceConstants
  /\ Missing \notin Portion /\ Missing \notin Nat /\ Missing \notin Windows

-----------------------------------------------------------------------------
\* SendProgress, TransferView, AdaptiveConcurrency and TransferMemoryBudget: what the
\* user is shown is what happened and does not go back within a phase, no byte is
\* counted twice or for a tag, the bar is full only after success; the requests in
\* flight fit the memory, late reads and forgotten requests never inflate the rate,
\* and congestion is respected.
PaceHonest ==
  /\ [](Showing!TypeOK /\ Showing!ProgressHonest)
  /\ [][Showing!NeverBackwardsStep]_progressVars
  /\ [](Pacing!TypeOK /\ Pacing!SlotsFitMemory /\ Pacing!WindowHonest)
  /\ [][Pacing!CongestionRespectedStep]_paceVars
=============================================================================
