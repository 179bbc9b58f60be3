----------------------------- MODULE ProgressView -----------------------------
(***************************************************************************)
(* Progress from the workers of a transfer to the screen: each chunk in    *)
(* flight counts the bytes its body has moved (SendProgress in upload,     *)
(* ReceiveProgress in download), Control keeps one snapshot that any       *)
(* thread edits, and TransferView (cli/app) turns successive snapshots     *)
(* into a bar.                                                             *)
(*                                                                         *)
(* A worker computes the sum under one lock and stores it under another:   *)
(* two sums may be stored in the wrong order.  A body that was given up is *)
(* assumed to report no more once its chunk is acknowledged.  The bar has  *)
(* Parts units for a byte; until the transfer ends it stays one part in    *)
(* Parts below full (99.5 % in the code, 200 parts).                       *)
(***************************************************************************)
EXTENDS Naturals, FiniteSetsExt

CONSTANTS
    Chunk,          \* the chunks of the transfer
    Size,           \* Size[c]: plaintext bytes
    Tag,            \* bytes the cipher adds to a chunk
    MaxGeneration,  \* bound on phase changes
    Parts,          \* parts of the bar
    None

Total == MapThenSumSet(LAMBDA c: Size[c], Chunk)

Full == Parts * Total

VARIABLES
    active,         \* active[c]: bytes counted for a chunk in flight, or None
    loaded,         \* loaded[c]: ciphertext bytes its present body has moved
    base,           \* bytes of the chunks whose checkpoint is durable
    durable,        \* those chunks
    sum,            \* sum[c]: computed by a worker and not stored yet, or None
    closing,        \* the chunk whose bytes the job's task has yet to commit, or None
    progress,       \* Control's snapshot
    view,           \* TransferView
    outcome         \* "running", "ok" or "failed"

vars == <<active, loaded, base, durable, sum, closing, progress, view, outcome>>

Phases == {"Sending", "Retrying", "Finalizing"}

Init ==
    /\ active = [c \in Chunk |-> None] /\ loaded = [c \in Chunk |-> 0]
    /\ base = 0 /\ durable = {} /\ sum = [c \in Chunk |-> None] /\ closing = None
    /\ progress = [phase |-> "Sending", generation |-> 0, done |-> 0, committed |-> 0]
    /\ view = [ratio |-> 0, generation |-> 0, finished |-> FALSE]
    /\ outcome = "running"

Running == outcome = "running"

-----------------------------------------------------------------------------
(* The workers *)

\* What the bodies in flight have moved
Moving(act) == [c \in Chunk |-> IF act[c] = None THEN 0 ELSE act[c]]

\* snapshot(): besides what is durable
Snapshot(act, done) == done + MapThenSumSet(LAMBDA c: Moving(act)[c], Chunk)

\* A new attempt starts from nothing
Restart(c) ==
    /\ Running /\ c \notin durable /\ sum[c] = None
    /\ active' = [active EXCEPT ![c] = 0]
    /\ loaded' = [loaded EXCEPT ![c] = 0]
    /\ sum' = [sum EXCEPT ![c] = Snapshot(active', base)]
    /\ UNCHANGED <<base, durable, closing, progress, view, outcome>>

\* Faulty variant: counts every byte that was sent, the tag too
CountedWhole(c, bytes) == bytes

\* The tag is not the user's
Counted(c, bytes) == IF bytes < Size[c] THEN bytes ELSE Size[c]

Report(c) ==
    /\ Running /\ active[c] # None /\ sum[c] = None
    /\ loaded[c] < Size[c] + Tag
    /\ loaded' = [loaded EXCEPT ![c] = @ + 1]
    /\ active' = [active EXCEPT ![c] = Counted(c, loaded'[c])]
    /\ sum' = [sum EXCEPT ![c] = Snapshot(active', base)]
    /\ UNCHANGED <<base, durable, closing, progress, view, outcome>>

\* The job's own task, after the checkpoint that records the chunk: its body was
\* read to the end, or it went in parts through a stage and counted nothing
Acknowledged(c) ==
    /\ Running /\ closing = None /\ active[c] # None /\ sum[c] = None
    /\ loaded[c] \in {0, Size[c] + Tag}
    /\ durable' = durable \cup {c}
    /\ active' = [active EXCEPT ![c] = None]
    /\ base' = base + Size[c]
    /\ sum' = [sum EXCEPT ![c] = Snapshot(active', base')]
    /\ closing' = c
    /\ UNCHANGED <<loaded, progress, view, outcome>>

\* advance(), after the lock of the sum was released
Advance(c) ==
    /\ sum[c] # None
    /\ progress' = [progress EXCEPT !.done = IF sum[c] < Total THEN sum[c] ELSE Total]
    /\ sum' = [sum EXCEPT ![c] = None]
    /\ UNCHANGED <<active, loaded, base, durable, closing, view, outcome>>

\* commit(), the same task's call after its advance()
Commit ==
    /\ closing # None /\ sum[closing] = None
    /\ progress' = [progress EXCEPT !.committed = base]
    /\ closing' = None
    /\ UNCHANGED <<active, loaded, base, durable, sum, view, outcome>>

\* phase(): a change is a new generation
Phase(p) ==
    /\ Running /\ progress.phase # p /\ progress.generation < MaxGeneration
    /\ progress' = [progress EXCEPT !.phase = p, !.generation = @ + 1]
    /\ UNCHANGED <<active, loaded, base, durable, sum, closing, view, outcome>>

-----------------------------------------------------------------------------
(* The screen *)

\* The share that is done, below a full bar; nothing for a transfer without bytes
Shown == LET share == Parts * progress.done IN IF share < Full - Total THEN share ELSE Full - Total

\* Within a generation a lower snapshot is stale
Target ==
    IF progress.generation # view.generation \/ Shown > view.ratio THEN Shown ELSE view.ratio

\* Reduced motion jumps to the target; otherwise the bar moves part of the way
Moved(ratio) ==
    \/ ratio = Target
    \/ view.ratio <= ratio /\ ratio <= Target
    \/ Target <= ratio /\ ratio <= view.ratio

\* tick(); the rate, the history and the estimate are display only
Tick(ratio) ==
    /\ Running /\ ~view.finished /\ Moved(ratio)
    /\ view' = [view EXCEPT !.ratio = ratio, !.generation = progress.generation]
    /\ UNCHANGED <<active, loaded, base, durable, sum, closing, progress, outcome>>

\* The worker's result
End(how) ==
    /\ Running /\ closing = None
    /\ how = "ok" => durable = Chunk
    /\ outcome' = how
    /\ UNCHANGED <<active, loaded, base, durable, sum, closing, progress, view>>

\* Only a success fills the bar
Finish ==
    /\ ~Running /\ ~view.finished
    /\ view' = [view EXCEPT !.finished = TRUE, !.ratio = IF outcome = "ok" THEN Full ELSE @]
    /\ UNCHANGED <<active, loaded, base, durable, sum, closing, progress, outcome>>

Next ==
    \/ \E c \in Chunk: Restart(c) \/ Report(c) \/ Acknowledged(c) \/ Advance(c)
    \/ Commit
    \/ \E p \in Phases: Phase(p)
    \/ \E ratio \in 0..Full: Tick(ratio)
    \/ \E how \in {"ok", "failed"}: End(how)
    \/ Finish

Spec == Init /\ [][Next]_vars

-----------------------------------------------------------------------------

\* Every variable has its type
TypeOK ==
    /\ \A c \in Chunk: active[c] \in 0..Size[c] + Tag \cup {None} /\ loaded[c] \in 0..Size[c] + Tag
    /\ durable \subseteq Chunk /\ closing \in Chunk \cup {None} /\ base \in 0..Total
    /\ progress.phase \in Phases /\ progress.generation \in 0..MaxGeneration
    /\ view.ratio \in 0..Full /\ outcome \in {"running", "ok", "failed"}

\* Bytes that are durable and not committed yet
Owed == IF closing = None THEN 0 ELSE Size[closing]

\* What is shown is what happened, though sums are stored out of order and bodies
\* are sent again: committed bytes are durable, what is durable is committed but for the
\* chunk being recorded, no byte is counted twice or for a tag, and the bar is full only
\* after success
ProgressHonest ==
    /\ progress.committed + Owed = base /\ base = MapThenSumSet(LAMBDA c: Size[c], durable)
    /\ Snapshot(active, base) <= Total
    /\ Total > 0 /\ view.ratio = Full => view.finished /\ outcome = "ok"

\* Within a phase the bar never moves backwards
NeverBackwardsStep ==
    view'.generation = view.generation => view'.ratio >= view.ratio
===============================================================================
