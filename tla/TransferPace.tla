----------------------------- MODULE TransferPace -----------------------------
(***************************************************************************)
(* How many chunks a transfer keeps in flight (AdaptiveConcurrency and     *)
(* TransferMemoryBudget in transfer/lib, used by the upload's request      *)
(* bodies): one slot at first, another when requests are fast, one less    *)
(* when the aggregate rate did not gain from it, half after congestion,    *)
(* and never more than memory holds.                                       *)
(*                                                                         *)
(* A body is read by the connection: it may still be read after its        *)
(* request was given up.  The window of a sample and the cooldown of a     *)
(* probe are one tick of the clock; rates are whole bytes per tick.        *)
(***************************************************************************)
EXTENDS Integers, FiniteSets, Sequences

CONSTANTS
    Key,                \* requests; each has a key of its own
    Bytes,              \* ciphertext bytes of a request
    Configured,         \* the numbers of slots a user may have configured
    Memory,             \* the memory budgets
    Fixed, Slot,        \* bytes of overhead, and of a slot
    MaxConcurrency,     \* 8
    MinEvents,          \* samples a window needs
    CongestionCooldown, \* ticks
    Retired,            \* how many keys are remembered
    MaxNow, None

VARIABLES
    maximum, budget,    \* the limit of this transfer and the memory it came from
    now,
    body,               \* body[k]: bytes the connection has read, or None
    ended,              \* requests that returned
    current,
    requests,           \* requests[k]: bytes counted, or None
    retired,            \* keys that ended, oldest first
    window,             \* None, or [start, bytes, events]
    moved,              \* bytes the connections have read since the window opened
    rate, probe, cooldown, successes,
    congestion          \* when congestion was met last, or None

vars == <<maximum, budget, now, body, ended, current, requests, retired, window, moved, rate,
          probe, cooldown, successes, congestion>>
learning == <<current, rate, probe, cooldown, successes>>

MaxOf(a, b) == IF a > b THEN a ELSE b
MinOf(a, b) == IF a < b THEN a ELSE b

\* concurrency_limit_with_memory(): at least one slot, whatever the memory
ConcurrencyLimit(configured, memory) ==
    MaxOf(1, MinOf(MinOf(configured, MaxConcurrency), MaxOf(0, memory - Fixed) \div Slot))

Init ==
    /\ budget \in Memory
    /\ \E configured \in Configured: maximum = ConcurrencyLimit(configured, budget)
    /\ now = 0 /\ body = [k \in Key |-> None] /\ ended = {}
    /\ current = 1 /\ requests = [k \in Key |-> None] /\ retired = <<>>
    /\ window = None /\ moved = 0
    /\ rate = 0 /\ probe = None /\ cooldown = 0 /\ successes = 0 /\ congestion = None

InFlight == {k \in Key: body[k] # None /\ k \notin ended}

-----------------------------------------------------------------------------
(* Learning *)

\* record_rate(): half of the old one
Recorded(new) == IF new <= 0 THEN rate ELSE IF rate = 0 THEN new ELSE (rate + new) \div 2

\* Only after the cooldown
Learns(new) == new > 0 /\ now >= cooldown /\ probe # None

\* learn_aggregate(): an added slot stays if it gained a tenth
LearnAggregate(new) ==
    /\ rate' = Recorded(new)
    /\ IF Learns(new)
       THEN LET gained == 10 * new >= 11 * probe IN
            /\ probe' = None /\ successes' = 0
            /\ current' = IF gained THEN current ELSE MaxOf(1, current - 1)
            /\ cooldown' = now + (IF gained THEN 1 ELSE CongestionCooldown)
       ELSE UNCHANGED <<probe, successes, current, cooldown>>

\* observe(): a request that succeeded; fast ones add a slot to try
Observe(bytes, elapsed) ==
    LET seen == Recorded(bytes \div elapsed)
        probes == now >= cooldown /\ successes + 1 >= 2 * current /\ seen >= 1 /\ current < maximum
    IN /\ rate' = seen
       /\ probe' = IF probes THEN seen ELSE probe
       /\ cooldown' = IF probes THEN now + 1 ELSE cooldown
       /\ current' = IF probes THEN current + 1 ELSE current
       /\ successes' = IF probes THEN 0 ELSE successes + 1

-----------------------------------------------------------------------------
(* Requests *)

\* The job's loop keeps at most limit() requests in flight
Start(k) ==
    /\ body[k] = None /\ Cardinality(InFlight) < current
    /\ body' = [body EXCEPT ![k] = 0]
    /\ UNCHANGED <<maximum, budget, now, ended, requests, retired, window, moved, congestion, learning>>

\* A late sample of a request that was forgotten counts nothing
Ignores(k) == \E i \in 1..Len(retired): retired[i] = k

\* Assumed of the connection: it does not outlive Retired requests that ended later
Connected(k) == k \in ended /\ requests[k] = None /\ body[k] > 0 => \E i \in 1..Len(retired): retired[i] = k

\* The connection reads on; sample() adds what is new
Read(k) ==
    /\ body[k] # None /\ body[k] < Bytes /\ Connected(k)
    /\ body' = [body EXCEPT ![k] = @ + 1]
    /\ IF Ignores(k)
       THEN moved' = moved + 1 /\ UNCHANGED <<requests, window, learning>>
       ELSE LET previous == IF requests[k] = None THEN 0 ELSE requests[k]
                open == IF window = None THEN [start |-> now, bytes |-> 0, events |-> 0] ELSE window
                next == [open EXCEPT !.bytes = @ + body'[k] - previous, !.events = @ + 1]
            IN /\ requests' = [requests EXCEPT ![k] = body'[k]]
               /\ IF now - open.start >= 1 /\ next.events >= MinEvents
                  THEN /\ LearnAggregate(next.bytes \div (now - open.start))
                       /\ window' = [start |-> now, bytes |-> 0, events |-> 0]
                       /\ moved' = 0
                  ELSE /\ window' = next
                       /\ moved' = (IF window = None THEN 0 ELSE moved) + 1
                       /\ UNCHANGED learning
    /\ UNCHANGED <<maximum, budget, now, ended, retired, congestion>>

\* forget(): the oldest keys are forgotten in turn
Forgets(k) ==
    /\ retired' = IF requests[k] = None THEN retired
                  ELSE LET all == Append(retired, k)
                       IN IF Len(all) > Retired THEN Tail(all) ELSE all
    /\ requests' = [requests EXCEPT ![k] = None]
    /\ window' = IF \A j \in Key: requests'[j] = None THEN None ELSE window

\* The chunk was created: its time counts, unless the clock did not move
Succeed(k) ==
    /\ k \in InFlight /\ body[k] = Bytes
    /\ ended' = ended \cup {k}
    /\ Forgets(k)
    /\ \/ \E elapsed \in 1..now: Observe(Bytes, elapsed)
       \/ UNCHANGED learning
    /\ UNCHANGED <<maximum, budget, now, body, moved, congestion>>

\* The request was given up, for the stage or for an error that is not congestion
GiveUp(k) ==
    /\ k \in InFlight
    /\ ended' = ended \cup {k}
    /\ Forgets(k)
    /\ UNCHANGED <<maximum, budget, now, body, moved, congestion, learning>>

\* congested(): a retryable answer or a lost connection
Congested(k) ==
    /\ k \in InFlight
    /\ ended' = ended \cup {k}
    /\ Forgets(k)
    /\ probe' = None /\ successes' = 0
    /\ cooldown' = now + CongestionCooldown
    /\ current' = MaxOf(1, current \div 2)
    /\ congestion' = now
    /\ UNCHANGED <<maximum, budget, now, body, moved, rate>>

Tick ==
    /\ now < MaxNow
    /\ now' = now + 1
    /\ UNCHANGED <<maximum, budget, body, ended, requests, retired, window, moved, congestion, learning>>

Next ==
    \/ \E k \in Key: Start(k) \/ Read(k) \/ Succeed(k) \/ GiveUp(k) \/ Congested(k)
    \/ Tick

Spec == Init /\ [][Next]_vars

-----------------------------------------------------------------------------

\* Every variable has its type
TypeOK ==
    /\ maximum \in 1..MaxConcurrency /\ current \in 1..maximum /\ now \in 0..MaxNow
    /\ \A k \in Key: body[k] \in 0..Bytes \cup {None} /\ requests[k] \in 0..Bytes \cup {None}
    /\ rate \in Nat /\ probe \in Nat \cup {None} /\ successes \in Nat

\* Whatever the learning does, the requests it allows fit the memory of the
\* transfer, or there is one
SlotsFitMemory == current > 1 => Fixed + current * Slot <= budget

\* Retries, late reads and forgotten requests never inflate the rate: a window
\* counts at most the bytes that moved since it opened
WindowHonest == window # None => window.bytes <= moved

\* After congestion no slot is added before its cooldown is over
CongestionRespectedStep ==
    current' > current /\ congestion # None => now >= congestion + CongestionCooldown
===============================================================================
