----------------------------- MODULE Scheduler -----------------------------
(***************************************************************************)
(* Admission of native transfer jobs: the Scheduler of client-core, which  *)
(* counts workers and memory under one mutex, and the MemoryBudget it      *)
(* shares with the jobs it admits and with service calls, under another.   *)
(*                                                                         *)
(* A step is what a thread does between taking and releasing one mutex.    *)
(* Condition variables are polled every 20 ms besides being notified, so a *)
(* waiting thread is a step that is enabled when its condition holds.      *)
(***************************************************************************)
EXTENDS Naturals, FiniteSets, FiniteSetsExt

CONSTANTS
  Job,          \* spawned jobs, one thread each
  Service,      \* service calls that need transient memory
  ResumeId,     \* saved transfers
  Budget,       \* memory a job may ask for, runtime allowance included
  Transient,    \* memory of one KDF or manifest operation
  MaxWorkers,   \* SchedulerLimits of Scheduler::new
  MaxMemory,
  Runtime,      \* RUNTIME_ALLOWANCE_BYTES
  None

ASSUME LimitsAssumption ==
  /\ MaxWorkers \in Nat \ {0} /\ MaxMemory \in Nat /\ Runtime \in Nat \ {0} /\ MaxMemory >= Runtime
  /\ Budget \subseteq Nat /\ \A b \in Budget : b >= Runtime
  /\ Transient \in Nat /\ None \notin ResumeId /\ IsFiniteSet(Job) /\ IsFiniteSet(Service)

VARIABLES
  workers, memoryBytes,      \* the limits of State, which may only be lowered
  usedWorkers, usedMemory,   \* the admission counters of State
  activeResumes,             \* State.active_resumes
  poolUsed,                  \* MemoryState.used; its limit stays MaxMemory
  job, service

limits == <<workers, memoryBytes>>
counters == <<usedWorkers, usedMemory>>
vars == <<limits, counters, activeResumes, poolUsed, job, service>>

-----------------------------------------------------------------------------
Idle == [pc |-> "idle", bytes |-> 0, id |-> None, cancelled |-> FALSE]

\* "settled": Admission::drop has run, its MemoryPermit has not been dropped.
Phases == {"waiting", "reserving", "registering", "running", "blocked", "crypto", "ending", "settled", "done"}

TypeOK ==
  /\ workers \in 1..MaxWorkers /\ memoryBytes \in Runtime..MaxMemory
  /\ usedWorkers \in Nat /\ usedMemory \in Nat
  /\ activeResumes \subseteq ResumeId
  /\ poolUsed \in 0..MaxMemory
  /\ job \in [Job -> {Idle} \cup [pc : Phases, bytes : Budget, id : ResumeId \cup {None}, cancelled : BOOLEAN]]
  /\ service \in [Service -> {"idle", "held", "done"}]

Init ==
  /\ workers = MaxWorkers /\ memoryBytes = MaxMemory
  /\ usedWorkers = 0 /\ usedMemory = 0 /\ activeResumes = {} /\ poolUsed = 0
  /\ job = [j \in Job |-> Idle] /\ service = [s \in Service |-> "idle"]

Goto(j, pc) == job' = [job EXCEPT ![j] = [job[j] EXCEPT !.pc = pc]]

\* Faulty variant: the last of the memory is never given out.
PoolHasLess(bytes) == poolUsed + bytes < MaxMemory

\* MemoryBudget::reserve does not have to wait.
PoolHas(bytes) == poolUsed + bytes <= MaxMemory

-----------------------------------------------------------------------------
(* Scheduler::admit                                                        *)

HasCapacity(bytes) == usedWorkers < workers /\ usedMemory + bytes <= memoryBytes

\* The counters are taken before the pool is asked.
Count(bytes) == usedWorkers' = usedWorkers + 1 /\ usedMemory' = usedMemory + bytes
Uncount(bytes) == usedWorkers' = usedWorkers - 1 /\ usedMemory' = usedMemory - bytes

\* A thread is spawned and runs admit() up to its first wait.
Admit(j, bytes, id) ==
  /\ job[j].pc = "idle"
  /\ LET refused == bytes > memoryBytes \/ id \in activeResumes
         taken == ~refused /\ HasCapacity(bytes)
     IN /\ job' = [job EXCEPT ![j] =
              [pc |-> IF refused THEN "done" ELSE IF taken THEN "reserving" ELSE "waiting",
               bytes |-> bytes, id |-> id, cancelled |-> FALSE]]
        /\ IF taken THEN Count(bytes) ELSE UNCHANGED counters
  /\ UNCHANGED <<limits, activeResumes, poolUsed, service>>

\* The wait for capacity ends.
Proceed(j) ==
  /\ job[j].pc = "waiting"
  /\ \/ /\ job[j].cancelled
        /\ Goto(j, "done") /\ UNCHANGED counters
     \/ /\ ~job[j].cancelled /\ HasCapacity(job[j].bytes)
        /\ Goto(j, "reserving") /\ Count(job[j].bytes)
  /\ UNCHANGED <<limits, activeResumes, poolUsed, service>>

\* Faulty variant: keeps its slot when it is cancelled.
ReserveAdmissionLeaks(j) ==
  /\ job[j].pc = "reserving"
  /\ \/ /\ PoolHas(job[j].bytes)
        /\ poolUsed' = poolUsed + job[j].bytes /\ Goto(j, "registering")
     \/ /\ ~PoolHas(job[j].bytes) /\ job[j].cancelled
        /\ Goto(j, "done") /\ UNCHANGED poolUsed
  /\ UNCHANGED <<limits, counters, activeResumes, service>>

\* memory.reserve(requested): other permits may still fill the pool.
ReserveAdmission(j) ==
  /\ job[j].pc = "reserving"
  /\ \/ /\ PoolHas(job[j].bytes)
        /\ poolUsed' = poolUsed + job[j].bytes
        /\ Goto(j, "registering") /\ UNCHANGED counters
     \/ /\ ~PoolHas(job[j].bytes) /\ job[j].cancelled
        /\ Goto(j, "done") /\ Uncount(job[j].bytes) /\ UNCHANGED poolUsed
  /\ UNCHANGED <<limits, activeResumes, service>>

\* Faulty variant: trusts the first check.
RegisterUnchecked(j) ==
  /\ job[j].pc = "registering" /\ Goto(j, "running")
  /\ activeResumes' = activeResumes \cup ({job[j].id} \ {None})
  /\ UNCHANGED <<limits, counters, poolUsed, service>>

\* The resume id is checked again: the mutex was released in between.
Register(j) ==
  /\ job[j].pc = "registering"
  /\ IF job[j].id \in activeResumes
     THEN Goto(j, "settled") /\ Uncount(job[j].bytes) /\ UNCHANGED activeResumes
     ELSE /\ Goto(j, "running") /\ UNCHANGED counters
          /\ activeResumes' = activeResumes \cup ({job[j].id} \ {None})
  /\ UNCHANGED <<limits, poolUsed, service>>

-----------------------------------------------------------------------------
(* The admitted job.                                                       *)

\* run() asks for transient memory, or needs none.
Run(j) ==
  /\ job[j].pc = "running"
  /\ \E pc \in {"blocked", "ending"} : Goto(j, pc)
  /\ UNCHANGED <<limits, counters, activeResumes, poolUsed, service>>

\* Control::reserve_memory; a cancelled wait makes run() return.
ReserveTransient(j) ==
  /\ job[j].pc = "blocked"
  /\ \/ /\ PoolHas(Transient)
        /\ poolUsed' = poolUsed + Transient /\ Goto(j, "crypto")
     \/ /\ ~PoolHas(Transient) /\ (job[j].cancelled \/ Transient > MaxMemory)
        /\ Goto(j, "ending") /\ UNCHANGED poolUsed
  /\ UNCHANGED <<limits, counters, activeResumes, service>>

\* The KDF is done and its permit dropped.
ReleaseTransient(j) ==
  /\ job[j].pc = "crypto"
  /\ poolUsed' = poolUsed - Transient /\ Goto(j, "ending")
  /\ UNCHANGED <<limits, counters, activeResumes, service>>

\* Faulty variant: does not return the slot.
DropAdmissionLeaks(j) ==
  /\ job[j].pc = "ending"
  /\ activeResumes' = activeResumes \ {job[j].id} /\ Goto(j, "settled")
  /\ UNCHANGED <<limits, counters, poolUsed, service>>

\* Admission::drop ...
DropAdmission(j) ==
  /\ job[j].pc = "ending"
  /\ Uncount(job[j].bytes) /\ activeResumes' = activeResumes \ {job[j].id}
  /\ Goto(j, "settled")
  /\ UNCHANGED <<limits, poolUsed, service>>

\* ... and then its permit; the outcome is sent after that.
DropPermit(j) ==
  /\ job[j].pc = "settled"
  /\ poolUsed' = poolUsed - job[j].bytes /\ Goto(j, "done")
  /\ UNCHANGED <<limits, counters, activeResumes, service>>

Cancel(j) ==
  /\ job[j].pc \notin {"idle", "done"} /\ ~job[j].cancelled
  /\ job' = [job EXCEPT ![j] = [job[j] EXCEPT !.cancelled = TRUE]]
  /\ UNCHANGED <<limits, counters, activeResumes, poolUsed, service>>

-----------------------------------------------------------------------------
(* Service calls and settings.                                             *)

\* try_reserve_service_memory never waits.
ServiceReserve(s) ==
  /\ service[s] = "idle" /\ PoolHas(Transient)
  /\ poolUsed' = poolUsed + Transient /\ service' = [service EXCEPT ![s] = "held"]
  /\ UNCHANGED <<limits, counters, activeResumes, job>>

ServiceRelease(s) ==
  /\ service[s] = "held"
  /\ poolUsed' = poolUsed - Transient /\ service' = [service EXCEPT ![s] = "done"]
  /\ UNCHANGED <<limits, counters, activeResumes, job>>

\* reconfigure_limits applies lower limits only; raising needs a restart.
Reconfigure(w, m) ==
  /\ w <= workers /\ m <= memoryBytes /\ <<w, m>> # limits
  /\ workers' = w /\ memoryBytes' = m
  /\ UNCHANGED <<counters, activeResumes, poolUsed, job, service>>

-----------------------------------------------------------------------------
JobStep(j) ==
  \/ Proceed(j) \/ ReserveAdmission(j) \/ Register(j)
  \/ Run(j) \/ ReserveTransient(j) \/ ReleaseTransient(j) \/ DropAdmission(j) \/ DropPermit(j)

Next ==
  \/ \E j \in Job : JobStep(j) \/ Cancel(j)
  \/ \E j \in Job, bytes \in Budget, id \in ResumeId \cup {None} : Admit(j, bytes, id)
  \/ \E s \in Service : ServiceReserve(s) \/ ServiceRelease(s)
  \/ \E w \in 1..MaxWorkers, m \in Runtime..MaxMemory : Reconfigure(w, m)

Spec == Init /\ [][Next]_vars

\* Threads run, jobs end, and service calls return.
FairSpec ==
  /\ Spec
  /\ \A j \in Job : WF_vars(JobStep(j))
  /\ \A s \in Service : WF_vars(ServiceRelease(s))

-----------------------------------------------------------------------------
(* Properties.                                                             *)

Counted == {"reserving", "registering", "running", "blocked", "crypto", "ending"}
Permitted == {"registering", "running", "blocked", "crypto", "ending", "settled"}
Registered == {"running", "blocked", "crypto", "ending"}
In(phases) == {j \in Job : job[j].pc \in phases}
Bytes(jobs) == MapThenSumSet(LAMBDA j : job[j].bytes, jobs)

\* Nothing leaks: on every path through admit(), cancellation and the failure
\* after the reservation included, the counters are those of the jobs that
\* hold a slot, and the pool that of the permits which are alive.
AccountingExact ==
  /\ usedWorkers = Cardinality(In(Counted)) /\ usedMemory = Bytes(In(Counted))
  /\ poolUsed = Bytes(In(Permitted))
       + Transient * (Cardinality(In({"crypto"})) + Cardinality({s \in Service : service[s] = "held"}))

\* No saved transfer is run by two jobs, although the mutex is released
\* between the first check of its id and its registration; and an id is
\* registered exactly while its job runs, so that once the outcome of a
\* paused job has been sent an immediate resume is not refused.
ResumeExclusive ==
  /\ \A i, j \in In(Registered) : job[i].id = job[j].id /\ job[i].id # None => i = j
  /\ activeResumes = {job[j].id : j \in In(Registered)} \ {None}

\* A job that waits for capacity is admitted or cancelled, unless the limits
\* were lowered under its request while it waited.
AdmissionSettles ==
  \A j \in Job : job[j].pc = "waiting" ~> job[j].pc # "waiting" \/ job[j].bytes > memoryBytes

\* A job that holds a slot hands it back: it does not wait for ever for pool
\* memory that other slots or service calls hold.
SlotsReturn == \A j \in Job : job[j].pc \in Counted ~> job[j].pc = "done"
=============================================================================
