--------------------------- MODULE SchedulerProofs ---------------------------
(***************************************************************************)
(* Proofs about Scheduler for every number of jobs, saved transfers,       *)
(* service calls and limits, and about the pace and the progress of one    *)
(* transfer (TransferFlow) for every size, memory and number of requests.  *)
(***************************************************************************)
EXTENDS Scheduler, TransferFlow, FiniteSetTheorems, WellFoundedInduction, TLAPS

JobTyped == job \in [Job -> {Idle} \cup [pc : Phases, bytes : Budget, id : ResumeId \cup {None}, cancelled : BOOLEAN]]

\* The first half of ResumeExclusive needs the second: the set which admit()
\* tests under the mutex is exact.
ResumeInv == JobTyped /\ activeResumes \subseteq ResumeId /\ ResumeExclusive

\* The resume id of every job, and the whole record of a job that is busy, has
\* the type Admit gives it.
LEMMA JobFields ==
  ASSUME JobTyped, NEW j \in Job
  PROVE  /\ job[j].id \in ResumeId \cup {None}
         /\ job[j].pc # "idle" => job[j] \in [pc : Phases, bytes : Budget, id : ResumeId \cup {None}, cancelled : BOOLEAN]
  BY DEF JobTyped, Idle

\* A step of one job that neither registers nor unregisters it.
LEMMA ResumeKept ==
  ASSUME ResumeInv, NEW j \in Job, NEW x \in [pc : Phases, bytes : Budget, id : ResumeId \cup {None}, cancelled : BOOLEAN],
         job' = [job EXCEPT ![j] = x], UNCHANGED activeResumes,
         x.pc \in Registered <=> job[j].pc \in Registered,
         x.pc \in Registered => x.id = job[j].id
  PROVE  ResumeInv'
  <1>1. JobTyped'
    BY DEF ResumeInv, JobTyped
  <1>2. In(Registered)' = In(Registered)
    BY DEF ResumeInv, JobTyped, In
  <1>3. \A i \in In(Registered) : job'[i].id = job[i].id
    BY DEF ResumeInv, JobTyped, In
  <1>4. ResumeExclusive'
    <2>1. \A i, k \in In(Registered) : job'[i].id = job'[k].id /\ job'[i].id # None => i = k
      BY <1>3 DEF ResumeInv, ResumeExclusive
    <2>2. {job'[i].id : i \in In(Registered)} = {job[i].id : i \in In(Registered)}
      BY <1>3
    <2> QED
      BY <1>2, <2>1, <2>2 DEF ResumeInv, ResumeExclusive
  <1> QED
    BY <1>1, <1>4 DEF ResumeInv

\* Goto from a busy state stays inside the types.
LEMMA GotoTyped ==
  ASSUME JobTyped, NEW j \in Job, job[j].pc # "idle", NEW pc \in Phases
  PROVE  /\ [job[j] EXCEPT !.pc = pc] \in [pc : Phases, bytes : Budget, id : ResumeId \cup {None}, cancelled : BOOLEAN]
         /\ [job[j] EXCEPT !.pc = pc].pc = pc /\ [job[j] EXCEPT !.pc = pc].id = job[j].id
  BY JobFields

\* A job that moves on without crossing the registration in active_resumes.
LEMMA ResumeGoto ==
  ASSUME ResumeInv, NEW j \in Job, job[j].pc # "idle", NEW pc \in Phases, Goto(j, pc), UNCHANGED activeResumes,
         pc \in Registered <=> job[j].pc \in Registered
  PROVE  ResumeInv'
  <1> DEFINE x == [job[j] EXCEPT !.pc = pc]
  <1>1. /\ x \in [pc : Phases, bytes : Budget, id : ResumeId \cup {None}, cancelled : BOOLEAN]
        /\ x.pc = pc /\ x.id = job[j].id /\ job' = [job EXCEPT ![j] = x]
    BY GotoTyped DEF ResumeInv, Goto
  <1> HIDE DEF x
  <1> QED
    BY <1>1, ResumeKept

\* admit() tests active_resumes and inserts the id in one critical section, so
\* the id it adds belongs to no other registered job.
LEMMA ResumeRegister ==
  ASSUME ResumeInv, NEW j \in Job, Register(j)
  PROVE  ResumeInv'
  <1>a. JobTyped /\ job[j].pc = "registering"
    BY DEF ResumeInv, Register
  <1>1. CASE job[j].id \in activeResumes
    BY <1>1, <1>a, ResumeGoto DEF Register, Phases, Registered
  <1>2. CASE job[j].id \notin activeResumes
    <2> DEFINE x == [job[j] EXCEPT !.pc = "running"]
    <2>1. /\ x \in [pc : Phases, bytes : Budget, id : ResumeId \cup {None}, cancelled : BOOLEAN]
          /\ x.pc = "running" /\ x.id = job[j].id
      BY <1>a, GotoTyped DEF Phases
    <2>2. job' = [job EXCEPT ![j] = x] /\ activeResumes' = activeResumes \cup ({job[j].id} \ {None})
      BY <1>2 DEF Register, Goto
    <2> HIDE DEF x
    <2>3. JobTyped' /\ activeResumes' \subseteq ResumeId
      BY <1>a, <2>1, <2>2, JobFields DEF JobTyped, ResumeInv
    <2>4. In(Registered)' = In(Registered) \cup {j} /\ j \notin In(Registered)
      BY <1>a, <2>1, <2>2 DEF JobTyped, In, Registered
    <2>5. \A i \in Job : job'[i].id = job[i].id
      BY <1>a, <2>1, <2>2 DEF JobTyped
    <2>6. \A i \in In(Registered) : job[i].id # None => job[i].id # job[j].id
      BY <1>2 DEF ResumeInv, ResumeExclusive
    <2>7. \A i, k \in In(Registered)' : job'[i].id = job'[k].id /\ job'[i].id # None => i = k
      BY <2>4, <2>5, <2>6 DEF ResumeInv, ResumeExclusive, In
    <2>8. {job'[i].id : i \in In(Registered)'} = {job[i].id : i \in In(Registered)} \cup {job[j].id}
      BY <2>4, <2>5 DEF In
    <2> QED
      BY <2>2, <2>3, <2>7, <2>8 DEF ResumeInv, ResumeExclusive
  <1> QED
    BY <1>1, <1>2

\* Dropping the admission removes the job and its id together; no other
\* registered job has that id.
LEMMA ResumeDrop ==
  ASSUME ResumeInv, NEW j \in Job, DropAdmission(j)
  PROVE  ResumeInv'
  <1> DEFINE x == [job[j] EXCEPT !.pc = "settled"]
  <1>a. JobTyped /\ job[j].pc = "ending"
    BY DEF ResumeInv, DropAdmission
  <1>1. /\ x \in [pc : Phases, bytes : Budget, id : ResumeId \cup {None}, cancelled : BOOLEAN]
        /\ x.pc = "settled"
    BY <1>a, GotoTyped DEF Phases
  <1>2. job' = [job EXCEPT ![j] = x] /\ activeResumes' = activeResumes \ {job[j].id}
    BY DEF DropAdmission, Goto
  <1> HIDE DEF x
  <1>3. JobTyped' /\ activeResumes' \subseteq ResumeId
    BY <1>a, <1>1, <1>2 DEF JobTyped, ResumeInv
  <1>4. In(Registered)' = In(Registered) \ {j} /\ j \in In(Registered)
    BY <1>a, <1>1, <1>2 DEF JobTyped, In, Registered
  <1>5. \A i \in In(Registered)' : job'[i].id = job[i].id /\ (job[i].id # None => job[i].id # job[j].id)
    BY <1>a, <1>2, <1>4 DEF JobTyped, In, ResumeInv, ResumeExclusive
  <1>6. \A i, k \in In(Registered)' : job'[i].id = job'[k].id /\ job'[i].id # None => i = k
    BY <1>4, <1>5 DEF ResumeInv, ResumeExclusive
  <1>7. {job'[i].id : i \in In(Registered)'} \ {None} = ({job[i].id : i \in In(Registered)} \ {None}) \ {job[j].id}
    BY <1>4, <1>5
  <1> QED
    BY <1>2, <1>3, <1>6, <1>7 DEF ResumeInv, ResumeExclusive

\* Every step of a job, a service call or a reconfiguration keeps the
\* registered ids exact and exclusive.
LEMMA ResumeStep == ResumeInv /\ [Next]_vars => ResumeInv'
  <1> SUFFICES ASSUME ResumeInv, [Next]_vars
               PROVE  ResumeInv'
    OBVIOUS
  <1>1. ASSUME NEW j \in Job, Proceed(j) \/ ReserveAdmission(j) \/ Run(j) \/ ReserveTransient(j)
                              \/ ReleaseTransient(j) \/ DropPermit(j)
        PROVE  ResumeInv'
    <2>1. \E pc \in Phases : Goto(j, pc) /\ (pc \in Registered <=> job[j].pc \in Registered)
      BY <1>1 DEF Proceed, ReserveAdmission, Run, ReserveTransient, ReleaseTransient, DropPermit, Phases, Registered
    <2>2. job[j].pc # "idle" /\ UNCHANGED activeResumes
      BY <1>1 DEF Proceed, ReserveAdmission, Run, ReserveTransient, ReleaseTransient, DropPermit
    <2> QED
      BY <2>1, <2>2, ResumeGoto
  <1>2. ASSUME NEW j \in Job, Cancel(j)
        PROVE  ResumeInv'
    <2> DEFINE x == [job[j] EXCEPT !.cancelled = TRUE]
    <2>1. /\ x \in [pc : Phases, bytes : Budget, id : ResumeId \cup {None}, cancelled : BOOLEAN]
          /\ x.pc = job[j].pc /\ x.id = job[j].id
      BY <1>2, JobFields DEF ResumeInv, Cancel
    <2>2. job' = [job EXCEPT ![j] = x] /\ UNCHANGED activeResumes
      BY <1>2 DEF Cancel
    <2> HIDE DEF x
    <2> QED
      BY <2>1, <2>2, ResumeKept
  <1>3. ASSUME NEW j \in Job, NEW bytes \in Budget, NEW id \in ResumeId \cup {None}, Admit(j, bytes, id)
        PROVE  ResumeInv'
    <2>1. PICK pc \in {"done", "reserving", "waiting"} :
            job' = [job EXCEPT ![j] = [pc |-> pc, bytes |-> bytes, id |-> id, cancelled |-> FALSE]]
      BY <1>3 DEF Admit
    <2> DEFINE x == [pc |-> pc, bytes |-> bytes, id |-> id, cancelled |-> FALSE]
    <2>2. x \in [pc : Phases, bytes : Budget, id : ResumeId \cup {None}, cancelled : BOOLEAN] /\ x.pc = pc
      BY DEF Phases
    <2>3. pc \notin Registered /\ job[j].pc \notin Registered /\ UNCHANGED activeResumes
      BY <1>3 DEF Admit, Registered
    <2> HIDE DEF x
    <2> QED
      BY <2>1, <2>2, <2>3, ResumeKept DEF x
  <1>4. CASE \/ UNCHANGED vars
             \/ (\E s \in Service : ServiceReserve(s) \/ ServiceRelease(s))
             \/ (\E w \in 1..MaxWorkers, m \in Runtime..MaxMemory : Reconfigure(w, m))
    <2>1. UNCHANGED <<job, activeResumes>>
      BY <1>4 DEF vars, ServiceReserve, ServiceRelease, Reconfigure
    <2> QED
      BY <2>1 DEF ResumeInv, JobTyped, ResumeExclusive, In
  <1> QED
    BY <1>1, <1>2, <1>3, <1>4, ResumeRegister, ResumeDrop DEF Next, JobStep

\* A new scheduler has no job and an empty active_resumes.
LEMMA ResumeInit == Init => ResumeInv
  <1> SUFFICES ASSUME Init PROVE ResumeInv
    OBVIOUS
  <1>1. In(Registered) = {}
    BY DEF Init, In, Registered, Idle
  <1> QED
    BY <1>1 DEF Init, ResumeInv, JobTyped, ResumeExclusive

\* No two jobs ever run the same saved transfer, although admit() releases the
\* mutex between its first look at active_resumes and the registration, and
\* the set never keeps the id of a job that has stopped.
THEOREM ResumesExclusive == Spec => []ResumeExclusive
  <1>1. ResumeInv => ResumeExclusive
    BY DEF ResumeInv
  <1> QED
    BY <1>1, ResumeInit, ResumeStep, PTL DEF Spec

-----------------------------------------------------------------------------
(* Sums over finite sets of jobs.  The library's induction theorems take   *)
(* an operator and cannot be used; a smallest counterexample can.          *)

\* The job that a sum takes out first.
Picked(s) == CHOOSE x \in s : TRUE

\* f adds up the bytes of the jobs w over every subset of D.
SumsOver(f, w, D) == f = [s \in SUBSET D |-> IF s = {} THEN 0 ELSE w[Picked(s)].bytes + f[s \ {Picked(s)}]]
\* What Bytes adds up, for any records w.
Total(w, S) == (CHOOSE f : SumsOver(f, w, S))[S]

\* Bytes is Total for the jobs as they are and as a step leaves them.
LEMMA BytesIsTotal ==
  /\ \A S \in SUBSET Job : Bytes(S) = Total(job, S)
  /\ \A S \in SUBSET Job : Bytes(S)' = Total(job', S)
  BY DEF Bytes, MapThenSumSet, MapThenFoldSet, Total, SumsOver, Picked

\* Induction over finite sets: if a claim fails for a part of D, it fails for
\* a part of D below which it holds.
LEMMA MinimalSet ==
  ASSUME NEW D, IsFiniteSet(D), NEW T \in SUBSET SUBSET D, T # {}
  PROVE  \E S \in T : \A R \in T : R \subseteq S => R = S
  <1>1. IsWellFoundedOn(StrictSubsetOrdering(D), FiniteSubsetsOf(D))
    BY FS_StrictSubsetOrderingWellFounded
  <1>2. T \subseteq FiniteSubsetsOf(D)
    BY FS_Subset DEF FiniteSubsetsOf
  <1>3. PICK S \in T : \A R \in T : ~(<<R, S>> \in StrictSubsetOrdering(D))
    <2> HIDE DEF IsWellFoundedOn, StrictSubsetOrdering, FiniteSubsetsOf
    <2> QED
      BY <1>1, <1>2, WFMin
  <1> QED
    BY <1>3 DEF StrictSubsetOrdering

\* A set that is not empty has the element a sum takes out.
LEMMA PickedIn == ASSUME NEW s, s # {} PROVE Picked(s) \in s
  BY DEF Picked

\* Two functions that satisfy the equation of the sum agree where both are
\* defined.
LEMMA SumsAgree ==
  ASSUME NEW w, NEW D, IsFiniteSet(D), NEW A \in SUBSET D, NEW B \in SUBSET D, NEW f, NEW g, SumsOver(f, w, A), SumsOver(g, w, B)
  PROVE  \A s \in (SUBSET A) \cap (SUBSET B) : f[s] = g[s]
  <1> DEFINE T == {s \in (SUBSET A) \cap (SUBSET B) : f[s] # g[s]}
  <1> SUFFICES ASSUME T # {} PROVE FALSE
    OBVIOUS
  <1>0. T \in SUBSET SUBSET D
    OBVIOUS
  <1>1. PICK s \in T : \A r \in T : r \subseteq s => r = s
    <2> HIDE DEF T
    <2> QED
      BY <1>0, MinimalSet
  <1>2. s # {}
    BY DEF SumsOver
  <1>3. Picked(s) \in s
    BY <1>2, PickedIn
  <1>4. f[s \ {Picked(s)}] = g[s \ {Picked(s)}]
    BY <1>1, <1>3
  <1>5. s \in SUBSET A /\ s \in SUBSET B /\ f[s] # g[s]
    OBVIOUS
  <1> HIDE DEF T
  <1>6. f[s] = w[Picked(s)].bytes + f[s \ {Picked(s)}] /\ g[s] = w[Picked(s)].bytes + g[s \ {Picked(s)}]
    BY <1>2, <1>5 DEF SumsOver
  <1> QED
    BY <1>4, <1>5, <1>6

\* The sum over a part does not depend on the whole it is taken of.
LEMMA SumOfPart ==
  ASSUME NEW w, NEW D, IsFiniteSet(D), NEW R \in SUBSET D, NEW f, NEW g, SumsOver(f, w, D), SumsOver(g, w, R)
  PROVE  f[R] = g[R]
  BY SumsAgree

\* The recursive equation of the sum has a solution over every finite set.
LEMMA SumExists ==
  ASSUME NEW w, NEW D, IsFiniteSet(D)
  PROVE  \A S \in SUBSET D : \E f : SumsOver(f, w, S)
  <1> DEFINE T == {S \in SUBSET D : ~\E f : SumsOver(f, w, S)}
  <1> SUFFICES ASSUME T # {} PROVE FALSE
    OBVIOUS
  <1>0. T \in SUBSET SUBSET D
    OBVIOUS
  <1>1. PICK S \in T : \A R \in T : R \subseteq S => R = S
    <2> HIDE DEF T
    <2> QED
      BY <1>0, MinimalSet
  <1> DEFINE F(R) == CHOOSE f : SumsOver(f, w, R)
             h == [s \in SUBSET S |-> IF s = {} THEN 0 ELSE w[Picked(s)].bytes + F(s \ {Picked(s)})[s \ {Picked(s)}]]
  <1>2. \A R \in SUBSET S : R # S => SumsOver(F(R), w, R)
    <2> TAKE R \in SUBSET S
    <2> HAVE R # S
    <2>1. \E f : SumsOver(f, w, R)
      BY <1>1
    <2> QED
      BY <2>1
  <1> HIDE DEF F
  <1>3. \A s \in SUBSET S : s # S => h[s] = F(s)[s]
    <2> SUFFICES ASSUME NEW s \in SUBSET S, s # S PROVE h[s] = F(s)[s]
      OBVIOUS
    <2>1. SumsOver(F(s), w, s)
      BY <1>2
    <2>2. CASE s = {}
      BY <2>1, <2>2 DEF SumsOver
    <2>3. CASE s # {}
      <3> DEFINE r == s \ {Picked(s)}
      <3>1. r \in SUBSET s /\ r \in SUBSET S /\ r # S
        BY <2>3, PickedIn
      <3>2. F(s)[s] = w[Picked(s)].bytes + F(s)[r]
        BY <2>1, <2>3 DEF SumsOver
      <3>3. SumsOver(F(r), w, r)
        BY <3>1, <1>2
      <3>4. F(s)[r] = F(r)[r]
        BY <2>1, <3>1, <3>3, FS_Subset, SumOfPart
      <3> QED
        BY <2>3, <3>2, <3>4
    <2> QED
      BY <2>2, <2>3
  <1>4. SumsOver(h, w, S)
    <2>1. ASSUME NEW s \in SUBSET S, s # {}
          PROVE  h[s] = w[Picked(s)].bytes + h[s \ {Picked(s)}]
      <3>1. s \ {Picked(s)} \in SUBSET S /\ s \ {Picked(s)} # S
        BY <2>1, PickedIn
      <3> QED
        BY <2>1, <3>1, <1>3
    <2>2. {} \in SUBSET S => h[{}] = 0
      OBVIOUS
    <2>3. h = [s \in SUBSET S |-> h[s]]
      OBVIOUS
    <2> HIDE DEF h
    <2> QED
      BY <2>1, <2>2, <2>3 DEF SumsOver
  <1> QED
    BY <1>1, <1>4

\* The equation that Total satisfies.
LEMMA TotalStep ==
  ASSUME NEW w, NEW S, IsFiniteSet(S)
  PROVE  /\ Total(w, {}) = 0
         /\ S # {} => Total(w, S) = w[Picked(S)].bytes + Total(w, S \ {Picked(S)})
  <1> DEFINE F(R) == CHOOSE f : SumsOver(f, w, R)
  <1>1. \A R \in SUBSET S : SumsOver(F(R), w, R)
    BY SumExists
  <1>2. \A R : Total(w, R) = F(R)[R]
    BY DEF Total
  <1> HIDE DEF F
  <1>3. Total(w, {}) = 0
    BY <1>1, <1>2 DEF SumsOver
  <1>4. ASSUME S # {}
        PROVE  Total(w, S) = w[Picked(S)].bytes + Total(w, S \ {Picked(S)})
    <2> DEFINE R == S \ {Picked(S)}
    <2>1. R \in SUBSET S /\ R \in SUBSET R
      OBVIOUS
    <2>2. F(S)[R] = F(R)[R]
      BY <1>1, <2>1, SumOfPart
    <2>3. F(S)[S] = w[Picked(S)].bytes + F(S)[R]
      BY <1>1, <1>4 DEF SumsOver
    <2> QED
      BY <1>2, <2>2, <2>3
  <1> QED
    BY <1>3, <1>4

\* A sum of natural numbers is one.
LEMMA TotalType ==
  ASSUME NEW w, NEW D, IsFiniteSet(D), \A j \in D : w[j].bytes \in Nat
  PROVE  \A S \in SUBSET D : Total(w, S) \in Nat
  <1> DEFINE T == {S \in SUBSET D : Total(w, S) \notin Nat}
  <1> SUFFICES ASSUME T # {} PROVE FALSE
    OBVIOUS
  <1>0. T \in SUBSET SUBSET D
    OBVIOUS
  <1>1. PICK S \in T : \A R \in T : R \subseteq S => R = S
    <2> HIDE DEF T
    <2> QED
      BY <1>0, MinimalSet
  <1>2. S # {}
    <2>1. Total(w, {}) = 0 /\ 0 \in Nat
      BY FS_EmptySet, TotalStep
    <2> QED
      BY <2>1
  <1>3. Picked(S) \in S /\ IsFiniteSet(S)
    BY <1>2, PickedIn, FS_Subset
  <1>4. Total(w, S \ {Picked(S)}) \in Nat
    BY <1>1, <1>3
  <1> QED
    BY <1>2, <1>3, <1>4, TotalStep

\* The order does not matter: any job may be taken out first.
LEMMA TotalRemove ==
  ASSUME NEW w, NEW D, IsFiniteSet(D), \A j \in D : w[j].bytes \in Nat
  PROVE  \A S \in SUBSET D : \A j \in S : Total(w, S) = w[j].bytes + Total(w, S \ {j})
  <1> DEFINE T == {S \in SUBSET D : \E j \in S : Total(w, S) # w[j].bytes + Total(w, S \ {j})}
  <1> SUFFICES ASSUME T # {} PROVE FALSE
    OBVIOUS
  <1>0. T \in SUBSET SUBSET D
    OBVIOUS
  <1>1. PICK S \in T : \A R \in T : R \subseteq S => R = S
    <2> HIDE DEF T
    <2> QED
      BY <1>0, MinimalSet
  <1>2. PICK j \in S : Total(w, S) # w[j].bytes + Total(w, S \ {j})
    OBVIOUS
  <1> DEFINE x == Picked(S)
  <1>3. x \in S /\ IsFiniteSet(S) /\ Total(w, S) = w[x].bytes + Total(w, S \ {x})
    BY PickedIn, FS_Subset, TotalStep
  <1> HIDE DEF x
  <1>4. x # j
    BY <1>2, <1>3
  <1>5. Total(w, S \ {x}) = w[j].bytes + Total(w, (S \ {x}) \ {j})
    BY <1>1, <1>3, <1>4
  <1>6. Total(w, S \ {j}) = w[x].bytes + Total(w, (S \ {j}) \ {x})
    BY <1>1, <1>3, <1>4
  <1>7. (S \ {j}) \ {x} = (S \ {x}) \ {j}
    OBVIOUS
  <1>8. w[j].bytes \in Nat /\ w[x].bytes \in Nat /\ Total(w, (S \ {x}) \ {j}) \in Nat
    BY <1>3, TotalType
  <1> HIDE DEF T
  <1>9. Total(w, S) = w[x].bytes + (w[j].bytes + Total(w, (S \ {x}) \ {j}))
    BY <1>3, <1>5
  <1>10. w[j].bytes + Total(w, S \ {j}) = w[j].bytes + (w[x].bytes + Total(w, (S \ {x}) \ {j}))
    BY <1>6, <1>7
  <1> QED
    BY <1>2, <1>8, <1>9, <1>10

\* Only the bytes of the jobs summed over matter.
LEMMA TotalSame ==
  ASSUME NEW w, NEW v, NEW D, IsFiniteSet(D), \A j \in D : w[j].bytes = v[j].bytes
  PROVE  Total(w, D) = Total(v, D)
  <1> DEFINE T == {S \in SUBSET D : Total(w, S) # Total(v, S)}
  <1> SUFFICES ASSUME T # {} PROVE FALSE
    OBVIOUS
  <1>0. T \in SUBSET SUBSET D
    OBVIOUS
  <1>1. PICK S \in T : \A R \in T : R \subseteq S => R = S
    <2> HIDE DEF T
    <2> QED
      BY <1>0, MinimalSet
  <1>2. S # {}
    BY FS_EmptySet, TotalStep
  <1>3. Picked(S) \in S /\ IsFiniteSet(S)
    BY <1>2, PickedIn, FS_Subset
  <1>4. Total(w, S \ {Picked(S)}) = Total(v, S \ {Picked(S)})
    BY <1>1, <1>3
  <1> QED
    BY <1>2, <1>3, <1>4, TotalStep

-----------------------------------------------------------------------------
(* AccountingExact.                                                        *)

\* What a job counts for: n if it is in the phases, nothing otherwise.
Part(b, n) == IF b THEN n ELSE 0

\* The counters are exact for the records of the jobs as they are.
AccountInv == JobTyped /\ service \in [Service -> {"idle", "held", "done"}] /\ AccountingExact

\* Every job asks for a number of bytes, before a step ...
LEMMA BytesTyped ==
  ASSUME JobTyped
  PROVE  \A j \in Job : job[j].bytes \in Nat
  <1> TAKE j \in Job
  <1>1. CASE job[j] = Idle
    BY <1>1 DEF Idle
  <1>2. CASE job[j] \in [pc : Phases, bytes : Budget, id : ResumeId \cup {None}, cancelled : BOOLEAN]
    BY <1>2, LimitsAssumption
  <1> QED
    BY <1>1, <1>2 DEF JobTyped

\* ... and after it.
LEMMA BytesTypedNext ==
  ASSUME JobTyped'
  PROVE  \A j \in Job : job'[j].bytes \in Nat
  <1> TAKE j \in Job
  <1>1. CASE job'[j] = Idle
    BY <1>1 DEF Idle
  <1>2. CASE job'[j] \in [pc : Phases, bytes : Budget, id : ResumeId \cup {None}, cancelled : BOOLEAN]
    BY <1>2, LimitsAssumption
  <1> QED
    BY <1>1, <1>2 DEF JobTyped

\* The jobs of some phases are finitely many and ask for a number of bytes.
LEMMA CountsTyped ==
  ASSUME JobTyped, NEW P
  PROVE  In(P) \in SUBSET Job /\ IsFiniteSet(In(P)) /\ Cardinality(In(P)) \in Nat /\ Bytes(In(P)) \in Nat
  <1>1. In(P) \in SUBSET Job /\ IsFiniteSet(Job)
    BY LimitsAssumption DEF In
  <1>2. IsFiniteSet(In(P)) /\ Cardinality(In(P)) \in Nat
    BY <1>1, FS_Subset, FS_CardinalityType
  <1> QED
    BY <1>1, <1>2, BytesTyped, BytesIsTotal, TotalType

\* While no job moves, neither number changes.
LEMMA JobsStay ==
  ASSUME UNCHANGED job, NEW P
  PROVE  In(P)' = In(P) /\ Bytes(In(P))' = Bytes(In(P))
  <1>1. In(P)' = In(P) /\ In(P) \in SUBSET Job
    BY DEF In
  <1> QED
    BY <1>1, BytesIsTotal

\* When one job moves, both numbers change by what that job counts for.
LEMMA JobMoves ==
  ASSUME JobTyped, JobTyped', NEW j \in Job, \A i \in Job \ {j} : job'[i] = job[i], NEW P
  PROVE  /\ Cardinality(In(P))' = Cardinality(In(P)) + Part(job'[j].pc \in P, 1) - Part(job[j].pc \in P, 1)
         /\ Bytes(In(P))' = Bytes(In(P)) + Part(job'[j].pc \in P, job'[j].bytes) - Part(job[j].pc \in P, job[j].bytes)
  <1> DEFINE A == In(P)
             B == In(P)'
  <1>1. A \in SUBSET Job /\ B \in SUBSET Job /\ A \ {j} = B \ {j} /\ IsFiniteSet(Job)
    BY LimitsAssumption DEF In
  <1>2. (j \in A <=> job[j].pc \in P) /\ (j \in B <=> job'[j].pc \in P)
    BY DEF In
  <1>3. IsFiniteSet(A) /\ IsFiniteSet(B) /\ IsFiniteSet(A \ {j}) /\ IsFiniteSet(B \ {j})
    BY <1>1, FS_Subset
  <1>4. \A i \in Job : job[i].bytes \in Nat /\ job'[i].bytes \in Nat
    BY BytesTyped, BytesTypedNext
  <1>5. Bytes(In(P)) = Total(job, A) /\ Bytes(In(P))' = Total(job', B)
    BY <1>1, BytesIsTotal
  <1> HIDE DEF A, B
  <1>6. Total(job, A \ {j}) = Total(job', B \ {j})
    <2>1. \A i \in A \ {j} : job[i].bytes = job'[i].bytes
      BY <1>1
    <2>2. Total(job, A \ {j}) = Total(job', A \ {j})
      BY <1>3, <2>1, TotalSame
    <2> QED
      BY <1>1, <2>2
  <1>7. Total(job, A) = Total(job, A \ {j}) + Part(job[j].pc \in P, job[j].bytes)
    <2>1. CASE j \in A
      <3>1. Total(job, A) = job[j].bytes + Total(job, A \ {j}) /\ Total(job, A \ {j}) \in Nat
        BY <1>1, <1>4, <2>1, TotalRemove, TotalType
      <3> QED
        BY <1>2, <1>4, <2>1, <3>1 DEF Part
    <2>2. CASE j \notin A
      <3>1. Total(job, A) \in Nat
        BY <1>1, <1>4, TotalType
      <3>2. A \ {j} = A
        BY <2>2
      <3>3. Total(job, A \ {j}) = Total(job, A)
        BY <3>2
      <3>4. Part(job[j].pc \in P, job[j].bytes) = 0
        BY <1>2, <2>2 DEF Part
      <3> QED
        BY <3>1, <3>3, <3>4
    <2> QED
      BY <2>1, <2>2
  <1>8. Total(job', B) = Total(job', B \ {j}) + Part(job'[j].pc \in P, job'[j].bytes)
    <2>1. CASE j \in B
      <3>1. Total(job', B) = job'[j].bytes + Total(job', B \ {j}) /\ Total(job', B \ {j}) \in Nat
        BY <1>1, <1>4, <2>1, TotalRemove, TotalType
      <3> QED
        BY <1>2, <1>4, <2>1, <3>1 DEF Part
    <2>2. CASE j \notin B
      <3>1. Total(job', B) \in Nat
        BY <1>1, <1>4, TotalType
      <3>2. B \ {j} = B
        BY <2>2
      <3>3. Total(job', B \ {j}) = Total(job', B)
        BY <3>2
      <3>4. Part(job'[j].pc \in P, job'[j].bytes) = 0
        BY <1>2, <2>2 DEF Part
      <3> QED
        BY <3>1, <3>3, <3>4
    <2> QED
      BY <2>1, <2>2
  <1>9. Total(job, A \ {j}) \in Nat /\ Cardinality(A) \in Nat /\ Cardinality(B) \in Nat /\ Cardinality(A \ {j}) \in Nat
    BY <1>1, <1>3, <1>4, TotalType, FS_CardinalityType
  <1>10. Cardinality(A) = Cardinality(A \ {j}) + Part(job[j].pc \in P, 1)
    BY <1>2, <1>3, <1>9, FS_RemoveElement DEF Part
  <1>11. Cardinality(B) = Cardinality(B \ {j}) + Part(job'[j].pc \in P, 1)
    BY <1>2, <1>3, <1>9, FS_RemoveElement DEF Part
  <1>a. Cardinality(A \ {j}) = Cardinality(B \ {j})
    BY <1>1
  <1>12. Cardinality(B) = Cardinality(A) + Part(job'[j].pc \in P, 1) - Part(job[j].pc \in P, 1)
    BY <1>a, <1>9, <1>10, <1>11 DEF Part
  <1>13. Total(job', B) = Total(job, A) + Part(job'[j].pc \in P, job'[j].bytes) - Part(job[j].pc \in P, job[j].bytes)
    BY <1>4, <1>6, <1>7, <1>8, <1>9 DEF Part
  <1> QED
    BY <1>5, <1>12, <1>13 DEF A, B

\* The service calls that hold a permit.
Held == {s \in Service : service[s] = "held"}

\* A step that moves one job and no service call.
LEMMA AccountMoves ==
  ASSUME AccountInv, JobTyped', NEW j \in Job, \A i \in Job \ {j} : job'[i] = job[i], UNCHANGED service,
         usedWorkers' = usedWorkers + Part(job'[j].pc \in Counted, 1) - Part(job[j].pc \in Counted, 1),
         usedMemory' = usedMemory + Part(job'[j].pc \in Counted, job'[j].bytes) - Part(job[j].pc \in Counted, job[j].bytes),
         poolUsed' = poolUsed + Part(job'[j].pc \in Permitted, job'[j].bytes) - Part(job[j].pc \in Permitted, job[j].bytes)
                       + Part(job'[j].pc = "crypto", Transient) - Part(job[j].pc = "crypto", Transient)
  PROVE  AccountInv'
  <1> DEFINE c == Cardinality(In({"crypto"}))
             d == Cardinality(In({"crypto"}))'
             h == Cardinality(Held)
             x == Bytes(In(Permitted))
             y == Bytes(In(Permitted))'
             p == Part(job'[j].pc \in Permitted, job'[j].bytes)
             q == Part(job[j].pc \in Permitted, job[j].bytes)
             a == job'[j].pc = "crypto"
             b == job[j].pc = "crypto"
  <1>1. JobTyped /\ AccountingExact
    BY DEF AccountInv
  <1>2. usedWorkers' = Cardinality(In(Counted))' /\ usedMemory' = Bytes(In(Counted))'
    BY <1>1, JobMoves DEF AccountingExact
  <1>3. y = x + p - q
    BY <1>1, JobMoves
  <1>4. d = c + Part(a, 1) - Part(b, 1)
    <2>1. d = c + Part(job'[j].pc \in {"crypto"}, 1) - Part(job[j].pc \in {"crypto"}, 1)
      BY <1>1, JobMoves
    <2> QED
      BY <2>1 DEF Part
  <1>5. poolUsed = x + Transient * (c + h)
    BY <1>1 DEF AccountingExact, Held
  <1>6. c \in Nat /\ x \in Nat /\ h \in Nat /\ Transient \in Nat /\ p \in Nat /\ q \in Nat
    <2>1. IsFiniteSet(Held)
      BY LimitsAssumption, FS_Subset DEF Held
    <2>2. h \in Nat
      BY <2>1, FS_CardinalityType
    <2>3. p \in Nat /\ q \in Nat
      BY <1>1, BytesTyped, BytesTypedNext DEF Part
    <2> QED
      BY <1>1, <2>2, <2>3, CountsTyped, LimitsAssumption
  <1>7. poolUsed' = poolUsed + p - q + Part(a, Transient) - Part(b, Transient)
    OBVIOUS
  <1>8. h = Cardinality({s \in Service : service[s] = "held"})'
    BY DEF Held
  <1>9. poolUsed' = y + Transient * (d + h)
    <2> HIDE DEF a, b, c, d, h, x, y, p, q
    <2>1. CASE a <=> b
      BY <2>1, <1>3, <1>4, <1>5, <1>6, <1>7 DEF Part
    <2>2. CASE a /\ ~b
      <3>1. d + h = (c + h) + 1
        BY <2>2, <1>4, <1>6 DEF Part
      <3>2. Transient * ((c + h) + 1) = Transient * (c + h) + Transient
        BY <1>6
      <3> QED
        BY <2>2, <3>1, <3>2, <1>3, <1>5, <1>6, <1>7 DEF Part
    <2>3. CASE b /\ ~a
      <3>1. c + h = (d + h) + 1 /\ d \in Int
        BY <2>3, <1>4, <1>6 DEF Part
      <3>2. Transient * ((d + h) + 1) = Transient * (d + h) + Transient /\ Transient * (d + h) \in Int
        BY <1>6, <3>1
      <3> QED
        BY <2>3, <3>1, <3>2, <1>3, <1>5, <1>6, <1>7 DEF Part
    <2> QED
      BY <2>1, <2>2, <2>3
  <1> QED
    BY <1>2, <1>8, <1>9 DEF AccountInv, AccountingExact

\* A busy job that moves on keeps its bytes.
LEMMA AccountGoto ==
  ASSUME AccountInv, NEW j \in Job, job[j].pc # "idle", NEW pc \in Phases, Goto(j, pc), UNCHANGED service,
         usedWorkers' = usedWorkers + Part(pc \in Counted, 1) - Part(job[j].pc \in Counted, 1),
         usedMemory' = usedMemory + Part(pc \in Counted, job[j].bytes) - Part(job[j].pc \in Counted, job[j].bytes),
         poolUsed' = poolUsed + Part(pc \in Permitted, job[j].bytes) - Part(job[j].pc \in Permitted, job[j].bytes)
                       + Part(pc = "crypto", Transient) - Part(job[j].pc = "crypto", Transient)
  PROVE  AccountInv'
  <1> DEFINE x == [job[j] EXCEPT !.pc = pc]
  <1>1. JobTyped
    BY DEF AccountInv
  <1>2. /\ x \in [pc : Phases, bytes : Budget, id : ResumeId \cup {None}, cancelled : BOOLEAN]
        /\ x.pc = pc /\ x.bytes = job[j].bytes /\ job' = [job EXCEPT ![j] = x]
    BY <1>1, GotoTyped, JobFields DEF Goto
  <1> HIDE DEF x
  <1>3. JobTyped' /\ job'[j] = x /\ \A i \in Job \ {j} : job'[i] = job[i]
    BY <1>1, <1>2 DEF JobTyped
  <1>4. job'[j].pc = pc /\ job'[j].bytes = job[j].bytes
    BY <1>2, <1>3
  <1> QED
    BY <1>3, <1>4, AccountMoves

\* The values the counters have are numbers.
LEMMA CountersTyped ==
  ASSUME AccountInv, NEW j \in Job
  PROVE  /\ usedWorkers \in Nat /\ usedMemory \in Nat /\ poolUsed \in Nat
         /\ job[j].bytes \in Nat /\ Transient \in Nat
  <1>1. JobTyped
    BY DEF AccountInv
  <1>2. IsFiniteSet({s \in Service : service[s] = "held"})
    BY LimitsAssumption, FS_Subset
  <1>3. Cardinality({s \in Service : service[s] = "held"}) \in Nat
    BY <1>2, FS_CardinalityType
  <1> QED
    BY <1>1, <1>3, CountsTyped, BytesTyped, LimitsAssumption DEF AccountInv, AccountingExact

\* Every step of the thread of a job changes the counters by what the job
\* takes or gives back, on the cancelled and refused paths too.
LEMMA AccountJobStep ==
  ASSUME AccountInv, NEW j \in Job, JobStep(j)
  PROVE  AccountInv'
  <1> USE CountersTyped
  <1>1. CASE Proceed(j)
    BY <1>1, AccountGoto DEF Proceed, Count, counters, Phases, Counted, Permitted, Part
  <1>2. CASE ReserveAdmission(j)
    BY <1>2, AccountGoto DEF ReserveAdmission, Uncount, counters, Phases, Counted, Permitted, Part
  <1>3. CASE Register(j)
    BY <1>3, AccountGoto DEF Register, Uncount, counters, Phases, Counted, Permitted, Part
  <1>4. CASE Run(j)
    BY <1>4, AccountGoto DEF Run, counters, Phases, Counted, Permitted, Part
  <1>5. CASE ReserveTransient(j)
    BY <1>5, AccountGoto DEF ReserveTransient, counters, Phases, Counted, Permitted, Part
  <1>6. CASE ReleaseTransient(j)
    BY <1>6, AccountGoto DEF ReleaseTransient, counters, Phases, Counted, Permitted, Part
  <1>7. CASE DropAdmission(j)
    BY <1>7, AccountGoto DEF DropAdmission, Uncount, counters, Phases, Counted, Permitted, Part
  <1>8. CASE DropPermit(j)
    BY <1>8, AccountGoto DEF DropPermit, counters, Phases, Counted, Permitted, Part
  <1> QED
    BY <1>1, <1>2, <1>3, <1>4, <1>5, <1>6, <1>7, <1>8 DEF JobStep

\* A job that is spawned is refused, counted or made to wait in one step.
LEMMA AccountAdmit ==
  ASSUME AccountInv, NEW j \in Job, NEW bytes \in Budget, NEW id \in ResumeId \cup {None}, Admit(j, bytes, id)
  PROVE  AccountInv'
  <1>1. JobTyped /\ job[j].pc = "idle" /\ bytes \in Nat
    BY LimitsAssumption DEF AccountInv, Admit
  <1>2. PICK pc \in {"done", "reserving", "waiting"} :
          /\ job' = [job EXCEPT ![j] = [pc |-> pc, bytes |-> bytes, id |-> id, cancelled |-> FALSE]]
          /\ IF pc = "reserving" THEN Count(bytes) ELSE UNCHANGED counters
    BY DEF Admit
  <1>3. JobTyped' /\ job'[j].pc = pc /\ job'[j].bytes = bytes /\ \A i \in Job \ {j} : job'[i] = job[i]
    BY <1>1, <1>2 DEF JobTyped, Phases
  <1>4. UNCHANGED <<poolUsed, service>>
    BY DEF Admit
  <1>5. /\ usedWorkers' = usedWorkers + Part(pc \in Counted, 1) - Part(job[j].pc \in Counted, 1)
        /\ usedMemory' = usedMemory + Part(pc \in Counted, bytes) - Part(job[j].pc \in Counted, job[j].bytes)
        /\ poolUsed' = poolUsed + Part(pc \in Permitted, bytes) - Part(job[j].pc \in Permitted, job[j].bytes)
                         + Part(pc = "crypto", Transient) - Part(job[j].pc = "crypto", Transient)
    BY <1>1, <1>2, <1>4, CountersTyped DEF Count, counters, Counted, Permitted, Part
  <1> QED
    BY <1>3, <1>4, <1>5, AccountMoves

\* Cancelling a job gives nothing back by itself.
LEMMA AccountCancel ==
  ASSUME AccountInv, NEW j \in Job, Cancel(j)
  PROVE  AccountInv'
  <1> DEFINE x == [job[j] EXCEPT !.cancelled = TRUE]
  <1>1. JobTyped
    BY DEF AccountInv
  <1>2. /\ x \in [pc : Phases, bytes : Budget, id : ResumeId \cup {None}, cancelled : BOOLEAN]
        /\ x.pc = job[j].pc /\ x.bytes = job[j].bytes /\ job' = [job EXCEPT ![j] = x]
    BY <1>1, JobFields DEF Cancel
  <1> HIDE DEF x
  <1>3. JobTyped' /\ job'[j] = x /\ \A i \in Job \ {j} : job'[i] = job[i]
    BY <1>1, <1>2 DEF JobTyped
  <1>4. UNCHANGED <<counters, poolUsed, service>>
    BY DEF Cancel
  <1>5. job'[j].pc = job[j].pc /\ job'[j].bytes = job[j].bytes
    BY <1>2, <1>3
  <1>6. /\ usedWorkers' = usedWorkers + Part(job'[j].pc \in Counted, 1) - Part(job[j].pc \in Counted, 1)
        /\ usedMemory' = usedMemory + Part(job'[j].pc \in Counted, job'[j].bytes) - Part(job[j].pc \in Counted, job[j].bytes)
        /\ poolUsed' = poolUsed + Part(job'[j].pc \in Permitted, job'[j].bytes) - Part(job[j].pc \in Permitted, job[j].bytes)
                         + Part(job'[j].pc = "crypto", Transient) - Part(job[j].pc = "crypto", Transient)
    BY <1>4, <1>5, CountersTyped DEF counters, Part
  <1> QED
    BY <1>3, <1>4, <1>6, AccountMoves

\* A service call takes its transient memory and gives it back.
LEMMA AccountService ==
  ASSUME AccountInv, NEW s \in Service, ServiceReserve(s) \/ ServiceRelease(s)
  PROVE  AccountInv'
  <1> DEFINE h == Cardinality(Held)
             k == Cardinality(Held')
             c == Cardinality(In({"crypto"}))
             x == Bytes(In(Permitted))
  <1>1. IsFiniteSet(Held) /\ IsFiniteSet(Held')
    BY LimitsAssumption, FS_Subset DEF Held
  <1>2. h \in Nat /\ k \in Nat /\ c \in Nat /\ x \in Nat /\ Transient \in Nat
    BY <1>1, FS_CardinalityType, CountsTyped, LimitsAssumption DEF AccountInv
  <1>3. UNCHANGED <<job, counters>>
    BY DEF ServiceReserve, ServiceRelease
  <1>4. poolUsed = x + Transient * (c + h)
    BY DEF AccountInv, AccountingExact, Held
  <1>5. service' \in [Service -> {"idle", "held", "done"}]
    BY DEF AccountInv, ServiceReserve, ServiceRelease
  <1>6. poolUsed' = x + Transient * (c + k)
    <2>1. CASE ServiceReserve(s)
      <3>1. Held' = Held \cup {s} /\ s \notin Held
        BY <2>1 DEF Held, AccountInv, ServiceReserve
      <3>2. k = h + 1
        BY <1>1, <3>1, FS_AddElement
      <3> HIDE DEF h, k, c, x
      <3>3. c + k = (c + h) + 1 /\ Transient * ((c + h) + 1) = Transient * (c + h) + Transient
        BY <1>2, <3>2
      <3> QED
        BY <1>2, <1>4, <2>1, <3>3 DEF ServiceReserve
    <2>2. CASE ServiceRelease(s)
      <3>1. Held' = Held \ {s} /\ s \in Held
        BY <2>2 DEF Held, AccountInv, ServiceRelease
      <3>2. h = k + 1
        BY <1>1, <1>2, <3>1, FS_RemoveElement
      <3> HIDE DEF h, k, c, x
      <3>3. c + h = (c + k) + 1 /\ Transient * ((c + k) + 1) = Transient * (c + k) + Transient /\ Transient * (c + k) \in Nat
        BY <1>2, <3>2
      <3> QED
        BY <1>2, <1>4, <2>2, <3>3 DEF ServiceRelease
    <2> QED
      BY <2>1, <2>2
  <1>7. x = Bytes(In(Permitted))' /\ c = Cardinality(In({"crypto"}))' /\ k = Cardinality({t \in Service : service[t] = "held"})'
    BY <1>3, JobsStay DEF Held
  <1>8. usedWorkers' = Cardinality(In(Counted))' /\ usedMemory' = Bytes(In(Counted))'
    BY <1>3, JobsStay DEF AccountInv, AccountingExact, counters
  <1>9. JobTyped'
    BY <1>3 DEF AccountInv, JobTyped
  <1> QED
    BY <1>5, <1>6, <1>7, <1>8, <1>9 DEF AccountInv, AccountingExact

\* Every step keeps the counters exact.
LEMMA AccountStep == AccountInv /\ [Next]_vars => AccountInv'
  <1> SUFFICES ASSUME AccountInv, [Next]_vars
               PROVE  AccountInv'
    OBVIOUS
  <1>1. CASE UNCHANGED vars \/ (\E w \in 1..MaxWorkers, m \in Runtime..MaxMemory : Reconfigure(w, m))
    <2>1. UNCHANGED <<usedWorkers, usedMemory, poolUsed, job, service>>
      BY <1>1 DEF vars, counters, Reconfigure
    <2> QED
      BY <2>1, JobsStay DEF AccountInv, JobTyped, AccountingExact
  <1> QED
    BY <1>1, AccountJobStep, AccountCancel, AccountAdmit, AccountService DEF Next

\* A new scheduler counts nothing.
LEMMA AccountInit == Init => AccountInv
  <1> SUFFICES ASSUME Init PROVE AccountInv
    OBVIOUS
  <1>1. In(Counted) = {} /\ In(Permitted) = {} /\ In({"crypto"}) = {} /\ {s \in Service : service[s] = "held"} = {}
    BY DEF Init, In, Counted, Permitted, Idle
  <1>2. Bytes({}) = 0 /\ Cardinality({}) = 0
    BY BytesIsTotal, TotalStep, FS_EmptySet
  <1>3. JobTyped
    BY DEF Init, JobTyped
  <1>4. 0 + Transient * (0 + 0) = 0
    BY LimitsAssumption
  <1>5. AccountingExact
    BY <1>1, <1>2, <1>4 DEF Init, AccountingExact
  <1> QED
    BY <1>3, <1>5 DEF Init, AccountInv

\* admit(), Admission::drop and MemoryPermit::drop leak nothing, for any number
\* of jobs, service calls, budgets and limits.
THEOREM AccountingStaysExact == Spec => []AccountingExact
  <1>1. AccountInv => AccountingExact
    BY DEF AccountInv
  <1> QED
    BY <1>1, AccountInit, AccountStep, PTL DEF Spec

\* The jobs that hold a slot, what they asked for, and what the permits that are
\* alive hold are within SchedulerLimits.
LimitsKept ==
  /\ Cardinality(In(Counted)) <= MaxWorkers /\ Bytes(In(Counted)) <= MaxMemory
  /\ Bytes(In(Permitted)) + Transient * Cardinality(In({"crypto"})) <= MaxMemory

\* The counters are exact, the limits only go down, and no counter passes the
\* limits the scheduler was made with.
LimitsInv ==
  /\ AccountInv /\ workers \in 1..MaxWorkers /\ memoryBytes \in Runtime..MaxMemory
  /\ usedWorkers <= MaxWorkers /\ usedMemory <= MaxMemory /\ poolUsed <= MaxMemory

\* A counter grows only while it stays below the limit of the moment.
LEMMA LimitsStep == LimitsInv /\ [Next]_vars => LimitsInv'
  <1> SUFFICES ASSUME LimitsInv, [Next]_vars
               PROVE  LimitsInv'
    OBVIOUS
  <1> USE LimitsAssumption
  <1>1. AccountInv'
    BY AccountStep DEF LimitsInv
  <1>2. ASSUME NEW j \in Job, JobStep(j) \/ Cancel(j)
        PROVE  LimitsInv'
    BY <1>1, <1>2, CountersTyped
       DEF LimitsInv, JobStep, Cancel, Proceed, ReserveAdmission, Register, Run, ReserveTransient, ReleaseTransient,
           DropAdmission, DropPermit, Count, Uncount, HasCapacity, PoolHas, counters, limits
  <1>3. ASSUME NEW j \in Job, NEW bytes \in Budget, NEW id \in ResumeId \cup {None}, Admit(j, bytes, id)
        PROVE  LimitsInv'
    BY <1>1, <1>3, CountersTyped DEF LimitsInv, Admit, Count, HasCapacity, counters, limits
  <1>4. CASE \/ UNCHANGED vars
             \/ (\E s \in Service : ServiceReserve(s) \/ ServiceRelease(s))
             \/ (\E w \in 1..MaxWorkers, m \in Runtime..MaxMemory : Reconfigure(w, m))
    <2>1. poolUsed \in Int
      <3>1. IsFiniteSet(Held)
        BY FS_Subset DEF Held
      <3>2. Cardinality(Held) \in Nat
        BY <3>1, FS_CardinalityType
      <3> QED
        BY <3>2, CountsTyped DEF LimitsInv, AccountInv, AccountingExact, Held
    <2> QED
      BY <1>1, <1>4, <2>1 DEF LimitsInv, ServiceReserve, ServiceRelease, Reconfigure, PoolHas, counters, limits, vars
  <1> QED
    BY <1>2, <1>3, <1>4 DEF Next

\* No more jobs hold a slot, and no more memory is promised or held, than
\* Scheduler::new was given, also after the limits are lowered below what is
\* already in use.
THEOREM LimitsAlwaysKept == Spec => []LimitsKept
  <1>1. Init => LimitsInv
    BY AccountInit, LimitsAssumption DEF Init, LimitsInv
  <1>2. LimitsInv => LimitsKept
    <2> SUFFICES ASSUME LimitsInv PROVE LimitsKept
      OBVIOUS
    <2> DEFINE c == Cardinality(In({"crypto"}))
               h == Cardinality(Held)
    <2>1. IsFiniteSet(Held)
      BY LimitsAssumption, FS_Subset DEF Held
    <2>2. c \in Nat /\ h \in Nat /\ Bytes(In(Permitted)) \in Nat /\ Transient \in Nat /\ MaxMemory \in Nat
      BY <2>1, FS_CardinalityType, CountsTyped, LimitsAssumption DEF LimitsInv, AccountInv
    <2>3. Transient * (c + h) = Transient * c + Transient * h /\ Transient * h \in Nat /\ Transient * c \in Nat
      <3> HIDE DEF c, h
      <3> QED
        BY <2>2
    <2>4. poolUsed = Bytes(In(Permitted)) + Transient * (c + h) /\ poolUsed <= MaxMemory
      BY DEF LimitsInv, AccountInv, AccountingExact, Held
    <2>5. Bytes(In(Permitted)) + Transient * c <= MaxMemory
      <3> HIDE DEF c, h
      <3> QED
        BY <2>2, <2>3, <2>4
    <2> QED
      BY <2>5 DEF LimitsInv, AccountInv, AccountingExact, LimitsKept
  <1> QED
    BY <1>1, <1>2, LimitsStep, PTL DEF Spec
-----------------------------------------------------------------------------
(* What the user is shown of a transfer.  A portion weighs its bytes, as a *)
(* job does.                                                               *)

\* The weights f of portions as the sums of jobs take them.
Weigh(f) == [c \in Portion |-> [bytes |-> f[c]]]

\* A solution of the equation of a sum gives the sum.
LEMMA SumUnique ==
  ASSUME NEW w, NEW S, IsFiniteSet(S), NEW g, SumsOver(g, w, S)
  PROVE  g[S] = Total(w, S)
  <1> DEFINE h == CHOOSE f : SumsOver(f, w, S)
  <1>1. S \in SUBSET S
    OBVIOUS
  <1>2. \E f : SumsOver(f, w, S)
    BY <1>1, SumExists
  <1>3. SumsOver(h, w, S)
    BY <1>2
  <1>4. Total(w, S) = h[S]
    BY DEF Total
  <1> HIDE DEF h
  <1> QED
    BY <1>1, <1>3, <1>4, SumOfPart

\* The sum over a set of portions is the sum of their weights.
LEMMA SumIsTotal ==
  ASSUME NEW f, NEW S \in SUBSET Portion
  PROVE  Showing!MapThenSumSet(LAMBDA c : f[c], S) = Total(Weigh(f), S)
  <1> DEFINE Adds(g) == g = [s \in SUBSET S |-> IF s = {} THEN 0 ELSE f[Picked(s)] + g[s \ {Picked(s)}]]
             h == CHOOSE g : Adds(g)
  <1>1. IsFiniteSet(S) /\ S \in SUBSET S
    BY FlowAssumption, FS_Subset DEF ProgressConstants
  <1>2. ASSUME NEW g PROVE Adds(g) <=> SumsOver(g, Weigh(f), S)
    <2>1. ASSUME NEW s \in SUBSET S, s # {}
          PROVE  Weigh(f)[Picked(s)].bytes = f[Picked(s)]
      <3>1. Picked(s) \in Portion
        BY <2>1, PickedIn
      <3> QED
        BY <3>1 DEF Weigh
    <2> QED
      BY <2>1 DEF SumsOver
  <1>3. \E g : SumsOver(g, Weigh(f), S)
    BY <1>1, SumExists
  <1>4. Adds(h)
    <2>1. \E g : Adds(g)
      BY <1>2, <1>3
    <2> HIDE DEF Adds
    <2> QED
      BY <2>1
  <1>5. Showing!MapThenSumSet(LAMBDA c : f[c], S) = h[S]
    BY DEF Showing!MapThenSumSet, Showing!MapThenFoldSet, Picked
  <1> HIDE DEF h, Adds
  <1>6. h[S] = Total(Weigh(f), S)
    BY <1>1, <1>2, <1>4, SumUnique
  <1> QED
    BY <1>5, <1>6

\* The bytes of a transfer, of some of its portions, and of its bodies in flight.
LEMMA SumsOfPortions ==
  /\ Showing!Total = Total(Weigh(Length), Portion)
  /\ \A S \in SUBSET Portion : Showing!MapThenSumSet(LAMBDA c : Length[c], S) = Total(Weigh(Length), S)
  /\ \A act, done : Showing!Snapshot(act, done) = done + Total(Weigh(Showing!Moving(act)), Portion)
  <1>1. Showing!Total = Total(Weigh(Length), Portion)
    BY SumIsTotal DEF Showing!Total
  <1>2. \A act, done : Showing!Snapshot(act, done) = done + Total(Weigh(Showing!Moving(act)), Portion)
    <2> TAKE act, done
    <2> DEFINE f == Showing!Moving(act)
    <2>1. Showing!MapThenSumSet(LAMBDA c : f[c], Portion) = Total(Weigh(f), Portion)
      <3> HIDE DEF f
      <3> QED
        BY SumIsTotal
    <2> QED
      BY <2>1 DEF Showing!Snapshot
  <1> QED
    BY <1>1, <1>2, SumIsTotal

\* What is counted of a portion, for certain or in flight, is at most its bytes: so is the sum.
LEMMA SumsBounded ==
  ASSUME NEW D \in SUBSET Portion, NEW f \in [Portion -> Nat],
         \A c \in Portion : f[c] <= Length[c] /\ (c \in D => f[c] = 0)
  PROVE  /\ Total(Weigh(Length), D) \in Nat /\ Total(Weigh(f), Portion) \in Nat /\ Total(Weigh(Length), Portion) \in Nat
         /\ Total(Weigh(Length), D) + Total(Weigh(f), Portion) <= Total(Weigh(Length), Portion)
  <1> DEFINE w == Weigh(Length)
             v == Weigh(f)
             T == {S \in SUBSET Portion : ~(Total(w, S \cap D) + Total(v, S) <= Total(w, S))}
  <1>0. /\ IsFiniteSet(Portion) /\ Length \in [Portion -> Nat]
        /\ \A c \in Portion : w[c].bytes = Length[c] /\ w[c].bytes \in Nat /\ v[c].bytes = f[c] /\ v[c].bytes \in Nat
    BY FlowAssumption DEF ProgressConstants, Weigh
  <1> HIDE DEF w, v
  <1>1. \A S \in SUBSET Portion : Total(w, S) \in Nat /\ Total(v, S) \in Nat /\ Total(w, S \cap D) \in Nat
    <2>1. \A S \in SUBSET Portion : Total(w, S) \in Nat
      BY <1>0, TotalType
    <2>2. \A S \in SUBSET Portion : Total(v, S) \in Nat
      BY <1>0, TotalType
    <2> QED
      BY <2>1, <2>2
  <1>2. \A S \in SUBSET Portion : \A c \in S : Total(w, S) = w[c].bytes + Total(w, S \ {c})
    BY <1>0, TotalRemove
  <1>3. \A S \in SUBSET Portion : \A c \in S : Total(v, S) = v[c].bytes + Total(v, S \ {c})
    BY <1>0, TotalRemove
  <1>4. ASSUME T # {} PROVE FALSE
    <2>0. T \in SUBSET SUBSET Portion
      OBVIOUS
    <2>1. PICK S \in T : \A R \in T : R \subseteq S => R = S
      <3> HIDE DEF T
      <3> QED
        BY <1>0, <1>4, <2>0, MinimalSet
    <2>2. S \in SUBSET Portion /\ ~(Total(w, S \cap D) + Total(v, S) <= Total(w, S))
      OBVIOUS
    <2>3. S # {}
      <3>1. Total(w, {}) = 0 /\ Total(v, {}) = 0
        BY FS_EmptySet, TotalStep
      <3> HIDE DEF T
      <3> SUFFICES ASSUME S = {} PROVE FALSE
        OBVIOUS
      <3>2. S \cap D = {}
        OBVIOUS
      <3>3. Total(w, S \cap D) = 0 /\ Total(v, S) = 0 /\ Total(w, S) = 0
        BY <3>1, <3>2
      <3> QED
        BY <2>2, <3>3
    <2>4. PICK c \in S : TRUE
      BY <2>3
    <2> DEFINE R == S \ {c}
    <2>5. R \in SUBSET Portion /\ Total(w, R \cap D) + Total(v, R) <= Total(w, R)
      BY <2>1, <2>2, <2>4
    <2>6. Total(w, S) = Length[c] + Total(w, R) /\ Total(v, S) = f[c] + Total(v, R)
      BY <1>0, <1>2, <1>3, <2>2, <2>4
    <2> HIDE DEF T
    <2>7. CASE c \in D
      <3>1. S \cap D \in SUBSET Portion /\ c \in S \cap D /\ (S \cap D) \ {c} = R \cap D
        BY <2>2, <2>4, <2>7
      <3>2. Total(w, S \cap D) = Length[c] + Total(w, R \cap D)
        BY <1>0, <1>2, <2>2, <2>4, <3>1
      <3>3. f[c] = 0 /\ Length[c] \in Nat
        BY <1>0, <2>2, <2>4, <2>7
      <3> HIDE DEF R
      <3> QED
        BY <1>1, <2>2, <2>5, <2>6, <3>2, <3>3
    <2>8. CASE c \notin D
      <3>1. S \cap D = R \cap D
        BY <2>8
      <3>2. f[c] <= Length[c] /\ Length[c] \in Nat /\ f[c] \in Nat
        BY <1>0, <2>2, <2>4
      <3> HIDE DEF R
      <3> QED
        BY <1>1, <2>2, <2>5, <2>6, <3>1, <3>2
    <2> QED
      BY <2>7, <2>8
  <1>5. D = Portion \cap D /\ Portion \in SUBSET Portion
    OBVIOUS
  <1> QED
    BY <1>1, <1>4, <1>5 DEF w, v

\* What was counted, stored and drawn so far.  A body counts while its portion is not
\* durable; the bar stays below its cap until the transfer has succeeded.
ProgressInv ==
  /\ active \in [Portion -> Nat \cup {Missing}] /\ loaded \in [Portion -> Nat] /\ sum \in [Portion -> Nat \cup {Missing}]
  /\ durable \in SUBSET Portion /\ base = Total(Weigh(Length), durable)
  /\ \A c \in Portion :
       loaded[c] <= Length[c] + Tag /\ (active[c] # Missing => active[c] <= Length[c] /\ c \notin durable)
  /\ progress \in [phase : Showing!Phases, generation : 0..MaxGeneration, done : Nat, committed : Nat]
  /\ closing \in Portion \cup {Missing} /\ progress.committed + Showing!Owed = base
  /\ view \in [ratio : 0..Showing!Full, generation : Nat, finished : BOOLEAN]
  /\ outcome \in {"running", "ok", "failed"}
  /\ view.finished => outcome # "running"
  /\ ~(view.finished /\ outcome = "ok") => view.ratio <= Showing!Full - Showing!Total

\* The bytes in flight of portions that are not durable.
LEMMA MovingBounded ==
  ASSUME NEW act \in [Portion -> Nat \cup {Missing}], NEW D \in SUBSET Portion,
         \A c \in Portion : act[c] # Missing => act[c] <= Length[c] /\ c \notin D
  PROVE  LET done == Total(Weigh(Length), D) IN
         /\ done \in 0..Showing!Total
         /\ Showing!Snapshot(act, done) \in 0..Showing!Total
  <1>1. /\ Showing!Moving(act) \in [Portion -> Nat]
        /\ \A c \in Portion : Showing!Moving(act)[c] <= Length[c] /\ (c \in D => Showing!Moving(act)[c] = 0)
    BY FlowAssumption DEF Showing!Moving, ProgressConstants
  <1> QED
    BY <1>1, SumsBounded, SumsOfPortions

\* A full bar is a number of parts of every byte.
LEMMA BarTyped == Showing!Total \in Nat /\ Showing!Full \in Nat /\ Showing!Total <= Showing!Full
  <1> DEFINE none == [c \in Portion |-> Missing]
  <1>1. none \in [Portion -> Nat \cup {Missing}] /\ {} \in SUBSET Portion /\ \A c \in Portion : none[c] = Missing
    OBVIOUS
  <1>2. Total(Weigh(Length), {}) \in 0..Showing!Total
    <2> HIDE DEF none
    <2> QED
      BY <1>1, MovingBounded
  <1>3. Showing!Total = Total(Weigh(Length), Portion) /\ Showing!Total \in Nat
    <2> DEFINE zero == [c \in Portion |-> 0]
    <2>1. zero \in [Portion -> Nat] /\ {} \in SUBSET Portion /\ \A c \in Portion : zero[c] <= Length[c] /\ zero[c] = 0
      BY FlowAssumption DEF ProgressConstants
    <2> HIDE DEF zero
    <2> QED
      BY <2>1, SumsBounded, SumsOfPortions
  <1>4. ASSUME NEW n \in Nat, NEW p \in Nat \ {0} PROVE p * n \in Nat /\ n <= p * n
    OBVIOUS
  <1> QED
    BY <1>3, <1>4, FlowAssumption DEF Showing!Full, ProgressConstants

\* The conjuncts that workers disturb, of what they leave behind.
Counting(act, load, sums, done, safe) ==
  /\ act \in [Portion -> Nat \cup {Missing}] /\ load \in [Portion -> Nat] /\ sums \in [Portion -> Nat \cup {Missing}]
  /\ safe \in SUBSET Portion /\ done = Total(Weigh(Length), safe)
  /\ \A c \in Portion :
       load[c] <= Length[c] + Tag /\ (act[c] # Missing => act[c] <= Length[c] /\ c \notin safe)

\* The conjuncts that the screen disturbs.
Drawing(v, how) ==
  /\ v \in [ratio : 0..Showing!Full, generation : Nat, finished : BOOLEAN]
  /\ how \in {"running", "ok", "failed"}
  /\ v.finished => how # "running"
  /\ ~(v.finished /\ how = "ok") => v.ratio <= Showing!Full - Showing!Total

\* Control's snapshot.
Snapshots == [phase : Showing!Phases, generation : 0..MaxGeneration, done : Nat, committed : Nat]

\* What it says of the bytes that are durable.
Settled(pr, last, done) ==
  /\ pr \in Snapshots /\ last \in Portion \cup {Missing}
  /\ pr.committed + (IF last = Missing THEN 0 ELSE Length[last]) = done

LEMMA ProgressParts ==
  /\ ProgressInv <=> /\ Counting(active, loaded, sum, base, durable) /\ Drawing(view, outcome)
                     /\ Settled(progress, closing, base)
  /\ ProgressInv' <=> /\ Counting(active', loaded', sum', base', durable') /\ Drawing(view', outcome')
                      /\ Settled(progress', closing', base')
  BY DEF ProgressInv, Counting, Drawing, Snapshots, Settled, Showing!Owed

\* A sum is a number.
LEMMA SumTyped ==
  ASSUME NEW act, NEW load, NEW sums, NEW done, NEW safe, Counting(act, load, sums, done, safe)
  PROVE  Showing!Snapshot(act, done) \in Nat /\ done \in Nat
  BY MovingBounded, BarTyped DEF Counting

\* A worker restarts a body or reports on it.
LEMMA ProgressMoves ==
  ASSUME ProgressInv, NEW c \in Portion, Showing!Restart(c) \/ Showing!Report(c)
  PROVE  ProgressInv'
  <1>0. Counting(active, loaded, sum, base, durable)
    BY ProgressParts
  <1>1. Tag \in Nat /\ Length \in [Portion -> Nat] /\ Missing \notin Nat
    BY FlowAssumption DEF ProgressConstants
  <1>2. Counting(active', loaded', sum, base, durable)
    <2>1. CASE Showing!Restart(c)
      <3>1. /\ active' = [active EXCEPT ![c] = 0] /\ loaded' = [loaded EXCEPT ![c] = 0] /\ c \notin durable
        BY <2>1 DEF Showing!Restart
      <3> QED
        BY <1>0, <1>1, <3>1 DEF Counting
    <2>2. CASE Showing!Report(c)
      <3>1. /\ active[c] # Missing /\ loaded[c] < Length[c] + Tag
            /\ loaded' = [loaded EXCEPT ![c] = @ + 1]
            /\ active' = [active EXCEPT ![c] = Showing!Counted(c, loaded'[c])]
        BY <2>2 DEF Showing!Report
      <3>2. loaded'[c] \in Nat /\ loaded'[c] <= Length[c] + Tag /\ loaded' \in [Portion -> Nat]
        BY <1>0, <1>1, <3>1 DEF Counting
      <3>3. Showing!Counted(c, loaded'[c]) \in Nat /\ Showing!Counted(c, loaded'[c]) <= Length[c]
        BY <1>1, <3>2 DEF Showing!Counted
      <3>4. \A b \in Portion : b # c => active'[b] = active[b] /\ loaded'[b] = loaded[b]
        BY <1>0, <3>1 DEF Counting
      <3>5. active' \in [Portion -> Nat \cup {Missing}] /\ active'[c] = Showing!Counted(c, loaded'[c])
        BY <1>0, <3>1, <3>3 DEF Counting
      <3> QED
        BY <1>0, <3>1, <3>2, <3>3, <3>4, <3>5 DEF Counting
    <2> QED
      BY <2>1, <2>2
  <1>3. Showing!Snapshot(active', base) \in Nat
    BY <1>2, SumTyped
  <1>4. sum' = [sum EXCEPT ![c] = Showing!Snapshot(active', base)] /\ UNCHANGED <<base, durable, closing, progress, view, outcome>>
    BY DEF Showing!Restart, Showing!Report
  <1>5. Counting(active', loaded', sum', base', durable')
    BY <1>2, <1>3, <1>4 DEF Counting
  <1> QED
    BY <1>4, <1>5, ProgressParts

\* A portion adds its bytes.
LEMMA TotalGrows ==
  ASSUME NEW D \in SUBSET Portion, NEW c \in Portion \ D
  PROVE  Total(Weigh(Length), D \cup {c}) = Total(Weigh(Length), D) + Length[c]
  <1> DEFINE w == Weigh(Length)
             S == D \cup {c}
  <1>1. IsFiniteSet(Portion) /\ \A x \in Portion : w[x].bytes \in Nat /\ w[x].bytes = Length[x]
    BY FlowAssumption DEF ProgressConstants, Weigh
  <1>2. S \in SUBSET Portion /\ c \in S /\ S \ {c} = D
    OBVIOUS
  <1> HIDE DEF w, S
  <1>3. Total(w, S) = w[c].bytes + Total(w, S \ {c})
    BY <1>1, <1>2, TotalRemove
  <1>4. Total(w, D) \in Nat
    BY <1>1, TotalType
  <1>5. c \in Portion /\ w[c].bytes \in Nat /\ w[c].bytes = Length[c]
    BY <1>1
  <1>6. Total(w, S) = Length[c] + Total(w, D)
    BY <1>2, <1>3, <1>5, Zenon
  <1>7. Total(w, S) = Total(w, D) + Length[c]
    BY <1>4, <1>5, <1>6
  <1> QED
    BY <1>7 DEF w, S

\* A portion becomes durable.
LEMMA ProgressAcknowledged ==
  ASSUME ProgressInv, NEW c \in Portion, Showing!Acknowledged(c)
  PROVE  ProgressInv'
  <1>0. Counting(active, loaded, sum, base, durable) /\ Settled(progress, closing, base)
    BY ProgressParts
  <1>1. Tag \in Nat /\ Length \in [Portion -> Nat] /\ Missing \notin Nat /\ IsFiniteSet(Portion)
    BY FlowAssumption DEF ProgressConstants
  <1>2. /\ active[c] # Missing /\ durable' = durable \cup {c} /\ active' = [active EXCEPT ![c] = Missing]
        /\ base' = base + Length[c] /\ sum' = [sum EXCEPT ![c] = Showing!Snapshot(active', base')]
        /\ closing = Missing /\ closing' = c /\ UNCHANGED <<loaded, progress, view, outcome>>
    BY DEF Showing!Acknowledged
  <1>3. c \notin durable /\ durable' \in SUBSET Portion /\ durable' \ {c} = durable
    BY <1>0, <1>2 DEF Counting
  <1>4. base' = Total(Weigh(Length), durable')
    <2>1. base = Total(Weigh(Length), durable) /\ durable \in SUBSET Portion /\ c \in Portion \ durable
      BY <1>0, <1>3 DEF Counting
    <2>2. Total(Weigh(Length), durable \cup {c}) = Total(Weigh(Length), durable) + Length[c]
      BY <2>1, TotalGrows
    <2> QED
      BY <1>2, <2>1, <2>2
  <1>5. Counting(active', loaded', sum, base', durable')
    BY <1>0, <1>1, <1>2, <1>3, <1>4 DEF Counting
  <1>6. Showing!Snapshot(active', base') \in Nat /\ base' \in Nat
    BY <1>5, SumTyped
  <1>7. Counting(active', loaded', sum', base', durable')
    BY <1>2, <1>5, <1>6 DEF Counting
  <1>8. Settled(progress', closing', base')
    <2>1. progress.committed = base /\ progress \in Snapshots /\ progress.committed \in Nat
      BY <1>0, <1>1, <1>2 DEF Settled, Snapshots
    <2>2. c # Missing /\ Length[c] \in Nat
      BY <1>1, FlowAssumption
    <2> QED
      BY <1>2, <2>1, <2>2 DEF Settled
  <1> QED
    BY <1>2, <1>7, <1>8, ProgressParts

\* A sum is stored, what is durable is committed, or the phase changes.
LEMMA ProgressStored ==
  ASSUME ProgressInv, (\E c \in Portion : Showing!Advance(c)) \/ Showing!Commit \/ (\E p \in Showing!Phases : Showing!Phase(p))
  PROVE  ProgressInv'
  <1>0. /\ Counting(active, loaded, sum, base, durable) /\ progress \in Snapshots /\ Settled(progress, closing, base)
    BY ProgressParts DEF Settled
  <1>1. ASSUME NEW c \in Portion, Showing!Advance(c)
        PROVE  ProgressInv'
    <2>1. /\ sum[c] # Missing /\ sum' = [sum EXCEPT ![c] = Missing]
          /\ progress' = [progress EXCEPT !.done = IF sum[c] < Showing!Total THEN sum[c] ELSE Showing!Total]
          /\ UNCHANGED <<active, loaded, base, durable, closing, view, outcome>>
      BY <1>1 DEF Showing!Advance
    <2>2. sum[c] \in Nat /\ Counting(active', loaded', sum', base', durable')
      BY <1>0, <2>1 DEF Counting
    <2>3. Settled(progress', closing', base')
      BY <1>0, <2>1, <2>2, BarTyped DEF Snapshots, Settled
    <2> QED
      BY <2>1, <2>2, <2>3, ProgressParts
  <1>2. ASSUME NEW p \in Showing!Phases, Showing!Phase(p)
        PROVE  ProgressInv'
    <2>1. /\ progress.generation < MaxGeneration
          /\ progress' = [progress EXCEPT !.phase = p, !.generation = @ + 1]
          /\ UNCHANGED <<active, loaded, base, durable, sum, closing, view, outcome>>
      BY <1>2 DEF Showing!Phase
    <2>2. MaxGeneration \in Nat
      BY FlowAssumption DEF ProgressConstants
    <2>3. progress.generation + 1 \in 0..MaxGeneration
      BY <1>0, <2>1, <2>2 DEF Snapshots
    <2>4. /\ progress' = [phase |-> p, generation |-> progress.generation + 1, done |-> progress.done,
                         committed |-> progress.committed]
      BY <1>0, <2>1 DEF Snapshots
    <2>5. Settled(progress', closing', base')
      BY <1>0, <2>1, <2>3, <2>4 DEF Snapshots, Settled
    <2> QED
      BY <1>0, <2>1, <2>5, ProgressParts
  <1>3. CASE Showing!Commit
    <2>1. /\ closing' = Missing /\ progress' = [progress EXCEPT !.committed = base]
          /\ UNCHANGED <<active, loaded, base, durable, sum, view, outcome>>
      BY <1>3 DEF Showing!Commit
    <2>2. base \in Nat
      BY <1>0, SumTyped
    <2>3. Settled(progress', closing', base')
      BY <1>0, <2>1, <2>2 DEF Snapshots, Settled
    <2> QED
      BY <1>0, <2>1, <2>3, ProgressParts
  <1> QED
    BY <1>1, <1>2, <1>3

\* What the bar is drawn towards stays below the cap and, within a phase, above the bar.
LEMMA TargetBounded ==
  ASSUME ProgressInv, ~view.finished
  PROVE  /\ Showing!Target \in 0..(Showing!Full - Showing!Total)
         /\ progress.generation = view.generation => view.ratio <= Showing!Target
  <1>1. progress.done \in Nat /\ Parts \in Nat
    BY FlowAssumption, ProgressParts DEF Settled, Snapshots, ProgressConstants
  <1>2. Parts * progress.done \in Nat
    BY <1>1
  <1>3. Showing!Shown \in 0..(Showing!Full - Showing!Total)
    <2> DEFINE share == Parts * progress.done
    <2>1. Showing!Shown = IF share < Showing!Full - Showing!Total THEN share ELSE Showing!Full - Showing!Total
      BY DEF Showing!Shown
    <2> HIDE DEF share
    <2> QED
      BY <1>2, <2>1, BarTyped DEF share
  <1>4. view.ratio \in Nat /\ view.ratio <= Showing!Full - Showing!Total
    BY ProgressParts, BarTyped DEF Drawing
  <1> QED
    BY <1>3, <1>4, BarTyped DEF Showing!Target

\* The screen is drawn, and the transfer ends.
LEMMA ProgressDrawn ==
  ASSUME ProgressInv,
         \/ \E ratio \in 0..Showing!Full : Showing!Tick(ratio)
         \/ \E how \in {"ok", "failed"} : Showing!End(how)
         \/ Showing!Finish
  PROVE  ProgressInv' /\ Showing!NeverBackwardsStep
  <1>0. Counting(active, loaded, sum, base, durable) /\ progress \in Snapshots /\ Settled(progress, closing, base) /\ Drawing(view, outcome)
    BY ProgressParts DEF Settled
  <1>1. ASSUME NEW ratio \in 0..Showing!Full, Showing!Tick(ratio)
        PROVE  ProgressInv' /\ Showing!NeverBackwardsStep
    <2>1. /\ outcome = "running" /\ ~view.finished /\ Showing!Moved(ratio)
          /\ view' = [view EXCEPT !.ratio = ratio, !.generation = progress.generation]
          /\ UNCHANGED <<active, loaded, base, durable, sum, closing, progress, outcome>>
      BY <1>1 DEF Showing!Tick, Showing!Running
    <2>2. /\ Showing!Target \in 0..(Showing!Full - Showing!Total)
          /\ progress.generation = view.generation => view.ratio <= Showing!Target
      BY <2>1, TargetBounded
    <2>3. view.ratio \in Nat /\ view.ratio <= Showing!Full - Showing!Total /\ progress.generation \in Nat
      BY <1>0, <2>1, BarTyped, FlowAssumption DEF Drawing, Snapshots, ProgressConstants
    <2>4. ratio <= Showing!Full - Showing!Total /\ (progress.generation = view.generation => view.ratio <= ratio)
      BY <2>1, <2>2, <2>3, BarTyped DEF Showing!Moved
    <2>5. /\ view'.ratio = ratio /\ view'.generation = progress.generation /\ ~view'.finished
          /\ view' \in [ratio : 0..Showing!Full, generation : Nat, finished : BOOLEAN]
      BY <1>0, <2>1, <2>3 DEF Drawing
    <2>6. Drawing(view', outcome')
      BY <2>1, <2>4, <2>5 DEF Drawing
    <2>7. Showing!NeverBackwardsStep
      BY <2>3, <2>4, <2>5, BarTyped DEF Showing!NeverBackwardsStep
    <2> QED
      BY <1>0, <2>1, <2>6, <2>7, ProgressParts
  <1>2. ASSUME NEW how \in {"ok", "failed"}, Showing!End(how)
        PROVE  ProgressInv' /\ Showing!NeverBackwardsStep
    <2>1. outcome = "running" /\ outcome' = how /\ UNCHANGED <<active, loaded, base, durable, sum, closing, progress, view>>
      BY <1>2 DEF Showing!End, Showing!Running
    <2>2. Drawing(view', outcome')
      BY <1>0, <2>1 DEF Drawing
    <2>3. view.ratio \in Nat
      BY <1>0, BarTyped DEF Drawing
    <2> QED
      BY <1>0, <2>1, <2>2, <2>3, ProgressParts DEF Showing!NeverBackwardsStep
  <1>3. CASE Showing!Finish
    <2>1. /\ outcome # "running" /\ ~view.finished
          /\ view' = [view EXCEPT !.finished = TRUE, !.ratio = IF outcome = "ok" THEN Showing!Full ELSE @]
          /\ UNCHANGED <<active, loaded, base, durable, sum, closing, progress, outcome>>
      BY <1>3 DEF Showing!Finish, Showing!Running
    <2> DEFINE drawn == IF outcome = "ok" THEN Showing!Full ELSE view.ratio
    <2>2. view.ratio \in 0..Showing!Full /\ view.generation \in Nat /\ drawn \in 0..Showing!Full
      BY <1>0, BarTyped DEF Drawing
    <2>3. view' = [ratio |-> drawn, generation |-> view.generation, finished |-> TRUE]
      BY <1>0, <2>1 DEF Drawing
    <2>4. /\ view'.finished /\ view'.generation = view.generation
          /\ view'.ratio = IF outcome = "ok" THEN Showing!Full ELSE view.ratio
          /\ view' \in [ratio : 0..Showing!Full, generation : Nat, finished : BOOLEAN]
      BY <2>2, <2>3
    <2>5. Drawing(view', outcome')
      BY <1>0, <2>1, <2>4 DEF Drawing
    <2>6. Showing!NeverBackwardsStep
      BY <2>2, <2>4, BarTyped DEF Showing!NeverBackwardsStep
    <2> QED
      BY <1>0, <2>1, <2>5, <2>6, ProgressParts
  <1> QED
    BY <1>1, <1>2, <1>3

LEMMA ProgressInit == Showing!Init => ProgressInv
  <1> SUFFICES ASSUME Showing!Init PROVE ProgressInv
    OBVIOUS
  <1>1. Tag \in Nat /\ MaxGeneration \in Nat /\ Length \in [Portion -> Nat]
    BY FlowAssumption DEF ProgressConstants
  <1>2. /\ active = [c \in Portion |-> Missing] /\ loaded = [c \in Portion |-> 0] /\ sum = [c \in Portion |-> Missing]
        /\ base = 0 /\ durable = {} /\ outcome = "running" /\ closing = Missing
        /\ progress = [phase |-> "Sending", generation |-> 0, done |-> 0, committed |-> 0]
        /\ view = [ratio |-> 0, generation |-> 0, finished |-> FALSE]
    BY DEF Showing!Init
  <1>3. Total(Weigh(Length), {}) = 0
    BY FS_EmptySet, TotalStep
  <1>4. Counting(active, loaded, sum, base, durable)
    BY <1>1, <1>2, <1>3 DEF Counting
  <1>5. Settled(progress, closing, base)
    BY <1>1, <1>2 DEF Snapshots, Settled, Showing!Phases
  <1>6. Drawing(view, outcome)
    BY <1>2, BarTyped DEF Drawing
  <1> QED
    BY <1>4, <1>5, <1>6, ProgressParts

LEMMA ProgressStep == ProgressInv /\ [Showing!Next]_progressVars => ProgressInv' /\ [Showing!NeverBackwardsStep]_progressVars
  <1> SUFFICES ASSUME ProgressInv, [Showing!Next]_progressVars
               PROVE  ProgressInv' /\ [Showing!NeverBackwardsStep]_progressVars
    OBVIOUS
  <1>0. view.ratio \in Nat
    BY BarTyped, ProgressParts DEF Drawing
  <1>1. ASSUME NEW c \in Portion, Showing!Restart(c) \/ Showing!Report(c) \/ Showing!Acknowledged(c) \/ Showing!Advance(c)
        PROVE  ProgressInv' /\ Showing!NeverBackwardsStep
    <2>1. UNCHANGED view
      BY <1>1 DEF Showing!Restart, Showing!Report, Showing!Acknowledged, Showing!Advance
    <2>2. Showing!NeverBackwardsStep
      BY <1>0, <2>1 DEF Showing!NeverBackwardsStep
    <2> QED
      BY <1>1, <2>2, ProgressMoves, ProgressAcknowledged, ProgressStored
  <1>2. ASSUME Showing!Commit \/ \E p \in Showing!Phases : Showing!Phase(p)
        PROVE  ProgressInv' /\ Showing!NeverBackwardsStep
    <2>1. UNCHANGED view
      BY <1>2 DEF Showing!Phase, Showing!Commit
    <2>2. Showing!NeverBackwardsStep
      BY <1>0, <2>1 DEF Showing!NeverBackwardsStep
    <2> QED
      BY <1>2, <2>2, ProgressStored
  <1>3. CASE UNCHANGED progressVars
    BY <1>3, ProgressParts DEF progressVars
  <1> QED
    BY <1>1, <1>2, <1>3, ProgressDrawn DEF Showing!Next

\* The invariant is what ProgressHonest claims of sums, and more.
LEMMA ProgressImplied == ProgressInv => Showing!TypeOK /\ Showing!ProgressHonest
  <1> SUFFICES ASSUME ProgressInv PROVE Showing!TypeOK /\ Showing!ProgressHonest
    OBVIOUS
  <1>1. Tag \in Nat /\ Length \in [Portion -> Nat]
    BY FlowAssumption DEF ProgressConstants
  <1>2. base \in 0..Showing!Total /\ Showing!Snapshot(active, base) \in 0..Showing!Total
    BY MovingBounded DEF ProgressInv
  <1>3. Showing!TypeOK
    BY <1>1, <1>2 DEF ProgressInv, Showing!TypeOK
  <1>4. base = Showing!MapThenSumSet(LAMBDA c : Length[c], durable)
    BY SumsOfPortions DEF ProgressInv
  <1>5. Showing!Total > 0 /\ view.ratio = Showing!Full => view.finished /\ outcome = "ok"
    BY BarTyped DEF ProgressInv
  <1>6. Showing!Snapshot(active, base) <= Showing!Total
    BY <1>2, BarTyped
  <1>7. progress.committed + Showing!Owed = base
    BY DEF ProgressInv
  <1> QED
    BY <1>3, <1>4, <1>5, <1>6, <1>7 DEF Showing!ProgressHonest

-----------------------------------------------------------------------------
(* How much is in flight.                                                  *)

\* The limits of a transfer, and what was learned about them.
Learned(cur, r, p, cool, succ) ==
  /\ cur \in Nat /\ 1 <= cur /\ cur <= maximum
  /\ r \in Nat /\ p \in Nat \cup {Missing} /\ cool \in Nat /\ succ \in Nat
  /\ congestion # Missing => cool >= congestion + CongestionCooldown

\* A sample continues where the last one of its request stopped, and only a request
\* that ended without a sample, or was forgotten, has none.
Sampled(k, b, req, over) ==
  /\ b[k] \in 0..BodyBytes \cup {Missing} /\ req[k] \in 0..BodyBytes \cup {Missing}
  /\ b[k] = Missing => req[k] = Missing /\ k \notin over
  /\ req[k] # Missing => req[k] = b[k]
  /\ req[k] = Missing /\ b[k] # Missing /\ k \notin over => b[k] = 0

\* The keys that are remembered.
Remembers(seq, k) == \E i \in 1..Len(seq) : seq[i] = k

\* A window that started in the past counts what was read since.
Weighed(win, bytes) ==
  /\ win \in Windows \cup {Missing} /\ bytes \in Nat
  /\ win # Missing => win.start <= moment /\ win.bytes <= bytes

\* The limit fits the memory, the cooldown of congestion is kept, and every sample adds
\* one byte that was read.
PaceInv ==
  /\ maximum \in 1..MaxConcurrency /\ budget \in Nat
  /\ maximum > 1 => Fixed + maximum * Slot <= budget
  /\ moment \in 0..MaxNow /\ congestion \in Nat \cup {Missing}
  /\ Learned(allowed, rate, probe, cooldown, successes)
  /\ DOMAIN bodies = Request /\ DOMAIN requests = Request /\ bodies = [k \in Request |-> bodies[k]]
  /\ requests = [k \in Request |-> requests[k]]
  /\ ended \in SUBSET Request /\ retired \in Seq(Request)
  /\ \A k \in Request : Sampled(k, bodies, requests, ended)
  /\ \A k \in Request : Remembers(retired, k) => k \in ended /\ requests[k] = Missing
  /\ Weighed(window, moved)

\* What fits fits when fewer slots are used.
LEMMA SlotsFit ==
  ASSUME NEW n \in Nat, NEW m \in Nat, m <= n
  PROVE  Fixed + m * Slot <= Fixed + n * Slot /\ m * Slot \in Nat
  <1>1. Fixed \in Nat /\ Slot \in Nat
    BY FlowAssumption DEF PaceConstants
  <1>2. PICK d \in Nat : n = m + d
    <2>1. n - m \in Nat /\ n = m + (n - m)
      OBVIOUS
    <2> QED
      BY <2>1
  <1>3. n * Slot = m * Slot + d * Slot /\ d * Slot \in Nat /\ m * Slot \in Nat
    BY <1>1, <1>2
  <1> QED
    BY <1>1, <1>3

\* The slots that memory holds take no more than memory.
LEMMA QuotientFits ==
  ASSUME NEW a \in Nat, NEW b \in Nat \ {0}
  PROVE  a \div b \in Nat /\ (a \div b) * b <= a
  OBVIOUS

LEMMA PaceInit == Pacing!Init => PaceInv
  <1> SUFFICES ASSUME Pacing!Init PROVE PaceInv
    OBVIOUS
  <1>1. /\ Configured \subseteq Nat /\ Memory \subseteq Nat /\ Fixed \in Nat /\ Slot \in Nat \ {0} /\ BodyBytes \in Nat
        /\ MaxConcurrency \in Nat \ {0} /\ MaxNow \in Nat /\ CongestionCooldown \in Nat
    BY FlowAssumption DEF PaceConstants
  <1>2. /\ budget \in Memory /\ moment = 0 /\ bodies = [k \in Request |-> Missing] /\ ended = {} /\ allowed = 1
        /\ requests = [k \in Request |-> Missing] /\ retired = << >> /\ window = Missing /\ moved = 0
        /\ rate = 0 /\ probe = Missing /\ cooldown = 0 /\ successes = 0 /\ congestion = Missing
    BY DEF Pacing!Init
  <1>3. PICK configured \in Configured : maximum = Pacing!ConcurrencyLimit(configured, budget)
    BY DEF Pacing!Init
  <1> DEFINE free == IF 0 > budget - Fixed THEN 0 ELSE budget - Fixed
             slots == free \div Slot
  <1>4. budget \in Nat /\ configured \in Nat
    BY <1>1, <1>2, <1>3
  <1>5. free \in Nat /\ (free > 0 => Fixed + free <= budget)
    BY <1>1, <1>4
  <1>6. slots \in Nat /\ slots * Slot <= free
    BY <1>1, <1>5, QuotientFits
  <1>7. maximum = LET n == IF configured < MaxConcurrency THEN configured ELSE MaxConcurrency
                      m == IF n < slots THEN n ELSE slots
                  IN IF 1 > m THEN 1 ELSE m
    BY <1>3 DEF Pacing!ConcurrencyLimit, Pacing!MaxOf, Pacing!MinOf
  <1> HIDE DEF slots, free
  <1>8. maximum \in 1..MaxConcurrency /\ (maximum > 1 => maximum <= slots)
    BY <1>1, <1>4, <1>6, <1>7
  <1>9. ASSUME maximum > 1 PROVE Fixed + maximum * Slot <= budget
    <2>1. maximum \in Nat /\ maximum <= slots
      BY <1>1, <1>8, <1>9
    <2>2. Fixed + maximum * Slot <= Fixed + slots * Slot /\ maximum * Slot \in Nat
      BY <1>6, <2>1, SlotsFit
    <2>3. slots * Slot \in Nat /\ Slot \in Nat
      BY <1>1, <1>6
    <2>4. Slot <= maximum * Slot
      BY <1>1, <1>9, <2>1
    <2>5. free > 0
      <3> DEFINE x == slots * Slot
                 y == maximum * Slot
      <3>1. Fixed + y <= Fixed + x /\ y \in Nat /\ x \in Nat /\ x <= free /\ Slot <= y /\ Slot > 0
        BY <1>1, <1>6, <2>2, <2>3, <2>4
      <3> HIDE DEF x, y
      <3> QED
        BY <1>1, <1>5, <3>1
    <2> DEFINE x == slots * Slot
               y == maximum * Slot
    <2>6. Fixed + y <= Fixed + x /\ y \in Nat /\ x \in Nat /\ x <= free
      BY <1>6, <2>2, <2>3
    <2>7. Fixed + free <= budget
      BY <1>5, <2>5
    <2> HIDE DEF x, y
    <2>8. Fixed + y <= budget
      BY <1>1, <1>4, <1>5, <2>6, <2>7
    <2> QED
      BY <2>8 DEF y
  <1>10. Learned(allowed, rate, probe, cooldown, successes)
    BY <1>1, <1>2, <1>8 DEF Learned
  <1>11. \A k \in Request : Sampled(k, bodies, requests, ended) /\ ~Remembers(retired, k)
    BY <1>2 DEF Sampled, Remembers
  <1>12. Weighed(window, moved)
    BY <1>2 DEF Weighed
  <1>13. retired \in Seq(Request) /\ moment \in 0..MaxNow /\ ended \in SUBSET Request /\ congestion \in Nat \cup {Missing}
    BY <1>1, <1>2
  <1> QED
    BY <1>2, <1>4, <1>8, <1>9, <1>10, <1>11, <1>12, <1>13 DEF PaceInv

LEMMA PaceImplied == PaceInv => Pacing!TypeOK /\ Pacing!SlotsFitMemory /\ Pacing!WindowHonest
  <1> SUFFICES ASSUME PaceInv PROVE Pacing!TypeOK /\ Pacing!SlotsFitMemory /\ Pacing!WindowHonest
    OBVIOUS
  <1>1. MaxConcurrency \in Nat /\ Fixed \in Nat /\ Slot \in Nat
    BY FlowAssumption DEF PaceConstants
  <1>2. allowed \in Nat /\ maximum \in Nat /\ 1 <= allowed /\ allowed <= maximum /\ budget \in Nat
    BY <1>1 DEF PaceInv, Learned
  <1>3. Pacing!TypeOK
    BY <1>2 DEF PaceInv, Learned, Sampled, Pacing!TypeOK
  <1>4. Pacing!SlotsFitMemory
    <2> DEFINE x == maximum * Slot
               y == allowed * Slot
    <2>1. Fixed + y <= Fixed + x /\ y \in Nat /\ x \in Nat
      BY <1>1, <1>2, SlotsFit
    <2>2. maximum > 1 => Fixed + x <= budget
      BY DEF PaceInv
    <2> HIDE DEF x, y
    <2>3. allowed > 1 => Fixed + y <= budget
      BY <1>1, <1>2, <2>1, <2>2
    <2> QED
      BY <2>3 DEF y, Pacing!SlotsFitMemory
  <1>5. Pacing!WindowHonest
    BY DEF PaceInv, Weighed, Pacing!WindowHonest
  <1> QED
    BY <1>3, <1>4, <1>5

\* The parts of the invariant, of this state and of the next.
Limited(most, mem, t, cong) ==
  /\ most \in 1..MaxConcurrency /\ mem \in Nat
  /\ most > 1 => Fixed + most * Slot <= mem
  /\ t \in 0..MaxNow /\ cong \in Nat \cup {Missing}

\* What was counted of requests.
Summed(b, req, over, seq) ==
  /\ DOMAIN b = Request /\ DOMAIN req = Request /\ b = [k \in Request |-> b[k]] /\ req = [k \in Request |-> req[k]]
  /\ over \in SUBSET Request /\ seq \in Seq(Request)
  /\ \A k \in Request : Sampled(k, b, req, over)
  /\ \A k \in Request : Remembers(seq, k) => k \in over /\ req[k] = Missing

LEMMA PaceParts ==
  /\ PaceInv <=> /\ Limited(maximum, budget, moment, congestion) /\ Summed(bodies, requests, ended, retired)
                 /\ Learned(allowed, rate, probe, cooldown, successes) /\ Weighed(window, moved)
  /\ PaceInv' <=> /\ Limited(maximum', budget', moment', congestion') /\ Summed(bodies', requests', ended', retired')
                  /\ Learned(allowed, rate, probe, cooldown, successes)' /\ Weighed(window, moved)'
  BY DEF PaceInv, Limited, Summed

\* A rate stays a number.
LEMMA RateTyped ==
  ASSUME rate \in Nat, NEW new \in Nat
  PROVE  Pacing!Recorded(new) \in Nat
  BY DEF Pacing!Recorded

\* What a sample teaches: a slot is taken back or kept.
LEMMA AggregateLearned ==
  ASSUME PaceInv, NEW new \in Nat, Pacing!LearnAggregate(new), UNCHANGED <<maximum, congestion>>
  PROVE  Learned(allowed, rate, probe, cooldown, successes)' /\ Pacing!CongestionRespectedStep
  <1>1. /\ Learned(allowed, rate, probe, cooldown, successes) /\ Limited(maximum, budget, moment, congestion)
    BY PaceParts
  <1>2. CongestionCooldown \in Nat /\ MaxNow \in Nat /\ MaxConcurrency \in Nat /\ Missing \notin Nat
    BY FlowAssumption DEF PaceConstants
  <1>3. rate' \in Nat
    BY <1>1, RateTyped DEF Learned, Pacing!LearnAggregate
  <1>4. moment \in Nat /\ maximum \in Nat
    BY <1>1, <1>2 DEF Limited
  <1>5. CASE Pacing!Learns(new)
    <2>1. moment >= cooldown /\ probe # Missing
      BY <1>5 DEF Pacing!Learns
    <2>2. PICK gained \in BOOLEAN :
            /\ probe' = Missing /\ successes' = 0
            /\ allowed' = IF gained THEN allowed ELSE Pacing!MaxOf(1, allowed - 1)
            /\ cooldown' = moment + (IF gained THEN 1 ELSE CongestionCooldown)
      BY <1>5 DEF Pacing!LearnAggregate
    <2>3. allowed' \in Nat /\ 1 <= allowed' /\ allowed' <= allowed
      BY <1>1, <2>2 DEF Learned, Pacing!MaxOf
    <2>4. cooldown' \in Nat /\ cooldown' >= moment
      BY <1>2, <1>4, <2>2
    <2> QED
      BY <1>1, <1>2, <1>3, <1>4, <2>1, <2>2, <2>3, <2>4 DEF Learned, Limited, Pacing!CongestionRespectedStep
  <1>6. CASE ~Pacing!Learns(new)
    <2>1. UNCHANGED <<probe, successes, allowed, cooldown>>
      BY <1>6 DEF Pacing!LearnAggregate
    <2> QED
      BY <1>1, <1>2, <1>3, <2>1 DEF Learned, Limited, Pacing!CongestionRespectedStep
  <1> QED
    BY <1>5, <1>6

\* What a success teaches: a slot is tried when the cooldown is over.
LEMMA SuccessLearned ==
  ASSUME PaceInv, NEW elapsed \in 1..moment, Pacing!Observe(BodyBytes, elapsed), UNCHANGED <<maximum, congestion>>
  PROVE  Learned(allowed, rate, probe, cooldown, successes)' /\ Pacing!CongestionRespectedStep
  <1>1. /\ Learned(allowed, rate, probe, cooldown, successes) /\ Limited(maximum, budget, moment, congestion)
    BY PaceParts
  <1>2. CongestionCooldown \in Nat /\ MaxNow \in Nat /\ MaxConcurrency \in Nat /\ Missing \notin Nat /\ BodyBytes \in Nat
    BY FlowAssumption DEF PaceConstants
  <1>3. moment \in Nat /\ maximum \in Nat /\ elapsed \in Nat \ {0}
    BY <1>1, <1>2 DEF Limited
  <1> DEFINE seen == Pacing!Recorded(BodyBytes \div elapsed)
             probes == /\ moment >= cooldown /\ successes + 1 >= 2 * allowed /\ seen >= 1 /\ allowed < maximum
  <1>4. seen \in Nat
    <2>1. BodyBytes \div elapsed \in Nat
      BY <1>2, <1>3, QuotientFits
    <2> QED
      BY <1>1, <2>1, RateTyped DEF Learned
  <1>5. /\ rate' = seen
        /\ probe' = IF probes THEN seen ELSE probe
        /\ cooldown' = IF probes THEN moment + 1 ELSE cooldown
        /\ allowed' = IF probes THEN allowed + 1 ELSE allowed
        /\ successes' = IF probes THEN 0 ELSE successes + 1
    BY DEF Pacing!Observe
  <1> HIDE DEF seen
  <1>6. CASE probes
    <2>1. moment >= cooldown /\ allowed < maximum
      BY <1>6
    <2>2. /\ rate' = seen /\ probe' = seen /\ cooldown' = moment + 1 /\ allowed' = allowed + 1 /\ successes' = 0
      BY <1>5, <1>6
    <2> HIDE DEF probes
    <2> QED
      BY <1>1, <1>2, <1>3, <1>4, <2>1, <2>2 DEF Learned, Limited, Pacing!CongestionRespectedStep
  <1>7. CASE ~probes
    <2>1. /\ rate' = seen /\ probe' = probe /\ cooldown' = cooldown /\ allowed' = allowed /\ successes' = successes + 1
      BY <1>5, <1>7
    <2> HIDE DEF probes
    <2> QED
      BY <1>1, <1>2, <1>3, <1>4, <2>1 DEF Learned, Limited, Pacing!CongestionRespectedStep
  <1> HIDE DEF probes
  <1> QED
    BY <1>6, <1>7

\* Nothing is learned.
LEMMA NothingLearned ==
  ASSUME PaceInv, UNCHANGED <<maximum, congestion>>, UNCHANGED Pacing!learning
  PROVE  Learned(allowed, rate, probe, cooldown, successes)' /\ Pacing!CongestionRespectedStep
  <1>1. /\ Learned(allowed, rate, probe, cooldown, successes)
    BY PaceParts
  <1>2. UNCHANGED <<allowed, rate, probe, cooldown, successes>>
    BY DEF Pacing!learning
  <1> QED
    BY <1>1, <1>2 DEF Learned, Pacing!CongestionRespectedStep

\* A request ends: its sample is forgotten, and its key is remembered instead.
LEMMA RequestEnds ==
  ASSUME PaceInv, NEW k \in Request, k \in Pacing!InFlight, ended' = ended \cup {k}, Pacing!Forgets(k),
         UNCHANGED <<bodies, moved, moment>>
  PROVE  Summed(bodies', requests', ended', retired') /\ Weighed(window, moved)'
  <1>1. Summed(bodies, requests, ended, retired) /\ Weighed(window, moved)
    BY PaceParts
  <1>2. bodies[k] # Missing /\ k \notin ended
    BY DEF Pacing!InFlight
  <1>3. /\ requests' = [requests EXCEPT ![k] = Missing]
        /\ window' = window \/ window' = Missing
        /\ retired' = IF requests[k] = Missing THEN retired
                      ELSE LET all == Append(retired, k) IN IF Len(all) > Retired THEN Tail(all) ELSE all
    BY DEF Pacing!Forgets
  <1>4. Weighed(window, moved)'
    BY <1>1, <1>3 DEF Weighed
  <1>5. retired \in Seq(Request) /\ Retired \in Nat
    BY <1>1, FlowAssumption DEF Summed, PaceConstants
  <1>6. retired' \in Seq(Request) /\ \A j \in Request : Remembers(retired', j) => j = k \/ Remembers(retired, j)
    <2> DEFINE all == Append(retired, k)
    <2>1. all \in Seq(Request) /\ Len(all) = Len(retired) + 1 /\ \A i \in 1..Len(all) : i <= Len(retired) \/ i = Len(all)
      BY <1>5
    <2>2. \A i \in 1..Len(all) : all[i] = k \/ (i \in 1..Len(retired) /\ all[i] = retired[i])
      BY <1>5
    <2>3. CASE retired' = retired
      BY <1>5, <2>3 DEF Remembers
    <2>4. CASE retired' = all
      <3> HIDE DEF all
      <3> QED
        BY <2>1, <2>2, <2>4 DEF Remembers
    <2>5. CASE retired' = Tail(all)
      <3>1. /\ Tail(all) \in Seq(Request) /\ Len(Tail(all)) = Len(all) - 1
            /\ \A i \in 1..Len(Tail(all)) : Tail(all)[i] = all[i + 1] /\ i + 1 \in 1..Len(all)
        <4>1. all # << >> /\ Len(all) \in Nat
          BY <1>5, <2>1
        <4> HIDE DEF all
        <4> QED
          BY <2>1, <4>1
      <3> HIDE DEF all
      <3> QED
        BY <2>1, <2>2, <2>5, <3>1 DEF Remembers
    <2> QED
      BY <1>3, <2>3, <2>4, <2>5
  <1>7. /\ \A j \in Request : j # k => requests'[j] = requests[j]
        /\ requests'[k] = Missing /\ DOMAIN requests' = Request /\ requests' = [j \in Request |-> requests'[j]]
    BY <1>1, <1>3 DEF Summed
  <1>8. \A j \in Request : Sampled(j, bodies', requests', ended')
    BY <1>1, <1>2, <1>7 DEF Summed, Sampled
  <1>9. \A j \in Request : Remembers(retired', j) => j \in ended' /\ requests'[j] = Missing
    BY <1>1, <1>6, <1>7 DEF Summed
  <1>10. ended' \in SUBSET Request /\ DOMAIN bodies' = Request /\ bodies' = [j \in Request |-> bodies'[j]]
    BY <1>1 DEF Summed
  <1> QED
    BY <1>4, <1>6, <1>7, <1>8, <1>9, <1>10 DEF Summed

\* A connection reads one byte more of a body.
LEMMA PaceReads ==
  ASSUME PaceInv, NEW k \in Request, Pacing!Read(k)
  PROVE  PaceInv' /\ Pacing!CongestionRespectedStep
  <1>0. /\ Summed(bodies, requests, ended, retired) /\ Weighed(window, moved)
        /\ Limited(maximum, budget, moment, congestion)
    BY PaceParts
  <1>1. /\ bodies[k] # Missing /\ bodies[k] < BodyBytes /\ Pacing!Connected(k)
        /\ bodies' = [bodies EXCEPT ![k] = @ + 1]
        /\ UNCHANGED <<maximum, budget, moment, ended, retired, congestion>>
    BY DEF Pacing!Read
  <1>2. BodyBytes \in Nat /\ Missing \notin Nat /\ Missing \notin Windows /\ MaxNow \in Nat
    BY FlowAssumption DEF PaceConstants
  <1>3. /\ bodies[k] \in 0..BodyBytes /\ requests[k] \in 0..BodyBytes \cup {Missing}
        /\ requests[k] # Missing => requests[k] = bodies[k]
        /\ requests[k] = Missing /\ k \notin ended => bodies[k] = 0
    BY <1>0, <1>1 DEF Summed, Sampled
  <1>4. /\ bodies'[k] = bodies[k] + 1 /\ bodies'[k] \in 0..BodyBytes /\ bodies'[k] # Missing
        /\ \A j \in Request : j # k => bodies'[j] = bodies[j]
        /\ DOMAIN bodies' = Request /\ bodies' = [j \in Request |-> bodies'[j]]
    <2>1. /\ bodies'[k] = bodies[k] + 1 /\ \A j \in Request : j # k => bodies'[j] = bodies[j]
          /\ DOMAIN bodies' = Request /\ bodies' = [j \in Request |-> bodies'[j]]
      BY <1>0, <1>1 DEF Summed
    <2> QED
      BY <1>1, <1>2, <1>3, <2>1
  <1>5. Limited(maximum', budget', moment', congestion') /\ moment \in Nat
    BY <1>0, <1>1, <1>2 DEF Limited
  <1>6. CASE Pacing!Ignores(k)
    <2>1. moved' = moved + 1 /\ UNCHANGED <<requests, window>> /\ UNCHANGED Pacing!learning
      BY <1>6 DEF Pacing!Read
    <2>2. Remembers(retired, k)
      BY <1>6 DEF Pacing!Ignores, Remembers
    <2>3. k \in ended /\ requests[k] = Missing
      BY <1>0, <2>2 DEF Summed
    <2>4. \A j \in Request : Sampled(j, bodies', requests', ended')
      BY <1>0, <1>1, <1>4, <2>1, <2>3 DEF Summed, Sampled
    <2>5. Summed(bodies', requests', ended', retired')
      BY <1>0, <1>1, <1>4, <2>1, <2>4 DEF Summed
    <2>6. Weighed(window, moved)'
      BY <1>0, <1>1, <1>2, <2>1 DEF Weighed, Windows
    <2> QED
      BY <1>1, <1>5, <2>1, <2>5, <2>6, NothingLearned, PaceParts
  <1>7. CASE ~Pacing!Ignores(k)
    <2> DEFINE previous == IF requests[k] = Missing THEN 0 ELSE requests[k]
               open == IF window = Missing THEN [start |-> moment, bytes |-> 0, events |-> 0] ELSE window
               next == [open EXCEPT !.bytes = @ + bodies'[k] - previous, !.events = @ + 1]
    <2>1. /\ requests' = [requests EXCEPT ![k] = bodies'[k]]
          /\ IF moment - open.start >= 1 /\ next.events >= MinEvents
             THEN /\ Pacing!LearnAggregate(next.bytes \div (moment - open.start))
                  /\ window' = [start |-> moment, bytes |-> 0, events |-> 0] /\ moved' = 0
             ELSE /\ window' = next /\ moved' = (IF window = Missing THEN 0 ELSE moved) + 1
                  /\ UNCHANGED Pacing!learning
      BY <1>7 DEF Pacing!Read
    <2>2. bodies[k] = previous
      <3>1. ~Remembers(retired, k)
        BY <1>7 DEF Pacing!Ignores, Remembers
      <3>2. k \in ended /\ requests[k] = Missing => ~(bodies[k] > 0)
        BY <1>1, <3>1 DEF Pacing!Connected, Remembers
      <3> QED
        BY <1>2, <1>3, <3>2
    <2>3. /\ open \in Windows /\ open.start <= moment /\ moved \in Nat
          /\ open.bytes <= (IF window = Missing THEN 0 ELSE moved)
      BY <1>0, <1>5 DEF Weighed, Windows
    <2>4. previous \in Nat /\ bodies'[k] = previous + 1
      BY <1>3, <1>4, <2>2
    <2> HIDE DEF open, previous
    <2>5. /\ open.bytes + bodies'[k] - previous = open.bytes + 1
          /\ open.bytes + 1 \in Nat /\ open.events + 1 \in Nat
      BY <2>3, <2>4 DEF Windows
    <2>6. next \in Windows /\ next.start = open.start /\ next.bytes = open.bytes + 1
      <3>1. next = [open EXCEPT !.bytes = open.bytes + 1, !.events = open.events + 1]
        BY <2>5, Zenon
      <3> HIDE DEF next
      <3> QED
        BY <2>3, <2>5, <3>1 DEF Windows
    <2> HIDE DEF next
    <2>7. /\ \A j \in Request : j # k => requests'[j] = requests[j]
          /\ requests'[k] = bodies'[k] /\ DOMAIN requests' = Request /\ requests' = [j \in Request |-> requests'[j]]
      BY <1>0, <2>1 DEF Summed
    <2>8. \A j \in Request : Sampled(j, bodies', requests', ended')
      BY <1>0, <1>1, <1>2, <1>4, <2>7 DEF Summed, Sampled
    <2>9. ~Remembers(retired, k)
      BY <1>7 DEF Pacing!Ignores, Remembers
    <2>10. Summed(bodies', requests', ended', retired')
      BY <1>0, <1>1, <1>4, <2>7, <2>8, <2>9 DEF Summed
    <2>11. CASE moment - open.start >= 1 /\ next.events >= MinEvents
      <3>1. /\ Pacing!LearnAggregate(next.bytes \div (moment - open.start))
            /\ window' = [start |-> moment, bytes |-> 0, events |-> 0] /\ moved' = 0
        BY <2>1, <2>11
      <3>2. next.bytes \in Nat /\ moment - open.start \in Nat \ {0}
        BY <1>5, <2>3, <2>6, <2>11 DEF Windows
      <3>3. next.bytes \div (moment - open.start) \in Nat
        BY <3>2, QuotientFits
      <3>4. Weighed(window, moved)'
        BY <1>1, <1>5, <3>1 DEF Weighed, Windows
      <3> QED
        BY <1>1, <1>5, <2>10, <3>1, <3>3, <3>4, AggregateLearned, PaceParts
    <2>12. CASE ~(moment - open.start >= 1 /\ next.events >= MinEvents)
      <3>1. /\ window' = next /\ moved' = (IF window = Missing THEN 0 ELSE moved) + 1
            /\ UNCHANGED Pacing!learning
        BY <2>1, <2>12
      <3>2. Weighed(window, moved)'
        BY <1>1, <1>5, <2>3, <2>6, <3>1 DEF Weighed, Windows
      <3> QED
        BY <1>1, <1>5, <2>10, <3>1, <3>2, NothingLearned, PaceParts
    <2> QED
      BY <2>11, <2>12
  <1> QED
    BY <1>6, <1>7

\* A request starts, or the clock moves.
LEMMA PaceStarts ==
  ASSUME PaceInv, (\E k \in Request : Pacing!Start(k)) \/ Pacing!Tick
  PROVE  PaceInv' /\ Pacing!CongestionRespectedStep
  <1>0. /\ Summed(bodies, requests, ended, retired) /\ Weighed(window, moved)
        /\ Limited(maximum, budget, moment, congestion)
    BY PaceParts
  <1>1. BodyBytes \in Nat /\ Missing \notin Nat /\ MaxNow \in Nat
    BY FlowAssumption DEF PaceConstants
  <1>2. ASSUME NEW k \in Request, Pacing!Start(k)
        PROVE  PaceInv' /\ Pacing!CongestionRespectedStep
    <2>1. /\ bodies[k] = Missing /\ bodies' = [bodies EXCEPT ![k] = 0]
          /\ UNCHANGED <<maximum, budget, moment, ended, requests, retired, window, moved, congestion>>
          /\ UNCHANGED Pacing!learning
      BY <1>2 DEF Pacing!Start
    <2>2. /\ bodies'[k] = 0 /\ \A j \in Request : j # k => bodies'[j] = bodies[j]
          /\ DOMAIN bodies' = Request /\ bodies' = [j \in Request |-> bodies'[j]]
      BY <1>0, <2>1 DEF Summed
    <2>3. requests[k] = Missing /\ k \notin ended
      BY <1>0, <2>1 DEF Summed, Sampled
    <2>4. \A j \in Request : Sampled(j, bodies', requests', ended')
      BY <1>0, <1>1, <2>1, <2>2, <2>3 DEF Summed, Sampled
    <2>5. Summed(bodies', requests', ended', retired')
      BY <1>0, <2>1, <2>2, <2>4 DEF Summed
    <2>6. Weighed(window, moved)' /\ Limited(maximum', budget', moment', congestion')
      BY <1>0, <2>1 DEF Weighed, Limited
    <2> QED
      BY <2>1, <2>5, <2>6, NothingLearned, PaceParts
  <1>3. CASE Pacing!Tick
    <2>1. /\ moment < MaxNow /\ moment' = moment + 1
          /\ UNCHANGED <<maximum, budget, bodies, ended, requests, retired, window, moved, congestion>>
          /\ UNCHANGED Pacing!learning
      BY <1>3 DEF Pacing!Tick
    <2>2. Weighed(window, moved)' /\ Limited(maximum', budget', moment', congestion')
      BY <1>0, <1>1, <2>1 DEF Weighed, Limited, Windows
    <2> QED
      BY <1>0, <2>1, <2>2, NothingLearned, PaceParts
  <1> QED
    BY <1>2, <1>3

\* A request returns.
LEMMA PaceEnds ==
  ASSUME PaceInv, NEW k \in Request, Pacing!Succeed(k) \/ Pacing!GiveUp(k) \/ Pacing!Congested(k)
  PROVE  PaceInv' /\ Pacing!CongestionRespectedStep
  <1>0. /\ Limited(maximum, budget, moment, congestion) /\ Learned(allowed, rate, probe, cooldown, successes)
    BY PaceParts
  <1>1. /\ k \in Pacing!InFlight /\ ended' = ended \cup {k} /\ Pacing!Forgets(k)
        /\ UNCHANGED <<maximum, budget, moment, bodies, moved>>
    BY DEF Pacing!Succeed, Pacing!GiveUp, Pacing!Congested
  <1>2. Summed(bodies', requests', ended', retired') /\ Weighed(window, moved)'
    BY <1>1, RequestEnds
  <1>3. CASE Pacing!Succeed(k) \/ Pacing!GiveUp(k)
    <2>1. /\ congestion' = congestion
          /\ (\E elapsed \in 1..moment : Pacing!Observe(BodyBytes, elapsed)) \/ UNCHANGED Pacing!learning
      BY <1>3 DEF Pacing!Succeed, Pacing!GiveUp
    <2>2. Learned(allowed, rate, probe, cooldown, successes)' /\ Pacing!CongestionRespectedStep
      BY <1>1, <2>1, SuccessLearned, NothingLearned
    <2>3. Limited(maximum', budget', moment', congestion')
      BY <1>0, <1>1, <2>1 DEF Limited
    <2> QED
      BY <1>2, <2>2, <2>3, PaceParts
  <1>4. CASE Pacing!Congested(k)
    <2>1. /\ probe' = Missing /\ successes' = 0 /\ cooldown' = moment + CongestionCooldown
          /\ allowed' = Pacing!MaxOf(1, allowed \div 2) /\ congestion' = moment /\ rate' = rate
      BY <1>4 DEF Pacing!Congested
    <2>2. CongestionCooldown \in Nat /\ MaxNow \in Nat /\ moment \in Nat /\ allowed \in Nat /\ 1 <= allowed /\ allowed <= maximum
      BY <1>0, FlowAssumption DEF PaceConstants, Limited, Learned
    <2>3. allowed' \in Nat /\ 1 <= allowed' /\ allowed' <= allowed
      <3>1. allowed \div 2 \in Nat /\ allowed \div 2 <= allowed
        BY <2>2
      <3> QED
        BY <2>1, <2>2, <3>1 DEF Pacing!MaxOf
    <2>4. Learned(allowed, rate, probe, cooldown, successes)' /\ Pacing!CongestionRespectedStep
      <3>1. maximum \in Nat /\ MaxConcurrency \in Nat
        BY <1>0, FlowAssumption DEF Limited, PaceConstants
      <3> QED
        BY <1>0, <1>1, <2>1, <2>2, <2>3, <3>1 DEF Learned, Pacing!CongestionRespectedStep
    <2>5. Limited(maximum', budget', moment', congestion')
      BY <1>0, <1>1, <2>1, <2>2 DEF Limited
    <2> QED
      BY <1>2, <2>4, <2>5, PaceParts
  <1> QED
    BY <1>3, <1>4

LEMMA PaceStep == PaceInv /\ [Pacing!Next]_paceVars => PaceInv' /\ [Pacing!CongestionRespectedStep]_paceVars
  <1> SUFFICES ASSUME PaceInv, [Pacing!Next]_paceVars
               PROVE  PaceInv' /\ [Pacing!CongestionRespectedStep]_paceVars
    OBVIOUS
  <1>1. CASE UNCHANGED paceVars
    <2>1. UNCHANGED Pacing!learning /\ UNCHANGED <<maximum, congestion>>
      BY <1>1 DEF paceVars, Pacing!learning
    <2> QED
      BY <1>1, <2>1, NothingLearned, PaceParts DEF paceVars, Weighed
  <1> QED
    BY <1>1, PaceReads, PaceStarts, PaceEnds DEF Pacing!Next

\* SendProgress, TransferView, AdaptiveConcurrency and TransferMemoryBudget: whatever the
\* number of portions and requests, their sizes, the memory and the limits, progress is
\* what happened, slots fit the memory, the rate is not inflated and congestion is
\* respected.
THEOREM PaceStaysHonest == Showing!Spec /\ Pacing!Spec => PaceHonest
  <1>1. Showing!Init => ProgressInv
    BY ProgressInit
  <1>2. ProgressInv /\ [Showing!Next]_progressVars => ProgressInv' /\ [Showing!NeverBackwardsStep]_progressVars
    BY ProgressStep
  <1>3. ProgressInv => Showing!TypeOK /\ Showing!ProgressHonest
    BY ProgressImplied
  <1>4. Pacing!Init => PaceInv
    BY PaceInit
  <1>5. PaceInv /\ [Pacing!Next]_paceVars => PaceInv' /\ [Pacing!CongestionRespectedStep]_paceVars
    BY PaceStep
  <1>6. PaceInv => Pacing!TypeOK /\ Pacing!SlotsFitMemory /\ Pacing!WindowHonest
    BY PaceImplied
  <1>7. [Showing!Next]_(Showing!vars) => [Showing!Next]_progressVars
    BY DEF Showing!vars, progressVars
  <1>8. [Pacing!Next]_(Pacing!vars) => [Pacing!Next]_paceVars
    BY DEF Pacing!vars, paceVars
  <1> QED
    BY <1>1, <1>2, <1>3, <1>4, <1>5, <1>6, <1>7, <1>8, PTL DEF Showing!Spec, Pacing!Spec, PaceHonest
=============================================================================
