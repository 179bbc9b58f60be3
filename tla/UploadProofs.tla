---------------------------- MODULE UploadProofs ----------------------------
(***************************************************************************)
(* An upload survives every crash, for any number of chunks, workers and   *)
(* retries: one nonce seals one text, and nothing the server was told is   *)
(* forgotten.                                                              *)
(***************************************************************************)
EXTENDS UploadJob, FiniteSetTheorems, WellFoundedInduction, TLAPS

\* The process that holds the store, and the transfer at the server.
Runs == [pc : Phases \cup {"idle"}, job : Record \cup {None}, active : [Position -> Jobs],
         tries : [Position -> 0..MaxRetries], producer : Position \cup {None}, ready : Plain \cup {None}]

Servers == [status : {"none", "pending", "available", "gone"}, chunk : [Position -> Plain \cup {None}],
            manifest : Envelope \cup {None}, descriptor : Envelope \cup {None}]

\* The files and the messages.
Filed ==
  /\ source \in Sources /\ disk \in Record \cup {None} /\ artifact \in [Position -> Plain \cup {None}]
  /\ sidecar \subseteq Position /\ server \in Servers /\ wire \subseteq Position \X Plain
  /\ os \in [Position -> {"none", "issued", "acked"}] /\ sealed \in [Position -> SUBSET Plain]

\* Everything that was ever sealed, stored or sent is of one version of the file.
OneText(c) ==
  /\ disk # None => Content(disk.print) = c /\ \A p \in Position : disk.chunks[p] \in {c, None}
  /\ run.ready \in {c, None}
  /\ \A p \in Position : artifact[p] \in {c, None} /\ server.chunk[p] \in {c, None} /\ sealed[p] \subseteq {c}
  /\ wire \subseteq Position \X {c}

\* A copy of the record differs from it in what only the process decides.
Agree(job, d) ==
  /\ job \in Record /\ d \in Record /\ d.state # "complete"
  /\ job.state = d.state /\ job.print = d.print /\ job.turbo = d.turbo /\ job.policy = d.policy
  /\ job.descriptor = d.descriptor /\ job.published = d.published
  /\ job.chunks = d.chunks /\ job.complete = d.complete /\ job.manifest = d.manifest

\* A process r that works on the record d of a transfer s.
Sound(r, d, s) ==
  /\ r \in Runs
  /\ r.pc = "idle" => r = NoRun
  /\ r.pc # "idle" => Agree(r.job, d)
  /\ r.pc \notin {"spool", "loop"} => r.producer = None
  /\ r.producer = None => r.ready = None
  /\ \A p \in Position : r.active[p] # "no" => r.pc = "loop" /\ d.chunks[p] # None
  /\ \A p \in Position : r.active[p] \in {"acked", "saved"} => s.chunk[p] # None
  /\ \A p \in Position : r.active[p] = "saved" => p \in d.complete
  /\ r.pc = "reserve" => d.state = "reserving" /\ s.status = "none"
  /\ r.pc = "finalize" => d.manifest # None
  /\ r.pc = "receipt" => s.status \in {"available", "gone"} /\ s.manifest # None

\* A record d is backed by the artifacts a and by the transfer s.
Kept(d, a, s) ==
  d # None =>
    /\ \A p \in d.complete : d.chunks[p] # None /\ s.chunk[p] # None
    /\ \A p \in Position : d.chunks[p] # None /\ p \notin d.complete => a[p] # None
    /\ d.state = "finalizing" => d.manifest # None
    /\ d.state = "awaiting-execution" => \A p \in Position : d.chunks[p] # None
    /\ d.state = "complete" => s.status \in {"available", "gone"} /\ s.manifest # None

\* What the server has, and that nothing was sealed or sent before it knew the transfer.
Served ==
  /\ \A p \in Position : os[p] = "acked" => server.chunk[p] # None
  /\ server.status = "available" => \A p \in Position : server.chunk[p] # None
  /\ server.status = "none" =>
       /\ run.pc \in {"idle", "reserve"} /\ wire = {} /\ (disk # None => disk.state = "reserving")
       /\ \A p \in Position : artifact[p] = None /\ server.chunk[p] = None /\ sealed[p] = {} /\ os[p] = "none"

\* The inductive invariant of an upload.
UploadInv ==
  /\ Filed /\ Sound(run, disk, server) /\ Kept(disk, artifact, server) /\ Served
  /\ \E c \in Plain : OneText(c)

-----------------------------------------------------------------------------
\* A set of numbers has a smallest one.
LEMMA Smallest ==
  ASSUME NEW T \in SUBSET Nat, T # {}
  PROVE  \E x \in T : \A y \in T : x <= y
  <1> DEFINE R == {ss \in Nat \X Nat : ss[1] < ss[2]}
  <1>1. IsWellFoundedOn(R, Nat)
    BY NatLessThanWellFounded DEF OpToRel
  <1>2. PICK x \in T : \A y \in T : ~(<<y, x>> \in R)
    <2> HIDE DEF R
    <2> QED
      BY <1>1, WFMin
  <1>3. ASSUME NEW y \in T PROVE x <= y
    <2>1. <<y, x>> \in Nat \X Nat /\ ~(y < x)
      BY <1>2
    <2> QED
      BY <2>1
  <1> QED
    BY <1>3

\* next_missing_chunk finds a chunk while one is missing.
LEMMA NextMissingFound ==
  ASSUME NEW job, ~ItemPrepared(job)
  PROVE  NextMissing(job) \in Position
  <1> DEFINE T == Position \ Recorded(job)
  <1>1. T \in SUBSET Nat
    BY UploadAssumption DEF Position
  <1>2. T # {}
    BY DEF ItemPrepared, Recorded
  <1>3. \E p \in T : \A q \in T : p <= q
    <2> HIDE DEF T
    <2> QED
      BY <1>1, <1>2, Smallest
  <1> QED
    BY <1>3 DEF NextMissing

\* No process is a sound process.
LEMMA NoRunSound ==
  ASSUME NEW d, NEW s
  PROVE  Sound(NoRun, d, s) /\ NoRun.ready = None /\ NoRun.pc = "idle"
  <1>1. NoRun.pc = "idle" /\ NoRun.ready = None /\ NoRun.producer = None /\ \A p \in Position : NoRun.active[p] = "no"
    BY DEF NoRun
  <1>2. NoRun \in Runs
    BY UploadAssumption DEF NoRun, Runs, Jobs
  <1> QED
    BY <1>1, <1>2 DEF Sound

\* Between two chunks the process has no worker and no producer.
LEMMA Continues ==
  ASSUME run \in Runs, \A p \in Position : run.active[p] = "no", run.producer = None, run.ready = None,
         NEW d, NEW s, Continue(run'.job, run'.pc), Agree(run'.job, d), run'.pc \in Phases,
         run'.pc = "reserve" => d.state = "reserving" /\ s.status = "none",
         run'.pc = "finalize" => d.manifest # None,
         run'.pc = "receipt" => s.status \in {"available", "gone"} /\ s.manifest # None
  PROVE  Sound(run', d, s) /\ run'.ready = None
  <1>1. /\ run'.producer = None /\ run'.ready = None /\ run'.active = run.active
        /\ run'.pc # "idle" /\ run'.job \in Record
    BY DEF Runs, Agree, Phases, Continue
  <1>2. run' \in Runs
    BY <1>1 DEF Runs, Continue
  <1> QED
    BY <1>1, <1>2 DEF Sound

\* Between two chunks there is nothing to lose.
LEMMA Quiet ==
  ASSUME UploadInv, run.pc \notin {"spool", "loop"}
  PROVE  run \in Runs /\ run.producer = None /\ run.ready = None /\ \A p \in Position : run.active[p] = "no"
  BY DEF UploadInv, Sound

\* A process at work has a copy of the record on disk.
LEMMA AtWork ==
  ASSUME UploadInv, run.pc # "idle"
  PROVE  /\ run \in Runs /\ run.job \in Record /\ disk \in Record /\ Agree(run.job, disk) /\ disk # None
         /\ server \in Servers /\ artifact \in [Position -> Plain \cup {None}]
         /\ (run.pc # "reserve" => server.status # "none")
  BY NoneAssumption DEF UploadInv, Sound, Filed, Agree, Served

\* Steps that only the process sees.
LEMMA RunMoves ==
  ASSUME UploadInv, Sound(run', disk, server), run'.ready \in {run.ready, None},
         server.status = "none" => run'.pc \in {"idle", "reserve"}, sidecar' \subseteq Position,
         UNCHANGED <<source, disk, artifact, server, wire, os, sealed>>
  PROVE  UploadInv'
  <1>1. PICK c \in Plain : OneText(c)
    BY DEF UploadInv
  <1>2. OneText(c)'
    BY <1>1 DEF OneText
  <1>3. Filed' /\ Served' /\ Kept(disk, artifact, server)'
    BY DEF UploadInv, Filed, Served, Kept
  <1>4. Sound(run, disk, server)'
    BY DEF Sound, Agree
  <1> QED
    BY <1>2, <1>3, <1>4 DEF UploadInv

\* Steps that end the process.
LEMMA RunStops ==
  ASSUME UploadInv, run' = NoRun, sidecar' \subseteq Position,
         UNCHANGED <<source, disk, artifact, server, wire, os, sealed>>
  PROVE  UploadInv'
  <1>1. Sound(run', disk, server) /\ run'.ready = None /\ run'.pc = "idle"
    BY NoRunSound
  <1> QED
    BY <1>1, RunMoves

\* Steps that save the record.
LEMMA RecordSaved ==
  ASSUME UploadInv, server.status # "none", disk # None, NEW d \in Record, disk' = d, d.print = disk.print,
         \A p \in Position : d.chunks[p] \in {disk.chunks[p], run.ready},
         Kept(d, artifact, server), Sound(run', d, server), run'.ready \in {run.ready, None},
         UNCHANGED <<source, artifact, sidecar, server, wire, os, sealed>>
  PROVE  UploadInv'
  <1>1. PICK c \in Plain : OneText(c)
    BY DEF UploadInv
  <1>2. OneText(c)'
    BY <1>1 DEF OneText
  <1>3. Filed' /\ Served'
    BY DEF UploadInv, Filed, Served
  <1>4. Sound(run, disk, server)' /\ Kept(disk, artifact, server)'
    BY DEF Sound, Agree, Kept
  <1> QED
    BY <1>2, <1>3, <1>4 DEF UploadInv

-----------------------------------------------------------------------------
(* The process, one action at a time.                                      *)

\* run_new() starts a transfer that nobody knows of.
LEMMA RunNewKeeps ==
  ASSUME UploadInv, NEW background \in Background, NEW turbo \in Turbo, NEW policy \in Policies,
         RunNew(background, turbo, policy)
  PROVE  UploadInv'
  <1>1. PICK job : job = [state |-> "reserving", print |-> source, reserved |-> FALSE, turbo |-> turbo,
                          background |-> background, policy |-> policy, descriptor |-> None, published |-> FALSE,
                          chunks |-> [p \in Position |-> None], complete |-> {}, manifest |-> None]
    OBVIOUS
  <1>2. /\ run.pc = "idle" /\ disk = None /\ server.status = "none" /\ source # "gone"
        /\ disk' = job /\ run' = [run EXCEPT !.job = job, !.pc = "reserve"]
        /\ UNCHANGED <<source, artifact, sidecar, server, wire, os, sealed>>
    BY <1>1 DEF RunNew, Save, Continue
  <1>3. job \in Record
    BY <1>1, <1>2, UploadAssumption DEF UploadInv, Filed, Record, States
  <1>4. job.state = "reserving" /\ job.print = source /\ job.complete = {} /\ \A p \in Position : job.chunks[p] = None
    BY <1>1
  <1>5. Agree(job, job)
    BY <1>3, <1>4 DEF Agree
  <1>6. Sound(run', job, server) /\ run'.ready = None /\ run'.pc = "reserve"
    <2>1. \A p \in Position : run.active[p] = "no"
      BY <1>2, Quiet
    <2>2. run \in Runs /\ run.producer = None /\ run.ready = None
      BY <1>2, Quiet
    <2>3. run'.pc = "reserve" /\ run'.job = job /\ Continue(run'.job, run'.pc)
      BY <1>2, <2>2 DEF Runs, Continue
    <2> QED
      BY <1>2, <1>4, <1>5, <2>1, <2>2, <2>3, Continues DEF Phases
  <1>7. Kept(job, artifact, server)
    BY <1>4 DEF Kept
  <1>8. PICK c \in Plain : c = Content(source)
    BY DEF Content, Plain
  <1>9. OneText(c)'
    BY <1>2, <1>4, <1>6, <1>8 DEF OneText, UploadInv, Served
  <1>10. Filed' /\ Served'
    BY <1>2, <1>3, <1>4, <1>6 DEF UploadInv, Filed, Served
  <1>11. Sound(run, disk, server)' /\ Kept(disk, artifact, server)'
    BY <1>2, <1>6, <1>7 DEF Sound, Agree, Kept
  <1> QED
    BY <1>8, <1>9, <1>10, <1>11 DEF UploadInv

\* What a process between two chunks does next.
LEMMA Goes ==
  ASSUME UploadInv, run.pc \notin {"spool", "loop"}, NEW job, NEW pc, Continue(job, pc)
  PROVE  run'.pc = pc /\ run'.job = job /\ Continue(run'.job, run'.pc)
  BY Quiet DEF Runs, Continue

\* A step from one phase to the next that leaves the record alone.
LEMMA PhaseEnds ==
  ASSUME UploadInv, run.pc \notin {"idle", "reserve", "spool", "loop"}, NEW pc \in Phases \ {"reserve", "receipt"},
         Continue(run.job, pc), pc = "finalize" => disk.manifest # None, sidecar' \subseteq Position,
         UNCHANGED <<source, disk, artifact, server, wire, os, sealed>>
  PROVE  UploadInv'
  <1>1. run'.pc = pc /\ run'.job = run.job /\ Continue(run'.job, run'.pc)
    BY Goes
  <1>2. Agree(run'.job, disk) /\ server.status # "none"
    BY <1>1, AtWork
  <1>3. Sound(run', disk, server) /\ run'.ready = None
    BY <1>1, <1>2, Quiet, Continues
  <1> QED
    BY <1>2, <1>3, RunMoves

\* A step from one phase to the next that saves the record first.
LEMMA PhaseSaved ==
  ASSUME UploadInv, run.pc \notin {"idle", "reserve", "spool", "loop"}, NEW pc \in Phases \ {"reserve", "receipt"},
         Continue(disk', pc), pc = "finalize" => disk'.manifest # None,
         disk' \in Record, disk'.print = disk.print, disk'.chunks = disk.chunks, disk'.state # "complete",
         Kept(disk', artifact, server), UNCHANGED <<source, artifact, sidecar, server, wire, os, sealed>>
  PROVE  UploadInv'
  <1>1. run'.pc = pc /\ run'.job = disk' /\ Continue(run'.job, run'.pc)
    BY Goes
  <1>2. Agree(run'.job, disk') /\ server.status # "none" /\ disk # None
    BY <1>1, AtWork DEF Agree
  <1>3. Sound(run', disk', server) /\ run'.ready = None
    BY <1>1, <1>2, Quiet, Continues
  <1> QED
    BY <1>2, <1>3, RecordSaved

\* The reservation is known to the server, whether its answer arrives or not.
LEMMA ReserveKeeps ==
  ASSUME UploadInv, Reserve
  PROVE  UploadInv'
  <1>1. run.pc = "reserve" /\ UNCHANGED <<source, disk, artifact, sidecar, wire, os, sealed>>
    BY DEF Reserve
  <1>2. /\ server' \in Servers /\ server'.status = "pending" /\ server'.chunk = server.chunk
        /\ server'.manifest = server.manifest
    BY DEF Reserve, UploadInv, Filed, Servers
  <1>3. disk \in Record /\ Agree(run.job, disk) /\ disk.state = "reserving"
    BY <1>1, AtWork DEF UploadInv, Sound
  <1>4. Sound(run', disk, server') /\ run'.ready = None
    <2>1. CASE run' = NoRun
      BY <2>1, NoRunSound
    <2>2. CASE Continue([run.job EXCEPT !.reserved = TRUE], "reserved")
      <3>1. PICK job : job = [run.job EXCEPT !.reserved = TRUE]
        OBVIOUS
      <3>2. Agree(job, disk)
        BY <1>3, <3>1 DEF Agree, Record
      <3>3. run'.pc = "reserved" /\ run'.job = job /\ Continue(run'.job, run'.pc)
        BY <1>1, <2>2, <3>1, Goes
      <3> QED
        BY <1>1, <3>2, <3>3, Quiet, Continues DEF Phases
    <2> QED
      BY <2>1, <2>2 DEF Reserve, Stopped
  <1>5. PICK c \in Plain : OneText(c)
    BY DEF UploadInv
  <1>6. OneText(c)'
    BY <1>1, <1>2, <1>4, <1>5 DEF OneText
  <1>7. Filed' /\ Served'
    BY <1>1, <1>2 DEF UploadInv, Filed, Served
  <1>8. Sound(run, disk, server)' /\ Kept(disk, artifact, server)'
    BY <1>1, <1>2, <1>3, <1>4 DEF UploadInv, Sound, Agree, Kept
  <1> QED
    BY <1>6, <1>7, <1>8 DEF UploadInv

\* The reservation and the state after it are saved before anything is sealed.
LEMMA ReservedKeeps ==
  ASSUME UploadInv, SaveReservation \/ EnterPreparing
  PROVE  UploadInv'
  <1>1. CASE SaveReservation
    <2>1. disk' = run.job /\ Continue(disk', "credentials") /\ run.pc = "reserved"
      BY <1>1 DEF SaveReservation, Save
    <2>2. disk' \in Record /\ disk'.print = disk.print /\ disk'.chunks = disk.chunks /\ disk'.state # "complete"
      BY <2>1, AtWork DEF Agree
    <2>3. Kept(disk', artifact, server)
      BY <2>1, AtWork DEF UploadInv, Kept, Agree
    <2> QED
      BY <1>1, <2>1, <2>2, <2>3, PhaseSaved DEF SaveReservation, Phases
  <1>2. CASE EnterPreparing
    <2>1. PICK pc \in {"descriptor", "open"} : disk' = [run.job EXCEPT !.state = "preparing"] /\ Continue(disk', pc)
      BY <1>2 DEF EnterPreparing, Save
    <2>2. run.pc = "credentials" /\ UNCHANGED <<source, artifact, sidecar, server, wire, os, sealed>>
      BY <1>2 DEF EnterPreparing
    <2>3. /\ disk' \in Record /\ disk'.print = disk.print /\ disk'.chunks = disk.chunks /\ disk'.state = "preparing"
          /\ disk'.complete = disk.complete
      BY <2>1, <2>2, AtWork DEF Agree, Record, States
    <2>4. Kept(disk', artifact, server)
      BY <2>2, <2>3, AtWork DEF UploadInv, Kept
    <2> QED
      BY <2>1, <2>2, <2>3, <2>4, PhaseSaved DEF Phases
  <1> QED
    BY <1>1, <1>2

\* resume() and the checks before an upload continues.
LEMMA OpensKeep ==
  ASSUME UploadInv, Resume \/ Open \/ DescriptorSettled
  PROVE  UploadInv'
  <1>1. CASE Resume
    <2>1. PICK job : job = [disk EXCEPT !.background = FALSE]
      OBVIOUS
    <2>2. /\ run.pc = "idle" /\ disk \in Record /\ disk.state \notin {"complete", "reserving"}
          /\ UNCHANGED <<source, disk, artifact, sidecar, server, wire, os, sealed>>
      BY <1>1, NoneAssumption DEF Resume, ValidJob, UploadInv, Filed
    <2>3. run = NoRun /\ run \in Runs
      BY <2>2 DEF UploadInv, Sound
    <2>4. run' = [run EXCEPT !.job = job, !.pc = "open"]
      BY <1>1, <2>1, <2>3 DEF Resume, Runs
    <2>5. run'.pc = "open" /\ run'.job = job /\ Continue(run'.job, run'.pc)
      BY <2>3, <2>4 DEF Runs, Continue
    <2>6. Agree(job, disk)
      BY <2>1, <2>2 DEF Agree, Record
    <2>7. Sound(run', disk, server) /\ run'.ready = None
      BY <2>2, <2>5, <2>6, Quiet, Continues DEF Phases
    <2>8. server.status # "none" /\ sidecar' \subseteq Position
      BY <2>2, NoneAssumption DEF UploadInv, Served, Filed
    <2> QED
      BY <2>2, <2>7, <2>8, RunMoves
  <1>2. CASE Open
    <2>1. run.pc = "open" /\ UNCHANGED <<source, disk, artifact, sidecar, server, wire, os, sealed>> /\ sidecar' \subseteq Position
      BY <1>2 DEF Open, UploadInv, Filed
    <2>2. Continue(run.job, "descriptor") \/ run' = NoRun
      BY <1>2 DEF Open, Stopped
    <2> QED
      BY <2>1, <2>2, PhaseEnds, RunStops DEF Phases
  <1>3. CASE DescriptorSettled
    <2>1. /\ run.pc = "descriptor" /\ UNCHANGED <<source, disk, artifact, sidecar, server, wire, os, sealed>>
          /\ sidecar' \subseteq Position
      BY <1>3 DEF DescriptorSettled, UploadInv, Filed
    <2>2. (\E pc \in {"spool", "reconcile", "loop"} : Continue(run.job, pc)) \/ run' = NoRun
      BY <1>3 DEF DescriptorSettled, Stopped
    <2> QED
      BY <2>1, <2>2, PhaseEnds, RunStops DEF Phases
  <1> QED
    BY <1>1, <1>2, <1>3

\* The descriptor is saved before it is published.
LEMMA SealDescriptorKeeps ==
  ASSUME UploadInv, SealDescriptor
  PROVE  UploadInv'
  <1>1. PICK m \in Envelope : disk' = [run.job EXCEPT !.descriptor = m] /\ Continue(disk', "descriptor")
    BY DEF SealDescriptor, Save
  <1>2. run.pc = "descriptor" /\ UNCHANGED <<source, artifact, sidecar, server, wire, os, sealed>>
    BY DEF SealDescriptor
  <1>3. /\ disk' \in Record /\ disk'.print = disk.print /\ disk'.chunks = disk.chunks /\ disk'.state = disk.state
        /\ disk'.complete = disk.complete /\ disk'.manifest = disk.manifest /\ disk.state # "complete"
    BY <1>1, <1>2, AtWork DEF Agree, Record
  <1>4. Kept(disk', artifact, server)
    BY <1>2, <1>3, AtWork DEF UploadInv, Kept
  <1> QED
    BY <1>1, <1>2, <1>3, <1>4, PhaseSaved DEF Phases

\* The server's copy of the descriptor matters to nobody else.
LEMMA DescriptorOnly ==
  ASSUME UploadInv, server' = [server EXCEPT !.descriptor = run.job.descriptor], run.pc # "idle",
         UNCHANGED <<source, disk, artifact, sidecar, run, wire, os, sealed>>
  PROVE  UploadInv'
  <1>1. /\ server' \in Servers /\ server'.status = server.status /\ server'.chunk = server.chunk
        /\ server'.manifest = server.manifest
    BY AtWork DEF Record, Servers
  <1>2. PICK c \in Plain : OneText(c)
    BY DEF UploadInv
  <1>3. OneText(c)'
    BY <1>1, <1>2 DEF OneText
  <1>4. Filed' /\ Served'
    BY <1>1 DEF UploadInv, Filed, Served
  <1>5. Sound(run, disk, server)' /\ Kept(disk, artifact, server)'
    BY <1>1 DEF UploadInv, Sound, Agree, Kept
  <1> QED
    BY <1>3, <1>4, <1>5 DEF UploadInv

\* publish_turbo_descriptor keeps the invariant, answered or not.
LEMMA PublishDescriptorKeeps ==
  ASSUME UploadInv, PublishDescriptor
  PROVE  UploadInv'
  <1>1. /\ run.pc = "descriptor" /\ server' = [server EXCEPT !.descriptor = run.job.descriptor]
        /\ UNCHANGED <<source, artifact, sidecar, wire, os, sealed>>
    BY DEF PublishDescriptor
  <1>2. CASE UNCHANGED <<disk, run>>
    BY <1>1, <1>2, DescriptorOnly
  <1>3. CASE disk' = [run.job EXCEPT !.published = TRUE] /\ Continue(disk', "descriptor")
    <2>1. /\ server' \in Servers /\ server'.status = server.status /\ server'.chunk = server.chunk
          /\ server'.manifest = server.manifest
      BY <1>1, AtWork DEF Record, Servers
    <2>2. /\ disk' \in Record /\ disk'.print = disk.print /\ disk'.chunks = disk.chunks /\ disk'.state = disk.state
          /\ disk'.complete = disk.complete /\ disk'.manifest = disk.manifest /\ disk.state # "complete" /\ disk # None
      BY <1>1, <1>3, AtWork DEF Agree, Record
    <2>3. run'.pc = "descriptor" /\ run'.job = disk' /\ Continue(run'.job, run'.pc)
      BY <1>1, <1>3, Goes
    <2>4. Sound(run', disk', server') /\ run'.ready = None
      BY <1>1, <2>2, <2>3, Quiet, Continues DEF Phases, Agree
    <2>5. PICK c \in Plain : OneText(c)
      BY DEF UploadInv
    <2>6. OneText(c)'
      BY <1>1, <2>1, <2>2, <2>4, <2>5 DEF OneText
    <2>7. Filed' /\ Served'
      BY <1>1, <2>1, <2>2, AtWork DEF UploadInv, Filed, Served
    <2>8. Sound(run, disk, server)' /\ Kept(disk, artifact, server)'
      BY <1>1, <2>1, <2>2, <2>4 DEF UploadInv, Sound, Agree, Kept
    <2> QED
      BY <2>6, <2>7, <2>8 DEF UploadInv
  <1> QED
    BY <1>2, <1>3 DEF PublishDescriptor, Save

\* What reconcile() adopts is at the server.
LEMMA ReconciledKept ==
  ASSUME UploadInv, NEW job \in Record, Reconciled(job) # None, Kept(job, artifact, server)
  PROVE  /\ Reconciled(job) \in Record /\ Reconciled(job).print = job.print /\ Reconciled(job).chunks = job.chunks
         /\ Reconciled(job).state = job.state /\ Kept(Reconciled(job), artifact, server)
         /\ \A p \in Reconciled(job).complete : server.chunk[p] # None /\ job.chunks[p] # None
         /\ server.status = "pending"
  <1>1. server.status = "pending" /\ \A p \in Position : server.chunk[p] \in {None, job.chunks[p]}
    BY DEF Reconciled
  <1>2. PICK new : new = {p \in Position : server.chunk[p] # None}
    OBVIOUS
  <1>3. PICK x : x = [job EXCEPT !.complete = @ \cup new]
    OBVIOUS
  <1>4. Reconciled(job) = x
    BY <1>1, <1>2, <1>3 DEF Reconciled
  <1>5. /\ x \in Record /\ x.print = job.print /\ x.chunks = job.chunks /\ x.state = job.state
        /\ x.manifest = job.manifest /\ x.complete = job.complete \cup new
    BY <1>2, <1>3 DEF Record
  <1>6. \A p \in new : server.chunk[p] # None /\ job.chunks[p] # None
    BY <1>1, <1>2
  <1>7. job # None /\ x # None
    BY <1>5, NoneAssumption
  <1>8. \A p \in x.complete : server.chunk[p] # None /\ job.chunks[p] # None
    BY <1>5, <1>6, <1>7 DEF Kept
  <1>9. Kept(x, artifact, server)
    BY <1>5, <1>7, <1>8 DEF Kept
  <1> QED
    BY <1>1, <1>4, <1>5, <1>8, <1>9

\* reconcile() and the sweep of the sidecars keep the invariant.
LEMMA ReconcileKeeps ==
  ASSUME UploadInv, Reconcile \/ SweepSidecars
  PROVE  UploadInv'
  <1>1. CASE Reconcile
    <2>1. run.pc = "reconcile" /\ UNCHANGED <<source, artifact, sidecar, server, wire, os, sealed>> /\ sidecar' \subseteq Position
      BY <1>1 DEF Reconcile, UploadInv, Filed
    <2>2. CASE Reconciled(run.job) = None
      BY <1>1, <2>1, <2>2, RunStops DEF Reconcile, Stopped
    <2>3. CASE Reconciled(run.job) # None
      <3>1. Kept(run.job, artifact, server) /\ run.job \in Record /\ Agree(run.job, disk)
        BY <2>1, AtWork DEF UploadInv, Kept, Agree
      <3>2. disk' = Reconciled(run.job) /\ Continue(disk', "sweep")
        BY <1>1, <2>3 DEF Reconcile, Save
      <3>3. /\ disk' \in Record /\ disk'.print = disk.print /\ disk'.chunks = disk.chunks /\ disk'.state # "complete"
            /\ Kept(disk', artifact, server)
        BY <2>3, <3>1, <3>2, ReconciledKept DEF Agree
      <3> QED
        BY <2>1, <3>2, <3>3, PhaseSaved DEF Phases
    <2> QED
      BY <2>2, <2>3
  <1>2. CASE SweepSidecars
    <2>1. /\ run.pc = "sweep" /\ Continue(run.job, "loop") /\ sidecar' \subseteq Position
          /\ UNCHANGED <<source, disk, artifact, server, wire, os, sealed>>
      BY <1>2 DEF SweepSidecars, UploadInv, Filed
    <2> QED
      BY <2>1, PhaseEnds DEF Phases
  <1> QED
    BY <1>1, <1>2

\* The end of the loop, and the end of the process at any moment.
LEMMA EndsKeep ==
  ASSUME UploadInv, LoopDone \/ Stop
  PROVE  UploadInv'
  <1>1. UNCHANGED <<source, disk, artifact, sidecar, server, wire, os, sealed>> /\ sidecar' \subseteq Position
    BY DEF LoopDone, Stop, UploadInv, Filed
  <1>2. CASE Stop
    BY <1>1, <1>2, RunStops DEF Stop, Stopped
  <1>3. CASE LoopDone
    <2>1. run.pc = "loop" /\ ActiveSet = {} /\ run.producer = None /\ Continue(run.job, "finish")
      BY <1>3 DEF LoopDone
    <2>2. run \in Runs /\ run.ready = None /\ \A p \in Position : run.active[p] = "no"
      BY <2>1 DEF ActiveSet, UploadInv, Sound
    <2>3. run'.pc = "finish" /\ run'.job = run.job /\ Continue(run'.job, run'.pc)
      BY <2>1, <2>2 DEF Runs, Continue
    <2>4. Agree(run'.job, disk) /\ server.status # "none"
      BY <2>1, <2>3, AtWork
    <2>5. Sound(run', disk, server) /\ run'.ready = None
      BY <2>1, <2>2, <2>3, <2>4, Continues DEF Phases
    <2> QED
      BY <1>1, <2>4, <2>5, RunMoves
  <1> QED
    BY <1>2, <1>3

\* The manifest is saved before it is sent.
LEMMA FinishKeeps ==
  ASSUME UploadInv, FinishPreparing \/ EnterFinalizing
  PROVE  UploadInv'
  <1>1. /\ run.pc = "finish" /\ UNCHANGED <<source, artifact, sidecar, server, wire, os, sealed>>
        /\ sidecar' \subseteq Position
    BY DEF FinishPreparing, EnterFinalizing, UploadInv, Filed
  <1>2. Agree(run.job, disk) /\ disk \in Record /\ disk # None /\ run.job \in Record
    BY <1>1, AtWork
  <1>3. CASE FinishPreparing
    <2>1. CASE disk' = [run.job EXCEPT !.state = "sending"] /\ Continue(disk', "finish")
      <3>1. /\ disk' \in Record /\ disk'.print = disk.print /\ disk'.chunks = disk.chunks /\ disk'.state = "sending"
            /\ disk'.complete = disk.complete
        BY <1>2, <2>1 DEF Agree, Record, States
      <3>2. Kept(disk', artifact, server)
        BY <1>2, <3>1 DEF UploadInv, Kept
      <3> QED
        BY <1>1, <2>1, <3>1, <3>2, PhaseSaved DEF Phases
    <2>2. CASE run' = NoRun /\ UNCHANGED disk
      BY <1>1, <2>2, RunStops
    <2> QED
      BY <1>3, <2>1, <2>2 DEF FinishPreparing, Stopped, Save
  <1>4. CASE EnterFinalizing
    <2>1. CASE run.job.state = "finalizing"
      <3>1. Continue(run.job, "finalize") /\ UNCHANGED disk
        BY <1>4, <2>1 DEF EnterFinalizing
      <3>2. disk.manifest # None
        BY <1>2, <2>1 DEF UploadInv, Kept, Agree
      <3> QED
        BY <1>1, <3>1, <3>2, PhaseEnds DEF Phases
    <2>2. CASE run.job.state # "finalizing"
      <3>1. PICK m \in Envelope : /\ disk' = [run.job EXCEPT !.state = "finalizing", !.manifest = m]
                                  /\ Continue(disk', "finalize")
        BY <1>4, <2>2 DEF EnterFinalizing, Save
      <3>2. /\ disk' \in Record /\ disk'.print = disk.print /\ disk'.chunks = disk.chunks /\ disk'.state = "finalizing"
            /\ disk'.complete = disk.complete /\ disk'.manifest = m
        BY <1>2, <3>1 DEF Agree, Record, States
      <3>3. disk'.manifest # None
        BY <3>2, NoneAssumption
      <3>4. Kept(disk', artifact, server)
        BY <1>2, <3>2, <3>3 DEF UploadInv, Kept
      <3> QED
        BY <1>1, <3>1, <3>2, <3>3, <3>4, PhaseSaved DEF Phases
    <2> QED
      BY <2>1, <2>2
  <1> QED
    BY <1>3, <1>4

\* complete_transfer is accepted only with every chunk, and may be sent again.
LEMMA CompleteTransferKeeps ==
  ASSUME UploadInv, CompleteTransfer
  PROVE  UploadInv'
  <1>1. /\ run.pc = "finalize" /\ server' = [server EXCEPT !.status = "available", !.manifest = run.job.manifest]
        /\ UNCHANGED <<source, disk, artifact, sidecar, wire, os, sealed>>
    BY DEF CompleteTransfer
  <1>2. Agree(run.job, disk) /\ disk \in Record /\ disk # None /\ disk.manifest # None /\ run.job \in Record
    BY <1>1, AtWork DEF UploadInv, Sound
  <1>3. server' \in Servers /\ server'.status = "available" /\ server'.chunk = server.chunk /\ server'.manifest # None
    BY <1>1, <1>2, AtWork DEF Agree, Record, Servers
  <1>4. \A p \in Position : server.chunk[p] # None
    BY DEF CompleteTransfer, Accepts, UploadInv, Served
  <1>5. Sound(run', disk, server') /\ run'.ready \in {run.ready, None}
    <2>1. CASE Continue(run.job, "receipt")
      <3>1. run'.pc = "receipt" /\ run'.job = run.job /\ Continue(run'.job, run'.pc)
        BY <1>1, <2>1, Goes
      <3> QED
        BY <1>1, <1>2, <1>3, <3>1, Quiet, Continues DEF Phases
    <2>2. CASE UNCHANGED run
      BY <1>1, <1>2, <1>3, <2>2 DEF UploadInv, Sound
    <2> QED
      BY <2>1, <2>2 DEF CompleteTransfer
  <1>6. PICK c \in Plain : OneText(c)
    BY DEF UploadInv
  <1>7. OneText(c)'
    BY <1>1, <1>3, <1>5, <1>6 DEF OneText
  <1>8. Filed' /\ Served'
    BY <1>1, <1>3, <1>4 DEF UploadInv, Filed, Served
  <1>9. Sound(run, disk, server)' /\ Kept(disk, artifact, server)'
    BY <1>1, <1>2, <1>3, <1>5 DEF UploadInv, Sound, Agree, Kept
  <1> QED
    BY <1>7, <1>8, <1>9 DEF UploadInv

\* The receipt, and the hand-over to the operating system, end the process.
LEMMA HandsOverKeeps ==
  ASSUME UploadInv, SaveReceipt \/ AwaitExecution
  PROVE  UploadInv'
  <1>1. /\ run.pc \in {"receipt", "spool"} /\ run' = NoRun
        /\ UNCHANGED <<source, artifact, sidecar, server, wire, os, sealed>> /\ sidecar' \subseteq Position
    BY DEF SaveReceipt, AwaitExecution, Stopped, UploadInv, Filed
  <1>2. Agree(run.job, disk) /\ disk \in Record /\ disk # None /\ run.job \in Record /\ server.status # "none"
    BY <1>1, AtWork
  <1>3. CASE UNCHANGED disk
    BY <1>1, <1>3, RunStops
  <1>4. ASSUME disk' \in Record, disk'.print = disk.print, disk'.chunks = disk.chunks, Kept(disk', artifact, server)
        PROVE  UploadInv'
    <2>1. Sound(run', disk', server) /\ run'.ready = None
      BY <1>1, NoRunSound
    <2> QED
      BY <1>1, <1>2, <1>4, <2>1, RecordSaved
  <1>5. CASE SaveReceipt
    <2>1. disk' = [run.job EXCEPT !.state = "complete", !.reserved = FALSE, !.manifest = None] /\ run.pc = "receipt"
      BY <1>5 DEF SaveReceipt, Save
    <2>2. /\ disk' \in Record /\ disk'.print = disk.print /\ disk'.chunks = disk.chunks /\ disk'.state = "complete"
          /\ disk'.complete = disk.complete
      BY <1>2, <2>1 DEF Agree, Record, States
    <2>3. Kept(disk', artifact, server)
      BY <1>2, <2>1, <2>2 DEF UploadInv, Kept, Sound
    <2> QED
      BY <1>4, <2>2, <2>3
  <1>6. CASE AwaitExecution /\ disk' # disk
    <2>1. disk' = [run.job EXCEPT !.state = "awaiting-execution"] /\ PreparationComplete(run.job)
      BY <1>6 DEF AwaitExecution, Save
    <2>2. /\ disk' \in Record /\ disk'.print = disk.print /\ disk'.chunks = disk.chunks
          /\ disk'.state = "awaiting-execution" /\ disk'.complete = disk.complete
      BY <1>2, <2>1 DEF Agree, Record, States
    <2>3. \A p \in Position : run.job.chunks[p] # None
      BY <2>1 DEF PreparationComplete, Recorded
    <2>4. Kept(disk', artifact, server)
      BY <1>2, <2>2, <2>3 DEF UploadInv, Kept, Agree
    <2> QED
      BY <1>4, <2>2, <2>4
  <1> QED
    BY <1>3, <1>5, <1>6

-----------------------------------------------------------------------------
(* The producer.                                                           *)

\* The producer works on a position while chunks are sealed.
LEMMA Producing ==
  ASSUME UploadInv, run.producer # None
  PROVE  /\ run.pc \in {"spool", "loop"} /\ run.producer \in Position /\ run \in Runs /\ server.status # "none"
         /\ Agree(run.job, disk) /\ disk \in Record /\ disk # None /\ run.job \in Record
  <1>1. run.pc \in {"spool", "loop"} /\ run.producer \in Position /\ run \in Runs
    BY DEF UploadInv, Sound, Runs
  <1> QED
    BY <1>1, AtWork

\* The next chunk is chosen.
LEMMA StartProducerKeeps ==
  ASSUME UploadInv, StartProducer
  PROVE  UploadInv'
  <1>1. PICK q : q = NextMissing(run.job)
    OBVIOUS
  <1>2. /\ run.pc \in {"spool", "loop"} /\ run' = [run EXCEPT !.producer = q] /\ q \in Position
        /\ UNCHANGED <<source, disk, artifact, sidecar, server, wire, os, sealed>> /\ sidecar' \subseteq Position
    BY <1>1, NextMissingFound DEF StartProducer, UploadInv, Filed
  <1>3. q # None
    BY <1>2, NoneAssumption
  <1>4. /\ run' \in Runs /\ run'.pc = run.pc /\ run'.job = run.job /\ run'.active = run.active
        /\ run'.producer = q /\ run'.ready = run.ready
    BY <1>2, AtWork DEF Runs
  <1>5. Sound(run', disk, server)
    BY <1>2, <1>3, <1>4 DEF UploadInv, Sound
  <1> QED
    BY <1>2, <1>4, <1>5, AtWork, RunMoves

\* A chunk is sealed from the file that was fingerprinted, or not at all.
LEMMA PrepareOneKeeps ==
  ASSUME UploadInv, PrepareOne
  PROVE  UploadInv'
  <1>1. /\ run.producer # None /\ UNCHANGED <<source, disk, artifact, sidecar, server, wire, os>>
        /\ sidecar' \subseteq Position
    BY DEF PrepareOne, UploadInv, Filed
  <1>2. CASE run' = NoRun /\ UNCHANGED sealed
    BY <1>1, <1>2, RunStops
  <1>3. CASE /\ SourceMatches(run.job) /\ sealed' = [sealed EXCEPT ![run.producer] = @ \cup {Content(source)}]
             /\ run' = [run EXCEPT !.ready = Content(source)]
    <2>1. PICK c \in Plain : OneText(c)
      BY DEF UploadInv
    <2>2. Content(source) = c
      BY <1>1, <1>3, <2>1, Producing DEF SourceMatches, OneText, Agree
    <2>3. c # None
      BY NoneAssumption
    <2>4. /\ run' \in Runs /\ run'.pc = run.pc /\ run'.job = run.job /\ run'.active = run.active
          /\ run'.producer = run.producer /\ run'.ready = c
      BY <1>1, <1>3, <2>2, Producing DEF Runs
    <2>5. Sound(run', disk, server)
      BY <1>1, <2>3, <2>4, Producing DEF UploadInv, Sound
    <2>6. sealed' \in [Position -> SUBSET Plain] /\ \A p \in Position : sealed'[p] \subseteq sealed[p] \cup {c}
      BY <1>1, <1>3, <2>2, Producing DEF UploadInv, Filed
    <2>7. OneText(c)'
      BY <1>1, <2>1, <2>4, <2>6 DEF OneText
    <2>8. Filed' /\ Served'
      BY <1>1, <2>6, Producing DEF UploadInv, Filed, Served
    <2>9. Sound(run, disk, server)' /\ Kept(disk, artifact, server)'
      BY <1>1, <2>5 DEF UploadInv, Sound, Agree, Kept
    <2> QED
      BY <2>7, <2>8, <2>9 DEF UploadInv
  <1> QED
    BY <1>2, <1>3 DEF PrepareOne, Stopped

\* The sealed chunk becomes a file, or the file that is there is another one.
LEMMA PersistArtifactKeeps ==
  ASSUME UploadInv, PersistArtifact
  PROVE  UploadInv'
  <1>1. /\ run.ready # None /\ UNCHANGED <<source, disk, sidecar, server, wire, os, sealed>> /\ sidecar' \subseteq Position
    BY DEF PersistArtifact, UploadInv, Filed
  <1>2. run.producer # None
    BY <1>1 DEF UploadInv, Sound
  <1>3. CASE run' = NoRun /\ UNCHANGED artifact
    BY <1>1, <1>3, RunStops
  <1>4. CASE artifact' = [artifact EXCEPT ![run.producer] = run.ready] /\ UNCHANGED run
    <2>1. PICK c \in Plain : OneText(c)
      BY DEF UploadInv
    <2>2. run.ready = c
      BY <1>1, <2>1 DEF OneText
    <2>3. artifact' \in [Position -> Plain \cup {None}] /\ \A p \in Position : artifact'[p] \in {artifact[p], c}
      BY <1>4, <2>2 DEF UploadInv, Filed
    <2>4. c # None
      BY NoneAssumption
    <2>5. OneText(c)'
      BY <1>1, <1>4, <2>1, <2>3 DEF OneText
    <2>6. Filed' /\ Served'
      BY <1>1, <1>2, <1>4, <2>3, Producing DEF UploadInv, Filed, Served
    <2>7. Kept(disk, artifact, server)'
      BY <1>1, <2>3, <2>4 DEF UploadInv, Kept
    <2>8. Sound(run, disk, server)'
      BY <1>1, <1>4 DEF UploadInv, Sound, Agree
    <2> QED
      BY <2>5, <2>6, <2>7, <2>8 DEF UploadInv
  <1> QED
    BY <1>3, <1>4 DEF PersistArtifact, Stopped

\* A chunk is recorded once its file is there.
LEMMA RecordChunkKeeps ==
  ASSUME UploadInv, RecordChunk
  PROVE  UploadInv'
  <1>1. PICK job : job = [run.job EXCEPT !.chunks[run.producer] = run.ready]
    OBVIOUS
  <1>2. /\ run.ready # None /\ artifact[run.producer] = run.ready /\ disk' = job
        /\ run' = [run EXCEPT !.job = job, !.producer = None, !.ready = None]
        /\ UNCHANGED <<source, artifact, sidecar, server, wire, os, sealed>>
    BY <1>1 DEF RecordChunk, Save
  <1>3. run.producer # None /\ run.ready \in Plain
    BY <1>2 DEF UploadInv, Sound, Runs
  <1>4. /\ run.pc \in {"spool", "loop"} /\ run.producer \in Position /\ run \in Runs /\ server.status # "none"
        /\ Agree(run.job, disk) /\ disk \in Record /\ disk # None /\ run.job \in Record
    BY <1>3, Producing
  <1>5. /\ job \in Record /\ job.print = disk.print /\ job.state = disk.state /\ job.complete = disk.complete
        /\ job.manifest = disk.manifest /\ job.chunks = [disk.chunks EXCEPT ![run.producer] = run.ready]
        /\ disk.state # "complete" /\ disk.chunks \in [Position -> Plain \cup {None}] /\ disk.complete \subseteq Position
    BY <1>1, <1>3, <1>4 DEF Agree, Record
  <1>6. \A p \in Position : job.chunks[p] \in {disk.chunks[p], run.ready} /\ (p # run.producer => job.chunks[p] = disk.chunks[p])
    BY <1>5
  <1>7. \A p \in Position : disk.chunks[p] # None => job.chunks[p] # None
    BY <1>2, <1>6
  <1>8. Kept(job, artifact, server)
    BY <1>2, <1>4, <1>5, <1>6, <1>7 DEF UploadInv, Kept
  <1>9. /\ run' \in Runs /\ run'.pc = run.pc /\ run'.job = job /\ run'.active = run.active
        /\ run'.producer = None /\ run'.ready = None
    BY <1>2, <1>4, <1>5 DEF Runs
  <1>10. Agree(job, job)
    BY <1>5 DEF Agree
  <1>11. Sound(run', job, server)
    BY <1>4, <1>5, <1>7, <1>9, <1>10 DEF UploadInv, Sound
  <1> QED
    BY <1>2, <1>4, <1>5, <1>6, <1>8, <1>9, <1>11, RecordSaved

-----------------------------------------------------------------------------
(* The workers.                                                            *)

\* A worker exists in the loop, for a chunk that was recorded.
LEMMA WorkerKnown ==
  ASSUME UploadInv, NEW p \in Position, run.active[p] # "no"
  PROVE  /\ run.pc = "loop" /\ disk.chunks[p] # None /\ run \in Runs /\ server.status # "none" /\ server \in Servers
         /\ Agree(run.job, disk) /\ disk \in Record /\ disk # None /\ run.job \in Record
         /\ run.job.chunks[p] = disk.chunks[p]
  <1>1. run.pc = "loop" /\ disk.chunks[p] # None
    BY DEF UploadInv, Sound
  <1> QED
    BY <1>1, AtWork DEF Agree

\* A worker that goes on to its next request, over a server that lost nothing.
LEMMA WorkerMoves ==
  ASSUME UploadInv, run.pc = "loop", NEW p \in Position, disk.chunks[p] # None,
         run' \in Runs, run'.pc = run.pc, run'.job = run.job, run'.producer = run.producer, run'.ready = run.ready,
         run'.active = [run.active EXCEPT ![p] = run'.active[p]],
         NEW s, \A q \in Position : server.chunk[q] # None => s.chunk[q] # None,
         run'.active[p] \in {"acked", "saved"} => s.chunk[p] # None, run'.active[p] = "saved" => p \in disk.complete
  PROVE  Sound(run', disk, s)
  <1>1. run.active \in [Position -> Jobs] /\ \A q \in Position : q # p => run'.active[q] = run.active[q]
    BY DEF UploadInv, Sound, Runs
  <1>2. Agree(run'.job, disk)
    BY AtWork
  <1> QED
    BY <1>1, <1>2 DEF UploadInv, Sound

\* The fields of a process whose worker moves.
LEMMA Activated ==
  ASSUME UploadInv, NEW p \in Position, NEW phase \in Jobs, SetActive(p, phase)
  PROVE  /\ run' \in Runs /\ run'.pc = run.pc /\ run'.job = run.job /\ run'.producer = run.producer
         /\ run'.ready = run.ready /\ run'.active = [run.active EXCEPT ![p] = run'.active[p]] /\ run'.active[p] = phase
  <1>1. run \in Runs /\ run.active \in [Position -> Jobs]
    BY DEF UploadInv, Sound, Runs
  <1>2. run' = [run EXCEPT !.active = [run.active EXCEPT ![p] = phase]]
    BY <1>1 DEF SetActive, Runs
  <1>3. [run.active EXCEPT ![p] = phase] \in [Position -> Jobs]
    BY <1>1
  <1>4. /\ run' \in Runs /\ run'.pc = run.pc /\ run'.job = run.job /\ run'.producer = run.producer
        /\ run'.ready = run.ready /\ run'.active = [run.active EXCEPT ![p] = phase]
    BY <1>1, <1>2, <1>3 DEF Runs
  <1> QED
    BY <1>1, <1>4

\* Steps of a worker that only the process sees.
LEMMA WorkerOnly ==
  ASSUME UploadInv, run.pc = "loop", NEW p \in Position, disk.chunks[p] # None,
         run' \in Runs, run'.pc = run.pc, run'.job = run.job, run'.producer = run.producer, run'.ready = run.ready,
         run'.active = [run.active EXCEPT ![p] = run'.active[p]], run'.active[p] # "saved",
         run'.active[p] = "acked" => server.chunk[p] # None, sidecar' \subseteq Position,
         UNCHANGED <<source, disk, artifact, server, wire, os, sealed>>
  PROVE  UploadInv'
  <1>1. Sound(run', disk, server)
    BY WorkerMoves
  <1> QED
    BY <1>1, AtWork, RunMoves

\* A worker starts, and starts again, with a recorded chunk.
LEMMA StartUploadKeeps ==
  ASSUME UploadInv, NEW p \in Position, StartUpload(p)
  PROVE  UploadInv'
  <1>1. /\ run.pc = "loop" /\ p \in Waiting /\ run' = [run EXCEPT !.active[p] = "direct", !.tries[p] = 0]
        /\ UNCHANGED <<source, disk, artifact, sidecar, server, wire, os, sealed>> /\ sidecar' \subseteq Position
    BY DEF StartUpload, UploadInv, Filed
  <1>2. run \in Runs /\ disk.chunks[p] # None
    BY <1>1, AtWork DEF Waiting, Recorded, Agree
  <1>3. run.active \in [Position -> Jobs] /\ run.tries \in [Position -> 0..MaxRetries] /\ 0 \in 0..MaxRetries
    BY <1>2, UploadAssumption DEF Runs
  <1>4. PICK active, tries : active = [run.active EXCEPT ![p] = "direct"] /\ tries = [run.tries EXCEPT ![p] = 0]
    OBVIOUS
  <1>5. active \in [Position -> Jobs] /\ tries \in [Position -> 0..MaxRetries] /\ active[p] = "direct"
    BY <1>3, <1>4 DEF Jobs
  <1>6. run' = [run EXCEPT !.active = active, !.tries = tries]
    BY <1>1, <1>2, <1>4 DEF Runs
  <1>7. /\ run' \in Runs /\ run'.pc = run.pc /\ run'.job = run.job /\ run'.producer = run.producer
        /\ run'.ready = run.ready /\ run'.active = active
    BY <1>2, <1>5, <1>6 DEF Runs
  <1>8. run'.active = [run.active EXCEPT ![p] = run'.active[p]] /\ run'.active[p] = "direct"
    BY <1>4, <1>5, <1>7
  <1> QED
    BY <1>1, <1>2, <1>7, <1>8, WorkerOnly

\* An answer, and the fall back to staging.
LEMMA AnswersKeep ==
  ASSUME UploadInv, NEW p \in Position, DirectCreated(p) \/ BeginStage(p) \/ StageGone(p)
  PROVE  UploadInv'
  <1>1. /\ run.active[p] # "no" /\ UNCHANGED <<source, disk, artifact, server, wire, os, sealed>>
        /\ sidecar' \subseteq Position
    BY DEF DirectCreated, BeginStage, StageGone, UploadInv, Filed
  <1>2. CASE run' = NoRun
    BY <1>1, <1>2, RunStops
  <1>3. ASSUME NEW phase \in Jobs \ {"saved"}, SetActive(p, phase), phase = "acked" => server.chunk[p] # None
        PROVE  UploadInv'
    BY <1>1, <1>3, WorkerKnown, Activated, WorkerOnly
  <1>4. CASE DirectCreated(p)
    <2>1. server.chunk[p] # None
      BY <1>1, <1>4, WorkerKnown DEF DirectCreated
    <2> QED
      BY <1>3, <1>4, <2>1 DEF DirectCreated, Jobs
  <1>5. CASE BeginStage(p) \/ StageGone(p)
    BY <1>2, <1>3, <1>5 DEF BeginStage, StageGone, Stopped, Jobs
  <1> QED
    BY <1>4, <1>5

\* A failed attempt is made again, staged, or ends the job.
LEMMA DirectFailsKeeps ==
  ASSUME UploadInv, NEW p \in Position, DirectFails(p)
  PROVE  UploadInv'
  <1>1. /\ run.active[p] # "no" /\ UNCHANGED <<source, disk, artifact, sidecar, server, wire, os, sealed>>
        /\ sidecar' \subseteq Position
    BY DEF DirectFails, UploadInv, Filed
  <1>2. CASE run' = NoRun
    BY <1>1, <1>2, RunStops
  <1>3. CASE SetActive(p, "stage")
    BY <1>1, <1>3, WorkerKnown, Activated, WorkerOnly DEF Jobs
  <1>4. CASE run.tries[p] < MaxRetries /\ run' = [run EXCEPT !.active[p] = "direct", !.tries[p] = @ + 1]
    <2>1. run \in Runs /\ disk.chunks[p] # None /\ run.pc = "loop"
      BY <1>1, WorkerKnown
    <2>2. run.active \in [Position -> Jobs] /\ run.tries \in [Position -> 0..MaxRetries]
      BY <2>1 DEF Runs
    <2>3. run.tries[p] + 1 \in 0..MaxRetries
      BY <1>4, <2>2, UploadAssumption
    <2>4. PICK active, tries : active = [run.active EXCEPT ![p] = "direct"] /\ tries = [run.tries EXCEPT ![p] = run.tries[p] + 1]
      OBVIOUS
    <2>5. active \in [Position -> Jobs] /\ tries \in [Position -> 0..MaxRetries] /\ active[p] = "direct"
      BY <2>2, <2>3, <2>4 DEF Jobs
    <2>6. run' = [run EXCEPT !.active = active, !.tries = tries]
      BY <1>4, <2>1, <2>4 DEF Runs
    <2>7. /\ run' \in Runs /\ run'.pc = run.pc /\ run'.job = run.job /\ run'.producer = run.producer
          /\ run'.ready = run.ready /\ run'.active = active
      BY <2>1, <2>5, <2>6 DEF Runs
    <2>8. run'.active = [run.active EXCEPT ![p] = run'.active[p]] /\ run'.active[p] = "direct"
      BY <2>4, <2>5, <2>7
    <2> QED
      BY <1>1, <2>1, <2>7, <2>8, WorkerOnly
  <1> QED
    BY <1>2, <1>3, <1>4 DEF DirectFails, Stopped

\* What is sent is the artifact.
LEMMA SendDirectKeeps ==
  ASSUME UploadInv, NEW p \in Position, SendDirect(p)
  PROVE  UploadInv'
  <1>1. /\ run.active[p] = "direct" /\ artifact[p] # None /\ wire' = wire \cup {<<p, artifact[p]>>} /\ SetActive(p, "sent")
        /\ UNCHANGED <<source, disk, artifact, sidecar, server, os, sealed>>
    BY DEF SendDirect
  <1>2. /\ run' \in Runs /\ run'.pc = run.pc /\ run'.job = run.job /\ run'.producer = run.producer
        /\ run'.ready = run.ready /\ run'.active = [run.active EXCEPT ![p] = run'.active[p]] /\ run'.active[p] = "sent"
    BY <1>1, Activated DEF Jobs
  <1>3. Sound(run', disk, server)
    BY <1>1, <1>2, WorkerKnown, WorkerMoves
  <1>4. PICK c \in Plain : OneText(c)
    BY DEF UploadInv
  <1>5. wire' \subseteq Position \X {c}
    BY <1>1, <1>4 DEF OneText
  <1>6. OneText(c)'
    BY <1>1, <1>2, <1>4, <1>5 DEF OneText
  <1>7. Filed' /\ Served'
    BY <1>1, <1>5, WorkerKnown DEF UploadInv, Filed, Served
  <1>8. Sound(run, disk, server)' /\ Kept(disk, artifact, server)'
    BY <1>1, <1>3 DEF UploadInv, Sound, Agree, Kept
  <1> QED
    BY <1>6, <1>7, <1>8 DEF UploadInv

\* The server publishes a chunk that it did not have, or had already.
LEMMA ServerStores ==
  ASSUME UploadInv, NEW p \in Position, NEW c \in Plain, OneText(c), Stored(p, c),
         server' = [server EXCEPT !.chunk[p] = c]
  PROVE  /\ server' \in Servers /\ server'.status = "pending" /\ server.status = "pending"
         /\ server'.manifest = server.manifest /\ server'.chunk[p] = c
         /\ \A q \in Position : server'.chunk[q] \in {server.chunk[q], c} /\ (server.chunk[q] # None => server'.chunk[q] # None)
  <1>1. server \in Servers /\ server.status = "pending" /\ server.chunk \in [Position -> Plain \cup {None}]
    BY DEF UploadInv, Filed, Stored, Servers
  <1>2. PICK chunk : chunk = [server.chunk EXCEPT ![p] = c]
    OBVIOUS
  <1>3. /\ chunk \in [Position -> Plain \cup {None}] /\ chunk[p] = c
        /\ \A q \in Position : chunk[q] \in {server.chunk[q], c}
    BY <1>1, <1>2
  <1>4. server' = [server EXCEPT !.chunk = chunk]
    BY <1>1, <1>2 DEF Servers
  <1>5. /\ server' \in Servers /\ server'.status = "pending" /\ server'.manifest = server.manifest
        /\ server'.chunk = chunk
    BY <1>1, <1>3, <1>4 DEF Servers
  <1>6. c # None
    BY NoneAssumption
  <1> QED
    BY <1>1, <1>3, <1>5, <1>6

\* The staged chunk is the recorded one.
LEMMA FinishStageKeeps ==
  ASSUME UploadInv, NEW p \in Position, FinishStage(p)
  PROVE  UploadInv'
  <1>1. PICK c \in Plain : OneText(c)
    BY DEF UploadInv
  <1>2. run.active[p] = "staged" /\ UNCHANGED <<source, disk, artifact, sidecar, wire, os, sealed>>
    BY DEF FinishStage
  <1>3. run.job.chunks[p] = c
    BY <1>1, <1>2, WorkerKnown DEF OneText
  <1>4. Stored(p, c) /\ server' = [server EXCEPT !.chunk[p] = c]
    BY <1>3 DEF FinishStage
  <1>5. /\ server' \in Servers /\ server'.status = "pending" /\ server.status = "pending"
        /\ server'.manifest = server.manifest /\ server'.chunk[p] = c
        /\ \A q \in Position : server'.chunk[q] \in {server.chunk[q], c} /\ (server.chunk[q] # None => server'.chunk[q] # None)
    BY <1>1, <1>4, ServerStores
  <1>6. c # None
    BY NoneAssumption
  <1>7. Sound(run', disk, server') /\ run'.ready \in {run.ready, None}
    <2>1. CASE run' = NoRun
      BY <2>1, NoRunSound
    <2>2. CASE SetActive(p, "acked")
      <3>1. /\ run' \in Runs /\ run'.pc = run.pc /\ run'.job = run.job /\ run'.producer = run.producer
            /\ run'.ready = run.ready /\ run'.active = [run.active EXCEPT ![p] = run'.active[p]] /\ run'.active[p] = "acked"
        BY <2>2, Activated DEF Jobs
      <3> QED
        BY <1>2, <1>5, <1>6, <3>1, WorkerKnown, WorkerMoves
    <2> QED
      BY <2>1, <2>2 DEF FinishStage, Stopped
  <1>8. OneText(c)'
    BY <1>1, <1>2, <1>5, <1>7 DEF OneText
  <1>9. Filed' /\ Served'
    BY <1>2, <1>5 DEF UploadInv, Filed, Served
  <1>10. Sound(run, disk, server)'
    BY <1>2, <1>7 DEF Sound, Agree
  <1>11. Kept(disk, artifact, server)'
    BY <1>2, <1>5, WorkerKnown DEF UploadInv, Kept, Record
  <1> QED
    BY <1>8, <1>9, <1>10, <1>11 DEF UploadInv

\* A completion is recorded when the server has the chunk.
LEMMA JoinWorkerKeeps ==
  ASSUME UploadInv, NEW p \in Position, JoinWorker(p)
  PROVE  UploadInv'
  <1>1. PICK job : job = [run.job EXCEPT !.complete = @ \cup {p}]
    OBVIOUS
  <1>2. /\ run.active[p] = "acked" /\ disk' = job /\ run' = [run EXCEPT !.job = job, !.active[p] = "saved"]
        /\ UNCHANGED <<source, artifact, sidecar, server, wire, os, sealed>>
    BY <1>1 DEF JoinWorker, Save
  <1>3. /\ run.pc = "loop" /\ disk.chunks[p] # None /\ run \in Runs /\ server.status # "none"
        /\ Agree(run.job, disk) /\ disk \in Record /\ disk # None /\ run.job \in Record /\ server.chunk[p] # None
    BY <1>2, WorkerKnown DEF UploadInv, Sound
  <1>4. /\ job \in Record /\ job.print = disk.print /\ job.state = disk.state /\ job.complete = disk.complete \cup {p}
        /\ job.manifest = disk.manifest /\ job.chunks = disk.chunks /\ disk.state # "complete"
    BY <1>1, <1>3 DEF Agree, Record
  <1>5. Kept(job, artifact, server)
    BY <1>3, <1>4 DEF UploadInv, Kept
  <1>6. PICK active : active = [run.active EXCEPT ![p] = "saved"]
    OBVIOUS
  <1>7. run.active \in [Position -> Jobs]
    BY <1>3 DEF Runs
  <1>8. active \in [Position -> Jobs] /\ active[p] = "saved" /\ \A q \in Position : q # p => active[q] = run.active[q]
    BY <1>6, <1>7 DEF Jobs
  <1>9. run' = [run EXCEPT !.job = job, !.active = active]
    BY <1>2, <1>3, <1>6 DEF Runs
  <1>10. /\ run' \in Runs /\ run'.pc = run.pc /\ run'.job = job /\ run'.producer = run.producer
         /\ run'.ready = run.ready /\ run'.active = active
    BY <1>3, <1>4, <1>8, <1>9 DEF Runs
  <1>11. Agree(job, job)
    BY <1>4 DEF Agree
  <1>12. Sound(run', job, server)
    BY <1>3, <1>4, <1>8, <1>10, <1>11 DEF UploadInv, Sound
  <1> QED
    BY <1>2, <1>3, <1>4, <1>5, <1>10, <1>12, RecordSaved

\* Artifacts of completed chunks may go.
LEMMA ArtifactsGo ==
  ASSUME UploadInv, artifact' \in [Position -> Plain \cup {None}], disk' = disk,
         \A p \in Position : artifact'[p] = artifact[p] \/ (artifact'[p] = None /\ (disk # None => p \in disk.complete)),
         Sound(run', disk, server), run'.ready = run.ready, run'.pc = run.pc, sidecar' \subseteq Position,
         UNCHANGED <<source, server, wire, os, sealed>>
  PROVE  UploadInv'
  <1>1. PICK c \in Plain : OneText(c)
    BY DEF UploadInv
  <1>2. OneText(c)'
    BY <1>1 DEF OneText
  <1>3. Filed' /\ Served'
    BY DEF UploadInv, Filed, Served
  <1>4. Sound(run, disk, server)'
    BY DEF Sound, Agree
  <1>5. Kept(disk, artifact, server)'
    BY DEF UploadInv, Kept
  <1> QED
    BY <1>2, <1>3, <1>4, <1>5 DEF UploadInv

\* The retry input goes after the completion is durable.
LEMMA RemoveRetryInputKeeps ==
  ASSUME UploadInv, NEW p \in Position, RemoveRetryInput(p)
  PROVE  UploadInv'
  <1>1. /\ run.active[p] = "saved" /\ SetActive(p, "no") /\ UNCHANGED <<source, disk, server, wire, os, sealed>>
        /\ (artifact' = [artifact EXCEPT ![p] = None] \/ UNCHANGED artifact) /\ sidecar' \subseteq Position
    BY DEF RemoveRetryInput, UploadInv, Filed
  <1>2. /\ run' \in Runs /\ run'.pc = run.pc /\ run'.job = run.job /\ run'.producer = run.producer
        /\ run'.ready = run.ready /\ run'.active = [run.active EXCEPT ![p] = run'.active[p]] /\ run'.active[p] = "no"
    BY <1>1, Activated DEF Jobs
  <1>3. Sound(run', disk, server)
    BY <1>1, <1>2, WorkerKnown, WorkerMoves
  <1>4. p \in disk.complete
    BY <1>1 DEF UploadInv, Sound
  <1>5. artifact \in [Position -> Plain \cup {None}]
    BY DEF UploadInv, Filed
  <1>6. /\ artifact' \in [Position -> Plain \cup {None}]
        /\ \A q \in Position : artifact'[q] = artifact[q] \/ (artifact'[q] = None /\ q = p)
    BY <1>1, <1>5
  <1> QED
    BY <1>1, <1>2, <1>3, <1>4, <1>6, ArtifactsGo

-----------------------------------------------------------------------------
(* The background executor and the surroundings.                           *)

\* A record that is saved while no process holds the store.
LEMMA IdleSaves ==
  ASSUME UploadInv, run.pc = "idle", disk # None, server.status # "none", disk' \in Record, disk'.print = disk.print,
         disk'.chunks = disk.chunks, Kept(disk', artifact, server), artifact' \in [Position -> Plain \cup {None}],
         \A p \in Position : artifact'[p] = artifact[p] \/ (artifact'[p] = None /\ p \in disk'.complete),
         UNCHANGED <<source, sidecar, run, server, wire, os, sealed>>
  PROVE  UploadInv'
  <1>1. PICK c \in Plain : OneText(c)
    BY DEF UploadInv
  <1>2. OneText(c)'
    BY <1>1 DEF OneText
  <1>3. Filed' /\ Served'
    BY DEF UploadInv, Filed, Served
  <1>4. run = NoRun
    BY DEF UploadInv, Sound
  <1>5. Sound(run', disk', server')
    BY <1>4, NoRunSound
  <1>6. Sound(run, disk, server)'
    BY <1>5 DEF Sound, Agree
  <1>7. Kept(disk, artifact, server)'
    BY DEF Kept
  <1> QED
    BY <1>2, <1>3, <1>6, <1>7 DEF UploadInv

\* What waits for the operating system was prepared completely.
LEMMA AwaitingKnown ==
  ASSUME UploadInv, Awaiting
  PROVE  /\ run.pc = "idle" /\ disk # None /\ disk \in Record /\ server.status # "none"
         /\ artifact \in [Position -> Plain \cup {None}] /\ \A p \in Position : disk.chunks[p] # None
  BY DEF Awaiting, UploadInv, Filed, Kept, Served

\* ingest_background_completion and reconcile_background keep the invariant.
LEMMA IngestKeeps ==
  ASSUME UploadInv, ReconcileBackground \/ \E p \in Position : Ingest(p)
  PROVE  UploadInv'
  <1>1. /\ run.pc = "idle" /\ disk # None /\ disk \in Record /\ server.status # "none"
        /\ artifact \in [Position -> Plain \cup {None}] /\ \A p \in Position : disk.chunks[p] # None
    BY AwaitingKnown DEF ReconcileBackground, Ingest
  <1>2. CASE ReconcileBackground
    <2>1. /\ disk' = Reconciled(disk) /\ Reconciled(disk) # None /\ UNCHANGED <<source, sidecar, run, server, wire, os, sealed>>
          /\ (artifact' = [p \in Position |-> IF p \in disk'.complete THEN None ELSE artifact[p]] \/ UNCHANGED artifact)
      BY <1>2 DEF ReconcileBackground, Save
    <2>2. /\ disk' \in Record /\ disk'.print = disk.print /\ disk'.chunks = disk.chunks
          /\ Kept(disk', artifact, server)
      BY <1>1, <2>1, ReconciledKept DEF UploadInv
    <2>3. /\ artifact' \in [Position -> Plain \cup {None}]
          /\ \A p \in Position : artifact'[p] = artifact[p] \/ (artifact'[p] = None /\ p \in disk'.complete)
      BY <1>1, <2>1
    <2> QED
      BY <1>1, <2>1, <2>2, <2>3, IdleSaves
  <1>3. ASSUME NEW p \in Position, Ingest(p) PROVE UploadInv'
    <2>1. /\ disk' = [disk EXCEPT !.complete = @ \cup {p}] /\ UNCHANGED <<source, sidecar, run, server, wire, os, sealed>>
          /\ (artifact' = [artifact EXCEPT ![p] = None] \/ UNCHANGED artifact) /\ os[p] = "acked"
      BY <1>3 DEF Ingest, Save
    <2>2. /\ disk' \in Record /\ disk'.print = disk.print /\ disk'.chunks = disk.chunks /\ disk'.state = disk.state
          /\ disk'.complete = disk.complete \cup {p} /\ disk'.manifest = disk.manifest
      BY <1>1, <2>1 DEF Record
    <2>3. server.chunk[p] # None
      BY <2>1 DEF UploadInv, Served
    <2>4. Kept(disk', artifact, server)
      BY <1>1, <2>2, <2>3 DEF UploadInv, Kept
    <2>5. /\ artifact' \in [Position -> Plain \cup {None}]
          /\ \A q \in Position : artifact'[q] = artifact[q] \/ (artifact'[q] = None /\ q \in disk'.complete)
      BY <1>1, <2>1, <2>2
    <2> QED
      BY <1>1, <2>1, <2>2, <2>4, <2>5, IdleSaves
  <1> QED
    BY <1>2, <1>3

\* The operating system sends what the artifacts hold.
LEMMA ExecutorKeeps ==
  ASSUME UploadInv, BackgroundWork \/ \E p \in Position : OsSends(p) \/ OsCreated(p)
  PROVE  UploadInv'
  <1>1. UNCHANGED <<source, disk, artifact, sidecar, run, server, sealed>>
    BY DEF BackgroundWork, OsSends, OsCreated, clientVars
  <1>2. PICK c \in Plain : OneText(c)
    BY DEF UploadInv
  <1>3. os \in [Position -> {"none", "issued", "acked"}]
    BY DEF UploadInv, Filed
  <1>4. /\ os' \in [Position -> {"none", "issued", "acked"}] /\ wire' \subseteq Position \X {c}
        /\ \A p \in Position : os'[p] = "acked" => server.chunk[p] # None
    <2>1. CASE BackgroundWork
      <3>1. /\ os' = [p \in Position |-> IF p \notin disk.complete /\ os[p] = "none" THEN "issued" ELSE os[p]]
            /\ wire' = wire
        BY <2>1 DEF BackgroundWork
      <3> QED
        BY <1>2, <1>3, <3>1 DEF OneText, UploadInv, Served
    <2>2. ASSUME NEW p \in Position, OsSends(p) PROVE os' = os /\ wire' \subseteq Position \X {c}
      BY <1>2, <2>2 DEF OsSends, OneText
    <2>3. ASSUME NEW p \in Position, OsCreated(p)
          PROVE  os' = [os EXCEPT ![p] = "acked"] /\ wire' = wire /\ server.chunk[p] # None
      BY <2>3 DEF OsCreated
    <2>4. CASE \E p \in Position : OsSends(p)
      BY <1>3, <2>2, <2>4 DEF UploadInv, Served
    <2>5. CASE \E p \in Position : OsCreated(p)
      BY <1>2, <1>3, <2>3, <2>5 DEF UploadInv, Served, OneText
    <2> QED
      BY <2>1, <2>4, <2>5
  <1>5. server.status # "none"
    <2>1. CASE BackgroundWork
      BY <2>1, AwaitingKnown DEF BackgroundWork
    <2>2. CASE \E p \in Position : OsSends(p) \/ OsCreated(p)
      BY <2>2 DEF OsSends, OsCreated, UploadInv, Served
    <2> QED
      BY <2>1, <2>2
  <1>6. OneText(c)'
    BY <1>1, <1>2, <1>4 DEF OneText
  <1>7. Filed' /\ Served'
    BY <1>1, <1>4, <1>5 DEF UploadInv, Filed, Served
  <1>8. Sound(run, disk, server)' /\ Kept(disk, artifact, server)'
    BY <1>1 DEF UploadInv, Sound, Agree, Kept
  <1> QED
    BY <1>6, <1>7, <1>8 DEF UploadInv

\* A request arrives, late or not, or is lost.
LEMMA DeliverKeeps ==
  ASSUME UploadInv, NEW p \in Position, NEW c \in Plain, Deliver(p, c) \/ Drop(p, c)
  PROVE  UploadInv'
  <1>1. /\ <<p, c>> \in wire /\ wire' = wire \ {<<p, c>>}
        /\ UNCHANGED <<source, disk, artifact, sidecar, run, os, sealed>>
    BY DEF Deliver, Drop, clientVars
  <1>2. PICK c0 \in Plain : OneText(c0)
    BY DEF UploadInv
  <1>3. c0 = c /\ server.status # "none"
    BY <1>1, <1>2 DEF OneText, UploadInv, Served
  <1>4. CASE server' = server
    <2>1. OneText(c0)'
      BY <1>1, <1>2, <1>4 DEF OneText
    <2>2. Filed' /\ Served'
      BY <1>1, <1>3, <1>4 DEF UploadInv, Filed, Served
    <2>3. Sound(run, disk, server)' /\ Kept(disk, artifact, server)'
      BY <1>1, <1>4 DEF UploadInv, Sound, Agree, Kept
    <2> QED
      BY <2>1, <2>2, <2>3 DEF UploadInv
  <1>5. CASE Stored(p, c) /\ server' = [server EXCEPT !.chunk[p] = c]
    <2>1. /\ server' \in Servers /\ server'.status = "pending" /\ server.status = "pending"
          /\ server'.manifest = server.manifest
          /\ \A q \in Position : server'.chunk[q] \in {server.chunk[q], c} /\ (server.chunk[q] # None => server'.chunk[q] # None)
      BY <1>2, <1>3, <1>5, ServerStores
    <2>2. OneText(c0)'
      BY <1>1, <1>2, <1>3, <2>1 DEF OneText
    <2>3. Filed' /\ Served'
      BY <1>1, <2>1 DEF UploadInv, Filed, Served
    <2>4. Kept(disk, artifact, server)'
      BY <1>1, <2>1 DEF UploadInv, Filed, Kept, Record
    <2>5. Sound(run, disk, server)'
      BY <1>1, <2>1 DEF UploadInv, Sound, Agree
    <2> QED
      BY <2>2, <2>3, <2>4, <2>5 DEF UploadInv
  <1> QED
    BY <1>4, <1>5 DEF Deliver, Drop

\* The file changes, the transfer ends, the job is revoked or discarded.
LEMMA SurroundingsKeep ==
  ASSUME UploadInv, TransferEnds \/ Revoke \/ Discard \/ \E s \in Sources : SourceChanges(s)
  PROVE  UploadInv'
  <1>1. PICK c \in Plain : OneText(c)
    BY DEF UploadInv
  <1>2. UNCHANGED <<run, wire, os, sealed>>
    BY DEF TransferEnds, Revoke, Discard, SourceChanges, clientVars
  <1>3. server \in Servers
    BY DEF UploadInv, Filed
  <1>4. \/ server' = server
        \/ server.status \in {"pending", "available"} /\ server' = [server EXCEPT !.status = "gone"]
    BY DEF TransferEnds, Revoke, Discard, SourceChanges
  <1>5. /\ server' \in Servers /\ server'.chunk = server.chunk /\ server'.manifest = server.manifest
        /\ (server'.status = server.status \/ (server.status \in {"pending", "available"} /\ server'.status = "gone"))
    BY <1>3, <1>4 DEF Servers
  <1>6. \/ UNCHANGED <<disk, artifact, sidecar>>
        \/ run.pc = "idle" /\ disk' = None /\ artifact' = [p \in Position |-> None] /\ sidecar' = {}
    BY DEF TransferEnds, Revoke, Discard, SourceChanges, clientVars
  <1>7. source' \in Sources
    BY DEF TransferEnds, Revoke, Discard, SourceChanges, UploadInv, Filed
  <1>8. OneText(c)'
    BY <1>1, <1>2, <1>5, <1>6 DEF OneText
  <1>9. Filed'
    BY <1>2, <1>5, <1>6, <1>7 DEF UploadInv, Filed
  <1>10. Served'
    BY <1>2, <1>5, <1>6 DEF UploadInv, Served
  <1>11. Kept(disk, artifact, server)'
    BY <1>5, <1>6 DEF UploadInv, Kept
  <1>12. Sound(run, disk, server)'
    <2>1. CASE run.pc = "idle"
      <3>1. Sound(NoRun, disk', server') /\ run' = NoRun
        BY <1>2, <2>1, NoRunSound DEF UploadInv, Sound
      <3> QED
        BY <3>1 DEF Sound, Agree
    <2>2. CASE run.pc # "idle"
      BY <1>2, <1>5, <1>6, <2>2 DEF UploadInv, Sound, Agree
    <2> QED
      BY <2>1, <2>2
  <1> QED
    BY <1>8, <1>9, <1>10, <1>11, <1>12 DEF UploadInv

-----------------------------------------------------------------------------
\* One step of anybody keeps the invariant.
LEMMA UploadStep ==
  ASSUME UploadInv, [Next]_vars
  PROVE  UploadInv'
  <1>1. CASE UNCHANGED vars
    BY <1>1 DEF vars, UploadInv, Filed, Sound, Agree, Kept, Served, OneText
  <1>2. CASE RunStep
    BY <1>2, ReserveKeeps, ReservedKeeps, OpensKeep, SealDescriptorKeeps, PublishDescriptorKeeps, ReconcileKeeps,
       StartProducerKeeps, PrepareOneKeeps, PersistArtifactKeeps, RecordChunkKeeps, HandsOverKeeps, EndsKeep,
       FinishKeeps, CompleteTransferKeeps DEF RunStep
  <1>3. ASSUME NEW p \in Position, WorkerStep(p) PROVE UploadInv'
    BY <1>3, StartUploadKeeps, SendDirectKeeps, AnswersKeep, DirectFailsKeeps, FinishStageKeeps, JoinWorkerKeeps,
       RemoveRetryInputKeeps DEF WorkerStep
  <1>4. ASSUME NEW background \in Background, NEW turbo \in Turbo, NEW policy \in Policies,
               RunNew(background, turbo, policy)
        PROVE  UploadInv'
    BY <1>4, RunNewKeeps
  <1>5. CASE Resume \/ Stop \/ BackgroundWork \/ ReconcileBackground \/ TransferEnds \/ Revoke \/ Discard
    BY <1>5, OpensKeep, EndsKeep, ExecutorKeeps, IngestKeeps, SurroundingsKeep
  <1>6. CASE \E p \in Position : OsSends(p) \/ OsCreated(p)
    BY <1>6, ExecutorKeeps
  <1>7. CASE \E p \in Position : Ingest(p)
    BY <1>7, IngestKeeps
  <1>8. CASE \E s \in Sources : SourceChanges(s)
    BY <1>8, SurroundingsKeep
  <1>9. CASE \E p \in Position, c \in Plain : Deliver(p, c) \/ Drop(p, c)
    BY <1>9, DeliverKeeps
  <1> QED
    BY <1>1, <1>2, <1>3, <1>4, <1>5, <1>6, <1>7, <1>8, <1>9 DEF Next

\* The invariant implies every state property of the upload.
LEMMA UploadInvImplies ==
  ASSUME UploadInv
  PROVE  TypeOK /\ NonceUsedOnce /\ RetryInputKept /\ AvailableMatchesManifest /\ ReceiptMeansAvailable
  <1>1. PICK c \in Plain : OneText(c)
    BY DEF UploadInv
  <1>2. c # None
    BY NoneAssumption
  <1>3. TypeOK
    <2>1. run \in Runs /\ (run.pc = "idle" => run = NoRun)
      BY DEF UploadInv, Sound
    <2>2. NoRun.pc = "idle"
      BY DEF NoRun
    <2> QED
      BY <2>1, <2>2 DEF UploadInv, Filed, Runs, Servers, TypeOK
  <1>4. NonceUsedOnce
    <2> SUFFICES ASSUME NEW p \in Position PROVE Cardinality(sealed[p]) <= 1
      BY DEF NonceUsedOnce
    <2>1. sealed[p] = {} \/ sealed[p] = {c}
      BY <1>1 DEF OneText
    <2>2. Cardinality({}) = 0 /\ Cardinality({c}) = 1
      BY FS_EmptySet, FS_Singleton
    <2> QED
      BY <2>1, <2>2
  <1>5. RetryInputKept
    BY <1>1, <1>2 DEF RetryInputKept, Recorded, OneText, UploadInv, Kept
  <1>6. AvailableMatchesManifest
    BY <1>1 DEF AvailableMatchesManifest, OneText, UploadInv, Served
  <1>7. ReceiptMeansAvailable
    BY DEF ReceiptMeansAvailable, UploadInv, Kept
  <1> QED
    BY <1>3, <1>4, <1>5, <1>6, <1>7

\* The server learns only what is saved.
LEMMA EnvelopesSaved ==
  ASSUME UploadInv, [Next]_vars
  PROVE  EnvelopesDurableStep
  <1>1. server \in Servers
    BY DEF UploadInv, Filed
  <1>2. CASE PublishDescriptor \/ CompleteTransfer
    <2>1. disk # None /\ run.job.manifest = disk.manifest /\ run.job.descriptor = disk.descriptor
      BY <1>2, AtWork DEF PublishDescriptor, CompleteTransfer, Agree
    <2>2. CASE PublishDescriptor
      BY <1>1, <2>1, <2>2 DEF PublishDescriptor, Servers, EnvelopesDurableStep
    <2>3. CASE CompleteTransfer
      BY <1>1, <2>1, <2>3 DEF CompleteTransfer, Servers, EnvelopesDurableStep
    <2> QED
      BY <1>2, <2>2, <2>3
  <1>3. CASE server'.manifest = server.manifest /\ server'.descriptor = server.descriptor
    BY <1>3 DEF EnvelopesDurableStep
  <1>4. CASE Reserve \/ TransferEnds \/ Revoke
    BY <1>1, <1>3, <1>4 DEF Reserve, TransferEnds, Revoke, Servers
  <1>5. ASSUME NEW p \in Position, NEW c \in Plain, Deliver(p, c) \/ Drop(p, c) PROVE EnvelopesDurableStep
    BY <1>1, <1>3, <1>5 DEF Deliver, Drop, Servers
  <1>6. ASSUME NEW p \in Position, WorkerStep(p) \/ OsSends(p) \/ OsCreated(p) \/ Ingest(p) PROVE EnvelopesDurableStep
    <2>1. server' = server \/ server' = [server EXCEPT !.chunk[p] = run.job.chunks[p]]
      BY <1>6 DEF WorkerStep, StartUpload, SendDirect, DirectCreated, DirectFails, BeginStage, FinishStage, StageGone,
                  JoinWorker, RemoveRetryInput, OsSends, OsCreated, Ingest
    <2> QED
      BY <1>1, <1>3, <2>1 DEF Servers
  <1>7. CASE RunStep
    <2>1. CASE \/ SaveReservation \/ EnterPreparing \/ Open \/ SealDescriptor \/ DescriptorSettled
               \/ Reconcile \/ SweepSidecars \/ StartProducer \/ PrepareOne \/ PersistArtifact \/ RecordChunk
               \/ AwaitExecution \/ LoopDone \/ FinishPreparing \/ EnterFinalizing \/ SaveReceipt
      <3>1. server' = server
        BY <2>1 DEF SaveReservation, EnterPreparing, Open, SealDescriptor, DescriptorSettled, Reconcile, SweepSidecars,
                    StartProducer, PrepareOne, PersistArtifact, RecordChunk, AwaitExecution, LoopDone, FinishPreparing,
                    EnterFinalizing, SaveReceipt
      <3> QED
        BY <1>3, <3>1
    <2> QED
      BY <1>2, <1>4, <1>7, <2>1 DEF RunStep
  <1>8. CASE \/ Resume \/ Stop \/ BackgroundWork \/ ReconcileBackground \/ Discard \/ UNCHANGED vars
             \/ \E s \in Sources : SourceChanges(s)
             \/ \E background \in Background, turbo \in Turbo, policy \in Policies : RunNew(background, turbo, policy)
    <2>1. server' = server
      BY <1>8 DEF Resume, Stop, BackgroundWork, ReconcileBackground, Discard, vars, SourceChanges, RunNew
    <2> QED
      BY <1>3, <2>1
  <1> QED
    BY <1>4, <1>5, <1>6, <1>7, <1>8 DEF Next

\* upload.rs continue_job(), prepare_one() and persist(), for any number of chunks,
\* workers and retries: whatever happens to the file and wherever the process stops,
\* one nonce seals one text, a recorded chunk can be sent again until its completion
\* is durable, an available transfer has the bytes of its manifest, a receipt is that
\* of a completed one, and the server learns no envelope that a crash forgets.
THEOREM UploadStaysExact == Spec => UploadExact
  <1>1. Init => UploadInv
    <2> SUFFICES ASSUME Init PROVE UploadInv
      OBVIOUS
    <2>1. run = NoRun /\ NoRun.ready = None /\ NoRun.pc = "idle" /\ Sound(NoRun, disk, server)
      BY NoRunSound DEF Init
    <2>2. Filed
      BY DEF Init, Filed, Sources, Servers
    <2>3. Served
      BY <2>1 DEF Init, Served
    <2>4. OneText("old")
      BY <2>1 DEF Init, OneText
    <2>5. Kept(disk, artifact, server)
      BY DEF Init, Kept
    <2> QED
      BY <2>1, <2>2, <2>3, <2>4, <2>5 DEF UploadInv, Plain
  <1>2. UploadInv /\ [Next]_vars => UploadInv'
    BY UploadStep
  <1>3. UploadInv => TypeOK /\ NonceUsedOnce /\ RetryInputKept /\ AvailableMatchesManifest /\ ReceiptMeansAvailable
    BY UploadInvImplies
  <1>4. UploadInv /\ [Next]_vars => EnvelopesDurableStep
    BY EnvelopesSaved
  <1> QED
    BY <1>1, <1>2, <1>3, <1>4, PTL DEF Spec, UploadExact
=============================================================================
