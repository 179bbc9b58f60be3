-------------------------- MODULE ChunkStageProofs --------------------------
(***************************************************************************)
(* Staged uploads, proved for every number of identifiers, ciphertexts and *)
(* handlers, every chunk size and every limit on parts and rows.           *)
(***************************************************************************)
EXTENDS ChunkStage, SequenceTheorems, TLAPS

(* The inductive invariant.                                                *)

\* The recorded parts follow one another and cover the chunk up to the offset.
Tiled(parts, offset) ==
  /\ parts = <<>> => offset = 0
  /\ parts # <<>> => offset = parts[Len(parts)].offset + parts[Len(parts)].size
  /\ \A n \in 1..Len(parts) : parts[n].offset + parts[n].size <= offset
  /\ \A i \in 1..offset : \E n \in 1..Len(parts) : parts[n].offset < i /\ i <= parts[n].offset + parts[n].size

\* The file holds their bytes.
Holds(f, parts, offset) ==
  /\ Len(f) >= offset
  /\ \A n \in 1..Len(parts) : \A i \in 1..Size :
       parts[n].offset < i /\ i <= parts[n].offset + parts[n].size => f[i] = parts[n].content

Intact(f, r) == Tiled(r.parts, r.offset) /\ (f # None => Holds(f, r.parts, r.offset))

\* What is true of a stage row and its file.
StageSound(u) ==
  row[u] # None =>
    /\ row[u].content = declared[u]
    /\ row[u].state = "complete" => PublishedStage(row[u])
    /\ row[u].released => published /\ file[u] = None
    /\ row[u].state # "complete" => Intact(file[u], row[u])

\* The points at which a handler holds the lock of its stage, and those at
\* which it works with the row that it loaded.
Holding == {"recovered", "write", "record", "verify", "finalize", "publish", "seal", "undo", "forget"}
Loaded == {"check", "recover", "recovered", "write", "record", "verify", "finalize", "publish"}

\* What a handler knows while it runs.
HandlerSound(h) ==
  LET p == proc[h]
      u == p.upload
      m == p.mem
  IN /\ p.pc \in Holding => lock[u] = h /\ row[u] # None
     /\ p.pc \in Loaded => m \in Row /\ m.content = declared[u]
     /\ p.op = "part" => p.part \in Part
     /\ p.pc \in {"seal", "unlink", "release"} => published /\ chunk = declared[u]
     /\ p.pc = "release" => file[u] = None
     /\ p.pc \in {"write", "record"} =>
          /\ p.op = "part" /\ PartFits(p.part, m) /\ Tiled(m.parts, m.offset)
          /\ row[u].parts = m.parts
          /\ row[u].state = "complete" \/ (row[u].state = "receiving" /\ row[u].offset = m.offset)
          /\ file[u] # None /\ Holds(file[u], m.parts, m.offset)
     /\ p.pc = "record" =>
          /\ Len(file[u]) = p.part.offset + p.part.size
          /\ \A i \in 1..Size : p.part.offset < i /\ i <= p.part.offset + p.part.size => file[u][i] = p.part.content
     /\ p.pc \in {"recovered", "verify", "finalize"} =>
          /\ row[u].parts = m.parts /\ row[u].offset \in {m.offset, Size}
          /\ m.state # "complete" => Intact(file[u], m)
     /\ p.pc = "recovered" => m.state = "finalizing"
     /\ p.pc = "finalize" => m.state = "receiving" /\ m.offset = Size
     /\ p.pc \in {"finalize", "publish"} => file[u] = Whole(m.content)
     /\ p.pc = "forget" => \/ p.op = "destroy" /\ row[u].state # "finalizing"
                           \/ p.op = "prune" /\ (row[u].expired \/ phase = "deleting")

StageInv ==
  /\ TypeOK
  /\ published => chunk # None /\ copied = Whole(chunk)
  /\ \A u \in Upload : StageSound(u)
  /\ \A h \in Handler : HandlerSound(h)

-----------------------------------------------------------------------------
(* Files and lists of parts are sequences.                                 *)

\* A staging file is a sequence of at most Size units, and the other way round.
LEMMA FileSequence == \A f : f \in File <=> f \in Seq(Content) /\ Len(f) <= Size
  <1>1. ASSUME NEW f \in File
        PROVE  f \in Seq(Content) /\ Len(f) <= Size
    BY StageAssumption DEF File
  <1>2. ASSUME NEW f \in Seq(Content), Len(f) <= Size
        PROVE  f \in File
    BY <1>2, StageAssumption DEF File
  <1> QED
    BY <1>1, <1>2

PartList == UNION {[1..n -> Part] : n \in 0..MaxParts}

\* So is the list of recorded parts.
LEMMA PartSequence == \A s : s \in PartList <=> s \in Seq(Part) /\ Len(s) <= MaxParts
  <1>1. ASSUME NEW f \in PartList
        PROVE  f \in Seq(Part) /\ Len(f) <= MaxParts
    BY StageAssumption DEF PartList
  <1>2. ASSUME NEW f \in Seq(Part), Len(f) <= MaxParts
        PROVE  f \in PartList
    BY <1>2, StageAssumption DEF PartList
  <1> QED
    BY <1>1, <1>2

\* Parts that follow one another stand for the bytes that the file holds.
LEMMA IntactPrefix ==
  ASSUME NEW r \in Row, NEW f \in File, Tiled(r.parts, r.offset), Holds(f, r.parts, r.offset)
  PROVE  PrefixValid(f, r)
  <1> DEFINE parts == r.parts
             k == IF parts = <<>> THEN 0 ELSE parts[Len(parts)].offset + parts[Len(parts)].size
             Covers(p, i) == p.offset < i /\ i <= p.offset + p.size
             u == Units(parts)
  <1>1. parts \in Seq(Part) /\ r.offset \in 0..Size /\ f \in Seq(Content)
    BY PartSequence, FileSequence DEF Row, PartList
  <1>2. k = r.offset
    BY <1>1 DEF Tiled
  <1>3. u = [i \in 1..k |-> (CHOOSE p \in {parts[n] : n \in 1..Len(parts)} : Covers(p, i)).content]
    BY DEF Units
  <1>4. Len(u) = r.offset /\ DOMAIN u = 1..r.offset
    BY <1>1, <1>2, <1>3, StageAssumption
  <1>5. ASSUME NEW i \in 1..r.offset
        PROVE  u[i] = f[i]
    <2>1. PICK n \in 1..Len(parts) : Covers(parts[n], i)
      BY DEF Tiled
    <2> DEFINE c == CHOOSE p \in {parts[m] : m \in 1..Len(parts)} : Covers(p, i)
    <2>2. c \in {parts[m] : m \in 1..Len(parts)} /\ Covers(c, i)
      BY <2>1
    <2>3. u[i] = c.content
      BY <1>2, <1>3
    <2> HIDE DEF c, u
    <2>4. PICK m \in 1..Len(parts) : c = parts[m]
      BY <2>2
    <2>5. i \in 1..Size
      BY <1>1, StageAssumption
    <2> QED
      BY <2>2, <2>3, <2>4, <2>5 DEF Holds
  <1>6. f # None /\ Len(f) >= r.offset
    BY MissingAssumption DEF Holds
  <1> HIDE DEF u
  <1>7. \A i \in 1..Len(u) : f[i] = u[i]
    BY <1>4, <1>5
  <1> QED
    BY <1>4, <1>6, <1>7 DEF PrefixValid, u

\* The numbers of a part.
LEMMA PartNumbers == \A p \in Part : p.offset \in Nat /\ p.size \in Nat \ {0} /\ p.content \in Content
  BY StageAssumption DEF Part

\* A part that fits extends the list.
LEMMA TiledAppend ==
  ASSUME NEW parts \in Seq(Part), NEW offset \in 0..Size, NEW p \in Part, p.offset = offset, Tiled(parts, offset)
  PROVE  Tiled(Append(parts, p), p.offset + p.size)
  <1> DEFINE all == Append(parts, p)
             end == p.offset + p.size
  <1>1. /\ all \in Seq(Part) /\ Len(all) = Len(parts) + 1 /\ all[Len(all)] = p
        /\ \A n \in 1..Len(parts) : all[n] = parts[n]
    OBVIOUS
  <1>2. \A n \in 1..Len(parts) : parts[n] \in Part
    OBVIOUS
  <1> HIDE DEF all
  <1>3. p.offset \in Nat /\ p.size \in Nat \ {0} /\ offset \in Nat
    BY StageAssumption DEF Part
  <1>4. \A n \in 1..Len(all) : all[n].offset + all[n].size <= end
    <2> SUFFICES ASSUME NEW n \in 1..Len(all)
                 PROVE  all[n].offset + all[n].size <= end
      OBVIOUS
    <2>1. CASE n = Len(all)
      BY <1>1, <1>3, <2>1
    <2>2. CASE n \in 1..Len(parts)
      <3>1. parts[n].offset \in Nat /\ parts[n].size \in Nat
        BY <1>2, <2>2, PartNumbers
      <3>2. parts[n].offset + parts[n].size <= offset
        BY <2>2 DEF Tiled
      <3> QED
        BY <1>1, <1>3, <2>2, <3>1, <3>2
    <2> QED
      BY <1>1, <2>1, <2>2
  <1>5. \A i \in 1..end : \E n \in 1..Len(all) : all[n].offset < i /\ i <= all[n].offset + all[n].size
    <2> SUFFICES ASSUME NEW i \in 1..end
                 PROVE  \E n \in 1..Len(all) : all[n].offset < i /\ i <= all[n].offset + all[n].size
      OBVIOUS
    <2>1. CASE i > offset
      BY <1>1, <1>3, <2>1
    <2>2. CASE i <= offset
      <3>1. PICK n \in 1..Len(parts) : parts[n].offset < i /\ i <= parts[n].offset + parts[n].size
        BY <1>3, <2>2 DEF Tiled
      <3> QED
        BY <1>1, <3>1
    <2> QED
      BY <1>3, <2>1, <2>2
  <1>6. all # <<>>
    BY <1>1
  <1> QED
    BY <1>1, <1>4, <1>5, <1>6 DEF Tiled, all

\* ftruncate and write keep what the recorded parts stand for, and add the part.
LEMMA AppendedFile ==
  ASSUME NEW f \in File, NEW parts \in Seq(Part), NEW offset \in 0..Size, NEW p \in Part, NEW n \in 0..p.size,
         p.offset = offset, p.offset + p.size <= Size, Tiled(parts, offset), Holds(f, parts, offset)
  PROVE  /\ Appended(f, offset, p, n) \in File
         /\ Len(Appended(f, offset, p, n)) = offset + n
         /\ Holds(Appended(f, offset, p, n), parts, offset)
         /\ \A i \in 1..Size : offset < i /\ i <= offset + n => Appended(f, offset, p, n)[i] = p.content
  <1> DEFINE head == SubSeq(f, 1, offset)
             tail == [i \in 1..n |-> p.content]
             new == head \o tail
  <1>1. f \in Seq(Content) /\ Len(f) >= offset /\ offset \in Nat /\ n \in Nat /\ offset + n <= Size
    BY FileSequence, StageAssumption DEF Holds, Part
  <1>2. head \in Seq(Content) /\ Len(head) = offset /\ \A i \in 1..offset : head[i] = f[i]
    BY <1>1
  <1>3. tail \in Seq(Content) /\ Len(tail) = n /\ \A i \in 1..n : tail[i] = p.content
    BY <1>1 DEF Part
  <1> HIDE DEF head, tail
  <1>4. /\ new \in Seq(Content) /\ Len(new) = offset + n
        /\ \A i \in 1..offset : new[i] = head[i]
        /\ \A i \in 1..(offset + n) : i > offset => new[i] = tail[i - offset]
    <2>1. /\ head \o tail \in Seq(Content) /\ Len(head \o tail) = Len(head) + Len(tail)
          /\ \A i \in 1..(Len(head) + Len(tail)) :
               (head \o tail)[i] = IF i <= Len(head) THEN head[i] ELSE tail[i - Len(head)]
      BY <1>2, <1>3, ConcatProperties
    <2> QED
      BY <1>1, <1>2, <1>3, <2>1
  <1> HIDE DEF new
  <1>5. new \in File
    BY <1>1, <1>4, FileSequence
  <1>6. \A i \in 1..Size : offset < i /\ i <= offset + n => new[i] = p.content
    BY <1>1, <1>3, <1>4
  <1>7. Holds(new, parts, offset)
    <2>1. Len(new) >= offset
      BY <1>1, <1>4
    <2>2. ASSUME NEW k \in 1..Len(parts), NEW i \in 1..Size, parts[k].offset < i, i <= parts[k].offset + parts[k].size
          PROVE  new[i] = parts[k].content
      <3>1. parts[k] \in Part
        OBVIOUS
      <3>2. parts[k].offset \in Nat /\ parts[k].size \in Nat
        BY <3>1, PartNumbers
      <3>3. parts[k].offset + parts[k].size <= offset
        BY DEF Tiled
      <3>4. i \in 1..offset
        BY <1>1, <2>2, <3>2, <3>3
      <3> QED
        BY <1>1, <1>2, <1>4, <2>2, <3>4 DEF Holds
    <2> QED
      BY <2>1, <2>2 DEF Holds
  <1> QED
    BY <1>4, <1>5, <1>6, <1>7 DEF Appended, new, head, tail

-----------------------------------------------------------------------------
(* How a step changes a handler, its lock and its row.                     *)

\* A handler goes on ...
LEMMA GoesOn ==
  ASSUME TypeOK, NEW h \in Handler, NEW pc, Goto(h, pc)
  PROVE  /\ proc'[h].pc = pc /\ proc'[h].mem = proc[h].mem /\ proc'[h].op = proc[h].op
         /\ proc'[h].upload = proc[h].upload /\ proc'[h].part = proc[h].part
         /\ \A q \in Handler : q # h => proc'[q] = proc[q]
  <1>1. proc[h] \in Proc
    BY DEF TypeOK
  <1>2. proc'[h] = [proc[h] EXCEPT !.pc = pc] /\ \A q \in Handler : q # h => proc'[q] = proc[q]
    BY DEF TypeOK, Goto
  <1> QED
    BY <1>1, <1>2 DEF Proc, NoProc

\* ... with or without the row that it loaded.
LEMMA GoesOnWith ==
  ASSUME TypeOK, NEW h \in Handler, NEW pc, NEW m, GotoWith(h, pc, m)
  PROVE  /\ proc'[h].pc = pc /\ proc'[h].mem = m /\ proc'[h].op = proc[h].op
         /\ proc'[h].upload = proc[h].upload /\ proc'[h].part = proc[h].part
         /\ \A q \in Handler : q # h => proc'[q] = proc[q]
  <1>1. proc[h] \in Proc
    BY DEF TypeOK
  <1>2. proc'[h] = [proc[h] EXCEPT !.pc = pc, !.mem = m] /\ \A q \in Handler : q # h => proc'[q] = proc[q]
    BY DEF TypeOK, GotoWith
  <1> QED
    BY <1>1, <1>2 DEF Proc, NoProc

Points == {"check", "recover", "recovered", "lock", "write", "record", "verify", "finalize",
           "publish", "seal", "undo", "unlink", "release", "forget"}

\* A handler that goes on is still a handler.
LEMMA GoesOnTyped ==
  ASSUME TypeOK, NEW h \in Handler, proc[h].pc # "idle", NEW pc \in Points,
         Goto(h, pc) \/ \E m \in Row \cup {None} : GotoWith(h, pc, m)
  PROVE  proc' \in [Handler -> Proc]
  <1>1. proc[h] \in Proc /\ proc[h] # NoProc
    BY DEF TypeOK, NoProc
  <1>2. CASE Goto(h, pc)
    <2>1. [proc[h] EXCEPT !.pc = pc] \in Proc
      BY <1>1 DEF Proc, Points
    <2> QED
      BY <1>2, <2>1 DEF Goto, TypeOK
  <1>3. ASSUME NEW m \in Row \cup {None}, GotoWith(h, pc, m)
        PROVE  proc' \in [Handler -> Proc]
    <2>1. [proc[h] EXCEPT !.pc = pc, !.mem = m] \in Proc
      BY <1>1 DEF Proc, Points
    <2> QED
      BY <1>3, <2>1 DEF GotoWith, TypeOK
  <1> QED
    BY <1>2, <1>3

\* A handler that has finished holds nothing.
LEMMA Ends ==
  ASSUME TypeOK, NEW h \in Handler, End(h)
  PROVE  /\ proc'[h] = NoProc /\ proc'[h].pc = "idle" /\ proc'[h].op = "none"
         /\ \A q \in Handler : q # h => proc'[q] = proc[q]
         /\ \A v \in Upload : lock'[v] = IF lock[v] = h THEN None ELSE lock[v]
         /\ proc' \in [Handler -> Proc] /\ lock' \in [Upload -> Handler \cup {None}]
  BY DEF End, Unlocked, TypeOK, NoProc, Proc

\* A handler on its way works on a stage.
LEMMA Working ==
  ASSUME TypeOK, NEW h \in Handler, proc[h].pc # "idle"
  PROVE  /\ proc[h].upload \in Upload /\ proc[h].pc \in Points /\ proc[h].mem \in Row \cup {None}
         /\ proc[h].part \in Part \cup {None}
  BY DEF TypeOK, Proc, NoProc, Points

\* What may happen to a stage behind the back of the handler that holds its
\* lock: it is found published, released or expired.
Gentle(r, s) ==
  /\ s # None /\ s.parts = r.parts /\ s.content = r.content
  /\ s.state \in {r.state, "complete"} /\ (r.expired => s.expired)
  /\ s.offset \in {r.offset, Size} /\ (s.offset # r.offset => s.state = "complete")

\* What a step of h leaves to the other handlers.
Polite(h) ==
  /\ \A q \in Handler : q # h => proc'[q] = proc[q]
  /\ \A v \in Upload : \A q \in Handler : q # h /\ lock[v] = q /\ proc[q].pc \in Holding /\ proc[q].upload = v =>
       lock'[v] = q /\ file'[v] = file[v] /\ (row[v] # None => Gentle(row[v], row'[v]))
  /\ published => published' /\ chunk' = chunk
  /\ \A v \in Upload : /\ declared[v] # None => declared'[v] = declared[v]
                       /\ published /\ file[v] = None => file'[v] = None
  /\ phase = "deleting" => phase' = "deleting"

\* Then what the others know stays true.
LEMMA OthersSound ==
  ASSUME StageInv, NEW h, Polite(h), NEW q \in Handler, q # h
  PROVE  HandlerSound(q)'
  <1>1. CASE proc[q].pc = "idle"
    BY <1>1 DEF HandlerSound, Polite, StageInv, TypeOK, Proc, NoProc, Holding, Loaded
  <1>2. CASE proc[q].pc # "idle"
    <2>1. PICK u \in Upload : u = proc[q].upload
      BY <1>2, Working DEF StageInv
    <2>2. proc'[q] = proc[q]
      BY DEF Polite
    <2>3. HandlerSound(q)
      BY DEF StageInv
    <2>4. ASSUME proc[q].pc \in Holding
          PROVE  /\ lock'[u] = q /\ row'[u] # None /\ file'[u] = file[u] /\ Gentle(row[u], row'[u])
      BY <2>1, <2>3, <2>4 DEF HandlerSound, Polite, Gentle
    <2>5. proc[q].pc \in Loaded => proc[q].mem \in Row /\ proc[q].mem.content = declared'[u]
      <3> SUFFICES ASSUME proc[q].pc \in Loaded
                   PROVE  proc[q].mem \in Row /\ proc[q].mem.content = declared'[u]
        OBVIOUS
      <3>1. proc[q].mem \in Row /\ proc[q].mem.content = declared[u]
        BY <2>1, <2>3 DEF HandlerSound
      <3>2. declared[u] # None
        BY <3>1, StageAssumption DEF Row
      <3> QED
        BY <3>1, <3>2 DEF Polite
    <2>6. proc[q].pc \in {"seal", "unlink", "release"} => published' /\ chunk' = declared'[u]
      <3> SUFFICES ASSUME proc[q].pc \in {"seal", "unlink", "release"}
                   PROVE  published' /\ chunk' = declared'[u]
        OBVIOUS
      <3>1. published /\ chunk = declared[u]
        BY <2>1, <2>3 DEF HandlerSound
      <3>2. declared[u] # None
        BY <3>1 DEF StageInv
      <3> QED
        BY <3>1, <3>2 DEF Polite
    <2>7. proc[q].pc = "release" => file'[u] = None
      BY <2>1, <2>3 DEF HandlerSound, Polite
    <2>8. proc[q].pc \in {"write", "record"} =>
            /\ row'[u].parts = proc[q].mem.parts
            /\ row'[u].state = "complete" \/ (row'[u].state = "receiving" /\ row'[u].offset = proc[q].mem.offset)
      BY <2>1, <2>3, <2>4 DEF HandlerSound, Gentle, Holding
    <2>9. proc[q].pc \in {"recovered", "verify", "finalize"} =>
            row'[u].parts = proc[q].mem.parts /\ row'[u].offset \in {proc[q].mem.offset, Size}
      BY <2>1, <2>3, <2>4 DEF HandlerSound, Gentle, Holding
    <2>10. proc[q].pc = "forget" => \/ proc[q].op = "destroy" /\ row'[u].state # "finalizing"
                                    \/ proc[q].op = "prune" /\ (row'[u].expired \/ phase' = "deleting")
      BY <2>1, <2>3, <2>4 DEF HandlerSound, Gentle, Holding, Polite
    <2>11. proc[q].pc \in Holding => file'[u] = file[u]
      BY <2>4
    <2> QED
      BY <2>1, <2>2, <2>3, <2>4, <2>5, <2>6, <2>7, <2>8, <2>9, <2>10, <2>11 DEF HandlerSound, Holding
  <1> QED
    BY <1>1, <1>2

\* A stage that the step leaves alone is as sound as before.
LEMMA StageKept ==
  ASSUME StageInv, NEW h, Polite(h), NEW v \in Upload, row'[v] = row[v], file'[v] = file[v]
  PROVE  StageSound(v)'
  <1> SUFFICES ASSUME row[v] # None
               PROVE  StageSound(v)'
    BY DEF StageSound
  <1>1. row[v] \in Row /\ StageSound(v)
    BY DEF StageInv, TypeOK
  <1>2. declared[v] # None
    BY <1>1, StageAssumption DEF StageSound, Row
  <1>3. declared'[v] = declared[v] /\ (published => published' /\ chunk' = chunk)
    BY <1>2 DEF Polite
  <1> QED
    BY <1>1, <1>3 DEF StageSound, PublishedStage

\* So the invariant has to be shown for the handler that moves and its stage.
LEMMA Assembled ==
  ASSUME StageInv, NEW h, Polite(h), TypeOK', published' => chunk' # None /\ copied' = Whole(chunk'),
         \A v \in Upload : (row'[v] = row[v] /\ file'[v] = file[v]) \/ StageSound(v)',
         h \in Handler => HandlerSound(h)'
  PROVE  StageInv'
  <1>1. \A v \in Upload : StageSound(v)'
    BY StageKept
  <1>2. \A q \in Handler : HandlerSound(q)'
    BY OthersSound
  <1>3. (published => chunk # None /\ copied = Whole(chunk))'
    BY DEF Whole
  <1> QED
    BY <1>1, <1>2, <1>3 DEF StageInv

\* An idle handler knows nothing.
LEMMA IdleSound ==
  ASSUME NEW h \in Handler, proc'[h].pc = "idle", proc'[h].op = "none"
  PROVE  HandlerSound(h)'
  BY DEF HandlerSound, Holding, Loaded

-----------------------------------------------------------------------------
(* The steps, one by one.                                                  *)

\* A handler that ends without touching anything.
LEMMA EndStep ==
  ASSUME StageInv, NEW h \in Handler, End(h), UNCHANGED <<phase, declared, chunk, published, copied, row, file>>
  PROVE  StageInv'
  <1>1. TypeOK
    BY DEF StageInv
  <1>2. Polite(h)
    <2>1. \A v \in Upload : row[v] # None => Gentle(row[v], row[v])
      BY DEF Gentle
    <2> QED
      BY <1>1, <2>1, Ends DEF Polite
  <1>3. TypeOK'
    BY <1>1, Ends DEF TypeOK
  <1>4. HandlerSound(h)'
    BY <1>1, Ends, IdleSound
  <1> QED
    BY <1>2, <1>3, <1>4, Assembled DEF StageInv

\* Loading a row.
LEMMA LoadStep ==
  ASSUME StageInv, NEW h \in Handler, NEW u \in Upload, NEW op \in {"show", "part", "complete", "destroy"},
         NEW part \in Part \cup {None}, Load(h, op, u, part)
  PROVE  StageInv'
  <1>1. TypeOK /\ row[u] \in Row /\ StageSound(u) /\ row[u] # None
    BY DEF StageInv, Load, TypeOK
  <1> DEFINE pc == IF op = "show" /\ row[u].state = "finalizing" THEN "recover" ELSE "check"
             new == [pc |-> pc, op |-> op, upload |-> u, mem |-> row[u], part |-> part]
  <1>2. /\ new \in Proc /\ new.pc \in {"recover", "check"} /\ new.op = op /\ new.upload = u /\ new.mem = row[u]
        /\ new.part = part
    BY <1>1 DEF Proc
  <1>3. proc' = [proc EXCEPT ![h] = new]
    BY DEF Load
  <1> HIDE DEF new, pc
  <1>4. proc'[h] = new /\ proc' \in [Handler -> Proc] /\ \A q \in Handler : q # h => proc'[q] = proc[q]
    BY <1>1, <1>2, <1>3 DEF TypeOK
  <1>5. UNCHANGED <<phase, declared, chunk, published, copied, row, file, lock>> /\ (op = "part" => part \in Part)
    BY DEF Load
  <1>6. Polite(h)
    <2>1. \A v \in Upload : row[v] # None => Gentle(row[v], row[v])
      BY DEF Gentle
    <2> QED
      BY <1>4, <1>5, <2>1 DEF Polite
  <1>7. TypeOK'
    BY <1>1, <1>4, <1>5 DEF TypeOK
  <1>8. HandlerSound(h)'
    BY <1>1, <1>2, <1>4, <1>5 DEF HandlerSound, Holding, Loaded, StageSound
  <1> QED
    BY <1>5, <1>6, <1>7, <1>8, Assembled DEF StageInv

\* Taking or releasing a lock does not take one away.
LEMMA LocksKept ==
  ASSUME TypeOK, NEW h \in Handler, NEW u \in Upload,
         lock' = lock \/ lock' = Unlocked(h) \/ (lock[u] = None /\ lock' = [lock EXCEPT ![u] = h])
  PROVE  /\ lock' \in [Upload -> Handler \cup {None}]
         /\ \A v \in Upload : \A q \in Handler : q # h /\ lock[v] = q => lock'[v] = q
  BY StageAssumption DEF TypeOK, Unlocked

\* A step that leaves rows, files and the chunk alone.
LEMMA QuietPolite ==
  ASSUME NEW h, \A q \in Handler : q # h => proc'[q] = proc[q],
         \A v \in Upload : \A q \in Handler : q # h /\ lock[v] = q => lock'[v] = q,
         UNCHANGED <<phase, declared, chunk, published, row, file>>
  PROVE  Polite(h)
  <1>1. \A v \in Upload : row[v] # None => Gentle(row[v], row[v])
    BY DEF Gentle
  <1> QED
    BY <1>1 DEF Polite

\* The lock for recovery.
LEMMA RecoverStep ==
  ASSUME StageInv, NEW h \in Handler, Recover(h)
  PROVE  StageInv'
  <1>1. TypeOK /\ proc[h].pc = "recover" /\ UNCHANGED <<phase, declared, chunk, published, copied, row, file>>
    BY DEF StageInv, Recover, At
  <1>2. PICK u \in Upload : u = proc[h].upload
    BY <1>1, Working
  <1>3. HandlerSound(h) /\ StageSound(u) /\ row[u] \in Row \cup {None}
    BY DEF StageInv, TypeOK
  <1>4. CASE End(h)
    BY <1>1, <1>4, EndStep
  <1>5. CASE Goto(h, "check") /\ lock' = lock
    <2>1. Polite(h)
      BY <1>1, <1>5, GoesOn, QuietPolite
    <2>2. TypeOK'
      BY <1>1, <1>5, GoesOnTyped DEF TypeOK, Points
    <2>3. HandlerSound(h)'
      BY <1>1, <1>2, <1>3, <1>5, GoesOn DEF HandlerSound, Holding, Loaded
    <2> QED
      BY <1>1, <2>1, <2>2, <2>3, Assembled DEF StageInv
  <1>6. CASE row[u] # None /\ GotoWith(h, "check", row[u]) /\ lock' = lock
    <2>1. Polite(h)
      BY <1>1, <1>6, GoesOnWith, QuietPolite
    <2>2. TypeOK'
      BY <1>1, <1>3, <1>6, GoesOnTyped DEF TypeOK, Points
    <2>3. HandlerSound(h)'
      <3>1. proc'[h].pc = "check" /\ proc'[h].mem = row[u] /\ proc'[h].upload = u /\ proc'[h].op = proc[h].op /\ proc'[h].part = proc[h].part
        BY <1>1, <1>2, <1>6, GoesOnWith
      <3> QED
        BY <1>1, <1>3, <1>6, <3>1 DEF HandlerSound, Holding, Loaded, StageSound
    <2> QED
      BY <1>1, <2>1, <2>2, <2>3, Assembled DEF StageInv
  <1>7. CASE /\ row[u] # None /\ row[u].state = "finalizing" /\ lock[u] = None
             /\ GotoWith(h, "recovered", row[u]) /\ lock' = [lock EXCEPT ![u] = h]
    <2>1. Polite(h)
      BY <1>1, <1>7, GoesOnWith, LocksKept, QuietPolite
    <2>2. TypeOK'
      BY <1>1, <1>3, <1>7, GoesOnTyped, LocksKept DEF TypeOK, Points
    <2>3. HandlerSound(h)'
      <3>1. /\ proc'[h].pc = "recovered" /\ proc'[h].mem = row[u] /\ proc'[h].upload = u
            /\ proc'[h].op = proc[h].op /\ proc'[h].part = proc[h].part
        BY <1>1, <1>2, <1>7, GoesOnWith
      <3>2. lock'[u] = h
        BY <1>1, <1>7 DEF TypeOK
      <3> QED
        BY <1>1, <1>3, <1>7, <3>1, <3>2 DEF HandlerSound, Holding, Loaded, StageSound
    <2> QED
      BY <1>1, <2>1, <2>2, <2>3, Assembled DEF StageInv
  <1> QED
    BY <1>2, <1>4, <1>5, <1>6, <1>7 DEF Recover

\* flock and the checks of part().
LEMMA LockPartStep ==
  ASSUME StageInv, NEW h \in Handler, LockPart(h)
  PROVE  StageInv'
  <1>1. TypeOK /\ proc[h].pc = "lock" /\ proc[h].op = "part" /\ UNCHANGED <<phase, declared, chunk, published, copied, row, file>>
    BY DEF StageInv, LockPart, At
  <1>2. PICK u \in Upload : u = proc[h].upload
    BY <1>1, Working
  <1>3. HandlerSound(h) /\ StageSound(u) /\ row[u] \in Row \cup {None}
    BY DEF StageInv, TypeOK
  <1>4. CASE End(h)
    BY <1>1, <1>4, EndStep
  <1>5. CASE /\ lock[u] = None /\ row[u] # None /\ row[u].state = "receiving" /\ file[u] # None
             /\ PartFits(proc[h].part, row[u])
             /\ GotoWith(h, "write", row[u]) /\ lock' = [lock EXCEPT ![u] = h]
    <2>1. Polite(h)
      BY <1>1, <1>5, GoesOnWith, LocksKept, QuietPolite
    <2>2. TypeOK'
      BY <1>1, <1>3, <1>5, GoesOnTyped, LocksKept DEF TypeOK, Points
    <2>3. HandlerSound(h)'
      <3>1. /\ proc'[h].pc = "write" /\ proc'[h].mem = row[u] /\ proc'[h].upload = u
            /\ proc'[h].op = "part" /\ proc'[h].part = proc[h].part
        BY <1>1, <1>2, <1>5, GoesOnWith
      <3>2. lock'[u] = h
        BY <1>1, <1>5 DEF TypeOK
      <3>3. Tiled(row[u].parts, row[u].offset) /\ Holds(file[u], row[u].parts, row[u].offset)
        BY <1>3, <1>5 DEF StageSound, Intact
      <3> QED
        BY <1>1, <1>3, <1>5, <3>1, <3>2, <3>3 DEF HandlerSound, Holding, Loaded, StageSound
    <2> QED
      BY <1>1, <2>1, <2>2, <2>3, Assembled DEF StageInv
  <1> QED
    BY <1>2, <1>4, <1>5 DEF LockPart

\* The lock of complete().
LEMMA LockCompleteStep ==
  ASSUME StageInv, NEW h \in Handler, LockComplete(h)
  PROVE  StageInv'
  <1>1. TypeOK /\ proc[h].pc = "lock" /\ proc[h].op = "complete" /\ UNCHANGED <<phase, declared, chunk, published, copied, row, file>>
    BY DEF StageInv, LockComplete, At
  <1>2. PICK u \in Upload : u = proc[h].upload
    BY <1>1, Working
  <1>3. HandlerSound(h) /\ StageSound(u) /\ row[u] \in Row \cup {None}
    BY DEF StageInv, TypeOK
  <1>4. CASE End(h)
    BY <1>1, <1>4, EndStep
  <1>5. ASSUME NEW pc \in {"recovered", "verify"}, pc = "recovered" <=> row[u].state = "finalizing",
               lock[u] = None, row[u] # None, GotoWith(h, pc, row[u]), lock' = [lock EXCEPT ![u] = h]
        PROVE  StageInv'
    <2>1. Polite(h)
      BY <1>1, <1>5, GoesOnWith, LocksKept, QuietPolite
    <2>2. TypeOK'
      BY <1>1, <1>3, <1>5, GoesOnTyped, LocksKept DEF TypeOK, Points
    <2>3. HandlerSound(h)'
      <3>1. /\ proc'[h].pc = pc /\ proc'[h].mem = row[u] /\ proc'[h].upload = u
            /\ proc'[h].op = "complete" /\ proc'[h].part = proc[h].part
        BY <1>1, <1>2, <1>5, GoesOnWith
      <3>2. lock'[u] = h
        BY <1>1, <1>5 DEF TypeOK
      <3> QED
        BY <1>1, <1>3, <1>5, <3>1, <3>2 DEF HandlerSound, Holding, Loaded, StageSound
    <2> QED
      BY <1>1, <2>1, <2>2, <2>3, Assembled DEF StageInv
  <1> QED
    BY <1>2, <1>4, <1>5 DEF LockComplete

\* An UPDATE of a row that may be gone.
LEMMA Updates ==
  ASSUME TypeOK, NEW u \in Upload, NEW new, Update(u, new)
  PROVE  /\ row'[u] = IF row[u] = None THEN None ELSE new
         /\ \A v \in Upload : v # u => row'[v] = row[v]
         /\ row[u] = None \/ new \in Row => row' \in [Upload -> Row \cup {None}]
  BY DEF Update, TypeOK

\* The whole file is hashed.
LEMMA VerifyStep ==
  ASSUME StageInv, NEW h \in Handler, VerifyStaged(h)
  PROVE  StageInv'
  <1>1. TypeOK /\ proc[h].pc = "verify" /\ UNCHANGED <<phase, declared, chunk, published, copied, row, file>>
    BY DEF StageInv, VerifyStaged, At
  <1>2. PICK u \in Upload : u = proc[h].upload
    BY <1>1, Working
  <1>3. HandlerSound(h)
    BY DEF StageInv
  <1>4. CASE End(h)
    BY <1>1, <1>4, EndStep
  <1>5. CASE /\ proc[h].mem.state = "receiving" /\ Verified(file[u], proc[h].mem)
             /\ Goto(h, "finalize") /\ lock' = lock
    <2>1. Polite(h)
      BY <1>1, <1>5, GoesOn, QuietPolite
    <2>2. TypeOK'
      BY <1>1, <1>5, GoesOnTyped DEF TypeOK, Points
    <2>3. HandlerSound(h)'
      <3>1. /\ proc'[h].pc = "finalize" /\ proc'[h].mem = proc[h].mem /\ proc'[h].upload = u
            /\ proc'[h].op = proc[h].op /\ proc'[h].part = proc[h].part
        BY <1>1, <1>2, <1>5, GoesOn
      <3> QED
        BY <1>1, <1>2, <1>3, <1>5, <3>1 DEF HandlerSound, Holding, Loaded, Verified, Whole
    <2> QED
      BY <1>1, <2>1, <2>2, <2>3, Assembled DEF StageInv
  <1> QED
    BY <1>2, <1>4, <1>5 DEF VerifyStaged

\* A change to the row of a stage by the handler that holds its lock.
LEMMA HolderPolite ==
  ASSUME TypeOK, NEW h \in Handler, NEW u \in Upload, lock[u] = h,
         \A q \in Handler : q # h => proc'[q] = proc[q],
         \A v \in Upload : \A q \in Handler : q # h /\ lock[v] = q => lock'[v] = q,
         \A v \in Upload : v # u => row'[v] = row[v] /\ file'[v] = file[v],
         published /\ file[u] = None => file'[u] = None,
         UNCHANGED <<phase, declared, chunk, published>>
  PROVE  Polite(h)
  <1>1. \A v \in Upload : row[v] # None => Gentle(row[v], row[v])
    BY DEF Gentle
  <1> QED
    BY <1>1 DEF Polite

\* The stage is marked as being finalized.
LEMMA FinalizeStep ==
  ASSUME StageInv, NEW h \in Handler, Finalize(h)
  PROVE  StageInv'
  <1>1. TypeOK /\ proc[h].pc = "finalize" /\ UNCHANGED <<phase, declared, chunk, published, copied, file, lock>>
    BY DEF StageInv, Finalize, At
  <1>2. PICK u \in Upload : u = proc[h].upload
    BY <1>1, Working
  <1>3. HandlerSound(h) /\ StageSound(u)
    BY DEF StageInv
  <1>4. lock[u] = h /\ row[u] \in Row /\ row[u] # None /\ proc[h].mem \in Row
    BY <1>1, <1>2, <1>3 DEF HandlerSound, Holding, Loaded, TypeOK
  <1> DEFINE new == [row[u] EXCEPT !.state = "finalizing"]
             mem == [proc[h].mem EXCEPT !.state = "finalizing"]
  <1>5. /\ new \in Row /\ new.state = "finalizing" /\ new.parts = row[u].parts /\ new.offset = row[u].offset
        /\ new.content = row[u].content /\ new.released = row[u].released
    BY <1>4 DEF Row
  <1>6. mem \in Row /\ mem.content = proc[h].mem.content
    BY <1>4 DEF Row
  <1>7. Update(u, new) /\ GotoWith(h, "publish", mem)
    BY <1>2 DEF Finalize, Mine
  <1> HIDE DEF new, mem
  <1>8. row'[u] = new /\ (\A v \in Upload : v # u => row'[v] = row[v]) /\ row' \in [Upload -> Row \cup {None}]
    BY <1>1, <1>4, <1>5, <1>7, Updates
  <1>9. /\ proc'[h].pc = "publish" /\ proc'[h].mem = mem /\ proc'[h].upload = u
        /\ proc'[h].op = proc[h].op /\ proc'[h].part = proc[h].part
    BY <1>1, <1>2, <1>7, GoesOnWith
  <1>10. Polite(h)
    BY <1>1, <1>4, <1>7, <1>8, GoesOnWith, HolderPolite
  <1>11. TypeOK'
    BY <1>1, <1>6, <1>7, <1>8, GoesOnTyped DEF TypeOK, Points
  <1>12. HandlerSound(h)'
    BY <1>1, <1>2, <1>3, <1>4, <1>5, <1>6, <1>8, <1>9, MissingAssumption DEF HandlerSound, Holding, Loaded, Whole
  <1>13. StageSound(u)'
    <2>1. row[u].parts = proc[h].mem.parts /\ row[u].offset = proc[h].mem.offset /\ Intact(file[u], proc[h].mem)
      BY <1>1, <1>2, <1>3 DEF HandlerSound
    <2>2. Intact(file[u], new)
      BY <1>5, <2>1 DEF Intact
    <2> QED
      BY <1>1, <1>3, <1>4, <1>5, <1>8, <2>2 DEF StageSound
  <1> QED
    BY <1>1, <1>8, <1>10, <1>11, <1>12, <1>13, Assembled DEF StageInv

\* A whole ciphertext fits the staging file.
LEMMA WholeTyped == \A v \in Content : Whole(v) \in File
  BY StageAssumption DEF Whole, File

\* The staged file is published.
LEMMA PublishStep ==
  ASSUME StageInv, NEW h \in Handler, PublishStaged(h)
  PROVE  StageInv'
  <1>1. /\ TypeOK /\ proc[h].pc = "publish" /\ UNCHANGED <<phase, declared, row, file, lock>>
        /\ chunk \in {None, proc[h].mem.content} /\ chunk' = proc[h].mem.content /\ published' = TRUE
        /\ copied' = (IF published THEN copied ELSE file[proc[h].upload]) /\ GotoWith(h, "seal", None)
    BY DEF StageInv, PublishStaged, At
  <1>2. PICK u \in Upload : u = proc[h].upload
    BY <1>1, Working
  <1>3. /\ HandlerSound(h) /\ proc[h].mem \in Row /\ lock[u] = h /\ row[u] # None
        /\ proc[h].mem.content = declared[u] /\ file[u] = Whole(proc[h].mem.content)
    BY <1>1, <1>2 DEF StageInv, HandlerSound, Holding, Loaded
  <1>4. proc[h].mem.content \in Content /\ proc[h].mem.content # None
    BY <1>3, StageAssumption DEF Row
  <1>5. /\ proc'[h].pc = "seal" /\ proc'[h].upload = u
        /\ proc'[h].op = proc[h].op /\ proc'[h].part = proc[h].part
    BY <1>1, <1>2, GoesOnWith
  <1>6. published => chunk # None /\ chunk' = chunk /\ copied = Whole(chunk)
    BY <1>1 DEF StageInv
  <1>7. Polite(h)
    <2>1. \A v \in Upload : row[v] # None => Gentle(row[v], row[v])
      BY DEF Gentle
    <2> QED
      BY <1>1, <1>6, <2>1, GoesOnWith DEF Polite
  <1>8. copied' = Whole(chunk')
    BY <1>1, <1>2, <1>3, <1>6
  <1>9. TypeOK'
    <2>1. copied' \in File
      BY <1>1, <1>4, <1>8, WholeTyped
    <2>2. proc' \in [Handler -> Proc]
      BY <1>1, GoesOnTyped DEF Points
    <2> QED
      BY <1>1, <1>4, <2>1, <2>2 DEF TypeOK
  <1>10. HandlerSound(h)'
    BY <1>1, <1>3, <1>5 DEF HandlerSound, Holding, Loaded
  <1> QED
    BY <1>1, <1>4, <1>7, <1>8, <1>9, <1>10, Assembled

\* publish() throws.
LEMMA PublishFailsStep ==
  ASSUME StageInv, NEW h \in Handler, PublishFails(h)
  PROVE  StageInv'
  <1>1. /\ TypeOK /\ proc[h].pc = "publish" /\ UNCHANGED <<phase, declared, published, copied, row, file, lock>>
        /\ chunk' = chunk \/ (chunk = None /\ chunk' = proc[h].mem.content)
        /\ GotoWith(h, "undo", None)
    BY DEF StageInv, PublishFails, At
  <1>2. PICK u \in Upload : u = proc[h].upload
    BY <1>1, Working
  <1>3. /\ HandlerSound(h) /\ proc[h].mem \in Row /\ lock[u] = h /\ row[u] # None
    BY <1>1, <1>2 DEF StageInv, HandlerSound, Holding, Loaded
  <1>4. chunk' \in Content \cup {None}
    BY <1>1, <1>3 DEF Row, TypeOK
  <1>5. /\ proc'[h].pc = "undo" /\ proc'[h].upload = u
        /\ proc'[h].op = proc[h].op /\ proc'[h].part = proc[h].part
    BY <1>1, <1>2, <1>4, GoesOnWith
  <1>6. published => chunk # None /\ chunk' = chunk /\ copied = Whole(chunk)
    BY <1>1 DEF StageInv
  <1>7. Polite(h)
    <2>1. \A v \in Upload : row[v] # None => Gentle(row[v], row[v])
      BY DEF Gentle
    <2> QED
      BY <1>1, <1>4, <1>6, <2>1, GoesOnWith DEF Polite
  <1>8. TypeOK'
    BY <1>1, <1>4, GoesOnTyped DEF TypeOK, Points
  <1>9. HandlerSound(h)'
    BY <1>1, <1>3, <1>5 DEF HandlerSound, Holding, Loaded
  <1> QED
    BY <1>1, <1>6, <1>7, <1>8, <1>9, Assembled

\* The catch block reopens the stage.
LEMMA UndoStep ==
  ASSUME StageInv, NEW h \in Handler, UndoFinalize(h)
  PROVE  StageInv'
  <1>1. TypeOK /\ proc[h].pc = "undo" /\ UNCHANGED <<phase, declared, chunk, published, copied, file>> /\ End(h)
    BY DEF StageInv, UndoFinalize, At
  <1>2. PICK u \in Upload : u = proc[h].upload
    BY <1>1, Working
  <1>3. HandlerSound(h) /\ StageSound(u) /\ lock[u] = h /\ row[u] # None /\ row[u] \in Row
    BY <1>1, <1>2 DEF StageInv, HandlerSound, Holding, TypeOK
  <1>4. CASE row' = row
    BY <1>1, <1>4, EndStep
  <1>5. CASE row[u].state = "finalizing" /\ Update(u, [row[u] EXCEPT !.state = "receiving"])
    <2> DEFINE new == [row[u] EXCEPT !.state = "receiving"]
    <2>1. /\ new \in Row /\ new.state = "receiving" /\ new.parts = row[u].parts /\ new.offset = row[u].offset
          /\ new.content = row[u].content /\ new.released = row[u].released
      BY <1>3 DEF Row
    <2>2. Update(u, new)
      BY <1>5
    <2> HIDE DEF new
    <2>3. row'[u] = new /\ (\A v \in Upload : v # u => row'[v] = row[v]) /\ row' \in [Upload -> Row \cup {None}]
      BY <1>1, <1>3, <2>1, <2>2, Updates
    <2>4. Polite(h)
      BY <1>1, <1>3, <2>3, Ends, HolderPolite
    <2>5. TypeOK'
      BY <1>1, <2>3, Ends DEF TypeOK
    <2>6. HandlerSound(h)'
      BY <1>1, Ends, IdleSound
    <2>7. StageSound(u)'
      <3>1. Intact(file[u], new)
        BY <1>3, <1>5, <2>1 DEF StageSound, Intact
      <3> QED
        BY <1>1, <1>3, <2>1, <2>3, <3>1 DEF StageSound
    <2> QED
      BY <1>1, <2>3, <2>4, <2>5, <2>6, <2>7, Assembled DEF StageInv
  <1> QED
    BY <1>2, <1>4, <1>5 DEF UndoFinalize, Mine

\* The stage is complete, and the lock is given up.
LEMMA SealStep ==
  ASSUME StageInv, NEW h \in Handler, Seal(h)
  PROVE  StageInv'
  <1>1. /\ TypeOK /\ proc[h].pc = "seal" /\ UNCHANGED <<phase, declared, chunk, published, copied, file>>
        /\ Goto(h, "unlink") /\ lock' = Unlocked(h)
    BY DEF StageInv, Seal, At
  <1>2. PICK u \in Upload : u = proc[h].upload
    BY <1>1, Working
  <1>3. /\ HandlerSound(h) /\ StageSound(u) /\ lock[u] = h /\ row[u] # None /\ row[u] \in Row
        /\ published /\ chunk = declared[u]
    BY <1>1, <1>2 DEF StageInv, HandlerSound, Holding, TypeOK
  <1> DEFINE new == [row[u] EXCEPT !.state = "complete"]
  <1>4. /\ new \in Row /\ new.state = "complete" /\ new.content = row[u].content /\ new.released = row[u].released
    BY <1>3 DEF Row
  <1>5. Update(u, new)
    BY <1>2 DEF Seal, Mine
  <1> HIDE DEF new
  <1>6. row'[u] = new /\ (\A v \in Upload : v # u => row'[v] = row[v]) /\ row' \in [Upload -> Row \cup {None}]
    BY <1>1, <1>3, <1>4, <1>5, Updates
  <1>7. /\ proc'[h].pc = "unlink" /\ proc'[h].upload = u
        /\ proc'[h].op = proc[h].op /\ proc'[h].part = proc[h].part
    BY <1>1, <1>2, GoesOn
  <1>8. Polite(h)
    BY <1>1, <1>3, <1>6, GoesOn, LocksKept, HolderPolite
  <1>9. TypeOK'
    BY <1>1, <1>2, <1>6, GoesOnTyped, LocksKept DEF TypeOK, Points
  <1>10. HandlerSound(h)'
    BY <1>1, <1>3, <1>7 DEF HandlerSound, Holding, Loaded
  <1>11. StageSound(u)'
    BY <1>1, <1>3, <1>4, <1>6 DEF StageSound, PublishedStage
  <1> QED
    BY <1>1, <1>6, <1>8, <1>9, <1>10, <1>11, Assembled DEF StageInv

\* Files go under a free lock: nobody is at work on their stage.
LEMMA UnlockedPolite ==
  ASSUME NEW h, NEW u \in Upload, lock[u] = None,
         \A q \in Handler : q # h => proc'[q] = proc[q],
         \A v \in Upload : \A q \in Handler : q # h /\ lock[v] = q => lock'[v] = q,
         \A v \in Upload : v # u => file'[v] = file[v],
         published /\ file[u] = None => file'[u] = None,
         UNCHANGED <<phase, chunk, published>>, row' = row \/ (row[u] = None /\ \A v \in Upload : v # u => row'[v] = row[v]),
         \A v \in Upload : declared[v] # None => declared'[v] = declared[v]
  PROVE  Polite(h)
  <1>1. \A v \in Upload : row[v] # None => Gentle(row[v], row[v])
    BY DEF Gentle
  <1> QED
    BY <1>1, StageAssumption DEF Polite

\* A stage without its file is sound.
LEMMA FileGone ==
  ASSUME StageInv, NEW u \in Upload, row'[u] = row[u], file'[u] = None, UNCHANGED <<declared, chunk, published>>
  PROVE  StageSound(u)'
  BY DEF StageInv, StageSound, Intact, PublishedStage

\* The staging file of a published chunk is removed.
LEMMA UnlinkStep ==
  ASSUME StageInv, NEW h \in Handler, UnlinkStaged(h)
  PROVE  StageInv'
  <1>1. TypeOK /\ proc[h].pc = "unlink" /\ UNCHANGED <<phase, declared, chunk, published, copied, row>>
    BY DEF StageInv, UnlinkStaged, At
  <1>2. PICK u \in Upload : u = proc[h].upload
    BY <1>1, Working
  <1>3. HandlerSound(h) /\ published /\ chunk = declared[u]
    BY <1>1, <1>2 DEF StageInv, HandlerSound
  <1>4. CASE End(h) /\ file' = file
    BY <1>1, <1>4, EndStep
  <1>5. CASE lock[u] = None /\ file' = [file EXCEPT ![u] = None] /\ Goto(h, "release") /\ lock' = lock
    <2>1. file'[u] = None /\ (\A v \in Upload : v # u => file'[v] = file[v]) /\ file' \in [Upload -> File \cup {None}]
      BY <1>1, <1>5 DEF TypeOK
    <2>2. /\ proc'[h].pc = "release" /\ proc'[h].upload = u
          /\ proc'[h].op = proc[h].op /\ proc'[h].part = proc[h].part
      BY <1>1, <1>2, <1>5, GoesOn
    <2>3. Polite(h)
      BY <1>1, <1>5, <2>1, GoesOn, UnlockedPolite
    <2>4. TypeOK'
      BY <1>1, <1>5, <2>1, GoesOnTyped DEF TypeOK, Points
    <2>5. HandlerSound(h)'
      BY <1>1, <1>3, <2>1, <2>2 DEF HandlerSound, Holding, Loaded
    <2>6. StageSound(u)'
      BY <1>1, <2>1, FileGone
    <2> QED
      BY <1>1, <2>1, <2>3, <2>4, <2>5, <2>6, Assembled DEF StageInv
  <1> QED
    BY <1>2, <1>4, <1>5 DEF UnlinkStaged

\* An update that may meet another handler's lock.
LEMMA GentlePolite ==
  ASSUME NEW h, NEW u \in Upload, row[u] # None => Gentle(row[u], row'[u]),
         \A q \in Handler : q # h => proc'[q] = proc[q],
         \A v \in Upload : \A q \in Handler : q # h /\ lock[v] = q => lock'[v] = q,
         \A v \in Upload : v # u => row'[v] = row[v],
         UNCHANGED <<phase, declared, chunk, published, file>>
  PROVE  Polite(h)
  <1>1. \A v \in Upload : row[v] # None => Gentle(row[v], row[v])
    BY DEF Gentle
  <1> QED
    BY <1>1 DEF Polite

\* The quota of a removed file is handed back.
LEMMA ReleaseStep ==
  ASSUME StageInv, NEW h \in Handler, Release(h)
  PROVE  StageInv'
  <1>1. TypeOK /\ proc[h].pc = "release" /\ UNCHANGED <<phase, declared, chunk, published, copied, file>> /\ End(h)
    BY DEF StageInv, Release, At
  <1>2. PICK u \in Upload : u = proc[h].upload
    BY <1>1, Working
  <1>3. StageSound(u) /\ published /\ file[u] = None /\ row[u] \in Row \cup {None}
    BY <1>1, <1>2 DEF StageInv, HandlerSound, TypeOK
  <1>4. Update(u, [row[u] EXCEPT !.released = TRUE])
    BY <1>2 DEF Release, Mine
  <1>5. CASE row[u] = None
    BY <1>1, <1>4, <1>5, EndStep DEF Update
  <1>6. CASE row[u] # None
    <2> DEFINE new == [row[u] EXCEPT !.released = TRUE]
    <2>1. /\ new \in Row /\ new.state = row[u].state /\ new.parts = row[u].parts /\ new.offset = row[u].offset
          /\ new.content = row[u].content /\ new.expired = row[u].expired
      BY <1>3, <1>6 DEF Row
    <2>2. Update(u, new)
      BY <1>4
    <2> HIDE DEF new
    <2>3. row'[u] = new /\ (\A v \in Upload : v # u => row'[v] = row[v]) /\ row' \in [Upload -> Row \cup {None}]
      BY <1>1, <1>6, <2>1, <2>2, Updates
    <2>4. Polite(h)
      <3>1. Gentle(row[u], row'[u])
        BY <2>1, <2>3, MissingAssumption DEF Gentle
      <3> QED
        BY <1>1, <2>3, <3>1, Ends, GentlePolite
    <2>5. TypeOK'
      BY <1>1, <2>3, Ends DEF TypeOK
    <2>6. HandlerSound(h)'
      BY <1>1, Ends, IdleSound
    <2>7. StageSound(u)'
      BY <1>1, <1>3, <1>6, <2>1, <2>3 DEF StageSound, Intact, PublishedStage
    <2> QED
      BY <1>1, <2>3, <2>4, <2>5, <2>6, <2>7, Assembled DEF StageInv
  <1> QED
    BY <1>5, <1>6

\* What completing a row writes.
LEMMA CompletedRow ==
  ASSUME NEW r \in Row, NEW m \in Row, NEW gone \in BOOLEAN
  PROVE  LET c == Completed(r, m, gone)
         IN /\ c \in Row /\ c.state = "complete" /\ c.offset \in {r.offset, Size} /\ c.parts = r.parts
            /\ c.content = r.content /\ c.expired = r.expired /\ (c.released => gone \/ r.released)
  <1>1. r.released \in BOOLEAN /\ m.released \in BOOLEAN /\ Size \in 0..Size
    BY StageAssumption DEF Row
  <1> QED
    BY <1>1 DEF Completed, Row

\* Reopening one.
LEMMA ReopenedRow ==
  ASSUME NEW r \in Row
  PROVE  LET c == [r EXCEPT !.state = "receiving"]
         IN /\ c \in Row /\ c.state = "receiving" /\ c.offset = r.offset /\ c.parts = r.parts
            /\ c.content = r.content /\ c.released = r.released
  BY DEF Row

\* recoverFinalizing settles a stage that a crash left finalizing.
LEMMA RecoveredStep ==
  ASSUME StageInv, NEW h \in Handler, Recovered(h)
  PROVE  StageInv'
  <1>1. TypeOK /\ proc[h].pc = "recovered" /\ UNCHANGED <<phase, declared, chunk, published, copied, file>>
    BY DEF StageInv, Recovered, At
  <1>2. PICK u \in Upload : u = proc[h].upload
    BY <1>1, Working
  <1>3. PICK m \in Row : m = proc[h].mem
    BY <1>1 DEF StageInv, HandlerSound, Loaded
  <1>4. /\ HandlerSound(h) /\ StageSound(u) /\ lock[u] = h /\ row[u] \in Row /\ row[u] # None
        /\ m.content = declared[u] /\ m.state = "finalizing" /\ row[u].content = declared[u]
        /\ row[u].parts = m.parts /\ row[u].offset \in {m.offset, Size} /\ Intact(file[u], m)
    BY <1>1, <1>2, <1>3 DEF StageInv, HandlerSound, StageSound, Holding, Loaded, TypeOK
  <1> DEFINE back == [row[u] EXCEPT !.state = "receiving"]
             done == Completed(row[u], m, file[u] = None)
             memBack == [m EXCEPT !.state = "receiving"]
             memDone == Completed(m, m, file[u] = None)
  <1>5. /\ back \in Row /\ back.state = "receiving" /\ back.offset = row[u].offset /\ back.parts = row[u].parts
        /\ back.content = row[u].content /\ back.released = row[u].released
    BY <1>4, ReopenedRow
  <1>6. /\ memBack \in Row /\ memBack.state = "receiving" /\ memBack.offset = m.offset /\ memBack.parts = m.parts
        /\ memBack.content = m.content
    BY ReopenedRow
  <1>7. /\ done \in Row /\ done.state = "complete" /\ done.offset \in {row[u].offset, Size} /\ done.parts = row[u].parts
        /\ done.content = row[u].content /\ (done.released => file[u] = None \/ row[u].released)
    BY <1>4, CompletedRow
  <1>8. /\ memDone \in Row /\ memDone.state = "complete" /\ memDone.parts = m.parts /\ memDone.content = m.content
        /\ memDone.offset = Size
    <2>1. memDone.offset = Size
      BY DEF Completed, Row
    <2> QED
      BY <2>1, CompletedRow
  <1>9. ASSUME ~PublishedStage(m)
        PROVE  row[u].state # "complete"
    BY <1>4, <1>9 DEF StageSound, PublishedStage
  <1>10. \/ /\ chunk \notin {None, m.content} /\ End(h)
            /\ row' = row \/ Update(u, back)
         \/ /\ PublishedStage(m) /\ Update(u, done)
            /\ \/ GotoWith(h, "check", memDone) /\ lock' = Unlocked(h)
               \/ GotoWith(h, "verify", memDone) /\ lock' = lock
         \/ /\ ~PublishedStage(m) /\ Update(u, back)
            /\ \/ GotoWith(h, "check", memBack) /\ lock' = Unlocked(h)
               \/ GotoWith(h, "verify", memBack) /\ lock' = lock
    BY <1>2, <1>3 DEF Recovered, Mine
  <1> HIDE DEF back, done, memBack, memDone
  <1>11. ASSUME Update(u, back), ~PublishedStage(m)
         PROVE  /\ row'[u] = back /\ (\A v \in Upload : v # u => row'[v] = row[v]) /\ row' \in [Upload -> Row \cup {None}]
                /\ StageSound(u)'
    <2>1. row'[u] = back /\ (\A v \in Upload : v # u => row'[v] = row[v]) /\ row' \in [Upload -> Row \cup {None}]
      BY <1>1, <1>4, <1>5, <1>11, Updates
    <2>2. Intact(file[u], back)
      BY <1>4, <1>5, <1>9, <1>11 DEF StageSound, Intact
    <2> QED
      BY <1>1, <1>4, <1>5, <2>1, <2>2 DEF StageSound
  <1>12. CASE End(h) /\ row' = row
    BY <1>1, <1>12, EndStep
  <1>13. CASE chunk \notin {None, m.content} /\ End(h) /\ Update(u, back)
    <2>1. ~PublishedStage(m)
      BY <1>13 DEF PublishedStage
    <2>2. Polite(h)
      BY <1>1, <1>4, <1>11, <1>13, <2>1, Ends, HolderPolite
    <2>3. TypeOK'
      BY <1>1, <1>11, <1>13, <2>1, Ends DEF TypeOK
    <2>4. HandlerSound(h)'
      BY <1>1, <1>13, Ends, IdleSound
    <2> QED
      BY <1>1, <1>11, <1>13, <2>1, <2>2, <2>3, <2>4, Assembled DEF StageInv
  <1>14. ASSUME NEW mem \in Row, mem.content = declared[u], mem.parts = m.parts,
                \/ GotoWith(h, "check", mem) /\ lock' = Unlocked(h)
                \/ GotoWith(h, "verify", mem) /\ lock' = lock,
                mem.state # "complete" => mem.offset = m.offset,
                row'[u] \in Row, row'[u].parts = m.parts, row'[u].offset \in {mem.offset, Size},
                \A v \in Upload : v # u => row'[v] = row[v], row' \in [Upload -> Row \cup {None}],
                StageSound(u)'
         PROVE  StageInv'
    <2>1. /\ proc'[h].pc \in {"check", "verify"} /\ proc'[h].mem = mem /\ proc'[h].upload = u
          /\ proc'[h].op = proc[h].op /\ proc'[h].part = proc[h].part
          /\ proc'[h].pc = "verify" => lock'[u] = h
      BY <1>1, <1>2, <1>4, <1>14, GoesOnWith
    <2>2. Polite(h)
      BY <1>1, <1>4, <1>14, GoesOnWith, LocksKept, HolderPolite
    <2>3. TypeOK'
      BY <1>1, <1>14, GoesOnTyped, LocksKept DEF TypeOK, Points
    <2>4. HandlerSound(h)'
      <3>1. mem.state # "complete" => Intact(file[u], mem)
        BY <1>4, <1>14 DEF Intact
      <3>2. row'[u] # None
        BY <1>14, MissingAssumption
      <3> QED
        BY <1>1, <1>4, <1>14, <2>1, <3>1, <3>2 DEF HandlerSound, Holding, Loaded
    <2> QED
      BY <1>1, <1>14, <2>2, <2>3, <2>4, Assembled DEF StageInv
  <1>15. CASE /\ PublishedStage(m) /\ Update(u, done)
              /\ \/ GotoWith(h, "check", memDone) /\ lock' = Unlocked(h)
                 \/ GotoWith(h, "verify", memDone) /\ lock' = lock
    <2>1. row'[u] = done /\ (\A v \in Upload : v # u => row'[v] = row[v]) /\ row' \in [Upload -> Row \cup {None}]
      BY <1>1, <1>4, <1>7, <1>15, Updates
    <2>2. StageSound(u)'
      BY <1>1, <1>4, <1>7, <1>15, <2>1 DEF StageSound, PublishedStage
    <2>3. row'[u].parts = m.parts /\ row'[u].offset \in {m.offset, Size} /\ row'[u].state = "complete"
      BY <1>4, <1>7, <2>1
    <2>4. row'[u].offset \in {memDone.offset, Size}
      <3>1. m.offset # Size \/ row'[u].offset = Size
        BY <2>3
      <3>2. m.offset # Size => done.offset = Size
        BY <1>4 DEF done, Completed, Row
      <3> QED
        BY <1>8, <2>1, <3>1, <3>2
    <2> QED
      BY <1>4, <1>7, <1>8, <1>14, <1>15, <2>1, <2>2, <2>3, <2>4
  <1>16. CASE /\ ~PublishedStage(m) /\ Update(u, back)
              /\ \/ GotoWith(h, "check", memBack) /\ lock' = Unlocked(h)
                 \/ GotoWith(h, "verify", memBack) /\ lock' = lock
    BY <1>4, <1>5, <1>6, <1>11, <1>14, <1>16
  <1> QED
    BY <1>10, <1>12, <1>13, <1>15, <1>16

\* stage() adopts a published chunk without the lock, or goes on to ask for it.
LEMMA CheckStep ==
  ASSUME StageInv, NEW h \in Handler, Check(h)
  PROVE  StageInv'
  <1>1. TypeOK /\ proc[h].pc = "check" /\ UNCHANGED <<phase, declared, chunk, published, copied, file>>
    BY DEF StageInv, Check, At
  <1>2. PICK u \in Upload : u = proc[h].upload
    BY <1>1, Working
  <1>3. PICK m \in Row : m = proc[h].mem /\ m.content = declared[u]
    BY <1>1, <1>2 DEF StageInv, HandlerSound, Loaded
  <1>4. HandlerSound(h) /\ StageSound(u) /\ row[u] \in Row \cup {None}
    BY DEF StageInv, TypeOK
  <1> DEFINE done == Completed(row[u], m, file[u] = None)
  <1>5. /\ row' = row \/ (PublishedStage(m) /\ Update(u, done))
        /\ End(h) \/ (GotoWith(h, "lock", None) /\ lock' = lock)
    BY <1>2, <1>3 DEF Check, AdoptPublished, Mine
  <1>6. /\ \A q \in Handler : q # h => proc'[q] = proc[q]
        /\ \A v \in Upload : \A q \in Handler : q # h /\ lock[v] = q => lock'[v] = q
    BY <1>1, <1>5, Ends, GoesOnWith
  <1>7. proc' \in [Handler -> Proc] /\ lock' \in [Upload -> Handler \cup {None}]
    BY <1>1, <1>5, Ends, GoesOnTyped DEF Points, TypeOK
  <1>8. HandlerSound(h)'
    <2>1. CASE End(h)
      BY <1>1, <2>1, Ends, IdleSound
    <2>2. CASE GotoWith(h, "lock", None)
      <3>1. proc'[h].pc = "lock" /\ proc'[h].op = proc[h].op /\ proc'[h].part = proc[h].part
        BY <1>1, <2>2, GoesOnWith
      <3> QED
        BY <1>4, <3>1 DEF HandlerSound, Holding, Loaded
    <2> QED
      BY <1>5, <2>1, <2>2
  <1>9. CASE row' = row
    <2>1. Polite(h)
      BY <1>1, <1>6, <1>9, QuietPolite
    <2>2. TypeOK'
      BY <1>1, <1>7, <1>9 DEF TypeOK
    <2> QED
      BY <1>1, <1>8, <1>9, <2>1, <2>2, Assembled DEF StageInv
  <1>10. CASE row[u] # None /\ PublishedStage(m) /\ Update(u, done)
    <2>1. /\ done \in Row /\ done.state = "complete" /\ done.offset \in {row[u].offset, Size} /\ done.parts = row[u].parts
          /\ done.content = row[u].content /\ done.expired = row[u].expired
          /\ (done.released => file[u] = None \/ row[u].released)
      BY <1>4, <1>10, CompletedRow
    <2> HIDE DEF done
    <2>2. row'[u] = done /\ (\A v \in Upload : v # u => row'[v] = row[v]) /\ row' \in [Upload -> Row \cup {None}]
      BY <1>1, <1>10, <2>1, Updates
    <2>3. Polite(h)
      <3>1. Gentle(row[u], row'[u])
        BY <2>1, <2>2, MissingAssumption DEF Gentle
      <3> QED
        BY <1>1, <1>6, <2>2, <3>1, GentlePolite
    <2>4. TypeOK'
      BY <1>1, <1>7, <2>2 DEF TypeOK
    <2>5. StageSound(u)'
      BY <1>1, <1>3, <1>4, <1>10, <2>1, <2>2 DEF StageSound, PublishedStage
    <2> QED
      BY <1>1, <1>8, <2>2, <2>3, <2>4, <2>5, Assembled DEF StageInv
  <1> QED
    BY <1>5, <1>9, <1>10 DEF Update

\* The part is written.
LEMMA WriteStep ==
  ASSUME StageInv, NEW h \in Handler, WritePart(h) \/ WriteTorn(h)
  PROVE  StageInv'
  <1>1. TypeOK /\ proc[h].pc = "write" /\ UNCHANGED <<phase, declared, chunk, published, copied, row>>
    BY DEF StageInv, WritePart, WriteTorn, At
  <1>2. PICK u \in Upload : u = proc[h].upload
    BY <1>1, Working
  <1>3. PICK p \in Part : p = proc[h].part /\ proc[h].op = "part"
    BY <1>1 DEF StageInv, HandlerSound
  <1>4. PICK m \in Row : m = proc[h].mem
    BY <1>1 DEF StageInv, HandlerSound, Loaded
  <1>5. /\ HandlerSound(h) /\ StageSound(u) /\ lock[u] = h /\ row[u] # None /\ row[u] \in Row /\ file[u] # None
        /\ file[u] \in File /\ PartFits(p, m) /\ Tiled(m.parts, m.offset) /\ Holds(file[u], m.parts, m.offset)
        /\ row[u].parts = m.parts
        /\ row[u].state = "complete" \/ (row[u].state = "receiving" /\ row[u].offset = m.offset)
    BY <1>1, <1>2, <1>3, <1>4 DEF StageInv, HandlerSound, Holding, TypeOK
  <1>6. m.parts \in Seq(Part) /\ m.offset \in 0..Size /\ p.offset = m.offset /\ p.offset + p.size <= Size
        /\ p.size \in 0..p.size
    BY <1>5, PartSequence, PartNumbers DEF Row, PartList, PartFits
  <1>7. PICK n \in 0..p.size : /\ file' = [file EXCEPT ![u] = Appended(file[u], m.offset, p, n)]
                               /\ (n = p.size /\ Goto(h, "record") /\ lock' = lock) \/ End(h)
    BY <1>2, <1>3, <1>4, <1>6 DEF WritePart, WriteTorn
  <1> DEFINE new == Appended(file[u], m.offset, p, n)
  <1>8. /\ new \in File /\ Len(new) = m.offset + n /\ Holds(new, m.parts, m.offset)
        /\ \A i \in 1..Size : m.offset < i /\ i <= m.offset + n => new[i] = p.content
    BY <1>5, <1>6, AppendedFile
  <1> HIDE DEF new
  <1>9. file'[u] = new /\ (\A v \in Upload : v # u => file'[v] = file[v]) /\ file' \in [Upload -> File \cup {None}]
    BY <1>1, <1>7, <1>8 DEF TypeOK, new
  <1>10. new # None
    BY <1>8, MissingAssumption
  <1>11. /\ \A q \in Handler : q # h => proc'[q] = proc[q]
         /\ \A v \in Upload : \A q \in Handler : q # h /\ lock[v] = q => lock'[v] = q
    BY <1>1, <1>7, Ends, GoesOn
  <1>12. Polite(h)
    BY <1>1, <1>5, <1>9, <1>11, HolderPolite
  <1>13. TypeOK'
    BY <1>1, <1>7, <1>9, Ends, GoesOnTyped DEF TypeOK, Points
  <1>14. StageSound(u)'
    <2>1. row[u].state # "complete" => Intact(new, row[u])
      BY <1>5, <1>8 DEF Intact
    <2>2. ~row[u].released
      BY <1>5 DEF StageSound
    <2> QED
      BY <1>1, <1>5, <1>9, <2>1, <2>2 DEF StageSound, PublishedStage
  <1>15. HandlerSound(h)'
    <2>1. CASE End(h)
      BY <1>1, <2>1, Ends, IdleSound
    <2>2. CASE n = p.size /\ Goto(h, "record") /\ lock' = lock
      <3>1. /\ proc'[h].pc = "record" /\ proc'[h].mem = m /\ proc'[h].upload = u
            /\ proc'[h].op = "part" /\ proc'[h].part = p
        BY <1>1, <1>2, <1>3, <1>4, <2>2, GoesOn
      <3>2. m.content = declared[u]
        BY <1>1, <1>2, <1>4, <1>5 DEF HandlerSound, Loaded
      <3> QED
        BY <1>1, <1>5, <1>6, <1>8, <1>9, <1>10, <2>2, <3>1, <3>2 DEF HandlerSound, Holding, Loaded
    <2> QED
      BY <1>7, <2>1, <2>2
  <1> QED
    BY <1>1, <1>9, <1>12, <1>13, <1>14, <1>15, Assembled DEF StageInv

\* The part is recorded.
LEMMA RecordStep ==
  ASSUME StageInv, NEW h \in Handler, RecordPart(h)
  PROVE  StageInv'
  <1>1. TypeOK /\ proc[h].pc = "record" /\ UNCHANGED <<phase, declared, chunk, published, copied, file>> /\ End(h)
    BY DEF StageInv, RecordPart, At
  <1>2. PICK u \in Upload : u = proc[h].upload
    BY <1>1, Working
  <1>3. PICK p \in Part : p = proc[h].part /\ proc[h].op = "part"
    BY <1>1 DEF StageInv, HandlerSound
  <1>4. PICK m \in Row : m = proc[h].mem
    BY <1>1 DEF StageInv, HandlerSound, Loaded
  <1>5. /\ HandlerSound(h) /\ StageSound(u) /\ lock[u] = h /\ row[u] # None /\ row[u] \in Row /\ file[u] # None
        /\ file[u] \in File /\ PartFits(p, m) /\ Tiled(m.parts, m.offset) /\ Holds(file[u], m.parts, m.offset)
        /\ row[u].parts = m.parts
        /\ row[u].state = "complete" \/ (row[u].state = "receiving" /\ row[u].offset = m.offset)
        /\ Len(file[u]) = p.offset + p.size
        /\ \A i \in 1..Size : p.offset < i /\ i <= p.offset + p.size => file[u][i] = p.content
    BY <1>1, <1>2, <1>3, <1>4 DEF StageInv, HandlerSound, Holding, TypeOK
  <1>6. m.parts \in Seq(Part) /\ m.offset \in 0..Size /\ p.offset = m.offset /\ p.offset + p.size <= Size
        /\ Len(m.parts) < MaxParts /\ p.offset \in Nat /\ p.size \in Nat
    BY <1>5, PartSequence, PartNumbers DEF Row, PartList, PartFits
  <1> DEFINE all == Append(m.parts, p)
             end == p.offset + p.size
             new == [row[u] EXCEPT !.offset = end, !.parts = all, !.expired = FALSE]
  <1>7. all \in Seq(Part) /\ Len(all) = Len(m.parts) + 1 /\ all[Len(m.parts) + 1] = p
        /\ \A n \in 1..Len(m.parts) : all[n] = m.parts[n]
    BY <1>6
  <1>8. all \in PartList /\ end \in 0..Size
    <2>1. Len(m.parts) \in Nat
      BY <1>6
    <2> HIDE DEF all
    <2>2. Len(all) <= MaxParts
      BY <1>6, <1>7, <2>1, StageAssumption
    <2>3. all \in PartList
      BY <1>7, <2>2, PartSequence
    <2> QED
      BY <1>6, <2>3, StageAssumption
  <1>9. CASE row' = row
    BY <1>1, <1>9, EndStep
  <1>10. CASE Update(u, new)
    <2>1. Tiled(all, end)
      BY <1>5, <1>6, TiledAppend
    <2>2. Holds(file[u], all, end)
      <3> HIDE DEF all
      <3>1. Len(file[u]) >= end
        BY <1>5, <1>6
      <3>2. ASSUME NEW n \in 1..Len(all), NEW i \in 1..Size, all[n].offset < i, i <= all[n].offset + all[n].size
            PROVE  file[u][i] = all[n].content
        <4>1. CASE n = Len(m.parts) + 1
          BY <1>5, <1>7, <3>2, <4>1
        <4>2. CASE n \in 1..Len(m.parts)
          BY <1>5, <1>7, <3>2, <4>2 DEF Holds
        <4> QED
          BY <1>6, <1>7, <4>1, <4>2
      <3> QED
        BY <3>1, <3>2 DEF Holds
    <2> HIDE DEF all, end
    <2>3. /\ new \in Row /\ new.state = row[u].state /\ new.parts = all /\ new.offset = end
          /\ new.content = row[u].content /\ new.released = row[u].released
      BY <1>5, <1>8 DEF Row, PartList
    <2> HIDE DEF new
    <2>4. row'[u] = new /\ (\A v \in Upload : v # u => row'[v] = row[v]) /\ row' \in [Upload -> Row \cup {None}]
      BY <1>1, <1>5, <1>10, <2>3, Updates
    <2>5. Polite(h)
      BY <1>1, <1>5, <2>4, Ends, HolderPolite
    <2>6. TypeOK'
      BY <1>1, <2>4, Ends DEF TypeOK
    <2>7. HandlerSound(h)'
      BY <1>1, Ends, IdleSound
    <2>8. StageSound(u)'
      BY <1>1, <1>5, <2>1, <2>2, <2>3, <2>4 DEF StageSound, Intact, PublishedStage
    <2> QED
      BY <1>1, <2>4, <2>5, <2>6, <2>7, <2>8, Assembled DEF StageInv
  <1> QED
    BY <1>2, <1>3, <1>4, <1>9, <1>10 DEF RecordPart, Mine

\* destroy() and pruning remove the file under the lock ...
LEMMA LockDestroyStep ==
  ASSUME StageInv, NEW h \in Handler, LockDestroy(h)
  PROVE  StageInv'
  <1>1. TypeOK /\ proc[h].pc = "lock" /\ proc[h].op = "destroy" /\ UNCHANGED <<phase, declared, chunk, published, copied, row>>
    BY DEF StageInv, LockDestroy, At
  <1>2. PICK u \in Upload : u = proc[h].upload
    BY <1>1, Working
  <1>3. CASE End(h) /\ file' = file
    BY <1>1, <1>3, EndStep
  <1>4. CASE /\ lock[u] = None /\ row[u] # None /\ row[u].state # "finalizing"
             /\ lock' = [lock EXCEPT ![u] = h] /\ file' = [file EXCEPT ![u] = None] /\ Goto(h, "forget")
    <2>1. /\ file'[u] = None /\ (\A v \in Upload : v # u => file'[v] = file[v]) /\ file' \in [Upload -> File \cup {None}]
          /\ lock'[u] = h
      BY <1>1, <1>4 DEF TypeOK
    <2>2. /\ proc'[h].pc = "forget" /\ proc'[h].upload = u
          /\ proc'[h].op = "destroy" /\ proc'[h].part = proc[h].part
      BY <1>1, <1>2, <1>4, GoesOn
    <2>3. Polite(h)
      BY <1>1, <1>4, <2>1, GoesOn, LocksKept, UnlockedPolite
    <2>4. TypeOK'
      BY <1>1, <1>4, <2>1, GoesOnTyped, LocksKept DEF TypeOK, Points
    <2>5. HandlerSound(h)'
      BY <1>1, <1>4, <2>1, <2>2 DEF HandlerSound, Holding, Loaded
    <2>6. StageSound(u)'
      BY <1>1, <2>1, FileGone
    <2> QED
      BY <1>1, <2>1, <2>3, <2>4, <2>5, <2>6, Assembled DEF StageInv
  <1> QED
    BY <1>2, <1>3, <1>4 DEF LockDestroy

\* ... as does pruning ...
LEMMA PruneStep ==
  ASSUME StageInv, NEW h \in Handler, NEW u \in Upload, PruneStage(h, u)
  PROVE  StageInv'
  <1> DEFINE new == [pc |-> "forget", op |-> "prune", upload |-> u, mem |-> None, part |-> None]
  <1>1. /\ TypeOK /\ UNCHANGED <<phase, declared, chunk, published, copied, row>> /\ lock[u] = None /\ row[u] # None
        /\ row[u].expired \/ phase = "deleting"
        /\ lock' = [lock EXCEPT ![u] = h] /\ file' = [file EXCEPT ![u] = None] /\ proc' = [proc EXCEPT ![h] = new]
    BY DEF StageInv, PruneStage
  <1>2. /\ new \in Proc /\ new.pc = "forget" /\ new.op = "prune" /\ new.upload = u
    BY DEF Proc
  <1> HIDE DEF new
  <1>3. /\ file'[u] = None /\ (\A v \in Upload : v # u => file'[v] = file[v]) /\ file' \in [Upload -> File \cup {None}]
        /\ lock'[u] = h /\ proc'[h] = new /\ proc' \in [Handler -> Proc] /\ \A q \in Handler : q # h => proc'[q] = proc[q]
    BY <1>1, <1>2 DEF TypeOK
  <1>4. Polite(h)
    BY <1>1, <1>3, LocksKept, UnlockedPolite
  <1>5. TypeOK'
    BY <1>1, <1>3, LocksKept DEF TypeOK
  <1>6. HandlerSound(h)'
    BY <1>1, <1>2, <1>3 DEF HandlerSound, Holding, Loaded
  <1>7. StageSound(u)'
    BY <1>1, <1>3, FileGone
  <1> QED
    BY <1>1, <1>3, <1>4, <1>5, <1>6, <1>7, Assembled DEF StageInv

\* ... and then the row.
LEMMA ForgetStep ==
  ASSUME StageInv, NEW h \in Handler, ForgetStage(h)
  PROVE  StageInv'
  <1>1. /\ TypeOK /\ proc[h].pc = "forget" /\ UNCHANGED <<phase, declared, chunk, published, copied, file>> /\ End(h)
        /\ row' = [row EXCEPT ![proc[h].upload] = None]
    BY DEF StageInv, ForgetStage, At
  <1>2. PICK u \in Upload : u = proc[h].upload
    BY <1>1, Working
  <1>3. lock[u] = h
    BY <1>1, <1>2 DEF StageInv, HandlerSound, Holding
  <1>4. row'[u] = None /\ (\A v \in Upload : v # u => row'[v] = row[v]) /\ row' \in [Upload -> Row \cup {None}]
    BY <1>1, <1>2 DEF TypeOK
  <1>5. Polite(h)
    BY <1>1, <1>3, <1>4, Ends, HolderPolite
  <1>6. TypeOK'
    BY <1>1, <1>4, Ends DEF TypeOK
  <1>7. HandlerSound(h)'
    BY <1>1, Ends, IdleSound
  <1>8. StageSound(u)'
    BY <1>4 DEF StageSound
  <1> QED
    BY <1>1, <1>4, <1>5, <1>6, <1>7, <1>8, Assembled DEF StageInv

\* Nothing is staged at first.
LEMMA EmptyLists == <<>> \in File /\ <<>> \in PartList
  <1>1. <<>> \in Seq(Content) /\ <<>> \in Seq(Part) /\ Len(<<>>) = 0
    OBVIOUS
  <1>2. Len(<<>>) <= Size /\ Len(<<>>) <= MaxParts
    BY <1>1, StageAssumption
  <1>3. <<>> \in File
    BY <1>1, <1>2, FileSequence
  <1>4. <<>> \in PartList
    BY <1>1, <1>2, PartSequence
  <1> QED
    BY <1>3, <1>4

\* begin() makes a row with an empty file; the identifier keeps its ciphertext.
LEMMA BeginStep ==
  ASSUME StageInv, NEW u \in Upload, NEW v \in Content, Begin(u, v)
  PROVE  StageInv'
  <1> DEFINE new == [state |-> "receiving", offset |-> 0, parts |-> <<>>, expired |-> FALSE,
                     released |-> FALSE, content |-> v]
  <1>1. /\ TypeOK /\ UNCHANGED <<phase, chunk, published, copied, lock, proc>>
        /\ declared[u] \in {None, v} /\ declared' = [declared EXCEPT ![u] = v]
        /\ row[u] = None /\ file[u] = None /\ ~published
        /\ row' = [row EXCEPT ![u] = new] /\ file' = [file EXCEPT ![u] = <<>>]
    BY DEF StageInv, Begin
  <1>2. /\ new \in Row /\ new.state = "receiving" /\ new.offset = 0 /\ new.parts = <<>> /\ new.content = v
        /\ new.released = FALSE
    <2>1. <<>> \in PartList
      BY EmptyLists
    <2> QED
      BY <2>1, StageAssumption DEF Row, PartList
  <1>3. <<>> \in File
    BY EmptyLists
  <1> HIDE DEF new
  <1>4. /\ row'[u] = new /\ file'[u] = <<>> /\ declared'[u] = v
        /\ \A w \in Upload : w # u => row'[w] = row[w] /\ file'[w] = file[w] /\ declared'[w] = declared[w]
        /\ row' \in [Upload -> Row \cup {None}] /\ file' \in [Upload -> File \cup {None}]
        /\ declared' \in [Upload -> Content \cup {None}]
    BY <1>1, <1>2, <1>3 DEF TypeOK
  <1>5. ~\E q \in Handler : proc[q].pc \in Holding /\ proc[q].upload = u
    BY <1>1 DEF StageInv, HandlerSound
  <1>6. Polite(None)
    <2>1. \A w \in Upload : row[w] # None => Gentle(row[w], row[w])
      BY DEF Gentle
    <2> QED
      BY <1>1, <1>4, <1>5, <2>1 DEF Polite
  <1>7. TypeOK'
    BY <1>1, <1>4 DEF TypeOK
  <1>8. StageSound(u)'
    <2>1. Intact(<<>>, new)
      BY <1>2, StageAssumption DEF Intact, Tiled, Holds
    <2> QED
      BY <1>1, <1>2, <1>4, <2>1 DEF StageSound
  <1> QED
    BY <1>1, <1>4, <1>6, <1>7, <1>8, StageAssumption, Assembled DEF StageInv

\* A file without a row comes and goes.
LEMMA OrphanStep ==
  ASSUME StageInv, NEW u \in Upload, BeginDies(u) \/ SweepOrphan(u)
  PROVE  StageInv'
  <1>1. /\ TypeOK /\ UNCHANGED <<phase, declared, chunk, published, copied, row, lock, proc>> /\ row[u] = None
        /\ \/ ~published /\ file' = [file EXCEPT ![u] = <<>>]
           \/ file' = [file EXCEPT ![u] = None]
    BY DEF StageInv, BeginDies, SweepOrphan
  <1>2. /\ \A w \in Upload : w # u => file'[w] = file[w]
        /\ file' \in [Upload -> File \cup {None}] /\ (published => file'[u] = None)
    BY <1>1, EmptyLists DEF TypeOK
  <1>3. ~\E q \in Handler : proc[q].pc \in Holding /\ proc[q].upload = u
    BY <1>1 DEF StageInv, HandlerSound
  <1>4. Polite(None)
    <2>1. \A w \in Upload : row[w] # None => Gentle(row[w], row[w])
      BY DEF Gentle
    <2> QED
      BY <1>1, <1>2, <1>3, <2>1 DEF Polite
  <1>5. TypeOK'
    BY <1>1, <1>2 DEF TypeOK
  <1>6. StageSound(u)'
    BY <1>1 DEF StageSound
  <1> QED
    BY <1>1, <1>2, <1>4, <1>5, <1>6, StageAssumption, Assembled DEF StageInv

\* A stage expires.
LEMMA ExpireStep ==
  ASSUME StageInv, NEW u \in Upload, ExpireStage(u)
  PROVE  StageInv'
  <1>1. /\ TypeOK /\ UNCHANGED <<phase, declared, chunk, published, copied, file, lock, proc>> /\ row[u] # None
        /\ row' = [row EXCEPT ![u].expired = TRUE] /\ row[u] \in Row /\ StageSound(u)
    BY DEF StageInv, ExpireStage, TypeOK
  <1> DEFINE new == [row[u] EXCEPT !.expired = TRUE]
  <1>2. /\ new \in Row /\ new.state = row[u].state /\ new.parts = row[u].parts /\ new.offset = row[u].offset
        /\ new.content = row[u].content /\ new.expired /\ new.released = row[u].released
    BY <1>1 DEF Row
  <1>3. row'[u] = new /\ (\A v \in Upload : v # u => row'[v] = row[v]) /\ row' \in [Upload -> Row \cup {None}]
    BY <1>1, <1>2 DEF TypeOK
  <1> HIDE DEF new
  <1>4. Polite(None)
    <2>1. Gentle(row[u], row'[u])
      BY <1>2, <1>3, MissingAssumption DEF Gentle
    <2> QED
      BY <1>1, <1>3, <2>1, GentlePolite
  <1>5. TypeOK'
    BY <1>1, <1>3 DEF TypeOK
  <1>6. StageSound(u)'
    BY <1>1, <1>2, <1>3 DEF StageSound, Intact, PublishedStage
  <1> QED
    BY <1>1, <1>3, <1>4, <1>5, <1>6, StageAssumption, Assembled DEF StageInv

\* The chunk is uploaded directly, or its transfer ends.
LEMMA OutsideStep ==
  ASSUME StageInv, (\E v \in Content : DirectUpload(v)) \/ (\E next \in {"ended", "deleting"} : TransferEnds(next))
  PROVE  StageInv'
  <1>1. TypeOK /\ UNCHANGED <<declared, row, file, lock, proc>>
    BY DEF StageInv, DirectUpload, TransferEnds
  <1>2. /\ \/ UNCHANGED <<chunk, published, copied>>
           \/ ~published /\ \E v \in Content : chunk' = v /\ published' = TRUE /\ copied' = Whole(v)
        /\ phase' \in {"open", "ended", "deleting"} /\ (phase = "deleting" => phase' = "deleting")
    BY <1>1 DEF DirectUpload, TransferEnds, TypeOK
  <1>3. Polite(None)
    <2>1. \A w \in Upload : row[w] # None => Gentle(row[w], row[w])
      BY DEF Gentle
    <2> QED
      BY <1>1, <1>2, <2>1 DEF Polite
  <1>4. TypeOK' /\ (published' => chunk' # None /\ copied' = Whole(chunk'))
    <2>1. CASE UNCHANGED <<chunk, published, copied>>
      BY <1>1, <1>2, <2>1 DEF TypeOK, StageInv
    <2>2. ASSUME NEW v \in Content, chunk' = v, published' = TRUE, copied' = Whole(v)
          PROVE  TypeOK' /\ (published' => chunk' # None /\ copied' = Whole(chunk'))
      BY <1>1, <1>2, <2>2, WholeTyped, StageAssumption DEF TypeOK
    <2> QED
      BY <1>2, <2>1, <2>2
  <1> QED
    BY <1>1, <1>3, <1>4, StageAssumption, Assembled

-----------------------------------------------------------------------------
(* The theorems.                                                           *)

\* No handler, torn write, crash or direct upload breaks the invariant.
LEMMA StageInvariant == Spec => []StageInv
  <1>1. Init => StageInv
    <2> SUFFICES ASSUME Init PROVE StageInv
      OBVIOUS
    <2>1. TypeOK
      BY EmptyLists DEF Init, TypeOK, Proc
    <2>2. \A h \in Handler : HandlerSound(h)
      BY DEF Init, HandlerSound, NoProc, Holding, Loaded
    <2>3. \A u \in Upload : StageSound(u)
      BY DEF Init, StageSound
    <2> QED
      BY <2>1, <2>2, <2>3 DEF Init, StageInv
  <1>2. StageInv /\ [Next]_vars => StageInv'
    <2> SUFFICES ASSUME StageInv, [Next]_vars
                 PROVE  StageInv'
      OBVIOUS
    <2>1. ASSUME NEW h \in Handler, HandlerStep(h)
          PROVE  StageInv'
      BY <2>1, RecoverStep, RecoveredStep, CheckStep, LockPartStep, WriteStep, RecordStep, LockCompleteStep, VerifyStep,
         FinalizeStep, PublishStep, PublishFailsStep, UndoStep, SealStep, UnlinkStep, ReleaseStep, LockDestroyStep,
         ForgetStep DEF HandlerStep
    <2>2. ASSUME NEW h \in Handler, Die(h)
          PROVE  StageInv'
      BY <2>2, EndStep DEF Die
    <2>3. ASSUME NEW h \in Handler, NEW u \in Upload, NEW op \in {"show", "complete", "destroy"}, Load(h, op, u, None)
          PROVE  StageInv'
      BY <2>3, LoadStep
    <2>4. ASSUME NEW h \in Handler, NEW u \in Upload, NEW p \in Part, Load(h, "part", u, p)
          PROVE  StageInv'
      BY <2>4, LoadStep
    <2>5. CASE UNCHANGED vars
      <3>1. Polite(None)
        <4>1. \A w \in Upload : row[w] # None => Gentle(row[w], row[w])
          BY DEF Gentle
        <4> QED
          BY <2>5, <4>1 DEF Polite, vars
      <3>2. TypeOK'
        BY <2>5 DEF StageInv, TypeOK, vars
      <3> QED
        BY <2>5, <3>1, <3>2, StageAssumption, Assembled DEF StageInv, vars
    <2> QED
      BY <2>1, <2>2, <2>3, <2>4, <2>5, PruneStep, BeginStep, OrphanStep, ExpireStep, OutsideStep DEF Next
  <1> QED
    BY <1>1, <1>2, PTL DEF Spec

\* part() and complete(), for any number of handlers, part sizes and rival
\* ciphertexts: whatever torn writes, crashes and concurrent handlers did, the
\* staging file starts with exactly the parts that were acknowledged, and the
\* filestores receive exactly the ciphertext that was declared.
THEOREM StagedStaysIntact == Spec => []StagedIntact
  <1>1. StageInv => StagedIntact
    <2> SUFFICES ASSUME StageInv
                 PROVE  StagedIntact
      OBVIOUS
    <2>1. AcknowledgedPrefix
      <3> SUFFICES ASSUME NEW u \in Upload, row[u] # None, row[u].state # "complete", file[u] # None
                   PROVE  PrefixValid(file[u], row[u])
        BY DEF AcknowledgedPrefix
      <3>1. row[u] \in Row /\ file[u] \in File
        BY DEF StageInv, TypeOK
      <3>2. Tiled(row[u].parts, row[u].offset) /\ Holds(file[u], row[u].parts, row[u].offset)
        BY DEF StageInv, StageSound, Intact
      <3> QED
        BY <3>1, <3>2, IntactPrefix
    <2> QED
      BY <2>1 DEF StagedIntact, StageInv, PublishedIntact
  <1> QED
    BY <1>1, StageInvariant, PTL

\* What a stage that is being finalized holds is left alone: parts are recorded
\* and stages destroyed under the lock, which its handler has.
LEMMA FinalizingKept == StageInv /\ [Next]_vars => FinalizingUndisturbedStep
  <1> SUFFICES ASSUME StageInv, [Next]_vars, NEW u \in Upload, row[u] # None, row[u].state = "finalizing"
               PROVE  \/ row'[u] = None /\ (row[u].expired \/ phase = "deleting")
                      \/ row'[u] # None /\ row'[u].parts = row[u].parts
    BY DEF FinalizingUndisturbedStep
  <1>1. TypeOK /\ row[u] \in Row
    BY DEF StageInv, TypeOK
  <1> DEFINE Kept == row'[u] # None /\ row'[u].parts = row[u].parts
  <1>2. CASE row' = row
    BY <1>2
  <1>3. ASSUME NEW w \in Upload, NEW new, Update(w, new), w = u => new \in Row /\ new.parts = row[u].parts
        PROVE  Kept
    BY <1>1, <1>3, Updates, MissingAssumption
  <1>4. \A s : /\ [row[u] EXCEPT !.state = s].parts = row[u].parts
               /\ s \in {"receiving", "finalizing", "complete"} => [row[u] EXCEPT !.state = s] \in Row
    BY <1>1 DEF Row
  <1>5. ASSUME NEW h \in Handler, HandlerStep(h)
        PROVE  \/ row'[u] = None /\ (row[u].expired \/ phase = "deleting")
               \/ Kept
    <2>1. CASE At(h, "idle")
      BY <2>1, <1>5 DEF HandlerStep, At, Recover, Recovered, Check, LockPart, WritePart, WriteTorn, RecordPart, LockComplete,
                        VerifyStaged, Finalize, PublishStaged, PublishFails, UndoFinalize, Seal, UnlinkStaged, Release,
                        LockDestroy, ForgetStage
    <2>2. CASE ~At(h, "idle")
      <3>1. PICK w \in Upload : w = proc[h].upload
        BY <1>1, <2>2, Working DEF At
      <3>2. HandlerSound(h) /\ row[w] \in Row \cup {None}
        BY <1>1 DEF StageInv, TypeOK
      <3>3. ASSUME Recovered(h) \/ Check(h)
            PROVE  Kept
        <4>1. PICK m \in Row : m = proc[h].mem
          BY <3>2, <3>3 DEF Recovered, Check, At, HandlerSound, Loaded
        <4>2. \/ row' = row \/ Update(w, [row[w] EXCEPT !.state = "receiving"])
              \/ Update(w, Completed(row[w], m, file[w] = None))
          BY <3>1, <3>3, <4>1 DEF Recovered, Check, AdoptPublished, Mine
        <4>3. w = u => /\ Completed(row[w], m, file[w] = None) \in Row
                       /\ Completed(row[w], m, file[w] = None).parts = row[u].parts
          <5>1. (file[u] = None) \in BOOLEAN
            OBVIOUS
          <5>2. /\ Completed(row[u], m, file[u] = None) \in Row
                /\ Completed(row[u], m, file[u] = None).parts = row[u].parts
            BY <1>1, <5>1, CompletedRow
          <5> QED
            BY <5>2
        <4> QED
          BY <1>2, <1>3, <1>4, <4>2, <4>3
      <3>4. ASSUME Finalize(h) \/ UndoFinalize(h) \/ Seal(h)
            PROVE  Kept
        <4>1. row' = row \/ \E s \in {"receiving", "finalizing", "complete"} : Update(w, [row[w] EXCEPT !.state = s])
          BY <3>1, <3>4 DEF Finalize, UndoFinalize, Seal, Mine
        <4> QED
          BY <1>2, <1>3, <1>4, <4>1
      <3>5. ASSUME Release(h)
            PROVE  Kept
        <4>1. Update(w, [row[w] EXCEPT !.released = TRUE])
          BY <3>1, <3>5 DEF Release, Mine
        <4>2. w = u => [row[w] EXCEPT !.released = TRUE] \in Row /\ [row[w] EXCEPT !.released = TRUE].parts = row[u].parts
          BY <1>1 DEF Row
        <4> QED
          BY <1>3, <4>1, <4>2
      <3>6. ASSUME RecordPart(h)
            PROVE  Kept
        <4>1. w # u
          BY <3>1, <3>2, <3>6 DEF RecordPart, At, HandlerSound
        <4> QED
          BY <1>2, <1>3, <3>1, <3>6, <4>1 DEF RecordPart
      <3>7. ASSUME ForgetStage(h)
            PROVE  \/ row'[u] = None /\ (row[u].expired \/ phase = "deleting")
                   \/ Kept
        BY <1>1, <3>1, <3>2, <3>7 DEF ForgetStage, At, HandlerSound, TypeOK
      <3>8. CASE \/ Recover(h) \/ LockPart(h) \/ WritePart(h) \/ WriteTorn(h) \/ LockComplete(h) \/ VerifyStaged(h)
                 \/ PublishStaged(h) \/ PublishFails(h) \/ UnlinkStaged(h) \/ LockDestroy(h)
        BY <1>2, <3>8 DEF Recover, LockPart, WritePart, WriteTorn, LockComplete, VerifyStaged, PublishStaged, PublishFails,
                          UnlinkStaged, LockDestroy
      <3> QED
        BY <1>5, <3>3, <3>4, <3>5, <3>6, <3>7, <3>8 DEF HandlerStep
    <2> QED
      BY <2>1, <2>2
  <1>6. ASSUME NEW w \in Upload, ExpireStage(w)
        PROVE  Kept
    <2>1. row' = [row EXCEPT ![w].expired = TRUE]
      BY <1>6 DEF ExpireStage
    <2>2. [row[u] EXCEPT !.expired = TRUE] \in Row /\ [row[u] EXCEPT !.expired = TRUE].parts = row[u].parts
      BY <1>1 DEF Row
    <2>3. row'[u] = row[u] \/ row'[u] = [row[u] EXCEPT !.expired = TRUE]
      BY <1>1, <2>1 DEF TypeOK
    <2> QED
      BY <2>2, <2>3, MissingAssumption
  <1>7. ASSUME NEW w \in Upload, NEW v \in Content, Begin(w, v)
        PROVE  Kept
    BY <1>1, <1>7 DEF Begin, TypeOK
  <1>8. ASSUME NEW h \in Handler, NEW w \in Upload,
               \/ \E op \in {"show", "complete", "destroy"} : Load(h, op, w, None)
               \/ \E p \in Part : Load(h, "part", w, p)
               \/ PruneStage(h, w)
        PROVE  row' = row
    BY <1>8 DEF Load, PruneStage
  <1>9. CASE \/ \E w \in Upload : BeginDies(w) \/ SweepOrphan(w)
             \/ \E h \in Handler : Die(h)
             \/ \E v \in Content : DirectUpload(v)
             \/ \E next \in {"ended", "deleting"} : TransferEnds(next)
             \/ UNCHANGED vars
    BY <1>2, <1>9 DEF BeginDies, SweepOrphan, Die, DirectUpload, TransferEnds, vars
  <1> QED
    BY <1>2, <1>5, <1>6, <1>7, <1>8, <1>9 DEF Next

\* ChunkStaging, for the same: a complete stage stands for a published chunk,
\* quota is handed back only for files that are gone, and a stage that is being
\* finalized takes no part and is removed only when it may be pruned.
THEOREM StageStaysConsistent == Spec => StageConsistent
  <1>1. StageInv => TypeOK /\ CompleteMeansPublished /\ ReleasedMeansRemoved
    BY DEF StageInv, StageSound, CompleteMeansPublished, ReleasedMeansRemoved
  <1> QED
    BY <1>1, StageInvariant, FinalizingKept, PTL DEF Spec, StageConsistent
=============================================================================
