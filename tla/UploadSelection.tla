--------------------------- MODULE UploadSelection ---------------------------
(***************************************************************************)
(* What an upload sends (transfer-native/uploads and source): the selected *)
(* paths are resolved and walked, a directory asks for a mode, and the     *)
(* selection becomes individual files with distinct names or one archive,  *)
(* which is moved from the temporary directory into the job's own before   *)
(* the job records it, as are pasted images.  A mobile host passes sources *)
(* instead of paths.                                                       *)
(*                                                                         *)
(* The file system is a forest of nodes numbered in the order of a walk.   *)
(* A name is a sequence of numbers: a stem (0), the indices that           *)
(* unique_name() appends (from 2) and the separator of a path (1), so that *)
(* "a (2)" may be a file's own name or one that was made.  Names are       *)
(* portable already: two entries of a directory may have the same one.     *)
(***************************************************************************)
EXTENDS Integers, Sequences, FiniteSets, SequencesExt

CONSTANTS Nodes, Stems, MaxRoots, Maximum, None

Node == 1..Nodes

VARIABLES
    tree,           \* [parent, kind, name]: the file system
    paths,          \* the selected paths, in order
    provider,       \* the host passed these as sources, by their full names
    snapshot,       \* the selected files that are only temporary (pasted images)
    mode,           \* "Ask", "RequireFlag", "Zip" or "Individual"
    limit,          \* the instance's file limit, or None
    step,           \* how far the preparation is
    sources,        \* the entries found, in order: [node, name, directory]
    temporary,      \* the archive in the temporary directory, or None
    retained,       \* the archive in the job's directory, or None
    copies,         \* the files copied into the job's directory
    record          \* what the checkpoint names as its sources, or None

selection == <<tree, paths, provider, snapshot, limit>>
vars == <<selection, mode, step, sources, temporary, retained, copies, record>>

\* The ancestors of a node
Above(t) ==
    LET above[i \in 0..Nodes] == IF i = 0 THEN {} ELSE {t.parent[i]} \cup above[t.parent[i]]
    IN above

\* Numbered in the order of the walk, below directories
Forest(t) ==
    \A i \in Node:
        /\ t.parent[i] # 0 => t.kind[t.parent[i]] = "directory"
        /\ i > 1 => t.parent[i] \in {i - 1, 0} \cup Above(t)[i - 1]

Init ==
    /\ tree \in [parent: [Node -> 0..Nodes - 1], kind: [Node -> {"file", "directory", "link"}],
                 name: [Node -> Stems]]
    /\ \A i \in Node: tree.parent[i] < i
    /\ Forest(tree)
    /\ paths \in UNION {[1..n -> Node]: n \in 1..MaxRoots}
    /\ provider \in BOOLEAN
    /\ \A k \in DOMAIN paths: provider => tree.kind[paths[k]] = "file"
    /\ snapshot \in {{}, {paths[1]}} /\ \A i \in snapshot: tree.kind[i] = "file" /\ ~provider
    /\ mode \in {"Ask", "RequireFlag", "Zip", "Individual"}
    /\ limit \in Maximum \cup {None}
    /\ step = "walk" /\ sources = <<>> /\ temporary = None /\ retained = None /\ copies = {}
    /\ record = None

-----------------------------------------------------------------------------
(* Names *)

\* Faulty variant: a name is made from the stem only
SuffixOnce(name, used) == IF name \in used THEN Append(name, 2) ELSE name

\* unique_name(): the first index that is free
UniqueName(name, used) ==
    IF name \notin used THEN name
    ELSE LET free == {n \in 2..Cardinality(used) + 2: Append(name, n) \notin used}
         IN Append(name, CHOOSE n \in free: \A m \in free: n <= m)

\* Names for a sequence of entries, none used twice
Named(names) ==
    FoldLeft(LAMBDA made, name: Append(made, UniqueName(name, ToSet(made))), <<>>, names)

-----------------------------------------------------------------------------
(* The walk *)

\* canonicalize(): a link that is selected stands for what it points to
Canonical(i) == IF tree.kind[i] = "link" THEN 1 ELSE i

\* A path selected twice is walked once
Roots ==
    FoldLeft(LAMBDA seen, i: IF \E k \in 1..Len(seen): seen[k] = Canonical(i) THEN seen
                             ELSE Append(seen, Canonical(i)),
             <<>>, paths)

\* Links and special files inside a directory are left out
Below(root) == {i \in Node: (i = root \/ root \in Above(tree)[i])
                            /\ \A j \in {i} \cup Above(tree)[i]: j >= root => tree.kind[j] # "link"}

\* The portable path of an entry below a root that was given a name
PathOf(root, name, i) ==
    LET path[j \in root..Nodes] == IF j = root THEN name
                             ELSE path[tree.parent[j]] \o <<1>> \o tree.name[j]
    IN path[i]

\* collect(): in the order of the walk
Collect(root, name) ==
    LET found == SetToSortSeq(Below(root), <)
    IN [k \in 1..Len(found) |->
           [node |-> found[k], name |-> PathOf(root, name, found[k]),
            directory |-> tree.kind[found[k]] = "directory"]]

\* Two entries of one root that have the same portable path
Ambiguous(entries) == \E j, k \in 1..Len(entries): j # k /\ entries[j].name = entries[k].name

\* A root that is a dangling or special file is refused
Regular(i) == tree.kind[i] # "link"

\* A path that cannot be walked, or two entries of one path
Walk ==
    /\ step = "walk" /\ ~provider
    /\ LET names == Named([k \in 1..Len(Roots) |-> tree.name[Roots[k]]])
           found == [k \in 1..Len(Roots) |-> Collect(Roots[k], names[k])]
           refused == \E k \in 1..Len(Roots): ~Regular(Roots[k]) \/ Ambiguous(found[k])
       IN /\ sources' = IF refused THEN <<>> ELSE FlattenSeq(found)
          /\ step' = IF refused THEN "failed" ELSE "mode"
    /\ UNCHANGED <<selection, mode, temporary, retained, copies, record>>

\* The full name a host gives a source
FullName(i) ==
    LET name[j \in Node] == IF tree.parent[j] = 0 THEN tree.name[j]
                            ELSE name[tree.parent[j]] \o <<1>> \o tree.name[j]
    IN name[i]

Given == [k \in 1..Len(paths) |-> [node |-> paths[k], name |-> FullName(paths[k]), directory |-> FALSE]]

\* from_sources(): a directory was expanded by the host; the limit counts sources
\* whatever the mode
FromSources ==
    /\ step = "walk" /\ provider
    /\ LET refused == (limit # None /\ Len(paths) > limit) \/ (mode = "Zip" /\ Ambiguous(Given))
       IN /\ sources' = IF refused THEN <<>> ELSE Given
          /\ step' = IF refused THEN "failed" ELSE "mode"
    /\ UNCHANGED <<selection, mode, temporary, retained, copies, record>>

\* Regular files, each path once; the sources of a host as they are
Files ==
    IF provider THEN paths
    ELSE FoldLeft(LAMBDA seen, s: IF s.directory \/ \E k \in 1..Len(seen): seen[k] = s.node THEN seen
                                  ELSE Append(seen, s.node),
                  <<>>, sources)

-----------------------------------------------------------------------------
(* The mode *)

Undecided ==
    ~provider /\ mode \in {"Ask", "RequireFlag"} /\ \E k \in 1..Len(Roots): tree.kind[Roots[k]] = "directory"

\* A directory without a flag: a script fails, a user chooses
Decide(answer) ==
    /\ step = "mode" /\ Undecided
    /\ IF mode = "RequireFlag" \/ answer = None
       THEN step' = "failed" /\ UNCHANGED mode
       ELSE mode' = answer /\ UNCHANGED step
    /\ UNCHANGED <<selection, sources, temporary, retained, copies, record>>

\* An archive of every entry, in the temporary directory
Archive ==
    /\ step = "mode" /\ ~Undecided /\ mode = "Zip"
    /\ temporary' = {s.name: s \in ToSet(sources)}
    /\ step' = "archived"
    /\ UNCHANGED <<selection, mode, sources, retained, copies, record>>

\* The instance's limit counts what is sent
Individual ==
    /\ step = "mode" /\ ~Undecided /\ mode # "Zip"
    /\ step' = IF Files = <<>> \/ (limit # None /\ Len(Files) > limit) THEN "failed" ELSE "archived"
    /\ UNCHANGED <<selection, mode, sources, temporary, retained, copies, record>>

-----------------------------------------------------------------------------
(* What the job keeps *)

\* retain_archive(): a generated archive is copied and synced; its temporary
\* directory goes
RetainArchive ==
    /\ step = "archived"
    /\ retained' = temporary
    /\ temporary' = None
    /\ step' = "retained"
    /\ UNCHANGED <<selection, mode, sources, copies, record>>

\* retain_sources(): temporary files are copied and synced, unless they are in an
\* archive already
RetainSources ==
    /\ step = "retained"
    /\ copies' = IF mode = "Zip" THEN {} ELSE snapshot \cap ToSet(Files)
    /\ step' = "prepared"
    /\ UNCHANGED <<selection, mode, sources, temporary, retained, record>>

\* The names of the individual files: their own, or a host's full names, escaped
FileNames ==
    Named([k \in 1..Len(Files) |-> IF provider THEN FullName(Files[k]) ELSE tree.name[Files[k]]])

\* What the checkpoint will name
Described ==
    IF mode = "Zip" THEN [archive |-> IF retained # None THEN "job" ELSE "temporary", items |-> <<>>]
    ELSE [archive |-> None, items |-> [k \in 1..Len(Files) |-> [node |-> Files[k], name |-> FileNames[k]]]]

\* The job is saved, and resumed from there
Record ==
    /\ step = "prepared"
    /\ record' = Described
    /\ step' = "recorded"
    /\ UNCHANGED <<selection, mode, sources, temporary, retained, copies>>

\* The machine restarts: temporary files are gone, and a job that was not recorded
\* is not resumed
Reboot ==
    /\ step \notin {"failed", "lost"} /\ (step # "recorded" \/ temporary # None)
    /\ temporary' = None
    /\ step' = IF step = "recorded" THEN step ELSE "lost"
    /\ UNCHANGED <<selection, mode, sources, retained, copies, record>>

Next ==
    \/ Walk \/ FromSources \/ Archive \/ Individual \/ RetainArchive \/ RetainSources \/ Record \/ Reboot
    \/ \E answer \in {"Zip", "Individual", None}: Decide(answer)

Spec == Init /\ [][Next]_vars

-----------------------------------------------------------------------------

\* Every variable has its type
TypeOK ==
    /\ step \in {"walk", "mode", "archived", "retained", "prepared", "recorded", "failed", "lost"}
    /\ mode \in {"Ask", "RequireFlag", "Zip", "Individual"} /\ limit \in Maximum \cup {None}
    /\ \A k \in 1..Len(sources): sources[k].node \in Node

\* The regular files the user selected: themselves, or below a selected directory
\* along a way without links
Selected ==
    {i \in Node: /\ tree.kind[i] = "file"
                 /\ \E k \in 1..Len(paths): i \in Below(Canonical(paths[k]))}

\* Nothing selected is dropped and nothing is sent twice, though paths overlap,
\* repeat or have the same name: the items of an upload are the selected files,
\* with names no two of which are equal
ItemsExact ==
    record # None /\ mode # "Zip" =>
        /\ {it.node: it \in ToSet(record.items)} = IF provider THEN ToSet(paths) ELSE Selected
        /\ ~provider => Len(record.items) = Cardinality(Selected)
        /\ Cardinality({it.name: it \in ToSet(record.items)}) = Len(record.items)

\* What a checkpoint names is still there after the machine restarts or the pasted
\* images are gone: the archive, whose entries have distinct paths, and the files
\* that were only temporary
SourcesKept ==
    /\ mode = "Zip" /\ sources # <<>> => Cardinality({s.name: s \in ToSet(sources)}) = Len(sources)
    /\ record # None /\ record.archive # None =>
          LET kept == IF record.archive = "job" THEN retained ELSE temporary
          IN kept # None /\ kept = {s.name: s \in ToSet(sources)}
    /\ record # None => {it.node: it \in ToSet(record.items)} \cap snapshot \subseteq copies
=============================================================================
