---------------------------- MODULE ClientConfig ----------------------------
(***************************************************************************)
(* The configuration file config.toml that the CLI, the desktop            *)
(* application and their updater share (crates/client-config).             *)
(*                                                                         *)
(* A document holds nested keys, and the flat keys of older releases,      *)
(* which stay in it for ever but count only while there is no              *)
(* schema_version.  A process keeps the settings it loaded together with   *)
(* the baseline they were loaded as: save() writes the sections that       *)
(* differ from it.  Every operation works under an exclusive lock on a     *)
(* sidecar and commits by one rename, so each of them is one step.         *)
(*                                                                         *)
(* Values: 0 is the default, 1 another legal value, Alias another spelling *)
(* of 1 (a server address that loading normalises) and Illegal one that    *)
(* validation refuses.                                                     *)
(***************************************************************************)
EXTENDS Naturals

CONSTANTS
    Process,    \* programs that share the file
    Field,      \* the settings followed, by name
    Instances,  \* what FILEBEAM_INSTANCE may hold: a subset of {None, 1, Alias}
    Alias,
    Illegal,
    None

VARIABLES
    doc,        \* config.toml, or None
    held        \* held[p]: the Config a process has in memory, or None

vars == <<doc, held>>

\* The flat keys of the releases before schema_version
LegacyField == Field \cap {"auto_update", "max_concurrency", "reduced_motion"}

\* Fields that save() merges together
Section(f) ==
    IF f \in {"theme", "reduced_motion"}
    THEN Field \cap {"theme", "reduced_motion"} ELSE {f}

Value == {0, 1}

Settings == [Field -> Value]

Inputs == Value \cup {Alias, Illegal}

Default == [f \in Field |-> 0]

\* normalize_server_url()
Normal(v) == IF v = Alias THEN 1 ELSE v

Valid(s) == \A f \in Field: s[f] # Illegal

Blank == [schema |-> FALSE,
          nested |-> [f \in Field |-> None],
          legacy |-> [f \in LegacyField |-> None]]

Document(d) == IF d = None THEN Blank ELSE d

-----------------------------------------------------------------------------

\* from_document(): flat keys first and only without a schema_version, then
\* the nested ones over them
FromDocument(d) ==
    [f \in Field |->
        IF d.nested[f] # None THEN Normal(d.nested[f])
        ELSE IF ~d.schema /\ f \in LegacyField /\ d.legacy[f] # None
             THEN d.legacy[f]
             ELSE 0]

\* apply_config(): every key is written, except an absent limit, whose key
\* is removed; flat keys stay where they are
ApplyConfig(d, s) ==
    [d EXCEPT !.schema = TRUE,
              !.nested = [f \in Field |->
                  IF f = "max_concurrency" /\ s[f] = 0 THEN None ELSE s[f]]]

\* Faulty variant: the whole of the settings in memory
ApplyEverything(current, changed, baseline) == changed

\* apply_changes_from(): the sections that differ from the baseline
ApplyChangesFrom(current, changed, baseline) ==
    [f \in Field |->
        IF \E g \in Section(f): changed[g] # baseline[g]
        THEN changed[f] ELSE current[f]]

\* import_legacy_instance()
ImportLegacyInstance(d, s, instance) ==
    IF ~d.schema /\ d.nested["url"] = None /\ instance # None
    THEN [s EXCEPT !["url"] = Normal(instance)]
    ELSE s

-----------------------------------------------------------------------------

\* No file, or one left by an older release that the user has edited
Init ==
    /\ \/ doc = None
       \/ \E l \in [LegacyField -> {None, 1}], f \in LegacyField, n \in {None, 0}:
            doc = [Blank EXCEPT !.legacy = l, !.nested[f] = n]
    /\ held = [p \in Process |-> None]

\* The settings, and what a later save() compares them with
Config(s, baseline) == [now |-> s, baseline |-> baseline]

\* load() when there is no file: the defaults are written, and the Config
\* returned has no baseline
LoadFirst(p) ==
    /\ doc = None
    /\ \E instance \in Instances:
        LET s == ImportLegacyInstance(Blank, Default, instance) IN
        /\ doc' = ApplyConfig(Blank, s)
        /\ held' = [held EXCEPT ![p] = Config(s, None)]

\* load() of an existing file, rewriting one without a schema_version
Load(p) ==
    /\ doc # None
    /\ \E instance \in Instances:
        LET s == ImportLegacyInstance(doc, FromDocument(doc), instance) IN
        /\ doc' = IF doc.schema THEN doc ELSE ApplyConfig(doc, s)
        /\ held' = [held EXCEPT ![p] = Config(s, s)]

\* The program changes a field of the Config it holds
Change(p) ==
    /\ held[p] # None
    /\ \E f \in Field, v \in Value:
        held' = [held EXCEPT ![p].now[f] = v]
    /\ UNCHANGED doc

\* save() of a Config with a baseline
Merge(p) ==
    LET current == FromDocument(Document(doc)) IN
    ApplyChangesFrom(current, held[p].now, held[p].baseline)

Save(p) ==
    /\ held[p] # None
    /\ LET s == IF held[p].baseline = None THEN held[p].now ELSE Merge(p) IN
       doc' = ApplyConfig(Document(doc), s)
    /\ UNCHANGED held

\* update(): read, change, validate and write under one lock; an invalid
\* result is an error that leaves the file alone.  The caller keeps the
\* Config returned or drops it.
Update(p, f, v) ==
    LET s == [FromDocument(Document(doc)) EXCEPT ![f] = v] IN
    /\ f # "url" => v # Alias
    /\ IF Valid(s)
       THEN /\ doc' = ApplyConfig(Document(doc), s)
            /\ held' \in {held, [held EXCEPT
                   ![p] = Config(s, FromDocument(Document(doc)))]}
       ELSE UNCHANGED vars

\* The process ends
Exit(p) ==
    /\ held[p] # None
    /\ held' = [held EXCEPT ![p] = None]
    /\ UNCHANGED doc

Next ==
    \E p \in Process:
        \/ LoadFirst(p)
        \/ Load(p)
        \/ Change(p)
        \/ Save(p)
        \/ \E f \in Field, v \in Inputs: Update(p, f, v)
        \/ Exit(p)

Spec == Init /\ [][Next]_vars

-----------------------------------------------------------------------------

TypeOK ==
    /\ doc # None =>
        doc \in [schema : BOOLEAN,
                 nested : [Field -> Value \cup {None, Alias}],
                 legacy : [LegacyField -> {None, 1}]]
    /\ \A p \in Process:
        held[p] # None =>
            /\ held[p].now \in [Field -> Value \cup {Alias}]
            /\ held[p].baseline # None => held[p].baseline \in Settings

\* What a program that loads the file now reads
Effective == FromDocument(Document(doc))

\* update() followed by load() gives what was asked for: the change, and for
\* every other field what was read before.  In particular removing the
\* concurrency limit does not bring a flat key of an older release back.
UpdateReadBackStep ==
    \A p \in Process, f \in Field, v \in Value:
        Update(p, f, v) =>
            Effective' = [Effective EXCEPT ![f] = v]

\* A writer leaves every section alone that it has not changed itself since
\* it loaded the file: a Config held for long does not undo what other
\* programs saved meanwhile.  (A Config returned by the load that created the
\* file has no baseline, and is not covered.)
OthersChangesKeptStep ==
    \A p \in Process:
        (Save(p) /\ held[p].baseline # None) =>
            \A f \in Field:
                (\A g \in Section(f): held[p].now[g] = held[p].baseline[g])
                => Effective'[f] = Effective[f]

=============================================================================
