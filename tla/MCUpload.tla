------------------------------ MODULE MCUpload ------------------------------
(***************************************************************************)
(* Small instances of what an upload consists of, for TLC: the upload job, *)
(* the selection it sends, what its user is shown and how much of it is in *)
(* flight.  They are checked one at a time: a behaviour is one of the      *)
(* component that part names, and the others stay in their first state.    *)
(* The selection uses v1, v2, ..., which mean nothing in the behaviours of *)
(* the rest.                                                               *)
(***************************************************************************)
EXTENDS UploadJob, TransferFlow, TLC

CONSTANTS x1, x2, x3

\* Two chunks, the last one short
Plaintext == (x1 :> 2) @@ (x2 :> 1)

VARIABLES
  part,  \* the component this behaviour is one of
  v1, v2, v3, v4, v5, v6, v7, v8, v9, v10, v11, v12

selectionVars == <<v1, v2, v3, v4, v5, v6, v7, v8, v9, v10, v11, v12>>

sumVars == <<part, vars, selectionVars, progressVars, paceVars>>

Selection == INSTANCE UploadSelection WITH
  Nodes <- 3, Stems <- {<<0>>, <<0, 2>>}, MaxRoots <- 3, Maximum <- {1}, tree <- v1,
  paths <- v2, provider <- v3, snapshot <- v4, mode <- v5, limit <- v6, step <- v7,
  sources <- v8, temporary <- v9, retained <- v10, copies <- v11, record <- v12

\* Without a directory nobody is asked, and the mode is as good as "Individual"; the
\* file limit is met once an answer was given
ModeMatters ==
  /\ v5 \in {"Ask", "RequireFlag"} =>
       \E k \in DOMAIN v2 : v1.kind[Selection!Canonical(v2[k])] = "directory"
  /\ v6 # None => v5 \in {"Zip", "Individual"}

\* A component the behaviour is not about stays in its first state
SumInit ==
  /\ part \in {"job", "selection", "progress", "pace"}
  /\ Init /\ Showing!Init /\ Pacing!Init
  /\ part # "pace" => maximum = 1 /\ budget = 1
  /\ \/ part = "selection" /\ Selection!Init /\ ModeMatters
     \/ /\ part # "selection"
        /\ v1 = None /\ v2 = None /\ v3 = None /\ v4 = None /\ v5 = None /\ v6 = None
        /\ v7 = None /\ v8 = None /\ v9 = None /\ v10 = None /\ v11 = None /\ v12 = None

\* The envelopes nobody has seen are alike: the next one is the smallest
Drawn(saved) == IF saved = None THEN {} ELSE {saved.manifest, saved.descriptor} \ {None}
InOrder == \A m \in Drawn(run'.job) : Fresh(m) => \A n \in Envelope : n < m => ~Fresh(n)

SumNext ==
  /\ UNCHANGED part
  /\ \/ part = "job" /\ Next /\ InOrder /\ UNCHANGED <<selectionVars, progressVars, paceVars>>
     \/ part = "selection" /\ Selection!Next /\ UNCHANGED <<vars, progressVars, paceVars>>
     \/ part = "progress" /\ Showing!Next /\ UNCHANGED <<vars, selectionVars, paceVars>>
     \/ part = "pace" /\ Pacing!Next /\ UNCHANGED <<vars, selectionVars, progressVars>>

SumSpec == SumInit /\ [][SumNext]_sumVars

-----------------------------------------------------------------------------
\* uploads.rs prepare() and from_sources(): every selected file is sent once under a
\* name of its own, and what a resumed job needs is kept.
SelectionExact ==
  part = "selection" =>
    /\ Selection!TypeOK
    /\ Selection!ItemsExact /\ Selection!SourcesKept
=============================================================================
