-------------------------- MODULE CiphertextStore --------------------------
(***************************************************************************)
(* What a transfer promises to its uploader and its readers: a set of      *)
(* write-once ciphertext chunks which can be written while the transfer is *)
(* open, are frozen together with one manifest when it is sealed, and are  *)
(* erased all at once after it has been closed.                            *)
(***************************************************************************)
CONSTANTS Position, Content, Manifest, None

VARIABLES phase, value, seal

vars == <<phase, value, seal>>

Init == phase = "absent" /\ value = [p \in Position |-> None] /\ seal = None

Open == phase = "absent" /\ phase' = "open" /\ UNCHANGED <<value, seal>>

Write(p, v) ==
  /\ phase = "open" /\ value[p] = None
  /\ value' = [value EXCEPT ![p] = v]
  /\ UNCHANGED <<phase, seal>>

Seal(m) ==
  /\ phase = "open" /\ \A p \in Position : value[p] # None
  /\ phase' = "sealed" /\ seal' = m
  /\ UNCHANGED value

Close == phase \in {"open", "sealed"} /\ phase' = "closed" /\ UNCHANGED <<value, seal>>

Erase ==
  /\ phase = "closed" /\ phase' = "gone"
  /\ value' = [p \in Position |-> None] /\ seal' = None

Next ==
  \/ Open \/ Close \/ Erase
  \/ \E p \in Position, v \in Content : Write(p, v)
  \/ \E m \in Manifest : Seal(m)

Spec == Init /\ [][Next]_vars
=============================================================================
