-------------------------- MODULE MCTransferStore --------------------------
(* Small instances of TransferStore for TLC.                               *)
EXTENDS TransferStore, TLC

Symmetry == Permutations(Attempt) \cup Permutations(Content) \cup Permutations(Request) \cup Permutations(Position)
=============================================================================
