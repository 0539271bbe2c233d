--------------------------- MODULE MCSessionMemory ---------------------------
(***************************************************************************)
(* SessionMemory for TLC.                                                  *)
(***************************************************************************)
EXTENDS SessionMemory, TLC

Symmetry == Permutations(Turns)
=============================================================================
