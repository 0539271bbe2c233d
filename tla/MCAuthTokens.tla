---------------------------- MODULE MCAuthTokens ----------------------------
(***************************************************************************)
(* AuthTokens for TLC.                                                     *)
(***************************************************************************)
EXTENDS AuthTokens, TLC

CONSTANTS u1, r1, r2, r3, t1, t2, t3, t4

Symmetry == Permutations(Requests)
=============================================================================
