---------------------------- MODULE MCAuthClient ----------------------------
(***************************************************************************)
(* AuthClient for TLC.                                                     *)
(***************************************************************************)
EXTENDS AuthClient, TLC

CONSTANTS u1, r1, r2, t1, t2, t3, c1, c2, c3
=============================================================================
