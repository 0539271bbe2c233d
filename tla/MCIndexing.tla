------------------------------ MODULE MCIndexing ------------------------------
(***************************************************************************)
(* Indexing for TLC: each document has a namespace of its own; the second  *)
(* version of a document has fewer chunks than the first.                  *)
(***************************************************************************)
EXTENDS Indexing, TLC

CONSTANTS d1, d2

MCOrg == [d \in Docs |-> IF d = d2 THEN "hec" ELSE "pu"]
MCSize == [t \in Texts |-> IF t.ver = 1 THEN 2 ELSE 1]
=============================================================================
