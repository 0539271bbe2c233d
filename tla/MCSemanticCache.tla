--------------------------- MODULE MCSemanticCache ---------------------------
(* TLC instances of SemanticCache: three questions, the first two of one topic; the      *)
(* third differs from the first only in a discriminator.                                 *)
EXTENDS SemanticCache, TLC

CONSTANTS q1, q2, q3

MCTopic == [q \in Questions |-> "t"]
MCDisc == [q \in Questions |-> IF q = q3 THEN {"3"} ELSE {}]

\* Requests are alike, and so are the questions that differ in nothing but their wording.
Symmetry == Permutations(Requests) \cup Permutations(Questions \ {q3})
=============================================================================
