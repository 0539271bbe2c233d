------------------------------ MODULE MCPipeline ------------------------------
(***************************************************************************)
(* Three chunks of two documents, two of them alike.  One search finds all *)
(* three, in two namespaces; one finds a chunk in both of them; one finds  *)
(* nothing.                                                                *)
(***************************************************************************)
EXTENDS Pipeline

MCDocOf == [c \in {"a", "b", "c"} |-> IF c = "c" THEN "y" ELSE "x"]
MCSentences == [c \in {"a", "b", "c"} |-> CASE c = "a" -> <<2, 1>> [] c = "b" -> <<1, 2>> [] c = "c" -> <<3>>]
MCAlike == {"a", "b"} \X {"a", "b"} \cup {<<"c", "c">>}

Found(c, score) == [Candidate(c) EXCEPT !.dense = score]
MCSearches == {<<<<>>, <<>>>>, <<<<Found("a", 2), Found("b", 1)>>, <<Found("c", 2)>>>>, <<<<Found("b", 1)>>, <<Found("b", 2)>>>>}
MCLexical == {[c \in {"a", "b", "c"} |-> 0], [c \in {"a", "b", "c"} |-> IF c = "a" THEN 0 ELSE IF c = "b" THEN 1 ELSE 2]}
MCReadings == {[c \in {"a", "b", "c"} |-> IF c = low THEN 0 ELSE IF c = "b" THEN 3 ELSE 2] : low \in {"a", "b", "c"}}
              \cup {[c \in {"a", "b", "c"} |-> 0]}
MCLikings == {[c \in {"a", "b", "c"} |-> IF c = "c" THEN <<1>> ELSE s] : s \in {<<1, 2>>, <<2, 1>>}}
MCAnswers == {<<>>, <<2, 1, 2>>, <<4, 3>>}
MCFlagSets == [hybrid : BOOLEAN, rerank : BOOLEAN, rewrite : BOOLEAN, compression : BOOLEAN, cache : BOOLEAN]
=============================================================================
