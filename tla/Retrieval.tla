------------------------------ MODULE Retrieval ------------------------------
(***************************************************************************)
(* What the retrieval stages compute: fusing and merging ranked lists      *)
(* (rag/hybrid.py, rag/rewrite.py, rag/retriever.py), reranking            *)
(* (rag/rerank.py), the refusal gates (rag/refusal.py), compression        *)
(* (rag/compression.py) and the citations of an answer (rag/citations.py). *)
(*                                                                         *)
(* A candidate carries its scores, NoScore for a field that is None, and   *)
(* the sentences of its chunk that its text still holds.  A text costs the *)
(* sum of the tokens of its sentences.                                     *)
(***************************************************************************)
EXTENDS Integers, Sequences, SequencesExt

CONSTANTS
    DocOf,        \* chunk -> its document; the domain is the set of chunks
    Sentences,    \* chunk -> the tokens of each of its sentences
    Alike,        \* pairs of chunks whose n-grams are above COMPRESSION_DEDUPE_JACCARD: a chunk and
                  \* itself, unless its text is empty, and whichever resemble each other
    FusedTopK,    \* HYBRID_FUSED_TOP_K
    MergedTopK,   \* REWRITE_MERGED_TOP_K
    RerankTopN,   \* RERANK_TOP_N
    RrfK,         \* HYBRID_RRF_K and REWRITE_RRF_K
    Unit,         \* the numerator of a rank's score, a multiple of every RrfK + rank
    RerankBar,    \* REFUSAL_RERANK_THRESHOLD
    DenseBar,     \* REFUSAL_DENSE_THRESHOLD
    Floor,        \* COMPRESSION_SCORE_FLOOR
    MinChunks,    \* COMPRESSION_MIN_CHUNKS
    Budget        \* COMPRESSION_TOKEN_BUDGET

Chunks == DOMAIN DocOf

ASSUME TextsAssumption ==
    IsFiniteSet(Chunks) /\ \A c \in Chunks : Sentences[c] \in Seq(Nat \ {0}) /\ Sentences[c] # <<>>
ASSUME LimitsAssumption ==
    /\ {FusedTopK, MergedTopK, RerankTopN, MinChunks} \subseteq Nat \ {0}
    /\ {RrfK, Unit, RerankBar, DenseBar, Floor, Budget} \subseteq Nat

\* None: it sorts last.
NoScore == -1

Candidate(c) ==
    [id |-> c, dense |-> NoScore, sparse |-> NoScore, rerank |-> NoScore,
     text |-> DOMAIN Sentences[c]]

\* A candidate with the whole text of its chunk.
Whole == {c \in [id : Chunks, dense : Int, sparse : Int, rerank : Int, text : SUBSET Nat] :
            c.text = DOMAIN Sentences[c.id]}

Lists == Seq(Whole)

\* A list that names no chunk twice.
Once(s) == \A i, j \in DOMAIN s : s[i].id = s[j].id => i = j

\* The first place of each chunk, and the last candidate of one.
Firsts(s) == {i \in DOMAIN s : \A j \in 1..(i - 1) : s[j].id # s[i].id}
LastOf(s, c) ==
    s[CHOOSE i \in DOMAIN s : s[i].id = c /\ \A j \in DOMAIN s : s[j].id = c => j <= i]

Ids(s) == {s[i].id : i \in DOMAIN s}
Take(s, n) == SubSeq(s, 1, IF n < Len(s) THEN n ELSE Len(s))

Total(s) ==
    LET sum[n \in 0..Len(s)] == IF n = 0 THEN 0 ELSE sum[n - 1] + s[n] IN sum[Len(s)]

\* A set of positions, in increasing order.
InOrder(positions) ==
    [n \in 1..Cardinality(positions) |->
        CHOOSE i \in positions : Cardinality({j \in positions : j <= i}) = n]

\* The candidates at a set of positions, in their order.
Keep(chunks, positions) ==
    LET order == InOrder(positions) IN [n \in DOMAIN order |-> chunks[order[n]]]

\* The place of position i in sorted(..., reverse=True): ties keep their order.
Place(positions, score, i) ==
    Cardinality({j \in positions : score[j] > score[i] \/ (score[j] = score[i] /\ j <= i)})

SortedBy(s, score) ==
    [n \in DOMAIN s |-> s[CHOOSE i \in DOMAIN s : Place(DOMAIN s, score, i) = n]]

Scores(s, field) == [i \in DOMAIN s |-> s[i][field]]

-----------------------------------------------------------------------------
(* Candidate pools *)

\* sparse_scores: only lexical overlap earns a rank.
SparseScores(score, k) ==
    LET hits == SetToSeq({c \in DOMAIN score : score[c] > 0})
        found == [i \in DOMAIN hits |-> [Candidate(hits[i]) EXCEPT !.sparse = score[hits[i]]]]
    IN  Take(SortedBy(found, Scores(found, "sparse")), k)

\* _merge_top_k over the namespaces.  A chunk that two of them hold is listed twice.
MergeTopK(groups, k) == LET all == FlattenSeq(groups) IN Take(SortedBy(all, Scores(all, "dense")), k)

\* 1 / (RRF_K + rank) for a list that holds the chunk, nothing otherwise.
RankScore(list, c) ==
    Total([i \in DOMAIN list |-> IF list[i].id = c THEN Unit \div (RrfK + i) ELSE 0])

\* rrf_fuse: the dense candidates, each chunk where it came first and as it came last (a dict), then
\* the sparse-only ones that could be hydrated.
RrfFuse(dense, sparse, hydrated) ==
    LET sparseOf(c) == LET i == {n \in DOMAIN sparse : sparse[n].id = c}
                       IN  IF i = {} THEN NoScore ELSE sparse[CHOOSE n \in i : TRUE].sparse
        ids == Keep(dense, Firsts(dense))
        found == [i \in DOMAIN ids |->
                    [LastOf(dense, ids[i].id) EXCEPT !.sparse = sparseOf(ids[i].id)]]
        extra == Keep(sparse, {i \in DOMAIN sparse : sparse[i].id \in hydrated \ Ids(dense)})
        pool == found \o extra
        score == [i \in DOMAIN pool |-> RankScore(dense, pool[i].id) + RankScore(sparse, pool[i].id)]
    IN  Take(SortedBy(pool, score), FusedTopK)

\* rrf_merge: the union of the pools, keeping the first candidate of each chunk.
RrfMerge(pools) ==
    LET all == FlattenSeq(pools)
        union == Keep(all, Firsts(all))
        score == [i \in DOMAIN union |-> Total([p \in DOMAIN pools |-> RankScore(pools[p], union[i].id)])]
    IN  Take(SortedBy(union, score), MergedTopK)

\* rerank_chunks: score every candidate against the query, keep the best.
Rerank(pool, score) ==
    LET scored == [i \in DOMAIN pool |-> [pool[i] EXCEPT !.rerank = score[pool[i].id]]]
    IN  Take(SortedBy(scored, Scores(scored, "rerank")), RerankTopN)

-----------------------------------------------------------------------------
(* Refusal *)

\* pre_llm_gate: no candidate whose active score reaches its threshold.  Without a score the
\* confidence is 0.0 when reranking and -inf when not.
PreLlmGate(chunks, reranking) ==
    \A i \in DOMAIN chunks :
        IF reranking THEN chunks[i].rerank < RerankBar ELSE chunks[i].dense < DenseBar

\* suggestion_citations: the first chunk of each document.
Suggestions(chunks, n) ==
    LET firsts == {i \in DOMAIN chunks :
                    \A j \in 1..(i - 1) : DocOf[chunks[j].id] # DocOf[chunks[i].id]}
        order == InOrder(firsts)
    IN  Take([m \in DOMAIN order |-> chunks[order[m]].id], n)

-----------------------------------------------------------------------------
(* Compression *)

\* The n best of a set of positions.
Best(chunks, positions, n) ==
    {i \in positions : Place(positions, Scores(chunks, "rerank"), i) <= n}

\* dedupe: drop what is alike to a kept one, but never below MinChunks.
Dedupe(chunks) ==
    LET kept[i \in DOMAIN chunks] ==
            \A j \in 1..(i - 1) : kept[j] => <<chunks[j].id, chunks[i].id>> \notin Alike
        keep == {i \in DOMAIN chunks : kept[i]}
        short == MinChunks - Cardinality(keep)
    IN  Keep(chunks, IF short > 0 THEN keep \cup Best(chunks, DOMAIN chunks \ keep, short) ELSE keep)

\* relevance_floor: drop the low scores, but never below MinChunks; no score is no reason to drop.
RelevanceFloor(chunks) ==
    LET keep == {i \in DOMAIN chunks : chunks[i].rerank = NoScore \/ chunks[i].rerank >= Floor}
    IN  IF Len(chunks) <= MinChunks THEN chunks
        ELSE Keep(chunks, IF Cardinality(keep) < MinChunks
                          THEN Best(chunks, DOMAIN chunks, MinChunks) ELSE keep)

TextCost(c, text) == Total([s \in DOMAIN Sentences[c] |-> IF s \in text THEN Sentences[c][s] ELSE 0])
Cost(chunk) == TextCost(chunk.id, chunk.text)

\* _trim_chunk: the sentences that score best and fit, and the best one whether it fits or not.
Trim(chunk, budget, liking) ==
    LET order == liking[chunk.id]
        cost(n) == Sentences[chunk.id][order[n]]
        used[n \in 0..Len(order)] ==
            IF n = 0 THEN 0
            ELSE IF n = 1 \/ used[n - 1] + cost(n) <= budget THEN used[n - 1] + cost(n)
            ELSE used[n - 1]
        keep == {order[n] : n \in {m \in DOMAIN order : used[m] # used[m - 1]}}
    IN  IF Cost(chunk) <= budget \/ Len(order) <= 1 THEN chunk ELSE [chunk EXCEPT !.text = keep]

\* Mutant: fills the budget without keeping the minimum.
BudgetFillBare(chunks, liking) ==
    LET fill[i \in 0..Len(chunks)] ==
            IF i = 0 THEN [kept |-> <<>>, used |-> 0, open |-> TRUE]
            ELSE LET was == fill[i - 1]
                     whole == Cost(chunks[i]) <= Budget - was.used
                 IN  IF ~was.open \/ ~whole THEN [was EXCEPT !.open = FALSE]
                     ELSE [kept |-> Append(was.kept, chunks[i]), used |-> was.used + Cost(chunks[i]),
                           open |-> TRUE]
    IN  fill[Len(chunks)].kept

\* One chunk of token_budget_fill: whole if it fits, else trimmed to its share of what is left; a
\* trimmed one beyond the least is the last.
FillStep(was, chunk, least, liking) ==
    LET left == Budget - was.used
        must == least - Len(was.kept)
        share == left \div (IF must > 1 THEN must ELSE 1)
        whole == Cost(chunk) <= left
        added == IF whole THEN chunk ELSE Trim(chunk, IF share > 1 THEN share ELSE 1, liking)
    IN  IF ~was.open \/ (~whole /\ left <= 0 /\ must <= 0)
        THEN [was EXCEPT !.open = FALSE]
        ELSE [kept |-> Append(was.kept, added), used |-> was.used + Cost(added),
              open |-> whole \/ must > 0]

\* token_budget_fill: the first MinChunks stay whatever they cost.
BudgetFill(chunks, liking) ==
    LET least == IF MinChunks < Len(chunks) THEN MinChunks ELSE Len(chunks)
        fill[i \in 0..Len(chunks)] ==
            IF i = 0 THEN [kept |-> <<>>, used |-> 0, open |-> TRUE]
            ELSE FillStep(fill[i - 1], chunks[i], least, liking)
    IN  fill[Len(chunks)].kept

\* compress_chunks, when nothing raises.
Compress(chunks, liking) ==
    IF chunks = <<>> THEN chunks ELSE BudgetFill(RelevanceFloor(Dedupe(chunks)), liking)

-----------------------------------------------------------------------------
(* Citations *)

\* parse_citations: the distinct markers within range, in order, whose chunk is still in
\* PostgreSQL.
Citations(markers, chunks, stored) ==
    LET firsts == {i \in DOMAIN markers :
                    /\ markers[i] \in DOMAIN chunks
                    /\ chunks[markers[i]].id \in stored
                    /\ \A j \in 1..(i - 1) : markers[j] # markers[i]}
        order == InOrder(firsts)
    IN  [n \in DOMAIN order |-> [marker |-> markers[order[n]], id |-> chunks[markers[order[n]]].id]]
=============================================================================
