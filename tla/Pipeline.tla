------------------------------ MODULE Pipeline ------------------------------
(***************************************************************************)
(* One question through the RAG pipeline (rag/baseline.py): the cache      *)
(* lookup, the rewrite and its fan-out, retrieval with its fallback to     *)
(* BM25, reranking, refusal, compression, the generation that is retried,  *)
(* citation, the events sent to the client and the write-behind to the     *)
(* cache.  What each stage computes is in Retrieval.                       *)
(*                                                                         *)
(* The providers answer, fail with a retryable error (429) or with another *)
(* one; the client may go away whenever the pipeline is suspended.         *)
(***************************************************************************)
EXTENDS Retrieval

CONSTANTS
    FlagSets,     \* the PipelineFlags a request may run under
    Searches,     \* what a dense search may find: a list of candidates per namespace
    Lexical,      \* what BM25 may score: chunk -> score
    Readings,     \* what the cross-encoder may score: chunk -> score
    Likings,      \* how it may order the sentences of each chunk
    Answers,      \* the markers an answer may hold, in order
    K,            \* k, the number of chunks asked for
    CandidateK,   \* RERANK_CANDIDATE_K
    DenseTopK,    \* HYBRID_DENSE_TOP_K
    SparseTopK,   \* HYBRID_SPARSE_TOP_K
    MaxVariants,  \* REWRITE_NUM_VARIANTS
    MaxRetries,   \* LLM_MAX_RETRIES
    MaxTokens     \* bound on the tokens of an answer

ASSUME AnswersAssumption == Answers \subseteq Seq(Int)
ASSUME RetriesAssumption == MaxRetries \in Nat
ASSUME TogglesAssumption ==
    FlagSets \subseteq [hybrid : BOOLEAN, rerank : BOOLEAN, rewrite : BOOLEAN, compression : BOOLEAN,
                        cache : BOOLEAN]
\* A namespace is asked at least; what it holds is its own affair, a chunk of another one included.
ASSUME FoundAssumption ==
    /\ Searches \subseteq Seq(Lists) \ {<<>>}
    /\ Lexical \subseteq [Chunks -> Int] /\ Readings \subseteq [Chunks -> Int]
    /\ \A liking \in Likings, c \in Chunks : liking[c] \in [DOMAIN Sentences[c] -> DOMAIN Sentences[c]]
ASSUME WidthsAssumption ==
    {K, CandidateK, DenseTopK, SparseTopK} \subseteq Nat \ {0} /\ {MaxVariants, MaxTokens} \subseteq Nat

VARIABLES
    flags,      \* the toggles
    phase,      \* the stage the generator is in
    rewrite,    \* the RewriteResult: failed or not, and how many variants
    rewrites,   \* rewrite calls made
    vector,     \* query_vec is not None
    tries,      \* attempts of the call being retried
    flag,       \* _DEGRADED, as the request's own context sees it
    degraded,   \* the local the pipeline reads it into
    lost,       \* every query of the retrieval lost its dense half: all of it is BM25's (history)
    pool,       \* the chunks retrieved
    context,    \* the chunks the prompt shows
    sent,       \* stage frames and terminal events, in order
    tokens,     \* <<attempt, n>> of each token of the answer sent, in order
    cites,      \* the citations of the answer
    verdict,    \* "answered", "refused" or None so far
    cached      \* the write-behind was scheduled

vars == <<flags, phase, rewrite, rewrites, vector, tries, flag, degraded, lost, pool, context,
          sent, tokens, cites, verdict, cached>>

None == "none"
NoRewrite == [done |-> FALSE, failed |-> FALSE, variants |-> 0]

Stopped == {"done", "error", "raised", "closed"}

Init ==
    /\ flags \in FlagSets
    /\ phase = IF flags.cache THEN "lookup" ELSE "search"
    /\ rewrite = NoRewrite /\ rewrites = 0 /\ vector = FALSE /\ tries = 0
    /\ flag = FALSE /\ degraded = FALSE /\ lost = FALSE
    /\ pool = <<>> /\ context = <<>>
    /\ sent = IF flags.cache THEN <<<<"cache_lookup", "started">>>>
              ELSE <<<<"rewriting", IF flags.rewrite THEN "started" ELSE "skipped">>,
                     <<"searching", "started">>>>
    /\ tokens = <<>> /\ cites = <<>> /\ verdict = None /\ cached = FALSE

Send(frames) == sent' = sent \o frames
Skip(stage) == <<stage, "skipped">>
Span(stage) == <<<<stage, "started">>, <<stage, "done">>>>

\* A terminal "error" event; a failure outside the two try blocks raises past the generator.
SendError == Send(<<<<"error">>>>) /\ phase' = "error"

\* A rewrite never fails its caller: its result falls back to the raw question.
RewriteResults ==
    {[done |-> TRUE, failed |-> TRUE, variants |-> 0]}
    \cup [done : {TRUE}, failed : {FALSE}, variants : 0..MaxVariants]

-----------------------------------------------------------------------------
(* The cache *)

\* _cache_lookup: rewrite for the key, then the exact tier, which needs no embedding.
LookupExact ==
    /\ phase = "lookup"
    /\ IF flags.rewrite
       THEN rewrite' \in RewriteResults /\ rewrites' = rewrites + 1
       ELSE UNCHANGED <<rewrite, rewrites>>
    /\ phase' \in {"replay", "embed"}
    /\ UNCHANGED <<flags, vector, tries, flag, degraded, lost, pool, context, sent, tokens, cites,
                   verdict, cached>>

\* The one embedding of the request, and the semantic tier.
LookupSemantic ==
    /\ phase = "embed"
    /\ \/ /\ vector' = TRUE
          /\ \/ phase' = "replay" /\ UNCHANGED sent
             \/ /\ phase' = "search"
                /\ Send(<<<<"cache_lookup", "done">>,
                          <<"rewriting", IF flags.rewrite THEN "started" ELSE "skipped">>,
                          <<"searching", "started">>>>)
       \/ phase' = "raised" /\ UNCHANGED <<vector, sent>>
    /\ UNCHANGED <<flags, rewrite, rewrites, tries, flag, degraded, lost, pool, context, tokens,
                   cites, verdict, cached>>

\* _replay_cached: the whole answer as one token.
Replay ==
    /\ phase = "replay"
    /\ Send(<<<<"cache_lookup", "done">>, Skip("searching"), Skip("reranking"),
              Skip("compressing"), Skip("generating"), Skip("citing"),
              <<"citations">>, <<"meta">>, <<"done">>>>)
    /\ phase' = "done"
    /\ UNCHANGED <<flags, rewrite, rewrites, vector, tries, flag, degraded, lost, pool, context,
                   tokens, cites, verdict, cached>>

-----------------------------------------------------------------------------
(* Retrieval *)

\* rrf_fuse of the two halves of a hybrid retrieval.
Fuse(dense, lexical, hydrated) ==
    [pool |-> RrfFuse(dense.found, SparseScores(lexical, SparseTopK), hydrated), lost |-> dense.lost]

\* What the dense half ends with: what a search found, or nothing after its own retries.
DenseHalves ==
    [found : {MergeTopK(s, DenseTopK) : s \in Searches}, lost : {FALSE}]
    \cup {[found |-> <<>>, lost |-> TRUE]}

\* hybrid_retrieve: a dense half that fails leaves BM25 alone; of the sparse-only chunks some are
\* hydrated, as a namespace may fail to be fetched or hold no vector of one.
Hybrid ==
    {Fuse(dense, lexical, hydrated) :
        dense \in DenseHalves, lexical \in Lexical, hydrated \in SUBSET Chunks}

\* dense_retrieve: the namespaces' finds, or an exception.
Dense ==
    {[pool |-> MergeTopK(s, IF flags.rerank THEN CandidateK ELSE K), lost |-> FALSE] : s \in Searches}

Gathered == IF flags.hybrid THEN Hybrid ELSE Dense

\* The last step of `retrieve` and `multi_query_retrieve`: one rerank, or the first k.
Finish(found) ==
    IF flags.rerank THEN {Rerank(found, reading) : reading \in Readings} ELSE {Take(found, K)}

\* rewrite.retrieve.  Without a rewrite the pool is gathered in the request's own context, which
\* sees _DEGRADED; with one every query of the fan-out is a task with a copy of it.
Retrieve ==
    /\ phase = "search"
    /\ IF ~flags.rewrite
       THEN /\ \E g \in Gathered :
                /\ flag' = (flags.hybrid /\ g.lost)
                /\ lost' = g.lost
                /\ pool' \in Finish(g.pool)
            /\ UNCHANGED <<rewrite, rewrites>>
       ELSE /\ IF rewrite.done THEN UNCHANGED <<rewrite, rewrites>>
               ELSE rewrite' \in RewriteResults /\ rewrites' = rewrites + 1
            /\ \E gs \in [0..rewrite'.variants -> Gathered] :
                /\ lost' = \A v \in DOMAIN gs : gs[v].lost
                /\ pool' \in Finish(RrfMerge([n \in 1..(rewrite'.variants + 1) |-> gs[n - 1].pool]))
            /\ UNCHANGED flag
    /\ phase' = "read"
    /\ tries' = 0
    /\ UNCHANGED <<flags, vector, degraded, context, sent, tokens, cites, verdict, cached>>

\* The attempt raises: call_with_retry starts over after a 429 while its budget lasts, and a
\* rewrite that was not handed in is made again.
RetrieveFails ==
    /\ phase = "search"
    /\ IF flags.rewrite /\ ~rewrite.done THEN rewrites' = rewrites + 1 ELSE UNCHANGED rewrites
    /\ \/ /\ tries < MaxRetries
          /\ tries' = tries + 1
          /\ UNCHANGED <<phase, sent>>
       \/ SendError /\ UNCHANGED tries
    /\ UNCHANGED <<flags, rewrite, vector, flag, degraded, lost, pool, context, tokens, cites,
                   verdict, cached>>

\* Mutant: does not close the rewriting stage.
ReadSignalsQuiet ==
    /\ phase = "read"
    /\ degraded' = flag /\ flag' = FALSE
    /\ LET found == <<<<"searching", "done">>>>
                    \o (IF flags.rerank THEN Span("reranking") ELSE <<Skip("reranking")>>)
       IN  IF PreLlmGate(pool, flags.rerank)
           THEN /\ Send(found \o <<Skip("compressing"), Skip("generating"), Skip("citing"),
                                   <<"citations">>, <<"meta">>, <<"done">>>>)
                /\ cites' = [i \in DOMAIN Suggestions(pool, K) |->
                                [marker |-> 0, id |-> Suggestions(pool, K)[i]]]
                /\ verdict' = "refused"
                /\ phase' = "done"
           ELSE /\ Send(found)
                /\ phase' = "compress"
                /\ UNCHANGED <<cites, verdict>>
    /\ UNCHANGED <<flags, rewrite, rewrites, vector, tries, lost, pool, context, tokens, cached>>

\* Read and reset the out-of-band results, and decide whether to refuse.
ReadSignals ==
    /\ phase = "read"
    /\ degraded' = flag /\ flag' = FALSE
    /\ LET found == (IF flags.rewrite THEN <<<<"rewriting", "done">>>> ELSE <<>>)
                    \o <<<<"searching", "done">>>>
                    \o (IF flags.rerank THEN Span("reranking") ELSE <<Skip("reranking")>>)
       IN  IF PreLlmGate(pool, flags.rerank)
           THEN /\ Send(found \o <<Skip("compressing"), Skip("generating"), Skip("citing"),
                                   <<"citations">>, <<"meta">>, <<"done">>>>)
                /\ cites' = [i \in DOMAIN Suggestions(pool, K) |->
                                [marker |-> 0, id |-> Suggestions(pool, K)[i]]]
                /\ verdict' = "refused"
                /\ phase' = "done"
           ELSE /\ Send(found)
                /\ phase' = "compress"
                /\ UNCHANGED <<cites, verdict>>
    /\ UNCHANGED <<flags, rewrite, rewrites, vector, tries, lost, pool, context, tokens, cached>>

-----------------------------------------------------------------------------
(* The answer *)

\* Best-effort: a failure keeps the chunks as they were.
CompressChunks ==
    /\ phase = "compress"
    /\ IF flags.compression
       THEN /\ context' \in {pool} \cup {Compress(pool, liking) : liking \in Likings}
            /\ Send(Append(Span("compressing"), <<"generating", "started">>))
       ELSE context' = pool /\ Send(<<Skip("compressing"), <<"generating", "started">>>>)
    /\ phase' = "generate"
    /\ UNCHANGED <<flags, rewrite, rewrites, vector, tries, flag, degraded, lost, pool, tokens,
                   cites, verdict, cached>>

Yielded == \E n \in DOMAIN tokens : tokens[n][1] = tries

Token ==
    /\ phase = "generate"
    /\ Len(tokens) < MaxTokens
    /\ LET before == {n \in DOMAIN tokens : tokens[n][1] = tries}
       IN  tokens' = Append(tokens, <<tries, Cardinality(before) + 1>>)
    /\ UNCHANGED <<flags, phase, rewrite, rewrites, vector, tries, flag, degraded, lost, pool,
                   context, sent, cites, verdict, cached>>

\* Mutant: starts over although tokens were sent.
GenerateRetriesAnyway ==
    /\ phase = "generate"
    /\ tries < MaxRetries
    /\ tries' = tries + 1
    /\ UNCHANGED <<flags, phase, rewrite, rewrites, vector, flag, degraded, lost, pool, context,
                   sent, tokens, cites, verdict, cached>>

\* _stream_chain_with_retry: from scratch after a 429 while no token was sent.
GenerateRetries ==
    /\ phase = "generate"
    /\ ~Yielded
    /\ tries < MaxRetries
    /\ tries' = tries + 1
    /\ UNCHANGED <<flags, phase, rewrite, rewrites, vector, flag, degraded, lost, pool, context,
                   sent, tokens, cites, verdict, cached>>

GenerateFails ==
    /\ phase = "generate"
    /\ SendError
    /\ UNCHANGED <<flags, rewrite, rewrites, vector, tries, flag, degraded, lost, pool, context,
                   tokens, cites, verdict, cached>>

\* Mutant: resolves the markers against the chunks before compression.
CiteUncompressed ==
    /\ phase = "generate"
    /\ \/ /\ \E markers \in Answers, stored \in SUBSET Ids(pool) :
                cites' = Citations(IF tokens = <<>> THEN <<>> ELSE markers, pool, stored)
          /\ verdict' = IF cites' = <<>> THEN "refused" ELSE "answered"
          /\ phase' = "answer"
          /\ Send(<<<<"generating", "done">>>> \o Span("citing"))
       \/ /\ phase' = "raised"
          /\ Send(<<<<"generating", "done">>, <<"citing", "started">>>>)
          /\ UNCHANGED <<cites, verdict>>
    /\ UNCHANGED <<flags, rewrite, rewrites, vector, tries, flag, degraded, lost, pool, context,
                   tokens, cached>>

\* The stream ends.  The answer's markers are resolved against the chunks that are still stored;
\* an answer without a valid one is refused.
Cite ==
    /\ phase = "generate"
    /\ \/ /\ \E markers \in Answers, stored \in SUBSET Ids(context) :
                cites' = Citations(IF tokens = <<>> THEN <<>> ELSE markers, context, stored)
          /\ verdict' = IF cites' = <<>> THEN "refused" ELSE "answered"
          /\ phase' = "answer"
          /\ Send(<<<<"generating", "done">>>> \o Span("citing"))
       \/ /\ phase' = "raised"
          /\ Send(<<<<"generating", "done">>, <<"citing", "started">>>>)
          /\ UNCHANGED <<cites, verdict>>
    /\ UNCHANGED <<flags, rewrite, rewrites, vector, tries, flag, degraded, lost, pool, context,
                   tokens, cached>>

Answer ==
    /\ phase = "answer"
    /\ Send(<<<<"citations">>, <<"meta">>, <<"done">>>>)
    /\ phase' = "write"
    /\ UNCHANGED <<flags, rewrite, rewrites, vector, tries, flag, degraded, lost, pool, context,
                   tokens, cites, verdict, cached>>

\* Mutant: writes a degraded answer.
ScheduleWriteAnyway ==
    /\ phase = "write"
    /\ cached' = (flags.cache /\ vector /\ verdict # "refused" /\ cites # <<>>)
    /\ phase' = "done"
    /\ UNCHANGED <<flags, rewrite, rewrites, vector, tries, flag, degraded, lost, pool, context,
                   sent, tokens, cites, verdict>>

\* The write-behind, once the client asked for what follows "done".
ScheduleWrite ==
    /\ phase = "write"
    /\ cached' = (flags.cache /\ vector /\ verdict # "refused" /\ ~degraded /\ cites # <<>>)
    /\ phase' = "done"
    /\ UNCHANGED <<flags, rewrite, rewrites, vector, tries, flag, degraded, lost, pool, context,
                   sent, tokens, cites, verdict>>

\* The client goes away, or the request times out: the generator is closed where it is.
Close ==
    /\ phase \notin Stopped
    /\ phase' = "closed"
    /\ UNCHANGED <<flags, rewrite, rewrites, vector, tries, flag, degraded, lost, pool, context,
                   sent, tokens, cites, verdict, cached>>

Next ==
    \/ LookupExact \/ LookupSemantic \/ Replay
    \/ Retrieve \/ RetrieveFails \/ ReadSignals
    \/ CompressChunks \/ Token \/ GenerateRetries \/ GenerateFails \/ Cite
    \/ Answer \/ ScheduleWrite
    \/ Close

Spec == Init /\ [][Next]_vars

-----------------------------------------------------------------------------

TypeOK ==
    /\ flags \in FlagSets
    /\ phase \in {"lookup", "embed", "replay", "search", "read", "compress", "generate", "answer",
                  "write"} \cup Stopped
    /\ rewrite.variants \in 0..MaxVariants
    /\ rewrites \in Nat /\ tries \in 0..MaxRetries
    /\ {vector, flag, degraded, lost, cached} \subseteq BOOLEAN
    /\ Ids(pool) \cup Ids(context) \subseteq Chunks
    /\ Len(tokens) <= MaxTokens
    /\ verdict \in {None, "answered", "refused"}

\* The client never sees a token twice: everything it was sent comes from one attempt of the
\* generation, in order (docstring of `_stream_chain_with_retry`).
OneAttemptIsSent == \A n \in DOMAIN tokens : tokens[n] = <<tokens[1][1], n>>

\* A marker of the answer names the chunk the prompt showed under that number ("[n] stays 1:1").
MarkersNameTheirChunk ==
    verdict = "answered" => \A n \in DOMAIN cites :
        cites[n].marker \in DOMAIN context /\ cites[n].id = context[cites[n].marker].id

\* Compression shows chunks of the pool in rerank order, cut but not altered, keeps MinChunks of what
\* it is given, never empties a text and never makes the prompt longer; beyond the budget go only the
\* kept minimum and one last chunk.
CompressionKeepsEnough ==
    phase = "generate" =>
        LET cost(s) == Total([i \in DOMAIN s |-> Cost(s[i])])
            part(c, d) == c.text \subseteq d.text /\ c = [d EXCEPT !.text = c.text]
        IN  /\ \E rank \in [DOMAIN context -> DOMAIN pool] :
                /\ \A i, j \in DOMAIN context : i < j => rank[i] < rank[j]
                /\ \A i \in DOMAIN context : part(context[i], pool[rank[i]])
            /\ Len(context) >= IF MinChunks < Len(pool) THEN MinChunks ELSE Len(pool)
            /\ \A i \in DOMAIN context : context[i].text # {}
            /\ cost(context) <= cost(pool)
            /\ Len(context) > MinChunks /\ context # pool => cost(Take(context, Len(context) - 1)) <= Budget

\* A finished answer leaves no stage open, and no stage is opened twice: what the client's trail
\* merges by name (mergeStage in chat/useAsk.ts).
StagesPair ==
    LET opens(i) == Len(sent[i]) = 2 /\ sent[i][2] = "started"
        closes(i, j) == sent[j] = <<sent[i][1], "done">>
    IN  /\ \A i, j \in DOMAIN sent : opens(i) /\ sent[i] = sent[j] => i = j
        /\ sent # <<>> /\ sent[Len(sent)] = <<"done">> =>
            \A i \in DOMAIN sent : opens(i) => \E j \in i..Len(sent) : closes(i, j)

\* Only clean answers are cached: cited ones, and no BM25-only fallback when nothing was rewritten.
CleanWrites ==
    cached => /\ verdict = "answered" /\ cites # <<>> /\ sent[Len(sent)] = <<"done">>
              /\ lost => flags.rewrite

\* No answer of a BM25-only retrieval is cached, one none of whose queries got its dense half: it
\* "would be frozen in at full confidence".
CachesNoDegraded == cached => ~lost
=============================================================================
