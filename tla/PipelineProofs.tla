--------------------------- MODULE PipelineProofs ---------------------------
(***************************************************************************)
(* What holds of one question through the pipeline, whatever the toggles,  *)
(* the searches, the answers, the retries and the length of an answer, and *)
(* what the sorts, selections and totals of the stages come to.            *)
(***************************************************************************)
EXTENDS Pipeline, FiniteSetTheorems, SequenceTheorems, TLAPS

\* The interval from one to n has n members.
LEMMA IntervalFacts ==
    ASSUME NEW n \in Nat
    PROVE  IsFiniteSet(1..n) /\ Cardinality(1..n) = n
<1>1. 1 \in Int /\ n \in Int
  OBVIOUS
<1>2. IsFiniteSet(1..n) /\ Cardinality(1..n) = IF 1 > n THEN 0 ELSE n - 1 + 1
  BY <1>1, FS_Interval
<1>3. (IF 1 > n THEN 0 ELSE n - 1 + 1) = n
  OBVIOUS
<1> QED BY <1>2, <1>3

-----------------------------------------------------------------------------
(* The trail of frames *)

Stages == {"cache_lookup", "rewriting", "searching", "reranking", "compressing", "generating",
           "citing"}

\* A frame names a stage and what became of it, or an event.
Frame == Seq(Stages \cup {"started", "done", "skipped", "error", "citations", "meta"})

\* The frames the pipeline sends.
LEMMA FrameFacts ==
    /\ \A x \in Stages : {<<x, "started">>, <<x, "done">>, <<x, "skipped">>} \subseteq Frame
    /\ {<<"done">>, <<"error">>, <<"citations">>, <<"meta">>} \subseteq Frame
<1> DEFINE W == Stages \cup {"started", "done", "skipped", "error", "citations", "meta"}
<1>1. \A a, b \in W : <<a, b>> \in Seq(W) /\ <<a>> \in Seq(W)
  OBVIOUS
<1>2. {"started", "done", "skipped", "error", "citations", "meta"} \subseteq W /\ Stages \subseteq W
  OBVIOUS
<1> HIDE DEF W
<1>3. Frame = Seq(W)
  BY DEF Frame, W
<1> QED BY <1>1, <1>2, <1>3

Opens(s, i) == Len(s[i]) = 2 /\ s[i][2] = "started"

\* In the frames s the stages of `open` may still be open, and those of `seen` have been opened.
Trail(s, open, seen) ==
    /\ s \in Seq(Frame)
    /\ open \subseteq seen
    /\ \A i \in DOMAIN s : Opens(s, i) => s[i][1] \in seen
    /\ \A i, j \in DOMAIN s : Opens(s, i) /\ s[i] = s[j] => i = j
    /\ \A i \in DOMAIN s : Opens(s, i) /\ s[i][1] \notin open =>
         \E j \in i..Len(s) : s[j] = <<s[i][1], "done">>

\* StagesPair of any frames.
Pairs(s) ==
    /\ \A i, j \in DOMAIN s : Opens(s, i) /\ s[i] = s[j] => i = j
    /\ s # <<>> /\ s[Len(s)] = <<"done">> =>
         \A i \in DOMAIN s : Opens(s, i) => \E j \in i..Len(s) : s[j] = <<s[i][1], "done">>

\* A frame that opens no stage.
Plain(f) == f \in Frame /\ ~(Len(f) = 2 /\ f[2] = "started")

\* A stage that was not seen is opened.
LEMMA StartKept ==
    ASSUME NEW s, NEW open, NEW seen, Trail(s, open, seen), NEW x \in Stages, x \notin seen
    PROVE  Trail(Append(s, <<x, "started">>), open \cup {x}, seen \cup {x})
<1> DEFINE f == <<x, "started">>
           t == Append(s, f)
<1>1. f \in Frame /\ s \in Seq(Frame)
  BY FrameFacts DEF Trail
<1>2. /\ t \in Seq(Frame) /\ Len(t) = Len(s) + 1 /\ t[Len(t)] = f
      /\ \A i \in DOMAIN s : i \in DOMAIN t /\ t[i] = s[i]
      /\ \A i \in DOMAIN t : i \in DOMAIN s \/ i = Len(t)
  BY <1>1
<1>3. Len(f) = 2 /\ f[1] = x /\ f[2] = "started"
  OBVIOUS
<1> HIDE DEF f, t
<1>4. \A i \in DOMAIN t : Opens(t, i) => t[i][1] \in seen \cup {x}
  BY <1>2, <1>3 DEF Trail, Opens
<1>5. \A i, j \in DOMAIN t : Opens(t, i) /\ t[i] = t[j] => i = j
  BY <1>2, <1>3 DEF Trail, Opens
<1>6. ASSUME NEW i \in DOMAIN t, Opens(t, i), t[i][1] \notin open \cup {x}
      PROVE  \E j \in i..Len(t) : t[j] = <<t[i][1], "done">>
  <2>1. i \in DOMAIN s /\ Opens(s, i) /\ s[i][1] \notin open /\ t[i] = s[i]
    BY <1>2, <1>3, <1>6 DEF Opens
  <2>2. PICK j \in i..Len(s) : s[j] = <<s[i][1], "done">>
    BY <2>1 DEF Trail
  <2>3. j \in DOMAIN s /\ j \in i..Len(t)
    BY <1>1, <1>2, <2>1, <2>2
  <2> QED BY <1>2, <2>1, <2>2, <2>3
<1> QED BY <1>2, <1>4, <1>5, <1>6 DEF Trail, t, f

\* A frame that opens nothing; <<x, "done">> closes x.
LEMMA PlainKept ==
    ASSUME NEW s, NEW open, NEW seen, Trail(s, open, seen), NEW f, Plain(f)
    PROVE  /\ Trail(Append(s, f), open, seen)
           /\ \A x \in Stages : f = <<x, "done">> => Trail(Append(s, f), open \ {x}, seen)
<1> DEFINE t == Append(s, f)
<1>1. f \in Frame /\ s \in Seq(Frame)
  BY DEF Plain, Trail
<1>2. /\ t \in Seq(Frame) /\ Len(t) = Len(s) + 1 /\ t[Len(t)] = f
      /\ \A i \in DOMAIN s : i \in DOMAIN t /\ t[i] = s[i]
      /\ \A i \in DOMAIN t : i \in DOMAIN s \/ i = Len(t)
  BY <1>1
<1> HIDE DEF t
<1>3. \A i \in DOMAIN t : Opens(t, i) => i \in DOMAIN s /\ Opens(s, i) /\ t[i] = s[i]
  BY <1>2 DEF Plain, Opens
<1>4. \A i \in DOMAIN t : Opens(t, i) => t[i][1] \in seen
  BY <1>3 DEF Trail
<1>5. \A i, j \in DOMAIN t : Opens(t, i) /\ t[i] = t[j] => i = j
  <2> SUFFICES ASSUME NEW i \in DOMAIN t, NEW j \in DOMAIN t, Opens(t, i), t[i] = t[j] PROVE i = j
    OBVIOUS
  <2>1. Opens(t, j)
    BY DEF Opens
  <2> QED BY <1>3, <2>1 DEF Trail
<1>6. ASSUME NEW i \in DOMAIN t, Opens(t, i), t[i][1] \notin open
      PROVE  \E j \in i..Len(t) : t[j] = <<t[i][1], "done">>
  <2>1. i \in DOMAIN s /\ Opens(s, i) /\ s[i][1] \notin open /\ t[i] = s[i]
    BY <1>3, <1>6
  <2>2. PICK j \in i..Len(s) : s[j] = <<s[i][1], "done">>
    BY <2>1 DEF Trail
  <2>3. j \in DOMAIN s /\ j \in i..Len(t)
    BY <1>1, <1>2, <2>1, <2>2
  <2> QED BY <1>2, <2>1, <2>2, <2>3
<1>7. ASSUME NEW x \in Stages, f = <<x, "done">>
      PROVE  Trail(t, open \ {x}, seen)
  <2>1. ASSUME NEW i \in DOMAIN t, Opens(t, i), t[i][1] = x
        PROVE  \E j \in i..Len(t) : t[j] = <<t[i][1], "done">>
    <3>1. i \in DOMAIN s /\ Len(t) \in i..Len(t)
      BY <1>1, <1>2, <1>3, <2>1
    <3> QED BY <1>2, <1>7, <2>1, <3>1
  <2>2. \A i \in DOMAIN t : Opens(t, i) /\ t[i][1] \notin open \ {x} =>
          \E j \in i..Len(t) : t[j] = <<t[i][1], "done">>
    BY <1>6, <2>1
  <2>3. open \ {x} \subseteq seen
    BY DEF Trail
  <2> QED BY <1>2, <1>4, <1>5, <2>2, <2>3 DEF Trail
<1>8. Trail(t, open, seen)
  BY <1>2, <1>4, <1>5, <1>6 DEF Trail
<1> QED BY <1>7, <1>8 DEF t

\* A trail pairs its stages when none is open, or while no "done" ended it.
LEMMA TrailPairs ==
    ASSUME NEW s, NEW open, NEW seen, Trail(s, open, seen), open = {} \/ s[Len(s)] # <<"done">>
    PROVE  Pairs(s)
BY DEF Trail, Pairs

\* StagesPair reads the trail that was sent.
LEMMA PairsOfSent == StagesPair <=> Pairs(sent)
BY DEF StagesPair, Pairs, Opens

\* Frames that open no stage.
LEMMA PlainFacts ==
    /\ \A x \in Stages : Plain(<<x, "done">>) /\ Plain(<<x, "skipped">>)
    /\ Plain(<<"done">>) /\ Plain(<<"error">>) /\ Plain(<<"citations">>) /\ Plain(<<"meta">>)
<1>1. ASSUME NEW x \in Stages, NEW w \in {"done", "skipped"} PROVE Plain(<<x, w>>)
  <2>1. <<x, w>> \in Frame
    BY FrameFacts
  <2>2. <<x, w>>[2] # "started"
    OBVIOUS
  <2> QED BY <2>1, <2>2 DEF Plain
<1>2. ASSUME NEW w \in {"done", "error", "citations", "meta"} PROVE Plain(<<w>>)
  <2>1. <<w>> \in Frame
    BY FrameFacts
  <2>2. Len(<<w>>) # 2
    OBVIOUS
  <2> QED BY <2>1, <2>2 DEF Plain
<1> QED BY <1>1, <1>2

\* Sending frames is appending them one by one.
LEMMA SendFacts ==
    ASSUME NEW s \in Seq(Frame)
    PROVE  /\ \A a \in Frame : s \o <<a>> = Append(s, a)
           /\ \A a, b \in Frame : s \o <<a, b>> = Append(Append(s, a), b)
           /\ \A a, b, c \in Frame : s \o <<a, b, c>> = Append(Append(Append(s, a), b), c)
OBVIOUS

\* Frames are sent in any grouping.
LEMMA Joined ==
    ASSUME NEW a \in Seq(Frame), NEW b \in Seq(Frame), NEW c \in Seq(Frame)
    PROVE  a \o b \in Seq(Frame) /\ (a \o b) \o c = a \o (b \o c)
<1>1. a \o b \in Seq(Frame)
  OBVIOUS
<1>2. (a \o b) \o c = a \o (b \o c)
  BY ConcatAssociative
<1> QED BY <1>1, <1>2

\* A frame is sent after others, or before them.
LEMMA SendOne ==
    ASSUME NEW s \in Seq(Frame), NEW t \in Seq(Frame), NEW a \in Frame
    PROVE  /\ s \o Append(t, a) = Append(s \o t, a)
           /\ s \o (<<a>> \o t) = Append(s, a) \o t
<1>1. s \o Append(t, a) = Append(s \o t, a)
  OBVIOUS
<1>2. s \o <<a>> = Append(s, a) /\ <<a>> \in Seq(Frame)
  OBVIOUS
<1> QED BY <1>1, <1>2, Joined

\* A stage is opened and closed at once, or skipped.
LEMMA SpanKept ==
    ASSUME NEW s, NEW open, NEW seen, Trail(s, open, seen), NEW x \in Stages, x \notin seen
    PROVE  /\ Trail(s \o Span(x), open, seen \cup {x})
           /\ Trail(s \o <<Skip(x)>>, open, seen \cup {x})
<1>1. /\ s \in Seq(Frame) /\ <<x, "started">> \in Frame /\ <<x, "done">> \in Frame
      /\ <<x, "skipped">> \in Frame
      /\ Plain(<<x, "done">>) /\ Plain(<<x, "skipped">>)
  BY FrameFacts, PlainFacts DEF Trail
<1>2. s \o Span(x) = Append(Append(s, <<x, "started">>), <<x, "done">>)
  BY <1>1, SendFacts DEF Span
<1>3. Trail(Append(s, <<x, "started">>), open \cup {x}, seen \cup {x})
  BY StartKept
<1>4. Trail(s \o Span(x), (open \cup {x}) \ {x}, seen \cup {x})
  <2> DEFINE r == Append(s, <<x, "started">>)
             f == <<x, "done">>
             o == open \cup {x}
             S == seen \cup {x}
  <2>1. Trail(r, o, S) /\ Plain(f) /\ x \in Stages /\ f = <<x, "done">>
    BY <1>1, <1>3
  <2>2. Trail(Append(r, f), o \ {x}, S)
    <3> HIDE DEF r, f, o, S
    <3> QED BY <2>1, PlainKept
  <2> QED BY <1>2, <2>2
<1>5. (open \cup {x}) \ {x} = open
  BY DEF Trail
<1>6. s \o <<Skip(x)>> = Append(s, <<x, "skipped">>)
  BY <1>1, SendFacts DEF Skip
<1>7. Trail(s \o <<Skip(x)>>, open, seen)
  BY <1>1, <1>6, PlainKept
<1>8. Trail(s \o <<Skip(x)>>, open, seen \cup {x})
  BY <1>7 DEF Trail
<1> QED BY <1>4, <1>5, <1>8

\* Three frames that open nothing.
LEMMA PlainThree ==
    ASSUME NEW s, NEW open, NEW seen, Trail(s, open, seen),
           NEW a, NEW b, NEW c, Plain(a), Plain(b), Plain(c)
    PROVE  /\ Trail(s \o <<a, b, c>>, open, seen)
           /\ \A x \in Stages : a = <<x, "done">> => Trail(s \o <<a, b, c>>, open \ {x}, seen)
           /\ Len(s \o <<a, b, c>>) > 0 /\ (s \o <<a, b, c>>)[Len(s \o <<a, b, c>>)] = c
<1>1. s \in Seq(Frame) /\ a \in Frame /\ b \in Frame /\ c \in Frame
  BY DEF Trail, Plain
<1>2. s \o <<a, b, c>> = Append(Append(Append(s, a), b), c)
  BY <1>1, SendFacts
<1>3. Trail(Append(Append(Append(s, a), b), c), open, seen)
  BY PlainKept
<1>4. ASSUME NEW x \in Stages, a = <<x, "done">>
      PROVE  Trail(Append(Append(Append(s, a), b), c), open \ {x}, seen)
  <2>1. Trail(Append(s, a), open \ {x}, seen)
    BY <1>4, PlainKept
  <2> QED BY <2>1, PlainKept
<1>5. Len(s \o <<a, b, c>>) > 0 /\ (s \o <<a, b, c>>)[Len(s \o <<a, b, c>>)] = c
  BY <1>1
<1> QED BY <1>2, <1>3, <1>4, <1>5

\* Nothing was sent, or the lookup was opened.
LEMMA LookupOpens ==
    /\ Trail(<<>>, {}, {})
    /\ Trail(<<<<"cache_lookup", "started">>>>, {"cache_lookup"}, {"cache_lookup"})
<1>1. Trail(<<>>, {}, {})
  BY DEF Trail
<1>2. "cache_lookup" \in Stages /\ <<"cache_lookup", "started">> \in Frame
  BY FrameFacts DEF Stages
<1>3. Trail(Append(<<>>, <<"cache_lookup", "started">>), {} \cup {"cache_lookup"},
            {} \cup {"cache_lookup"})
  BY <1>1, <1>2, StartKept
<1>4. Append(<<>>, <<"cache_lookup", "started">>) = <<<<"cache_lookup", "started">>>>
  BY <1>2
<1>5. {} \cup {"cache_lookup"} = {"cache_lookup"}
  OBVIOUS
<1> QED BY <1>1, <1>3, <1>4, <1>5

\* The stages a search leaves open.
Searching(rewriting) == IF rewriting THEN {"rewriting", "searching"} ELSE {"searching"}

\* The rewrite, when there is one, and the search are opened.
LEMMA SearchOpens ==
    ASSUME NEW s, NEW seen \in SUBSET {"cache_lookup"}, Trail(s, {}, seen), NEW rw
    PROVE  LET t == Append(Append(s, <<"rewriting", IF rw THEN "started" ELSE "skipped">>),
                           <<"searching", "started">>)
           IN  /\ Trail(t, Searching(rw), {"cache_lookup", "rewriting", "searching"})
               /\ t[Len(t)] # <<"done">>
<1> DEFINE r == Append(s, <<"rewriting", IF rw THEN "started" ELSE "skipped">>)
           t == Append(r, <<"searching", "started">>)
<1>1. /\ "rewriting" \in Stages /\ "searching" \in Stages
      /\ "rewriting" \notin seen /\ "searching" \notin seen /\ "rewriting" # "searching"
  BY DEF Stages
<1>2. CASE rw
  <2>1. r = Append(s, <<"rewriting", "started">>)
    BY <1>2
  <2>2. Trail(r, {} \cup {"rewriting"}, seen \cup {"rewriting"})
    BY <1>1, <2>1, StartKept
  <2>3. "searching" \notin seen \cup {"rewriting"}
    BY <1>1
  <2> HIDE DEF r
  <2>4. Trail(t, ({} \cup {"rewriting"}) \cup {"searching"},
              (seen \cup {"rewriting"}) \cup {"searching"})
    BY <1>1, <2>2, <2>3, StartKept
  <2>5. r \in Seq(Frame) /\ t[Len(t)] # <<"done">>
    BY <2>2 DEF Trail
  <2>6. ({} \cup {"rewriting"}) \cup {"searching"} = Searching(rw)
    BY <1>2 DEF Searching
  <2>7. Trail(t, Searching(rw), {"cache_lookup", "rewriting", "searching"})
    <3> HIDE DEF t
    <3> QED BY <2>4, <2>6 DEF Trail
  <2> QED BY <2>5, <2>7 DEF r
<1>3. CASE ~rw
  <2>1. r = Append(s, <<"rewriting", "skipped">>)
    BY <1>3
  <2>2. Trail(r, {}, seen)
    BY <1>1, <2>1, PlainFacts, PlainKept
  <2> HIDE DEF r
  <2>4. Trail(t, {} \cup {"searching"}, seen \cup {"searching"})
    BY <1>1, <2>2, StartKept
  <2>5. r \in Seq(Frame) /\ t[Len(t)] # <<"done">>
    BY <2>2 DEF Trail
  <2>6. {} \cup {"searching"} = Searching(rw)
    BY <1>3 DEF Searching
  <2>7. Trail(t, Searching(rw), {"cache_lookup", "rewriting", "searching"})
    <3> HIDE DEF t
    <3> QED BY <2>4, <2>6 DEF Trail
  <2> QED BY <2>5, <2>7 DEF r
<1> QED BY <1>2, <1>3

\* The frames that close a search.
Found(rw, rr) == (IF rw THEN <<<<"rewriting", "done">>>> ELSE <<>>)
                 \o <<<<"searching", "done">>>>
                 \o (IF rr THEN Span("reranking") ELSE <<Skip("reranking")>>)

\* They leave no stage open.
LEMMA FoundKept ==
    ASSUME NEW s, NEW rw, NEW rr,
           Trail(s, Searching(rw), {"cache_lookup", "rewriting", "searching"})
    PROVE  /\ Trail(s \o Found(rw, rr), {}, {"cache_lookup", "rewriting", "searching", "reranking"})
           /\ Found(rw, rr) \in Seq(Frame)
<1> DEFINE A == IF rw THEN <<<<"rewriting", "done">>>> ELSE <<>>
           B == <<<<"searching", "done">>>>
           C == IF rr THEN Span("reranking") ELSE <<Skip("reranking")>>
           seen == {"cache_lookup", "rewriting", "searching"}
<1>1. /\ "rewriting" \in Stages /\ "searching" \in Stages /\ "reranking" \in Stages
      /\ "reranking" \notin seen
  BY DEF Stages
<1>2. /\ Plain(<<"rewriting", "done">>) /\ Plain(<<"searching", "done">>)
      /\ Plain(<<"reranking", "done">>) /\ Plain(<<"reranking", "skipped">>)
      /\ <<"reranking", "started">> \in Frame
  BY <1>1, PlainFacts, FrameFacts
<1>3. A \in Seq(Frame) /\ B \in Seq(Frame) /\ C \in Seq(Frame) /\ s \in Seq(Frame)
  BY <1>2 DEF Plain, Span, Skip, Trail
<1>4. Trail(s \o A, {"searching"}, seen)
  <2>1. CASE rw
    <3>1. s \o A = Append(s, <<"rewriting", "done">>)
      BY <1>2, <1>3, <2>1, SendFacts DEF Plain
    <3>2. Searching(rw) \ {"rewriting"} = {"searching"}
      BY <2>1 DEF Searching
    <3> HIDE DEF A, seen
    <3> QED BY <1>1, <1>2, <3>1, <3>2, PlainKept DEF seen
  <2>2. CASE ~rw
    <3>1. s \o A = s /\ Searching(rw) = {"searching"}
      BY <1>3, <2>2 DEF Searching
    <3> QED BY <3>1
  <2> QED BY <2>1, <2>2
<1> HIDE DEF A, C
<1>5. Trail((s \o A) \o B, {}, seen)
  <2>1. (s \o A) \o B = Append(s \o A, <<"searching", "done">>)
    BY <1>2, <1>4, SendFacts DEF Plain, Trail
  <2>2. Trail(Append(s \o A, <<"searching", "done">>), {"searching"} \ {"searching"}, seen)
    <3> HIDE DEF seen
    <3> QED BY <1>1, <1>2, <1>4, PlainKept
  <2>3. {"searching"} \ {"searching"} = {}
    OBVIOUS
  <2> QED BY <2>1, <2>2, <2>3
<1>6. Trail(((s \o A) \o B) \o C, {}, seen \cup {"reranking"})
  BY <1>1, <1>5, SpanKept DEF C
<1>7. ((s \o A) \o B) \o C = s \o (A \o B \o C) /\ A \o B \o C \in Seq(Frame)
  <2> HIDE DEF B
  <2>1. A \o B \in Seq(Frame) /\ (s \o A) \o B = s \o (A \o B)
    BY <1>3, Joined
  <2>2. (s \o (A \o B)) \o C = s \o ((A \o B) \o C)
    BY <1>3, <2>1, Joined
  <2>3. (A \o B) \o C \in Seq(Frame)
    BY <1>3, <2>1, Joined
  <2> QED BY <2>1, <2>2, <2>3
<1>8. seen \cup {"reranking"} = {"cache_lookup", "rewriting", "searching", "reranking"}
  OBVIOUS
<1>9. Found(rw, rr) = A \o B \o C
  BY DEF Found, A, B, C
<1> QED BY <1>6, <1>7, <1>8, <1>9

-----------------------------------------------------------------------------
(* The inductive invariant *)

\* What is open in each phase.
TrailInv ==
    /\ phase \in {"lookup", "embed", "replay"} =>
         Trail(sent, {"cache_lookup"}, {"cache_lookup"})
    /\ phase \in {"search", "read"} =>
         Trail(sent, Searching(flags.rewrite), {"cache_lookup", "rewriting", "searching"})
    /\ phase = "compress" =>
         Trail(sent, {}, {"cache_lookup", "rewriting", "searching", "reranking"})
    /\ phase = "generate" => Trail(sent, {"generating"}, Stages \ {"citing"})
    /\ phase \in {"answer", "write"} => Trail(sent, {}, Stages)
    /\ phase = "write" => sent # <<>> /\ sent[Len(sent)] = <<"done">>

\* Before the generation no token was sent; what was sent comes from the attempt under way.
TokensInv ==
    /\ tokens \in Seq(Nat \X Nat) /\ tries \in Nat
    /\ phase \in {"lookup", "embed", "replay", "search", "read", "compress"} => tokens = <<>>
    /\ \A n \in DOMAIN tokens : tokens[n] = <<tries, n>>

\* The stages at which the answer stands, and is cached.
AnswerInv ==
    /\ verdict \in {None, "answered", "refused"}
    /\ verdict = "answered" => phase \in {"answer", "write"} \cup Stopped /\ cites # <<>>
    /\ phase \in {"answer", "write"} => verdict # None
    /\ cached => phase = "done"

\* Without a rewrite a lost dense half is known to the pipeline, until it decides on the write.
DegradedInv ==
    lost /\ ~flags.rewrite =>
        /\ phase = "read" => flag
        /\ phase \in {"compress", "generate", "answer", "write"} => degraded

PipelineInv ==
    /\ TrailInv /\ TokensInv /\ AnswerInv /\ DegradedInv
    /\ StagesPair /\ MarkersNameTheirChunk /\ CleanWrites

-----------------------------------------------------------------------------
(* Every step keeps it *)

\* No stage is left open or opened twice by a step.
LEMMA TrailStep ==
    ASSUME TrailInv, StagesPair, [Next]_vars
    PROVE  TrailInv' /\ StagesPair'
<1>0. ASSUME Pairs(sent') PROVE StagesPair'
  BY <1>0 DEF StagesPair, Pairs, Opens
<1>1. CASE UNCHANGED vars
  BY <1>1 DEF vars, TrailInv, StagesPair
<1>2. CASE LookupExact
  BY <1>2 DEF LookupExact, TrailInv, StagesPair
<1>3. CASE LookupSemantic
  <2>1. Trail(sent, {"cache_lookup"}, {"cache_lookup"})
    BY <1>3 DEF LookupSemantic, TrailInv
  <2>2. CASE UNCHANGED sent /\ phase' \in {"replay", "raised"}
    BY <1>3, <2>1, <2>2 DEF LookupSemantic, TrailInv, StagesPair
  <2>3. CASE /\ phase' = "search" /\ UNCHANGED flags
             /\ Send(<<<<"cache_lookup", "done">>,
                       <<"rewriting", IF flags.rewrite THEN "started" ELSE "skipped">>,
                       <<"searching", "started">>>>)
    <3> DEFINE a == <<"cache_lookup", "done">>
               b == <<"rewriting", IF flags.rewrite THEN "started" ELSE "skipped">>
               c == <<"searching", "started">>
               s == Append(sent, a)
               t == Append(Append(s, b), c)
    <3>1. a \in Frame /\ b \in Frame /\ c \in Frame /\ sent \in Seq(Frame)
      BY <2>1, FrameFacts DEF Stages, Trail
    <3>2. sent' = t
      <4>1. sent' = sent \o <<a, b, c>>
        BY <2>3 DEF Send
      <4> HIDE DEF a, b, c
      <4> QED BY <3>1, <4>1, SendFacts
    <3>3. Trail(s, {"cache_lookup"} \ {"cache_lookup"}, {"cache_lookup"})
      <4>1. Plain(a) /\ "cache_lookup" \in Stages
        BY PlainFacts DEF Stages
      <4> QED BY <2>1, <4>1, PlainKept
    <3>4. {"cache_lookup"} \ {"cache_lookup"} = {}
      OBVIOUS
    <3> HIDE DEF s
    <3>5. /\ Trail(t, Searching(flags.rewrite), {"cache_lookup", "rewriting", "searching"})
          /\ t[Len(t)] # <<"done">>
      BY <3>3, <3>4, SearchOpens
    <3> HIDE DEF t
    <3> QED BY <1>0, <2>3, <3>2, <3>5, TrailPairs DEF TrailInv
  <2> QED BY <1>3, <2>2, <2>3 DEF LookupSemantic
<1>4. CASE Replay
  <2> DEFINE a == <<"cache_lookup", "done">>
             s1 == sent \o <<a, Skip("searching"), Skip("reranking")>>
             s2 == s1 \o <<Skip("compressing"), Skip("generating"), Skip("citing")>>
             s3 == s2 \o <<<<"citations">>, <<"meta">>, <<"done">>>>
  <2>1. Trail(sent, {"cache_lookup"}, {"cache_lookup"})
    BY <1>4 DEF Replay, TrailInv
  <2>2. /\ Plain(a) /\ \A x \in Stages : Plain(Skip(x))
        /\ Plain(<<"citations">>) /\ Plain(<<"meta">>) /\ Plain(<<"done">>)
        /\ {"cache_lookup", "searching", "reranking", "compressing", "generating", "citing"}
             \subseteq Stages
    BY PlainFacts DEF Stages, Skip
  <2>3. sent' = s3
    <3>1. sent \in Seq(Frame) /\ s1 \in Seq(Frame)
      BY <2>1, <2>2, PlainThree DEF Trail
    <3> DEFINE b == Skip("searching")
               c == Skip("reranking")
               d == Skip("compressing")
               e == Skip("generating")
               f == Skip("citing")
               x == <<"citations">>
               y == <<"meta">>
               z == <<"done">>
    <3>2. sent' = sent \o <<a, b, c, d, e, f, x, y, z>>
      BY <1>4 DEF Replay, Send
    <3>3. /\ a \in Frame /\ b \in Frame /\ c \in Frame /\ d \in Frame /\ e \in Frame
          /\ f \in Frame /\ x \in Frame /\ y \in Frame /\ z \in Frame
      BY <2>2 DEF Plain
    <3>4. s1 = sent \o <<a, b, c>> /\ s3 = (s1 \o <<d, e, f>>) \o <<x, y, z>>
      OBVIOUS
    <3> HIDE DEF a, b, c, d, e, f, x, y, z, s1, s2, s3
    <3>5. sent' = s1 \o <<d, e, f, x, y, z>>
      BY <3>1, <3>2, <3>3, <3>4, SMTT(60)
    <3> QED BY <3>1, <3>3, <3>4, <3>5, SMTT(60)
  <2>4. Trail(s1, {"cache_lookup"} \ {"cache_lookup"}, {"cache_lookup"})
    BY <2>1, <2>2, PlainThree
  <2> HIDE DEF s1
  <2>5. Trail(s2, {"cache_lookup"} \ {"cache_lookup"}, {"cache_lookup"})
    BY <2>2, <2>4, PlainThree
  <2> HIDE DEF s2
  <2>6. Trail(s3, {"cache_lookup"} \ {"cache_lookup"}, {"cache_lookup"})
    BY <2>2, <2>5, PlainThree
  <2>7. {"cache_lookup"} \ {"cache_lookup"} = {}
    OBVIOUS
  <2> HIDE DEF s3
  <2>8. Pairs(sent')
    BY <2>3, <2>6, <2>7, TrailPairs
  <2> QED BY <1>0, <1>4, <2>8 DEF Replay, TrailInv
<1>5. CASE Retrieve
  BY <1>5 DEF Retrieve, TrailInv, StagesPair
<1>6. ASSUME NEW open, NEW seen, Trail(sent, open, seen), SendError
      PROVE  Pairs(sent') /\ phase' = "error"
  <2>1. sent' = Append(sent, <<"error">>)
    BY <1>6, FrameFacts, SendFacts DEF SendError, Send, Trail
  <2>2. Trail(sent', open, seen)
    BY <1>6, <2>1, PlainFacts, PlainKept
  <2>3. sent'[Len(sent')] = <<"error">> /\ <<"error">> # <<"done">>
    BY <1>6, <2>1, FrameFacts DEF Trail
  <2> QED BY <1>6, <2>2, <2>3, TrailPairs DEF SendError
<1>7. CASE RetrieveFails
  <2>1. CASE UNCHANGED <<phase, sent>>
    BY <1>7, <2>1 DEF RetrieveFails, TrailInv, StagesPair
  <2>2. CASE SendError
    BY <1>0, <1>6, <1>7, <2>2 DEF RetrieveFails, TrailInv
  <2> QED BY <1>7, <2>1, <2>2 DEF RetrieveFails
<1>8. CASE ReadSignals
  <2> DEFINE F == Found(flags.rewrite, flags.rerank)
             seen == {"cache_lookup", "rewriting", "searching", "reranking"}
             T == <<Skip("compressing"), Skip("generating"), Skip("citing"),
                    <<"citations">>, <<"meta">>, <<"done">>>>
  <2>1. Trail(sent, Searching(flags.rewrite), {"cache_lookup", "rewriting", "searching"})
    BY <1>8 DEF ReadSignals, TrailInv
  <2>2. Trail(sent \o F, {}, seen) /\ F \in Seq(Frame)
    BY <2>1, FoundKept
  <2>3. \/ Send(F \o T) /\ phase' = "done"
        \/ Send(F) /\ phase' = "compress"
    BY <1>8 DEF ReadSignals, Found
  <2> HIDE DEF F
  <2>4. CASE Send(F) /\ phase' = "compress"
    BY <1>0, <2>2, <2>4, TrailPairs DEF Send, TrailInv
  <2>5. CASE Send(F \o T) /\ phase' = "done"
    <3> DEFINE s1 == (sent \o F) \o <<Skip("compressing"), Skip("generating"), Skip("citing")>>
               s2 == s1 \o <<<<"citations">>, <<"meta">>, <<"done">>>>
    <3>1. /\ \A x \in {"compressing", "generating", "citing"} : Plain(Skip(x))
          /\ Plain(<<"citations">>) /\ Plain(<<"meta">>) /\ Plain(<<"done">>)
      BY PlainFacts DEF Stages, Skip
    <3>2. T \in Seq(Frame)
      BY <3>1 DEF Plain
    <3>3. sent' = (sent \o F) \o T
      <4> HIDE DEF T
      <4> QED BY <2>1, <2>2, <2>5, <3>2, Joined DEF Send, Trail
    <3>4. sent' = s2
      <4> DEFINE d == Skip("compressing")
                 e == Skip("generating")
                 f == Skip("citing")
                 x == <<"citations">>
                 y == <<"meta">>
                 z == <<"done">>
                 r == sent \o F
      <4>1. sent' = r \o <<d, e, f, x, y, z>>
        BY <3>3
      <4>2. /\ d \in Frame /\ e \in Frame /\ f \in Frame /\ x \in Frame /\ y \in Frame
            /\ z \in Frame /\ r \in Seq(Frame)
        BY <2>2, <3>1 DEF Plain, Trail
      <4>3. s2 = (r \o <<d, e, f>>) \o <<x, y, z>>
        OBVIOUS
      <4> HIDE DEF d, e, f, x, y, z, r, s2
      <4> QED BY <4>1, <4>2, <4>3, SMTT(60)
    <3>5. Trail(s1, {}, seen)
      BY <2>2, <3>1, PlainThree
    <3> HIDE DEF s1
    <3>6. Trail(s2, {}, seen)
      BY <3>1, <3>5, PlainThree
    <3> HIDE DEF s2
    <3> QED BY <1>0, <2>5, <3>4, <3>6, TrailPairs DEF TrailInv
  <2> QED BY <2>3, <2>4, <2>5
<1>9. CASE CompressChunks
  <2> DEFINE seen == {"cache_lookup", "rewriting", "searching", "reranking"}
             g == <<"generating", "started">>
  <2>1. Trail(sent, {}, seen)
    BY <1>9 DEF CompressChunks, TrailInv
  <2>2. /\ "compressing" \in Stages /\ "compressing" \notin seen
        /\ "generating" \in Stages /\ "generating" \notin seen \cup {"compressing"}
        /\ g \in Frame /\ <<"compressing", "started">> \in Frame
        /\ <<"compressing", "done">> \in Frame /\ <<"compressing", "skipped">> \in Frame
        /\ (seen \cup {"compressing"}) \cup {"generating"} = Stages \ {"citing"}
    BY FrameFacts DEF Stages
  <2>3. ASSUME NEW x \in {Span("compressing"), <<Skip("compressing")>>},
               sent' = Append(sent \o x, g)
        PROVE  Trail(sent', {"generating"}, Stages \ {"citing"}) /\ Pairs(sent')
    <3>1. Trail(sent \o x, {}, seen \cup {"compressing"})
      <4> HIDE DEF seen
      <4> QED BY <2>1, <2>2, <2>3, SpanKept
    <3>2. Trail(Append(sent \o x, g), {} \cup {"generating"},
                (seen \cup {"compressing"}) \cup {"generating"})
      <4> HIDE DEF seen
      <4> QED BY <2>2, <3>1, StartKept
    <3>3. Trail(sent', {"generating"}, Stages \ {"citing"})
      <4>1. {} \cup {"generating"} = {"generating"}
        OBVIOUS
      <4> HIDE DEF g
      <4> QED BY <2>2, <2>3, <3>2, <4>1
    <3>4. sent'[Len(sent')] = g /\ g # <<"done">>
      BY <2>3, <3>1 DEF Trail
    <3> QED BY <3>3, <3>4, TrailPairs
  <2>4. phase' = "generate"
    BY <1>9 DEF CompressChunks
  <2>5. \E x \in {Span("compressing"), <<Skip("compressing")>>} : sent' = Append(sent \o x, g)
    <3>1. CASE Send(Append(Span("compressing"), g))
      <4>1. Span("compressing") \in Seq(Frame) /\ sent \in Seq(Frame) /\ g \in Frame
        BY <2>1, <2>2 DEF Span, Trail
      <4>2. sent' = sent \o Append(Span("compressing"), g)
        BY <3>1 DEF Send
      <4> HIDE DEF g
      <4> QED BY <4>1, <4>2, SendOne
    <3>2. CASE Send(<<Skip("compressing"), g>>)
      <4> DEFINE k == Skip("compressing")
      <4>1. k \in Frame /\ sent \in Seq(Frame) /\ g \in Frame
        BY <2>1, <2>2 DEF Skip, Trail
      <4>2. sent' = sent \o <<k, g>>
        BY <3>2 DEF Send
      <4>3. sent' = Append(sent \o <<k>>, g)
        <5> HIDE DEF k, g
        <5> QED BY <4>1, <4>2, SendFacts
      <4> QED BY <4>3
    <3> QED BY <1>9, <3>1, <3>2 DEF CompressChunks
  <2> QED BY <1>0, <2>3, <2>4, <2>5 DEF TrailInv
<1>10. CASE Token
  BY <1>10 DEF Token, TrailInv, StagesPair
<1>11. CASE GenerateRetries
  BY <1>11 DEF GenerateRetries, TrailInv, StagesPair
<1>12. CASE GenerateFails
  BY <1>0, <1>6, <1>12 DEF GenerateFails, TrailInv
<1>13. CASE Cite
  <2> DEFINE d == <<"generating", "done">>
             s == Append(sent, d)
             open == {"generating"} \ {"generating"}
             seen == Stages \ {"citing"}
  <2>1. Trail(sent, {"generating"}, seen)
    BY <1>13 DEF Cite, TrailInv
  <2>2. /\ "generating" \in Stages /\ "citing" \in Stages /\ "citing" \notin seen
        /\ d \in Frame /\ Plain(d) /\ <<"citing", "started">> \in Frame
        /\ <<"citing", "done">> \in Frame /\ seen \cup {"citing"} = Stages /\ open = {}
    BY FrameFacts, PlainFacts DEF Stages
  <2>3. Trail(s, open, seen)
    <3> HIDE DEF seen
    <3> QED BY <2>1, <2>2, PlainKept
  <2>4. CASE Send(<<d>> \o Span("citing")) /\ phase' = "answer"
    <3>1. sent \in Seq(Frame) /\ Span("citing") \in Seq(Frame)
      BY <2>1, <2>2 DEF Span, Trail
    <3>2. sent' = s \o Span("citing")
      <4>1. sent' = sent \o (<<d>> \o Span("citing"))
        BY <2>4 DEF Send
      <4> HIDE DEF d
      <4> QED BY <2>2, <3>1, <4>1, SendOne
    <3> HIDE DEF s, seen, open
    <3>3. Trail(sent', {}, Stages)
      BY <2>2, <2>3, <3>2, SpanKept
    <3> QED BY <1>0, <2>4, <3>3, TrailPairs DEF TrailInv
  <2>5. CASE Send(<<d, <<"citing", "started">>>>) /\ phase' = "raised"
    <3>1. sent' = Append(s, <<"citing", "started">>)
      BY <2>1, <2>2, <2>5, SendFacts DEF Send, Trail
    <3> HIDE DEF s, seen, open
    <3>2. Trail(sent', {} \cup {"citing"}, seen \cup {"citing"})
      BY <2>2, <2>3, <3>1, StartKept
    <3>3. sent'[Len(sent')] # <<"done">>
      BY <2>3, <3>1 DEF Trail
    <3> QED BY <1>0, <2>5, <3>2, <3>3, TrailPairs DEF TrailInv
  <2> QED BY <1>13, <2>4, <2>5 DEF Cite
<1>14. CASE Answer
  <2>1. Trail(sent, {}, Stages)
    BY <1>14 DEF Answer, TrailInv
  <2>2. /\ Trail(sent', {}, Stages) /\ Len(sent') > 0 /\ sent'[Len(sent')] = <<"done">>
    BY <1>14, <2>1, PlainFacts, PlainThree DEF Answer, Send
  <2>3. Pairs(sent') /\ sent' # <<>>
    BY <2>2, TrailPairs
  <2> QED BY <1>0, <1>14, <2>2, <2>3 DEF Answer, TrailInv
<1>15. CASE ScheduleWrite
  BY <1>15 DEF ScheduleWrite, TrailInv, StagesPair
<1>16. CASE Close
  BY <1>16 DEF Close, TrailInv, StagesPair
<1> QED BY <1>1, <1>2, <1>3, <1>4, <1>5, <1>7, <1>8, <1>9, <1>10, <1>11, <1>12, <1>13, <1>14, <1>15,
           <1>16 DEF Next

\* The tokens of the attempt under way are numbered as they are sent.
LEMMA TokensStep ==
    ASSUME TokensInv, [Next]_vars
    PROVE  TokensInv'
<1>1. CASE UNCHANGED vars
  BY <1>1 DEF vars, TokensInv
<1>2. CASE LookupExact
  BY <1>2 DEF LookupExact, TokensInv
<1>3. CASE LookupSemantic
  BY <1>3 DEF LookupSemantic, TokensInv
<1>4. CASE Replay
  BY <1>4 DEF Replay, TokensInv
<1>5. CASE Retrieve
  BY <1>5 DEF Retrieve, TokensInv
<1>6. CASE RetrieveFails
  BY <1>6 DEF RetrieveFails, SendError, TokensInv
<1>7. CASE ReadSignals
  BY <1>7 DEF ReadSignals, TokensInv
<1>8. CASE CompressChunks
  BY <1>8 DEF CompressChunks, TokensInv
<1>9. CASE Token
  <2> DEFINE before == {n \in DOMAIN tokens : tokens[n][1] = tries}
  <2>1. /\ tokens \in Seq(Nat \X Nat) /\ tries \in Nat /\ phase' = "generate" /\ tries' = tries
        /\ \A n \in DOMAIN tokens : tokens[n] = <<tries, n>>
        /\ tokens' = Append(tokens, <<tries, Cardinality(before) + 1>>)
    BY <1>9 DEF Token, TokensInv
  <2>2. before = 1..Len(tokens)
    BY <2>1
  <2>3. Cardinality(before) = Len(tokens)
    <3> DEFINE l == Len(tokens)
    <3>1. l \in Nat
      BY <2>1
    <3> HIDE DEF l
    <3>2. Cardinality(1..l) = l
      BY <3>1, IntervalFacts
    <3> QED BY <2>2, <3>2 DEF l
  <2> HIDE DEF before
  <2>4. <<tries, Len(tokens) + 1>> \in Nat \X Nat
    BY <2>1
  <2>5. /\ tokens' \in Seq(Nat \X Nat) /\ Len(tokens') = Len(tokens) + 1
        /\ \A n \in DOMAIN tokens : tokens'[n] = tokens[n]
        /\ tokens'[Len(tokens) + 1] = <<tries, Len(tokens) + 1>>
        /\ \A n \in DOMAIN tokens' : n \in DOMAIN tokens \/ n = Len(tokens) + 1
    BY <2>1, <2>3, <2>4
  <2>6. \A n \in DOMAIN tokens' : tokens'[n] = <<tries, n>>
    BY <2>1, <2>5
  <2> QED BY <2>1, <2>5, <2>6 DEF TokensInv
<1>10. CASE GenerateRetries
  <2>1. tokens = <<>>
    <3>1. \A n \in DOMAIN tokens : tokens[n][1] = tries
      BY DEF TokensInv
    <3>2. DOMAIN tokens = {}
      BY <1>10, <3>1 DEF GenerateRetries, Yielded
    <3> QED BY <3>2 DEF TokensInv
  <2> QED BY <1>10, <2>1 DEF GenerateRetries, TokensInv
<1>11. CASE GenerateFails
  BY <1>11 DEF GenerateFails, SendError, TokensInv
<1>12. CASE Cite
  BY <1>12 DEF Cite, TokensInv
<1>13. CASE Answer
  BY <1>13 DEF Answer, TokensInv
<1>14. CASE ScheduleWrite
  BY <1>14 DEF ScheduleWrite, TokensInv
<1>15. CASE Close
  BY <1>15 DEF Close, TokensInv
<1> QED BY <1>1, <1>2, <1>3, <1>4, <1>5, <1>6, <1>7, <1>8, <1>9, <1>10, <1>11, <1>12, <1>13, <1>14,
           <1>15 DEF Next

\* An answer stands when it was cited, and is cached last.
LEMMA AnswerStep ==
    ASSUME AnswerInv, [Next]_vars
    PROVE  AnswerInv'
<1>1. CASE UNCHANGED vars
  BY <1>1 DEF vars, AnswerInv
<1>2. CASE LookupExact
  BY <1>2 DEF LookupExact, AnswerInv, Stopped, None
<1>3. CASE LookupSemantic
  BY <1>3 DEF LookupSemantic, AnswerInv, Stopped, None
<1>4. CASE Replay
  BY <1>4 DEF Replay, AnswerInv, Stopped, None
<1>5. CASE Retrieve
  BY <1>5 DEF Retrieve, AnswerInv, Stopped, None
<1>6. CASE RetrieveFails
  BY <1>6 DEF RetrieveFails, SendError, AnswerInv, Stopped, None
<1>7. CASE ReadSignals
  <2>1. CASE verdict' = "refused" /\ phase' = "done"
    BY <1>7, <2>1 DEF ReadSignals, AnswerInv, Stopped, None
  <2>2. CASE phase' = "compress" /\ UNCHANGED <<cites, verdict>>
    BY <1>7, <2>2 DEF ReadSignals, AnswerInv, Stopped, None
  <2> QED BY <1>7, <2>1, <2>2 DEF ReadSignals
<1>8. CASE CompressChunks
  BY <1>8 DEF CompressChunks, AnswerInv, Stopped, None
<1>9. CASE Token
  BY <1>9 DEF Token, AnswerInv, Stopped, None
<1>10. CASE GenerateRetries
  BY <1>10 DEF GenerateRetries, AnswerInv, Stopped, None
<1>11. CASE GenerateFails
  BY <1>11 DEF GenerateFails, SendError, AnswerInv, Stopped, None
<1>12. CASE Cite
  <2>1. CASE phase' = "answer" /\ verdict' = IF cites' = <<>> THEN "refused" ELSE "answered"
    BY <1>12, <2>1 DEF Cite, AnswerInv, Stopped, None
  <2>2. CASE phase' = "raised" /\ UNCHANGED <<cites, verdict>>
    BY <1>12, <2>2 DEF Cite, AnswerInv, Stopped, None
  <2> QED BY <1>12, <2>1, <2>2 DEF Cite
<1>13. CASE Answer
  BY <1>13 DEF Answer, AnswerInv, Stopped, None
<1>14. CASE ScheduleWrite
  BY <1>14 DEF ScheduleWrite, AnswerInv, Stopped, None
<1>15. CASE Close
  BY <1>15 DEF Close, AnswerInv, Stopped, None
<1> QED BY <1>1, <1>2, <1>3, <1>4, <1>5, <1>6, <1>7, <1>8, <1>9, <1>10, <1>11, <1>12, <1>13, <1>14,
           <1>15 DEF Next

\* Without the hybrid search no retrieval lacks a half.
LEMMA GatheredFacts == ASSUME NEW g \in Gathered PROVE g.lost => flags.hybrid
<1>1. CASE flags.hybrid
  BY <1>1
<1>2. CASE ~flags.hybrid
  <2>1. g \in Dense
    BY <1>2 DEF Gathered
  <2>2. g.lost = FALSE
    BY <2>1 DEF Dense
  <2> QED BY <2>2
<1> QED BY <1>1, <1>2

\* What a retrieval in the request's own context lost is known until the write.
LEMMA DegradedStep ==
    ASSUME DegradedInv, [Next]_vars
    PROVE  DegradedInv'
<1>1. CASE UNCHANGED vars
  BY <1>1 DEF vars, DegradedInv
<1>2. CASE LookupExact
  BY <1>2 DEF LookupExact, DegradedInv
<1>3. CASE LookupSemantic
  BY <1>3 DEF LookupSemantic, DegradedInv
<1>4. CASE Replay
  BY <1>4 DEF Replay, DegradedInv
<1>5. CASE Retrieve
  <2>1. phase' = "read" /\ flags' = flags
    BY <1>5 DEF Retrieve
  <2>2. CASE flags.rewrite
    BY <2>1, <2>2 DEF DegradedInv
  <2>3. CASE ~flags.rewrite
    <3>1. PICK g \in Gathered : flag' = (flags.hybrid /\ g.lost) /\ lost' = g.lost
      BY <1>5, <2>3 DEF Retrieve
    <3>2. lost' => flag'
      BY <3>1, GatheredFacts
    <3> QED BY <2>1, <3>2 DEF DegradedInv
  <2> QED BY <2>2, <2>3
<1>6. CASE RetrieveFails
  BY <1>6 DEF RetrieveFails, SendError, DegradedInv
<1>7. CASE ReadSignals
  <2>1. degraded' = flag /\ UNCHANGED <<flags, lost>> /\ phase = "read" /\ phase' # "read"
    BY <1>7 DEF ReadSignals
  <2> QED BY <2>1 DEF DegradedInv
<1>8. CASE CompressChunks
  BY <1>8 DEF CompressChunks, DegradedInv
<1>9. CASE Token
  BY <1>9 DEF Token, DegradedInv
<1>10. CASE GenerateRetries
  BY <1>10 DEF GenerateRetries, DegradedInv
<1>11. CASE GenerateFails
  BY <1>11 DEF GenerateFails, SendError, DegradedInv
<1>12. CASE Cite
  BY <1>12 DEF Cite, DegradedInv
<1>13. CASE Answer
  BY <1>13 DEF Answer, DegradedInv
<1>14. CASE ScheduleWrite
  BY <1>14 DEF ScheduleWrite, DegradedInv
<1>15. CASE Close
  BY <1>15 DEF Close, DegradedInv
<1> QED BY <1>1, <1>2, <1>3, <1>4, <1>5, <1>6, <1>7, <1>8, <1>9, <1>10, <1>11, <1>12, <1>13, <1>14,
           <1>15 DEF Next

\* InOrder lists the positions of a finite set, each in its place.
LEMMA InOrderFacts ==
    ASSUME NEW S \in SUBSET Nat, IsFiniteSet(S)
    PROVE  /\ Cardinality(S) \in Nat
           /\ DOMAIN InOrder(S) = 1..Cardinality(S)
           /\ \A n \in 1..Cardinality(S) : InOrder(S)[n] \in S
           /\ \A m, n \in 1..Cardinality(S) : m < n => InOrder(S)[m] < InOrder(S)[n]
<1> DEFINE N == Cardinality(S)
           Upto(i) == {j \in S : j <= i}
           rank == [i \in S |-> Cardinality(Upto(i))]
<1>1. N \in Nat
  BY FS_CardinalityType
<1>2. ASSUME NEW i \in S
      PROVE  IsFiniteSet(Upto(i)) /\ Cardinality(Upto(i)) \in 1..N
  <2>1. Upto(i) \subseteq S /\ i \in Upto(i)
    OBVIOUS
  <2>2. IsFiniteSet(Upto(i)) /\ Cardinality(Upto(i)) <= N
    BY <2>1, FS_Subset
  <2>3. Cardinality(Upto(i)) \in Nat /\ Cardinality(Upto(i)) # 0
    BY <2>1, <2>2, FS_CardinalityType, FS_EmptySet
  <2> QED BY <1>1, <2>2, <2>3
<1>3. ASSUME NEW i \in S, NEW j \in S, i < j
      PROVE  Cardinality(Upto(i)) < Cardinality(Upto(j))
  <2>1. Upto(i) \subseteq Upto(j) /\ j \notin Upto(i) /\ j \in Upto(j)
    <3>1. i \in Nat /\ j \in Nat /\ \A k \in S : k \in Nat
      OBVIOUS
    <3>2. \A k \in S : k <= i => k <= j
      BY <1>3, <3>1
    <3>3. ~ j <= i /\ j <= j
      BY <1>3, <3>1
    <3> QED BY <3>2, <3>3
  <2>2. Cardinality(Upto(i)) <= Cardinality(Upto(j)) /\ Cardinality(Upto(i)) # Cardinality(Upto(j))
    BY <1>2, <2>1, FS_Subset
  <2> QED BY <1>2, <2>2
<1>4. rank \in Injection(S, 1..N)
  <2>1. rank \in [S -> 1..N]
    BY <1>2
  <2>2. ASSUME NEW i \in S, NEW j \in S, i # j PROVE rank[i] # rank[j]
    <3>1. i < j \/ j < i
      BY <2>2
    <3>2. rank[i] < rank[j] \/ rank[j] < rank[i]
      BY <1>3, <3>1
    <3> QED BY <2>1, <3>2
  <2> QED BY <2>1, <2>2 DEF Injection, IsInjective
<1>5. \A n \in 1..N : \E i \in S : Cardinality(Upto(i)) = n
  <2>1. IsFiniteSet(1..N) /\ Cardinality(1..N) = N
    BY <1>1, IntervalFacts
  <2>2. rank \in Surjection(S, 1..N)
    BY <1>4, <2>1, FS_Injection
  <2> QED BY <2>2 DEF Surjection
<1> DEFINE s == InOrder(S)
<1>6. s = [n \in 1..N |-> CHOOSE i \in S : Cardinality(Upto(i)) = n]
  BY DEF InOrder
<1> HIDE DEF s
<1>7. \A n \in 1..N : s[n] \in S /\ Cardinality(Upto(s[n])) = n
  BY <1>5, <1>6
<1> HIDE DEF Upto
<1>8. ASSUME NEW m \in 1..N, NEW n \in 1..N, m < n PROVE s[m] < s[n]
  <2>1. PICK i \in S, j \in S : /\ i = s[m] /\ j = s[n]
                                /\ Cardinality(Upto(i)) = m /\ Cardinality(Upto(j)) = n
    BY <1>7
  <2>2. i # j /\ ~ j < i
    BY <1>1, <1>3, <1>8, <2>1
  <2> QED BY <2>1, <2>2
<1> QED BY <1>1, <1>6, <1>7, <1>8 DEF s

\* A citation names a chunk of the prompt by its number, and no number twice.
LEMMA CitationsFacts ==
    ASSUME NEW markers \in Seq(Int), NEW chunks, NEW stored
    PROVE  LET c == Citations(markers, chunks, stored)
           IN  /\ \A n \in DOMAIN c : /\ c[n].marker \in DOMAIN chunks
                                      /\ c[n].id = chunks[c[n].marker].id /\ c[n].id \in stored
               /\ \A m, n \in DOMAIN c : c[m].marker = c[n].marker => m = n
<1> DEFINE firsts == {i \in DOMAIN markers :
                        /\ markers[i] \in DOMAIN chunks
                        /\ chunks[markers[i]].id \in stored
                        /\ \A j \in 1..(i - 1) : markers[j] # markers[i]}
           order == InOrder(firsts)
           c == Citations(markers, chunks, stored)
<1>1. firsts \in SUBSET Nat /\ IsFiniteSet(firsts)
  <2>1. Len(markers) \in Nat /\ firsts \in SUBSET (1..Len(markers))
    OBVIOUS
  <2>2. IsFiniteSet(1..Len(markers))
    BY <2>1, IntervalFacts
  <2> QED BY <2>1, <2>2, FS_Subset
<1>2. c = [n \in DOMAIN order |->
              [marker |-> markers[order[n]], id |-> chunks[markers[order[n]]].id]]
  BY DEF Citations
<1>3. \A n \in DOMAIN order : order[n] \in firsts
  <2> HIDE DEF firsts
  <2> QED BY <1>1, InOrderFacts
<1>4. \A m, n \in DOMAIN order : order[m] = order[n] => m = n
  <2> HIDE DEF firsts
  <2>1. /\ Cardinality(firsts) \in Nat /\ DOMAIN order = 1..Cardinality(firsts)
        /\ \A n \in 1..Cardinality(firsts) : order[n] \in firsts
        /\ \A m, n \in 1..Cardinality(firsts) : m < n => order[m] < order[n]
    BY <1>1, InOrderFacts
  <2> HIDE DEF order
  <2> SUFFICES ASSUME NEW m \in DOMAIN order, NEW n \in DOMAIN order, order[m] = order[n]
               PROVE  m = n
    OBVIOUS
  <2>2. m \in 1..Cardinality(firsts) /\ n \in 1..Cardinality(firsts)
    BY <2>1
  <2>3. order[m] \in Nat /\ order[n] \in Nat
    BY <1>1, <2>1, <2>2
  <2>4. ~ m < n /\ ~ n < m
    BY <2>1, <2>2, <2>3
  <2> QED BY <2>1, <2>2, <2>4
<1>5. \A i, j \in firsts : markers[i] = markers[j] => i = j
  <2> SUFFICES ASSUME NEW i \in firsts, NEW j \in firsts, markers[i] = markers[j] PROVE i = j
    OBVIOUS
  <2>1. i \in Nat \ {0} /\ j \in Nat \ {0}
    OBVIOUS
  <2>2. ~ i \in 1..(j - 1) /\ ~ j \in 1..(i - 1)
    OBVIOUS
  <2> QED BY <2>1, <2>2
<1> HIDE DEF c, order
<1>6. \A n \in DOMAIN c : /\ n \in DOMAIN order /\ c[n].marker = markers[order[n]]
                          /\ c[n].id = chunks[markers[order[n]]].id
  BY <1>2
<1>7. \A n \in DOMAIN c : /\ c[n].marker \in DOMAIN chunks
                          /\ c[n].id = chunks[c[n].marker].id /\ c[n].id \in stored
  BY <1>3, <1>6
<1>8. \A m, n \in DOMAIN c : c[m].marker = c[n].marker => m = n
  <2> HIDE DEF firsts
  <2> QED BY <1>3, <1>4, <1>5, <1>6
<1> QED BY <1>7, <1>8 DEF c

\* What the context shows does not change once the answer is cited.
LEMMA MarkersStep ==
    ASSUME AnswerInv, MarkersNameTheirChunk, [Next]_vars
    PROVE  MarkersNameTheirChunk'
<1>1. ASSUME UNCHANGED <<context, cites, verdict>> PROVE MarkersNameTheirChunk'
  BY <1>1 DEF MarkersNameTheirChunk
<1>2. CASE UNCHANGED vars
  BY <1>1, <1>2 DEF vars
<1>3. CASE LookupExact \/ LookupSemantic \/ Replay
  BY <1>1, <1>3 DEF LookupExact, LookupSemantic, Replay
<1>4. CASE Retrieve \/ RetrieveFails
  BY <1>1, <1>4 DEF Retrieve, RetrieveFails
<1>5. CASE ReadSignals
  <2>1. CASE verdict' = "refused"
    BY <2>1 DEF MarkersNameTheirChunk
  <2>2. CASE UNCHANGED <<cites, verdict>>
    BY <1>1, <1>5, <2>2 DEF ReadSignals
  <2> QED BY <1>5, <2>1, <2>2 DEF ReadSignals
<1>6. CASE CompressChunks
  BY <1>6 DEF CompressChunks, AnswerInv, MarkersNameTheirChunk, Stopped
<1>7. CASE Token \/ GenerateRetries \/ GenerateFails
  BY <1>1, <1>7 DEF Token, GenerateRetries, GenerateFails
<1>8. CASE Cite
  <2>1. CASE UNCHANGED <<cites, verdict>>
    BY <1>1, <1>8, <2>1 DEF Cite
  <2>2. CASE \E markers \in Answers, stored \in SUBSET Ids(context) :
                cites' = Citations(IF tokens = <<>> THEN <<>> ELSE markers, context, stored)
    <3>1. PICK markers \in Answers, stored \in SUBSET Ids(context) :
                cites' = Citations(IF tokens = <<>> THEN <<>> ELSE markers, context, stored)
      BY <2>2
    <3> DEFINE read == IF tokens = <<>> THEN <<>> ELSE markers
    <3>2. read \in Seq(Int) /\ cites' = Citations(read, context, stored)
      BY <3>1, AnswersAssumption
    <3> HIDE DEF read
    <3>3. \A n \in DOMAIN cites' : /\ cites'[n].marker \in DOMAIN context
                                   /\ cites'[n].id = context[cites'[n].marker].id
      BY <3>2, CitationsFacts
    <3>4. context' = context
      BY <1>8 DEF Cite
    <3> QED BY <3>3, <3>4 DEF MarkersNameTheirChunk
  <2> QED BY <1>8, <2>1, <2>2 DEF Cite
<1>9. CASE Answer \/ ScheduleWrite \/ Close
  BY <1>1, <1>9 DEF Answer, ScheduleWrite, Close
<1> QED BY <1>2, <1>3, <1>4, <1>5, <1>6, <1>7, <1>8, <1>9 DEF Next

\* The write-behind is scheduled for a clean answer, after its last frame.
LEMMA CleanStep ==
    ASSUME TrailInv, AnswerInv, DegradedInv, CleanWrites, [Next]_vars
    PROVE  CleanWrites'
<1>1. CASE UNCHANGED vars
  BY <1>1 DEF vars, CleanWrites
<1>2. CASE ScheduleWrite
  <2>1. /\ sent[Len(sent)] = <<"done">> /\ verdict \in {"answered", "refused"}
        /\ lost /\ ~flags.rewrite => degraded
    BY <1>2 DEF ScheduleWrite, TrailInv, AnswerInv, DegradedInv
  <2>2. cached' => verdict = "answered" /\ cites # <<>> /\ ~degraded
    BY <1>2, <2>1 DEF ScheduleWrite
  <2>3. UNCHANGED <<flags, lost, sent, cites, verdict>>
    BY <1>2 DEF ScheduleWrite
  <2> QED BY <2>1, <2>2, <2>3 DEF CleanWrites
<1>3. CASE ~cached /\ cached' = cached
  BY <1>3 DEF CleanWrites
<1>4. CASE phase = "done"
  BY <1>1, <1>4 DEF Next, LookupExact, LookupSemantic, Replay, Retrieve, RetrieveFails, ReadSignals,
     CompressChunks, Token, GenerateRetries, GenerateFails, Cite, Answer, ScheduleWrite, Close,
     Stopped
<1>5. Next /\ ~ScheduleWrite => cached' = cached
  BY DEF Next, LookupExact, LookupSemantic, Replay, Retrieve, RetrieveFails, ReadSignals,
     CompressChunks, Token, GenerateRetries, GenerateFails, Cite, Answer, Close
<1> QED BY <1>1, <1>2, <1>3, <1>4, <1>5 DEF AnswerInv

-----------------------------------------------------------------------------
(* Induction over the positions of a list *)

\* A set of numbers has a least one.
LEMMA Minimum ==
    ASSUME NEW T \in SUBSET Nat, T # {}
    PROVE  \E m \in T : \A n \in T : m <= n
<1>1. PICK m \in T : \A n \in T : <<n, m>> \notin OpToRel(<, Nat)
  BY NatLessThanWellFounded, WFMin, Zenon
<1>2. \A n \in T : ~(n < m)
  BY <1>1, Zenon DEF OpToRel
<1> QED BY <1>2

\* Induction, about a set of numbers instead of a predicate.
LEMMA Climbs ==
    ASSUME NEW n \in Nat, NEW T, 0 \in T, \A i \in 1..n : i - 1 \in T => i \in T
    PROVE  0..n \subseteq T
<1>1. SUFFICES ASSUME ~ 0..n \subseteq T PROVE FALSE
  OBVIOUS
<1>2. (0..n) \ T # {} /\ (0..n) \ T \in SUBSET Nat
  BY <1>1
<1>3. PICK m \in (0..n) \ T : \A k \in (0..n) \ T : m <= k
  BY <1>2, Minimum
<1>4. m # 0 /\ m \in 1..n /\ m - 1 \in 0..n
  BY <1>3
<1>5. m - 1 \in T
  BY <1>3, <1>4
<1> QED BY <1>3, <1>4, <1>5

\* f starts from base and is led on by the step functions G, n times.
Steps(f, V, n, base, G) ==
    f \in [0..n -> V] /\ f[0] = base /\ \A i \in 1..n : f[i] = G[i][f[i - 1]]

\* Step functions define the values they lead to.
LEMMA Recursion ==
    ASSUME NEW V, NEW n \in Nat, NEW base \in V, NEW G \in [1..n -> [V -> V]]
    PROVE  \E f : Steps(f, V, n, base, G)
<1> DEFINE T == {m \in 0..n : \E f : Steps(f, V, m, base, G)}
<1>1. 0 \in T
  <2>1. Steps([i \in 0..0 |-> base], V, 0, base, G)
    BY DEF Steps
  <2> QED BY <2>1
<1>2. ASSUME NEW k \in 1..n, k - 1 \in T PROVE k \in T
  <2>1. PICK f : Steps(f, V, k - 1, base, G)
    BY <1>2
  <2>2. f \in [0..(k - 1) -> V] /\ f[0] = base /\ \A i \in 1..(k - 1) : f[i] = G[i][f[i - 1]]
    BY <2>1 DEF Steps
  <2> DEFINE g == [i \in 0..k |-> IF i = k THEN G[k][f[k - 1]] ELSE f[i]]
  <2>3. f[k - 1] \in V /\ G[k] \in [V -> V]
    BY <2>2
  <2>4. g \in [0..k -> V]
    BY <2>2, <2>3
  <2>5. g[0] = base
    BY <2>2
  <2>6. ASSUME NEW i \in 1..k PROVE g[i] = G[i][g[i - 1]]
    <3>1. CASE i = k
      BY <3>1, <2>2
    <3>2. CASE i # k
      BY <3>2, <2>2
    <3> QED BY <3>1, <3>2
  <2>7. Steps(g, V, k, base, G)
    BY <2>4, <2>5, <2>6 DEF Steps
  <2> QED BY <2>7
<1>3. 0..n \subseteq T
  <2> HIDE DEF T
  <2> QED BY <1>1, <1>2, Climbs
<1> QED BY <1>3

-----------------------------------------------------------------------------
(* Totals *)

\* f is the running sum of the first n members of s.
Adds(f, s, n) == f[0] = 0 /\ \A i \in 1..n : f[i] = f[i - 1] + s[i]
Sums(f, s, n) == f \in [0..n -> Int] /\ Adds(f, s, n)

\* A running sum is determined by the list.
LEMMA SumsUnique ==
    ASSUME NEW n \in Nat, NEW s, NEW f, NEW g, Sums(f, s, n),
           Adds(g, s, n)
    PROVE  \A i \in 0..n : g[i] = f[i]
<1> DEFINE T == {i \in 0..n : g[i] = f[i]}
<1>1. 0 \in T
  BY DEF Sums, Adds
<1>2. ASSUME NEW i \in 1..n, i - 1 \in T PROVE i \in T
  BY <1>2 DEF Sums, Adds
<1>3. 0..n \subseteq T
  <2> HIDE DEF T
  <2> QED BY <1>1, <1>2, Climbs
<1> QED BY <1>3

\* Total is the last running sum.
LEMMA TotalSums ==
    ASSUME NEW n \in Nat, NEW s \in [1..n -> Int]
    PROVE  \E f : Sums(f, s, n) /\ Total(s) = f[n]
<1> DEFINE sum[k \in 0..Len(s)] == IF k = 0 THEN 0 ELSE sum[k - 1] + s[k]
           G == [i \in 1..n |-> [v \in Int |-> v + s[i]]]
<1>1. Len(s) = n
  OBVIOUS
<1>2. G \in [1..n -> [Int -> Int]]
  OBVIOUS
<1>3. PICK f : Steps(f, Int, n, 0, G)
  <2> HIDE DEF G
  <2>1. 0 \in Int
    OBVIOUS
  <2> QED BY <1>2, <2>1, Recursion
<1>4. ASSUME NEW i \in 1..n PROVE f[i] = f[i - 1] + s[i]
  <2>1. f[i - 1] \in Int /\ s[i] \in Int /\ f[i] = G[i][f[i - 1]]
    <3> HIDE DEF G
    <3> QED BY <1>3 DEF Steps
  <2>2. G[i] = [v \in Int |-> v + s[i]]
    OBVIOUS
  <2> HIDE DEF G
  <2> QED BY <2>1, <2>2
<1> HIDE DEF G
<1>5. Sums(f, s, n)
  BY <1>3, <1>4 DEF Sums, Adds, Steps
<1>6. f = [k \in 0..Len(s) |-> IF k = 0 THEN 0 ELSE f[k - 1] + s[k]]
  BY <1>1, <1>3, <1>4 DEF Steps
<1>7. sum = [k \in 0..Len(s) |-> IF k = 0 THEN 0 ELSE sum[k - 1] + s[k]]
  BY <1>6
<1>8. Total(s) = sum[n]
  BY <1>1 DEF Total
<1> HIDE DEF sum
<1>9. Adds(sum, s, n)
  <2>1. \A k \in 0..n : sum[k] = IF k = 0 THEN 0 ELSE sum[k - 1] + s[k]
    BY <1>1, <1>7
  <2> QED BY <2>1 DEF Adds
<1>10. sum[n] = f[n]
  BY <1>5, <1>9, SumsUnique
<1> QED BY <1>5, <1>8, <1>10

\* The total of a list that agrees with the first n members of s is the n-th running sum of s.
LEMMA TotalIs ==
    ASSUME NEW n \in Nat, NEW s, NEW f, Sums(f, s, n), NEW t \in [1..n -> Int],
           \A i \in 1..n : t[i] = s[i]
    PROVE  Total(t) = f[n]
<1>1. PICK g : Sums(g, t, n) /\ Total(t) = g[n]
  BY TotalSums
<1>2. Adds(g, s, n)
  BY <1>1 DEF Sums, Adds
<1> QED BY <1>1, <1>2, SumsUnique

\* Totals are integers.
LEMMA TotalType ==
    ASSUME NEW n \in Nat, NEW s \in [1..n -> Int]
    PROVE  Total(s) \in Int
BY TotalSums DEF Sums, Adds

\* A list that picks members of another, in order and none made larger, has no larger total.
LEMMA TotalOfPicked ==
    ASSUME NEW m \in Nat, NEW n \in Nat, NEW x \in [1..m -> Nat], NEW y \in [1..n -> Nat],
           NEW e \in [1..m -> 1..n], \A i, j \in 1..m : i < j => e[i] < e[j],
           \A i \in 1..m : x[i] <= y[e[i]]
    PROVE  Total(x) <= Total(y)
<1>1. PICK f : Sums(f, x, m) /\ Total(x) = f[m]
  <2>1. x \in [1..m -> Int]
    OBVIOUS
  <2> QED BY <2>1, TotalSums
<1>2. PICK g : Sums(g, y, n) /\ Total(y) = g[n]
  <2>1. y \in [1..n -> Int]
    OBVIOUS
  <2> QED BY <2>1, TotalSums
<1>3. \A j \in 0..n : \A i \in 0..j : g[i] <= g[j]
  <2> DEFINE T == {j \in 0..n : \A i \in 0..j : g[i] <= g[j]}
  <2>1. 0 \in T
    BY <1>2 DEF Sums, Adds
  <2>2. ASSUME NEW j \in 1..n, j - 1 \in T PROVE j \in T
    <3>1. g[j] = g[j - 1] + y[j] /\ y[j] \in Nat /\ g[j - 1] \in Int
      BY <1>2 DEF Sums, Adds
    <3>2. ASSUME NEW i \in 0..j PROVE g[i] <= g[j]
      <4>1. CASE i = j
        BY <4>1, <1>2 DEF Sums, Adds
      <4>2. CASE i # j
        <5>1. i \in 0..(j - 1) /\ g[i] <= g[j - 1] /\ g[i] \in Int
          BY <4>2, <2>2, <1>2 DEF Sums, Adds
        <5> QED BY <5>1, <3>1
      <4> QED BY <4>1, <4>2
    <3> QED BY <3>2
  <2>3. 0..n \subseteq T
    <3> HIDE DEF T
    <3> QED BY <2>1, <2>2, Climbs
  <2> QED BY <2>3
<1>4. \A i \in 1..m : f[i] <= g[e[i]]
  <2> DEFINE T == {i \in 0..m : i = 0 \/ f[i] <= g[e[i]]}
  <2>1. 0 \in T
    OBVIOUS
  <2>2. ASSUME NEW i \in 1..m, i - 1 \in T PROVE i \in T
    <3>1. /\ f[i] = f[i - 1] + x[i] /\ f[i - 1] \in Int /\ x[i] \in Nat
          /\ g[e[i]] = g[e[i] - 1] + y[e[i]] /\ g[e[i] - 1] \in Int /\ y[e[i]] \in Nat
          /\ x[i] <= y[e[i]]
      <4>1. e[i] \in 1..n /\ i - 1 \in 0..m /\ e[i] - 1 \in 0..n
        OBVIOUS
      <4> QED BY <4>1, <1>1, <1>2 DEF Sums, Adds
    <3>2. f[i - 1] <= g[e[i] - 1]
      <4>1. CASE i = 1
        <5>1. f[i - 1] = 0 /\ g[0] = 0 /\ e[i] - 1 \in 0..n /\ 0 \in 0..(e[i] - 1)
          <6>1. e[i] \in 1..n
            OBVIOUS
          <6>2. f[0] = 0 /\ g[0] = 0
            BY <1>1, <1>2 DEF Sums, Adds
          <6> QED BY <6>1, <6>2, <4>1
        <5> QED BY <5>1, <1>3
      <4>2. CASE i # 1
        <5>1. i - 1 \in 1..m /\ f[i - 1] <= g[e[i - 1]] /\ e[i - 1] < e[i]
          BY <4>2, <2>2
        <5>2. e[i - 1] \in 0..(e[i] - 1) /\ e[i] - 1 \in 0..n /\ e[i - 1] \in 0..n
          <6>1. e[i] \in 1..n /\ e[i - 1] \in 1..n
            BY <5>1
          <6> DEFINE p == e[i - 1]
                     q == e[i]
          <6>2. p \in 1..n /\ q \in 1..n /\ p < q
            BY <6>1, <5>1
          <6> HIDE DEF p, q
          <6>3. p \in 0..(q - 1) /\ q - 1 \in 0..n /\ p \in 0..n
            BY <6>2
          <6> QED BY <6>3 DEF p, q
        <5>3. g[e[i - 1]] <= g[e[i] - 1] /\ g[e[i - 1]] \in Int
          <6>1. g[e[i - 1]] <= g[e[i] - 1]
            BY <5>2, <1>3
          <6>2. g \in [0..n -> Int]
            BY <1>2 DEF Sums, Adds
          <6> QED BY <6>1, <6>2, <5>2
        <5>4. f[i - 1] \in Int /\ g[e[i] - 1] \in Int
          BY <3>1
        <5>5. g[e[i - 1]] \in Int /\ f[i - 1] <= g[e[i - 1]] /\ g[e[i - 1]] <= g[e[i] - 1]
          BY <5>1, <5>3
        <5> DEFINE a == f[i - 1]
                   b == g[e[i - 1]]
                   c == g[e[i] - 1]
        <5>6. a \in Int /\ b \in Int /\ c \in Int /\ a <= b /\ b <= c
          BY <5>4, <5>5
        <5> HIDE DEF a, b, c
        <5>7. a <= c
          BY <5>6
        <5> QED BY <5>7 DEF a, c
      <4> QED BY <4>1, <4>2
    <3> DEFINE a == f[i - 1]
               b == g[e[i] - 1]
               u == x[i]
               w == y[e[i]]
    <3>3. /\ a \in Int /\ b \in Int /\ u \in Nat /\ w \in Nat /\ a <= b /\ u <= w
          /\ f[i] = a + u /\ g[e[i]] = b + w
      BY <3>1, <3>2
    <3> HIDE DEF a, b, u, w
    <3>4. a + u <= b + w
      BY <3>3
    <3>5. f[i] <= g[e[i]]
      BY <3>3, <3>4
    <3> QED BY <3>5
  <2>3. 0..m \subseteq T
    <3> HIDE DEF T
    <3> QED BY <2>1, <2>2, Climbs
  <2> QED BY <2>3
<1>5. CASE m = 0
  <2>1. f[m] = 0 /\ g[0] = 0 /\ n \in 0..n /\ 0 \in 0..n
    BY <1>5, <1>1, <1>2 DEF Sums, Adds
  <2> QED BY <2>1, <1>1, <1>2, <1>3
<1>6. CASE m # 0
  <2>1. m \in 1..m /\ e[m] \in 0..n /\ n \in 0..n /\ f[m] <= g[e[m]]
    BY <1>6, <1>4
  <2>2. g[e[m]] <= g[n] /\ g[e[m]] \in Int /\ g[n] \in Int /\ f[m] \in Int
    BY <2>1, <1>1, <1>2, <1>3 DEF Sums, Adds
  <2> QED BY <2>1, <2>2, <1>1, <1>2
<1> QED BY <1>5, <1>6

-----------------------------------------------------------------------------
(* Sorting *)

\* Position j does not come after i in a sort by score.
Precedes(score, j, i) == score[j] > score[i] \/ (score[j] = score[i] /\ j <= i)

\* Each position of S has a place of its own among 1..Cardinality(S), in the order of the sort.
Placed(S, score) ==
    /\ \A i \in S : Place(S, score, i) \in 1..Cardinality(S)
    /\ \A i, j \in S : Place(S, score, i) = Place(S, score, j) => i = j
    /\ \A n \in 1..Cardinality(S) : \E i \in S : Place(S, score, i) = n
    /\ \A i, j \in S : Place(S, score, i) < Place(S, score, j) => Precedes(score, i, j)

\* The order of a sort is total.
LEMMA PrecedesFacts ==
    ASSUME NEW score, NEW S \in SUBSET Nat, \A i \in S : score[i] \in Int
    PROVE  /\ \A i \in S : Precedes(score, i, i)
           /\ \A i, j \in S : i # j => (Precedes(score, i, j) <=> ~ Precedes(score, j, i))
           /\ \A i, j, k \in S : Precedes(score, i, j) /\ Precedes(score, j, k) => Precedes(score, i, k)
<1>1. \A i \in S : i \in Nat /\ score[i] \in Int
  OBVIOUS
<1>2. \A i \in S : Precedes(score, i, i)
  BY <1>1 DEF Precedes
<1>3. \A i, j \in S : i # j => (Precedes(score, i, j) <=> ~ Precedes(score, j, i))
  BY <1>1 DEF Precedes
<1>4. \A i, j, k \in S : Precedes(score, i, j) /\ Precedes(score, j, k) => Precedes(score, i, k)
  BY <1>1 DEF Precedes
<1> QED BY <1>2, <1>3, <1>4

\* Sorting gives every position a place.
LEMMA PlaceFacts ==
    ASSUME NEW S \in SUBSET Nat, IsFiniteSet(S), NEW score, \A i \in S : score[i] \in Int
    PROVE  Cardinality(S) \in Nat /\ Placed(S, score)
<1> DEFINE N == Cardinality(S)
           Upto(i) == {j \in S : Precedes(score, j, i)}
           rank == [i \in S |-> Cardinality(Upto(i))]
<1>1. N \in Nat
  BY FS_CardinalityType
<1>2. ASSUME NEW i \in S
      PROVE  IsFiniteSet(Upto(i)) /\ Cardinality(Upto(i)) \in 1..N
  <2>1. Upto(i) \subseteq S /\ i \in Upto(i)
    BY PrecedesFacts
  <2> HIDE DEF Upto
  <2>2. IsFiniteSet(Upto(i)) /\ Cardinality(Upto(i)) <= N
    BY <2>1, FS_Subset
  <2>3. Cardinality(Upto(i)) \in Nat /\ Cardinality(Upto(i)) # 0
    BY <2>1, <2>2, FS_CardinalityType, FS_EmptySet
  <2> QED BY <1>1, <2>2, <2>3
<1>3. ASSUME NEW i \in S, NEW j \in S, i # j, Precedes(score, i, j)
      PROVE  Cardinality(Upto(i)) < Cardinality(Upto(j))
  <2>1. Upto(i) \subseteq Upto(j) /\ j \notin Upto(i) /\ j \in Upto(j)
    BY <1>3, PrecedesFacts
  <2> HIDE DEF Upto
  <2>2. Cardinality(Upto(i)) <= Cardinality(Upto(j)) /\ Cardinality(Upto(i)) # Cardinality(Upto(j))
    BY <1>2, <2>1, FS_Subset
  <2>3. Cardinality(Upto(i)) \in Int /\ Cardinality(Upto(j)) \in Int
    BY <1>1, <1>2
  <2> QED BY <2>2, <2>3
<1>4. rank \in Injection(S, 1..N)
  <2>1. rank \in [S -> 1..N]
    <3> HIDE DEF Upto
    <3> QED BY <1>2
  <2>2. ASSUME NEW i \in S, NEW j \in S, i # j PROVE rank[i] # rank[j]
    <3>1. Precedes(score, i, j) \/ Precedes(score, j, i)
      BY <2>2, PrecedesFacts
    <3>2. Cardinality(Upto(i)) < Cardinality(Upto(j)) \/ Cardinality(Upto(j)) < Cardinality(Upto(i))
      <4> HIDE DEF Upto
      <4> QED BY <1>3, <2>2, <3>1
    <3>3. Cardinality(Upto(i)) \in Int /\ Cardinality(Upto(j)) \in Int
      <4> HIDE DEF Upto
      <4> QED BY <1>1, <1>2
    <3> HIDE DEF Upto
    <3> QED BY <3>2, <3>3
  <2> HIDE DEF rank
  <2> QED BY <2>1, <2>2 DEF Injection, IsInjective
<1>5. \A n \in 1..N : \E i \in S : rank[i] = n
  <2> HIDE DEF rank
  <2>1. IsFiniteSet(1..N) /\ Cardinality(1..N) = N
    BY <1>1, IntervalFacts
  <2>2. rank \in Surjection(S, 1..N)
    BY <1>4, <2>1, FS_Injection
  <2> QED BY <2>2 DEF Surjection
<1>6. \A i \in S : Place(S, score, i) = rank[i]
  BY DEF Place, Precedes
<1> HIDE DEF rank
<1>7. /\ \A i \in S : rank[i] \in 1..N
      /\ \A i, j \in S : rank[i] = rank[j] => i = j
  BY <1>4 DEF Injection, IsInjective
<1>8. \A i, j \in S : rank[i] < rank[j] => Precedes(score, i, j)
  <2> SUFFICES ASSUME NEW i \in S, NEW j \in S, rank[i] < rank[j] PROVE Precedes(score, i, j)
    OBVIOUS
  <2>1. rank[i] = Cardinality(Upto(i)) /\ rank[j] = Cardinality(Upto(j))
    BY DEF rank
  <2> HIDE DEF Upto
  <2>2. rank[i] \in Int /\ rank[j] \in Int
    BY <1>1, <1>7
  <2>3. i # j /\ ~(Cardinality(Upto(j)) < Cardinality(Upto(i)))
    BY <2>1, <2>2
  <2>4. ~ Precedes(score, j, i)
    BY <1>3, <2>3
  <2> QED BY <2>3, <2>4, PrecedesFacts
<1> QED BY <1>1, <1>5, <1>6, <1>7, <1>8 DEF Placed

\* p lists every position of s once, by falling score, ties in their order; the sort is s so listed.
Sorts(p, s, score) ==
    /\ p \in [DOMAIN s -> DOMAIN s]
    /\ SortedBy(s, score) = [n \in DOMAIN s |-> s[p[n]]]
    /\ \A m, n \in DOMAIN s : p[m] = p[n] => m = n
    /\ \A i \in DOMAIN s : \E n \in DOMAIN s : p[n] = i
    /\ \A m, n \in DOMAIN s : m < n => Precedes(score, p[m], p[n])

\* Sorting rearranges the list by such a permutation.
LEMMA SortedOrder ==
    ASSUME NEW V, NEW s \in Seq(V), NEW score, \A i \in DOMAIN s : score[i] \in Int
    PROVE  \E p : Sorts(p, s, score)
<1> DEFINE D == DOMAIN s
           p == [n \in D |-> CHOOSE i \in D : Place(D, score, i) = n]
<1>1. Len(s) \in Nat /\ D = 1..Len(s)
  OBVIOUS
<1>2. D \in SUBSET Nat /\ IsFiniteSet(D) /\ Cardinality(D) = Len(s)
  BY <1>1, IntervalFacts
<1>3. Placed(D, score)
  <2> HIDE DEF D
  <2>1. \A i \in D : score[i] \in Int
    BY DEF D
  <2> QED BY <1>2, <2>1, PlaceFacts
<1> HIDE DEF D
<1>4. \A n \in D : \E i \in D : Place(D, score, i) = n
  BY <1>1, <1>2, <1>3 DEF Placed
<1>5. \A n \in D : p[n] \in D /\ Place(D, score, p[n]) = n
  BY <1>4
<1>6. SortedBy(s, score) = [n \in D |-> s[p[n]]]
  BY DEF SortedBy, D
<1>7. p \in [D -> D]
  BY <1>5
<1> HIDE DEF p
<1>8. \A m, n \in D : p[m] = p[n] => m = n
  BY <1>5
<1>9. \A i \in D : \E n \in D : p[n] = i
  <2> SUFFICES ASSUME NEW i \in D PROVE \E n \in D : p[n] = i
    OBVIOUS
  <2> DEFINE n == Place(D, score, i)
  <2>1. n \in D
    BY <1>1, <1>2, <1>3 DEF Placed
  <2>2. p[n] \in D /\ Place(D, score, p[n]) = Place(D, score, i)
    BY <1>5, <2>1
  <2>3. p[n] = i
    BY <1>3, <2>2 DEF Placed
  <2> QED BY <2>1, <2>3
<1>10. \A m, n \in D : m < n => Precedes(score, p[m], p[n])
  BY <1>3, <1>5 DEF Placed
<1>11. Sorts(p, s, score)
  BY <1>6, <1>7, <1>8, <1>9, <1>10 DEF D, Sorts
<1> QED BY <1>11

\* Sorting rearranges the list by a permutation.
LEMMA SortedFacts ==
    ASSUME NEW V, NEW s \in Seq(V), NEW score, \A i \in DOMAIN s : score[i] \in Int
    PROVE  \E p \in [DOMAIN s -> DOMAIN s] :
             /\ \A m, n \in DOMAIN s : p[m] = p[n] => m = n
             /\ SortedBy(s, score) = [n \in DOMAIN s |-> s[p[n]]]
<1>1. PICK p : Sorts(p, s, score)
  BY SortedOrder
<1> QED BY <1>1 DEF Sorts

\* The n best of a set of positions are n of them, or all.
LEMMA BestFacts ==
    ASSUME NEW S \in SUBSET Nat, IsFiniteSet(S), NEW chunks, NEW n \in Nat,
           \A i \in S : i \in DOMAIN chunks /\ chunks[i].rerank \in Int
    PROVE  /\ Best(chunks, S, n) \subseteq S
           /\ Cardinality(Best(chunks, S, n)) >= (IF n < Cardinality(S) THEN n ELSE Cardinality(S))
<1> DEFINE score == Scores(chunks, "rerank")
           B == Best(chunks, S, n)
           M == IF n < Cardinality(S) THEN n ELSE Cardinality(S)
           rank == [i \in B |-> Place(S, score, i)]
<1>1. \A i \in S : score[i] \in Int
  BY DEF Scores
<1> HIDE DEF score
<1>2. Cardinality(S) \in Nat /\ Placed(S, score)
  BY <1>1, PlaceFacts
<1>3. M \in Nat /\ M <= n /\ M <= Cardinality(S) /\ (n <= M \/ Cardinality(S) <= M)
  BY <1>2
<1>4. B = {i \in S : Place(S, score, i) <= n}
  BY DEF Best, score
<1> HIDE DEF M, B
<1>5. rank \in [B -> 1..M]
  <2>1. ASSUME NEW i \in B PROVE Place(S, score, i) \in 1..M
    BY <1>2, <1>3, <1>4 DEF Placed
  <2> QED BY <2>1
<1>6. \A k \in 1..M : \E i \in B : rank[i] = k
  <2> SUFFICES ASSUME NEW k \in 1..M PROVE \E i \in B : rank[i] = k
    OBVIOUS
  <2>1. PICK i \in S : Place(S, score, i) = k
    BY <1>2, <1>3 DEF Placed
  <2>2. i \in B
    BY <1>3, <1>4, <2>1
  <2> QED BY <2>1, <2>2
<1> HIDE DEF rank
<1>7. rank \in Surjection(B, 1..M)
  BY <1>5, <1>6 DEF Surjection
<1>8. IsFiniteSet(B)
  BY <1>4, FS_Subset
<1>9. Cardinality(1..M) <= Cardinality(B)
  BY <1>7, <1>8, FS_Surjection
<1>10. Cardinality(1..M) = M
  BY <1>3, IntervalFacts
<1> QED BY <1>4, <1>9, <1>10 DEF B, M

\* Keeping a set of positions lists them in order.
LEMMA KeepFacts ==
    ASSUME NEW V, NEW s \in Seq(V), NEW S \in SUBSET DOMAIN s
    PROVE  \E o \in [1..Cardinality(S) -> S] :
             /\ Cardinality(S) \in 0..Len(s)
             /\ \A m, n \in 1..Cardinality(S) : m < n => o[m] < o[n]
             /\ Keep(s, S) = [n \in 1..Cardinality(S) |-> s[o[n]]]
             /\ Keep(s, S) \in Seq(V) /\ Len(Keep(s, S)) = Cardinality(S)
<1> DEFINE o == InOrder(S)
           C == Cardinality(S)
<1>1. Len(s) \in Nat /\ DOMAIN s = 1..Len(s)
  OBVIOUS
<1>2. S \in SUBSET Nat /\ IsFiniteSet(S) /\ C \in 0..Len(s)
  <2>1. IsFiniteSet(1..Len(s)) /\ Cardinality(1..Len(s)) = Len(s)
    BY <1>1, IntervalFacts
  <2>2. IsFiniteSet(S) /\ C <= Cardinality(1..Len(s))
    BY <1>1, <2>1, FS_Subset
  <2>3. C \in Nat
    BY <2>2, FS_CardinalityType
  <2> QED BY <1>1, <2>1, <2>2, <2>3
<1>3. /\ DOMAIN o = 1..C
      /\ \A n \in 1..C : o[n] \in S
      /\ \A m, n \in 1..C : m < n => o[m] < o[n]
  BY <1>2, InOrderFacts
<1>4. o = [n \in DOMAIN o |-> o[n]]
  <2> DEFINE e(n) == CHOOSE i \in S : Cardinality({j \in S : j <= i}) = n
  <2>1. o = [n \in 1..Cardinality(S) |-> e(n)]
    BY DEF InOrder
  <2> HIDE DEF e, o
  <2> QED BY <2>1
<1>5. Keep(s, S) = [n \in DOMAIN o |-> s[o[n]]]
  BY DEF Keep
<1> HIDE DEF o, C
<1>6. o \in [1..C -> S]
  BY <1>3, <1>4
<1>7. Keep(s, S) = [n \in 1..C |-> s[o[n]]]
  BY <1>3, <1>5
<1>8. \A n \in 1..C : s[o[n]] \in V
  BY <1>1, <1>3
<1>9. Keep(s, S) \in Seq(V) /\ Len(Keep(s, S)) = C
  BY <1>2, <1>7, <1>8
<1> QED BY <1>2, <1>3, <1>6, <1>7, <1>9 DEF C

\* The head of a list.
LEMMA TakeFacts ==
    ASSUME NEW V, NEW s \in Seq(V), NEW n \in Nat
    PROVE  /\ Take(s, n) \in Seq(V)
           /\ Len(Take(s, n)) = (IF n < Len(s) THEN n ELSE Len(s))
           /\ \A i \in 1..Len(Take(s, n)) : Take(s, n)[i] = s[i]
BY DEF Take

-----------------------------------------------------------------------------
(* The stages of retrieval keep a pool a pool *)

\* A member of a whole candidate.
LEMMA WholeFacts ==
    ASSUME NEW c \in Whole
    PROVE  /\ c.id \in Chunks /\ c.dense \in Int /\ c.sparse \in Int /\ c.rerank \in Int
           /\ c.text = DOMAIN Sentences[c.id]
BY DEF Whole

\* A candidate begins whole.
LEMMA CandidateWhole ==
    ASSUME NEW c \in Chunks
    PROVE  Candidate(c) \in Whole /\ Candidate(c).id = c
<1>1. Sentences[c] \in Seq(Nat \ {0})
  BY TextsAssumption
<1>2. DOMAIN Sentences[c] \in SUBSET Nat
  BY <1>1
<1> QED BY <1>2 DEF Candidate, Whole, NoScore

\* Scoring a candidate leaves it whole.
LEMMA Rescored ==
    ASSUME NEW c \in Whole, NEW x \in Int
    PROVE  /\ [c EXCEPT !.sparse = x] \in Whole /\ [c EXCEPT !.sparse = x].id = c.id
           /\ [c EXCEPT !.rerank = x] \in Whole /\ [c EXCEPT !.rerank = x].id = c.id
BY DEF Whole

\* Sorting a list.
LEMMA ListSorted ==
    ASSUME NEW s \in Lists, NEW score, \A i \in DOMAIN s : score[i] \in Int
    PROVE  SortedBy(s, score) \in Lists /\ (Once(s) => Once(SortedBy(s, score)))
<1>1. s \in Seq(Whole)
  BY DEF Lists
<1>2. PICK p \in [DOMAIN s -> DOMAIN s] :
             /\ \A m, n \in DOMAIN s : p[m] = p[n] => m = n
             /\ SortedBy(s, score) = [n \in DOMAIN s |-> s[p[n]]]
  BY <1>1, SortedFacts
<1> DEFINE t == SortedBy(s, score)
<1>3. t = [n \in DOMAIN s |-> s[p[n]]]
  BY <1>2
<1> HIDE DEF t
<1>4. t \in Seq(Whole) /\ DOMAIN t = DOMAIN s
  <2>1. Len(s) \in Nat /\ DOMAIN s = 1..Len(s)
    BY <1>1
  <2>2. \A n \in DOMAIN s : s[p[n]] \in Whole
    BY <1>1
  <2> QED BY <1>3, <2>1, <2>2
<1>5. Once(s) => Once(t)
  BY <1>2, <1>3, <1>4 DEF Once
<1> QED BY <1>4, <1>5 DEF t, Lists

\* Cutting a list.
LEMMA ListTaken ==
    ASSUME NEW s \in Lists, NEW n \in Nat
    PROVE  Take(s, n) \in Lists /\ (Once(s) => Once(Take(s, n)))
<1>1. s \in Seq(Whole)
  BY DEF Lists
<1> DEFINE t == Take(s, n)
<1>2. /\ t \in Seq(Whole) /\ Len(t) = (IF n < Len(s) THEN n ELSE Len(s))
      /\ \A i \in 1..Len(t) : t[i] = s[i]
  BY <1>1, TakeFacts
<1> HIDE DEF t
<1>3. DOMAIN t = 1..Len(t) /\ DOMAIN t \subseteq DOMAIN s
  BY <1>1, <1>2
<1>4. Once(s) => Once(t)
  BY <1>2, <1>3 DEF Once
<1> QED BY <1>2, <1>4 DEF t, Lists

\* Rewriting the members of a list, not their names.
LEMMA ListMapped ==
    ASSUME NEW s \in Lists, NEW t, DOMAIN t = DOMAIN s, t = [i \in DOMAIN t |-> t[i]],
           \A i \in DOMAIN s : t[i] \in Whole /\ t[i].id = s[i].id
    PROVE  t \in Lists /\ (Once(s) => Once(t))
<1>1. s \in Seq(Whole)
  BY DEF Lists
<1>2. Len(s) \in Nat /\ DOMAIN s = 1..Len(s)
  BY <1>1
<1>3. t \in Seq(Whole)
  BY <1>2
<1>4. Once(s) => Once(t)
  BY DEF Once
<1> QED BY <1>3, <1>4 DEF Lists

\* Positions of a list, in order, name no chunk twice if their members do not.
LEMMA KeptOnce ==
    ASSUME NEW s \in Lists, NEW S \in SUBSET DOMAIN s,
           \A i, j \in S : i < j => s[i].id # s[j].id
    PROVE  /\ Keep(s, S) \in Lists /\ Once(Keep(s, S))
           /\ \A n \in DOMAIN Keep(s, S) : \E i \in S : Keep(s, S)[n] = s[i]
<1> DEFINE t == Keep(s, S)
<1>1. s \in Seq(Whole) /\ Len(s) \in Nat /\ DOMAIN s = 1..Len(s)
  BY DEF Lists
<1>2. PICK o \in [1..Cardinality(S) -> S] :
             /\ Cardinality(S) \in 0..Len(s)
             /\ \A m, n \in 1..Cardinality(S) : m < n => o[m] < o[n]
             /\ t = [n \in 1..Cardinality(S) |-> s[o[n]]]
             /\ t \in Seq(Whole) /\ Len(t) = Cardinality(S)
  BY <1>1, KeepFacts
<1> HIDE DEF t
<1>3. ASSUME NEW i \in DOMAIN t, NEW j \in DOMAIN t, t[i].id = t[j].id PROVE i = j
  <2>1. i \in 1..Cardinality(S) /\ j \in 1..Cardinality(S)
    BY <1>2
  <2>2. s[o[i]].id = s[o[j]].id /\ o[i] \in S /\ o[j] \in S
    BY <1>2, <1>3, <2>1
  <2>3. ~(o[i] < o[j]) /\ ~(o[j] < o[i])
    BY <2>2
  <2>4. ~(i < j) /\ ~(j < i)
    BY <1>2, <2>1, <2>3
  <2> QED BY <2>1, <2>4
<1>4. \A n \in DOMAIN t : \E i \in S : t[n] = s[i]
  BY <1>2
<1> QED BY <1>2, <1>3, <1>4 DEF t, Once, Lists

\* The first places of a list.
LEMMA FirstsFacts ==
    ASSUME NEW s \in Lists
    PROVE  Firsts(s) \in SUBSET DOMAIN s /\ \A i, j \in Firsts(s) : i < j => s[i].id # s[j].id
<1>1. Len(s) \in Nat /\ DOMAIN s = 1..Len(s)
  BY DEF Lists
<1>2. ASSUME NEW i \in Firsts(s), NEW j \in Firsts(s), i < j PROVE s[i].id # s[j].id
  <2>1. i \in 1..(j - 1)
    BY <1>1, <1>2 DEF Firsts
  <2> QED BY <2>1 DEF Firsts
<1> QED BY <1>2 DEF Firsts

\* A chunk that a list names has a last candidate in it.
LEMMA LastFacts ==
    ASSUME NEW s \in Lists, NEW k \in DOMAIN s
    PROVE  LastOf(s, s[k].id) \in Whole /\ LastOf(s, s[k].id).id = s[k].id
<1> DEFINE c == s[k].id
           N == Len(s)
           T == {N - i : i \in {j \in DOMAIN s : s[j].id = c}}
           last(i) == s[i].id = c /\ \A j \in DOMAIN s : s[j].id = c => j <= i
<1>1. s \in Seq(Whole) /\ N \in Nat /\ DOMAIN s = 1..N
  BY DEF Lists
<1>2. T \in SUBSET Nat /\ N - k \in T
  BY <1>1
<1>3. PICK m \in T : \A n \in T : m <= n
  <2> HIDE DEF T
  <2> QED BY <1>2, Minimum
<1>4. PICK i \in DOMAIN s : s[i].id = c /\ m = N - i
  BY <1>3
<1>5. \A j \in DOMAIN s : s[j].id = c => j <= i
  <2> SUFFICES ASSUME NEW j \in DOMAIN s, s[j].id = c PROVE j <= i
    OBVIOUS
  <2>1. N - j \in T
    OBVIOUS
  <2>2. N - i <= N - j
    BY <1>3, <1>4, <2>1
  <2> QED BY <1>1, <2>2
<1>6. last(i)
  BY <1>4, <1>5
<1> DEFINE l == CHOOSE x \in DOMAIN s : last(x)
<1>7. LastOf(s, c) = s[l]
  BY DEF LastOf
<1>8. l \in DOMAIN s /\ last(l)
  <2> HIDE DEF last
  <2> QED BY <1>6
<1> HIDE DEF l
<1>9. s[l] \in Whole /\ s[l].id = c
  BY <1>1, <1>8
<1> QED BY <1>7, <1>9

\* The scores of a list.
LEMMA PoolScores ==
    ASSUME NEW s \in Seq(Whole)
    PROVE  \A i \in DOMAIN s : Scores(s, "dense")[i] \in Int /\ Scores(s, "rerank")[i] \in Int
                               /\ Scores(s, "sparse")[i] \in Int
<1>1. \A i \in DOMAIN s : s[i] \in Whole
  OBVIOUS
<1>2. \A i \in DOMAIN s : s[i].dense \in Int /\ s[i].rerank \in Int /\ s[i].sparse \in Int
  BY <1>1, WholeFacts
<1> QED BY <1>2 DEF Scores

\* The dense finds of a search, which may name a chunk twice.
LEMMA MergeList ==
    ASSUME NEW groups, FlattenSeq(groups) \in Lists, NEW k \in Nat
    PROVE  MergeTopK(groups, k) \in Lists
<1> DEFINE all == FlattenSeq(groups)
<1>1. all \in Lists /\ all \in Seq(Whole)
  BY DEF Lists
<1>2. MergeTopK(groups, k) = Take(SortedBy(all, Scores(all, "dense")), k)
  BY DEF MergeTopK
<1> HIDE DEF all
<1>3. SortedBy(all, Scores(all, "dense")) \in Lists
  BY <1>1, PoolScores, ListSorted
<1> QED BY <1>2, <1>3, ListTaken

\* The lexical finds of a search.
LEMMA SparsePool ==
    ASSUME NEW score \in [Chunks -> Int], NEW k \in Nat
    PROVE  SparseScores(score, k) \in Lists /\ Once(SparseScores(score, k))
<1> DEFINE H == {c \in DOMAIN score : score[c] > 0}
           C == Cardinality(H)
           hits == SetToSeq(H)
           found == [i \in DOMAIN hits |-> [Candidate(hits[i]) EXCEPT !.sparse = score[hits[i]]]]
<1>1. H \subseteq Chunks /\ IsFiniteSet(H)
  <2>1. H \subseteq Chunks
    OBVIOUS
  <2> HIDE DEF H
  <2> QED BY <2>1, TextsAssumption, FS_Subset
<1> HIDE DEF H
<1>2. C \in Nat /\ ExistsBijection(1..C, H)
  BY <1>1, FS_CardinalityType
<1>3. hits \in [1..C -> H] /\ \A i, j \in 1..C : hits[i] = hits[j] => i = j
  <2>1. \E f \in [1..C -> H] : IsInjective(f)
    BY <1>2 DEF ExistsBijection, Bijection, Injection
  <2>2. hits \in [1..C -> H] /\ IsInjective(hits)
    BY <2>1 DEF SetToSeq
  <2> QED BY <2>2 DEF IsInjective
<1>4. SparseScores(score, k) = Take(SortedBy(found, Scores(found, "sparse")), k)
  BY DEF SparseScores, H
<1> HIDE DEF hits, C
<1>5. ASSUME NEW i \in 1..C PROVE found[i] \in Whole /\ found[i].id = hits[i]
  <2> DEFINE c == Candidate(hits[i])
             x == score[hits[i]]
  <2>1. hits[i] \in Chunks
    BY <1>1, <1>3
  <2>2. c \in Whole /\ c.id = hits[i] /\ x \in Int
    BY <2>1, CandidateWhole
  <2>3. found[i] = [c EXCEPT !.sparse = x]
    BY <1>3
  <2> HIDE DEF c, x, found
  <2>4. [c EXCEPT !.sparse = x] \in Whole /\ [c EXCEPT !.sparse = x].id = c.id
    BY <2>2, Rescored
  <2> QED BY <2>2, <2>3, <2>4
<1>6. DOMAIN found = 1..C /\ found = [i \in 1..C |-> found[i]]
  BY <1>3
<1> HIDE DEF found
<1>7. found \in Seq(Whole)
  BY <1>2, <1>5, <1>6
<1>8. found \in Lists /\ Once(found)
  BY <1>3, <1>5, <1>6, <1>7 DEF Lists, Once
<1> DEFINE sorted == SortedBy(found, Scores(found, "sparse"))
<1>9. sorted \in Lists /\ Once(sorted)
  BY <1>7, <1>8, PoolScores, ListSorted
<1> HIDE DEF sorted
<1>10. Take(sorted, k) \in Lists /\ Once(Take(sorted, k))
  BY <1>9, ListTaken
<1> QED BY <1>4, <1>10 DEF sorted

\* The points of a rank are integers.
LEMMA RankType ==
    ASSUME NEW list \in Seq(Whole), NEW c
    PROVE  RankScore(list, c) \in Int
<1> DEFINE s == [i \in DOMAIN list |-> IF list[i].id = c THEN Unit \div (RrfK + i) ELSE 0]
<1>1. Len(list) \in Nat /\ DOMAIN list = 1..Len(list)
  OBVIOUS
<1>2. Unit \in Nat /\ RrfK \in Nat
  BY LimitsAssumption
<1>3. \A i \in 1..Len(list) : Unit \div (RrfK + i) \in Int
  BY <1>2
<1>4. s \in [1..Len(list) -> Int]
  BY <1>1, <1>3
<1>5. RankScore(list, c) = Total(s)
  BY DEF RankScore
<1> HIDE DEF s
<1> QED BY <1>1, <1>4, <1>5, TotalType

\* Fusing the dense and the lexical finds.
LEMMA FusePool ==
    ASSUME NEW dense \in Lists, NEW sparse \in Lists, Once(sparse), NEW hydrated
    PROVE  /\ RrfFuse(dense, sparse, hydrated) \in Lists
           /\ Once(RrfFuse(dense, sparse, hydrated))
<1> DEFINE sparseOf(c) == LET i == {n \in DOMAIN sparse : sparse[n].id = c}
                          IN  IF i = {} THEN NoScore ELSE sparse[CHOOSE n \in i : TRUE].sparse
           ids == Keep(dense, Firsts(dense))
           found == [i \in DOMAIN ids |->
                       [LastOf(dense, ids[i].id) EXCEPT !.sparse = sparseOf(ids[i].id)]]
           S == {i \in DOMAIN sparse : sparse[i].id \in hydrated \ Ids(dense)}
           extra == Keep(sparse, S)
           both == found \o extra
           score == [i \in DOMAIN both |-> RankScore(dense, both[i].id) + RankScore(sparse, both[i].id)]
<1>1. /\ dense \in Seq(Whole) /\ sparse \in Seq(Whole)
      /\ \A i, j \in DOMAIN sparse : sparse[i].id = sparse[j].id => i = j
  BY DEF Lists, Once
<1>2. RrfFuse(dense, sparse, hydrated) = Take(SortedBy(both, score), FusedTopK)
  BY DEF RrfFuse
<1>3. \A c : sparseOf(c) \in Int
  <2> SUFFICES ASSUME NEW c PROVE sparseOf(c) \in Int
    OBVIOUS
  <2> DEFINE i == {n \in DOMAIN sparse : sparse[n].id = c}
             n == CHOOSE n \in i : TRUE
  <2>1. CASE i = {}
    BY <2>1 DEF NoScore
  <2>2. CASE i # {}
    <3>1. n \in DOMAIN sparse
      BY <2>2
    <3>2. sparse[n] \in Whole
      <4> HIDE DEF n
      <4> QED BY <1>1, <3>1
    <3>3. sparse[n].sparse \in Int
      <4> HIDE DEF n
      <4> QED BY <3>2, WholeFacts
    <3> QED BY <2>2, <3>3
  <2> QED BY <2>1, <2>2
<1> HIDE DEF sparseOf
<1>4. /\ ids \in Lists /\ Once(ids)
      /\ \A n \in DOMAIN ids : \E i \in DOMAIN dense : ids[n] = dense[i]
  <2>1. Firsts(dense) \in SUBSET DOMAIN dense
        /\ \A i, j \in Firsts(dense) : i < j => dense[i].id # dense[j].id
    BY FirstsFacts
  <2>2. /\ ids \in Lists /\ Once(ids)
        /\ \A n \in DOMAIN ids : \E i \in Firsts(dense) : ids[n] = dense[i]
    BY <2>1, KeptOnce
  <2> HIDE DEF ids
  <2> QED BY <2>1, <2>2
<1> HIDE DEF ids
<1>5. ASSUME NEW n \in DOMAIN ids
      PROVE  found[n] \in Whole /\ found[n].id = ids[n].id /\ ids[n].id \in Ids(dense)
  <2>1. PICK i \in DOMAIN dense : ids[n] = dense[i]
    BY <1>4
  <2> DEFINE c == LastOf(dense, dense[i].id)
             x == sparseOf(ids[n].id)
  <2>2. c \in Whole /\ c.id = ids[n].id /\ x \in Int
    BY <1>3, <2>1, LastFacts
  <2>3. found[n] = [c EXCEPT !.sparse = x]
    BY <2>1
  <2> HIDE DEF c, x, found
  <2>4. [c EXCEPT !.sparse = x] \in Whole /\ [c EXCEPT !.sparse = x].id = c.id
    BY <2>2, Rescored
  <2>5. ids[n].id \in Ids(dense)
    BY <2>1 DEF Ids
  <2> QED BY <2>2, <2>3, <2>4, <2>5
<1>6. DOMAIN found = DOMAIN ids /\ found = [i \in DOMAIN found |-> found[i]]
  OBVIOUS
<1> HIDE DEF found
<1>7. /\ found \in Seq(Whole) /\ Once(found)
      /\ \A i \in DOMAIN found : found[i].id \in Ids(dense)
  <2>1. found \in Lists /\ Once(found)
    BY <1>4, <1>5, <1>6, ListMapped
  <2> QED BY <1>5, <1>6, <2>1 DEF Lists
<1>8. S \in SUBSET DOMAIN sparse /\ \A i \in S : sparse[i].id \notin Ids(dense)
  OBVIOUS
<1> HIDE DEF S
<1>9. /\ extra \in Seq(Whole) /\ Once(extra)
      /\ \A i \in DOMAIN extra : extra[i].id \notin Ids(dense)
  <2>1. \A i, j \in S : i < j => sparse[i].id # sparse[j].id
    <3> SUFFICES ASSUME NEW i \in S, NEW j \in S, i < j, sparse[i].id = sparse[j].id PROVE FALSE
      OBVIOUS
    <3>1. i \in DOMAIN sparse /\ j \in DOMAIN sparse /\ i \in Int
      BY <1>1, <1>8
    <3>2. i = j
      BY <1>1, <3>1
    <3> QED BY <3>1, <3>2
  <2>2. /\ extra \in Lists /\ Once(extra)
        /\ \A n \in DOMAIN extra : \E i \in S : extra[n] = sparse[i]
    BY <1>8, <2>1, KeptOnce
  <2> HIDE DEF extra
  <2> QED BY <1>8, <2>2 DEF Lists
<1> HIDE DEF extra
<1>10. /\ both \in Seq(Whole) /\ DOMAIN both = 1..(Len(found) + Len(extra))
       /\ \A i \in 1..Len(found) : both[i] = found[i]
       /\ \A i \in (Len(found) + 1)..(Len(found) + Len(extra)) : both[i] = extra[i - Len(found)]
  BY <1>7, <1>9
<1> HIDE DEF both
<1>11. Once(both)
  <2> SUFFICES ASSUME NEW i \in DOMAIN both, NEW j \in DOMAIN both, both[i].id = both[j].id,
                      i <= j
               PROVE  i = j
    BY <1>10 DEF Once
  <2>1. Len(found) \in Nat /\ Len(extra) \in Nat /\ DOMAIN found = 1..Len(found)
        /\ DOMAIN extra = 1..Len(extra)
    BY <1>7, <1>9
  <2>2. CASE i \in 1..Len(found) /\ j \in 1..Len(found)
    <3>1. found[i].id = found[j].id
      BY <2>2, <1>10
    <3> QED BY <1>7, <2>1, <2>2, <3>1 DEF Once
  <2>3. CASE i \in 1..Len(found) /\ j \notin 1..Len(found)
    <3>1. j - Len(found) \in DOMAIN extra /\ both[j] = extra[j - Len(found)]
      BY <2>1, <2>3, <1>10
    <3> QED BY <1>7, <1>9, <1>10, <2>1, <2>3, <3>1
  <2>4. CASE i \notin 1..Len(found) /\ j \notin 1..Len(found)
    <3>1. /\ i - Len(found) \in DOMAIN extra /\ both[i] = extra[i - Len(found)]
          /\ j - Len(found) \in DOMAIN extra /\ both[j] = extra[j - Len(found)]
      BY <2>1, <2>4, <1>10
    <3>2. i - Len(found) = j - Len(found)
      BY <1>9, <3>1 DEF Once
    <3> QED BY <2>1, <3>2, <1>10
  <2>5. i \in Nat /\ j \in Nat /\ i \in 1..(Len(found) + Len(extra))
    BY <1>10, <2>1
  <2> QED BY <2>1, <2>2, <2>3, <2>4, <2>5
<1>12. both \in Lists
  BY <1>10 DEF Lists
<1>13. \A i \in DOMAIN both : score[i] \in Int
  <2>1. \A i \in DOMAIN both : /\ RankScore(dense, both[i].id) \in Int
                               /\ RankScore(sparse, both[i].id) \in Int
    BY <1>1, RankType
  <2> QED BY <2>1
<1> HIDE DEF score
<1> DEFINE sorted == SortedBy(both, score)
<1>14. sorted \in Lists /\ Once(sorted)
  BY <1>11, <1>12, <1>13, ListSorted
<1> HIDE DEF sorted
<1>15. Take(sorted, FusedTopK) \in Lists /\ Once(Take(sorted, FusedTopK))
  BY <1>14, ListTaken, LimitsAssumption
<1> QED BY <1>2, <1>15 DEF sorted

\* A list after another.
LEMMA JoinType ==
    ASSUME NEW V, NEW a \in Seq(V), NEW b \in Seq(V)
    PROVE  a \o b \in Seq(V)
OBVIOUS

\* Lists put together.
LEMMA FlattenType ==
    ASSUME NEW V, NEW m \in Nat \ {0}, NEW seqs \in [1..m -> Seq(V)]
    PROVE  FlattenSeq(seqs) \in Seq(V)
<1> DEFINE flatten[i \in 1..Len(seqs)] == IF i = 1 THEN seqs[i] ELSE flatten[i - 1] \o seqs[i]
           G == [i \in 1..(m - 1) |-> [v \in Seq(V) |-> v \o seqs[i + 1]]]
<1>1. Len(seqs) = m /\ m - 1 \in Nat
  OBVIOUS
<1>2. G \in [1..(m - 1) -> [Seq(V) -> Seq(V)]]
  OBVIOUS
<1>3. PICK f : Steps(f, Seq(V), m - 1, seqs[1], G)
  <2>1. seqs[1] \in Seq(V)
    OBVIOUS
  <2> HIDE DEF G
  <2> QED BY <1>1, <1>2, <2>1, Recursion
<1> DEFINE h == [i \in 1..m |-> f[i - 1]]
<1>4. ASSUME NEW i \in 2..m PROVE h[i] = h[i - 1] \o seqs[i]
  <2>1. i - 1 \in 1..(m - 1) /\ f[i - 2] \in Seq(V)
    BY <1>3 DEF Steps
  <2>2. f[i - 1] = G[i - 1][f[i - 2]]
    <3> HIDE DEF G
    <3>1. (i - 1) - 1 = i - 2
      OBVIOUS
    <3> QED BY <1>3, <2>1, <3>1 DEF Steps
  <2>3. G[i - 1][f[i - 2]] = f[i - 2] \o seqs[i]
    <3>1. G[i - 1] = [v \in Seq(V) |-> v \o seqs[(i - 1) + 1]] /\ (i - 1) + 1 = i
      BY <2>1
    <3> HIDE DEF G
    <3> QED BY <2>1, <3>1
  <2>4. h[i] = f[i - 1] /\ h[i - 1] = f[i - 2]
    BY <2>1
  <2> HIDE DEF G, h
  <2> QED BY <2>2, <2>3, <2>4
<1>5. h[1] = seqs[1]
  BY <1>3 DEF Steps
<1>6. h \in [1..m -> Seq(V)]
  BY <1>3 DEF Steps
<1> HIDE DEF h, G
<1>7. h = [i \in 1..Len(seqs) |-> IF i = 1 THEN seqs[i] ELSE h[i - 1] \o seqs[i]]
  <2>1. \A i \in 1..m : h[i] = IF i = 1 THEN seqs[i] ELSE h[i - 1] \o seqs[i]
    <3> SUFFICES ASSUME NEW i \in 1..m PROVE h[i] = IF i = 1 THEN seqs[i] ELSE h[i - 1] \o seqs[i]
      OBVIOUS
    <3>1. i = 1 \/ i \in 2..m
      OBVIOUS
    <3> QED BY <3>1, <1>4, <1>5
  <2>2. h = [i \in 1..m |-> h[i]]
    BY <1>6
  <2> QED BY <1>1, <2>1, <2>2
<1>8. flatten = [i \in 1..Len(seqs) |-> IF i = 1 THEN seqs[i] ELSE flatten[i - 1] \o seqs[i]]
  BY <1>7
<1>9. FlattenSeq(seqs) = flatten[m]
  BY <1>1 DEF FlattenSeq
<1> HIDE DEF flatten
<1> DEFINE T == {i \in 0..m : i = 0 \/ flatten[i] \in Seq(V)}
<1>10. 0 \in T
  OBVIOUS
<1>11. ASSUME NEW i \in 1..m, i - 1 \in T PROVE i \in T
  <2>1. flatten[i] = IF i = 1 THEN seqs[i] ELSE flatten[i - 1] \o seqs[i]
    BY <1>1, <1>8
  <2>2. seqs[i] \in Seq(V)
    OBVIOUS
  <2>3. CASE i = 1
    BY <2>1, <2>2, <2>3
  <2>4. CASE i # 1
    <3>1. flatten[i - 1] \in Seq(V)
      BY <1>11, <2>4
    <3>2. flatten[i] = flatten[i - 1] \o seqs[i]
      BY <2>1, <2>4
    <3> DEFINE a == flatten[i - 1]
               b == seqs[i]
    <3>3. a \in Seq(V) /\ b \in Seq(V)
      BY <2>2, <3>1
    <3> HIDE DEF a, b
    <3>4. a \o b \in Seq(V)
      BY <3>3, JoinType
    <3>5. flatten[i] \in Seq(V)
      BY <3>2, <3>4 DEF a, b
    <3> QED BY <3>5
  <2> QED BY <2>3, <2>4
<1>12. 0..m \subseteq T
  <2> HIDE DEF T
  <2> QED BY <1>10, <1>11, Climbs
<1> QED BY <1>9, <1>12

\* The union of the pools of a fan-out.
LEMMA MergedPool ==
    ASSUME NEW m \in Nat \ {0}, NEW pools \in [1..m -> Lists]
    PROVE  RrfMerge(pools) \in Lists /\ Once(RrfMerge(pools))
<1> DEFINE all == FlattenSeq(pools)
           union == Keep(all, Firsts(all))
           total(i) == Total([p \in DOMAIN pools |-> RankScore(pools[p], union[i].id)])
           score == [i \in DOMAIN union |-> total(i)]
<1>1. \A p \in 1..m : pools[p] \in Seq(Whole)
  BY DEF Lists
<1>2. all \in Lists
  <2>1. pools \in [1..m -> Seq(Whole)]
    BY <1>1
  <2> QED BY <2>1, FlattenType DEF Lists
<1>3. RrfMerge(pools) = Take(SortedBy(union, score), MergedTopK)
  BY DEF RrfMerge
<1> HIDE DEF all
<1>4. union \in Lists /\ Once(union)
  <2>1. Firsts(all) \in SUBSET DOMAIN all
        /\ \A i, j \in Firsts(all) : i < j => all[i].id # all[j].id
    BY <1>2, FirstsFacts
  <2> QED BY <1>2, <2>1, KeptOnce
<1> HIDE DEF union
<1>5. \A i : total(i) \in Int
  <2> SUFFICES ASSUME NEW i PROVE total(i) \in Int
    OBVIOUS
  <2> DEFINE s == [p \in DOMAIN pools |-> RankScore(pools[p], union[i].id)]
  <2>1. DOMAIN pools = 1..m
    OBVIOUS
  <2>2. \A p \in 1..m : RankScore(pools[p], union[i].id) \in Int
    BY <1>1, RankType
  <2>3. s \in [1..m -> Int]
    BY <2>1, <2>2
  <2>4. total(i) = Total(s)
    OBVIOUS
  <2> HIDE DEF s, total
  <2> QED BY <2>3, <2>4, TotalType
<1> HIDE DEF total
<1>6. \A i \in DOMAIN union : score[i] \in Int
  BY <1>5
<1> HIDE DEF score
<1> DEFINE sorted == SortedBy(union, score)
<1>7. sorted \in Lists /\ Once(sorted)
  BY <1>4, <1>6, ListSorted
<1> HIDE DEF sorted
<1>8. Take(sorted, MergedTopK) \in Lists /\ Once(Take(sorted, MergedTopK))
  BY <1>7, ListTaken, LimitsAssumption
<1> QED BY <1>3, <1>8 DEF sorted

\* Reranking a list.
LEMMA RerankPool ==
    ASSUME NEW found \in Lists, NEW score \in [Chunks -> Int]
    PROVE  Rerank(found, score) \in Lists /\ (Once(found) => Once(Rerank(found, score)))
<1> DEFINE scored == [i \in DOMAIN found |-> [found[i] EXCEPT !.rerank = score[found[i].id]]]
<1>1. Rerank(found, score) = Take(SortedBy(scored, Scores(scored, "rerank")), RerankTopN)
  BY DEF Rerank
<1>2. ASSUME NEW i \in DOMAIN found
      PROVE  scored[i] \in Whole /\ scored[i].id = found[i].id
  <2>1. found[i] \in Whole
    BY DEF Lists
  <2>2. score[found[i].id] \in Int
    BY <2>1, WholeFacts
  <2> QED BY <2>1, <2>2, Rescored
<1>3. DOMAIN scored = DOMAIN found /\ scored = [i \in DOMAIN scored |-> scored[i]]
  OBVIOUS
<1> HIDE DEF scored
<1>4. scored \in Lists /\ (Once(found) => Once(scored))
  BY <1>2, <1>3, ListMapped
<1>5. \A i \in DOMAIN scored : Scores(scored, "rerank")[i] \in Int
  BY <1>4, PoolScores DEF Lists
<1> DEFINE sorted == SortedBy(scored, Scores(scored, "rerank"))
<1>6. sorted \in Lists /\ (Once(scored) => Once(sorted))
  BY <1>4, <1>5, ListSorted
<1> HIDE DEF sorted
<1>7. Take(sorted, RerankTopN) \in Lists /\ (Once(sorted) => Once(Take(sorted, RerankTopN)))
  BY <1>6, ListTaken, LimitsAssumption
<1> QED BY <1>1, <1>4, <1>6, <1>7 DEF sorted

\* Reranking keeps the candidates the cross-encoder scored best, the best first, and as many as it
\* may (`rerank_chunks`).
THEOREM RerankKeepsBest ==
    ASSUME NEW found \in Lists, NEW score \in [Chunks -> Int]
    PROVE  LET t == Rerank(found, score)
           IN  /\ Len(t) = (IF RerankTopN < Len(found) THEN RerankTopN ELSE Len(found))
               /\ \A i \in DOMAIN t : t[i].rerank = score[t[i].id]
               /\ \A i, j \in DOMAIN t : i < j => t[i].rerank >= t[j].rerank
               /\ \A i \in DOMAIN found, j \in DOMAIN t :
                     found[i].id \notin Ids(t) => t[j].rerank >= score[found[i].id]
<1> DEFINE scored == [i \in DOMAIN found |-> [found[i] EXCEPT !.rerank = score[found[i].id]]]
           sc == Scores(scored, "rerank")
           t == Rerank(found, score)
           least == IF RerankTopN < Len(found) THEN RerankTopN ELSE Len(found)
<1>1. t = Take(SortedBy(scored, sc), RerankTopN)
  BY DEF Rerank
<1> HIDE DEF t
<1>2. ASSUME NEW i \in DOMAIN found
      PROVE  /\ scored[i] \in Whole /\ scored[i].id = found[i].id
             /\ scored[i].rerank = score[found[i].id] /\ score[found[i].id] \in Int
  <2> DEFINE c == found[i]
             x == score[c.id]
  <2>1. c \in Whole /\ x \in Int
    <3>1. c \in Whole
      BY DEF Lists
    <3> QED BY <3>1, WholeFacts
  <2>2. scored[i] = [c EXCEPT !.rerank = x]
    OBVIOUS
  <2> HIDE DEF x, scored
  <2>3. [c EXCEPT !.rerank = x] \in Whole /\ [c EXCEPT !.rerank = x].id = c.id
    BY <2>1, Rescored
  <2>4. [c EXCEPT !.rerank = x].rerank = x
    BY <2>1 DEF Whole
  <2> QED BY <2>1, <2>2, <2>3, <2>4 DEF x
<1>3. DOMAIN scored = DOMAIN found /\ scored = [i \in DOMAIN scored |-> scored[i]]
  OBVIOUS
<1> HIDE DEF scored
<1>4. scored \in Lists
  BY <1>2, <1>3, ListMapped
<1>5. /\ scored \in Seq(Whole) /\ Len(scored) = Len(found) /\ DOMAIN scored = 1..Len(found)
      /\ Len(found) \in Nat /\ RerankTopN \in Nat
  BY <1>3, <1>4, LimitsAssumption DEF Lists
<1>6. \A i \in DOMAIN scored : sc[i] = score[found[i].id] /\ sc[i] \in Int
  BY <1>2, <1>3 DEF Scores
<1> HIDE DEF sc
<1>18. PICK p : Sorts(p, scored, sc)
  BY <1>5, <1>6, SortedOrder
<1>7. /\ p \in [DOMAIN scored -> DOMAIN scored]
      /\ SortedBy(scored, sc) = [n \in DOMAIN scored |-> scored[p[n]]]
      /\ \A i \in DOMAIN scored : \E n \in DOMAIN scored : p[n] = i
      /\ \A m, n \in DOMAIN scored : m < n => Precedes(sc, p[m], p[n])
  BY <1>18 DEF Sorts
<1> DEFINE sorted == SortedBy(scored, sc)
<1>8. /\ sorted \in Seq(Whole) /\ Len(sorted) = Len(found)
      /\ \A n \in 1..Len(found) : sorted[n] = scored[p[n]]
  <2>1. \A n \in 1..Len(found) : scored[p[n]] \in Whole
    BY <1>5, <1>7
  <2>2. sorted = [n \in 1..Len(found) |-> scored[p[n]]]
    BY <1>5, <1>7
  <2> HIDE DEF sorted
  <2> QED BY <1>5, <2>1, <2>2
<1>9. t = Take(sorted, RerankTopN)
  BY <1>1
<1> HIDE DEF sorted
<1>10. /\ t \in Seq(Whole) /\ Len(t) = least
       /\ \A n \in 1..Len(t) : t[n] = sorted[n]
  BY <1>5, <1>8, <1>9, TakeFacts
<1>11. least \in Nat /\ least <= Len(found)
  BY <1>5
<1>12. DOMAIN t = 1..Len(t)
  BY <1>10
<1>13. \A n \in DOMAIN t : n \in DOMAIN scored /\ t[n] = scored[p[n]]
  BY <1>5, <1>8, <1>10, <1>11, <1>12
<1> HIDE DEF least
<1>14. ASSUME NEW n \in DOMAIN t
       PROVE  /\ t[n].id = found[p[n]].id /\ t[n].rerank = sc[p[n]]
              /\ t[n].rerank = score[t[n].id]
  <2>1. p[n] \in DOMAIN scored /\ p[n] \in DOMAIN found
    BY <1>3, <1>7, <1>13
  <2>2. scored[p[n]].id = found[p[n]].id /\ scored[p[n]].rerank = score[found[p[n]].id]
    BY <1>2, <2>1
  <2>3. sc[p[n]] = score[found[p[n]].id]
    BY <1>6, <2>1
  <2>4. t[n] = scored[p[n]]
    BY <1>13
  <2> QED BY <2>2, <2>3, <2>4
<1>15. ASSUME NEW i \in DOMAIN scored, NEW n \in DOMAIN scored, i < n
       PROVE  sc[p[i]] >= sc[p[n]]
  <2>1. Precedes(sc, p[i], p[n])
    BY <1>7, <1>15
  <2>2. p[i] \in DOMAIN scored /\ p[n] \in DOMAIN scored
    BY <1>7, <1>15
  <2>3. sc[p[i]] \in Int /\ sc[p[n]] \in Int
    BY <1>6, <2>2
  <2> QED BY <2>1, <2>3 DEF Precedes
<1>16. \A i, j \in DOMAIN t : i < j => t[i].rerank >= t[j].rerank
  BY <1>13, <1>14, <1>15
<1>17. ASSUME NEW i \in DOMAIN found, NEW j \in DOMAIN t, found[i].id \notin Ids(t)
       PROVE  t[j].rerank >= score[found[i].id]
  <2>1. PICK n \in DOMAIN scored : p[n] = i
    BY <1>3, <1>7
  <2>2. n \notin DOMAIN t
    BY <1>14, <1>17, <2>1 DEF Ids
  <2>3. j < n
    BY <1>5, <1>10, <1>11, <1>12, <2>1, <2>2
  <2>4. sc[p[j]] >= sc[p[n]]
    BY <1>13, <1>15, <2>3
  <2> QED BY <1>3, <1>6, <1>14, <2>1, <2>4
<1> QED BY <1>10, <1>14, <1>16, <1>17 DEF least, t

\* An empty list.
LEMMA EmptyList == <<>> \in Lists /\ Once(<<>>)
BY DEF Lists, Once

\* What the namespaces return, one after the other.
LEMMA FoundList ==
    ASSUME NEW s \in Searches, NEW k \in Nat
    PROVE  MergeTopK(s, k) \in Lists
<1>1. s \in Seq(Lists) /\ s # <<>>
  BY FoundAssumption
<1>2. Len(s) \in Nat \ {0} /\ s \in [1..Len(s) -> Seq(Whole)]
  BY <1>1 DEF Lists
<1>3. FlattenSeq(s) \in Lists
  BY <1>2, FlattenType DEF Lists
<1> QED BY <1>3, MergeList

\* What one query gathers: a hybrid search fuses its halves by chunk.
LEMMA GatheredPool ==
    ASSUME NEW g \in Gathered
    PROVE  g.pool \in Lists /\ (flags.hybrid => Once(g.pool))
<1>1. CASE flags.hybrid
  <2>1. PICK dense \in DenseHalves, lexical \in Lexical, hydrated \in SUBSET Chunks :
               g = Fuse(dense, lexical, hydrated)
    BY <1>1 DEF Gathered, Hybrid
  <2>2. dense.found \in Lists
    <3>1. CASE dense = [found |-> <<>>, lost |-> TRUE]
      BY <3>1, EmptyList
    <3>2. CASE dense # [found |-> <<>>, lost |-> TRUE]
      <4>1. PICK s \in Searches : dense.found = MergeTopK(s, DenseTopK)
        BY <2>1, <3>2 DEF DenseHalves
      <4>2. DenseTopK \in Nat
        BY WidthsAssumption
      <4> QED BY <4>1, <4>2, FoundList
    <3> QED BY <3>1, <3>2
  <2> DEFINE sparse == SparseScores(lexical, SparseTopK)
  <2>3. sparse \in Lists /\ Once(sparse)
    <3>1. lexical \in [Chunks -> Int] /\ SparseTopK \in Nat
      BY FoundAssumption, WidthsAssumption
    <3> QED BY <3>1, SparsePool
  <2> DEFINE fused == RrfFuse(dense.found, sparse, hydrated)
  <2>4. g.pool = fused
    BY <2>1 DEF Fuse
  <2> HIDE DEF sparse
  <2>5. fused \in Lists /\ Once(fused)
    BY <2>2, <2>3, FusePool
  <2> QED BY <2>4, <2>5
<1>2. CASE ~ flags.hybrid
  <2> DEFINE k == IF flags.rerank THEN CandidateK ELSE K
  <2>1. PICK s \in Searches : g = [pool |-> MergeTopK(s, k), lost |-> FALSE]
    BY <1>2 DEF Gathered, Dense
  <2>2. k \in Nat
    BY WidthsAssumption
  <2> HIDE DEF k
  <2> QED BY <1>2, <2>1, <2>2, FoundList
<1> QED BY <1>1, <1>2

\* What retrieval ends with.
LEMMA FinishPool ==
    ASSUME NEW found \in Lists, NEW p \in Finish(found)
    PROVE  p \in Lists /\ (Once(found) => Once(p))
<1>1. K \in Nat /\ Readings \subseteq [Chunks -> Int]
  BY WidthsAssumption, FoundAssumption
<1>2. CASE flags.rerank
  <2>1. PICK reading \in Readings : p = Rerank(found, reading)
    BY <1>2 DEF Finish
  <2> QED BY <1>1, <2>1, RerankPool
<1>3. CASE ~flags.rerank
  <2>1. p = Take(found, K)
    BY <1>3 DEF Finish
  <2> QED BY <1>1, <2>1, ListTaken
<1> QED BY <1>2, <1>3

-----------------------------------------------------------------------------
(* What compression costs *)

\* A candidate whose text may hold some of the sentences of its chunk.
Excerpts == [id : Chunks, dense : Int, sparse : Int, rerank : Int, text : SUBSET Nat]

\* The sentences of a chunk are numbered, it has one at least, and each costs something.
LEMMA SentenceFacts ==
    ASSUME NEW c \in Chunks
    PROVE  /\ Len(Sentences[c]) \in Nat \ {0} /\ DOMAIN Sentences[c] = 1..Len(Sentences[c])
           /\ \A s \in 1..Len(Sentences[c]) : Sentences[c][s] \in Nat \ {0}
<1>1. Sentences[c] \in Seq(Nat \ {0}) /\ Sentences[c] # <<>>
  BY TextsAssumption
<1> DEFINE q == Sentences[c]
<1>2. q \in Seq(Nat \ {0}) /\ q # <<>>
  BY <1>1
<1> HIDE DEF q
<1>3. /\ Len(q) \in Nat \ {0} /\ DOMAIN q = 1..Len(q)
      /\ \A s \in 1..Len(q) : q[s] \in Nat \ {0}
  BY <1>2
<1> QED BY <1>3 DEF q

\* The total of natural numbers is one.
LEMMA TotalNat ==
    ASSUME NEW n \in Nat, NEW s \in [1..n -> Nat]
    PROVE  Total(s) \in Nat
<1> DEFINE x == [i \in 1..0 |-> 0]
           e == [i \in 1..0 |-> 1]
<1>1. 0 \in Nat /\ x \in [1..0 -> Nat] /\ e \in [1..0 -> 1..n] /\ x \in [1..0 -> Int]
  OBVIOUS
<1>2. /\ \A i, j \in 1..0 : i < j => e[i] < e[j]
      /\ \A i \in 1..0 : x[i] <= s[e[i]]
  OBVIOUS
<1> HIDE DEF x, e
<1>3. Total(x) <= Total(s)
  BY <1>1, <1>2, TotalOfPicked
<1>4. Total(x) = 0
  <2>1. PICK f : Sums(f, x, 0) /\ Total(x) = f[0]
    BY <1>1, TotalSums
  <2> QED BY <2>1 DEF Sums, Adds
<1>5. s \in [1..n -> Int]
  OBVIOUS
<1>6. Total(s) \in Int
  BY <1>5, TotalType
<1> QED BY <1>3, <1>4, <1>6

\* One member more.
LEMMA TotalAppend ==
    ASSUME NEW n \in Nat, NEW s \in [1..n -> Int], NEW t \in [1..(n + 1) -> Int],
           \A i \in 1..n : t[i] = s[i]
    PROVE  Total(t) = Total(s) + t[n + 1]
<1>1. PICK f : Sums(f, t, n + 1) /\ Total(t) = f[n + 1]
  <2>1. n + 1 \in Nat
    OBVIOUS
  <2> QED BY <2>1, TotalSums
<1>2. PICK g : Sums(g, s, n) /\ Total(s) = g[n]
  BY TotalSums
<1>3. Adds(f, s, n)
  BY <1>1 DEF Sums, Adds
<1>4. f[n] = g[n]
  BY <1>2, <1>3, SumsUnique
<1>5. n + 1 \in 1..(n + 1) /\ (n + 1) - 1 = n
  OBVIOUS
<1>6. f[n + 1] = f[n] + t[n + 1]
  BY <1>1, <1>5 DEF Sums, Adds
<1> QED BY <1>1, <1>2, <1>4, <1>6

\* A text is priced by a natural number, and a part of it costs no more.
LEMMA TextCostFacts ==
    ASSUME NEW c \in Chunks, NEW a, NEW b, a \cap DOMAIN Sentences[c] \subseteq b
    PROVE  TextCost(c, a) \in Nat /\ TextCost(c, a) <= TextCost(c, b)
<1> DEFINE n == Len(Sentences[c])
           x == [s \in DOMAIN Sentences[c] |-> IF s \in a THEN Sentences[c][s] ELSE 0]
           y == [s \in DOMAIN Sentences[c] |-> IF s \in b THEN Sentences[c][s] ELSE 0]
           e == [s \in 1..n |-> s]
<1>1. /\ n \in Nat /\ DOMAIN Sentences[c] = 1..n
      /\ \A s \in 1..n : Sentences[c][s] \in Nat
  BY SentenceFacts
<1>2. TextCost(c, a) = Total(x) /\ TextCost(c, b) = Total(y)
  BY DEF TextCost
<1> HIDE DEF n
<1>3. x \in [1..n -> Nat] /\ y \in [1..n -> Nat]
  BY <1>1
<1>4. e \in [1..n -> 1..n] /\ \A i, j \in 1..n : i < j => e[i] < e[j]
  BY <1>1
<1>5. \A i \in 1..n : x[i] <= y[e[i]]
  BY <1>1
<1> HIDE DEF x, y, e
<1>6. Total(x) <= Total(y)
  BY <1>1, <1>3, <1>4, <1>5, TotalOfPicked
<1>7. Total(x) \in Nat
  BY <1>1, <1>3, TotalNat
<1> QED BY <1>2, <1>6, <1>7

\* What an excerpt costs.
LEMMA CostType ==
    ASSUME NEW c \in Excerpts
    PROVE  Cost(c) \in Nat
<1>1. c.id \in Chunks
  BY DEF Excerpts
<1> QED BY <1>1, TextCostFacts DEF Cost

-----------------------------------------------------------------------------
(* Selecting chunks *)

\* t lists members of s in their order.
Selects(t, s) ==
    \E o \in [1..Len(t) -> 1..Len(s)] :
        /\ \A m, n \in 1..Len(t) : m < n => o[m] < o[n]
        /\ \A n \in 1..Len(t) : t[n] = s[o[n]]

\* The least number of a list that compression keeps.
Least(s) == IF MinChunks < Len(s) THEN MinChunks ELSE Len(s)

\* Keeping positions of a list.
LEMMA KeepSelects ==
    ASSUME NEW s \in Lists, NEW S \in SUBSET DOMAIN s
    PROVE  Keep(s, S) \in Lists /\ Selects(Keep(s, S), s) /\ Len(Keep(s, S)) = Cardinality(S)
<1> DEFINE t == Keep(s, S)
           C == Cardinality(S)
<1>1. s \in Seq(Whole) /\ Len(s) \in Nat /\ DOMAIN s = 1..Len(s)
  BY DEF Lists
<1>2. PICK o \in [1..C -> S] :
             /\ C \in 0..Len(s)
             /\ \A m, n \in 1..C : m < n => o[m] < o[n]
             /\ t = [n \in 1..C |-> s[o[n]]]
             /\ t \in Seq(Whole) /\ Len(t) = C
  BY <1>1, KeepFacts
<1> HIDE DEF t, C
<1>3. Selects(t, s)
  <2>1. o \in [1..Len(t) -> 1..Len(s)]
    BY <1>1, <1>2
  <2>2. /\ \A m, n \in 1..Len(t) : m < n => o[m] < o[n]
        /\ \A n \in 1..Len(t) : t[n] = s[o[n]]
    BY <1>2
  <2> QED BY <2>1, <2>2 DEF Selects
<1> QED BY <1>2, <1>3 DEF t, C, Lists

\* A list selects itself.
LEMMA SelectsSelf ==
    ASSUME NEW s \in Lists
    PROVE  Selects(s, s)
<1> DEFINE o == [n \in 1..Len(s) |-> n]
<1>1. o \in [1..Len(s) -> 1..Len(s)] /\ Len(s) \in Nat
  BY DEF Lists
<1>2. /\ \A m, n \in 1..Len(s) : m < n => o[m] < o[n]
      /\ \A n \in 1..Len(s) : s[n] = s[o[n]]
  OBVIOUS
<1> HIDE DEF o
<1> QED BY <1>1, <1>2 DEF Selects

\* Positions of a list.
LEMMA PositionsFinite ==
    ASSUME NEW s \in Lists
    PROVE  /\ DOMAIN s \in SUBSET Nat /\ IsFiniteSet(DOMAIN s) /\ Cardinality(DOMAIN s) = Len(s)
           /\ Len(s) \in Nat
           /\ \A i \in DOMAIN s : s[i].rerank \in Int
<1>1. Len(s) \in Nat /\ DOMAIN s = 1..Len(s) /\ \A i \in DOMAIN s : s[i] \in Whole
  BY DEF Lists
<1>2. IsFiniteSet(1..Len(s)) /\ Cardinality(1..Len(s)) = Len(s)
  BY <1>1, IntervalFacts
<1>3. \A i \in DOMAIN s : s[i].rerank \in Int
  BY <1>1, WholeFacts
<1> QED BY <1>1, <1>2, <1>3

\* dedupe selects chunks of the pool, MinChunks of them or all.
LEMMA DedupeSelects ==
    ASSUME NEW s \in Lists
    PROVE  Dedupe(s) \in Lists /\ Selects(Dedupe(s), s) /\ Len(Dedupe(s)) >= Least(s)
<1> DEFINE kept[i \in DOMAIN s] == \A j \in 1..(i - 1) : kept[j] => <<s[j].id, s[i].id>> \notin Alike
           keep == {i \in DOMAIN s : kept[i]}
           short == MinChunks - Cardinality(keep)
           best == Best(s, DOMAIN s \ keep, short)
           P == IF short > 0 THEN keep \cup best ELSE keep
<1>1. Dedupe(s) = Keep(s, P)
  BY DEF Dedupe
<1>2. keep \in SUBSET DOMAIN s
  OBVIOUS
<1> HIDE DEF keep
<1> DEFINE rest == DOMAIN s \ keep
<1>3. /\ DOMAIN s \in SUBSET Nat /\ IsFiniteSet(DOMAIN s) /\ Cardinality(DOMAIN s) = Len(s)
      /\ Len(s) \in Nat
  BY PositionsFinite
<1>4. /\ IsFiniteSet(keep) /\ IsFiniteSet(rest) /\ rest \in SUBSET Nat
      /\ Cardinality(keep) \in Nat /\ Cardinality(rest) \in Nat
  BY <1>2, <1>3, FS_Subset, FS_CardinalityType
<1>5. Cardinality(rest) = Len(s) - Cardinality(keep)
  <2>1. keep \cap DOMAIN s = keep /\ DOMAIN s \cap keep = keep
    BY <1>2
  <2> DEFINE D == DOMAIN s
  <2>2. IsFiniteSet(D)
    BY <1>3
  <2> HIDE DEF D
  <2>3. Cardinality(D \ keep) = Cardinality(D) - Cardinality(D \cap keep)
    BY <2>2, FS_Difference
  <2>4. D \cap keep = keep /\ Cardinality(D) = Len(s) /\ rest = D \ keep
    BY <2>1, <1>3 DEF D
  <2> QED BY <2>3, <2>4
<1>6. MinChunks \in Nat
  BY LimitsAssumption
<1>7. CASE short > 0
  <2>1. short \in Nat
    BY <1>4, <1>6, <1>7
  <2> HIDE DEF short
  <2>2. \A i \in rest : i \in DOMAIN s /\ s[i].rerank \in Int
    BY PositionsFinite
  <2>3. /\ best \subseteq rest
        /\ Cardinality(best) >= (IF short < Cardinality(rest) THEN short ELSE Cardinality(rest))
    <3> HIDE DEF rest
    <3>1. /\ Best(s, rest, short) \subseteq rest
          /\ Cardinality(Best(s, rest, short))
               >= (IF short < Cardinality(rest) THEN short ELSE Cardinality(rest))
      BY <1>4, <2>1, <2>2, BestFacts
    <3> QED BY <3>1 DEF rest
  <2>4. IsFiniteSet(best) /\ Cardinality(best) \in Nat
    BY <1>4, <2>3, FS_Subset, FS_CardinalityType
  <2> HIDE DEF best
  <2>5. P = keep \cup best /\ P \in SUBSET DOMAIN s
    BY <1>2, <1>7, <2>3
  <2>6. Cardinality(P) = Cardinality(keep) + Cardinality(best)
    <3>1. keep \cap best = {}
      BY <2>3
    <3>2. Cardinality(keep \cup best) = Cardinality(keep) + Cardinality(best) - Cardinality({})
      BY <1>4, <2>4, <3>1, FS_Union
    <3>3. Cardinality({}) = 0
      BY FS_EmptySet
    <3> DEFINE a == Cardinality(keep)
               b == Cardinality(best)
    <3>4. a \in Nat /\ b \in Nat /\ Cardinality(keep \cup best) = a + b - 0
      BY <1>4, <2>4, <3>2, <3>3
    <3> HIDE DEF a, b
    <3>5. Cardinality(keep \cup best) = a + b
      BY <3>4
    <3> HIDE DEF P
    <3> QED BY <2>5, <3>5 DEF a, b
  <2> HIDE DEF P, rest
  <2>7. Cardinality(P) >= Least(s)
    BY <1>3, <1>4, <1>5, <1>6, <2>3, <2>4, <2>6 DEF Least, short
  <2> QED BY <1>1, <2>5, <2>7, KeepSelects
<1>8. CASE ~(short > 0)
  <2>1. P = keep
    BY <1>8
  <2>2. Cardinality(keep) >= Least(s)
    BY <1>3, <1>4, <1>6, <1>8 DEF Least
  <2> HIDE DEF P
  <2> QED BY <1>1, <1>2, <2>1, <2>2, KeepSelects
<1> QED BY <1>7, <1>8

\* relevance_floor selects chunks of the pool, MinChunks of them or all.
LEMMA FloorSelects ==
    ASSUME NEW s \in Lists
    PROVE  RelevanceFloor(s) \in Lists /\ Selects(RelevanceFloor(s), s)
           /\ Len(RelevanceFloor(s)) >= Least(s)
<1> DEFINE keep == {i \in DOMAIN s : s[i].rerank = NoScore \/ s[i].rerank >= Floor}
           best == Best(s, DOMAIN s, MinChunks)
           P == IF Cardinality(keep) < MinChunks THEN best ELSE keep
<1>1. RelevanceFloor(s) = IF Len(s) <= MinChunks THEN s ELSE Keep(s, P)
  BY DEF RelevanceFloor
<1>2. keep \in SUBSET DOMAIN s
  OBVIOUS
<1> HIDE DEF keep
<1>3. /\ DOMAIN s \in SUBSET Nat /\ IsFiniteSet(DOMAIN s) /\ Cardinality(DOMAIN s) = Len(s)
      /\ Len(s) \in Nat
  BY PositionsFinite
<1>4. MinChunks \in Nat
  BY LimitsAssumption
<1>5. IsFiniteSet(keep) /\ Cardinality(keep) \in Nat
  BY <1>2, <1>3, FS_Subset, FS_CardinalityType
<1>6. best \subseteq DOMAIN s /\ Cardinality(best) >= Least(s)
  <2>1. \A i \in DOMAIN s : i \in DOMAIN s /\ s[i].rerank \in Int
    BY PositionsFinite
  <2> DEFINE D == DOMAIN s
  <2>2. D \in SUBSET Nat /\ IsFiniteSet(D) /\ \A i \in D : i \in DOMAIN s /\ s[i].rerank \in Int
    BY <1>3, <2>1
  <2> HIDE DEF D
  <2>3. /\ Best(s, D, MinChunks) \subseteq D
        /\ Cardinality(Best(s, D, MinChunks))
             >= (IF MinChunks < Cardinality(D) THEN MinChunks ELSE Cardinality(D))
    BY <1>4, <2>2, BestFacts
  <2>4. Cardinality(D) = Len(s)
    BY <1>3 DEF D
  <2> QED BY <2>3, <2>4 DEF D, Least
<1> HIDE DEF best
<1>7. IsFiniteSet(best) /\ Cardinality(best) \in Nat
  BY <1>3, <1>6, FS_Subset, FS_CardinalityType
<1>8. P \in SUBSET DOMAIN s /\ Cardinality(P) >= Least(s)
  BY <1>2, <1>3, <1>4, <1>5, <1>6, <1>7 DEF Least
<1> HIDE DEF P
<1>9. CASE Len(s) <= MinChunks
  <2>1. Len(s) >= Least(s)
    BY <1>3, <1>4 DEF Least
  <2> QED BY <1>1, <1>9, <2>1, SelectsSelf
<1>10. CASE ~(Len(s) <= MinChunks)
  BY <1>1, <1>8, <1>10, KeepSelects
<1> QED BY <1>9, <1>10

-----------------------------------------------------------------------------
(* Filling the budget *)

\* e is what compression may make of the whole candidate c.
Shortened(e, c) ==
    /\ e \in Excerpts /\ e.id = c.id /\ e.text # {} /\ Cost(e) <= Cost(c)
    /\ e.text \subseteq c.text /\ e = [c EXCEPT !.text = e.text]

\* Whole candidates are excerpts, and have a text.
LEMMA WholeExcerpt ==
    ASSUME NEW c \in Whole
    PROVE  c \in Excerpts /\ Shortened(c, c)
<1>1. c \in Excerpts /\ c.id \in Chunks /\ c.text = DOMAIN Sentences[c.id]
  BY DEF Whole, Excerpts
<1>2. c.text # {}
  <2>1. /\ Len(Sentences[c.id]) \in Nat \ {0}
        /\ DOMAIN Sentences[c.id] = 1..Len(Sentences[c.id])
    BY <1>1, SentenceFacts
  <2> DEFINE n == Len(Sentences[c.id])
  <2>2. n \in Nat \ {0} /\ c.text = 1..n
    BY <1>1, <2>1
  <2> HIDE DEF n
  <2>3. 1 \in c.text
    BY <2>2
  <2> QED BY <2>3
<1>3. Cost(c) \in Nat
  BY <1>1, CostType
<1>4. c = [c EXCEPT !.text = c.text]
  BY DEF Whole
<1> QED BY <1>1, <1>2, <1>3, <1>4 DEF Shortened

\* The first sentence of the cross-encoder's order is always taken.
LEMMA TrimFacts ==
    ASSUME NEW c \in Whole, NEW budget \in Int, NEW liking \in Likings
    PROVE  Shortened(Trim(c, budget, liking), c)
<1> DEFINE order == liking[c.id]
           N == Len(Sentences[c.id])
           cost(n) == Sentences[c.id][order[n]]
           used[n \in 0..Len(order)] ==
               IF n = 0 THEN 0
               ELSE IF n = 1 \/ used[n - 1] + cost(n) <= budget THEN used[n - 1] + cost(n)
               ELSE used[n - 1]
           keep == {order[n] : n \in {m \in DOMAIN order : used[m] # used[m - 1]}}
           G == [n \in 1..N |-> [v \in Int |-> IF n = 1 \/ v + cost(n) <= budget THEN v + cost(n) ELSE v]]
<1>1. c \in Excerpts /\ c.id \in Chunks /\ c.text = DOMAIN Sentences[c.id]
  BY DEF Whole, Excerpts
<1>2. /\ N \in Nat \ {0} /\ DOMAIN Sentences[c.id] = 1..N
      /\ \A s \in 1..N : Sentences[c.id][s] \in Nat \ {0}
  BY <1>1, SentenceFacts
<1>3. order \in [1..N -> 1..N]
  BY <1>1, <1>2, FoundAssumption
<1>4. Trim(c, budget, liking) =
        IF Cost(c) <= budget \/ Len(order) <= 1 THEN c ELSE [c EXCEPT !.text = keep]
  BY DEF Trim
<1> HIDE DEF order, N
<1>5. Len(order) = N /\ DOMAIN order = 1..N
  BY <1>2, <1>3
<1>6. \A n \in 1..N : cost(n) \in Nat \ {0}
  BY <1>2, <1>3
<1> HIDE DEF cost
<1>7. G \in [1..N -> [Int -> Int]]
  BY <1>6
<1>8. PICK f : Steps(f, Int, N, 0, G)
  <2> HIDE DEF G
  <2>1. 0 \in Int /\ N \in Nat
    BY <1>2
  <2> QED BY <1>7, <2>1, Recursion
<1>9. ASSUME NEW n \in 1..N
      PROVE  f[n] = IF n = 1 \/ f[n - 1] + cost(n) <= budget THEN f[n - 1] + cost(n) ELSE f[n - 1]
  <2>1. f[n - 1] \in Int /\ f[n] = G[n][f[n - 1]]
    <3> HIDE DEF G
    <3>1. n - 1 \in 0..N
      BY <1>2
    <3> QED BY <1>8, <3>1 DEF Steps
  <2>2. G[n] = [v \in Int |-> IF n = 1 \/ v + cost(n) <= budget THEN v + cost(n) ELSE v]
    OBVIOUS
  <2> HIDE DEF G
  <2> QED BY <2>1, <2>2
<1>10. f \in [0..N -> Int] /\ f[0] = 0
  BY <1>8 DEF Steps
<1> HIDE DEF G
<1>11. f = [n \in 0..Len(order) |->
              IF n = 0 THEN 0
              ELSE IF n = 1 \/ f[n - 1] + cost(n) <= budget THEN f[n - 1] + cost(n) ELSE f[n - 1]]
  <2>1. \A n \in 0..N : f[n] = IF n = 0 THEN 0
              ELSE IF n = 1 \/ f[n - 1] + cost(n) <= budget THEN f[n - 1] + cost(n) ELSE f[n - 1]
    <3> SUFFICES ASSUME NEW n \in 0..N
                 PROVE  f[n] = IF n = 0 THEN 0
                          ELSE IF n = 1 \/ f[n - 1] + cost(n) <= budget THEN f[n - 1] + cost(n)
                          ELSE f[n - 1]
      OBVIOUS
    <3>1. CASE n = 0
      BY <3>1, <1>10
    <3>2. CASE n # 0
      BY <3>2, <1>2, <1>9
    <3> QED BY <3>1, <3>2
  <2>2. f = [n \in 0..N |-> f[n]]
    BY <1>10
  <2> QED BY <1>5, <2>1, <2>2
<1>12. used = [n \in 0..Len(order) |->
              IF n = 0 THEN 0
              ELSE IF n = 1 \/ used[n - 1] + cost(n) <= budget THEN used[n - 1] + cost(n)
              ELSE used[n - 1]]
  BY <1>11
<1> HIDE DEF used
<1>13. used[1] # used[0]
  <2>1. 0 \in 0..Len(order) /\ 1 \in 0..Len(order) /\ 1 \in 1..N /\ 1 - 1 = 0
    BY <1>2, <1>5
  <2>2. used[0] = 0 /\ used[1] = used[0] + cost(1)
    BY <1>12, <2>1
  <2> QED BY <1>6, <2>1, <2>2
<1>14. keep \subseteq 1..N /\ order[1] \in keep
  <2>1. 1 \in 1..N /\ 1 - 1 = 0
    BY <1>2
  <2>2. 1 \in {m \in DOMAIN order : used[m] # used[m - 1]}
    BY <1>5, <1>13, <2>1
  <2> QED BY <1>3, <1>5, <2>2
<1> HIDE DEF keep
<1>15. CASE Cost(c) <= budget \/ Len(order) <= 1
  BY <1>4, <1>15, WholeExcerpt
<1>16. CASE ~(Cost(c) <= budget \/ Len(order) <= 1)
  <2> DEFINE e == [c EXCEPT !.text = keep]
  <2>1. keep \in SUBSET Nat
    BY <1>2, <1>14
  <2>2. e \in Excerpts /\ e.id = c.id /\ e.text = keep
    BY <1>1, <2>1 DEF Excerpts
  <2>7. e.text \subseteq c.text /\ e = [c EXCEPT !.text = e.text]
    BY <1>1, <1>2, <1>14, <2>2
  <2> HIDE DEF e
  <2>3. TextCost(c.id, keep) <= TextCost(c.id, c.text)
    <3>1. keep \cap DOMAIN Sentences[c.id] \subseteq c.text
      BY <1>1
    <3> QED BY <1>1, <3>1, TextCostFacts
  <2>4. Cost(e) <= Cost(c)
    BY <2>2, <2>3 DEF Cost
  <2>5. e.text # {}
    BY <2>2, <1>14
  <2>6. Trim(c, budget, liking) = e
    BY <1>4, <1>16 DEF e
  <2> QED BY <2>2, <2>4, <2>5, <2>6, <2>7 DEF Shortened
<1> QED BY <1>15, <1>16

\* The costs of the first n of a list.
Costs(s, n) == [i \in 1..n |-> Cost(s[i])]

\* The states the loop of token_budget_fill runs through.
Fills == [kept : Seq(Excerpts), used : Int, open : BOOLEAN]

\* After i chunks of s: the ones kept are a shortened prefix of s, which stops short of i only
\* once it has the least number, and is within the budget but for the least and a last one.
Filled(v, s, least, i) ==
    /\ v \in Fills
    /\ Len(v.kept) <= i
    /\ v.open => Len(v.kept) = i
    /\ ~v.open => Len(v.kept) >= least
    /\ \A j \in 1..Len(v.kept) : Shortened(v.kept[j], s[j])
    /\ v.used = Total(Costs(v.kept, Len(v.kept)))
    /\ Len(v.kept) > least => Total(Costs(v.kept, Len(v.kept) - 1)) <= Budget

\* The costs of a list of excerpts.
LEMMA CostsType ==
    ASSUME NEW s \in Seq(Excerpts), NEW n \in 0..Len(s)
    PROVE  Costs(s, n) \in [1..n -> Nat] /\ Costs(s, n) \in [1..n -> Int]
<1>1. \A i \in 1..n : s[i] \in Excerpts
  OBVIOUS
<1>2. \A i \in 1..n : Cost(s[i]) \in Nat
  BY <1>1, CostType
<1> QED BY <1>2 DEF Costs

\* A step of the loop that keeps a chunk.
LEMMA FillKeeps ==
    ASSUME NEW s \in Seq(Whole), NEW i \in 1..Len(s), NEW least \in Nat, NEW v, NEW added,
           NEW open \in BOOLEAN,
           Filled(v, s, least, i - 1), v.open, Shortened(added, s[i]),
           Len(v.kept) >= least => v.used <= Budget,
           open \/ Len(v.kept) >= least
    PROVE  Filled([kept |-> Append(v.kept, added), used |-> v.used + Cost(added), open |-> open],
                  s, least, i)
<1> DEFINE k == v.kept
           q == Append(k, added)
           n == Len(k)
           w == [kept |-> q, used |-> v.used + Cost(added), open |-> open]
<1>1. k \in Seq(Excerpts) /\ n \in Nat /\ n = i - 1 /\ v.used = Total(Costs(k, n)) /\ v.used \in Int
  BY DEF Filled, Fills
<1>2. \A j \in 1..n : Shortened(k[j], s[j])
  BY DEF Filled
<1>3. added \in Excerpts
  BY DEF Shortened
<1>4. Len(v.kept) = n
  OBVIOUS
<1> HIDE DEF k, n
<1>5. q \in Seq(Excerpts) /\ Len(q) = n + 1 /\ q[n + 1] = added /\ \A j \in 1..n : q[j] = k[j]
  BY <1>1, <1>3 DEF n
<1> HIDE DEF q
<1>6. Cost(added) \in Nat
  BY <1>3, CostType
<1>7. w \in Fills /\ w.kept = q /\ w.used = v.used + Cost(added) /\ w.open = open
  BY <1>1, <1>5, <1>6 DEF Fills
<1> HIDE DEF w
<1>8. \A j \in 1..Len(q) : Shortened(q[j], s[j])
  <2> SUFFICES ASSUME NEW j \in 1..Len(q) PROVE Shortened(q[j], s[j])
    OBVIOUS
  <2>1. CASE j = n + 1
    <3>1. q[j] = added /\ j = i
      BY <1>1, <1>5, <2>1
    <3> QED BY <3>1
  <2>2. CASE j # n + 1
    <3>1. j \in 1..n
      BY <1>1, <1>5, <2>2
    <3> QED BY <1>2, <1>5, <3>1
  <2> QED BY <2>1, <2>2
<1>9. Costs(q, n) = Costs(k, n)
  BY <1>5 DEF Costs
<1>10. Total(Costs(q, n + 1)) = Total(Costs(q, n)) + Cost(added)
  <2>1. n \in 0..Len(q) /\ n + 1 \in 0..Len(q)
    BY <1>1, <1>5
  <2>2. Costs(q, n) \in [1..n -> Int] /\ Costs(q, n + 1) \in [1..(n + 1) -> Int]
    BY <1>5, <2>1, CostsType
  <2>3. \A j \in 1..n : Costs(q, n + 1)[j] = Costs(q, n)[j]
    BY <1>1 DEF Costs
  <2>4. Costs(q, n + 1)[n + 1] = Cost(added)
    BY <1>1, <1>5 DEF Costs
  <2> DEFINE a == Costs(q, n)
             b == Costs(q, n + 1)
  <2>5. a \in [1..n -> Int] /\ b \in [1..(n + 1) -> Int] /\ \A j \in 1..n : b[j] = a[j]
    BY <2>2, <2>3
  <2> HIDE DEF a, b
  <2>6. Total(b) = Total(a) + b[n + 1]
    BY <1>1, <2>5, TotalAppend
  <2> QED BY <2>4, <2>6 DEF a, b
<1>11. w.used = Total(Costs(q, Len(q)))
  BY <1>1, <1>5, <1>7, <1>9, <1>10
<1>12. Len(q) > least => Total(Costs(q, Len(q) - 1)) <= Budget
  <2> SUFFICES ASSUME Len(q) > least PROVE Total(Costs(q, Len(q) - 1)) <= Budget
    OBVIOUS
  <2>1. n >= least /\ Len(q) - 1 = n
    BY <1>1, <1>5
  <2>2. v.used <= Budget
    BY <1>4, <2>1
  <2> QED BY <1>1, <1>9, <2>1, <2>2
<1>13. Len(q) <= i /\ Len(q) = i
  BY <1>1, <1>5
<1>14. ~open => Len(q) >= least
  BY <1>1, <1>4, <1>5
<1>15. Filled(w, s, least, i)
  BY <1>7, <1>8, <1>11, <1>12, <1>13, <1>14 DEF Filled
<1> QED BY <1>15 DEF w, q, k

\* A step of the loop.
LEMMA FillStepFacts ==
    ASSUME NEW s \in Seq(Whole), NEW i \in 1..Len(s), NEW least \in Nat, NEW liking \in Likings, NEW v,
           Filled(v, s, least, i - 1)
    PROVE  Filled(FillStep(v, s[i], least, liking), s, least, i)
<1> DEFINE left == Budget - v.used
           must == least - Len(v.kept)
           share == left \div (IF must > 1 THEN must ELSE 1)
           budget == IF share > 1 THEN share ELSE 1
           whole == Cost(s[i]) <= left
           added == IF whole THEN s[i] ELSE Trim(s[i], budget, liking)
           stops == ~v.open \/ (~whole /\ left <= 0 /\ must <= 0)
           open == whole \/ must > 0
           stopped == [v EXCEPT !.open = FALSE]
           next == [kept |-> Append(v.kept, added), used |-> v.used + Cost(added), open |-> open]
<1>1. FillStep(v, s[i], least, liking) = IF stops THEN stopped ELSE next
  BY DEF FillStep
<1>2. v \in Fills /\ v.kept \in Seq(Excerpts) /\ v.used \in Int /\ Len(v.kept) \in Nat
  BY DEF Filled, Fills
<1>3. s[i] \in Whole /\ Budget \in Nat
  BY LimitsAssumption
<1>4. Cost(s[i]) \in Nat
  BY <1>3, WholeExcerpt, CostType
<1>5. left \in Int /\ must \in Int
  BY <1>2, <1>3
<1>6. budget \in Int
  BY <1>5
<1>7. Shortened(added, s[i])
  <2> HIDE DEF budget, whole
  <2>1. CASE whole
    BY <1>3, <2>1, WholeExcerpt
  <2>2. CASE ~whole
    BY <1>3, <1>6, <2>2, TrimFacts
  <2> QED BY <2>1, <2>2
<1> HIDE DEF added
<1>8. CASE stops
  <2>1. /\ stopped \in Fills /\ stopped.kept = v.kept /\ stopped.used = v.used
        /\ ~stopped.open
    BY <1>2 DEF Fills
  <2>2. Len(v.kept) >= least
    <3>1. CASE ~v.open
      BY <3>1 DEF Filled
    <3>2. CASE must <= 0
      BY <3>2, <1>2
    <3> QED BY <1>8, <3>1, <3>2
  <2>3. Len(v.kept) <= i
    BY <1>2 DEF Filled
  <2> HIDE DEF stopped
  <2>4. Filled(stopped, s, least, i)
    BY <2>1, <2>2, <2>3 DEF Filled
  <2> HIDE DEF next, stops
  <2> QED BY <1>1, <1>8, <2>4
<1>9. CASE ~stops
  <2>1. v.open
    BY <1>9
  <2>2. Len(v.kept) >= least => v.used <= Budget
    BY <1>2, <1>3, <1>4, <1>9
  <2>3. open \in BOOLEAN /\ (open \/ Len(v.kept) >= least)
    BY <1>2
  <2> HIDE DEF open
  <2>4. Filled(next, s, least, i)
    BY <1>7, <2>1, <2>2, <2>3, FillKeeps
  <2> HIDE DEF next, stops
  <2> QED BY <1>1, <1>9, <2>4
<1> QED BY <1>8, <1>9

\* A step of the loop, out of any state of it.
LEMMA FillStepType ==
    ASSUME NEW v \in Fills, NEW c \in Whole, NEW least \in Nat, NEW liking \in Likings
    PROVE  FillStep(v, c, least, liking) \in Fills
<1> DEFINE left == Budget - v.used
           must == least - Len(v.kept)
           share == left \div (IF must > 1 THEN must ELSE 1)
           budget == IF share > 1 THEN share ELSE 1
           whole == Cost(c) <= left
           added == IF whole THEN c ELSE Trim(c, budget, liking)
           stops == ~v.open \/ (~whole /\ left <= 0 /\ must <= 0)
           open == whole \/ must > 0
           stopped == [v EXCEPT !.open = FALSE]
           next == [kept |-> Append(v.kept, added), used |-> v.used + Cost(added), open |-> open]
<1>1. FillStep(v, c, least, liking) = IF stops THEN stopped ELSE next
  BY DEF FillStep
<1>2. v.kept \in Seq(Excerpts) /\ v.used \in Int /\ Len(v.kept) \in Nat /\ Budget \in Nat
  BY LimitsAssumption DEF Fills
<1>3. left \in Int /\ must \in Int
  BY <1>2
<1>4. budget \in Int
  BY <1>3
<1>5. added \in Excerpts
  <2> HIDE DEF budget, whole
  <2>1. Shortened(Trim(c, budget, liking), c)
    BY <1>4, TrimFacts
  <2> QED BY <2>1, WholeExcerpt DEF Shortened
<1> HIDE DEF added
<1>6. Cost(added) \in Nat /\ open \in BOOLEAN
  BY <1>5, CostType
<1>7. stopped \in Fills
  BY DEF Fills
<1>8. next \in Fills
  <2>1. Append(v.kept, added) \in Seq(Excerpts)
    BY <1>2, <1>5
  <2> HIDE DEF open
  <2> QED BY <1>2, <1>6, <2>1 DEF Fills
<1> HIDE DEF stops, stopped, next
<1> QED BY <1>1, <1>7, <1>8

-----------------------------------------------------------------------------
(* What compression returns *)

\* token_budget_fill keeps a shortened prefix: the least number of chunks at least, and more only
\* while the budget lasts.
LEMMA BudgetFillFacts ==
    ASSUME NEW s \in Lists, NEW liking \in Likings
    PROVE  LET t == BudgetFill(s, liking)
           IN  /\ t \in Seq(Excerpts) /\ Len(t) \in Least(s)..Len(s)
               /\ \A j \in 1..Len(t) : Shortened(t[j], s[j])
               /\ Len(t) > Least(s) => Total(Costs(t, Len(t) - 1)) <= Budget
<1> DEFINE least == IF MinChunks < Len(s) THEN MinChunks ELSE Len(s)
           base == [kept |-> <<>>, used |-> 0, open |-> TRUE]
           fill[i \in 0..Len(s)] ==
               IF i = 0 THEN [kept |-> <<>>, used |-> 0, open |-> TRUE]
               ELSE FillStep(fill[i - 1], s[i], least, liking)
           N == Len(s)
           G == [i \in 1..N |-> [v \in Fills |-> FillStep(v, s[i], least, liking)]]
<1>1. s \in Seq(Whole) /\ N \in Nat /\ MinChunks \in Nat \ {0}
  BY LimitsAssumption DEF Lists
<1>2. least \in Nat /\ least = Least(s) /\ least <= N
  BY <1>1 DEF Least
<1>3. BudgetFill(s, liking) = fill[N].kept
  BY DEF BudgetFill
<1> HIDE DEF least
<1>4. base \in Fills /\ <<>> \in Seq(Excerpts)
  BY DEF Fills
<1>5. \A i \in 1..N : s[i] \in Whole
  BY <1>1
<1>6. G \in [1..N -> [Fills -> Fills]]
  <2>1. \A i \in 1..N : \A v \in Fills : FillStep(v, s[i], least, liking) \in Fills
    BY <1>2, <1>5, FillStepType
  <2> QED BY <2>1
<1>7. PICK f : Steps(f, Fills, N, base, G)
  <2> HIDE DEF G, base, N
  <2> QED BY <1>1, <1>4, <1>6, Recursion
<1>8. ASSUME NEW i \in 1..N PROVE f[i] = FillStep(f[i - 1], s[i], least, liking)
  <2>1. f[i - 1] \in Fills /\ f[i] = G[i][f[i - 1]]
    <3> HIDE DEF G, base
    <3>1. i - 1 \in 0..N
      BY <1>1
    <3> QED BY <1>7, <3>1 DEF Steps
  <2>2. G[i] = [v \in Fills |-> FillStep(v, s[i], least, liking)]
    OBVIOUS
  <2> HIDE DEF G
  <2> QED BY <2>1, <2>2
<1>9. f = [i \in 0..N |-> f[i]] /\ f[0] = base
  <2> HIDE DEF G, base
  <2> QED BY <1>7 DEF Steps
<1> HIDE DEF G
<1>10. f = [i \in 0..N |-> IF i = 0 THEN base ELSE FillStep(f[i - 1], s[i], least, liking)]
  <2> HIDE DEF base
  <2>1. \A i \in 0..N : f[i] = IF i = 0 THEN base ELSE FillStep(f[i - 1], s[i], least, liking)
    <3> SUFFICES ASSUME NEW i \in 0..N
                 PROVE  f[i] = IF i = 0 THEN base ELSE FillStep(f[i - 1], s[i], least, liking)
      OBVIOUS
    <3>1. CASE i = 0
      BY <3>1, <1>9
    <3>2. CASE i # 0
      <4>1. i \in 1..N
        BY <1>1, <3>2
      <4> QED BY <3>2, <4>1, <1>8
    <3> QED BY <3>1, <3>2
  <2> QED BY <1>9, <2>1
<1>11. fill = [i \in 0..N |-> IF i = 0 THEN base ELSE FillStep(fill[i - 1], s[i], least, liking)]
  BY <1>10
<1> HIDE DEF fill
<1> DEFINE T == {i \in 0..N : Filled(fill[i], s, least, i)}
<1>12. 0 \in T
  <2>1. 0 \in 0..N
    BY <1>1
  <2>2. fill[0] = base
    <3> HIDE DEF base, N
    <3> QED BY <1>11, <2>1
  <2>3. /\ base.kept = <<>> /\ base.used = 0 /\ base.open = TRUE
        /\ Len(base.kept) = 0
    OBVIOUS
  <2>4. Total(Costs(base.kept, 0)) = 0
    <3>1. 0 \in Nat /\ Costs(base.kept, 0) \in [1..0 -> Int]
      BY DEF Costs
    <3> HIDE DEF base
    <3>2. PICK g : Sums(g, Costs(base.kept, 0), 0) /\ Total(Costs(base.kept, 0)) = g[0]
      BY <3>1, TotalSums
    <3> QED BY <3>2 DEF Sums, Adds
  <2> HIDE DEF base
  <2>5. Filled(base, s, least, 0)
    BY <1>2, <1>4, <2>3, <2>4 DEF Filled
  <2> QED BY <2>1, <2>2, <2>5
<1>13. ASSUME NEW i \in 1..N, i - 1 \in T PROVE i \in T
  <2>1. Filled(fill[i - 1], s, least, i - 1)
    BY <1>13
  <2>2. i \in 0..N /\ i \in 1..Len(s)
    BY <1>1
  <2>3. fill[i] = FillStep(fill[i - 1], s[i], least, liking)
    <3> HIDE DEF base, N
    <3> QED BY <1>11, <2>2, <1>1
  <2>4. Filled(FillStep(fill[i - 1], s[i], least, liking), s, least, i)
    BY <1>1, <1>2, <2>1, <2>2, FillStepFacts
  <2> HIDE DEF N
  <2> QED BY <2>2, <2>3, <2>4
<1>14. Filled(fill[N], s, least, N)
  <2>1. 0..N \subseteq T
    <3> HIDE DEF T, N
    <3> QED BY <1>1, <1>12, <1>13, Climbs
  <2>2. N \in 0..N
    BY <1>1
  <2> QED BY <2>1, <2>2
<1> DEFINE v == fill[N]
           t == BudgetFill(s, liking)
<1>15. t = v.kept /\ Filled(v, s, least, N)
  BY <1>3, <1>14
<1> HIDE DEF v, t
<1>16. /\ t \in Seq(Excerpts) /\ Len(t) <= N /\ Len(t) \in Nat /\ v.open \in BOOLEAN
       /\ \A j \in 1..Len(t) : Shortened(t[j], s[j])
       /\ Len(t) > least => Total(Costs(t, Len(t) - 1)) <= Budget
       /\ v.open => Len(t) = N
       /\ ~v.open => Len(t) >= least
  BY <1>15 DEF Filled, Fills
<1>17. Len(t) \in Least(s)..Len(s)
  BY <1>1, <1>2, <1>16
<1> QED BY <1>2, <1>16, <1>17 DEF t

\* t is what compression may make of the pool p: some of its chunks in their order, shortened, and
\* beyond the least number no more than the budget but for the last one.
Compressed(p, t) ==
    /\ t \in Seq(Excerpts)
    /\ \E o \in [1..Len(t) -> 1..Len(p)] :
         /\ \A m, n \in 1..Len(t) : m < n => o[m] < o[n]
         /\ \A n \in 1..Len(t) : Shortened(t[n], p[o[n]])
    /\ Len(t) >= Least(p)
    /\ Len(t) > MinChunks /\ t # p => Total(Costs(t, Len(t) - 1)) <= Budget

\* A selection of a selection.
LEMMA SelectsAgain ==
    ASSUME NEW r \in Lists, NEW s \in Lists, NEW t \in Lists, Selects(s, r), Selects(t, s)
    PROVE  Selects(t, r)
<1>1. PICK o \in [1..Len(s) -> 1..Len(r)] :
        /\ \A m, n \in 1..Len(s) : m < n => o[m] < o[n]
        /\ \A n \in 1..Len(s) : s[n] = r[o[n]]
  BY DEF Selects
<1>2. PICK q \in [1..Len(t) -> 1..Len(s)] :
        /\ \A m, n \in 1..Len(t) : m < n => q[m] < q[n]
        /\ \A n \in 1..Len(t) : t[n] = s[q[n]]
  BY DEF Selects
<1> DEFINE e == [n \in 1..Len(t) |-> o[q[n]]]
<1>3. e \in [1..Len(t) -> 1..Len(r)]
  BY <1>1, <1>2
<1>4. /\ \A m, n \in 1..Len(t) : m < n => e[m] < e[n]
      /\ \A n \in 1..Len(t) : t[n] = r[e[n]]
  BY <1>1, <1>2
<1> HIDE DEF e
<1> QED BY <1>3, <1>4 DEF Selects

\* A pool that is left alone.
LEMMA CompressedSelf ==
    ASSUME NEW p \in Lists
    PROVE  Compressed(p, p)
<1>1. /\ p \in Seq(Whole) /\ Len(p) \in Nat /\ MinChunks \in Nat
      /\ \A n \in 1..Len(p) : p[n] \in Whole
  BY LimitsAssumption DEF Lists
<1>2. \A n \in 1..Len(p) : p[n] \in Excerpts /\ Shortened(p[n], p[n])
  BY <1>1, WholeExcerpt
<1>3. p \in Seq(Excerpts)
  BY <1>1, <1>2
<1> DEFINE o == [n \in 1..Len(p) |-> n]
<1>4. o \in [1..Len(p) -> 1..Len(p)]
  OBVIOUS
<1>5. /\ \A m, n \in 1..Len(p) : m < n => o[m] < o[n]
      /\ \A n \in 1..Len(p) : Shortened(p[n], p[o[n]])
  BY <1>2
<1> HIDE DEF o
<1>6. Len(p) >= Least(p)
  BY <1>1 DEF Least
<1> QED BY <1>3, <1>4, <1>5, <1>6 DEF Compressed

\* compress_chunks.
LEMMA CompressFacts ==
    ASSUME NEW p \in Lists, NEW liking \in Likings
    PROVE  Compressed(p, Compress(p, liking))
<1> DEFINE s == RelevanceFloor(Dedupe(p))
           t == BudgetFill(s, liking)
<1>1. CASE p = <<>>
  <2>1. Compress(p, liking) = p
    BY <1>1 DEF Compress
  <2> QED BY <2>1, CompressedSelf
<1>2. CASE p # <<>>
  <2>1. Compress(p, liking) = t
    BY <1>2 DEF Compress
  <2>2. Dedupe(p) \in Lists /\ Selects(Dedupe(p), p) /\ Len(Dedupe(p)) >= Least(p)
    BY DedupeSelects
  <2>3. s \in Lists /\ Selects(s, Dedupe(p)) /\ Len(s) >= Least(Dedupe(p))
    BY <2>2, FloorSelects
  <2>4. Selects(s, p)
    BY <2>2, <2>3, SelectsAgain
  <2>5. /\ Len(p) \in Nat /\ Len(Dedupe(p)) \in Nat /\ Len(s) \in Nat /\ MinChunks \in Nat
    BY <2>2, <2>3, LimitsAssumption DEF Lists
  <2>6. Least(s) >= Least(p) /\ MinChunks >= Least(s) /\ Least(s) \in Nat /\ Least(p) \in Nat
    BY <2>2, <2>3, <2>5 DEF Least
  <2> HIDE DEF s
  <2>7. /\ t \in Seq(Excerpts) /\ Len(t) \in Least(s)..Len(s)
        /\ \A j \in 1..Len(t) : Shortened(t[j], s[j])
        /\ Len(t) > Least(s) => Total(Costs(t, Len(t) - 1)) <= Budget
    BY <2>3, BudgetFillFacts
  <2> HIDE DEF t
  <2>8. PICK o \in [1..Len(s) -> 1..Len(p)] :
          /\ \A m, n \in 1..Len(s) : m < n => o[m] < o[n]
          /\ \A n \in 1..Len(s) : s[n] = p[o[n]]
    BY <2>4 DEF Selects
  <2> DEFINE e == [n \in 1..Len(t) |-> o[n]]
  <2>9. Len(t) \in Nat /\ 1..Len(t) \subseteq 1..Len(s)
    BY <2>5, <2>6, <2>7
  <2>10. e \in [1..Len(t) -> 1..Len(p)]
    BY <2>8, <2>9
  <2>11. /\ \A m, n \in 1..Len(t) : m < n => e[m] < e[n]
         /\ \A n \in 1..Len(t) : Shortened(t[n], p[e[n]])
    BY <2>7, <2>8, <2>9
  <2> HIDE DEF e
  <2>12. Len(t) >= Least(p)
    BY <2>5, <2>6, <2>7
  <2>13. Len(t) > MinChunks => Len(t) > Least(s)
    BY <2>5, <2>6, <2>9
  <2> QED BY <2>1, <2>7, <2>10, <2>11, <2>12, <2>13 DEF Compressed
<1> QED BY <1>1, <1>2

\* What such a context has in common with the pool.
LEMMA CompressedEnough ==
    ASSUME pool \in Lists, Compressed(pool, context)
    PROVE  CompressionKeepsEnough
<1> DEFINE cost(s) == Total([i \in DOMAIN s |-> Cost(s[i])])
           part(c, d) == c.text \subseteq d.text /\ c = [d EXCEPT !.text = c.text]
<1>1. /\ pool \in Seq(Whole) /\ Len(pool) \in Nat /\ DOMAIN pool = 1..Len(pool)
      /\ MinChunks \in Nat
  BY LimitsAssumption DEF Lists
<1>2. PICK o \in [1..Len(context) -> 1..Len(pool)] :
        /\ \A m, n \in 1..Len(context) : m < n => o[m] < o[n]
        /\ \A n \in 1..Len(context) : Shortened(context[n], pool[o[n]])
  BY DEF Compressed
<1>3. /\ context \in Seq(Excerpts) /\ Len(context) \in Nat /\ DOMAIN context = 1..Len(context)
      /\ Len(context) >= Least(pool)
      /\ Len(context) > MinChunks /\ context # pool => Total(Costs(context, Len(context) - 1)) <= Budget
  BY DEF Compressed
<1>4. o \in [DOMAIN context -> DOMAIN pool]
  BY <1>1, <1>2, <1>3
<1>5. /\ \A i, j \in DOMAIN context : i < j => o[i] < o[j]
      /\ \A i \in DOMAIN context : part(context[i], pool[o[i]])
  BY <1>2, <1>3 DEF Shortened
<1>6. \A i \in DOMAIN context : context[i].text # {}
  BY <1>2, <1>3 DEF Shortened
<1>7. cost(context) <= cost(pool)
  <2> DEFINE x == [i \in DOMAIN context |-> Cost(context[i])]
             y == [i \in DOMAIN pool |-> Cost(pool[i])]
  <2>1. \A i \in 1..Len(context) : Cost(context[i]) \in Nat
    BY <1>3, CostType
  <2>2. \A i \in 1..Len(pool) : Cost(pool[i]) \in Nat
    <3>1. \A i \in 1..Len(pool) : pool[i] \in Whole
      BY <1>1
    <3> QED BY <3>1, WholeExcerpt, CostType
  <2>3. x \in [1..Len(context) -> Nat] /\ y \in [1..Len(pool) -> Nat]
    BY <1>1, <1>3, <2>1, <2>2
  <2>4. \A n \in 1..Len(context) : x[n] <= y[o[n]]
    BY <1>1, <1>2, <1>3 DEF Shortened
  <2> HIDE DEF x, y
  <2>5. Total(x) <= Total(y)
    BY <1>1, <1>2, <1>3, <2>3, <2>4, TotalOfPicked
  <2> QED BY <2>5 DEF x, y
<1>8. Len(context) > MinChunks => cost(Take(context, Len(context) - 1))
                                     = Total(Costs(context, Len(context) - 1))
  <2> SUFFICES ASSUME Len(context) > MinChunks
               PROVE  cost(Take(context, Len(context) - 1)) = Total(Costs(context, Len(context) - 1))
    OBVIOUS
  <2> DEFINE n == Len(context) - 1
             head == Take(context, n)
  <2>1. n \in Nat /\ n < Len(context)
    BY <1>1, <1>3
  <2>2. /\ head \in Seq(Excerpts) /\ Len(head) = n
        /\ \A i \in 1..Len(head) : head[i] = context[i]
    <3> HIDE DEF n
    <3> QED BY <1>3, <2>1, TakeFacts
  <2> HIDE DEF n, head
  <2>3. DOMAIN head = 1..n
    BY <2>1, <2>2
  <2>4. [i \in DOMAIN head |-> Cost(head[i])] = Costs(context, n)
    BY <2>2, <2>3 DEF Costs
  <2> QED BY <2>4 DEF n, head
<1> HIDE DEF cost
<1>9. Len(context) >= IF MinChunks < Len(pool) THEN MinChunks ELSE Len(pool)
  BY <1>3 DEF Least
<1>10. Len(context) > MinChunks /\ context # pool => cost(Take(context, Len(context) - 1)) <= Budget
  BY <1>3, <1>8
<1> HIDE DEF part
<1>11. \E rank \in [DOMAIN context -> DOMAIN pool] :
          /\ \A i, j \in DOMAIN context : i < j => rank[i] < rank[j]
          /\ \A i \in DOMAIN context : part(context[i], pool[rank[i]])
  BY <1>4, <1>5
<1> QED BY <1>6, <1>7, <1>9, <1>10, <1>11 DEF CompressionKeepsEnough, cost, part

-----------------------------------------------------------------------------
(* Types and pools *)

\* The chunks retrieved are whole, each listed once if they were fused or merged, and the prompt
\* shows what compression made of them.
PoolInv ==
    /\ TypeOK
    /\ pool \in Lists
    /\ flags.hybrid \/ flags.rewrite => Once(pool)
    /\ phase = "generate" => Compressed(pool, context)

\* A rewrite's result.
LEMMA RewriteType ==
    ASSUME NEW r \in RewriteResults
    PROVE  r.variants \in 0..MaxVariants
<1>1. MaxVariants \in Nat
  BY WidthsAssumption
<1> DEFINE failed == [done |-> TRUE, failed |-> TRUE, variants |-> 0]
<1>2. r = failed \/ r \in [done : {TRUE}, failed : {FALSE}, variants : 0..MaxVariants]
  BY DEF RewriteResults
<1>3. failed.variants = 0
  OBVIOUS
<1> HIDE DEF failed
<1>4. CASE r = failed
  BY <1>1, <1>3, <1>4
<1>5. CASE r \in [done : {TRUE}, failed : {FALSE}, variants : 0..MaxVariants]
  BY <1>5
<1> QED BY <1>2, <1>4, <1>5

\* What a query gathers knows whether it lost its dense half.
LEMMA GatheredLost ==
    ASSUME NEW g \in Gathered
    PROVE  g.lost \in BOOLEAN
<1>1. CASE flags.hybrid
  <2>1. PICK dense \in DenseHalves, lexical \in Lexical, hydrated \in SUBSET Chunks :
               g = Fuse(dense, lexical, hydrated)
    BY <1>1 DEF Gathered, Hybrid
  <2> DEFINE finds == {MergeTopK(s, DenseTopK) : s \in Searches}
             failed == [found |-> <<>>, lost |-> TRUE]
  <2>2. dense \in [found : finds, lost : {FALSE}] \/ dense = failed
    BY DEF DenseHalves
  <2>3. failed.lost = TRUE
    OBVIOUS
  <2> HIDE DEF finds, failed
  <2>4. dense.lost \in BOOLEAN
    BY <2>2, <2>3
  <2> QED BY <2>1, <2>4 DEF Fuse
<1>2. CASE ~ flags.hybrid
  <2> DEFINE k == IF flags.rerank THEN CandidateK ELSE K
  <2>1. PICK s \in Searches : g = [pool |-> MergeTopK(s, k), lost |-> FALSE]
    BY <1>2 DEF Gathered, Dense
  <2> QED BY <2>1
<1> QED BY <1>1, <1>2

\* The chunks of a pool, and of what compression makes of it.
LEMMA IdsFacts ==
    /\ \A p \in Lists : Ids(p) \subseteq Chunks
    /\ \A p, t : Compressed(p, t) => Ids(t) \subseteq Chunks
<1>1. ASSUME NEW p \in Lists PROVE Ids(p) \subseteq Chunks
  <2>1. \A i \in DOMAIN p : p[i].id \in Chunks
    BY WholeFacts DEF Lists
  <2> QED BY <2>1 DEF Ids
<1>2. ASSUME NEW p, NEW t, Compressed(p, t) PROVE Ids(t) \subseteq Chunks
  <2>1. t \in Seq(Excerpts)
    BY <1>2 DEF Compressed
  <2>2. \A i \in DOMAIN t : t[i] \in Excerpts
    BY <2>1
  <2>3. \A i \in DOMAIN t : t[i].id \in Chunks
    BY <2>2 DEF Excerpts
  <2> QED BY <2>3 DEF Ids
<1> QED BY <1>1, <1>2

\* Retrieval ends with a pool.
LEMMA RetrievePool ==
    ASSUME PoolInv, Retrieve
    PROVE  /\ pool' \in Lists /\ (flags.hybrid \/ flags.rewrite => Once(pool'))
           /\ rewrite'.variants \in 0..MaxVariants /\ rewrites' \in Nat
           /\ flag' \in BOOLEAN /\ lost' \in BOOLEAN
<1>1. /\ rewrite.variants \in 0..MaxVariants /\ rewrites \in Nat /\ flag \in BOOLEAN
      /\ MaxVariants \in Nat
  BY WidthsAssumption DEF PoolInv, TypeOK
<1>2. CASE ~flags.rewrite
  <2>1. PICK g \in Gathered : /\ flag' = (flags.hybrid /\ g.lost)
                              /\ lost' = g.lost
                              /\ pool' \in Finish(g.pool)
    BY <1>2 DEF Retrieve
  <2>2. pool' \in Lists /\ (flags.hybrid => Once(pool'))
    BY <2>1, GatheredPool, FinishPool
  <2>3. lost' \in BOOLEAN /\ flag' \in BOOLEAN
    BY <2>1, GatheredLost
  <2>4. UNCHANGED <<rewrite, rewrites>>
    BY <1>2 DEF Retrieve
  <2> QED BY <1>1, <1>2, <2>2, <2>3, <2>4
<1>3. CASE flags.rewrite
  <2>1. /\ rewrite'.variants \in 0..MaxVariants /\ rewrites' \in Nat
    <3>1. CASE rewrite.done
      BY <1>1, <1>3, <3>1 DEF Retrieve
    <3>2. CASE ~rewrite.done
      BY <1>1, <1>3, <3>2, RewriteType DEF Retrieve
    <3> QED BY <3>1, <3>2
  <2> DEFINE m == rewrite'.variants
             pools(gs) == [n \in 1..(m + 1) |-> gs[n - 1].pool]
  <2>2. PICK gs \in [0..m -> Gathered] :
          /\ lost' = \A v \in DOMAIN gs : gs[v].lost
          /\ pool' \in Finish(RrfMerge(pools(gs)))
    BY <1>3 DEF Retrieve
  <2>3. lost' \in BOOLEAN
    BY <2>2
  <2>4. UNCHANGED flag
    BY <1>3 DEF Retrieve
  <2>5. m \in Nat /\ m + 1 \in Nat \ {0}
    BY <1>1, <2>1
  <2> HIDE DEF m
  <2>6. \A n \in 1..(m + 1) : gs[n - 1].pool \in Lists
    <3>1. \A n \in 1..(m + 1) : gs[n - 1] \in Gathered
      BY <2>5
    <3> QED BY <3>1, GatheredPool
  <2>7. pools(gs) \in [1..(m + 1) -> Lists]
    BY <2>6
  <2> HIDE DEF pools
  <2>8. pool' \in Lists /\ Once(pool')
    BY <2>2, <2>5, <2>7, MergedPool, FinishPool
  <2> QED BY <1>1, <2>1, <2>3, <2>4, <2>8
<1> QED BY <1>2, <1>3

\* A request starts with nothing retrieved.
LEMMA PoolInit == Init => PoolInv
<1> SUFFICES ASSUME Init PROVE PoolInv
  OBVIOUS
<1>1. flags \in FlagSets /\ phase \in {"lookup", "search"} /\ pool = <<>> /\ context = <<>>
      /\ rewrite = NoRewrite /\ rewrites = 0 /\ tries = 0 /\ tokens = <<>> /\ verdict = None
      /\ vector = FALSE /\ flag = FALSE /\ degraded = FALSE /\ lost = FALSE /\ cached = FALSE
  BY DEF Init
<1>2. MaxVariants \in Nat /\ MaxRetries \in Nat /\ MaxTokens \in Nat
  BY WidthsAssumption, RetriesAssumption
<1>3. rewrite.variants \in 0..MaxVariants /\ tries \in 0..MaxRetries /\ Len(tokens) <= MaxTokens
  BY <1>1, <1>2 DEF NoRewrite
<1>4. Ids(pool) \cup Ids(context) \subseteq Chunks
  BY <1>1 DEF Ids
<1>5. TypeOK
  BY <1>1, <1>3, <1>4 DEF TypeOK, Stopped
<1> QED BY <1>1, <1>5, EmptyList DEF PoolInv

\* Every step keeps the pool a pool, and the context what compression made of it.
LEMMA PoolStep ==
    ASSUME PoolInv, TokensInv, [Next]_vars
    PROVE  PoolInv'
<1> USE DEF PoolInv
<1>1. TypeOK /\ pool \in Lists
  OBVIOUS
<1>2. ASSUME UNCHANGED <<flags, pool, context>>, TypeOK', phase' # "generate" \/ phase = "generate"
      PROVE  PoolInv'
  BY <1>2
<1>3. MaxRetries \in Nat /\ MaxTokens \in Nat /\ MaxVariants \in Nat
  BY WidthsAssumption, RetriesAssumption
<1>4. CASE UNCHANGED vars
  BY <1>4 DEF vars, TypeOK
<1>5. CASE LookupExact
  <2>1. rewrite'.variants \in 0..MaxVariants /\ rewrites' \in Nat
    <3>1. CASE flags.rewrite
      BY <1>5, <3>1, <1>1, RewriteType DEF LookupExact, TypeOK
    <3>2. CASE ~flags.rewrite
      BY <1>5, <3>2, <1>1 DEF LookupExact, TypeOK
    <3> QED BY <3>1, <3>2
  <2>2. TypeOK'
    BY <1>1, <1>5, <2>1 DEF LookupExact, TypeOK
  <2> QED BY <1>2, <1>5, <2>2 DEF LookupExact
<1>6. CASE LookupSemantic
  <2>1. TypeOK'
    BY <1>1, <1>6 DEF LookupSemantic, TypeOK, Stopped
  <2> QED BY <1>2, <1>6, <2>1 DEF LookupSemantic
<1>7. CASE Replay
  <2>1. TypeOK'
    BY <1>1, <1>7 DEF Replay, TypeOK, Stopped
  <2> QED BY <1>2, <1>7, <2>1 DEF Replay
<1>8. CASE Retrieve
  <2>1. /\ pool' \in Lists /\ (flags.hybrid \/ flags.rewrite => Once(pool'))
        /\ rewrite'.variants \in 0..MaxVariants /\ rewrites' \in Nat
        /\ flag' \in BOOLEAN /\ lost' \in BOOLEAN
    BY <1>8, RetrievePool
  <2>2. Ids(pool') \cup Ids(context') \subseteq Chunks
    BY <1>1, <1>8, <2>1, IdsFacts DEF Retrieve, TypeOK
  <2>3. phase' = "read" /\ tries' = 0
        /\ UNCHANGED <<flags, vector, degraded, context, tokens, verdict, cached>>
    BY <1>8 DEF Retrieve
  <2>4. TypeOK'
    BY <1>1, <1>3, <2>1, <2>2, <2>3 DEF TypeOK
  <2> QED BY <2>1, <2>3, <2>4
<1>9. CASE RetrieveFails
  <2>1. rewrites' \in Nat
    BY <1>1, <1>9 DEF RetrieveFails, TypeOK
  <2>2. tries' \in 0..MaxRetries
    BY <1>1, <1>3, <1>9 DEF RetrieveFails, TypeOK
  <2>3. phase' \in {phase, "error"}
    BY <1>9 DEF RetrieveFails, SendError
  <2>4. TypeOK'
    BY <1>1, <1>9, <2>1, <2>2, <2>3 DEF RetrieveFails, TypeOK, Stopped
  <2> QED BY <1>2, <1>9, <2>3, <2>4 DEF RetrieveFails
<1>10. CASE ReadSignals
  <2>1. phase' \in {"done", "compress"} /\ verdict' \in {verdict, "refused"}
    BY <1>10 DEF ReadSignals
  <2>2. TypeOK'
    BY <1>1, <1>10, <2>1 DEF ReadSignals, TypeOK, Stopped
  <2> QED BY <1>2, <1>10, <2>1, <2>2 DEF ReadSignals
<1>11. CASE CompressChunks
  <2>1. Compressed(pool, context')
    <3>1. context' = pool \/ \E liking \in Likings : context' = Compress(pool, liking)
      BY <1>11 DEF CompressChunks
    <3> QED BY <1>1, <3>1, CompressFacts, CompressedSelf
  <2>2. Ids(pool') \cup Ids(context') \subseteq Chunks
    BY <1>1, <1>11, <2>1, IdsFacts DEF CompressChunks
  <2>3. TypeOK'
    BY <1>1, <1>11, <2>2 DEF CompressChunks, TypeOK
  <2>4. UNCHANGED <<flags, pool>>
    BY <1>11 DEF CompressChunks
  <2> QED BY <1>1, <2>1, <2>3, <2>4
<1>12. CASE Token
  <2>1. Len(tokens') <= MaxTokens
    BY <1>1, <1>3, <1>12 DEF Token, TokensInv
  <2>2. TypeOK'
    BY <1>1, <1>12, <2>1 DEF Token, TypeOK
  <2> QED BY <1>2, <1>12, <2>2 DEF Token
<1>13. CASE GenerateRetries
  <2>1. tries' \in 0..MaxRetries
    BY <1>1, <1>3, <1>13 DEF GenerateRetries, TypeOK
  <2>2. TypeOK'
    BY <1>1, <1>13, <2>1 DEF GenerateRetries, TypeOK
  <2> QED BY <1>2, <1>13, <2>2 DEF GenerateRetries
<1>14. CASE GenerateFails
  <2>1. TypeOK'
    BY <1>1, <1>14 DEF GenerateFails, SendError, TypeOK, Stopped
  <2> QED BY <1>2, <1>14, <2>1 DEF GenerateFails, SendError
<1>15. CASE Cite
  <2>1. phase' \in {"answer", "raised"} /\ verdict' \in {verdict, "answered", "refused"}
    BY <1>15 DEF Cite
  <2>2. TypeOK'
    BY <1>1, <1>15, <2>1 DEF Cite, TypeOK, Stopped
  <2> QED BY <1>2, <1>15, <2>1, <2>2 DEF Cite
<1>16. CASE Answer
  <2>1. TypeOK'
    BY <1>1, <1>16 DEF Answer, TypeOK
  <2> QED BY <1>2, <1>16, <2>1 DEF Answer
<1>17. CASE ScheduleWrite
  <2>1. cached' \in BOOLEAN
    BY <1>17 DEF ScheduleWrite
  <2>2. TypeOK'
    BY <1>1, <1>17, <2>1 DEF ScheduleWrite, TypeOK, Stopped
  <2> QED BY <1>2, <1>17, <2>2 DEF ScheduleWrite
<1>18. CASE Close
  <2>1. TypeOK'
    BY <1>1, <1>18 DEF Close, TypeOK, Stopped
  <2> QED BY <1>2, <1>18, <2>1 DEF Close
<1> QED BY <1>4, <1>5, <1>6, <1>7, <1>8, <1>9, <1>10, <1>11, <1>12, <1>13, <1>14, <1>15, <1>16,
           <1>17, <1>18 DEF Next

-----------------------------------------------------------------------------
(* The theorems *)

\* A request starts with its first stage open.
LEMMA PipelineInit == Init => PipelineInv
<1> SUFFICES ASSUME Init PROVE PipelineInv
  OBVIOUS
<1>1. /\ phase \in {"lookup", "search"} /\ tokens = <<>> /\ tries = 0 /\ verdict = None
      /\ lost = FALSE /\ cached = FALSE
  BY DEF Init
<1>2. TokensInv /\ AnswerInv /\ DegradedInv /\ MarkersNameTheirChunk /\ CleanWrites
  BY <1>1 DEF TokensInv, AnswerInv, DegradedInv, MarkersNameTheirChunk, CleanWrites, None, Stopped
<1>3. CASE flags.cache
  <2>1. phase = "lookup" /\ sent = <<<<"cache_lookup", "started">>>>
    BY <1>3 DEF Init
  <2>2. sent[Len(sent)] # <<"done">>
    BY <2>1
  <2>3. Trail(sent, {"cache_lookup"}, {"cache_lookup"})
    BY <2>1, LookupOpens
  <2> QED BY <1>2, <2>1, <2>2, <2>3, TrailPairs, PairsOfSent DEF PipelineInv, TrailInv
<1>4. CASE ~flags.cache
  <2> DEFINE a == <<"rewriting", IF flags.rewrite THEN "started" ELSE "skipped">>
             b == <<"searching", "started">>
             t == Append(Append(<<>>, a), b)
  <2>1. phase = "search" /\ sent = <<a, b>>
    BY <1>4 DEF Init
  <2>2. sent = t
    BY <2>1
  <2>3. Trail(t, Searching(flags.rewrite), {"cache_lookup", "rewriting", "searching"})
        /\ t[Len(t)] # <<"done">>
    BY LookupOpens, SearchOpens
  <2> HIDE DEF t
  <2> QED BY <1>2, <2>1, <2>2, <2>3, TrailPairs, PairsOfSent DEF PipelineInv, TrailInv
<1> QED BY <1>3, <1>4

\* Every step keeps the invariant.
LEMMA PipelineStep == PipelineInv /\ [Next]_vars => PipelineInv'
BY TrailStep, TokensStep, AnswerStep, DegradedStep, MarkersStep, CleanStep DEF PipelineInv

\* The inductive invariant holds of every request.
LEMMA PipelineInvariant == Spec => []PipelineInv
BY PipelineInit, PipelineStep, PTL DEF Spec

\* The client never sees a token twice: a generation that is retried starts over only while none of
\* its tokens was sent (`_stream_chain_with_retry`).
THEOREM OneAttempt == Spec => []OneAttemptIsSent
<1>1. PipelineInv => OneAttemptIsSent
  <2> SUFFICES ASSUME TokensInv, NEW n \in DOMAIN tokens PROVE tokens[n] = <<tokens[1][1], n>>
    BY DEF PipelineInv, OneAttemptIsSent
  <2>1. 1 \in DOMAIN tokens
    BY DEF TokensInv
  <2> QED BY <2>1 DEF TokensInv
<1> QED BY <1>1, PipelineInvariant, PTL

\* A marker of an answer names the chunk the prompt showed under that number, whatever was
\* retrieved, compressed or removed from PostgreSQL (`parse_citations`).
THEOREM Markers == Spec => []MarkersNameTheirChunk
<1>1. PipelineInv => MarkersNameTheirChunk
  BY DEF PipelineInv
<1> QED BY <1>1, PipelineInvariant, PTL

\* No stage is opened twice, and a finished answer closes every stage it opened, under every
\* combination of the toggles (the frames `mergeStage` merges by name).
THEOREM Paired == Spec => []StagesPair
<1>1. PipelineInv => StagesPair
  BY DEF PipelineInv
<1> QED BY <1>1, PipelineInvariant, PTL

\* Only an answer that was cited and finished is cached, and no answer of a retrieval that fell back
\* to BM25 unless a rewrite hid it (the guards before `_schedule_cache_write`).
THEOREM Clean == Spec => []CleanWrites
<1>1. PipelineInv => CleanWrites
  BY DEF PipelineInv
<1> QED BY <1>1, PipelineInvariant, PTL

\* The chunks of a request are typed and pooled throughout.
LEMMA PoolInvariant == Spec => []PoolInv
<1>1. PipelineInv => TokensInv
  BY DEF PipelineInv
<1>2. PoolInv /\ TokensInv /\ [Next]_vars => PoolInv'
  BY PoolStep
<1> QED BY <1>1, <1>2, PoolInit, PipelineInvariant, PTL DEF Spec

\* Every variable keeps its type: what is retrieved and what the prompt shows are chunks, and the
\* rewrites, retries and tokens stay within their limits.
THEOREM PipelineTyped == Spec => []TypeOK
<1>1. PoolInv => TypeOK
  BY DEF PoolInv
<1> QED BY <1>1, PoolInvariant, PTL

\* A retrieval that fused BM25 with the dense finds, or merged a fan-out, names no chunk twice,
\* whatever the namespaces hold and however much of it is hydrated or lost (`rrf_fuse`, `rrf_merge`,
\* `rerank_chunks`).  Dense retrieval alone may: `_merge_top_k` keeps the copies of two namespaces.
THEOREM PooledOnce == Spec => [](flags.hybrid \/ flags.rewrite => Once(pool))
<1>1. PoolInv => (flags.hybrid \/ flags.rewrite => Once(pool))
  BY DEF PoolInv
<1> QED BY <1>1, PoolInvariant, PTL

\* Whatever was retrieved, compression keeps rerank order and the minimum of chunks, empties no text,
\* makes no prompt longer, and is within the budget but for the minimum and one last chunk
\* (`compress_chunks`).
THEOREM EnoughKept == Spec => []CompressionKeepsEnough
<1>1. PoolInv => CompressionKeepsEnough
  <2> SUFFICES ASSUME PoolInv, phase = "generate" PROVE CompressionKeepsEnough
    BY DEF CompressionKeepsEnough
  <2> QED BY CompressedEnough DEF PoolInv
<1> QED BY <1>1, PoolInvariant, PTL

=============================================================================
