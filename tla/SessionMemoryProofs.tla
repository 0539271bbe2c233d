------------------------- MODULE SessionMemoryProofs -------------------------
(***************************************************************************)
(* What holds of SessionMemory for any number of turns, any history and    *)
(* any settings of the window and of the budget.                           *)
(***************************************************************************)
EXTENDS SessionMemory, FiniteSetTheorems, SequenceTheorems, TLAPS

-----------------------------------------------------------------------------
(* The inductive invariant *)

\* The phases in which a turn's question is inserted and not yet committed, those in which it is
\* committed, and those in which it may be.
Inserted == {"counting", "loading", "folding", "committing"}
Committed == {"streaming", "behind", "waiting", "answered"}
Perhaps == Committed \cup {"broken", "unsaved", "lost"}

\* No two messages have the time of one transaction, nor will have.
TimesInv ==
    /\ \A m, n \in Messages : m # n /\ at[m] = at[n] => at[m] = 0
    /\ \A m \in stored : at[m] > 0
    /\ \A t \in Turns, m \in Messages : began[t] > 0 /\ at[m] = began[t] => m = Question(t)
    /\ \A t, u \in Turns : t # u /\ began[t] = began[u] => began[t] = 0

\* seq folds messages of S, each once, none of which is later than the boundary.
Sound(times, seq, boundary, S) ==
    /\ boundary = None => seq = <<>>
    /\ boundary # None => boundary \in S
    /\ \A i \in 1..Len(seq) : seq[i] \in S /\ times[seq[i]] <= times[boundary]
    /\ \A i, j \in 1..Len(seq) : i # j => seq[i] # seq[j]

\* rows are messages of S past the boundary, in order.
Pending(times, rows, boundary, S) ==
    /\ rows # <<>>
    /\ \A i \in 1..Len(rows) : rows[i] \in S /\ (boundary # None => times[boundary] < times[rows[i]])
    /\ \A i, j \in 1..Len(rows) : i < j => times[rows[i]] < times[rows[j]]

\* Where the messages of a turn are.
StoredInv(t) ==
    /\ pc[t] = "idle" \/ began[t] > 0
    /\ pc[t] \in Inserted => at[Question(t)] > 0
    /\ Question(t) \in stored => pc[t] \in Perhaps
    /\ pc[t] \in Committed => Question(t) \in stored
    /\ Answer(t) \in stored => pc[t] = "answered"
    /\ pc[t] \in {"waiting", "answered"} => at[Question(t)] < at[Answer(t)]

\* Its copy of the summary may cover its own question from the fold to the commit.
Foldable(t) == stored \cup (IF pc[t] = "committing" THEN {Question(t)} ELSE {})
CopyInv(t) == Sound(at, view[t].summary, view[t].upto, Foldable(t))
BatchInv(t) == pc[t] = "folding" => Pending(at, batch[t], view[t].upto, Visible(t))

TurnInv(t) == StoredInv(t) /\ CopyInv(t) /\ BatchInv(t)

IInv ==
    /\ TypeOK /\ LockHeldByRunningTurn
    /\ IsFiniteSet(stored) /\ TokensExact
    /\ TimesInv
    /\ Sound(at, row.summary, row.upto, stored)
    /\ \A t \in Turns : TurnInv(t)

-----------------------------------------------------------------------------
(* Messages and summaries *)

LEMMA MessagesDiffer ==
    ASSUME NEW t \in Turns
    PROVE  /\ Question(t) \in Messages \ Past /\ Answer(t) \in Messages \ Past
           /\ \A u \in Turns : Question(t) # Answer(u)
           /\ \A u \in Turns : t # u => Question(t) # Question(u) /\ Answer(t) # Answer(u)
           /\ None \notin Messages
BY ConstantsAssumption DEF Messages, Past, Question, Answer

\* What is sound stays so while the table grows and the times of its messages stand.
LEMMA SoundStands ==
    ASSUME NEW f, NEW g, NEW seq, NEW boundary, NEW S, NEW T, S \subseteq T,
           \A m \in S : g[m] = f[m], Sound(f, seq, boundary, S)
    PROVE  Sound(g, seq, boundary, T)
<1>1. CASE boundary = None
  <2>1. seq = <<>> /\ Len(seq) = 0
    BY <1>1 DEF Sound
  <2> QED BY <1>1, <2>1 DEF Sound
<1>2. CASE boundary # None
  BY <1>2 DEF Sound
<1> QED BY <1>1, <1>2

LEMMA EmptySound == ASSUME NEW f, NEW S PROVE Sound(f, <<>>, None, S)
<1>1. Len(<<>>) = 0
  OBVIOUS
<1> QED BY <1>1 DEF Sound

LEMMA PendingStands ==
    ASSUME NEW f, NEW g, NEW rows, NEW boundary, NEW S, NEW T, S \subseteq T,
           \A m \in S : g[m] = f[m], boundary = None \/ boundary \in S, Pending(f, rows, boundary, S)
    PROVE  Pending(g, rows, boundary, T)
BY DEF Pending

\* Folding what is pending gives a sound summary up to the last message folded.
LEMMA FoldSound ==
    ASSUME NEW f \in [Messages -> Nat], NEW seq \in Seq(Messages), NEW rows \in Seq(Messages),
           NEW boundary, NEW S \in SUBSET Messages, NEW T, T \subseteq S,
           Sound(f, seq, boundary, T), Pending(f, rows, boundary, S)
    PROVE  Sound(f, seq \o rows, Last(rows), S) /\ Last(rows) \in S
<1> DEFINE n == Len(seq)
           k == Len(rows)
           last == rows[k]
           new == seq \o rows
<1>1. n \in Nat /\ k \in Nat \ {0}
  BY EmptySeq DEF Pending
<1>2. Last(rows) = last /\ last \in S /\ last # None
  BY <1>1, ConstantsAssumption DEF Last, Pending, Messages
<1>3. /\ Len(new) = n + k
      /\ \A i \in 1..n : new[i] = seq[i]
      /\ \A i \in 1..k : new[n + i] = rows[i]
  BY <1>1, ConcatProperties
<1>4. \A i \in 1..k : rows[i] \in S /\ f[rows[i]] <= f[last]
  BY <1>1 DEF Pending
<1>5. ASSUME NEW i \in 1..n, NEW j \in 1..k PROVE seq[i] \in S /\ f[seq[i]] < f[rows[j]]
  <2>1. boundary # None /\ boundary \in T
    BY <1>1, <1>5 DEF Sound
  <2>2. f[seq[i]] <= f[boundary] /\ f[boundary] < f[rows[j]] /\ seq[i] \in T
    BY <2>1 DEF Sound, Pending
  <2>3. f[seq[i]] \in Nat /\ f[boundary] \in Nat /\ f[rows[j]] \in Nat
    BY <1>4, <2>1, <2>2
  <2> QED BY <2>2, <2>3
<1> HIDE DEF n, k, last, new
<1>6. \A i \in 1..(n + k) : (i \in 1..n) \/ (\E j \in 1..k : i = n + j)
  <2> TAKE i \in 1..(n + k)
  <2>1. CASE i > n
    <3>1. i - n \in 1..k /\ i = n + (i - n)
      BY <1>1, <2>1
    <3> QED BY <3>1
  <2>2. CASE i <= n
    BY <1>1, <2>2
  <2> QED BY <1>1, <2>1, <2>2
<1>7. ASSUME NEW i \in 1..(n + k) PROVE new[i] \in S /\ f[new[i]] <= f[last]
  <2>1. CASE i \in 1..n
    <3>1. k \in 1..k
      BY <1>1
    <3>2. f[seq[i]] < f[rows[k]] /\ seq[i] \in S /\ rows[k] = last
      BY <1>5, <2>1, <3>1 DEF last
    <3> QED BY <1>2, <1>3, <2>1, <3>2
  <2>2. ASSUME NEW j \in 1..k, i = n + j PROVE new[i] \in S /\ f[new[i]] <= f[last]
    BY <1>3, <1>4, <2>2
  <2> QED BY <1>6, <2>1, <2>2
<1>8. \A i, j \in 1..n : i # j => seq[i] # seq[j]
  BY DEF Sound, n
<1>9. \A i, j \in 1..k : i # j => rows[i] # rows[j]
  <2> SUFFICES ASSUME NEW i \in 1..k, NEW j \in 1..k, i # j, rows[i] = rows[j] PROVE FALSE
    OBVIOUS
  <2>1. i < j \/ j < i
    BY <1>1
  <2>2. f[rows[i]] < f[rows[i]]
    BY <2>1 DEF Pending, k
  <2>3. f[rows[i]] \in Nat
    BY <1>4
  <2> QED BY <2>2, <2>3
<1>10. ASSUME NEW i \in 1..(n + k), NEW j \in 1..(n + k), i # j PROVE new[i] # new[j]
  <2>1. CASE i \in 1..n /\ j \in 1..n
    BY <1>3, <1>8, <1>10, <2>1
  <2>2. ASSUME NEW a \in 1..k, NEW b \in 1..k, i = n + a, j = n + b PROVE new[i] # new[j]
    BY <1>3, <1>9, <1>10, <2>2
  <2>3. ASSUME NEW a \in 1..n, NEW b \in 1..k PROVE new[a] # new[n + b]
    <3>1. f[seq[a]] < f[rows[b]] /\ f[seq[a]] \in Nat
      BY <1>5
    <3> QED BY <1>3, <3>1
  <2> QED BY <1>6, <2>1, <2>2, <2>3
<1> QED BY <1>2, <1>3, <1>7, <1>10 DEF Sound, new

-----------------------------------------------------------------------------
(* The rows in order *)

\* A function on an initial segment is a sequence.
LEMMA FunctionIsSeq ==
    ASSUME NEW n \in Nat, NEW S, NEW s \in [1..n -> S]
    PROVE  s \in Seq(S) /\ Len(s) = n
OBVIOUS

\* The messages of S that are not later than x.
Upto(f, S, x) == {y \in S : f[y] <= f[x]}

\* s lists S by the times f.
Lists(f, S, s) ==
    /\ Cardinality(S) \in Nat /\ s \in Seq(S) /\ Len(s) = Cardinality(S)
    /\ \A i, j \in 1..Len(s) : i < j => f[s[i]] < f[s[j]]
    /\ \A x \in S : \E i \in 1..Len(s) : s[i] = x

\* A set whose elements differ in f.
Distinct(f, S) ==
    /\ IsFiniteSet(S)
    /\ \A x \in S : f[x] \in Nat
    /\ \A x, y \in S : f[x] = f[y] => x = y

\* s has every element of S at its rank.
Ranked(f, S, s) ==
    /\ (\A i \in 1..Cardinality(S) : s[i] \in S) => s \in [1..Cardinality(S) -> S]
    /\ \A i \in 1..Cardinality(S) :
        (\E x \in S : Cardinality(Upto(f, S, x)) = i) =>
            s[i] \in S /\ Cardinality(Upto(f, S, s[i])) = i

\* The rank of an element of a list is its place.
LEMMA PlaceIsRank ==
    ASSUME NEW f, NEW S, Distinct(f, S), NEW s, Lists(f, S, s), NEW i \in 1..Len(s)
    PROVE  Cardinality(Upto(f, S, s[i])) = i
<1>1. /\ Len(s) \in Nat /\ i \in Nat /\ s \in Seq(S)
      /\ \A j \in 1..Len(s) : s[j] \in S /\ f[s[j]] \in Nat
  BY DEF Lists, Distinct
<1>2. \A j \in 1..Len(s) : f[s[j]] <= f[s[i]] <=> j <= i
  <2> TAKE j \in 1..Len(s)
  <2>1. j < i => f[s[j]] < f[s[i]]
    BY DEF Lists
  <2>2. i < j => f[s[i]] < f[s[j]]
    BY DEF Lists
  <2> QED BY <1>1, <2>1, <2>2
<1> DEFINE U == Upto(f, S, s[i])
           g == [j \in 1..i |-> s[j]]
<1>3. \A j \in 1..i : j \in 1..Len(s)
  BY <1>1
<1>4. \A j \in 1..i : g[j] \in U
  BY <1>1, <1>2, <1>3 DEF Upto
<1>5. \A x \in U : \E j \in 1..i : g[j] = x
  <2> TAKE x \in U
  <2>1. PICK j \in 1..Len(s) : s[j] = x
    BY DEF Upto, Lists
  <2>2. j \in 1..i
    BY <1>1, <1>2, <2>1 DEF Upto
  <2> QED BY <2>1, <2>2
<1>6. \A j, k \in 1..i : g[j] = g[k] => j = k
  <2> SUFFICES ASSUME NEW j \in 1..i, NEW k \in 1..i, s[j] = s[k] PROVE j = k
    OBVIOUS
  <2>1. ~ j < k /\ ~ k < j
    BY <1>1, <1>3 DEF Lists
  <2> QED BY <1>1, <2>1
<1> HIDE DEF U
<1>7. g \in Bijection(1..i, U)
  BY <1>4, <1>5, <1>6 DEF Bijection, Injection, Surjection, IsInjective
<1>8. IsFiniteSet(1..i) /\ Cardinality(1..i) = i
  BY <1>1, FS_Interval
<1>9. Cardinality(U) = Cardinality(1..i)
  BY <1>7, <1>8, FS_Bijection DEF ExistsBijection
<1> QED BY <1>8, <1>9 DEF U

\* There is one list.
LEMMA OneList ==
    ASSUME NEW f, NEW S, Distinct(f, S), NEW s, Lists(f, S, s), NEW r, Lists(f, S, r)
    PROVE  r = s
<1>1. /\ Len(s) = Len(r) /\ Len(s) \in Nat /\ s \in Seq(S) /\ r \in Seq(S)
  BY DEF Lists
<1>2. \A i \in 1..Len(s) : r[i] = s[i]
  <2> TAKE i \in 1..Len(s)
  <2>1. PICK j \in 1..Len(s) : s[j] = r[i]
    BY <1>1 DEF Lists
  <2>2. Cardinality(Upto(f, S, r[i])) = i /\ Cardinality(Upto(f, S, s[j])) = j
    BY <1>1, PlaceIsRank
  <2> QED BY <2>1, <2>2
<1> QED BY <1>1, <1>2

\* The query lists the rows it reads.
LEMMA QueryLists ==
    ASSUME NEW f, NEW S, Distinct(f, S), NEW s, Ranked(f, S, s)
    PROVE  Lists(f, S, s)
<1> DEFINE N == Cardinality(S)
           rank == [x \in S |-> Cardinality(Upto(f, S, x))]
<1>1. N \in Nat
  BY FS_CardinalityType DEF Distinct
<1>2. ASSUME NEW x \in S
      PROVE  IsFiniteSet(Upto(f, S, x)) /\ Cardinality(Upto(f, S, x)) \in 1..N
  <2>1. Upto(f, S, x) \subseteq S /\ x \in Upto(f, S, x)
    BY DEF Upto, Distinct
  <2>2. IsFiniteSet(Upto(f, S, x)) /\ Cardinality(Upto(f, S, x)) <= N
    BY <2>1, FS_Subset DEF Distinct
  <2>3. Cardinality(Upto(f, S, x)) \in Nat /\ Cardinality(Upto(f, S, x)) # 0
    BY <2>1, <2>2, FS_CardinalityType, FS_EmptySet
  <2> QED BY <1>1, <2>2, <2>3
<1>3. ASSUME NEW x \in S, NEW y \in S, f[x] < f[y]
      PROVE  Cardinality(Upto(f, S, x)) < Cardinality(Upto(f, S, y))
  <2>1. Upto(f, S, x) \subseteq Upto(f, S, y) /\ y \notin Upto(f, S, x) /\ y \in Upto(f, S, y)
    BY <1>3 DEF Upto, Distinct
  <2>2. /\ Cardinality(Upto(f, S, x)) <= Cardinality(Upto(f, S, y))
        /\ Cardinality(Upto(f, S, x)) # Cardinality(Upto(f, S, y))
    BY <1>2, <2>1, FS_Subset
  <2> QED BY <1>2, <2>2
<1>4. rank \in Injection(S, 1..N)
  <2>1. rank \in [S -> 1..N]
    BY <1>2
  <2>2. ASSUME NEW x \in S, NEW y \in S, x # y PROVE rank[x] # rank[y]
    <3>1. f[x] < f[y] \/ f[y] < f[x]
      BY <2>2 DEF Distinct
    <3>2. rank[x] < rank[y] \/ rank[y] < rank[x]
      BY <1>3, <3>1
    <3> QED BY <2>1, <3>2
  <2> QED BY <2>1, <2>2 DEF Injection, IsInjective
<1>5. \A i \in 1..N : \E x \in S : Cardinality(Upto(f, S, x)) = i
  <2>1. IsFiniteSet(1..N) /\ Cardinality(1..N) = N
    BY <1>1, FS_Interval
  <2>2. rank \in Surjection(S, 1..N)
    BY <1>4, <2>1, FS_Injection DEF Distinct
  <2> QED BY <2>2 DEF Surjection
<1>6. \A i \in 1..N : s[i] \in S /\ Cardinality(Upto(f, S, s[i])) = i
  BY <1>5 DEF Ranked
<1>7. s \in Seq(S) /\ Len(s) = N
  <2>1. s \in [1..N -> S]
    BY <1>6 DEF Ranked
  <2> QED BY <1>1, <2>1, FunctionIsSeq
<1>8. ASSUME NEW i \in 1..N, NEW j \in 1..N, i < j PROVE f[s[i]] < f[s[j]]
  <2>1. PICK x \in S, y \in S : /\ x = s[i] /\ y = s[j]
                                /\ Cardinality(Upto(f, S, x)) = i /\ Cardinality(Upto(f, S, y)) = j
    BY <1>6
  <2>2. x # y /\ ~ f[y] < f[x]
    BY <1>1, <1>3, <1>8, <2>1
  <2>3. f[x] < f[y]
    BY <2>2 DEF Distinct
  <2> QED BY <2>1, <2>3
<1>9. ASSUME NEW x \in S PROVE \E i \in 1..N : s[i] = x
  <2>1. PICK i \in 1..N : i = Cardinality(Upto(f, S, x))
    BY <1>2
  <2>2. s[i] \in S /\ Cardinality(Upto(f, S, s[i])) = Cardinality(Upto(f, S, x))
    BY <1>6, <2>1
  <2>3. ~ f[s[i]] < f[x] /\ ~ f[x] < f[s[i]]
    BY <1>2, <1>3, <2>2
  <2>4. s[i] = x
    BY <2>2, <2>3 DEF Distinct
  <2> QED BY <2>4
<1> QED BY <1>1, <1>7, <1>8, <1>9 DEF Lists

\* The n values of r are all of S, by increasing f.
Listing(f, S, n, r) ==
    /\ n \in Nat /\ r \in [1..n -> S]
    /\ \A x \in S : f[x] \in Nat
    /\ \A i, j \in 1..n : i < j => f[r[i]] < f[r[j]]
    /\ \A x \in S : \E i \in 1..n : r[i] = x

LEMMA ListOf ==
    ASSUME NEW f, NEW S, NEW n, NEW r, Listing(f, S, n, r)
    PROVE  Distinct(f, S) /\ Lists(f, S, r) /\ Cardinality(S) = n
<1>0. /\ n \in Nat /\ r \in [1..n -> S] /\ \A x \in S : f[x] \in Nat
      /\ \A i, j \in 1..n : i < j => f[r[i]] < f[r[j]]
      /\ \A x \in S : \E i \in 1..n : r[i] = x
  BY DEF Listing
<1>1. ASSUME NEW i \in 1..n, NEW j \in 1..n, f[r[i]] = f[r[j]] PROVE i = j
  <2>1. r[i] \in S /\ f[r[i]] \in Nat
    BY <1>0
  <2>2. ~ i < j /\ ~ j < i
    BY <1>0, <1>1, <2>1
  <2> QED BY <1>0, <2>2
<1>2. r \in Bijection(1..n, S)
  BY <1>0, <1>1 DEF Bijection, Injection, Surjection, IsInjective
<1>3. IsFiniteSet(1..n) /\ Cardinality(1..n) = n
  BY <1>0, FS_Interval
<1>4. IsFiniteSet(S) /\ Cardinality(S) = n
  BY <1>2, <1>3, FS_Bijection DEF ExistsBijection
<1>5. \A x, y \in S : f[x] = f[y] => x = y
  BY <1>0, <1>1
<1>6. r \in Seq(S) /\ Len(r) = n
  BY <1>0, FunctionIsSeq
<1> QED BY <1>0, <1>4, <1>5, <1>6 DEF Distinct, Lists

\* A slice of a list.
LEMMA SliceFacts ==
    ASSUME NEW S, NEW s \in Seq(S), NEW a \in Nat \ {0}, NEW b \in Nat, a <= b + 1, b <= Len(s)
    PROVE  /\ SubSeq(s, a, b) \in Seq(S) /\ Len(SubSeq(s, a, b)) = b + 1 - a
           /\ \A i \in 1..(b + 1 - a) : SubSeq(s, a, b)[i] = s[a - 1 + i]
<1>1. \A i \in a..b : s[i] \in S
  OBVIOUS
<1>2. Len(SubSeq(s, a, b)) = IF a <= b THEN b - a + 1 ELSE 0
  BY <1>1, SubSeqProperties
<1>3. \A i \in 1..(b - a + 1) : SubSeq(s, a, b)[i] = s[a + i - 1]
  BY <1>1, SubSeqProperties
<1>4. SubSeq(s, a, b) \in Seq(S)
  BY <1>1, SubSeqProperties
<1> QED BY <1>2, <1>3, <1>4

\* The elements at some consecutive places are listed by that slice.
LEMMA SliceLists ==
    ASSUME NEW f, NEW S, Distinct(f, S), NEW s, Lists(f, S, s),
           NEW a \in Nat \ {0}, NEW b \in Nat, a <= b + 1, b <= Len(s),
           NEW T \in SUBSET S, \A i \in 1..Len(s) : s[i] \in T <=> i \in a..b
    PROVE  Distinct(f, T) /\ Lists(f, T, SubSeq(s, a, b))
<1> DEFINE r == SubSeq(s, a, b)
           n == b + 1 - a
<1>1. /\ s \in Seq(S) /\ Len(s) \in Nat /\ n \in Nat
      /\ r \in Seq(S) /\ Len(r) = n /\ \A i \in 1..n : r[i] = s[a - 1 + i]
  BY SliceFacts DEF Lists
<1>2. \A i \in 1..n : a - 1 + i \in a..b /\ a - 1 + i \in 1..Len(s)
  BY <1>1
<1> HIDE DEF r
<1>3. \A i \in 1..n : r[i] \in T
  BY <1>1, <1>2
<1>4. r \in [1..n -> T]
  <2>1. r \in [1..n -> S]
    BY <1>1
  <2> HIDE DEF n
  <2> QED BY <1>3, <2>1
<1>5. \A i, j \in 1..n : i < j => f[r[i]] < f[r[j]]
  <2> SUFFICES ASSUME NEW i \in 1..n, NEW j \in 1..n, i < j PROVE f[r[i]] < f[r[j]]
    OBVIOUS
  <2>1. a - 1 + i < a - 1 + j
    BY <1>1
  <2> QED BY <1>1, <1>2, <2>1 DEF Lists
<1>6. \A x \in T : \E i \in 1..n : r[i] = x
  <2> TAKE x \in T
  <2>1. PICK k \in 1..Len(s) : s[k] = x
    BY DEF Lists
  <2>2. k \in a..b
    BY <2>1
  <2>3. k + 1 - a \in 1..n /\ a - 1 + (k + 1 - a) = k
    BY <1>1, <2>2
  <2> QED BY <1>1, <2>1, <2>3
<1>7. \A x \in T : f[x] \in Nat
  BY DEF Distinct
<1> HIDE DEF n
<1>8. Listing(f, T, n, r)
  BY <1>1, <1>4, <1>5, <1>6, <1>7 DEF Listing
<1> QED BY <1>8, ListOf DEF r

\* The elements at the first k even places are k.
LEMMA EvenPlaces ==
    ASSUME NEW f, NEW S, Distinct(f, S), NEW s, Lists(f, S, s), NEW k \in Nat, 2 * k <= Len(s),
           NEW T \in SUBSET S, \A i \in 1..Len(s) : s[i] \in T <=> (i % 2 = 0 /\ i <= 2 * k)
    PROVE  Cardinality(T) = k
<1> DEFINE r == [j \in 1..k |-> s[2 * j]]
<1>1. s \in Seq(S) /\ Len(s) \in Nat
  BY DEF Lists
<1>2. \A j \in 1..k : 2 * j \in 1..Len(s) /\ (2 * j) % 2 = 0 /\ 2 * j <= 2 * k
  BY <1>1
<1>3. r \in [1..k -> T]
  BY <1>2
<1>4. \A i, j \in 1..k : i < j => f[r[i]] < f[r[j]]
  BY <1>2 DEF Lists
<1>5. \A x \in T : \E j \in 1..k : r[j] = x
  <2> TAKE x \in T
  <2>1. PICK i \in 1..Len(s) : s[i] = x
    BY DEF Lists
  <2>2. i % 2 = 0 /\ i <= 2 * k /\ i \in Nat \ {0}
    BY <1>1, <2>1
  <2>3. i \div 2 \in 1..k /\ 2 * (i \div 2) = i
    BY <2>2
  <2> QED BY <2>1, <2>3
<1>6. \A x \in T : f[x] \in Nat
  BY DEF Distinct
<1> HIDE DEF r
<1>7. Listing(f, T, k, r)
  BY <1>3, <1>4, <1>5, <1>6 DEF Listing
<1> QED BY <1>7, ListOf

\* ORDER BY created_at lists the rows.
LEMMA InOrderLists ==
    ASSUME NEW S, Distinct(at, S)
    PROVE  Lists(at, S, InOrder(S))
<1> DEFINE s == InOrder(S)
<1>1. s = [i \in 1..Cardinality(S) |-> CHOOSE x \in S : Cardinality({y \in S : at[y] <= at[x]}) = i]
  BY DEF InOrder, Sorted
<1> HIDE DEF s
<1>2. \A x : Upto(at, S, x) = {y \in S : at[y] <= at[x]}
  BY DEF Upto
<1>3. (\A i \in 1..Cardinality(S) : s[i] \in S) => s \in [1..Cardinality(S) -> S]
  BY <1>1
<1>4. ASSUME NEW i \in 1..Cardinality(S), NEW x \in S, Cardinality(Upto(at, S, x)) = i
      PROVE  s[i] \in S /\ Cardinality(Upto(at, S, s[i])) = i
  <2>1. s[i] = CHOOSE z \in S : Cardinality({y \in S : at[y] <= at[z]}) = i
    BY <1>1
  <2>2. Cardinality({y \in S : at[y] <= at[x]}) = i
    BY <1>2, <1>4
  <2>3. s[i] \in S /\ Cardinality({y \in S : at[y] <= at[s[i]]}) = i
    BY <2>1, <2>2
  <2> QED BY <1>2, <2>3
<1>5. Ranked(at, S, s)
  BY <1>3, <1>4 DEF Ranked
<1> QED BY <1>5, QueryLists DEF s

\* window._pairs of rows that alternate from a question to a question.
LEMMA PairsFacts ==
    ASSUME NEW q \in Nat, NEW r \in Seq(Messages), Len(r) = 2 * q + 1,
           \A i \in 1..Len(r) : IsUser(r[i]) <=> i % 2 = 1
    PROVE  Pairs(r) = [k \in 1..q |-> <<r[2 * k - 1], r[2 * k]>>]
<1> DEFINE starts == {i \in 1..Len(r) - 1 : IsUser(r[i]) /\ ~IsUser(r[i + 1])}
           order == Sorted(starts, LAMBDA i : i)
           id == [i \in Nat |-> i]
           odd == [k \in 1..q |-> 2 * k - 1]
<1>1. \A i \in 1..(2 * q) : IsUser(r[i]) /\ ~IsUser(r[i + 1]) <=> i % 2 = 1
  OBVIOUS
<1>2. \A i : i \in starts <=> i \in 1..(2 * q) /\ i % 2 = 1
  BY <1>1
<1> HIDE DEF starts
<1>3. \A k \in 1..q : 2 * k - 1 \in 1..(2 * q) /\ (2 * k - 1) % 2 = 1 /\ 2 * k - 1 \in Nat
  OBVIOUS
<1>4. odd \in [1..q -> starts]
  BY <1>2, <1>3
<1>5. \A x \in starts : x \in Nat /\ id[x] \in Nat /\ id[x] = x
  BY <1>2
<1>6. \A i, j \in 1..q : i < j => id[odd[i]] < id[odd[j]]
  BY <1>3
<1>7. \A x \in starts : \E k \in 1..q : odd[k] = x
  <2> TAKE x \in starts
  <2>1. x \in 1..(2 * q) /\ x % 2 = 1
    BY <1>2
  <2>2. (x + 1) \div 2 \in 1..q /\ 2 * ((x + 1) \div 2) - 1 = x
    BY <2>1
  <2> QED BY <2>2
<1> HIDE DEF odd, id
<1>8. Distinct(id, starts) /\ Lists(id, starts, odd) /\ Cardinality(starts) = q
  <2>1. \A x \in starts : id[x] \in Nat
    BY <1>5
  <2>2. Listing(id, starts, q, odd)
    BY <1>4, <1>6, <1>7, <2>1 DEF Listing
  <2> QED BY <2>2, ListOf
<1>9. order = [i \in 1..Cardinality(starts) |->
                 CHOOSE x \in starts : Cardinality({y \in starts : y <= x}) = i]
  BY DEF Sorted
<1> HIDE DEF order
<1>10. \A x \in starts : Upto(id, starts, x) = {y \in starts : y <= x}
  BY <1>5 DEF Upto
<1>11. Ranked(id, starts, order)
  <2>1. (\A i \in 1..Cardinality(starts) : order[i] \in starts)
          => order \in [1..Cardinality(starts) -> starts]
    BY <1>9
  <2>2. ASSUME NEW i \in 1..Cardinality(starts), NEW x \in starts,
               Cardinality(Upto(id, starts, x)) = i
        PROVE  order[i] \in starts /\ Cardinality(Upto(id, starts, order[i])) = i
    <3>1. order[i] = CHOOSE z \in starts : Cardinality({y \in starts : y <= z}) = i
      BY <1>9
    <3>2. Cardinality({y \in starts : y <= x}) = i
      BY <1>10, <2>2
    <3>3. order[i] \in starts /\ Cardinality({y \in starts : y <= order[i]}) = i
      BY <3>1, <3>2
    <3> QED BY <1>10, <3>3
  <2> QED BY <2>1, <2>2 DEF Ranked
<1>12. order = odd
  BY <1>8, <1>11, QueryLists, OneList
<1>13. Pairs(r) = [k \in 1..Cardinality(starts) |-> <<r[order[k]], r[order[k] + 1]>>]
  BY DEF Pairs, starts, order
<1>14. \A k \in 1..q : order[k] = 2 * k - 1 /\ order[k] + 1 = 2 * k
  BY <1>12 DEF odd
<1> QED BY <1>8, <1>13, <1>14

-----------------------------------------------------------------------------
(* ORDER BY created_at *)

\* Messages with times of their own are put in the order of these times.
LEMMA InOrderFacts ==
    ASSUME NEW S \in SUBSET Messages, IsFiniteSet(S), at \in [Messages -> Nat],
           \A m, n \in S : at[m] = at[n] => m = n
    PROVE  /\ Cardinality(S) \in Nat /\ InOrder(S) \in Seq(S) /\ Len(InOrder(S)) = Cardinality(S)
           /\ \A i, j \in 1..Cardinality(S) : i < j => at[InOrder(S)[i]] < at[InOrder(S)[j]]
<1>1. Distinct(at, S)
  BY DEF Distinct
<1> QED BY <1>1, InOrderLists DEF Lists

-----------------------------------------------------------------------------
(* load_memory *)

LEMMA NewestTyped ==
    ASSUME NEW S, NEW s \in Seq(S), NEW n \in Nat
    PROVE  Newest(s, n) \in Seq(S)
<1> DEFINE first == IF n < Len(s) THEN Len(s) - n + 1 ELSE 1
<1>1. first \in Int /\ Len(s) \in Int /\ 1 <= first
  OBVIOUS
<1>2. \A i \in first..Len(s) : s[i] \in S
  BY <1>1
<1> HIDE DEF first
<1>3. SubSeq(s, first, Len(s)) \in Seq(S)
  BY <1>1, <1>2, SubSeqProperties
<1> QED BY <1>3 DEF Newest, first

LEMMA OldestFacts ==
    ASSUME NEW S, NEW s \in Seq(S), NEW n \in Nat
    PROVE  /\ Oldest(s, n) \in Seq(S) /\ Len(Oldest(s, n)) <= Len(s)
           /\ \A i \in 1..Len(Oldest(s, n)) : Oldest(s, n)[i] = s[i]
<1> DEFINE last == IF n < Len(s) THEN n ELSE Len(s)
<1>1. last \in Nat /\ Len(s) \in Nat /\ last <= Len(s)
  OBVIOUS
<1>2. \A i \in 1..last : s[i] \in S
  BY <1>1
<1> HIDE DEF last
<1>3. /\ SubSeq(s, 1, last) \in Seq(S)
      /\ Len(SubSeq(s, 1, last)) = last
      /\ \A i \in 1..last : SubSeq(s, 1, last)[i] = s[i]
  <2>1. SubSeq(s, 1, last) \in Seq(S)
    BY <1>1, <1>2, SubSeqProperties
  <2>2. Len(SubSeq(s, 1, last)) = IF 1 <= last THEN last - 1 + 1 ELSE 0
    BY <1>1, <1>2, SubSeqProperties
  <2>3. \A i \in 1..(last - 1 + 1) : SubSeq(s, 1, last)[i] = s[1 + i - 1]
    BY <1>1, <1>2, SubSeqProperties
  <2> QED BY <1>1, <2>1, <2>2, <2>3
<1>4. Oldest(s, n) = SubSeq(s, 1, last)
  BY DEF Oldest, last
<1> QED BY <1>1, <1>3, <1>4

\* What a turn that holds its question sees is finite, and each message of it has its own time.
LEMMA VisibleFacts ==
    ASSUME IInv, NEW t \in Turns, pc[t] \in Inserted
    PROVE  /\ Visible(t) \in SUBSET Messages /\ IsFiniteSet(Visible(t))
           /\ at \in [Messages -> Nat]
           /\ \A m, n \in Visible(t) : at[m] = at[n] => m = n
<1>1. stored \in SUBSET Messages /\ IsFiniteSet(stored) /\ at \in [Messages -> 0..clock] /\ clock \in Nat
  BY DEF IInv, TypeOK
<1>2. Visible(t) \in SUBSET Messages /\ IsFiniteSet(Visible(t))
  BY <1>1, MessagesDiffer, FS_AddElement DEF Visible
<1>3. at \in [Messages -> Nat]
  BY <1>1
<1>4. \A m \in Visible(t) : at[m] > 0
  BY DEF IInv, TimesInv, TurnInv, StoredInv, Visible
<1>5. ASSUME NEW m \in Visible(t), NEW n \in Visible(t), at[m] = at[n] PROVE m = n
  <2>1. at[m] # 0 /\ m \in Messages /\ n \in Messages
    BY <1>2, <1>3, <1>4
  <2> QED BY <1>5, <2>1 DEF IInv, TimesInv
<1> QED BY <1>2, <1>3, <1>5

\* The number of pairs to fold is a number.
LEMMA PairsTyped ==
    ASSUME IInv, NEW t \in Turns, pc[t] \in Inserted
    PROVE  PendingPairs(t) \in Nat
<1>1. \A S : Answers(Visible(t) \cap S) \subseteq Visible(t)
  BY DEF Answers
<1>2. \A S : Cardinality(Answers(Visible(t) \cap S)) \in Nat
  BY <1>1, VisibleFacts, FS_Subset, FS_CardinalityType
<1>3. Summarized(t) \in Nat
  BY <1>2 DEF Summarized
<1>4. Cardinality(Answers(Visible(t))) \in Nat
  <2>1. Answers(Visible(t)) \subseteq Visible(t)
    BY DEF Answers
  <2> QED BY <2>1, VisibleFacts, FS_Subset, FS_CardinalityType
<1>5. WindowPairs(view[t]) \in Nat
  BY ConstantsAssumption DEF WindowPairs
<1>6. SlidOut(t) \in Nat
  BY <1>4, <1>5 DEF SlidOut
<1> QED BY <1>3, <1>6 DEF PendingPairs

LEMMA WindowLoaded ==
    ASSUME IInv, NEW t \in Turns, pc[t] \in Inserted
    PROVE  LoadWindow(t) \in Seq(Messages)
<1>1. InOrder(Visible(t)) \in Seq(Visible(t))
  BY VisibleFacts, InOrderFacts
<1>2. InOrder(Visible(t)) \in Seq(Messages)
  BY <1>1, VisibleFacts, SeqMonotonic
<1>3. 2 * Window + 1 \in Nat
  BY ConstantsAssumption
<1> QED BY <1>2, <1>3, NewestTyped DEF LoadWindow

LEMMA PendingLoaded ==
    ASSUME IInv, NEW t \in Turns, pc[t] \in Inserted
    PROVE  /\ LoadPending(t, PendingPairs(t)) \in Seq(Messages)
           /\ LoadPending(t, PendingPairs(t)) # <<>> =>
                Pending(at, LoadPending(t, PendingPairs(t)), view[t].upto, Visible(t))
<1> DEFINE S == Visible(t) \ UpTo(view[t].upto)
           all == InOrder(S)
           rows == LoadPending(t, PendingPairs(t))
<1>1. /\ S \in SUBSET Messages /\ IsFiniteSet(S) /\ at \in [Messages -> Nat]
      /\ \A m, n \in S : at[m] = at[n] => m = n
  <2>1. S \subseteq Visible(t)
    OBVIOUS
  <2> QED BY <2>1, VisibleFacts, FS_Subset
<1>2. \A m \in S : view[t].upto # None => at[view[t].upto] < at[m]
  <2> SUFFICES ASSUME NEW m \in S, view[t].upto # None PROVE at[view[t].upto] < at[m]
    OBVIOUS
  <2>1. ~ at[m] <= at[view[t].upto]
    BY <1>1 DEF UpTo
  <2>2. view[t].upto \in Messages
    BY DEF IInv, TypeOK
  <2> QED BY <1>1, <2>1, <2>2
<1> HIDE DEF S
<1>3. all \in Seq(S) /\ \A i, j \in 1..Len(all) : i < j => at[all[i]] < at[all[j]]
  BY <1>1, InOrderFacts
<1>4. 2 * PendingPairs(t) \in Nat
  BY PairsTyped
<1>5. rows = Oldest(all, 2 * PendingPairs(t))
  BY DEF LoadPending, S
<1> HIDE DEF all, rows
<1>6. rows \in Seq(S) /\ Len(rows) <= Len(all) /\ \A i \in 1..Len(rows) : rows[i] = all[i]
  BY <1>3, <1>4, <1>5, OldestFacts
<1>7. Len(rows) \in Nat /\ Len(all) \in Nat
  BY <1>3, <1>6
<1>8. \A i, j \in 1..Len(rows) : i < j => at[rows[i]] < at[rows[j]]
  BY <1>3, <1>6, <1>7
<1>9. \A i \in 1..Len(rows) : rows[i] \in Visible(t) /\ (view[t].upto # None => at[view[t].upto] < at[rows[i]])
  BY <1>2, <1>6 DEF S
<1>10. rows \in Seq(Messages)
  BY <1>1, <1>6, SeqMonotonic
<1> QED BY <1>8, <1>9, <1>10 DEF Pending, rows

-----------------------------------------------------------------------------
(* Steps *)

LEMMA InitIInv == Init => IInv
<1> SUFFICES ASSUME Init PROVE IInv
  OBVIOUS
<1>1. Past \subseteq Messages /\ History \in Nat /\ clock = 2 * History /\ stored = Past
  BY ConstantsAssumption DEF Init, Past, Messages
<1>2. at \in [Messages -> 0..clock]
  <2>1. ASSUME NEW m \in Past PROVE 2 * m[2] - (IF IsUser(m) THEN 1 ELSE 0) \in 1..2 * History
    <3>1. m[2] \in 1..History
      BY DEF Past
    <3> QED BY <1>1, <3>1
  <2> QED BY <1>1, <2>1 DEF Init
<1>3. TypeOK
  <2>1. pc \in [Turns -> Phases] /\ mode \in [Turns -> {"sse", "json"}]
    BY ConstantsAssumption DEF Init, Phases
  <2>2. clock \in Nat /\ began \in [Turns -> 0..clock]
    BY <1>1 DEF Init
  <2>3. <<>> \in Seq(Messages)
    BY EmptySeq
  <2>4. /\ view \in [Turns -> [summary : Seq(Messages), upto : Messages \cup {None}, tokens : Nat]]
        /\ recent \in [Turns -> Seq(Messages)] /\ batch \in [Turns -> Seq(Messages)]
        /\ row \in [summary : Seq(Messages), upto : Messages \cup {None}, tokens : Nat, archived : BOOLEAN]
    BY <1>1, <2>3 DEF Init, NoView
  <2> QED BY <1>1, <1>2, <2>1, <2>2, <2>4 DEF Init, TypeOK
<1>4. IsFiniteSet(stored) /\ TokensExact
  <2>1. IsFiniteSet({"user", "assistant"}) /\ Cardinality({"user", "assistant"}) = 2
    <3>1. IsFiniteSet({"user"}) /\ Cardinality({"user"}) = 1
      BY FS_Singleton
    <3>2. {"user", "assistant"} = {"user"} \cup {"assistant"} /\ "assistant" \notin {"user"}
      OBVIOUS
    <3> QED BY <3>1, <3>2, FS_AddElement
  <2>2. IsFiniteSet(1..History) /\ Cardinality(1..History) = History
    BY <1>1, FS_Interval
  <2>3. IsFiniteSet(Past) /\ Cardinality(Past) = 2 * History
    <3>1. /\ IsFiniteSet({"user", "assistant"} \X (1..History))
          /\ Cardinality({"user", "assistant"} \X (1..History))
                = Cardinality({"user", "assistant"}) * Cardinality(1..History)
      BY <2>1, <2>2, FS_Product
    <3> QED BY <1>1, <2>1, <2>2, <3>1 DEF Past
  <2> QED BY <1>1, <2>3 DEF Init, TokensExact
<1>5. TimesInv
  <2>1. \A m \in Past : at[m] = 2 * m[2] - (IF IsUser(m) THEN 1 ELSE 0)
    BY <1>1 DEF Init
  <2>2. \A m \in Messages \ Past : at[m] = 0
    BY DEF Init
  <2>3. \A m \in Past : m = <<m[1], m[2]>> /\ m[1] \in {"user", "assistant"} /\ m[2] \in 1..History
    BY DEF Past
  <2>4. \A m \in Past : at[m] > 0
    BY <1>1, <2>1, <2>3
  <2>5. ASSUME NEW m \in Past, NEW n \in Past, at[m] = at[n] PROVE m = n
    <3>1. m[2] = n[2] /\ (IsUser(m) <=> IsUser(n))
      BY <1>1, <2>1, <2>3, <2>5
    <3>2. m[1] = n[1]
      BY <2>3, <3>1 DEF IsUser
    <3> QED BY <2>3, <3>1, <3>2
  <2>6. \A t \in Turns : began[t] = 0
    BY DEF Init
  <2>7. \A m, n \in Messages : m # n /\ at[m] = at[n] => at[m] = 0
    BY <2>2, <2>5
  <2> QED BY <1>1, <2>4, <2>6, <2>7 DEF TimesInv
<1>6. Sound(at, row.summary, row.upto, stored)
  BY EmptySound DEF Init
<1>7. ASSUME NEW t \in Turns PROVE TurnInv(t)
  <2>1. pc[t] = "idle" /\ view[t].summary = <<>> /\ view[t].upto = None
    BY DEF Init, NoView
  <2>2. Question(t) \notin stored /\ Answer(t) \notin stored
    BY <1>1, MessagesDiffer
  <2>3. CopyInv(t)
    BY <2>1, EmptySound DEF CopyInv
  <2> QED BY <2>1, <2>2, <2>3 DEF TurnInv, StoredInv, BatchInv, Inserted, Committed
<1>8. LockHeldByRunningTurn
  BY ConstantsAssumption DEF Init, LockHeldByRunningTurn, Holding
<1> QED BY <1>3, <1>4, <1>5, <1>6, <1>7, <1>8 DEF IInv

\* What a step leaves of a turn u that it does not belong to.
Elsewhere(u) ==
    /\ pc'[u] = pc[u] /\ began'[u] = began[u] /\ view'[u] = view[u] /\ batch'[u] = batch[u]
    /\ stored \subseteq stored' /\ stored' \cap {Question(u), Answer(u)} = stored \cap {Question(u), Answer(u)}
    /\ \A m \in stored \cup {Question(u), Answer(u)} : at'[m] = at[m]

LEMMA ElsewhereStands ==
    ASSUME NEW u \in Turns, TurnInv(u), Elsewhere(u)
    PROVE  TurnInv(u)'
<1>1. StoredInv(u)'
  BY DEF TurnInv, StoredInv, Elsewhere
<1>2. CopyInv(u)'
  <2>1. Foldable(u) \subseteq Foldable(u)' /\ \A m \in Foldable(u) : at'[m] = at[m]
    BY DEF Elsewhere, Foldable
  <2>2. Sound(at', view[u].summary, view[u].upto, Foldable(u)')
    BY <2>1, SoundStands DEF TurnInv, CopyInv
  <2> QED BY <2>2 DEF CopyInv, Elsewhere
<1>3. BatchInv(u)'
  <2> SUFFICES ASSUME pc[u] = "folding" PROVE Pending(at', batch[u], view[u].upto, Visible(u)')
    BY DEF BatchInv, Elsewhere
  <2>1. Visible(u) \subseteq Visible(u)' /\ \A m \in Visible(u) : at'[m] = at[m]
    BY DEF Elsewhere, Visible
  <2>2. view[u].upto = None \/ view[u].upto \in Visible(u)
    BY DEF TurnInv, CopyInv, Sound, Foldable, Visible
  <2> QED BY <2>1, <2>2, PendingStands DEF TurnInv, BatchInv
<1> QED BY <1>1, <1>2, <1>3 DEF TurnInv

\* A step of turn t that writes no table and begins no transaction.
LEMMA QuietStep ==
    ASSUME IInv, NEW t \in Turns, UNCHANGED <<began, tables, at, clock>>,
           TypeOK', LockHeldByRunningTurn', TurnInv(t)',
           \A u \in Turns \ {t} : pc'[u] = pc[u] /\ view'[u] = view[u] /\ batch'[u] = batch[u]
    PROVE  IInv'
<1>1. IsFiniteSet(stored)' /\ TokensExact' /\ TimesInv' /\ Sound(at, row.summary, row.upto, stored)'
  BY DEF IInv, TokensExact, TimesInv, tables
<1>2. ASSUME NEW u \in Turns, u # t PROVE TurnInv(u)'
  BY <1>2, ElsewhereStands DEF IInv, Elsewhere, tables
<1> QED BY <1>1, <1>2 DEF IInv

\* A turn that forgot its variables.
LEMMA Forgotten ==
    ASSUME IInv, NEW t \in Turns, view' = [view EXCEPT ![t] = NoView], pc'[t] # "folding", StoredInv(t)'
    PROVE  TurnInv(t)'
<1>1. view'[t] = NoView
  BY DEF IInv, TypeOK
<1>2. CopyInv(t)'
  BY <1>1, EmptySound DEF CopyInv, NoView
<1> QED BY <1>2 DEF TurnInv, BatchInv

LEMMA ForgetTyped ==
    ASSUME TypeOK, NEW t \in Turns, Forget(t)
    PROVE  /\ view' \in [Turns -> [summary : Seq(Messages), upto : Messages \cup {None}, tokens : Nat]]
           /\ recent' \in [Turns -> Seq(Messages)] /\ batch' \in [Turns -> Seq(Messages)]
           /\ folded' \in [Turns -> BOOLEAN]
           /\ \A u \in Turns \ {t} : view'[u] = view[u] /\ batch'[u] = batch[u]
<1>1. <<>> \in Seq(Messages) /\ NoView \in [summary : Seq(Messages), upto : Messages \cup {None}, tokens : Nat]
  BY EmptySeq DEF NoView
<1> QED BY <1>1 DEF TypeOK, Forget

LEMMA PhaseStep ==
    ASSUME TypeOK, NEW t \in Turns, NEW phase \in Phases, Go(t, phase)
    PROVE  pc' \in [Turns -> Phases] /\ pc'[t] = phase /\ \A u \in Turns \ {t} : pc'[u] = pc[u]
BY DEF TypeOK, Go

Locks == lock' \in Turns \cup {None} /\ rowLock' \in Turns \cup {None}
Bounds == faults' \in Nat /\ abandons' \in Nat /\ restarts' \in Nat

\* A step in which a turn forgets its variables.
LEMMA ForgetStep ==
    ASSUME IInv, NEW t \in Turns, NEW phase \in Phases \ {"folding"}, Go(t, phase), Forget(t),
           UNCHANGED <<tables, at, clock>>, Locks, Bounds, LockHeldByRunningTurn', StoredInv(t)'
    PROVE  IInv'
<1>1. pc' \in [Turns -> Phases] /\ pc'[t] = phase /\ \A u \in Turns \ {t} : pc'[u] = pc[u]
  BY PhaseStep DEF IInv
<1>2. /\ view' \in [Turns -> [summary : Seq(Messages), upto : Messages \cup {None}, tokens : Nat]]
      /\ recent' \in [Turns -> Seq(Messages)] /\ batch' \in [Turns -> Seq(Messages)]
      /\ folded' \in [Turns -> BOOLEAN]
      /\ \A u \in Turns \ {t} : view'[u] = view[u] /\ batch'[u] = batch[u]
  BY ForgetTyped DEF IInv
<1>3. TypeOK'
  BY <1>1, <1>2 DEF IInv, TypeOK, Locks, Bounds, Forget, tables
<1>4. TurnInv(t)'
  BY <1>1, Forgotten DEF Forget
<1> QED BY <1>1, <1>2, <1>3, <1>4, QuietStep DEF Forget

LEMMA RefuseBusyStep == ASSUME IInv, NEW t \in Turns, RefuseBusy(t) PROVE IInv'
<1>1. Go(t, "busy") /\ Forget(t) /\ UNCHANGED <<tables, at, clock>> /\ "busy" \in Phases \ {"folding"}
  BY DEF RefuseBusy, Phases, Terminal
<1>2. Locks /\ Bounds
  BY DEF RefuseBusy, IInv, TypeOK, Locks, Bounds, bounds
<1>3. LockHeldByRunningTurn'
  BY DEF RefuseBusy, IInv, TypeOK, LockHeldByRunningTurn, Go, Holding
<1>4. StoredInv(t)'
  BY DEF RefuseBusy, IInv, TypeOK, Go, Forget, tables, TurnInv, StoredInv, Perhaps, Committed, Inserted
<1> QED BY <1>1, <1>2, <1>3, <1>4, ForgetStep

LEMMA AbandonStep == ASSUME IInv, NEW t \in Turns, Abandon(t) PROVE IInv'
<1>1. Go(t, "abandoned") /\ Forget(t) /\ UNCHANGED <<tables, at, clock>> /\ "abandoned" \in Phases \ {"folding"}
  BY DEF Abandon, Phases, Terminal
<1>2. Locks /\ Bounds
  BY DEF Abandon, IInv, TypeOK, Locks, Bounds
<1>3. LockHeldByRunningTurn'
  BY DEF Abandon, IInv, TypeOK, LockHeldByRunningTurn, Go, Holding
<1>4. StoredInv(t)'
  BY DEF Abandon, IInv, TypeOK, Go, Forget, tables, TurnInv, StoredInv, Perhaps, Committed, Inserted
<1> QED BY <1>1, <1>2, <1>3, <1>4, ForgetStep

LEMMA AbortStep == ASSUME IInv, NEW t \in Turns, Abort(t) PROVE IInv'
<1>1. Go(t, "aborted") /\ Forget(t) /\ UNCHANGED <<tables, at, clock>> /\ "aborted" \in Phases \ {"folding"}
  BY DEF Abort, Phases
<1>2. Locks /\ Bounds
  BY DEF Abort, Fault, IInv, TypeOK, Locks, Bounds
<1>3. LockHeldByRunningTurn'
  BY ConstantsAssumption DEF Abort, IInv, TypeOK, LockHeldByRunningTurn, Go, Holding
<1>4. StoredInv(t)'
  BY DEF Abort, IInv, TypeOK, Go, Forget, tables, TurnInv, StoredInv, Perhaps, Committed, Inserted, Holding
<1> QED BY <1>1, <1>2, <1>3, <1>4, ForgetStep

LEMMA StreamIInv == ASSUME IInv, NEW t \in Turns, Stream(t) PROVE IInv'
<1>1. PICK phase \in {"behind", "broken"} : Go(t, phase)
  BY DEF Stream, Finish, StreamBreaks
<1>2. /\ pc[t] = "streaming" /\ Forget(t) /\ UNCHANGED <<tables, at, clock>>
      /\ lock' = None /\ rowLock' = rowLock
  BY DEF Stream, Finish, StreamBreaks
<1>3. Bounds
  <2>1. CASE Finish(t)
    BY <2>1 DEF Finish, IInv, TypeOK, Bounds, bounds
  <2>2. CASE StreamBreaks(t)
    BY <2>2 DEF StreamBreaks, Fault, IInv, TypeOK, Bounds
  <2> QED BY <2>1, <2>2 DEF Stream
<1>4. pc' = [pc EXCEPT ![t] = phase] /\ pc \in [Turns -> Phases] /\ phase \in Phases \ {"folding"}
  BY <1>1 DEF Go, IInv, TypeOK, Phases, Terminal, Writing
<1>5. LockHeldByRunningTurn'
  BY <1>2, <1>4, ConstantsAssumption DEF IInv, LockHeldByRunningTurn, Holding
<1>6. StoredInv(t)'
  BY <1>1, <1>2, <1>4 DEF Forget, tables, IInv, TurnInv, StoredInv, Perhaps, Committed, Inserted
<1>7. Locks
  BY <1>2 DEF Locks, IInv, TypeOK
<1> QED BY <1>1, <1>2, <1>3, <1>4, <1>5, <1>6, <1>7, ForgetStep

\* A step that changes the phase of a turn and the locks only.
LEMMA PhaseOnly ==
    ASSUME IInv, NEW t \in Turns, NEW phase \in Phases \ {"folding"}, Go(t, phase),
           UNCHANGED <<locals, tables, at, clock>>, Locks, Bounds, LockHeldByRunningTurn', StoredInv(t)',
           pc[t] = "committing" => phase = "committing"
    PROVE  IInv'
<1>1. pc' \in [Turns -> Phases] /\ pc'[t] = phase /\ \A u \in Turns \ {t} : pc'[u] = pc[u]
  BY PhaseStep DEF IInv
<1>2. TypeOK'
  BY <1>1 DEF IInv, TypeOK, Locks, Bounds, locals, tables
<1>3. TurnInv(t)'
  <2>1. Foldable(t) \subseteq Foldable(t)'
    BY <1>1 DEF Foldable, tables
  <2>2. Sound(at, view[t].summary, view[t].upto, Foldable(t)')
    BY <2>1, SoundStands DEF IInv, TurnInv, CopyInv
  <2> QED BY <1>1, <2>2 DEF TurnInv, CopyInv, BatchInv, locals
<1> QED BY <1>1, <1>2, <1>3, QuietStep DEF locals

LEMMA AcquireStep == ASSUME IInv, NEW t \in Turns, Acquire(t) PROVE IInv'
<1>1. Go(t, "locked") /\ UNCHANGED <<locals, tables, at, clock>> /\ "locked" \in Phases \ {"folding"}
  BY DEF Acquire, Phases, Holding
<1>2. Locks /\ Bounds
  BY DEF Acquire, IInv, TypeOK, Locks, Bounds, bounds
<1>3. LockHeldByRunningTurn'
  BY ConstantsAssumption DEF Acquire, IInv, TypeOK, LockHeldByRunningTurn, Go, Holding
<1>4. StoredInv(t)' /\ pc[t] # "committing"
  BY DEF Acquire, IInv, TypeOK, Go, locals, tables, TurnInv, StoredInv, Perhaps, Committed, Inserted
<1> QED BY <1>1, <1>2, <1>3, <1>4, PhaseOnly

LEMMA SummaryFailsStep == ASSUME IInv, NEW t \in Turns, SummaryFails(t) PROVE IInv'
<1>1. Go(t, "committing") /\ UNCHANGED <<locals, tables, at, clock>> /\ "committing" \in Phases \ {"folding"}
  BY DEF SummaryFails, Phases, Holding
<1>2. Locks /\ Bounds
  BY DEF SummaryFails, Fault, IInv, TypeOK, Locks, Bounds
<1>3. LockHeldByRunningTurn'
  BY DEF SummaryFails, IInv, TypeOK, LockHeldByRunningTurn, Go, Holding
<1>4. StoredInv(t)'
  BY DEF SummaryFails, IInv, TypeOK, Go, locals, tables, TurnInv, StoredInv, Perhaps, Committed, Inserted
<1> QED BY <1>1, <1>2, <1>3, <1>4, PhaseOnly

LEMMA RollbackStep == ASSUME IInv, NEW t \in Turns, Rollback(t) PROVE IInv'
<1>1. Go(t, "failed") /\ UNCHANGED <<locals, tables, at, clock>> /\ "failed" \in Phases \ {"folding"}
  BY DEF Rollback, Phases, Terminal
<1>2. Locks /\ Bounds
  BY DEF Rollback, IInv, TypeOK, Locks, Bounds, bounds
<1>3. LockHeldByRunningTurn'
  BY DEF Rollback, IInv, TypeOK, LockHeldByRunningTurn, Go, Holding
<1>4. StoredInv(t)' /\ pc[t] # "committing"
  BY DEF Rollback, IInv, TypeOK, Go, locals, tables, TurnInv, StoredInv, Perhaps, Committed, Inserted
<1> QED BY <1>1, <1>2, <1>3, <1>4, PhaseOnly

LEMMA AnswerFailsStep == ASSUME IInv, NEW t \in Turns, AnswerFails(t) PROVE IInv'
<1>1. Go(t, "unsaved") /\ UNCHANGED <<locals, tables, at, clock>> /\ "unsaved" \in Phases \ {"folding"}
  BY DEF AnswerFails, Phases, Terminal
<1>2. Locks /\ Bounds
  BY DEF AnswerFails, Fault, IInv, TypeOK, Locks, Bounds
<1>3. LockHeldByRunningTurn'
  BY DEF AnswerFails, IInv, TypeOK, LockHeldByRunningTurn, Go, Holding, Writing
<1>4. StoredInv(t)' /\ pc[t] # "committing"
  BY DEF AnswerFails, IInv, TypeOK, Go, locals, tables, TurnInv, StoredInv, Perhaps, Committed, Inserted, Writing
<1> QED BY <1>1, <1>2, <1>3, <1>4, PhaseOnly

\* The in-memory total follows the row's; the copy of the summary does not change.
LEMMA CountUserStep == ASSUME IInv, NEW t \in Turns, CountUser(t) PROVE IInv'
<1>1. /\ pc[t] = "counting" /\ pc' = [pc EXCEPT ![t] = "loading"] /\ pc \in [Turns -> Phases]
      /\ UNCHANGED <<began, batch, lock, tables, at, clock>>
  BY DEF CountUser, Go, IInv, TypeOK, tables
<1>2. view[t] \in [summary : Seq(Messages), upto : Messages \cup {None}, tokens : Nat]
  BY DEF IInv, TypeOK
<1>3. PICK copy : copy = [view[t] EXCEPT !.tokens = @ + 1] /\ view' = [view EXCEPT ![t] = copy]
  BY DEF CountUser
<1>4. /\ copy \in [summary : Seq(Messages), upto : Messages \cup {None}, tokens : Nat]
      /\ copy.summary = view[t].summary /\ copy.upto = view[t].upto
  BY <1>2, <1>3
<1>5. /\ view' \in [Turns -> [summary : Seq(Messages), upto : Messages \cup {None}, tokens : Nat]]
      /\ view'[t] = copy /\ \A u \in Turns \ {t} : view'[u] = view[u]
  BY <1>3, <1>4 DEF IInv, TypeOK
<1>6. pc' \in [Turns -> Phases] /\ pc'[t] = "loading" /\ \A u \in Turns \ {t} : pc'[u] = pc[u]
  BY <1>1 DEF Phases, Holding
<1>7. TypeOK'
  BY <1>1, <1>5, <1>6 DEF IInv, TypeOK, CountUser, tables, bounds
<1>8. LockHeldByRunningTurn'
  BY <1>1, <1>6 DEF IInv, LockHeldByRunningTurn, Holding
<1>9. TurnInv(t)'
  <2>1. StoredInv(t)'
    BY <1>1, <1>6 DEF IInv, TurnInv, StoredInv, tables, Inserted, Committed, Perhaps
  <2>2. Foldable(t)' = Foldable(t)
    BY <1>1, <1>6 DEF Foldable, tables
  <2>3. CopyInv(t)'
    BY <1>1, <1>4, <1>5, <2>2 DEF IInv, TurnInv, CopyInv
  <2> QED BY <1>6, <2>1, <2>3 DEF TurnInv, BatchInv
<1> QED BY <1>1, <1>5, <1>6, <1>7, <1>8, <1>9, QuietStep

LEMMA LoadMemoryStep == ASSUME IInv, NEW t \in Turns, LoadMemory(t) PROVE IInv'
<1> DEFINE rows == IF PendingPairs(t) >= Threshold(view[t]) THEN LoadPending(t, PendingPairs(t)) ELSE <<>>
           phase == IF rows = <<>> THEN "committing" ELSE "folding"
<1>1. /\ pc[t] = "loading" /\ pc' = [pc EXCEPT ![t] = phase] /\ pc \in [Turns -> Phases]
      /\ recent' = [recent EXCEPT ![t] = LoadWindow(t)] /\ batch' = [batch EXCEPT ![t] = rows]
      /\ UNCHANGED <<mode, began, view, folded, lock, tables, rowLock, at, clock, bounds>>
  BY DEF LoadMemory, Go, IInv, TypeOK
<1>2. pc[t] \in Inserted
  BY <1>1 DEF Inserted
<1>3. rows \in Seq(Messages) /\ (rows # <<>> => Pending(at, rows, view[t].upto, Visible(t)))
  BY <1>2, PendingLoaded, EmptySeq
<1>4. LoadWindow(t) \in Seq(Messages)
  BY <1>2, WindowLoaded
<1>5. phase \in {"committing", "folding"} /\ (phase = "folding" => rows # <<>>)
  OBVIOUS
<1> HIDE DEF rows, phase
<1>6. pc' \in [Turns -> Phases] /\ pc'[t] = phase /\ \A u \in Turns \ {t} : pc'[u] = pc[u]
  BY <1>1, <1>5 DEF Phases, Holding
<1>7. /\ recent' \in [Turns -> Seq(Messages)] /\ batch' \in [Turns -> Seq(Messages)]
      /\ batch'[t] = rows /\ \A u \in Turns \ {t} : batch'[u] = batch[u]
  BY <1>1, <1>3, <1>4 DEF IInv, TypeOK
<1>8. TypeOK'
  BY <1>1, <1>6, <1>7 DEF IInv, TypeOK, tables, bounds
<1>9. LockHeldByRunningTurn'
  BY <1>1, <1>5, <1>6 DEF IInv, LockHeldByRunningTurn, Holding
<1>10. TurnInv(t)'
  <2>1. StoredInv(t)'
    BY <1>1, <1>5, <1>6 DEF IInv, TurnInv, StoredInv, tables, Inserted, Committed, Perhaps
  <2>2. CopyInv(t)'
    <3>1. Foldable(t) \subseteq Foldable(t)'
      BY <1>1 DEF Foldable, tables
    <3>2. Sound(at, view[t].summary, view[t].upto, Foldable(t)')
      BY <3>1, SoundStands DEF IInv, TurnInv, CopyInv
    <3> QED BY <1>1, <3>2 DEF CopyInv
  <2>3. BatchInv(t)'
    BY <1>1, <1>3, <1>5, <1>6, <1>7 DEF BatchInv, Visible, tables
  <2> QED BY <2>1, <2>2, <2>3 DEF TurnInv
<1> QED BY <1>1, <1>6, <1>7, <1>8, <1>9, <1>10, QuietStep

\* The fold: what was pending becomes part of the turn's copy.
LEMMA ApplySummaryStep == ASSUME IInv, NEW t \in Turns, ApplySummary(t) PROVE IInv'
<1>1. /\ pc[t] = "folding" /\ pc' = [pc EXCEPT ![t] = "committing"] /\ pc \in [Turns -> Phases]
      /\ folded' = [folded EXCEPT ![t] = TRUE]
      /\ UNCHANGED <<mode, began, recent, batch, lock, tables, rowLock, at, clock, bounds>>
  BY DEF ApplySummary, Go, IInv, TypeOK
<1>2. /\ view[t] \in [summary : Seq(Messages), upto : Messages \cup {None}, tokens : Nat]
      /\ batch[t] \in Seq(Messages) /\ at \in [Messages -> Nat]
      /\ Visible(t) \in SUBSET Messages
  BY <1>1, VisibleFacts DEF IInv, TypeOK, Inserted
<1>3. PICK copy : /\ copy = [view[t] EXCEPT !.summary = @ \o batch[t], !.upto = Last(batch[t])]
                  /\ view' = [view EXCEPT ![t] = copy]
  BY DEF ApplySummary
<1>4. Foldable(t) \subseteq Visible(t) /\ Pending(at, batch[t], view[t].upto, Visible(t))
  BY <1>1 DEF Foldable, Visible, IInv, TurnInv, BatchInv
<1>5. /\ Sound(at, view[t].summary \o batch[t], Last(batch[t]), Visible(t))
      /\ Last(batch[t]) \in Visible(t)
  <2>1. Sound(at, view[t].summary, view[t].upto, Foldable(t)) /\ view[t].summary \in Seq(Messages)
    BY <1>2 DEF IInv, TurnInv, CopyInv
  <2> QED BY <1>2, <1>4, <2>1, FoldSound
<1>6. view[t].summary \o batch[t] \in Seq(Messages)
  BY <1>2, ConcatProperties
<1>7. copy.summary = view[t].summary \o batch[t] /\ copy.upto = Last(batch[t]) /\ copy.tokens = view[t].tokens
  BY <1>2, <1>3
<1>8. copy \in [summary : Seq(Messages), upto : Messages \cup {None}, tokens : Nat]
  BY <1>2, <1>3, <1>5, <1>6
<1>9. /\ view' \in [Turns -> [summary : Seq(Messages), upto : Messages \cup {None}, tokens : Nat]]
      /\ view'[t] = copy /\ \A u \in Turns \ {t} : view'[u] = view[u]
  BY <1>3, <1>8 DEF IInv, TypeOK
<1>10. pc' \in [Turns -> Phases] /\ pc'[t] = "committing" /\ \A u \in Turns \ {t} : pc'[u] = pc[u]
  BY <1>1 DEF Phases, Holding
<1>11. TypeOK'
  BY <1>1, <1>9, <1>10 DEF IInv, TypeOK, tables, bounds
<1>12. LockHeldByRunningTurn'
  BY <1>1, <1>10 DEF IInv, LockHeldByRunningTurn, Holding
<1>13. TurnInv(t)'
  <2>1. StoredInv(t)'
    BY <1>1, <1>10 DEF IInv, TurnInv, StoredInv, tables, Inserted, Committed, Perhaps
  <2>2. Foldable(t)' = Visible(t)
    BY <1>1, <1>10 DEF Foldable, Visible, tables
  <2>3. CopyInv(t)'
    BY <1>1, <1>5, <1>7, <1>9, <2>2 DEF CopyInv
  <2> QED BY <1>10, <2>1, <2>3 DEF TurnInv, BatchInv
<1> QED BY <1>1, <1>9, <1>10, <1>11, <1>12, <1>13, QuietStep

-----------------------------------------------------------------------------
(* Steps that begin transactions or write tables *)

\* What they have in common for the turns that do not take them, and for the stored summary.
LEMMA TableStep ==
    ASSUME IInv, NEW t \in Turns, TypeOK', LockHeldByRunningTurn',
           IsFiniteSet(stored)', TokensExact', TimesInv', Sound(at, row.summary, row.upto, stored)',
           TurnInv(t)', \A u \in Turns \ {t} : Elsewhere(u)
    PROVE  IInv'
<1>1. ASSUME NEW u \in Turns, u # t PROVE TurnInv(u)'
  BY <1>1, ElsewhereStands DEF IInv
<1> QED BY <1>1 DEF IInv

\* The turn's copy stays sound when its phase changes to one in which it folds nothing.
LEMMA CopyStands ==
    ASSUME IInv, NEW t \in Turns, view'[t] = view[t], Foldable(t) \subseteq Foldable(t)',
           \A m \in Foldable(t) : at'[m] = at[m]
    PROVE  CopyInv(t)'
<1>1. Sound(at', view[t].summary, view[t].upto, Foldable(t)')
  BY SoundStands DEF IInv, TurnInv, CopyInv
<1> QED BY <1>1 DEF CopyInv

\* What the two UPDATEs make of the row.
LEMMA CountedRow ==
    ASSUME NEW r \in [summary : Seq(Messages), upto : Messages \cup {None}, tokens : Nat, archived : BOOLEAN]
    PROVE  /\ [r EXCEPT !.tokens = @ + 1]
                \in [summary : Seq(Messages), upto : Messages \cup {None}, tokens : Nat, archived : BOOLEAN]
           /\ [r EXCEPT !.tokens = @ + 1].tokens = r.tokens + 1
           /\ [r EXCEPT !.tokens = @ + 1].summary = r.summary /\ [r EXCEPT !.tokens = @ + 1].upto = r.upto
OBVIOUS

LEMMA ResolveStep == ASSUME IInv, NEW t \in Turns, Resolve(t) PROVE IInv'
<1> DEFINE phase == IF row.archived THEN "refused" ELSE "resolved"
           copy == IF row.archived THEN NoView
                   ELSE [summary |-> row.summary, upto |-> row.upto, tokens |-> row.tokens]
<1>1. /\ pc[t] = "idle" /\ pc' = [pc EXCEPT ![t] = phase] /\ pc \in [Turns -> Phases]
      /\ view' = [view EXCEPT ![t] = copy]
      /\ clock' = clock + 1 /\ began' = [began EXCEPT ![t] = clock + 1]
      /\ UNCHANGED <<mode, recent, batch, folded, lock, row, stored, rowLock, at, bounds>>
  BY DEF Resolve, Go, IInv, TypeOK, tables
<1>2. phase \in {"refused", "resolved"}
  OBVIOUS
<1>3. /\ copy \in [summary : Seq(Messages), upto : Messages \cup {None}, tokens : Nat]
      /\ Sound(at, copy.summary, copy.upto, stored)
  <2>1. NoView \in [summary : Seq(Messages), upto : Messages \cup {None}, tokens : Nat]
    BY EmptySeq DEF NoView
  <2>2. Sound(at, NoView.summary, NoView.upto, stored)
    BY EmptySound DEF NoView
  <2> QED BY <2>1, <2>2 DEF IInv, TypeOK
<1> HIDE DEF phase, copy
<1>4. pc' \in [Turns -> Phases] /\ pc'[t] = phase /\ \A u \in Turns \ {t} : pc'[u] = pc[u]
  BY <1>1, <1>2 DEF Phases, Holding, Terminal
<1>5. /\ view' \in [Turns -> [summary : Seq(Messages), upto : Messages \cup {None}, tokens : Nat]]
      /\ view'[t] = copy /\ \A u \in Turns \ {t} : view'[u] = view[u]
  BY <1>1, <1>3 DEF IInv, TypeOK
<1>6. /\ clock \in Nat /\ began \in [Turns -> 0..clock] /\ at \in [Messages -> 0..clock]
      /\ began'[t] = clock + 1 /\ \A u \in Turns \ {t} : began'[u] = began[u]
  BY <1>1 DEF IInv, TypeOK
<1>7. clock' \in Nat /\ began' \in [Turns -> 0..clock'] /\ at' \in [Messages -> 0..clock']
  BY <1>1, <1>6
<1>8. TypeOK'
  BY <1>1, <1>4, <1>5, <1>7 DEF IInv, TypeOK, bounds
<1>9. LockHeldByRunningTurn'
  BY <1>1, <1>2, <1>4 DEF IInv, LockHeldByRunningTurn, Holding
<1>10. TimesInv'
  <2>1. \A u \in Turns, m \in Messages : began'[u] > 0 /\ at[m] = began'[u] => m = Question(u)
    BY <1>6 DEF IInv, TimesInv
  <2>2. \A u, w \in Turns : u # w /\ began'[u] = began'[w] => began'[u] = 0
    BY <1>6 DEF IInv, TimesInv
  <2> QED BY <1>1, <2>1, <2>2 DEF IInv, TimesInv
<1>11. TurnInv(t)'
  <2>1. StoredInv(t)'
    BY <1>1, <1>2, <1>4, <1>6 DEF IInv, TurnInv, StoredInv, Inserted, Committed, Perhaps
  <2>2. Foldable(t)' = stored
    BY <1>1, <1>2, <1>4 DEF Foldable
  <2>3. CopyInv(t)'
    BY <1>1, <1>3, <1>5, <2>2 DEF CopyInv
  <2> QED BY <1>2, <1>4, <2>1, <2>3 DEF TurnInv, BatchInv
<1>12. \A u \in Turns \ {t} : Elsewhere(u)
  BY <1>1, <1>4, <1>5, <1>6 DEF Elsewhere
<1> QED BY <1>1, <1>8, <1>9, <1>10, <1>11, <1>12, TableStep DEF IInv, TokensExact

\* created_at is the time at which the turn's transaction began, its own.
LEMMA InsertUserStep == ASSUME IInv, NEW t \in Turns, InsertUser(t) PROVE IInv'
<1>1. /\ pc[t] = "locked" /\ pc' = [pc EXCEPT ![t] = "counting"] /\ pc \in [Turns -> Phases]
      /\ at' = [at EXCEPT ![Question(t)] = began'[t]]
      /\ UNCHANGED <<mode, view, recent, batch, folded, lock, row, stored, rowLock, bounds>>
      /\ \/ clock' = clock + 1 /\ began' = [began EXCEPT ![t] = clock + 1]
         \/ UNCHANGED <<clock, began>>
  BY DEF InsertUser, Go, IInv, TypeOK, tables
<1>2. /\ clock \in Nat /\ began \in [Turns -> 0..clock] /\ at \in [Messages -> 0..clock]
      /\ began[t] > 0 /\ Question(t) \in Messages /\ Question(t) \notin stored /\ Answer(t) \notin stored
      /\ stored \subseteq Messages
  BY <1>1, MessagesDiffer DEF IInv, TypeOK, TurnInv, StoredInv, Perhaps, Committed
<1>3. PICK now \in 1..clock' :
        /\ began'[t] = now /\ clock' \in Nat /\ clock <= clock'
        /\ now = began[t] \/ now > clock
  <2>1. CASE clock' = clock + 1 /\ began' = [began EXCEPT ![t] = clock + 1]
    BY <1>2, <2>1
  <2>2. CASE UNCHANGED <<clock, began>>
    BY <1>2, <2>2
  <2> QED BY <1>1, <2>1, <2>2
<1>4. /\ began' \in [Turns -> 0..clock'] /\ \A u \in Turns \ {t} : began'[u] = began[u]
      /\ at' \in [Messages -> 0..clock'] /\ at'[Question(t)] = now
      /\ \A m \in Messages \ {Question(t)} : at'[m] = at[m]
  <2>1. at' = [at EXCEPT ![Question(t)] = now]
    BY <1>1, <1>3
  <2>2. /\ at' \in [Messages -> 0..clock'] /\ at'[Question(t)] = now
        /\ \A m \in Messages \ {Question(t)} : at'[m] = at[m]
    BY <1>2, <1>3, <2>1
  <2>3. CASE clock' = clock + 1 /\ began' = [began EXCEPT ![t] = clock + 1]
    BY <1>2, <2>2, <2>3
  <2>4. CASE UNCHANGED <<clock, began>>
    BY <1>2, <2>2, <2>4
  <2> QED BY <1>1, <2>3, <2>4
<1>5. pc' \in [Turns -> Phases] /\ pc'[t] = "counting" /\ \A u \in Turns \ {t} : pc'[u] = pc[u]
  BY <1>1 DEF Phases, Holding
<1>6. TypeOK'
  BY <1>1, <1>3, <1>4, <1>5 DEF IInv, TypeOK, bounds
<1>7. LockHeldByRunningTurn'
  BY <1>1, <1>5 DEF IInv, LockHeldByRunningTurn, Holding
<1>8. \A m \in Messages \ {Question(t)} : at[m] # now
  BY <1>2, <1>3 DEF IInv, TimesInv
<1>9. \A u \in Turns \ {t} : began[u] # now
  BY <1>2, <1>3 DEF IInv, TimesInv
<1>10. TimesInv'
  <2>1. \A m, n \in Messages : m # n /\ at'[m] = at'[n] => at'[m] = 0
    BY <1>4, <1>8 DEF IInv, TimesInv
  <2>2. \A m \in stored : at'[m] > 0
    BY <1>2, <1>4 DEF IInv, TimesInv
  <2>3. \A u \in Turns, m \in Messages : began'[u] > 0 /\ at'[m] = began'[u] => m = Question(u)
    BY <1>3, <1>4, <1>8, <1>9 DEF IInv, TimesInv
  <2>4. \A u, w \in Turns : u # w /\ began'[u] = began'[w] => began'[u] = 0
    BY <1>3, <1>4, <1>9 DEF IInv, TimesInv
  <2> QED BY <1>1, <2>1, <2>2, <2>3, <2>4 DEF TimesInv
<1>11. \A m \in stored : at'[m] = at[m]
  BY <1>2, <1>4
<1>12. Sound(at, row.summary, row.upto, stored)'
  BY <1>1, <1>11, SoundStands DEF IInv
<1>13. TurnInv(t)'
  <2>1. StoredInv(t)'
    BY <1>1, <1>2, <1>3, <1>4, <1>5 DEF StoredInv, Inserted, Committed, Perhaps
  <2>2. CopyInv(t)'
    BY <1>1, <1>5, <1>11, CopyStands DEF Foldable
  <2> QED BY <1>5, <2>1, <2>2 DEF TurnInv, BatchInv
<1>14. \A u \in Turns \ {t} : Elsewhere(u)
  BY <1>1, <1>4, <1>5, <1>11, MessagesDiffer DEF Elsewhere
<1> QED BY <1>1, <1>6, <1>7, <1>10, <1>12, <1>13, <1>14, TableStep DEF IInv, TokensExact

\* The row a commit writes: its total counts the question, and its summary is the one it had or
\* the copy the turn folded.
LEMMA CommittedRow ==
    ASSUME IInv, NEW t \in Turns, Commit(t)
    PROVE  /\ row' \in [summary : Seq(Messages), upto : Messages \cup {None}, tokens : Nat,
                        archived : BOOLEAN]
           /\ row'.tokens = row.tokens + 1
           /\ \/ row'.summary = row.summary /\ row'.upto = row.upto
              \/ row'.summary = view[t].summary /\ row'.upto = view[t].upto
<1>1. /\ row \in [summary : Seq(Messages), upto : Messages \cup {None}, tokens : Nat,
                  archived : BOOLEAN]
      /\ view[t].summary \in Seq(Messages) /\ view[t].upto \in Messages \cup {None}
  BY DEF IInv, TypeOK
<1>2. CASE row' = [row EXCEPT !.tokens = @ + 1]
  BY <1>1, <1>2, CountedRow
<1> DEFINE new == [row EXCEPT !.tokens = @ + 1, !.summary = view[t].summary,
                              !.upto = view[t].upto]
<1>3. CASE row' = new
  <2>1. PICK n \in Nat : n = row.tokens + 1
    BY <1>1
  <2>2. PICK r : r = new /\ row' = r
    BY <1>3
  <2>3. r = [[[row EXCEPT !.tokens = n] EXCEPT !.summary = view[t].summary]
                EXCEPT !.upto = view[t].upto]
    BY <1>1, <2>1, <2>2
  <2> HIDE DEF new
  <2> QED BY <1>1, <2>1, <2>2, <2>3
<1> QED BY <1>2, <1>3 DEF Commit

\* The question is stored, and with it what a JSON turn folded.
LEMMA CommitStep == ASSUME IInv, NEW t \in Turns, Commit(t) PROVE IInv'
<1>1. /\ pc[t] = "committing" /\ pc' = [pc EXCEPT ![t] = "streaming"] /\ pc \in [Turns -> Phases]
      /\ stored' = stored \cup {Question(t)} /\ rowLock' = None
      /\ UNCHANGED <<mode, began, view, recent, batch, folded, lock, at, clock, bounds>>
  BY DEF Commit, Go, IInv, TypeOK
<1>2. /\ row \in [summary : Seq(Messages), upto : Messages \cup {None}, tokens : Nat, archived : BOOLEAN]
      /\ view[t].summary \in Seq(Messages) /\ view[t].upto \in Messages \cup {None}
  BY DEF IInv, TypeOK
<1>3. /\ row' \in [summary : Seq(Messages), upto : Messages \cup {None}, tokens : Nat, archived : BOOLEAN]
      /\ row'.tokens = row.tokens + 1
      /\ \/ row'.summary = row.summary /\ row'.upto = row.upto
         \/ row'.summary = view[t].summary /\ row'.upto = view[t].upto
  BY CommittedRow
<1>4. /\ Question(t) \in Messages /\ Question(t) \notin stored /\ Answer(t) \notin stored
      /\ IsFiniteSet(stored) /\ stored \subseteq Messages /\ at[Question(t)] > 0
  BY <1>1, MessagesDiffer DEF IInv, TypeOK, TurnInv, StoredInv, Perhaps, Committed, Inserted
<1>5. IsFiniteSet(stored') /\ Cardinality(stored') = Cardinality(stored) + 1
  BY <1>1, <1>4, FS_AddElement
<1>6. TokensExact'
  BY <1>3, <1>5 DEF IInv, TokensExact
<1>7. pc' \in [Turns -> Phases] /\ pc'[t] = "streaming" /\ \A u \in Turns \ {t} : pc'[u] = pc[u]
  BY <1>1 DEF Phases, Holding
<1>8. TypeOK'
  BY <1>1, <1>3, <1>4, <1>7 DEF IInv, TypeOK, bounds
<1>9. LockHeldByRunningTurn'
  BY <1>1, <1>7 DEF IInv, LockHeldByRunningTurn, Holding
<1>10. TimesInv'
  BY <1>1, <1>4 DEF IInv, TimesInv
<1>11. Foldable(t) = stored' /\ Foldable(t)' = stored'
  BY <1>1, <1>7 DEF Foldable
<1>12. Sound(at, row.summary, row.upto, stored)'
  <2>1. Sound(at, row.summary, row.upto, stored')
    BY <1>1, SoundStands DEF IInv
  <2>2. Sound(at, view[t].summary, view[t].upto, stored')
    BY <1>11 DEF IInv, TurnInv, CopyInv
  <2> QED BY <1>1, <1>3, <2>1, <2>2
<1>13. TurnInv(t)'
  <2>1. StoredInv(t)'
    BY <1>1, <1>4, <1>7, MessagesDiffer DEF IInv, TurnInv, StoredInv, Inserted, Committed, Perhaps
  <2>2. CopyInv(t)'
    BY <1>1, <1>11, CopyStands
  <2> QED BY <1>7, <2>1, <2>2 DEF TurnInv, BatchInv
<1>14. \A u \in Turns \ {t} : Elsewhere(u)
  BY <1>1, <1>7, MessagesDiffer DEF Elsewhere
<1> QED BY <1>5, <1>6, <1>8, <1>9, <1>10, <1>12, <1>13, <1>14, TableStep

LEMMA BeginAnswerStep == ASSUME IInv, NEW t \in Turns, BeginAnswer(t) PROVE IInv'
<1>1. /\ pc[t] = "behind" /\ pc' = [pc EXCEPT ![t] = "waiting"] /\ pc \in [Turns -> Phases]
      /\ clock' = clock + 1 /\ at' = [at EXCEPT ![Answer(t)] = clock + 1]
      /\ UNCHANGED <<mode, began, view, recent, batch, folded, lock, row, stored, rowLock, bounds>>
  BY DEF BeginAnswer, Go, IInv, TypeOK, tables, locals
<1>2. /\ clock \in Nat /\ began \in [Turns -> 0..clock] /\ at \in [Messages -> 0..clock]
      /\ Answer(t) \in Messages /\ Question(t) \in Messages /\ Question(t) # Answer(t)
      /\ Answer(t) \notin stored /\ stored \subseteq Messages
  BY <1>1, MessagesDiffer DEF IInv, TypeOK, TurnInv, StoredInv
<1>3. /\ began' \in [Turns -> 0..clock'] /\ at' \in [Messages -> 0..clock'] /\ clock' \in Nat
      /\ at'[Answer(t)] = clock + 1 /\ \A m \in Messages \ {Answer(t)} : at'[m] = at[m]
  <2>1. clock' = clock + 1 /\ began' = began /\ at' = [at EXCEPT ![Answer(t)] = clock + 1]
    BY <1>1
  <2> QED BY <1>2, <2>1
<1>4. pc' \in [Turns -> Phases] /\ pc'[t] = "waiting" /\ \A u \in Turns \ {t} : pc'[u] = pc[u]
  BY <1>1 DEF Phases, Writing
<1>5. TypeOK'
  BY <1>1, <1>3, <1>4 DEF IInv, TypeOK, bounds
<1>6. LockHeldByRunningTurn'
  BY <1>1, <1>4 DEF IInv, LockHeldByRunningTurn, Holding
<1>7. TimesInv'
  <2>1. \A m, n \in Messages : m # n /\ at'[m] = at'[n] => at'[m] = 0
    BY <1>2, <1>3 DEF IInv, TimesInv
  <2>2. \A m \in stored : at'[m] > 0
    BY <1>2, <1>3 DEF IInv, TimesInv
  <2>3. \A u \in Turns, m \in Messages : began[u] > 0 /\ at'[m] = began[u] => m = Question(u)
    BY <1>2, <1>3 DEF IInv, TimesInv
  <2> QED BY <1>1, <2>1, <2>2, <2>3 DEF IInv, TimesInv
<1>8. \A m \in stored : at'[m] = at[m]
  BY <1>2, <1>3
<1>9. Sound(at, row.summary, row.upto, stored)'
  BY <1>1, <1>8, SoundStands DEF IInv
<1>10. TurnInv(t)'
  <2>1. StoredInv(t)'
    BY <1>1, <1>2, <1>3, <1>4 DEF IInv, TurnInv, StoredInv, Inserted, Committed, Perhaps
  <2>2. CopyInv(t)'
    BY <1>1, <1>4, <1>8, CopyStands DEF Foldable
  <2> QED BY <1>4, <2>1, <2>2 DEF TurnInv, BatchInv
<1>11. \A u \in Turns \ {t} : Elsewhere(u)
  BY <1>1, <1>3, <1>4, <1>8, MessagesDiffer DEF Elsewhere
<1> QED BY <1>1, <1>5, <1>6, <1>7, <1>9, <1>10, <1>11, TableStep DEF IInv, TokensExact

LEMMA StoreAnswerStep == ASSUME IInv, NEW t \in Turns, StoreAnswer(t) PROVE IInv'
<1>1. /\ pc[t] = "waiting" /\ pc' = [pc EXCEPT ![t] = "answered"] /\ pc \in [Turns -> Phases]
      /\ stored' = stored \cup {Answer(t)} /\ row' = [row EXCEPT !.tokens = @ + 1]
      /\ UNCHANGED <<mode, began, view, recent, batch, folded, lock, rowLock, at, clock, bounds>>
  BY DEF StoreAnswer, Go, IInv, TypeOK, locals
<1>2. row \in [summary : Seq(Messages), upto : Messages \cup {None}, tokens : Nat, archived : BOOLEAN]
  BY DEF IInv, TypeOK
<1>3. /\ row' \in [summary : Seq(Messages), upto : Messages \cup {None}, tokens : Nat, archived : BOOLEAN]
      /\ row'.tokens = row.tokens + 1 /\ row'.summary = row.summary /\ row'.upto = row.upto
  <2>1. row' = [row EXCEPT !.tokens = @ + 1]
    BY <1>1
  <2> QED BY <1>2, <2>1, CountedRow
<1>4. /\ Answer(t) \in Messages /\ Answer(t) \notin stored /\ Question(t) \in stored /\ Question(t) # Answer(t)
      /\ IsFiniteSet(stored) /\ stored \subseteq Messages
  BY <1>1, MessagesDiffer DEF IInv, TypeOK, TurnInv, StoredInv, Committed
<1>5. at[Answer(t)] > 0
  <2>1. at[Question(t)] < at[Answer(t)] /\ at[Question(t)] \in Nat /\ at[Answer(t)] \in Nat
    BY <1>1, MessagesDiffer DEF IInv, TypeOK, TurnInv, StoredInv
  <2> QED BY <2>1
<1>6. IsFiniteSet(stored') /\ Cardinality(stored') = Cardinality(stored) + 1
  BY <1>1, <1>4, FS_AddElement
<1>7. TokensExact'
  BY <1>3, <1>6 DEF IInv, TokensExact
<1>8. pc' \in [Turns -> Phases] /\ pc'[t] = "answered" /\ \A u \in Turns \ {t} : pc'[u] = pc[u]
  BY <1>1 DEF Phases, Terminal
<1>9. TypeOK'
  BY <1>1, <1>3, <1>4, <1>8 DEF IInv, TypeOK, bounds
<1>10. LockHeldByRunningTurn'
  BY <1>1, <1>8 DEF IInv, LockHeldByRunningTurn, Holding
<1>11. TimesInv'
  BY <1>1, <1>5 DEF IInv, TimesInv
<1>12. Sound(at, row.summary, row.upto, stored)'
  <2>1. Sound(at, row.summary, row.upto, stored')
    BY <1>1, SoundStands DEF IInv
  <2> QED BY <1>1, <1>3, <2>1
<1>13. TurnInv(t)'
  <2>1. StoredInv(t)'
    BY <1>1, <1>4, <1>8 DEF IInv, TurnInv, StoredInv, Inserted, Committed, Perhaps
  <2>2. CopyInv(t)'
    BY <1>1, <1>8, CopyStands DEF Foldable
  <2> QED BY <1>8, <2>1, <2>2 DEF TurnInv, BatchInv
<1>14. \A u \in Turns \ {t} : Elsewhere(u)
  BY <1>1, <1>8, MessagesDiffer DEF Elsewhere
<1> QED BY <1>6, <1>7, <1>9, <1>10, <1>11, <1>12, <1>13, <1>14, TableStep

LEMMA ArchiveStep == ASSUME IInv, Archive PROVE IInv'
<1>1. /\ row' = [row EXCEPT !.archived = TRUE]
      /\ row \in [summary : Seq(Messages), upto : Messages \cup {None}, tokens : Nat, archived : BOOLEAN]
  BY DEF Archive, IInv, TypeOK
<1>2. /\ row' \in [summary : Seq(Messages), upto : Messages \cup {None}, tokens : Nat, archived : BOOLEAN]
      /\ row'.summary = row.summary /\ row'.upto = row.upto /\ row'.tokens = row.tokens
  BY <1>1
<1>3. UNCHANGED <<pc, locals, lock, stored, rowLock, at, clock, bounds>>
  BY DEF Archive
<1>4. TypeOK'
  BY <1>2, <1>3 DEF IInv, TypeOK, locals, bounds
<1>5. LockHeldByRunningTurn' /\ IsFiniteSet(stored)' /\ TokensExact' /\ TimesInv'
  BY <1>2, <1>3 DEF IInv, LockHeldByRunningTurn, TokensExact, TimesInv, locals
<1>6. Sound(at, row.summary, row.upto, stored)'
  BY <1>2, <1>3 DEF IInv
<1>7. ASSUME NEW t \in Turns PROVE TurnInv(t)'
  BY <1>3, ElsewhereStands DEF IInv, Elsewhere, locals
<1> QED BY <1>4, <1>5, <1>6, <1>7 DEF IInv

LEMMA RestartStep == ASSUME IInv, Restart PROVE IInv'
<1>1. /\ pc' = [t \in Turns |-> IF pc[t] \in Terminal \cup {"idle"} THEN pc[t] ELSE "lost"]
      /\ view' = [t \in Turns |-> NoView] /\ lock' = None /\ rowLock' = None
      /\ UNCHANGED <<mode, began, row, stored, at, clock, faults, abandons>> /\ restarts' = restarts + 1
  BY DEF Restart, tables
<1>2. pc' \in [Turns -> Phases]
  BY <1>1 DEF IInv, TypeOK, Phases, Terminal
<1>3. <<>> \in Seq(Messages) /\ NoView \in [summary : Seq(Messages), upto : Messages \cup {None}, tokens : Nat]
  BY EmptySeq DEF NoView
<1>4. TypeOK'
  <2>1. /\ view' \in [Turns -> [summary : Seq(Messages), upto : Messages \cup {None}, tokens : Nat]]
        /\ recent' \in [Turns -> Seq(Messages)] /\ batch' \in [Turns -> Seq(Messages)]
        /\ folded' \in [Turns -> BOOLEAN]
    BY <1>1, <1>3 DEF Restart
  <2>2. faults' \in Nat /\ abandons' \in Nat /\ restarts' \in Nat
    BY <1>1 DEF IInv, TypeOK
  <2>3. lock' \in Turns \cup {None} /\ rowLock' \in Turns \cup {None}
    BY <1>1
  <2>4. UNCHANGED <<mode, began, row, stored, at, clock>>
    BY <1>1
  <2> QED BY <1>2, <2>1, <2>2, <2>3, <2>4 DEF IInv, TypeOK
<1>5. ASSUME NEW t \in Turns PROVE TurnInv(t)'
  <2>1. IF pc[t] \in Terminal \cup {"idle"} THEN pc'[t] = pc[t] ELSE pc'[t] = "lost"
    BY <1>1
  <2>2. StoredInv(t)'
    BY <1>1, <2>1 DEF IInv, TurnInv, StoredInv, Inserted, Committed, Perhaps, Terminal
  <2>3. CopyInv(t)'
    BY <1>1, EmptySound DEF CopyInv, NoView
  <2>4. pc'[t] # "folding"
    BY <2>1 DEF Terminal
  <2> QED BY <2>2, <2>3, <2>4 DEF TurnInv, BatchInv
<1>6. LockHeldByRunningTurn'
  <2>1. \A t \in Turns : pc'[t] \notin Holding
    BY <1>1 DEF Holding, Terminal
  <2> QED BY <1>1, <2>1, ConstantsAssumption DEF LockHeldByRunningTurn
<1>7. IsFiniteSet(stored)' /\ TokensExact' /\ TimesInv' /\ Sound(at, row.summary, row.upto, stored)'
  BY <1>1 DEF IInv, TokensExact, TimesInv
<1> QED BY <1>4, <1>5, <1>6, <1>7 DEF IInv

LEMMA IInvStep == IInv /\ [Next]_vars => IInv'
<1> SUFFICES ASSUME IInv, [Next]_vars PROVE IInv'
  OBVIOUS
<1>1. CASE UNCHANGED vars
  <2>1. \A t \in Turns : Elsewhere(t)
    BY <1>1 DEF vars, locals, tables, Elsewhere
  <2>2. \A t \in Turns : TurnInv(t)'
    BY <2>1, ElsewhereStands DEF IInv
  <2> QED BY <1>1, <2>2 DEF vars, locals, tables, bounds, IInv, TypeOK, LockHeldByRunningTurn, TokensExact, TimesInv
<1>2. ASSUME NEW t \in Turns, Begin(t) PROVE IInv'
  BY <1>2, ResolveStep, RefuseBusyStep, AcquireStep, AbandonStep DEF Begin
<1>3. ASSUME NEW t \in Turns, Store(t) PROVE IInv'
  BY <1>3, InsertUserStep, CountUserStep, LoadMemoryStep, ApplySummaryStep, SummaryFailsStep, CommitStep,
     AbortStep, RollbackStep DEF Store
<1>4. ASSUME NEW t \in Turns, Stream(t) PROVE IInv'
  BY <1>4, StreamIInv
<1>5. ASSUME NEW t \in Turns, Behind(t) PROVE IInv'
  BY <1>5, BeginAnswerStep, StoreAnswerStep, AnswerFailsStep DEF Behind
<1>6. CASE Archive \/ Restart
  BY <1>6, ArchiveStep, RestartStep
<1> QED BY <1>1, <1>2, <1>3, <1>4, <1>5, <1>6 DEF Next, Turn

LEMMA Invariance == Spec => []IInv
<1> QED BY InitIInv, IInvStep, PTL DEF Spec

-----------------------------------------------------------------------------
(* What load_memory reads of the history *)

\* A summary ends at its boundary.
Ends(seq, boundary) ==
    /\ seq = <<>> => boundary = None
    /\ seq # <<>> => boundary = seq[Len(seq)]

\* The rows load_memory folds.
LoadRows(t) ==
    IF PendingPairs(t) >= Threshold(view[t]) THEN LoadPending(t, PendingPairs(t)) ELSE <<>>

\* A prefix, place by place.
LEMMA PrefixFacts ==
    ASSUME NEW S, NEW s \in Seq(S), NEW r \in Seq(S), Len(r) <= Len(s)
    PROVE  IsPrefix(r, s) <=> \A i \in 1..Len(r) : r[i] = s[i]
<1>1. Len(r) \in Nat /\ Len(s) \in Nat
  OBVIOUS
<1>2. /\ SubSeq(r, 1, Len(r)) \in Seq(S) /\ Len(SubSeq(r, 1, Len(r))) = Len(r)
      /\ \A i \in 1..Len(r) : SubSeq(r, 1, Len(r))[i] = r[i]
  BY <1>1, SliceFacts
<1>3. /\ SubSeq(s, 1, Len(r)) \in Seq(S) /\ Len(SubSeq(s, 1, Len(r))) = Len(r)
      /\ \A i \in 1..Len(r) : SubSeq(s, 1, Len(r))[i] = s[i]
  BY <1>1, SliceFacts
<1> DEFINE a == SubSeq(r, 1, Len(r))
           b == SubSeq(s, 1, Len(r))
<1> HIDE DEF a, b
<1>4. a = b <=> \A i \in 1..Len(r) : a[i] = b[i]
  BY <1>1, <1>2, <1>3 DEF a, b
<1> QED BY <1>2, <1>3, <1>4 DEF IsPrefix, a, b

\* A list is increasing, so that it is in order at and below each of its places.
LEMMA ListOrder ==
    ASSUME NEW f, NEW S, Distinct(f, S), NEW s, Lists(f, S, s),
           NEW i \in 1..Len(s), NEW j \in 1..Len(s)
    PROVE  (f[s[i]] <= f[s[j]] <=> i <= j) /\ (s[i] = s[j] <=> i = j)
<1>1. Len(s) \in Nat /\ s[i] \in S /\ s[j] \in S /\ f[s[i]] \in Nat /\ f[s[j]] \in Nat
  BY DEF Lists, Distinct
<1>2. (i < j => f[s[i]] < f[s[j]]) /\ (j < i => f[s[j]] < f[s[i]])
  BY DEF Lists
<1> QED BY <1>1, <1>2

\* What an alternating transcript is: P pairs and the question of the turn.
Full(t, P) ==
    /\ P \in Nat /\ Distinct(at, Visible(t)) /\ Lists(at, Visible(t), InOrder(Visible(t)))
    /\ Len(InOrder(Visible(t))) = 2 * P + 1
    /\ InOrder(Visible(t))[2 * P + 1] = Question(t)
    /\ \A i \in 1..(2 * P + 1) : IsUser(InOrder(Visible(t))[i]) <=> i % 2 = 1

\* Its own question is the last message a turn reads.
LEMMA TranscriptFacts ==
    ASSUME IInv, NEW t \in Turns, pc[t] \in Inserted, Alternates(Visible(t))
    PROVE  \E P \in Nat : Full(t, P)
<1> DEFINE V == Visible(t)
           s == InOrder(V)
           N == Len(s)
<1>1. Distinct(at, V) /\ V \in SUBSET Messages
  BY VisibleFacts DEF Distinct
<1>2. Lists(at, V, s) /\ s \in Seq(V) /\ N \in Nat
  <2>1. Lists(at, V, s)
    BY <1>1, InOrderLists
  <2> QED BY <2>1 DEF Lists
<1>3. \A i \in 1..N : IF i % 2 = 1 THEN IsUser(s[i]) ELSE ~IsUser(s[i]) /\ s[i][2] = s[i - 1][2]
  BY <1>2 DEF Alternates
<1>4. Question(t) \in V /\ IsUser(Question(t))
  BY DEF Visible, Question, IsUser
<1> HIDE DEF V, s
<1>5. PICK h \in 1..N : s[h] = Question(t)
  BY <1>2, <1>4 DEF Lists
<1>6. h % 2 = 1
  BY <1>3, <1>4, <1>5
<1>7. h = N
  <2> SUFFICES ASSUME h # N PROVE FALSE
    OBVIOUS
  <2>1. h + 1 \in 1..N /\ (h + 1) % 2 # 1 /\ (h + 1) - 1 = h
    BY <1>2, <1>6
  <2>2. ~IsUser(s[h + 1]) /\ s[h + 1][2] = s[h][2] /\ s[h + 1] \in V
    BY <1>2, <1>3, <2>1
  <2>3. s[h][2] = t
    BY <1>5 DEF Question
  <2>4. s[h + 1] = Answer(t)
    BY <1>1, <2>2, <2>3 DEF Messages, IsUser, Answer
  <2>5. Answer(t) \in stored
    BY <1>4, <2>2, <2>4, MessagesDiffer DEF V, Visible
  <2> QED BY <2>5 DEF IInv, TurnInv, StoredInv, Inserted
<1>8. PICK P \in Nat : N = 2 * P + 1
  <2>1. (N - 1) \div 2 \in Nat /\ N = 2 * ((N - 1) \div 2) + 1
    BY <1>6, <1>7
  <2> QED BY <2>1
<1>9. \A i \in 1..N : IsUser(s[i]) <=> i % 2 = 1
  BY <1>3
<1> QED BY <1>1, <1>2, <1>5, <1>7, <1>8, <1>9 DEF Full, V, s

\* The history is the transcript without that question.
LEMMA HistoryFacts ==
    ASSUME NEW t \in Turns, NEW P, Full(t, P)
    PROVE  LET H == InOrder(Visible(t) \ {Question(t)})
           IN  /\ H \in Seq(Visible(t)) /\ Len(H) = 2 * P
               /\ \A i \in 1..(2 * P) : H[i] = InOrder(Visible(t))[i]
<1> DEFINE V == Visible(t)
           T == V \ {Question(t)}
           s == InOrder(V)
           H == InOrder(T)
<1>1. /\ P \in Nat /\ Distinct(at, V) /\ Lists(at, V, s)
      /\ Len(s) = 2 * P + 1 /\ s[2 * P + 1] = Question(t)
  BY DEF Full
<1> HIDE DEF s, H
<1>2. \A i \in 1..Len(s) : s[i] \in T <=> i \in 1..(2 * P)
  <2> TAKE i \in 1..Len(s)
  <2>1. s[i] \in V /\ 2 * P + 1 \in 1..Len(s)
    BY <1>1 DEF Lists
  <2>2. s[i] = Question(t) <=> i = 2 * P + 1
    BY <1>1, <2>1, ListOrder
  <2> QED BY <1>1, <2>1, <2>2
<1>3. s \in Seq(V) /\ T \in SUBSET V
  BY <1>1 DEF Lists
<1> HIDE DEF V, T
<1>4. 2 * P \in Nat /\ 1 \in Nat \ {0} /\ 1 <= 2 * P + 1 /\ 2 * P <= Len(s)
  BY <1>1
<1>5. Distinct(at, T) /\ Lists(at, T, SubSeq(s, 1, 2 * P))
  BY <1>1, <1>2, <1>3, <1>4, SliceLists
<1>6. Lists(at, T, H)
  BY <1>5, InOrderLists DEF H
<1>7. H = SubSeq(s, 1, 2 * P)
  BY <1>5, <1>6, OneList
<1>8. /\ H \in Seq(V) /\ Len(H) = 2 * P + 1 - 1
      /\ \A i \in 1..(2 * P + 1 - 1) : H[i] = s[1 - 1 + i]
  BY <1>3, <1>4, <1>7, SliceFacts
<1>9. /\ H \in Seq(V) /\ Len(H) = 2 * P
      /\ \A i \in 1..(2 * P) : H[i] = s[i]
  BY <1>1, <1>8
<1> QED BY <1>9 DEF H, T, V, s

\* Of P pairs, the summary a turn read holds the first c.
Known(t, P, c) ==
    /\ c \in Nat /\ c <= P
    /\ view[t].summary \in Seq(Messages) /\ Len(view[t].summary) = 2 * c
    /\ \A i \in 1..(2 * c) : view[t].summary[i] = InOrder(Visible(t))[i]
    /\ \A i \in 1..(2 * P + 1) : InOrder(Visible(t))[i] \in UpTo(view[t].upto) <=> i <= 2 * c

\* Its boundary separates them from the others.
LEMMA KnownFacts ==
    ASSUME IInv, NEW t \in Turns, pc[t] \in Inserted, NEW P, Full(t, P),
           Ends(view[t].summary, view[t].upto),
           IsPrefix(view[t].summary, InOrder(Visible(t) \ {Question(t)})),
           Len(view[t].summary) % 2 = 0
    PROVE  \E c \in Nat : Known(t, P, c)
<1> DEFINE V == Visible(t)
           H == InOrder(Visible(t) \ {Question(t)})
           s == InOrder(V)
           k == view[t].summary
           b == view[t].upto
<1>1. P \in Nat /\ Distinct(at, V) /\ Lists(at, V, s) /\ Len(s) = 2 * P + 1 /\ V \subseteq Messages
  BY VisibleFacts DEF Full
<1>2. k \in Seq(Messages) /\ b \in Messages \cup {None}
  BY DEF IInv, TypeOK
<1>3. H \in Seq(V) /\ Len(H) = 2 * P /\ \A i \in 1..(2 * P) : H[i] = s[i]
  BY HistoryFacts
<1>4. H \in Seq(Messages)
  BY <1>1, <1>3, SeqMonotonic
<1>5. Ends(k, b) /\ IsPrefix(k, H) /\ Len(k) % 2 = 0
  OBVIOUS
<1> HIDE DEF H, k, b, s, V
<1>6. Len(k) <= 2 * P /\ \A i \in 1..Len(k) : k[i] = H[i]
  BY <1>2, <1>3, <1>4, <1>5, PrefixFacts DEF IsPrefix
<1>7. PICK c \in Nat : Len(k) = 2 * c
  <2>1. Len(k) \in Nat
    BY <1>2
  <2>2. Len(k) \div 2 \in Nat /\ Len(k) = 2 * (Len(k) \div 2)
    BY <1>5, <2>1
  <2> QED BY <2>2
<1>8. c <= P /\ \A i \in 1..(2 * c) : k[i] = s[i]
  BY <1>1, <1>3, <1>6, <1>7
<1>9. ASSUME NEW i \in 1..(2 * P + 1) PROVE s[i] \in UpTo(b) <=> i <= 2 * c
  <2>1. s[i] \in Messages /\ i \in 1..Len(s) /\ i \in Nat \ {0}
    BY <1>1 DEF Lists
  <2>2. CASE c = 0
    <3>1. b = None
      BY <1>2, <1>5, <1>7, <2>2 DEF Ends
    <3> QED BY <2>1, <2>2, <3>1 DEF UpTo
  <2>3. CASE c # 0
    <3>1. 2 * c \in 1..Len(s) /\ 2 * c \in 1..(2 * c)
      BY <1>1, <1>7, <1>8, <2>3
    <3>2. b = s[2 * c]
      <4>1. k # <<>>
        BY <1>2, <1>7, <2>3
      <4> QED BY <1>5, <1>7, <1>8, <3>1, <4>1 DEF Ends
    <3>3. b # None
      <4>1. s[2 * c] \in Messages
        BY <1>1, <3>1 DEF Lists
      <4> QED BY <3>2, <4>1, MessagesDiffer
    <3>4. at[s[i]] <= at[s[2 * c]] <=> i <= 2 * c
      BY <1>1, <2>1, <3>1, ListOrder
    <3> QED BY <2>1, <3>2, <3>3, <3>4 DEF UpTo
  <2> QED BY <2>2, <2>3
<1> QED BY <1>2, <1>7, <1>8, <1>9 DEF Known, V, s, k, b

\* How many pairs slid out of a window of w pairs and wait to be folded.
Slid(P, w) == IF P > w THEN P - w ELSE 0
Waiting(P, w, c) == IF Slid(P, w) > c THEN Slid(P, w) - c ELSE 0

LEMMA WaitingCounted ==
    ASSUME IInv, NEW t \in Turns, pc[t] \in Inserted, NEW P, Full(t, P), NEW c, Known(t, P, c)
    PROVE  PendingPairs(t) = Waiting(P, WindowPairs(view[t]), c)
<1> DEFINE V == Visible(t)
           s == InOrder(V)
           U == UpTo(view[t].upto)
<1>1. /\ P \in Nat /\ Distinct(at, V) /\ Lists(at, V, s) /\ Len(s) = 2 * P + 1
      /\ \A i \in 1..Len(s) : IsUser(s[i]) <=> i % 2 = 1
      /\ c \in Nat /\ c <= P /\ \A i \in 1..Len(s) : s[i] \in U <=> i <= 2 * c
  BY DEF Full, Known
<1> HIDE DEF V, s, U
<1>2. \A i \in 1..Len(s) : /\ s[i] \in V /\ i % 2 \in {0, 1} /\ i \in Nat
                          /\ i <= 2 * P <=> i # 2 * P + 1
  BY <1>1 DEF Lists
<1>3. Cardinality(Answers(V)) = P
  <2>1. \A i \in 1..Len(s) : s[i] \in Answers(V) <=> i % 2 = 0 /\ i <= 2 * P
    <3> TAKE i \in 1..Len(s)
    <3>1. s[i] \in Answers(V) <=> i % 2 = 0
      BY <1>1, <1>2 DEF Answers
    <3>2. (2 * P + 1) % 2 = 1
      BY <1>1
    <3> QED BY <1>2, <3>1, <3>2
  <2>2. Answers(V) \in SUBSET V /\ 2 * P <= Len(s)
    BY <1>1 DEF Answers
  <2> QED BY <1>1, <2>1, <2>2, EvenPlaces
<1>4. Cardinality(Answers(V \cap U)) = c
  <2>1. \A i \in 1..Len(s) : s[i] \in Answers(V \cap U) <=> i % 2 = 0 /\ i <= 2 * c
    BY <1>1, <1>2 DEF Answers
  <2> DEFINE A == Answers(V \cap U)
  <2>2. A \in SUBSET V /\ 2 * c <= Len(s)
    BY <1>1 DEF Answers
  <2>3. \A i \in 1..Len(s) : s[i] \in A <=> (i % 2 = 0 /\ i <= 2 * c)
    BY <2>1
  <2> HIDE DEF A
  <2>4. Cardinality(A) = c
    BY <1>1, <2>2, <2>3, EvenPlaces
  <2> QED BY <2>4 DEF A
<1> QED BY <1>3, <1>4 DEF PendingPairs, SlidOut, Summarized, Slid, Waiting, V, U

\* The rows past the boundary are those that follow the summary.
LEMMA WaitingLoaded ==
    ASSUME IInv, NEW t \in Turns, pc[t] \in Inserted, NEW P, Full(t, P), NEW c, Known(t, P, c),
           NEW d \in Nat, c + d <= P
    PROVE  LET rows == LoadPending(t, d)
           IN  /\ rows \in Seq(Messages) /\ Len(rows) = 2 * d
               /\ \A i \in 1..(2 * d) : rows[i] = InOrder(Visible(t))[2 * c + i]
<1> DEFINE V == Visible(t)
           s == InOrder(V)
           T == V \ UpTo(view[t].upto)
           a == 2 * c + 1
           N == 2 * P + 1
           rest == InOrder(T)
           rows == LoadPending(t, d)
<1>1. /\ P \in Nat /\ Distinct(at, V) /\ Lists(at, V, s) /\ Len(s) = N /\ V \subseteq Messages
      /\ c \in Nat /\ c <= P /\ \A i \in 1..N : s[i] \in UpTo(view[t].upto) <=> i <= 2 * c
  BY VisibleFacts DEF Full, Known
<1>2. a \in Nat \ {0} /\ N \in Nat /\ a <= N + 1 /\ N <= Len(s) /\ N + 1 - a = 2 * P + 1 - 2 * c
  BY <1>1
<1> HIDE DEF s
<1>3. s \in Seq(V) /\ T \in SUBSET V /\ \A i \in 1..Len(s) : s[i] \in T <=> i \in a..N
  BY <1>1 DEF Lists
<1> HIDE DEF V, T, rest, a, N
<1>4. Distinct(at, T) /\ Lists(at, T, SubSeq(s, a, N))
  BY <1>1, <1>2, <1>3, SliceLists
<1>5. rest = SubSeq(s, a, N)
  <2>1. Lists(at, T, rest)
    BY <1>4, InOrderLists DEF rest
  <2> QED BY <1>4, <2>1, OneList
<1>6. /\ rest \in Seq(V) /\ Len(rest) = N + 1 - a
      /\ \A i \in 1..(N + 1 - a) : rest[i] = s[a - 1 + i]
  BY <1>2, <1>3, <1>5, SliceFacts
<1>7. rows = SubSeq(rest, 1, 2 * d)
  <2>1. 2 * d \in Nat /\ 2 * d < Len(rest)
    BY <1>1, <1>2, <1>6
  <2>2. rows = Oldest(rest, 2 * d)
    BY DEF LoadPending, rest, T, V
  <2> HIDE DEF rows
  <2> QED BY <2>1, <2>2 DEF Oldest
<1> HIDE DEF rows
<1>8. /\ 2 * d \in Nat /\ 2 * d <= Len(rest) /\ 1 \in Nat \ {0}
      /\ 1 <= 2 * d + 1 /\ 2 * d + 1 - 1 = 2 * d
  BY <1>1, <1>2, <1>6
<1>9. /\ rows \in Seq(V) /\ Len(rows) = 2 * d + 1 - 1
      /\ \A i \in 1..(2 * d + 1 - 1) : rows[i] = rest[1 - 1 + i]
  BY <1>6, <1>7, <1>8, SliceFacts
<1>10. \A i \in 1..(2 * d) : rows[i] = s[2 * c + i]
  <2> TAKE i \in 1..(2 * d)
  <2>1. rows[i] = rest[i] /\ i \in 1..(N + 1 - a) /\ a - 1 + i = 2 * c + i
    BY <1>1, <1>2, <1>8, <1>9 DEF a
  <2> QED BY <1>6, <2>1
<1>11. rows \in Seq(Messages)
  BY <1>1, <1>9, SeqMonotonic
<1> QED BY <1>8, <1>9, <1>10, <1>11 DEF rows, s, V

\* The rows the window load reads: the last pairs, as many as the window holds, and the question.
LEMMA WindowFacts ==
    ASSUME IInv, NEW t \in Turns, pc[t] \in Inserted, NEW P, Full(t, P)
    PROVE  \E q \in Nat : /\ q = (IF P < Window THEN P ELSE Window)
                          /\ LoadWindow(t) \in Seq(Messages) /\ Len(LoadWindow(t)) = 2 * q + 1
                          /\ \A i \in 1..(2 * q + 1) :
                              LoadWindow(t)[i] = InOrder(Visible(t))[2 * (P - q) + i]
<1> DEFINE V == Visible(t)
           s == InOrder(V)
           N == 2 * P + 1
           q == IF P < Window THEN P ELSE Window
           a == 2 * (P - q) + 1
           rows == LoadWindow(t)
<1>1. P \in Nat /\ s \in Seq(V) /\ Len(s) = N /\ V \subseteq Messages /\ Window \in Nat \ {0}
  BY VisibleFacts, ConstantsAssumption DEF Full, Lists
<1>2. q \in Nat /\ q <= P /\ q <= Window /\ (q # P => q = Window)
  BY <1>1
<1>3. rows = SubSeq(s, a, N)
  <2>1. rows = SubSeq(s, IF 2 * Window + 1 < N THEN N - (2 * Window + 1) + 1 ELSE 1, N)
    BY <1>1 DEF LoadWindow, Newest
  <2>2. (IF 2 * Window + 1 < N THEN N - (2 * Window + 1) + 1 ELSE 1) = a
    BY <1>1
  <2> HIDE DEF rows, s, a, N
  <2> QED BY <2>1, <2>2
<1> HIDE DEF rows, s, V, q
<1>4. /\ a \in Nat \ {0} /\ N \in Nat /\ a <= N + 1 /\ N <= Len(s) /\ N + 1 - a = 2 * q + 1
      /\ a - 1 = 2 * (P - q)
  BY <1>1, <1>2
<1> HIDE DEF a, N
<1>5. /\ rows \in Seq(V) /\ Len(rows) = N + 1 - a
      /\ \A i \in 1..(N + 1 - a) : rows[i] = s[a - 1 + i]
  BY <1>1, <1>3, <1>4, SliceFacts
<1>6. rows \in Seq(Messages)
  BY <1>1, <1>5, SeqMonotonic
<1>7. Len(rows) = 2 * q + 1 /\ \A i \in 1..(2 * q + 1) : rows[i] = s[2 * (P - q) + i]
  BY <1>4, <1>5
<1> QED BY <1>2, <1>6, <1>7 DEF rows, s, V, q

\* window.assemble shows the last pairs of the history.
LEMMA ShownFacts ==
    ASSUME IInv, NEW t \in Turns, pc[t] \in Inserted, NEW P, Full(t, P), NEW w \in Nat, w <= Window
    PROVE  Newest(Pairs(LoadWindow(t)), w) =
             [k \in 1..(IF P < w THEN P ELSE w) |->
                LET i == 2 * (P - (IF P < w THEN P ELSE w) + k)
                IN  <<InOrder(Visible(t))[i - 1], InOrder(Visible(t))[i]>>]
<1> DEFINE s == InOrder(Visible(t))
           r == LoadWindow(t)
           kept == IF P < w THEN P ELSE w
<1>1. PICK q \in Nat : /\ q = (IF P < Window THEN P ELSE Window)
                       /\ r \in Seq(Messages) /\ Len(r) = 2 * q + 1
                       /\ \A i \in 1..(2 * q + 1) : r[i] = s[2 * (P - q) + i]
  BY WindowFacts
<1>2. P \in Nat /\ Window \in Nat /\ \A i \in 1..(2 * P + 1) : IsUser(s[i]) <=> i % 2 = 1
  BY ConstantsAssumption DEF Full
<1>3. q <= P /\ kept \in Nat /\ kept <= q /\ kept <= P
  BY <1>1, <1>2
<1>4. kept = (IF w < q THEN w ELSE q)
  BY <1>1, <1>2
<1> HIDE DEF s, r
<1>5. \A i \in 1..Len(r) : IsUser(r[i]) <=> i % 2 = 1
  <2> TAKE i \in 1..Len(r)
  <2>1. /\ i \in 1..(2 * q + 1) /\ 2 * (P - q) + i \in 1..(2 * P + 1)
        /\ (2 * (P - q) + i) % 2 = i % 2
    BY <1>1, <1>2, <1>3
  <2> QED BY <1>1, <1>2, <2>1
<1>6. Pairs(r) = [k \in 1..q |-> <<r[2 * k - 1], r[2 * k]>>]
  BY <1>1, <1>5, PairsFacts
<1> DEFINE p == Pairs(r)
           M == Messages \X Messages
           a == q - kept + 1
<1>7. p \in Seq(M) /\ Len(p) = q
  <2>1. \A k \in 1..q : 2 * k - 1 \in 1..Len(r) /\ 2 * k \in 1..Len(r)
    BY <1>1
  <2>2. \A k \in 1..q : <<r[2 * k - 1], r[2 * k]>> \in M
    <3>1. \A i \in 1..Len(r) : r[i] \in Messages
      BY <1>1
    <3> TAKE k \in 1..q
    <3> DEFINE i == 2 * k - 1
               j == 2 * k
    <3>2. i \in 1..Len(r) /\ j \in 1..Len(r)
      BY <2>1
    <3> HIDE DEF i, j
    <3>3. r[i] \in Messages /\ r[j] \in Messages
      BY <3>1, <3>2
    <3> QED BY <3>3 DEF i, j
  <2>3. p \in [1..q -> M]
    BY <1>6, <2>2
  <2> HIDE DEF p, M
  <2> QED BY <2>3, FunctionIsSeq
<1> HIDE DEF p, M, kept
<1>8. Newest(p, w) = SubSeq(p, a, q)
  BY <1>3, <1>4, <1>7 DEF Newest
<1>9. a \in Nat \ {0} /\ a <= q + 1 /\ q <= Len(p) /\ q + 1 - a = kept /\ a - 1 = q - kept
  BY <1>3, <1>7
<1> HIDE DEF a
<1>10. /\ SubSeq(p, a, q) \in Seq(M) /\ Len(SubSeq(p, a, q)) = q + 1 - a
       /\ \A k \in 1..(q + 1 - a) : SubSeq(p, a, q)[k] = p[a - 1 + k]
  BY <1>7, <1>9, SliceFacts
<1>11. \A k \in 1..kept : SubSeq(p, a, q)[k] = <<s[2 * (P - kept + k) - 1], s[2 * (P - kept + k)]>>
  <2> TAKE k \in 1..kept
  <2>1. SubSeq(p, a, q)[k] = p[q - kept + k] /\ q - kept + k \in 1..q
    BY <1>3, <1>9, <1>10
  <2>2. PICK j \in 1..q : j = q - kept + k
    BY <2>1
  <2>3. p[j] = <<r[2 * j - 1], r[2 * j]>>
    BY <1>6 DEF p
  <2>4. 2 * j - 1 \in 1..(2 * q + 1) /\ 2 * j \in 1..(2 * q + 1)
    OBVIOUS
  <2>5. r[2 * j - 1] = s[2 * (P - q) + (2 * j - 1)] /\ r[2 * j] = s[2 * (P - q) + 2 * j]
    BY <1>1, <2>4
  <2>6. /\ 2 * (P - q) + (2 * j - 1) = 2 * (P - kept + k) - 1
        /\ 2 * (P - q) + 2 * j = 2 * (P - kept + k)
    BY <1>2, <1>3, <2>2
  <2> QED BY <2>1, <2>2, <2>3, <2>5, <2>6
<1>12. Newest(p, w) = [k \in 1..kept |-> <<s[2 * (P - kept + k) - 1], s[2 * (P - kept + k)]>>]
  <2> DEFINE n == Newest(p, w)
  <2>1. n \in Seq(M) /\ Len(n) = kept
    BY <1>8, <1>9, <1>10
  <2>2. \A k \in 1..kept : n[k] = <<s[2 * (P - kept + k) - 1], s[2 * (P - kept + k)]>>
    BY <1>8, <1>11
  <2> HIDE DEF n
  <2>3. n = [k \in 1..kept |-> n[k]]
    BY <2>1
  <2>4. n = [k \in 1..kept |-> <<s[2 * (P - kept + k) - 1], s[2 * (P - kept + k)]>>]
    BY <2>2, <2>3
  <2> QED BY <2>4 DEF n
<1> QED BY <1>12 DEF p, r, s, kept

\* What load_memory read for a turn, as long as nothing it read changes.
Loaded(t) == pc[t] = "folding" \/ (pc[t] = "committing" /\ ~folded[t])

LoadTurn(t) ==
    /\ Ends(view[t].summary, view[t].upto)
    /\ pc[t] \in {"loading", "folding", "committing"} => rowLock = t
    /\ Loaded(t) => recent[t] = LoadWindow(t) /\ batch[t] = LoadRows(t)

LoadInv == Ends(row.summary, row.upto) /\ \A t \in Turns : LoadTurn(t)

\* The rows to fold follow the summary, up to the window when there are any.
LEMMA RowsFacts ==
    ASSUME IInv, NEW t \in Turns, pc[t] \in Inserted, NEW P, Full(t, P), NEW c, Known(t, P, c)
    PROVE  LET d == Waiting(P, WindowPairs(view[t]), c)
               rows == LoadRows(t)
           IN  \E m \in Nat : /\ m = (IF d >= Threshold(view[t]) THEN d ELSE 0)
                              /\ c + m <= P
                              /\ rows \in Seq(Messages) /\ Len(rows) = 2 * m
                              /\ \A i \in 1..(2 * m) : rows[i] = InOrder(Visible(t))[2 * c + i]
<1> DEFINE w == WindowPairs(view[t])
           d == Waiting(P, w, c)
           rows == LoadRows(t)
<1>1. P \in Nat /\ c \in Nat /\ c <= P /\ w \in Nat
  BY ConstantsAssumption DEF Full, Known, WindowPairs
<1> HIDE DEF w
<1>2. d \in Nat /\ c + d <= P
  BY <1>1 DEF Waiting, Slid
<1>3. PendingPairs(t) = d
  BY WaitingCounted DEF w
<1> HIDE DEF d
<1>4. CASE d >= Threshold(view[t])
  <2>1. rows = LoadPending(t, d)
    BY <1>3, <1>4 DEF LoadRows
  <2>2. /\ LoadPending(t, d) \in Seq(Messages) /\ Len(LoadPending(t, d)) = 2 * d
        /\ \A i \in 1..(2 * d) : LoadPending(t, d)[i] = InOrder(Visible(t))[2 * c + i]
    BY <1>2, WaitingLoaded
  <2> QED BY <1>2, <1>4, <2>1, <2>2 DEF d, w
<1>5. CASE ~ d >= Threshold(view[t])
  <2>1. rows = <<>>
    BY <1>3, <1>5 DEF LoadRows
  <2>2. /\ <<>> \in Seq(Messages) /\ Len(<<>>) = 2 * 0 /\ c + 0 <= P
        /\ \A i \in 1..(2 * 0) : <<>>[i] = InOrder(Visible(t))[2 * c + i]
    BY <1>1
  <2> QED BY <1>5, <2>1, <2>2 DEF d, w
<1> QED BY <1>4, <1>5

\* The table of window.py.
LEMMA HistoryDivided ==
    ASSUME IInv, NEW t \in Turns, pc[t] \in Inserted, NEW P, Full(t, P), NEW c, Known(t, P, c),
           recent[t] = LoadWindow(t), batch[t] = LoadRows(t)
    PROVE  LET history == InOrder(Visible(t) \ {Question(t)})
               known   == view[t].summary
               pairs   == Len(history) \div 2
               kept    == IF pairs < WindowPairs(view[t]) THEN pairs ELSE WindowPairs(view[t])
               after   == Len(known \o batch[t]) \div 2
           IN  /\ IsPrefix(known \o batch[t], history)
               /\ Assemble(t).pairs = [k \in 1..kept |->
                      LET i == 2 * (pairs - kept + k) IN <<history[i - 1], history[i]>>]
               /\ after <= pairs - kept \/ batch[t] = <<>>
               /\ pairs - kept < after + Threshold(view[t])
<1> DEFINE s == InOrder(Visible(t))
           H == InOrder(Visible(t) \ {Question(t)})
           k == view[t].summary
           B == batch[t]
           w == WindowPairs(view[t])
           T == Threshold(view[t])
           kept == IF P < w THEN P ELSE w
           d == Waiting(P, w, c)
<1>1. /\ P \in Nat /\ c \in Nat /\ c <= P /\ k \in Seq(Messages) /\ Len(k) = 2 * c
      /\ \A i \in 1..(2 * c) : k[i] = s[i]
  BY DEF Full, Known
<1>2. w \in Nat /\ w <= Window /\ T \in Nat \ {0}
  BY ConstantsAssumption DEF WindowPairs, Threshold
<1>3. H \in Seq(Messages) /\ Len(H) = 2 * P /\ \A i \in 1..(2 * P) : H[i] = s[i]
  <2>1. H \in Seq(Visible(t)) /\ Len(H) = 2 * P /\ \A i \in 1..(2 * P) : H[i] = s[i]
    BY HistoryFacts
  <2>2. Visible(t) \subseteq Messages
    BY VisibleFacts
  <2> HIDE DEF H, s
  <2> QED BY <2>1, <2>2, SeqMonotonic
<1>4. PICK m \in Nat : /\ m = (IF d >= T THEN d ELSE 0)
                       /\ c + m <= P
                       /\ B \in Seq(Messages) /\ Len(B) = 2 * m
                       /\ \A i \in 1..(2 * m) : B[i] = s[2 * c + i]
  BY RowsFacts
<1>5. Assemble(t).pairs = [n \in 1..kept |-> <<s[2 * (P - kept + n) - 1], s[2 * (P - kept + n)]>>]
  <2>1. Assemble(t).pairs = Newest(Pairs(LoadWindow(t)), w)
    BY DEF Assemble
  <2> HIDE DEF w
  <2>2. Newest(Pairs(LoadWindow(t)), w) =
          [n \in 1..kept |-> <<s[2 * (P - kept + n) - 1], s[2 * (P - kept + n)]>>]
    BY <1>2, ShownFacts
  <2> QED BY <2>1, <2>2
<1>6. kept \in Nat /\ kept <= P /\ P - kept = Slid(P, w)
  BY <1>1, <1>2 DEF Slid
<1>7. c + m <= P - kept \/ m = 0
  BY <1>1, <1>2, <1>4, <1>6 DEF Waiting, Slid
<1>8. P - kept < c + m + T
  BY <1>1, <1>2, <1>4, <1>6 DEF Waiting, Slid
<1> HIDE DEF s, H, k, B, w, T, kept, d
<1>9. /\ k \o B \in Seq(Messages) /\ Len(k \o B) = 2 * (c + m)
      /\ \A i \in 1..(2 * (c + m)) : (k \o B)[i] = s[i]
  <2>1. /\ k \o B \in Seq(Messages) /\ Len(k \o B) = Len(k) + Len(B)
        /\ \A i \in 1..(Len(k) + Len(B)) : (k \o B)[i] = IF i <= Len(k) THEN k[i] ELSE B[i - Len(k)]
    BY <1>1, <1>4, ConcatProperties
  <2>2. ASSUME NEW i \in 1..(2 * (c + m)) PROVE (k \o B)[i] = s[i]
    <3>1. CASE i <= 2 * c
      <4>1. i \in 1..(2 * c) /\ i \in 1..(Len(k) + Len(B))
        BY <1>1, <1>4, <3>1
      <4> QED BY <1>1, <2>1, <3>1, <4>1
    <3>2. CASE ~ i <= 2 * c
      <4>1. i - 2 * c \in 1..(2 * m) /\ i \in 1..(Len(k) + Len(B)) /\ 2 * c + (i - 2 * c) = i
        BY <1>1, <1>4, <3>2
      <4>2. (k \o B)[i] = B[i - 2 * c]
        BY <1>1, <2>1, <3>2, <4>1
      <4> QED BY <1>4, <4>1, <4>2
    <3> QED BY <3>1, <3>2
  <2>3. Len(k) + Len(B) = 2 * (c + m)
    BY <1>1, <1>4
  <2> QED BY <2>1, <2>2, <2>3
<1>10. IsPrefix(k \o B, H)
  <2> DEFINE r == k \o B
  <2>1. /\ r \in Seq(Messages) /\ Len(r) = 2 * (c + m) /\ 2 * (c + m) <= 2 * P
        /\ \A i \in 1..(2 * (c + m)) : r[i] = s[i]
    BY <1>1, <1>4, <1>9
  <2> HIDE DEF r
  <2>2. Len(r) <= Len(H) /\ \A i \in 1..Len(r) : r[i] = H[i]
    <3>1. Len(r) <= Len(H)
      BY <1>3, <2>1
    <3>2. \A i \in 1..Len(r) : i \in 1..(2 * P) /\ i \in 1..(2 * (c + m))
      BY <1>1, <1>4, <2>1
    <3>3. \A i \in 1..Len(r) : r[i] = s[i] /\ H[i] = s[i]
      BY <1>3, <2>1, <3>2
    <3> QED BY <3>1, <3>3
  <2>3. IsPrefix(r, H)
    BY <1>3, <2>1, <2>2, PrefixFacts
  <2> QED BY <2>3 DEF r
<1>11. Len(H) \div 2 = P /\ Len(k \o B) \div 2 = c + m
  BY <1>1, <1>3, <1>4, <1>9
<1>12. Assemble(t).pairs = [n \in 1..kept |-> <<H[2 * (P - kept + n) - 1], H[2 * (P - kept + n)]>>]
  <2>1. \A n \in 1..kept : /\ 2 * (P - kept + n) - 1 \in 1..(2 * P)
                           /\ 2 * (P - kept + n) \in 1..(2 * P)
    BY <1>1, <1>6
  <2>2. \A n \in 1..kept : <<s[2 * (P - kept + n) - 1], s[2 * (P - kept + n)]>>
                             = <<H[2 * (P - kept + n) - 1], H[2 * (P - kept + n)]>>
    BY <1>3, <2>1
  <2> QED BY <1>5, <2>2
<1>13. c + m <= P - kept \/ B = <<>>
  BY <1>4, <1>7, EmptySeq
<1>14. kept = IF P < w THEN P ELSE w
  BY DEF kept
<1> QED BY <1>8, <1>10, <1>11, <1>12, <1>13, <1>14 DEF H, k, B, w, T

\* What was loaded divides the history, from the inductive invariants.
LEMMA LoadFits == IInv /\ LoadInv => LoadFitsHistory
<1> SUFFICES ASSUME IInv, LoadInv, NEW t \in Turns, Loaded(t), Alternates(Visible(t)),
                    IsPrefix(view[t].summary, InOrder(Visible(t) \ {Question(t)})),
                    Len(view[t].summary) % 2 = 0
             PROVE  LET history == InOrder(Visible(t) \ {Question(t)})
                        known   == view[t].summary
                        pairs   == Len(history) \div 2
                        kept    == IF pairs < WindowPairs(view[t]) THEN pairs
                                   ELSE WindowPairs(view[t])
                        after   == Len(known \o batch[t]) \div 2
                    IN  /\ IsPrefix(known \o batch[t], history)
                        /\ Assemble(t).pairs = [k \in 1..kept |->
                               LET i == 2 * (pairs - kept + k) IN <<history[i - 1], history[i]>>]
                        /\ after <= pairs - kept \/ batch[t] = <<>>
                        /\ pairs - kept < after + Threshold(view[t])
  BY DEF LoadFitsHistory, Loaded
<1>1. pc[t] \in Inserted
  BY DEF Loaded, Inserted
<1>2. PICK P \in Nat : Full(t, P)
  BY <1>1, TranscriptFacts
<1>3. PICK c \in Nat : Known(t, P, c)
  BY <1>1, <1>2, KnownFacts DEF LoadInv, LoadTurn
<1>4. recent[t] = LoadWindow(t) /\ batch[t] = LoadRows(t)
  BY DEF LoadInv, LoadTurn
<1> QED BY <1>1, <1>2, <1>3, <1>4, HistoryDivided

-----------------------------------------------------------------------------
(* What a turn loaded stands *)

\* The order of a set, before and after a step, whose times the step leaves alone.
LEMMA OrderNext == \A S : Distinct(at', S) => Lists(at', S, InOrder(S)')
<1>1. \A S : Distinct(at, S) => Lists(at, S, InOrder(S))
  BY InOrderLists
<1>2. (\A S : Distinct(at, S) => Lists(at, S, InOrder(S)))'
  BY <1>1, InOrderLists, PTL
<1> QED BY <1>2

\* A list by f is one by g when they agree on it.
LEMMA ListsAgree ==
    ASSUME NEW f, NEW g, NEW S, NEW s, \A m \in S : g[m] = f[m]
    PROVE  /\ Distinct(f, S) => Distinct(g, S)
           /\ Lists(f, S, s) => Lists(g, S, s)
<1>1. Distinct(f, S) => Distinct(g, S)
  BY DEF Distinct
<1>2. Lists(f, S, s) => Lists(g, S, s)
  <2> SUFFICES ASSUME Lists(f, S, s) PROVE Lists(g, S, s)
    OBVIOUS
  <2>1. \A i \in 1..Len(s) : s[i] \in S
    BY DEF Lists
  <2> QED BY <2>1 DEF Lists
<1> QED BY <1>1, <1>2

\* What the step leaves alone of what the queries of turn t read.
Reads(t) ==
    /\ view'[t] = view[t] /\ stored' = stored
    /\ \A m \in Visible(t) : at'[m] = at[m]

LEMMA LoadStands ==
    ASSUME IInv, NEW t \in Turns, pc[t] \in Inserted, Reads(t)
    PROVE  LoadWindow(t)' = LoadWindow(t) /\ LoadRows(t)' = LoadRows(t)
<1> DEFINE V == Visible(t)
           b == view[t].upto
           T == V \ UpTo(b)
<1>1. V \in SUBSET Messages /\ Distinct(at, V)
  BY VisibleFacts DEF Distinct
<1>2. b = None \/ b \in V
  BY DEF IInv, TurnInv, CopyInv, Sound, Foldable, Visible
<1>3. V' = V /\ (b)' = b
  BY DEF Reads, Visible
<1>4. T' = T /\ (V \cap UpTo(b))' = V \cap UpTo(b)
  <2>1. \A m \in V : at'[m] = at[m]
    BY DEF Reads
  <2> HIDE DEF V, b
  <2>2. \A m \in V : m \in UpTo(b)' <=> m \in UpTo(b)
    BY <1>1, <1>2, <1>3, <2>1 DEF UpTo
  <2> QED BY <1>3, <2>2
<1>5. Distinct(at, T)
  <2>1. T \in SUBSET V
    OBVIOUS
  <2> QED BY <1>1, <2>1, FS_Subset DEF Distinct
<1>6. InOrder(V)' = InOrder(V)
  <2>1. Distinct(at', V) /\ Lists(at, V, InOrder(V)) /\ Lists(at', V, InOrder(V))
    BY <1>1, InOrderLists, ListsAgree DEF Reads
  <2>2. Lists(at', V', InOrder(V)')
    BY <1>3, <2>1, OrderNext
  <2> QED BY <1>3, <2>1, <2>2, OneList
<1>7. InOrder(T)' = InOrder(T)
  <2>1. \A m \in T : at'[m] = at[m]
    BY DEF Reads
  <2>2. Distinct(at', T) /\ Lists(at, T, InOrder(T)) /\ Lists(at', T, InOrder(T))
    BY <1>5, <2>1, InOrderLists, ListsAgree
  <2>3. Lists(at', T', InOrder(T)')
    BY <1>4, <2>2, OrderNext
  <2> QED BY <1>4, <2>2, <2>3, OneList
<1>8. LoadWindow(t)' = LoadWindow(t)
  BY <1>6 DEF LoadWindow
<1>9. PendingPairs(t)' = PendingPairs(t)
  <2>1. Answers(V)' = Answers(V) /\ Answers(V \cap UpTo(b))' = Answers(V \cap UpTo(b))
    BY <1>3, <1>4 DEF Answers
  <2>2. view'[t] = view[t]
    BY DEF Reads
  <2>3. Summarized(t)' = Summarized(t)
    BY <2>1 DEF Summarized
  <2>4. SlidOut(t)' = SlidOut(t)
    BY <2>1, <2>2 DEF SlidOut
  <2> QED BY <2>3, <2>4 DEF PendingPairs
<1>10. LoadPending(t, PendingPairs(t))' = LoadPending(t, PendingPairs(t))
  BY <1>7, <1>9 DEF LoadPending
<1>11. Threshold(view[t])' = Threshold(view[t])
  BY DEF Reads
<1> QED BY <1>8, <1>9, <1>10, <1>11 DEF LoadRows

-----------------------------------------------------------------------------
(* Steps, and what the turns loaded *)

\* A step of turn t, for the others: it leaves their variables alone, and the row lock and the
\* table unless the lock is free or its own, and the times of what they read.
OwnStep(t) ==
    /\ \A u \in Turns \ {t} :
        /\ pc'[u] = pc[u] /\ view'[u] = view[u] /\ folded'[u] = folded[u]
        /\ recent'[u] = recent[u] /\ batch'[u] = batch[u]
        /\ \A m \in stored \cup {Question(u)} : at'[m] = at[m]
    /\ (rowLock' = rowLock /\ stored' = stored) \/ rowLock \in {None, t}

LEMMA OthersLoads ==
    ASSUME IInv, LoadInv, NEW t \in Turns, OwnStep(t), NEW u \in Turns \ {t}
    PROVE  LoadTurn(u)'
<1>1. /\ pc'[u] = pc[u] /\ view'[u] = view[u] /\ folded'[u] = folded[u]
      /\ recent'[u] = recent[u] /\ batch'[u] = batch[u] /\ LoadTurn(u)
  BY DEF OwnStep, LoadInv
<1>2. Ends(view[u].summary, view[u].upto)'
  BY <1>1 DEF LoadTurn
<1>3. CASE pc[u] \in {"loading", "folding", "committing"}
  <2>1. rowLock = u /\ rowLock' = u /\ stored' = stored
    BY <1>1, <1>3, ConstantsAssumption DEF LoadTurn, OwnStep
  <2>2. Reads(u)
    BY <1>1, <2>1 DEF Reads, OwnStep, Visible
  <2>3. LoadWindow(u)' = LoadWindow(u) /\ LoadRows(u)' = LoadRows(u)
    BY <1>3, <2>2, LoadStands DEF Inserted
  <2>4. Loaded(u)' => Loaded(u)
    BY <1>1 DEF Loaded
  <2> QED BY <1>1, <1>2, <2>1, <2>3, <2>4 DEF LoadTurn
<1>4. CASE pc[u] \notin {"loading", "folding", "committing"}
  <2>1. ~Loaded(u)'
    BY <1>1, <1>4 DEF Loaded
  <2> QED BY <1>1, <1>2, <1>4, <2>1 DEF LoadTurn
<1> QED BY <1>3, <1>4

LEMMA LoadStep ==
    ASSUME IInv, LoadInv, NEW t \in Turns, OwnStep(t), LoadTurn(t)', Ends(row.summary, row.upto)'
    PROVE  LoadInv'
BY OthersLoads DEF LoadInv

\* A turn that is not between its row lock and its commit.
LEMMA LoadRest ==
    ASSUME NEW t \in Turns, NEW phase, pc'[t] = phase,
           phase \notin {"loading", "folding", "committing"}, Ends(view[t].summary, view[t].upto)'
    PROVE  LoadTurn(t)'
BY DEF LoadTurn, Loaded

LEMMA NoViewEnds == Ends(NoView.summary, NoView.upto)
BY DEF Ends, NoView

\* A step that changes the phase of turn t, and neither the table nor a lock of another turn.
LEMMA PhaseLoads ==
    ASSUME IInv, LoadInv, NEW t \in Turns, NEW phase, Go(t, phase),
           phase \notin {"loading", "folding", "committing"},
           UNCHANGED <<view, recent, batch, folded, row, stored, at>>,
           rowLock' = rowLock \/ rowLock = t
    PROVE  LoadInv'
<1>1. pc'[t] = phase /\ \A u \in Turns \ {t} : pc'[u] = pc[u]
  BY DEF Go, IInv, TypeOK
<1>2. OwnStep(t)
  BY <1>1 DEF OwnStep
<1>3. LoadTurn(t)'
  BY <1>1, LoadRest DEF LoadInv, LoadTurn
<1> QED BY <1>2, <1>3, LoadStep DEF LoadInv

LEMMA ForgetLoads ==
    ASSUME IInv, LoadInv, NEW t \in Turns, NEW phase, Go(t, phase), Forget(t),
           phase \notin {"loading", "folding", "committing"},
           UNCHANGED <<row, stored, at, rowLock>>
    PROVE  LoadInv'
<1>1. pc'[t] = phase /\ \A u \in Turns \ {t} : pc'[u] = pc[u]
  BY DEF Go, IInv, TypeOK
<1>2. /\ view'[t] = NoView
      /\ \A u \in Turns \ {t} : /\ view'[u] = view[u] /\ folded'[u] = folded[u]
                                /\ recent'[u] = recent[u] /\ batch'[u] = batch[u]
  BY DEF Forget, IInv, TypeOK
<1>3. OwnStep(t)
  BY <1>1, <1>2 DEF OwnStep
<1>4. LoadTurn(t)'
  BY <1>1, <1>2, NoViewEnds, LoadRest
<1> QED BY <1>3, <1>4, LoadStep DEF LoadInv

LEMMA ResolveLoads == ASSUME IInv, LoadInv, NEW t \in Turns, Resolve(t) PROVE LoadInv'
<1> DEFINE phase == IF row.archived THEN "refused" ELSE "resolved"
           copy == IF row.archived THEN NoView
                   ELSE [summary |-> row.summary, upto |-> row.upto, tokens |-> row.tokens]
<1>1. /\ pc' = [pc EXCEPT ![t] = phase] /\ pc \in [Turns -> Phases]
      /\ view' = [view EXCEPT ![t] = copy] /\ view \in [Turns -> [summary : Seq(Messages),
                     upto : Messages \cup {None}, tokens : Nat]]
      /\ UNCHANGED <<recent, batch, folded, row, stored, at, rowLock>>
  BY DEF Resolve, Go, IInv, TypeOK, tables
<1>2. phase \notin {"loading", "folding", "committing"}
  OBVIOUS
<1>3. Ends(copy.summary, copy.upto)
  BY NoViewEnds DEF LoadInv
<1> HIDE DEF phase, copy
<1>4. /\ pc'[t] = phase /\ view'[t] = copy
      /\ \A u \in Turns \ {t} : pc'[u] = pc[u] /\ view'[u] = view[u]
  BY <1>1
<1>5. OwnStep(t)
  BY <1>1, <1>4 DEF OwnStep
<1>6. LoadTurn(t)'
  BY <1>2, <1>3, <1>4, LoadRest
<1> QED BY <1>1, <1>5, <1>6, LoadStep DEF LoadInv

LEMMA InsertUserLoads == ASSUME IInv, LoadInv, NEW t \in Turns, InsertUser(t) PROVE LoadInv'
<1>1. /\ pc[t] = "locked" /\ pc' = [pc EXCEPT ![t] = "counting"] /\ pc \in [Turns -> Phases]
      /\ at' = [at EXCEPT ![Question(t)] = began'[t]] /\ at \in [Messages -> 0..clock]
      /\ UNCHANGED <<view, recent, batch, folded, row, stored, rowLock>>
      /\ stored \subseteq Messages
  BY DEF InsertUser, Go, IInv, TypeOK, tables
<1>2. Question(t) \notin stored /\ \A u \in Turns \ {t} : Question(u) # Question(t)
                                                         /\ Question(u) \in Messages
  BY <1>1, MessagesDiffer DEF IInv, TurnInv, StoredInv, Perhaps, Committed
<1>3. pc'[t] = "counting" /\ \A u \in Turns \ {t} : pc'[u] = pc[u]
  BY <1>1
<1>4. OwnStep(t)
  BY <1>1, <1>2, <1>3 DEF OwnStep
<1>5. LoadTurn(t)'
  BY <1>1, <1>3, LoadRest DEF LoadInv, LoadTurn
<1> QED BY <1>1, <1>4, <1>5, LoadStep DEF LoadInv

\* The UPDATE takes the row lock, which the turn keeps until it ends its transaction.
LEMMA CountUserLoads == ASSUME IInv, LoadInv, NEW t \in Turns, CountUser(t) PROVE LoadInv'
<1>1. /\ rowLock = None /\ rowLock' = t
      /\ pc' = [pc EXCEPT ![t] = "loading"] /\ pc \in [Turns -> Phases]
      /\ view' = [view EXCEPT ![t].tokens = @ + 1]
      /\ view \in [Turns -> [summary : Seq(Messages), upto : Messages \cup {None}, tokens : Nat]]
      /\ UNCHANGED <<recent, batch, folded, row, stored, at>>
  BY DEF CountUser, Go, IInv, TypeOK, tables
<1>2. PICK copy : /\ view' = [view EXCEPT ![t] = copy]
                  /\ copy.summary = view[t].summary /\ copy.upto = view[t].upto
  <2>1. view[t] \in [summary : Seq(Messages), upto : Messages \cup {None}, tokens : Nat]
    BY <1>1
  <2>2. PICK copy : copy = [view[t] EXCEPT !.tokens = @ + 1] /\ view' = [view EXCEPT ![t] = copy]
    BY DEF CountUser
  <2>3. copy.summary = view[t].summary /\ copy.upto = view[t].upto
    BY <2>1, <2>2
  <2> QED BY <2>2, <2>3
<1>3. /\ pc'[t] = "loading" /\ view'[t] = copy
      /\ \A u \in Turns \ {t} : pc'[u] = pc[u] /\ view'[u] = view[u]
  BY <1>1, <1>2
<1>4. OwnStep(t)
  BY <1>1, <1>3 DEF OwnStep
<1>5. LoadTurn(t)'
  <2>1. Ends(view[t].summary, view[t].upto)'
    BY <1>2, <1>3 DEF LoadInv, LoadTurn
  <2> QED BY <1>1, <1>3, <2>1 DEF LoadTurn, Loaded
<1> QED BY <1>1, <1>4, <1>5, LoadStep DEF LoadInv

LEMMA LoadMemoryLoads == ASSUME IInv, LoadInv, NEW t \in Turns, LoadMemory(t) PROVE LoadInv'
<1>1. PICK phase \in {"folding", "committing"} : pc' = [pc EXCEPT ![t] = phase]
  BY DEF LoadMemory, Go
<1>2. /\ pc[t] = "loading" /\ pc \in [Turns -> Phases]
      /\ recent' = [recent EXCEPT ![t] = LoadWindow(t)]
      /\ batch' = [batch EXCEPT ![t] = LoadRows(t)]
      /\ recent \in [Turns -> Seq(Messages)] /\ batch \in [Turns -> Seq(Messages)]
      /\ UNCHANGED <<view, folded, row, stored, at, rowLock>>
  BY DEF LoadMemory, LoadRows, IInv, TypeOK, tables
<1>3. /\ pc'[t] = phase /\ recent'[t] = LoadWindow(t) /\ batch'[t] = LoadRows(t)
      /\ \A u \in Turns \ {t} : pc'[u] = pc[u] /\ recent'[u] = recent[u] /\ batch'[u] = batch[u]
  BY <1>1, <1>2
<1>4. LoadWindow(t)' = LoadWindow(t) /\ LoadRows(t)' = LoadRows(t)
  BY <1>2, LoadStands DEF Reads, Inserted
<1>5. OwnStep(t)
  BY <1>2, <1>3 DEF OwnStep
<1>6. LoadTurn(t)'
  BY <1>2, <1>3, <1>4 DEF LoadInv, LoadTurn
<1> QED BY <1>2, <1>5, <1>6, LoadStep DEF LoadInv

\* What is appended ends as its end does.
LEMMA EndOfConcat ==
    ASSUME NEW S, NEW a \in Seq(S), NEW b \in Seq(S), b # <<>>
    PROVE  a \o b # <<>> /\ (a \o b)[Len(a \o b)] = Last(b)
<1>1. Len(a) \in Nat /\ Len(b) \in Nat \ {0} /\ a \o b \in Seq(S)
  OBVIOUS
<1>2. Len(a \o b) = Len(a) + Len(b)
  BY ConcatProperties
<1>3. \A i \in 1..(Len(a) + Len(b)) : (a \o b)[i] = IF i <= Len(a) THEN a[i] ELSE b[i - Len(a)]
  BY ConcatProperties
<1>4. /\ Len(a) + Len(b) \in 1..(Len(a) + Len(b)) /\ ~ Len(a) + Len(b) <= Len(a)
      /\ Len(a) + Len(b) - Len(a) = Len(b)
  BY <1>1
<1>5. (a \o b)[Len(a) + Len(b)] = b[Len(b)]
  BY <1>3, <1>4
<1> QED BY <1>1, <1>2, <1>5, EmptySeq DEF Last

\* The new boundary is the last message folded.
LEMMA ApplySummaryLoads == ASSUME IInv, LoadInv, NEW t \in Turns, ApplySummary(t) PROVE LoadInv'
<1>1. /\ pc[t] = "folding" /\ pc' = [pc EXCEPT ![t] = "committing"] /\ pc \in [Turns -> Phases]
      /\ folded' = [folded EXCEPT ![t] = TRUE] /\ folded \in [Turns -> BOOLEAN]
      /\ UNCHANGED <<recent, batch, row, stored, at, rowLock>>
  BY DEF ApplySummary, Go, IInv, TypeOK, tables
<1>2. /\ view' = [view EXCEPT ![t].summary = @ \o batch[t], ![t].upto = Last(batch[t])]
      /\ view \in [Turns -> [summary : Seq(Messages), upto : Messages \cup {None}, tokens : Nat]]
      /\ batch[t] \in Seq(Messages) /\ batch[t] # <<>>
  BY <1>1 DEF ApplySummary, IInv, TypeOK, TurnInv, BatchInv, Pending
<1> DEFINE seq == view[t].summary \o batch[t]
           last == Last(batch[t])
<1>3. view[t].summary \in Seq(Messages) /\ seq \in Seq(Messages)
  BY <1>2
<1>4. seq # <<>> /\ last = seq[Len(seq)]
  BY <1>2, <1>3, EndOfConcat
<1> HIDE DEF seq, last
<1>5. view'[t].summary = seq /\ view'[t].upto = last /\ \A u \in Turns \ {t} : view'[u] = view[u]
  BY <1>2 DEF seq, last
<1>6. /\ pc'[t] = "committing" /\ folded'[t] = TRUE
      /\ \A u \in Turns \ {t} : pc'[u] = pc[u] /\ folded'[u] = folded[u]
  BY <1>1
<1>7. OwnStep(t)
  BY <1>1, <1>5, <1>6 DEF OwnStep
<1>8. LoadTurn(t)'
  <2>1. Ends(view[t].summary, view[t].upto)'
    BY <1>4, <1>5 DEF Ends
  <2> QED BY <1>1, <1>6, <2>1 DEF LoadInv, LoadTurn, Loaded
<1> QED BY <1>1, <1>7, <1>8, LoadStep DEF LoadInv

LEMMA SummaryFailsLoads == ASSUME IInv, LoadInv, NEW t \in Turns, SummaryFails(t) PROVE LoadInv'
<1>1. /\ pc[t] = "folding" /\ pc' = [pc EXCEPT ![t] = "committing"] /\ pc \in [Turns -> Phases]
      /\ UNCHANGED <<view, recent, batch, folded, row, stored, at, rowLock>>
  BY DEF SummaryFails, Go, IInv, TypeOK, locals, tables
<1>2. pc'[t] = "committing" /\ \A u \in Turns \ {t} : pc'[u] = pc[u]
  BY <1>1
<1>3. LoadWindow(t)' = LoadWindow(t) /\ LoadRows(t)' = LoadRows(t)
  BY <1>1, LoadStands DEF Reads, Inserted
<1>4. OwnStep(t)
  BY <1>1, <1>2 DEF OwnStep
<1>5. LoadTurn(t)'
  BY <1>1, <1>2, <1>3 DEF LoadInv, LoadTurn, Loaded
<1> QED BY <1>1, <1>4, <1>5, LoadStep DEF LoadInv

LEMMA CommitLoads == ASSUME IInv, LoadInv, NEW t \in Turns, Commit(t) PROVE LoadInv'
<1>1. /\ pc[t] = "committing" /\ pc' = [pc EXCEPT ![t] = "streaming"] /\ pc \in [Turns -> Phases]
      /\ UNCHANGED <<view, recent, batch, folded, at>>
  BY DEF Commit, Go, IInv, TypeOK
<1>2. \/ row'.summary = row.summary /\ row'.upto = row.upto
      \/ row'.summary = view[t].summary /\ row'.upto = view[t].upto
  BY CommittedRow
<1>3. Ends(row.summary, row.upto)'
  BY <1>2 DEF LoadInv, LoadTurn
<1>4. pc'[t] = "streaming" /\ \A u \in Turns \ {t} : pc'[u] = pc[u]
  BY <1>1
<1>5. rowLock = t
  BY <1>1 DEF LoadInv, LoadTurn
<1>6. OwnStep(t)
  BY <1>1, <1>4, <1>5 DEF OwnStep
<1>7. LoadTurn(t)'
  BY <1>1, <1>4, LoadRest DEF LoadInv, LoadTurn
<1> QED BY <1>3, <1>6, <1>7, LoadStep

LEMMA BeginAnswerLoads == ASSUME IInv, LoadInv, NEW t \in Turns, BeginAnswer(t) PROVE LoadInv'
<1>1. /\ pc[t] = "behind" /\ pc' = [pc EXCEPT ![t] = "waiting"] /\ pc \in [Turns -> Phases]
      /\ at' = [at EXCEPT ![Answer(t)] = clock + 1] /\ at \in [Messages -> 0..clock]
      /\ UNCHANGED <<view, recent, batch, folded, row, stored, rowLock>>
      /\ stored \subseteq Messages
  BY DEF BeginAnswer, Go, IInv, TypeOK, locals, tables
<1>2. /\ Answer(t) \notin stored
      /\ \A u \in Turns : Question(u) # Answer(t) /\ Question(u) \in Messages
  BY <1>1, MessagesDiffer DEF IInv, TurnInv, StoredInv
<1>3. pc'[t] = "waiting" /\ \A u \in Turns \ {t} : pc'[u] = pc[u]
  BY <1>1
<1>4. OwnStep(t)
  BY <1>1, <1>2, <1>3 DEF OwnStep
<1>5. LoadTurn(t)'
  BY <1>1, <1>3, LoadRest DEF LoadInv, LoadTurn
<1> QED BY <1>1, <1>4, <1>5, LoadStep DEF LoadInv

\* The answer is stored when nobody holds the row lock, so no turn is between its load and its
\* commit.
LEMMA StoreAnswerLoads == ASSUME IInv, LoadInv, NEW t \in Turns, StoreAnswer(t) PROVE LoadInv'
<1>1. /\ pc' = [pc EXCEPT ![t] = "answered"] /\ pc \in [Turns -> Phases] /\ rowLock = None
      /\ row' = [row EXCEPT !.tokens = @ + 1]
      /\ UNCHANGED <<view, recent, batch, folded, at>>
  BY DEF StoreAnswer, Go, IInv, TypeOK, locals
<1>2. row'.summary = row.summary /\ row'.upto = row.upto
  BY <1>1, CountedRow DEF IInv, TypeOK
<1>3. pc'[t] = "answered" /\ \A u \in Turns \ {t} : pc'[u] = pc[u]
  BY <1>1
<1>4. OwnStep(t)
  BY <1>1, <1>3 DEF OwnStep
<1>5. LoadTurn(t)'
  BY <1>1, <1>3, LoadRest DEF LoadInv, LoadTurn
<1> QED BY <1>2, <1>4, <1>5, LoadStep DEF LoadInv

LEMMA TurnLoads == ASSUME IInv, LoadInv, NEW t \in Turns, Turn(t) PROVE LoadInv'
<1>1. CASE Resolve(t) \/ InsertUser(t) \/ CountUser(t) \/ LoadMemory(t) \/ ApplySummary(t)
             \/ SummaryFails(t) \/ Commit(t) \/ BeginAnswer(t) \/ StoreAnswer(t)
  BY <1>1, ResolveLoads, InsertUserLoads, CountUserLoads, LoadMemoryLoads, ApplySummaryLoads,
     SummaryFailsLoads, CommitLoads, BeginAnswerLoads, StoreAnswerLoads
<1>2. CASE RefuseBusy(t) \/ Abandon(t) \/ Abort(t) \/ Finish(t) \/ StreamBreaks(t)
  <2>1. PICK phase \in {"busy", "abandoned", "aborted", "behind", "broken"} : Go(t, phase)
    BY <1>2 DEF RefuseBusy, Abandon, Abort, Finish, StreamBreaks
  <2>2. Forget(t) /\ UNCHANGED <<row, stored, at, rowLock>>
    BY <1>2 DEF RefuseBusy, Abandon, Abort, Finish, StreamBreaks, tables
  <2>3. phase \notin {"loading", "folding", "committing"}
    OBVIOUS
  <2> QED BY <2>1, <2>2, <2>3, ForgetLoads
<1>3. CASE Acquire(t) \/ Rollback(t) \/ AnswerFails(t)
  <2>1. PICK phase \in {"locked", "failed", "unsaved"} : Go(t, phase)
    BY <1>3 DEF Acquire, Rollback, AnswerFails
  <2>2. /\ UNCHANGED <<view, recent, batch, folded, row, stored, at>>
        /\ rowLock' = rowLock \/ rowLock = t
    BY <1>3 DEF Acquire, Rollback, AnswerFails, locals, tables
  <2>3. phase \notin {"loading", "folding", "committing"}
    OBVIOUS
  <2> QED BY <2>1, <2>2, <2>3, PhaseLoads
<1> QED BY <1>1, <1>2, <1>3 DEF Turn, Begin, Store, Stream, Behind

\* A step that leaves the turns, the lock and the transcript alone.
LEMMA StillLoads ==
    ASSUME IInv, LoadInv, Ends(row.summary, row.upto)',
           UNCHANGED <<pc, view, recent, batch, folded, stored, at, rowLock>>
    PROVE  LoadInv'
<1>1. ASSUME NEW t \in Turns PROVE LoadTurn(t)'
  <2>1. OwnStep(t) /\ Reads(t)
    BY DEF OwnStep, Reads
  <2>2. pc[t] \in Inserted => LoadWindow(t)' = LoadWindow(t) /\ LoadRows(t)' = LoadRows(t)
    BY <2>1, LoadStands
  <2>3. Loaded(t)' => Loaded(t) /\ pc[t] \in Inserted
    BY DEF Loaded, Inserted
  <2> QED BY <2>2, <2>3 DEF LoadInv, LoadTurn
<1> QED BY <1>1 DEF LoadInv

LEMMA RestartLoads == ASSUME IInv, LoadInv, Restart PROVE LoadInv'
<1>1. ASSUME NEW t \in Turns PROVE LoadTurn(t)'
  <2>1. pc'[t] \notin {"loading", "folding", "committing"} /\ view'[t] = NoView
    BY DEF Restart, Terminal
  <2> QED BY <2>1, NoViewEnds, LoadRest
<1>2. row' = row
  BY DEF Restart, tables
<1> QED BY <1>1, <1>2 DEF LoadInv

LEMMA LoadInvStep == IInv /\ LoadInv /\ [Next]_vars => LoadInv'
<1> SUFFICES ASSUME IInv, LoadInv, [Next]_vars PROVE LoadInv'
  OBVIOUS
<1>1. CASE UNCHANGED vars
  BY <1>1, StillLoads DEF vars, locals, tables, LoadInv
<1>2. CASE Archive
  <2>1. row'.summary = row.summary /\ row'.upto = row.upto
    BY <1>2 DEF Archive, IInv, TypeOK
  <2>2. Ends(row.summary, row.upto)'
    BY <2>1 DEF LoadInv
  <2> QED BY <1>2, <2>2, StillLoads DEF Archive, locals
<1> QED BY <1>1, <1>2, TurnLoads, RestartLoads DEF Next

LEMMA InitLoadInv == Init => LoadInv
<1> SUFFICES ASSUME Init PROVE LoadInv
  OBVIOUS
<1>1. row.summary = <<>> /\ row.upto = None
  BY DEF Init
<1>2. \A t \in Turns : pc[t] = "idle" /\ view[t] = NoView
  BY DEF Init
<1> QED BY <1>1, <1>2, NoViewEnds DEF LoadInv, LoadTurn, Loaded, Ends

LEMMA LoadInvariance == Spec => []LoadInv
<1> QED BY InitLoadInv, LoadInvStep, Invariance, PTL DEF Spec

-----------------------------------------------------------------------------
(* Theorems *)

\* The running total of the session row counts exactly the stored messages, whatever turns,
\* answers, failures and restarts interleave (service.py's two atomic increments).
THEOREM TokensCount == Spec => []TokensExact
<1>1. IInv => TokensExact
  BY DEF IInv
<1> QED BY <1>1, Invariance, PTL

\* The session's lock is held by exactly the turn that is inside _memory_events, or by one whose
\* response was never started (ask.py).
THEOREM OneRunningTurn == Spec => []LockHeldByRunningTurn
<1>1. IInv => LockHeldByRunningTurn
  BY DEF IInv
<1> QED BY <1>1, Invariance, PTL

\* An answer is stored only for a stored question and sorts after it in the transcript.
THEOREM AnswersFollow == Spec => []QuestionsFirst
<1>1. IInv => QuestionsFirst
  BY DEF IInv, TurnInv, StoredInv, Committed, QuestionsFirst
<1> QED BY <1>1, Invariance, PTL

\* No message is folded into the stored summary twice, although turns fold from copies of the row
\* that other turns have folded past (apply_summary, _load_pending).
THEOREM FoldedOnce == Spec => []SummaryOnce
<1>1. ASSUME IInv PROVE SummaryOnce
  <2>1. DOMAIN row.summary = 1..Len(row.summary)
    BY <1>1, LenProperties DEF IInv, TypeOK
  <2> QED BY <1>1, <2>1 DEF IInv, Sound, SummaryOnce
<1> QED BY <1>1, Invariance, PTL

\* When the transcript a turn reads alternates and its copy of the summary covers a whole number of
\* its first pairs, load_memory and window.assemble divide the history as the table in window.py
\* says: the summary after the fold, then fewer pairs than the threshold that wait, then the last
\* pairs verbatim; nothing twice, nothing missing.
THEOREM HistoryFits == Spec => []LoadFitsHistory
<1> QED BY LoadFits, Invariance, LoadInvariance, PTL
=============================================================================
