------------------------- MODULE SemanticCacheProofs -------------------------
(***************************************************************************)
(* What holds of SemanticCache for every value of its constants.           *)
(***************************************************************************)
EXTENDS SemanticCache, FiniteSetTheorems, TLAPS

-----------------------------------------------------------------------------
(* The inductive invariant *)

\* In these phases target[r] names an entry.
Targeting == {"hitRead", "hitCommit", "evictGet", "evictRedis", "evictPg", "evictDrop",
              "victimRedis", "victimPg", "victimDrop", "update", "append"}

\* A task past the match works on an entry, and a hit on the copy it read.
TargetInv ==
    /\ \A r \in Requests : pc[r] \in Targeting => target[r] \in Ids
    /\ \A r \in Requests : pc[r] = "hitCommit" => copy[r] # None

\* The holder of the lock is the one task inside the critical section.
LockInv == \A r \in Requests : pc[r] \in Locked <=> lock = r

\* The matrix is empty until it is loaded; the phases past the load find it loaded.
LoadInv ==
    /\ ~loaded => matrix = << >>
    /\ \A r \in Requests : pc[r] \in {"loadL", "loadW"} => ~loaded
    /\ \A r \in Requests :
         pc[r] \in Targeting \cup {"select", "victim", "insert"} => loaded

\* From its commit on, a write is in these phases.
Written == {"append", "wredis", "done"}

\* Until a write inserts it, the entry a request would create is known nowhere.
UnbornInv ==
    \A r \in Requests : pc[r] \notin Written =>
        /\ pg[r] = None
        /\ r \notin RowIds(matrix)
        /\ \A t \in Requests : target[t] # r

\* An entry about to lose its row has left Postgres.
DropInv == \A r \in Requests : pc[r] \in {"evictDrop", "victimDrop"} => pg[target[r]] = None

\* A question is a request's own from Ask on, and an entry's for good.
AskedInv ==
    /\ \A r \in Requests : pc[r] = "idle" => asked[r] = None /\ served[r] = None
    /\ \A r \in Requests : pc[r] # "idle" => asked[r] \in Questions
    /\ \A s \in Seeds : asked[s] \in Questions
    /\ \A r \in Requests : served[r] # None => asked[served[r]] \in Questions

\* Every copy of an answer sits under the question it answers.
KeyInv ==
    /\ \A e \in Stored : pg[e].q = asked[e] /\ asked[pg[e].ans] = asked[e]
    /\ \A q \in Questions : redis[q] # None => asked[redis[q]] = q
    /\ \A i \in DOMAIN matrix : matrix[i].q = asked[matrix[i].id]
    /\ \A r \in Requests : pc[r] = "hitCommit" => asked[copy[r].ans] = asked[target[r]]
    /\ \A r \in Requests : pc[r] \in {"update", "append"} => asked[target[r]] = asked[r]

\* A lookup past the veto works on a fitting entry.
MatchInv ==
    \A r \in Requests : pc[r] \in {"hitRead", "hitCommit"} =>
        /\ Topic[asked[target[r]]] = Topic[asked[r]]
        /\ Disc[asked[target[r]]] = Disc[asked[r]]

\* The phases of a write that has seen no entry of its question.
Inserting == {"victim", "victimRedis", "victimPg", "victimDrop", "insert"}

\* There is still none while it makes room and inserts its own.
AbsentInv == \A r \in Requests : pc[r] \in Inserting => HasEntryFor(asked[r]) = {}

\* A row that looks current stands for an entry that is.
CurrentInv ==
    /\ \A i \in DOMAIN matrix : matrix[i].man = curMan /\ matrix[i].id \in Stored
                                  => pg[matrix[i].id].man = curMan
    /\ \A r \in Requests : pc[r] \in {"hitRead", "append"} /\ target[r] \in Stored
                             => pg[target[r]].man = curMan

\* On the way to an insert there is room, or the victim that makes room is still stored.
RoomInv ==
    /\ \A r \in Requests : pc[r] \in {"victimRedis", "victimPg"} =>
         target[r] \in Stored \/ Cardinality(Stored) < MaxEntries
    /\ \A r \in Requests : pc[r] \in {"victimDrop", "insert"} => Cardinality(Stored) < MaxEntries

IInv == /\ TypeOK /\ TargetInv /\ LockInv /\ LoadInv /\ UnbornInv /\ DropInv /\ EntriesAreVisible
        /\ AskedInv /\ KeyInv /\ MatchInv /\ ServedAnswersFit
        /\ AbsentInv /\ OneEntryPerQuestion
        /\ CurrentInv /\ HitsAreCurrent
        /\ RoomInv /\ TableBounded

\* In this step an entry that is stored afterwards was stored before, or is being inserted.
KeptOrBorn ==
    \A e \in Ids : pg'[e] # None =>
        \/ pg[e] # None /\ pg'[e].q = pg[e].q /\ pg'[e].man \in {pg[e].man, curMan}
        \/ e \in Requests /\ WriteInsert(e)

\* In this step a write on its way to insert was so before, or finds no entry now.
KeptOrEntering ==
    \A t \in Requests : pc'[t] \in Inserting =>
        asked'[t] = asked[t] /\ (pc[t] \in Inserting \/ HasEntryFor(asked[t]) = {})

\* In this step a write that makes room has just picked its victim, has just removed it, or
\* has just seen that there is room.
KeptOrRoom ==
    \A t \in Requests :
        /\ pc'[t] \in {"victimRedis", "victimPg"} =>
             \/ target'[t] \in Stored
             \/ pc[t] \in {"victimRedis", "victimPg"} /\ target'[t] = target[t]
        /\ pc'[t] \in {"victimDrop", "insert"} =>
             \/ pc[t] \in {"victimDrop", "insert"}
             \/ pc[t] = "victimPg" /\ pg' = [pg EXCEPT ![target[t]] = None]
             \/ pc[t] = "victim" /\ Stored = {}
             \/ pc[t] = "select" /\ Len(matrix) < MaxEntries

-----------------------------------------------------------------------------
(* Lemmas about the matrix *)

\* Deleting a row keeps a sequence of rows, adds none, and keeps every other entry's row.
LEMMA DropRowLemma ==
    ASSUME NEW rows \in Seq(Row), NEW id
    PROVE  /\ DropRow(rows, id) \in Seq(Row)
           /\ \A i \in DOMAIN DropRow(rows, id) : \E j \in DOMAIN rows :
                DropRow(rows, id)[i] = rows[j]
           /\ \A e \in RowIds(rows) : e # id => e \in RowIds(DropRow(rows, id))
<1>1. CASE id \notin RowIds(rows)
  BY <1>1 DEF DropRow
<1>2. CASE id \in RowIds(rows)
  <2> DEFINE i == CHOOSE j \in DOMAIN rows : rows[j].id = id
             out == [k \in 1 .. Len(rows) - 1 |-> IF k < i THEN rows[k] ELSE rows[k + 1]]
  <2>1. i \in 1 .. Len(rows) /\ rows[i].id = id
    BY <1>2 DEF RowIds
  <2>2. DropRow(rows, id) = out
    BY <1>2 DEF DropRow
  <2>3. \A k \in 1 .. Len(rows) - 1 : out[k] \in Row /\ \E j \in DOMAIN rows : out[k] = rows[j]
    <3> TAKE k \in 1 .. Len(rows) - 1
    <3>1. k \in DOMAIN rows /\ k + 1 \in DOMAIN rows
      OBVIOUS
    <3>2. out[k] = rows[k] \/ out[k] = rows[k + 1]
      OBVIOUS
    <3>3. rows[k] \in Row /\ rows[k + 1] \in Row
      BY <3>1
    <3> HIDE DEF out
    <3> QED BY <3>1, <3>2, <3>3
  <2>4. out \in Seq(Row) /\ DOMAIN out = 1 .. Len(rows) - 1
    BY <2>3
  <2>5. ASSUME NEW e \in RowIds(rows), e # id PROVE e \in RowIds(out)
    <3>1. PICK j \in DOMAIN rows : rows[j].id = e
      BY <2>5 DEF RowIds
    <3>2. j \in 1 .. Len(rows) /\ j # i
      BY <3>1, <2>1, <2>5
    <3>3. CASE j < i
      <4>1. j \in 1 .. Len(rows) - 1 /\ out[j] = rows[j]
        BY <3>2, <3>3, <2>1
      <4> QED BY <4>1, <3>1, <2>4 DEF RowIds
    <3>4. CASE j > i
      <4>1. j - 1 \in 1 .. Len(rows) - 1 /\ out[j - 1] = rows[j]
        BY <3>2, <3>4, <2>1
      <4> QED BY <4>1, <3>1, <2>4 DEF RowIds
    <3> QED BY <3>2, <3>3, <3>4, <2>1
  <2> HIDE DEF out
  <2> QED BY <2>2, <2>3, <2>4, <2>5
<1> QED BY <1>1, <1>2

\* Every set of entry ids is finite, and a subset of it that is not all of it is smaller.
LEMMA IdsFinite ==
    /\ \A S \in SUBSET Ids : IsFiniteSet(S) /\ Cardinality(S) \in Nat
    /\ \A S \in SUBSET Ids, T \in SUBSET Ids : S \subseteq T =>
         /\ Cardinality(S) <= Cardinality(T)
         /\ S # T => Cardinality(S) < Cardinality(T)
<1>1. IsFiniteSet(Ids)
  BY ConstantsAssumption, FS_Union DEF Ids
<1>2. ASSUME NEW S \in SUBSET Ids PROVE IsFiniteSet(S) /\ Cardinality(S) \in Nat
  BY <1>1, FS_Subset, FS_CardinalityType
<1>3. ASSUME NEW S \in SUBSET Ids, NEW T \in SUBSET Ids, S \subseteq T
      PROVE  Cardinality(S) <= Cardinality(T) /\ (S # T => Cardinality(S) < Cardinality(T))
  <2>1. IsFiniteSet(T) /\ Cardinality(S) \in Nat /\ Cardinality(T) \in Nat
    BY <1>2
  <2>2. Cardinality(S) <= Cardinality(T) /\ (Cardinality(S) = Cardinality(T) => S = T)
    BY <2>1, <1>3, FS_Subset
  <2> QED BY <2>1, <2>2
<1> QED BY <1>2, <1>3

\* A sequence of rows has at least as many rows as it names entries.
LEMMA RowCount ==
    ASSUME NEW rows \in Seq(Row)
    PROVE  /\ RowIds(rows) \in SUBSET Ids
           /\ Cardinality(RowIds(rows)) <= Len(rows)
<1> DEFINE name == [i \in 1 .. Len(rows) |-> rows[i].id]
<1>1. \A i \in 1 .. Len(rows) : rows[i].id \in Ids
  <2>1. \A i \in 1 .. Len(rows) : rows[i] \in Row
    OBVIOUS
  <2> QED BY <2>1 DEF Row
<1>2. name \in Surjection(1 .. Len(rows), RowIds(rows))
  BY DEF Surjection, RowIds
<1>3. ExistsSurjection(1 .. Len(rows), RowIds(rows))
  BY <1>2 DEF ExistsSurjection
<1>4. Len(rows) \in Nat
  OBVIOUS
<1> QED BY <1>1, <1>3, <1>4, FS_SurjCardinalityBound DEF RowIds

\* The rebuilt matrix is made of the entries of Postgres, each of them present.
LEMMA LoadsLemma ==
    ASSUME TypeOK, NEW rows \in Loads
    PROVE  /\ rows \in Seq(Row)
           /\ RowIds(rows) = Stored
           /\ \A i \in DOMAIN rows : /\ rows[i].id \in Stored
                                     /\ rows[i].q = pg[rows[i].id].q
                                     /\ rows[i].man = pg[rows[i].id].man
<1> DEFINE n == Cardinality(Stored)
<1>1. n \in Nat
  BY IdsFinite DEF Stored
<1>2. PICK f \in [1 .. n -> Stored] : /\ rows = [i \in 1 .. n |-> RowOf(f[i])]
                                     /\ \A e \in Stored : \E i \in 1 .. n : f[i] = e
  BY DEF Loads
<1>3. \A e \in Stored : RowOf(e) \in Row /\ RowOf(e).id = e
  BY DEF TypeOK, Stored, RowOf, Row, Entry
<1> HIDE DEF n
<1>4. rows \in Seq(Row) /\ DOMAIN rows = 1 .. n
  BY <1>1, <1>2, <1>3
<1>5. \A i \in 1 .. n : /\ f[i] \in Stored /\ rows[i].id = f[i]
                        /\ rows[i].q = pg[f[i]].q /\ rows[i].man = pg[f[i]].man
  BY <1>2 DEF RowOf
<1> QED BY <1>2, <1>4, <1>5 DEF RowIds

\* The same of the matrix once the load is over.
LEMMA LoadedMatrix ==
    ASSUME TypeOK, NEW r \in Requests, LoadFinish(r)
    PROVE  /\ matrix' \in Seq(Row)
           /\ RowIds(matrix') = Stored
           /\ \A i \in DOMAIN matrix' : /\ matrix'[i].id \in Stored
                                        /\ matrix'[i].q = pg[matrix'[i].id].q
                                        /\ matrix'[i].man = pg[matrix'[i].id].man
<1>1. PICK rows \in Loads : matrix' = rows
  BY DEF LoadFinish
<1> QED BY <1>1, LoadsLemma

\* Matching works on rows of the matrix it is given.
LEMMA ConsultLemma ==
    ASSUME TypeOK, NEW r \in Requests, NEW rows \in Seq(Row), NEW cur, Consult(r, rows, cur)
    PROVE  /\ pc' \in [Requests -> Phases]
           /\ target' \in [Requests -> Ids \cup {None}]
           /\ \/ pc' = [pc EXCEPT ![r] = "generate"] /\ target' = target
              \/ \E i \in DOMAIN rows :
                   /\ target' = [target EXCEPT ![r] = rows[i].id]
                   /\ pc' = [pc EXCEPT ![r] = IF rows[i].man = cur THEN "hitRead" ELSE "evictGet"]
                   /\ Topic[rows[i].q] = Topic[asked[r]]
                   /\ Disc[rows[i].q] = Disc[asked[r]]
<1>1. Best(asked[r], rows) \subseteq {i \in DOMAIN rows : Topic[rows[i].q] = Topic[asked[r]]}
  BY DEF Best
<1>2. \A i \in DOMAIN rows : rows[i].id \in Ids
  <2>1. \A i \in DOMAIN rows : rows[i] \in Row
    OBVIOUS
  <2> QED BY <2>1 DEF Row
<1>3. pc \in [Requests -> Phases] /\ target \in [Requests -> Ids \cup {None}]
  BY DEF TypeOK
<1> HIDE DEF Best
<1> QED BY <1>1, <1>2, <1>3 DEF Consult, Phases, LookupPhases

-----------------------------------------------------------------------------
(* Type correctness *)

\* Recording a hit or replacing an answer in place keeps an entry an entry.
LEMMA EntryUpdate ==
    ASSUME NEW e \in Entry
    PROVE  /\ \A h \in Nat : [e EXCEPT !.hit = h] \in Entry
           /\ \A a \in Ids, m \in Nat : [e EXCEPT !.ans = a, !.man = m] \in Entry
BY DEF Entry

\* The matrix of a process that has not loaded is a sequence of rows.
LEMMA EmptyMatrix == << >> \in Seq(Row)
OBVIOUS

\* A Redis mutation stores an answer or nothing.
LEMMA RedisCallLemma ==
    ASSUME redis \in [Questions -> Ids \cup {None}], faults \in Nat,
           NEW k, NEW v \in Ids \cup {None}, RedisCall([redis EXCEPT ![k] = v])
    PROVE  redis' \in [Questions -> Ids \cup {None}] /\ faults' \in Nat
BY DEF RedisCall, Fault

\* A cancelled lookup ends where it is; at most the hit it was recording stays recorded.
LEMMA CancelFrame ==
    ASSUME TypeOK, TargetInv, NEW r \in Requests, Cancel(r)
    PROVE  /\ pc[r] \in LookupPhases /\ pc' = [pc EXCEPT ![r] = "cancelled"]
           /\ lock' = IF lock = r THEN None ELSE lock
           /\ copy' = [copy EXCEPT ![r] = None]
           /\ target' \in [Requests -> Ids \cup {None}]
           /\ \A t \in Requests : target'[t] = target[t] \/ (t = r /\ target'[t] = None)
           /\ pc[r] = "evictDrop" => target' = target
           /\ pg' \in [Ids -> Entry \cup {None}] /\ clock' \in Nat
           /\ \A e \in Ids : pg'[e] = None <=> pg[e] = None
           /\ \A e \in Ids : pg[e] # None =>
                pg'[e].q = pg[e].q /\ pg'[e].ans = pg[e].ans /\ pg'[e].man = pg[e].man
           /\ Stored' = Stored
           /\ UNCHANGED <<asked, gen, served, redis, matrix, loaded, curMan, index, bm25, skipped,
                          restarts, faults, cli, doomed, purged, ops>>
<1>1. /\ pg \in [Ids -> Entry \cup {None}] /\ clock \in Nat /\ None \notin Entry
      /\ target \in [Requests -> Ids \cup {None}]
  BY ConstantsAssumption DEF TypeOK
<1>2. /\ pg' \in [Ids -> Entry \cup {None}] /\ clock' \in Nat
      /\ \A e \in Ids : pg'[e] = None <=> pg[e] = None
      /\ \A e \in Ids : pg[e] # None =>
           pg'[e].q = pg[e].q /\ pg'[e].ans = pg[e].ans /\ pg'[e].man = pg[e].man
  <2>1. CASE UNCHANGED <<pg, clock>>
    BY <1>1, <2>1
  <2>2. CASE /\ pc[r] = "hitCommit" /\ pg[target[r]] # None
             /\ pg' = [pg EXCEPT ![target[r]].hit = clock]
             /\ clock' = clock + 1
    <3>1. target[r] \in Ids
      BY <2>2 DEF TargetInv, Targeting
    <3>2. pg[target[r]] \in Entry
      BY <1>1, <2>2, <3>1
    <3>3. [pg[target[r]] EXCEPT !.hit = clock] \in Entry
      BY <1>1, <3>2, EntryUpdate
    <3>4. pg' = [pg EXCEPT ![target[r]] = [pg[target[r]] EXCEPT !.hit = clock]]
      BY <2>2
    <3>5. /\ pg'[target[r]].q = pg[target[r]].q /\ pg'[target[r]].ans = pg[target[r]].ans
          /\ pg'[target[r]].man = pg[target[r]].man
      BY <1>1, <3>1, <3>2, <3>4 DEF Entry
    <3> QED BY <1>1, <2>2, <3>1, <3>2, <3>3, <3>4, <3>5
  <2> QED BY <2>1, <2>2 DEF Cancel
<1>3. Stored' = Stored
  BY <1>2 DEF Stored
<1> QED BY <1>1, <1>2, <1>3 DEF Cancel, procVars, cliVars, envVars

\* Every step keeps every variable in its type.
LEMMA TypeStep ==
    ASSUME TypeOK, TargetInv, AskedInv, [Next]_vars
    PROVE  TypeOK'
<1> USE DEF TypeOK, Phases, LookupPhases, WritePhases, Step, Fault,
            taskVars, procVars, storeVars, cliVars, envVars
<1>1. ASSUME NEW r \in Requests, Ask(r) PROVE TypeOK'
  <2>1. pc' \in [Requests -> Phases] /\ skipped' \subseteq Requests
    BY <1>1 DEF Ask
  <2>2. asked' \in [Ids -> Questions \cup {None}]
    BY <1>1 DEF Ask, Ids
  <2> QED BY <1>1, <2>1, <2>2 DEF Ask
<1>2. ASSUME NEW r \in Requests, RedisHit(r) PROVE TypeOK'
  <2>1. asked[r] \in Questions
    BY <1>2 DEF RedisHit, AskedInv
  <2> QED BY <1>2, <2>1 DEF RedisHit
<1>3. ASSUME NEW r \in Requests, RedisMiss(r) PROVE TypeOK'
  BY <1>3 DEF RedisMiss
<1>4. ASSUME NEW r \in Requests, LoadBegin(r) PROVE TypeOK'
  BY <1>4 DEF LoadBegin
<1>5. ASSUME NEW r \in Requests, LoadFinish(r) PROVE TypeOK'
  <2>1. PICK rows \in Loads :
          /\ matrix' = rows
          /\ \/ pc[r] = "loadL" /\ Consult(r, rows, curMan)
             \/ Step(r, "loadW", "write") /\ UNCHANGED target
    BY <1>5 DEF LoadFinish
  <2>2. rows \in Seq(Row)
    BY <2>1, LoadsLemma
  <2>3. pc' \in [Requests -> Phases] /\ target' \in [Requests -> Ids \cup {None}]
    BY <2>1, <2>2, ConsultLemma
  <2> QED BY <1>5, <2>1, <2>2, <2>3 DEF LoadFinish
<1>6. ASSUME NEW r \in Requests, Match(r) PROVE TypeOK'
  <2>1. pc' \in [Requests -> Phases] /\ target' \in [Requests -> Ids \cup {None}]
    BY <1>6, ConsultLemma DEF Match
  <2> QED BY <1>6, <2>1 DEF Match
<1>7. ASSUME NEW r \in Requests, HitRead(r) PROVE TypeOK'
  <2>1. target[r] \in Ids
    BY <1>7 DEF HitRead, TargetInv, Targeting
  <2> QED BY <1>7, <2>1 DEF HitRead
<1>8. ASSUME NEW r \in Requests, HitCommit(r) PROVE TypeOK'
  <2>1. target[r] \in Ids
    BY <1>8 DEF HitCommit, TargetInv, Targeting
  <2>2. copy[r] \in Entry /\ copy[r].ans \in Ids
    BY <1>8 DEF HitCommit, TargetInv, Entry
  <2>3. pg[target[r]] # None => [pg[target[r]] EXCEPT !.hit = clock] \in Entry
    BY <2>1, EntryUpdate
  <2>4. pg' \in [Ids -> Entry \cup {None}] /\ clock' \in Nat
    <3>1. \/ pg[target[r]] # None /\ clock' = clock + 1
             /\ pg' = [pg EXCEPT ![target[r]] = [pg[target[r]] EXCEPT !.hit = clock]]
          \/ pg' = pg /\ clock' = clock
      BY <1>8 DEF HitCommit
    <3>2. CASE pg' = pg /\ clock' = clock
      BY <3>2
    <3>3. CASE pg[target[r]] # None /\ clock' = clock + 1
               /\ pg' = [pg EXCEPT ![target[r]] = [pg[target[r]] EXCEPT !.hit = clock]]
      <4>1. [pg[target[r]] EXCEPT !.hit = clock] \in Entry
        BY <2>3, <3>3
      <4> HIDE <2>3
      <4> QED BY <2>1, <3>3, <4>1
    <3> QED BY <3>1, <3>2, <3>3
  <2>5. served' \in [Requests -> Ids \cup {None}] /\ copy' \in [Requests -> Entry \cup {None}]
    BY <1>8, <2>2 DEF HitCommit
  <2>6. pc' \in [Requests -> Phases]
    BY <1>8 DEF HitCommit
  <2> QED BY <1>8, <2>4, <2>5, <2>6 DEF HitCommit
<1>9. ASSUME NEW r \in Requests, EvictGet(r) PROVE TypeOK'
  <2>1. target[r] \in Ids
    BY <1>9 DEF EvictGet, TargetInv, Targeting
  <2>2. DropRow(matrix, target[r]) \in Seq(Row)
    BY DropRowLemma
  <2> QED BY <1>9, <2>1, <2>2 DEF EvictGet
<1>10. ASSUME NEW r \in Requests, EvictRedis(r) PROVE TypeOK'
  <2>1. redis' \in [Questions -> Ids \cup {None}] /\ faults' \in Nat
    BY <1>10, RedisCallLemma DEF EvictRedis
  <2> QED BY <1>10, <2>1 DEF EvictRedis
<1>11. ASSUME NEW r \in Requests, EvictPg(r) PROVE TypeOK'
  BY <1>11 DEF EvictPg
<1>12. ASSUME NEW r \in Requests, EvictDrop(r) PROVE TypeOK'
  <2>1. target[r] \in Ids
    BY <1>12 DEF EvictDrop, TargetInv, Targeting
  <2>2. DropRow(matrix, target[r]) \in Seq(Row)
    BY DropRowLemma
  <2> QED BY <1>12, <2>1, <2>2 DEF EvictDrop
<1>13. ASSUME NEW r \in Requests, LookupFault(r) PROVE TypeOK'
  BY <1>13 DEF LookupFault
<1>14. ASSUME NEW r \in Requests, Generate(r) PROVE TypeOK'
  BY <1>14 DEF Generate, Answered, Ids
<1>14a. ASSUME NEW r \in Requests, SparseRead(r) PROVE TypeOK'
  BY <1>14a DEF SparseRead, Ids
<1>14b. ASSUME NEW r \in Requests, SparseKeep(r) PROVE TypeOK'
  BY <1>14b DEF SparseKeep, Answered, Ids
<1>14c. ASSUME NEW r \in Requests, Cancel(r) PROVE TypeOK'
  <2>1. /\ pc' = [pc EXCEPT ![r] = "cancelled"] /\ copy' = [copy EXCEPT ![r] = None]
        /\ lock' = IF lock = r THEN None ELSE lock
        /\ target' \in [Requests -> Ids \cup {None}]
        /\ pg' \in [Ids -> Entry \cup {None}] /\ clock' \in Nat
        /\ UNCHANGED <<asked, gen, served, redis, matrix, loaded, curMan, index, bm25, skipped,
                       restarts, faults, cli, doomed, purged, ops>>
    BY <1>14c, CancelFrame
  <2>2. /\ pc' \in [Requests -> Phases] /\ copy' \in [Requests -> Entry \cup {None}]
        /\ lock' \in Requests \cup {None}
    BY <2>1
  <2> QED BY <2>1, <2>2
<1>15. ASSUME NEW r \in Requests, WriteLock(r) PROVE TypeOK'
  BY <1>15 DEF WriteLock
<1>16. ASSUME NEW r \in Requests, WriteSelect(r) PROVE TypeOK'
  <2>1. HasEntryFor(asked[r]) \subseteq Ids
    BY DEF HasEntryFor, Stored
  <2> QED BY <1>16, <2>1 DEF WriteSelect
<1>17. ASSUME NEW r \in Requests, WriteVictim(r) PROVE TypeOK'
  <2>1. Coldest \subseteq Ids
    BY DEF Coldest, Stored
  <2> QED BY <1>17, <2>1 DEF WriteVictim
<1>18. ASSUME NEW r \in Requests, VictimRedis(r) PROVE TypeOK'
  <2>1. redis' \in [Questions -> Ids \cup {None}] /\ faults' \in Nat
    BY <1>18, RedisCallLemma DEF VictimRedis
  <2> QED BY <1>18, <2>1 DEF VictimRedis
<1>19. ASSUME NEW r \in Requests, VictimPg(r) PROVE TypeOK'
  BY <1>19 DEF VictimPg
<1>20. ASSUME NEW r \in Requests, VictimDrop(r) PROVE TypeOK'
  <2>1. target[r] \in Ids
    BY <1>20 DEF VictimDrop, TargetInv, Targeting
  <2>2. DropRow(matrix, target[r]) \in Seq(Row)
    BY DropRowLemma
  <2> QED BY <1>20, <2>1, <2>2 DEF VictimDrop
<1>21. ASSUME NEW r \in Requests, WriteInsert(r) PROVE TypeOK'
  <2>1. r \in Ids /\ asked[r] \in Questions
    BY <1>21 DEF WriteInsert, AskedInv, Ids
  <2>2. [q |-> asked[r], ans |-> r, man |-> curMan, hit |-> 0, born |-> clock] \in Entry
    BY <2>1 DEF Entry
  <2> QED BY <1>21, <2>1, <2>2 DEF WriteInsert
<1>22. ASSUME NEW r \in Requests, WriteUpdate(r) PROVE TypeOK'
  <2>1. target[r] \in Ids
    BY <1>22 DEF WriteUpdate, TargetInv, Targeting
  <2>2. pg[target[r]] # None => [pg[target[r]] EXCEPT !.ans = r, !.man = curMan] \in Entry
    BY <2>1, EntryUpdate DEF Ids
  <2>3. pg' \in [Ids -> Entry \cup {None}]
    BY <1>22, <2>1, <2>2 DEF WriteUpdate
  <2>4. pc' \in [Requests -> Phases]
    BY <1>22 DEF WriteUpdate
  <2> QED BY <1>22, <2>3, <2>4 DEF WriteUpdate
<1>23. ASSUME NEW r \in Requests, WriteAppend(r) PROVE TypeOK'
  <2>1. target[r] \in Ids /\ asked[r] \in Questions
    BY <1>23 DEF WriteAppend, TargetInv, Targeting, AskedInv
  <2>2. DropRow(matrix, target[r]) \in Seq(Row)
    BY DropRowLemma
  <2>3. [id |-> target[r], q |-> asked[r], man |-> curMan] \in Row
    BY <2>1 DEF Row
  <2>4. matrix' \in Seq(Row)
    BY <1>23, <2>2, <2>3 DEF WriteAppend
  <2> QED BY <1>23, <2>4 DEF WriteAppend
<1>24. ASSUME NEW r \in Requests, WriteRedis(r) PROVE TypeOK'
  <2>1. redis' \in [Questions -> Ids \cup {None}] /\ faults' \in Nat
    BY <1>24, RedisCallLemma DEF WriteRedis, Ids
  <2> QED BY <1>24, <2>1 DEF WriteRedis
<1>25. ASSUME NEW r \in Requests, WriteFault(r) PROVE TypeOK'
  BY <1>25 DEF WriteFault
<1>26. CASE CliFlush
  <2>1. \A e \in Stored : pg[e].ans \in Ids
    BY DEF Stored, Entry
  <2>2. Doomed(Stored) \subseteq Ids
    BY <2>1 DEF Doomed
  <2> QED BY <1>26, <2>2 DEF CliFlush
<1>27. CASE CliFlushRedis
  BY <1>27 DEF CliFlushRedis
<1>28. CASE CliDeleteRedis
  <2>1. redis' \in [Questions -> Ids \cup {None}] /\ faults' \in Nat
    BY <1>28, RedisCallLemma DEF CliDeleteRedis
  <2> QED BY <1>28, <2>1 DEF CliDeleteRedis
<1>29. CASE Reindex
  BY <1>29 DEF Reindex
<1>30. CASE Restart
  <2>1. pc' \in [Requests -> Phases]
    BY <1>30 DEF Restart
  <2>2. target' \in [Requests -> Ids \cup {None}] /\ copy' \in [Requests -> Entry \cup {None}]
    BY <1>30 DEF Restart
  <2>3. matrix' \in Seq(Row) /\ loaded' \in BOOLEAN /\ curMan' \in Nat
    <3>1. matrix' = << >> /\ loaded' = FALSE /\ curMan' = 0
      BY <1>30 DEF Restart
    <3> QED BY <3>1, EmptyMatrix
  <2> QED BY <1>30, <2>1, <2>2, <2>3 DEF Restart
<1>31. ASSUME NEW q \in Questions, CliDelete(q) PROVE TypeOK'
  <2>1. \A e \in HasEntryFor(q) : pg[e].ans \in Ids
    BY DEF HasEntryFor, Stored, Entry
  <2>2. Doomed(HasEntryFor(q)) \subseteq Ids
    BY <2>1 DEF Doomed
  <2> QED BY <1>31, <2>2 DEF CliDelete
<1>32. ASSUME NEW q \in Questions, RedisExpire(q) PROVE TypeOK'
  BY <1>32 DEF RedisExpire
<1>33. CASE UNCHANGED vars
  BY <1>33 DEF vars
<1> QED
  BY <1>1, <1>2, <1>3, <1>4, <1>5, <1>6, <1>7, <1>8, <1>9, <1>10, <1>11, <1>12, <1>13, <1>14,
     <1>14a, <1>14b, <1>14c,
     <1>15, <1>16, <1>17, <1>18, <1>19, <1>20, <1>21, <1>22, <1>23, <1>24, <1>25, <1>26, <1>27,
     <1>28, <1>29, <1>30, <1>31, <1>32, <1>33
  DEF Next, Task, Answer, Lookup, Write, Operator, Environment

\* The rows of a matrix name entries.
LEMMA RowsNameIds ==
    ASSUME NEW rows \in Seq(Row)
    PROVE  \A i \in DOMAIN rows : rows[i].id \in Ids
<1>1. \A i \in DOMAIN rows : rows[i] \in Row
  OBVIOUS
<1> QED BY <1>1 DEF Row

\* A match, with or without the load before it, is decided on the rows the matrix then has.
LEMMA MatchLemma ==
    ASSUME TypeOK, NEW r \in Requests, LoadFinish(r) \/ Match(r)
    PROVE  /\ matrix' \in Seq(Row)
           /\ \/ pc[r] = "loadW" /\ pc' = [pc EXCEPT ![r] = "write"] /\ target' = target
              \/ /\ pc[r] \in {"loadL", "lookup"}
                 /\ pc' = [pc EXCEPT ![r] = "generate"] /\ target' = target
              \/ /\ pc[r] \in {"loadL", "lookup"}
                 /\ \E i \in DOMAIN matrix' :
                      /\ matrix'[i].id \in Ids
                      /\ target' = [target EXCEPT ![r] = matrix'[i].id]
                      /\ pc' = [pc EXCEPT ![r] = IF matrix'[i].man = curMan
                                                 THEN "hitRead" ELSE "evictGet"]
                      /\ Topic[matrix'[i].q] = Topic[asked[r]]
                      /\ Disc[matrix'[i].q] = Disc[asked[r]]
<1>1. CASE Match(r)
  <2>1. matrix' = matrix /\ Consult(r, matrix, curMan) /\ pc[r] = "lookup"
    BY <1>1 DEF Match, procVars
  <2>2. matrix \in Seq(Row)
    BY DEF TypeOK
  <2> QED BY <2>1, <2>2, ConsultLemma, RowsNameIds
<1>2. CASE LoadFinish(r)
  <2>1. PICK rows \in Loads :
          /\ matrix' = rows
          /\ \/ pc[r] = "loadL" /\ Consult(r, rows, curMan)
             \/ Step(r, "loadW", "write") /\ UNCHANGED target
    BY <1>2 DEF LoadFinish
  <2>2. rows \in Seq(Row)
    BY LoadsLemma
  <2>3. CASE Consult(r, rows, curMan)
    <3>1. \/ pc' = [pc EXCEPT ![r] = "generate"] /\ target' = target
          \/ \E i \in DOMAIN rows :
               /\ target' = [target EXCEPT ![r] = rows[i].id]
               /\ pc' = [pc EXCEPT ![r] = IF rows[i].man = curMan
                                          THEN "hitRead" ELSE "evictGet"]
               /\ Topic[rows[i].q] = Topic[asked[r]]
               /\ Disc[rows[i].q] = Disc[asked[r]]
      BY <2>2, <2>3, ConsultLemma
    <3>2. \A i \in DOMAIN rows : rows[i].id \in Ids
      BY <2>2, RowsNameIds
    <3>3. pc[r] = "loadL" \/ pc[r] = "loadW"
      BY <2>1 DEF Step
    <3>4. CASE pc[r] = "loadW"
      BY <2>1, <2>2, <3>4 DEF Step
    <3>5. CASE pc[r] = "loadL"
      BY <2>1, <2>2, <3>1, <3>2, <3>5
    <3> QED BY <3>3, <3>4, <3>5
  <2>4. CASE Step(r, "loadW", "write") /\ UNCHANGED target
    BY <2>1, <2>2, <2>4 DEF Step
  <2> QED BY <2>1, <2>3, <2>4
<1> QED BY <1>1, <1>2

\* A task that has a target keeps it until it leaves the phases that use it.
LEMMA TargetStep ==
    ASSUME TypeOK, TargetInv, [Next]_vars
    PROVE  TargetInv'
<1> USE DEF TargetInv, Targeting, Step, Fault, taskVars, procVars, storeVars, cliVars, envVars
<1>1. /\ pc \in [Requests -> Phases] /\ target \in [Requests -> Ids \cup {None}]
      /\ copy \in [Requests -> Entry \cup {None}] /\ matrix \in Seq(Row)
  BY DEF TypeOK
<1>2. ASSUME NEW r \in Requests, Ask(r) PROVE TargetInv'
  BY <1>2, <1>1 DEF Ask
<1>3. ASSUME NEW r \in Requests, RedisHit(r) PROVE TargetInv'
  BY <1>3, <1>1 DEF RedisHit
<1>4. ASSUME NEW r \in Requests, RedisMiss(r) PROVE TargetInv'
  BY <1>4, <1>1 DEF RedisMiss
<1>5. ASSUME NEW r \in Requests, LoadBegin(r) PROVE TargetInv'
  BY <1>5, <1>1 DEF LoadBegin
<1>6. ASSUME NEW r \in Requests, LoadFinish(r) PROVE TargetInv'
  BY <1>1, <1>6, MatchLemma DEF LoadFinish
<1>7. ASSUME NEW r \in Requests, Match(r) PROVE TargetInv'
  BY <1>1, <1>7, MatchLemma DEF Match
<1>8. ASSUME NEW r \in Requests, HitRead(r) PROVE TargetInv'
  BY <1>8, <1>1 DEF HitRead
<1>9. ASSUME NEW r \in Requests, HitCommit(r) PROVE TargetInv'
  BY <1>9, <1>1 DEF HitCommit
<1>10. ASSUME NEW r \in Requests, EvictGet(r) PROVE TargetInv'
  BY <1>10, <1>1 DEF EvictGet
<1>11. ASSUME NEW r \in Requests, EvictRedis(r) PROVE TargetInv'
  BY <1>11, <1>1 DEF EvictRedis
<1>12. ASSUME NEW r \in Requests, EvictPg(r) PROVE TargetInv'
  BY <1>12, <1>1 DEF EvictPg
<1>13. ASSUME NEW r \in Requests, EvictDrop(r) PROVE TargetInv'
  BY <1>13, <1>1 DEF EvictDrop
<1>14. ASSUME NEW r \in Requests, LookupFault(r) PROVE TargetInv'
  BY <1>14, <1>1 DEF LookupFault
<1>15. ASSUME NEW r \in Requests, Generate(r) PROVE TargetInv'
  BY <1>15, <1>1 DEF Generate, Answered
<1>15a. ASSUME NEW r \in Requests, SparseRead(r) PROVE TargetInv'
  BY <1>15a, <1>1 DEF SparseRead
<1>15b. ASSUME NEW r \in Requests, SparseKeep(r) PROVE TargetInv'
  BY <1>15b, <1>1 DEF SparseKeep, Answered
<1>15c. ASSUME NEW r \in Requests, Cancel(r) PROVE TargetInv'
  BY <1>15c, <1>1 DEF Cancel
<1>16. ASSUME NEW r \in Requests, WriteLock(r) PROVE TargetInv'
  BY <1>16, <1>1 DEF WriteLock
<1>17. ASSUME NEW r \in Requests, WriteSelect(r) PROVE TargetInv'
  BY <1>1, <1>17 DEF WriteSelect, HasEntryFor, Stored
<1>18. ASSUME NEW r \in Requests, WriteVictim(r) PROVE TargetInv'
  BY <1>1, <1>18 DEF WriteVictim, Coldest, Stored
<1>19. ASSUME NEW r \in Requests, VictimRedis(r) PROVE TargetInv'
  BY <1>19, <1>1 DEF VictimRedis
<1>20. ASSUME NEW r \in Requests, VictimPg(r) PROVE TargetInv'
  BY <1>20, <1>1 DEF VictimPg
<1>21. ASSUME NEW r \in Requests, VictimDrop(r) PROVE TargetInv'
  BY <1>21, <1>1 DEF VictimDrop
<1>22. ASSUME NEW r \in Requests, WriteInsert(r) PROVE TargetInv'
  BY <1>1, <1>22 DEF WriteInsert, Ids
<1>23. ASSUME NEW r \in Requests, WriteUpdate(r) PROVE TargetInv'
  BY <1>23, <1>1 DEF WriteUpdate
<1>24. ASSUME NEW r \in Requests, WriteAppend(r) PROVE TargetInv'
  BY <1>24, <1>1 DEF WriteAppend
<1>25. ASSUME NEW r \in Requests, WriteRedis(r) PROVE TargetInv'
  BY <1>25, <1>1 DEF WriteRedis
<1>26. ASSUME NEW r \in Requests, WriteFault(r) PROVE TargetInv'
  BY <1>26, <1>1 DEF WriteFault
<1>27. CASE CliFlush
  BY <1>27, <1>1 DEF CliFlush
<1>28. CASE CliFlushRedis
  BY <1>28, <1>1 DEF CliFlushRedis
<1>29. CASE CliDeleteRedis
  BY <1>29, <1>1 DEF CliDeleteRedis
<1>30. CASE Reindex
  BY <1>30, <1>1 DEF Reindex
<1>31. CASE Restart
  BY <1>31, <1>1 DEF Restart
<1>32. ASSUME NEW q \in Questions, CliDelete(q) PROVE TargetInv'
  BY <1>32, <1>1 DEF CliDelete
<1>33. ASSUME NEW q \in Questions, RedisExpire(q) PROVE TargetInv'
  BY <1>33, <1>1 DEF RedisExpire
<1>34. CASE UNCHANGED vars
  BY <1>34, <1>1 DEF vars
<1> QED
  BY <1>2, <1>3, <1>4, <1>5, <1>6, <1>7, <1>8, <1>9, <1>10, <1>11, <1>12, <1>13, <1>14, <1>15,
     <1>15a, <1>15b, <1>15c,
     <1>16, <1>17, <1>18, <1>19, <1>20, <1>21, <1>22, <1>23, <1>24, <1>25, <1>26, <1>27, <1>28,
     <1>29, <1>30, <1>31, <1>32, <1>33, <1>34
  DEF Next, Task, Answer, Lookup, Write, Operator, Environment

\* The lock is taken on entering the critical section and released on leaving it.
LEMMA LockStep ==
    ASSUME TypeOK, LockInv, [Next]_vars
    PROVE  LockInv'
<1> USE DEF LockInv, Locked, WritePhases, Step, Fault, taskVars, procVars, storeVars, cliVars,
envVars
<1>1. pc \in [Requests -> Phases] /\ lock \in Requests \cup {None}
  BY DEF TypeOK
<1>2. ASSUME NEW r \in Requests, Ask(r) PROVE LockInv'
  BY <1>2, <1>1 DEF Ask
<1>3. ASSUME NEW r \in Requests, RedisHit(r) PROVE LockInv'
  BY <1>3, <1>1 DEF RedisHit
<1>4. ASSUME NEW r \in Requests, RedisMiss(r) PROVE LockInv'
  BY <1>4, <1>1 DEF RedisMiss
<1>5. ASSUME NEW r \in Requests, LoadBegin(r) PROVE LockInv'
  BY <1>1, <1>5, ConstantsAssumption DEF LoadBegin, Ids
<1>6. ASSUME NEW r \in Requests, LoadFinish(r) PROVE LockInv'
  BY <1>1, <1>6, MatchLemma, ConstantsAssumption DEF LoadFinish, Ids
<1>7. ASSUME NEW r \in Requests, Match(r) PROVE LockInv'
  BY <1>1, <1>7, MatchLemma DEF Match
<1>8. ASSUME NEW r \in Requests, HitRead(r) PROVE LockInv'
  BY <1>8, <1>1 DEF HitRead
<1>9. ASSUME NEW r \in Requests, HitCommit(r) PROVE LockInv'
  BY <1>9, <1>1 DEF HitCommit
<1>10. ASSUME NEW r \in Requests, EvictGet(r) PROVE LockInv'
  BY <1>10, <1>1 DEF EvictGet
<1>11. ASSUME NEW r \in Requests, EvictRedis(r) PROVE LockInv'
  BY <1>11, <1>1 DEF EvictRedis
<1>12. ASSUME NEW r \in Requests, EvictPg(r) PROVE LockInv'
  BY <1>12, <1>1 DEF EvictPg
<1>13. ASSUME NEW r \in Requests, EvictDrop(r) PROVE LockInv'
  BY <1>13, <1>1 DEF EvictDrop
<1>14. ASSUME NEW r \in Requests, LookupFault(r) PROVE LockInv'
  BY <1>1, <1>14, ConstantsAssumption DEF LookupFault, Ids
<1>15. ASSUME NEW r \in Requests, Generate(r) PROVE LockInv'
  BY <1>15, <1>1 DEF Generate, Answered
<1>15a. ASSUME NEW r \in Requests, SparseRead(r) PROVE LockInv'
  BY <1>15a, <1>1 DEF SparseRead
<1>15b. ASSUME NEW r \in Requests, SparseKeep(r) PROVE LockInv'
  BY <1>15b, <1>1 DEF SparseKeep, Answered
<1>15c. ASSUME NEW r \in Requests, Cancel(r) PROVE LockInv'
  BY <1>1, <1>15c, ConstantsAssumption DEF Cancel, LookupPhases, Ids
<1>16. ASSUME NEW r \in Requests, WriteLock(r) PROVE LockInv'
  BY <1>1, <1>16, ConstantsAssumption DEF WriteLock, Ids
<1>17. ASSUME NEW r \in Requests, WriteSelect(r) PROVE LockInv'
  BY <1>17, <1>1 DEF WriteSelect
<1>18. ASSUME NEW r \in Requests, WriteVictim(r) PROVE LockInv'
  BY <1>18, <1>1 DEF WriteVictim
<1>19. ASSUME NEW r \in Requests, VictimRedis(r) PROVE LockInv'
  BY <1>19, <1>1 DEF VictimRedis
<1>20. ASSUME NEW r \in Requests, VictimPg(r) PROVE LockInv'
  BY <1>20, <1>1 DEF VictimPg
<1>21. ASSUME NEW r \in Requests, VictimDrop(r) PROVE LockInv'
  BY <1>21, <1>1 DEF VictimDrop
<1>22. ASSUME NEW r \in Requests, WriteInsert(r) PROVE LockInv'
  BY <1>22, <1>1 DEF WriteInsert
<1>23. ASSUME NEW r \in Requests, WriteUpdate(r) PROVE LockInv'
  BY <1>1, <1>23, ConstantsAssumption DEF WriteUpdate, Ids
<1>24. ASSUME NEW r \in Requests, WriteAppend(r) PROVE LockInv'
  BY <1>1, <1>24, ConstantsAssumption DEF WriteAppend, Ids
<1>25. ASSUME NEW r \in Requests, WriteRedis(r) PROVE LockInv'
  BY <1>25, <1>1 DEF WriteRedis
<1>26. ASSUME NEW r \in Requests, WriteFault(r) PROVE LockInv'
  BY <1>1, <1>26, ConstantsAssumption DEF WriteFault, Ids
<1>27. CASE CliFlush
  BY <1>27, <1>1 DEF CliFlush
<1>28. CASE CliFlushRedis
  BY <1>28, <1>1 DEF CliFlushRedis
<1>29. CASE CliDeleteRedis
  BY <1>29, <1>1 DEF CliDeleteRedis
<1>30. CASE Reindex
  BY <1>30, <1>1 DEF Reindex
<1>31. CASE Restart
  BY <1>1, <1>31, ConstantsAssumption DEF Restart, Ids
<1>32. ASSUME NEW q \in Questions, CliDelete(q) PROVE LockInv'
  BY <1>32, <1>1 DEF CliDelete
<1>33. ASSUME NEW q \in Questions, RedisExpire(q) PROVE LockInv'
  BY <1>33, <1>1 DEF RedisExpire
<1>34. CASE UNCHANGED vars
  BY <1>34, <1>1 DEF vars
<1> QED
  BY <1>2, <1>3, <1>4, <1>5, <1>6, <1>7, <1>8, <1>9, <1>10, <1>11, <1>12, <1>13, <1>14, <1>15,
     <1>15a, <1>15b, <1>15c,
     <1>16, <1>17, <1>18, <1>19, <1>20, <1>21, <1>22, <1>23, <1>24, <1>25, <1>26, <1>27, <1>28,
     <1>29, <1>30, <1>31, <1>32, <1>33, <1>34
  DEF Next, Task, Answer, Lookup, Write, Operator, Environment

\* The matrix is filled by one load and emptied by a restart.
LEMMA LoadStep ==
    ASSUME TypeOK, LockInv, LoadInv, [Next]_vars
    PROVE  LoadInv'
<1> USE DEF LoadInv, Targeting, Step, Fault, taskVars, procVars, storeVars, cliVars, envVars
<1>1. pc \in [Requests -> Phases] /\ lock \in Requests \cup {None} /\ loaded \in BOOLEAN
  BY DEF TypeOK
<1>2. ASSUME NEW r \in Requests, Ask(r) PROVE LoadInv'
  BY <1>2, <1>1 DEF Ask
<1>3. ASSUME NEW r \in Requests, RedisHit(r) PROVE LoadInv'
  BY <1>3, <1>1 DEF RedisHit
<1>4. ASSUME NEW r \in Requests, RedisMiss(r) PROVE LoadInv'
  BY <1>4, <1>1 DEF RedisMiss
<1>5. ASSUME NEW r \in Requests, LoadBegin(r) PROVE LoadInv'
  BY <1>5, <1>1 DEF LoadBegin
<1>6. ASSUME NEW r \in Requests, LoadFinish(r) PROVE LoadInv'
  BY <1>1, <1>6, MatchLemma DEF LoadFinish, LockInv, Locked, WritePhases
<1>7. ASSUME NEW r \in Requests, Match(r) PROVE LoadInv'
  BY <1>1, <1>7, MatchLemma DEF Match
<1>8. ASSUME NEW r \in Requests, HitRead(r) PROVE LoadInv'
  BY <1>8, <1>1 DEF HitRead
<1>9. ASSUME NEW r \in Requests, HitCommit(r) PROVE LoadInv'
  BY <1>9, <1>1 DEF HitCommit
<1>10. ASSUME NEW r \in Requests, EvictGet(r) PROVE LoadInv'
  BY <1>10, <1>1 DEF EvictGet
<1>11. ASSUME NEW r \in Requests, EvictRedis(r) PROVE LoadInv'
  BY <1>11, <1>1 DEF EvictRedis
<1>12. ASSUME NEW r \in Requests, EvictPg(r) PROVE LoadInv'
  BY <1>12, <1>1 DEF EvictPg
<1>13. ASSUME NEW r \in Requests, EvictDrop(r) PROVE LoadInv'
  BY <1>13, <1>1 DEF EvictDrop
<1>14. ASSUME NEW r \in Requests, LookupFault(r) PROVE LoadInv'
  BY <1>14, <1>1 DEF LookupFault
<1>15. ASSUME NEW r \in Requests, Generate(r) PROVE LoadInv'
  BY <1>15, <1>1 DEF Generate, Answered
<1>15a. ASSUME NEW r \in Requests, SparseRead(r) PROVE LoadInv'
  BY <1>15a, <1>1 DEF SparseRead
<1>15b. ASSUME NEW r \in Requests, SparseKeep(r) PROVE LoadInv'
  BY <1>15b, <1>1 DEF SparseKeep, Answered
<1>15c. ASSUME NEW r \in Requests, Cancel(r) PROVE LoadInv'
  BY <1>15c, <1>1 DEF Cancel
<1>16. ASSUME NEW r \in Requests, WriteLock(r) PROVE LoadInv'
  BY <1>16, <1>1 DEF WriteLock
<1>17. ASSUME NEW r \in Requests, WriteSelect(r) PROVE LoadInv'
  BY <1>17, <1>1 DEF WriteSelect
<1>18. ASSUME NEW r \in Requests, WriteVictim(r) PROVE LoadInv'
  BY <1>18, <1>1 DEF WriteVictim
<1>19. ASSUME NEW r \in Requests, VictimRedis(r) PROVE LoadInv'
  BY <1>19, <1>1 DEF VictimRedis
<1>20. ASSUME NEW r \in Requests, VictimPg(r) PROVE LoadInv'
  BY <1>20, <1>1 DEF VictimPg
<1>21. ASSUME NEW r \in Requests, VictimDrop(r) PROVE LoadInv'
  BY <1>21, <1>1 DEF VictimDrop
<1>22. ASSUME NEW r \in Requests, WriteInsert(r) PROVE LoadInv'
  BY <1>22, <1>1 DEF WriteInsert
<1>23. ASSUME NEW r \in Requests, WriteUpdate(r) PROVE LoadInv'
  BY <1>23, <1>1 DEF WriteUpdate
<1>24. ASSUME NEW r \in Requests, WriteAppend(r) PROVE LoadInv'
  BY <1>24, <1>1 DEF WriteAppend
<1>25. ASSUME NEW r \in Requests, WriteRedis(r) PROVE LoadInv'
  BY <1>25, <1>1 DEF WriteRedis
<1>26. ASSUME NEW r \in Requests, WriteFault(r) PROVE LoadInv'
  BY <1>26, <1>1 DEF WriteFault
<1>27. CASE CliFlush
  BY <1>27, <1>1 DEF CliFlush
<1>28. CASE CliFlushRedis
  BY <1>28, <1>1 DEF CliFlushRedis
<1>29. CASE CliDeleteRedis
  BY <1>29, <1>1 DEF CliDeleteRedis
<1>30. CASE Reindex
  BY <1>30, <1>1 DEF Reindex
<1>31. CASE Restart
  BY <1>31, <1>1 DEF Restart
<1>32. ASSUME NEW q \in Questions, CliDelete(q) PROVE LoadInv'
  BY <1>32, <1>1 DEF CliDelete
<1>33. ASSUME NEW q \in Questions, RedisExpire(q) PROVE LoadInv'
  BY <1>33, <1>1 DEF RedisExpire
<1>34. CASE UNCHANGED vars
  BY <1>34, <1>1 DEF vars
<1> QED
  BY <1>2, <1>3, <1>4, <1>5, <1>6, <1>7, <1>8, <1>9, <1>10, <1>11, <1>12, <1>13, <1>14, <1>15,
     <1>15a, <1>15b, <1>15c,
     <1>16, <1>17, <1>18, <1>19, <1>20, <1>21, <1>22, <1>23, <1>24, <1>25, <1>26, <1>27, <1>28,
     <1>29, <1>30, <1>31, <1>32, <1>33, <1>34
  DEF Next, Task, Answer, Lookup, Write, Operator, Environment

\* What the names of the rows become when a row is dropped or appended.
LEMMA MatrixIds ==
    ASSUME NEW rows \in Seq(Row)
    PROVE  /\ RowIds(<< >>) = {}
           /\ \A id : /\ RowIds(DropRow(rows, id)) \subseteq RowIds(rows)
                      /\ RowIds(rows) \ {id} \subseteq RowIds(DropRow(rows, id))
           /\ \A row \in Row : RowIds(Append(rows, row)) = RowIds(rows) \cup {row.id}
<1>1. RowIds(<< >>) = {}
  BY DEF RowIds
<1>2. ASSUME NEW id
      PROVE  /\ RowIds(DropRow(rows, id)) \subseteq RowIds(rows)
             /\ RowIds(rows) \ {id} \subseteq RowIds(DropRow(rows, id))
  <2>1. \A i \in DOMAIN DropRow(rows, id) : \E j \in DOMAIN rows : DropRow(rows, id)[i] = rows[j]
    BY DropRowLemma
  <2>2. RowIds(DropRow(rows, id)) \subseteq RowIds(rows)
    BY <2>1 DEF RowIds
  <2>3. \A e \in RowIds(rows) : e # id => e \in RowIds(DropRow(rows, id))
    BY DropRowLemma
  <2> QED BY <2>2, <2>3
<1>3. ASSUME NEW row \in Row
      PROVE  RowIds(Append(rows, row)) = RowIds(rows) \cup {row.id}
  <2>1. /\ DOMAIN Append(rows, row) = 1 .. Len(rows) + 1 /\ DOMAIN rows = 1 .. Len(rows)
        /\ Len(rows) \in Nat
        /\ \A i \in 1 .. Len(rows) : Append(rows, row)[i] = rows[i]
        /\ Append(rows, row)[Len(rows) + 1] = row
    OBVIOUS
  <2>2. RowIds(rows) \cup {row.id} \subseteq RowIds(Append(rows, row))
    BY <2>1 DEF RowIds
  <2>3. RowIds(Append(rows, row)) \subseteq RowIds(rows) \cup {row.id}
    <3> SUFFICES ASSUME NEW e \in RowIds(Append(rows, row))
                 PROVE  e \in RowIds(rows) \cup {row.id}
      OBVIOUS
    <3>1. PICK i \in 1 .. Len(rows) + 1 : Append(rows, row)[i].id = e
      BY <2>1 DEF RowIds
    <3>2. CASE i \in 1 .. Len(rows)
      BY <2>1, <3>1, <3>2 DEF RowIds
    <3>3. CASE i = Len(rows) + 1
      BY <2>1, <3>1, <3>3
    <3> QED BY <2>1, <3>2, <3>3
  <2> QED BY <2>2, <2>3
<1> QED BY <1>1, <1>2, <1>3

\* The row a write appends is a row.
LEMMA AppendedRow ==
    ASSUME TypeOK, TargetInv, AskedInv, NEW r \in Requests, pc[r] = "append"
    PROVE  /\ [id |-> target[r], q |-> asked[r], man |-> curMan] \in Row
           /\ DropRow(matrix, target[r]) \in Seq(Row)
<1>1. target[r] \in Ids /\ asked[r] \in Questions
  BY DEF TargetInv, Targeting, AskedInv
<1> QED BY <1>1, DropRowLemma DEF TypeOK, Row

\* An entry comes into being by the insert of its own request only.
LEMMA UnbornStep ==
    ASSUME TypeOK, TargetInv, AskedInv, UnbornInv, [Next]_vars
    PROVE  UnbornInv'
<1> USE DEF UnbornInv, Written, Step, Fault, taskVars, procVars, storeVars, cliVars, envVars
<1>1. /\ pc \in [Requests -> Phases] /\ target \in [Requests -> Ids \cup {None}]
      /\ matrix \in Seq(Row) /\ pg \in [Ids -> Entry \cup {None}] /\ Requests \subseteq Ids
  BY DEF TypeOK, Ids
<1>2. ASSUME NEW r \in Requests, Ask(r) PROVE UnbornInv'
  BY <1>2, <1>1 DEF Ask
<1>3. ASSUME NEW r \in Requests, RedisHit(r) PROVE UnbornInv'
  BY <1>3, <1>1 DEF RedisHit
<1>4. ASSUME NEW r \in Requests, RedisMiss(r) PROVE UnbornInv'
  BY <1>4, <1>1 DEF RedisMiss
<1>5. ASSUME NEW r \in Requests, LoadBegin(r) PROVE UnbornInv'
  BY <1>5, <1>1 DEF LoadBegin
<1>6. ASSUME NEW r \in Requests, LoadFinish(r) PROVE UnbornInv'
  <2>1. RowIds(matrix') = Stored
    BY <1>6, LoadsLemma DEF LoadFinish
  <2>2. \A i \in DOMAIN matrix' : matrix'[i].id \in Stored
    BY <2>1 DEF RowIds
  <2> QED BY <1>1, <1>6, <2>1, <2>2, MatchLemma DEF LoadFinish, Stored
<1>7. ASSUME NEW r \in Requests, Match(r) PROVE UnbornInv'
  <2>1. \A i \in DOMAIN matrix' : matrix'[i].id \in RowIds(matrix)
    BY <1>7 DEF Match, RowIds
  <2> QED BY <1>1, <1>7, <2>1, MatchLemma DEF Match
<1>8. ASSUME NEW r \in Requests, HitRead(r) PROVE UnbornInv'
  BY <1>8, <1>1 DEF HitRead
<1>9. ASSUME NEW r \in Requests, HitCommit(r) PROVE UnbornInv'
  BY <1>9, <1>1 DEF HitCommit
<1>10. ASSUME NEW r \in Requests, EvictGet(r) PROVE UnbornInv'
  BY <1>1, <1>10, MatrixIds DEF EvictGet
<1>11. ASSUME NEW r \in Requests, EvictRedis(r) PROVE UnbornInv'
  BY <1>11, <1>1 DEF EvictRedis
<1>12. ASSUME NEW r \in Requests, EvictPg(r) PROVE UnbornInv'
  BY <1>12, <1>1 DEF EvictPg
<1>13. ASSUME NEW r \in Requests, EvictDrop(r) PROVE UnbornInv'
  BY <1>1, <1>13, MatrixIds DEF EvictDrop
<1>14. ASSUME NEW r \in Requests, LookupFault(r) PROVE UnbornInv'
  BY <1>14, <1>1 DEF LookupFault
<1>15. ASSUME NEW r \in Requests, Generate(r) PROVE UnbornInv'
  BY <1>1, <1>15, ConstantsAssumption DEF Generate, Answered, Ids
<1>15a. ASSUME NEW r \in Requests, SparseRead(r) PROVE UnbornInv'
  BY <1>1, <1>15a, ConstantsAssumption DEF SparseRead, Ids
<1>15b. ASSUME NEW r \in Requests, SparseKeep(r) PROVE UnbornInv'
  BY <1>1, <1>15b, ConstantsAssumption DEF SparseKeep, Answered, Ids
<1>15c. ASSUME NEW r \in Requests, Cancel(r) PROVE UnbornInv'
  <2>1. /\ pc[r] \in LookupPhases /\ pc' = [pc EXCEPT ![r] = "cancelled"]
        /\ \A t \in Requests : target'[t] = target[t] \/ target'[t] = None
        /\ \A e \in Ids : pg'[e] = None <=> pg[e] = None
        /\ matrix' = matrix
    BY <1>15c, CancelFrame
  <2>2. \A t \in Requests : pc'[t] \notin Written => pc[t] \notin Written
    BY <1>1, <2>1 DEF LookupPhases, Written
  <2> QED BY <1>1, <2>1, <2>2, ConstantsAssumption DEF Ids, Written
<1>16. ASSUME NEW r \in Requests, WriteLock(r) PROVE UnbornInv'
  BY <1>16, <1>1 DEF WriteLock
<1>17. ASSUME NEW r \in Requests, WriteSelect(r) PROVE UnbornInv'
  BY <1>1, <1>17 DEF WriteSelect, HasEntryFor, Stored
<1>18. ASSUME NEW r \in Requests, WriteVictim(r) PROVE UnbornInv'
  BY <1>1, <1>18 DEF WriteVictim, Coldest, Stored
<1>19. ASSUME NEW r \in Requests, VictimRedis(r) PROVE UnbornInv'
  BY <1>19, <1>1 DEF VictimRedis
<1>20. ASSUME NEW r \in Requests, VictimPg(r) PROVE UnbornInv'
  BY <1>20, <1>1 DEF VictimPg
<1>21. ASSUME NEW r \in Requests, VictimDrop(r) PROVE UnbornInv'
  BY <1>1, <1>21, MatrixIds DEF VictimDrop
<1>22. ASSUME NEW r \in Requests, WriteInsert(r) PROVE UnbornInv'
  BY <1>22, <1>1 DEF WriteInsert
<1>23. ASSUME NEW r \in Requests, WriteUpdate(r) PROVE UnbornInv'
  BY <1>23, <1>1 DEF WriteUpdate
<1>24. ASSUME NEW r \in Requests, WriteAppend(r) PROVE UnbornInv'
  <2>1. pc[r] = "append"
    BY <1>24 DEF WriteAppend
  <2>2. RowIds(matrix') \subseteq RowIds(matrix) \cup {target[r]}
    BY <1>1, <1>24, <2>1, AppendedRow, MatrixIds DEF WriteAppend
  <2> QED BY <1>1, <1>24, <2>2 DEF WriteAppend
<1>25. ASSUME NEW r \in Requests, WriteRedis(r) PROVE UnbornInv'
  BY <1>25, <1>1 DEF WriteRedis
<1>26. ASSUME NEW r \in Requests, WriteFault(r) PROVE UnbornInv'
  BY <1>26, <1>1 DEF WriteFault
<1>27. CASE CliFlush
  BY <1>27, <1>1 DEF CliFlush
<1>28. CASE CliFlushRedis
  BY <1>28, <1>1 DEF CliFlushRedis
<1>29. CASE CliDeleteRedis
  BY <1>29, <1>1 DEF CliDeleteRedis
<1>30. CASE Reindex
  BY <1>30, <1>1 DEF Reindex
<1>31. CASE Restart
  BY <1>1, <1>31, MatrixIds, ConstantsAssumption DEF Restart, Ids
<1>32. ASSUME NEW q \in Questions, CliDelete(q) PROVE UnbornInv'
  BY <1>32, <1>1 DEF CliDelete
<1>33. ASSUME NEW q \in Questions, RedisExpire(q) PROVE UnbornInv'
  BY <1>33, <1>1 DEF RedisExpire
<1>34. CASE UNCHANGED vars
  BY <1>34, <1>1 DEF vars
<1> QED
  BY <1>2, <1>3, <1>4, <1>5, <1>6, <1>7, <1>8, <1>9, <1>10, <1>11, <1>12, <1>13, <1>14, <1>15,
     <1>15a, <1>15b, <1>15c,
     <1>16, <1>17, <1>18, <1>19, <1>20, <1>21, <1>22, <1>23, <1>24, <1>25, <1>26, <1>27, <1>28,
     <1>29, <1>30, <1>31, <1>32, <1>33, <1>34
  DEF Next, Task, Answer, Lookup, Write, Operator, Environment

\* The entry whose row is about to be dropped is gone for good: its id is never inserted again.
LEMMA DropStep ==
    ASSUME TypeOK, TargetInv, UnbornInv, DropInv, [Next]_vars
    PROVE  DropInv'
<1> USE DEF DropInv, Step, Fault, taskVars, procVars, storeVars, cliVars, envVars
<1>1. /\ pc \in [Requests -> Phases] /\ target \in [Requests -> Ids \cup {None}]
      /\ matrix \in Seq(Row) /\ pg \in [Ids -> Entry \cup {None}] /\ Requests \subseteq Ids
      /\ None \notin Entry
  BY ConstantsAssumption DEF TypeOK, Ids
<1>2. ASSUME NEW r \in Requests, Ask(r) PROVE DropInv'
  BY <1>2, <1>1 DEF Ask
<1>3. ASSUME NEW r \in Requests, RedisHit(r) PROVE DropInv'
  BY <1>3, <1>1 DEF RedisHit
<1>4. ASSUME NEW r \in Requests, RedisMiss(r) PROVE DropInv'
  BY <1>4, <1>1 DEF RedisMiss
<1>5. ASSUME NEW r \in Requests, LoadBegin(r) PROVE DropInv'
  BY <1>5, <1>1 DEF LoadBegin
<1>6. ASSUME NEW r \in Requests, LoadFinish(r) PROVE DropInv'
  BY <1>1, <1>6, MatchLemma DEF LoadFinish
<1>7. ASSUME NEW r \in Requests, Match(r) PROVE DropInv'
  BY <1>1, <1>7, MatchLemma DEF Match
<1>8. ASSUME NEW r \in Requests, HitRead(r) PROVE DropInv'
  BY <1>8, <1>1 DEF HitRead
<1>9. ASSUME NEW r \in Requests, HitCommit(r) PROVE DropInv'
  <2>1. \A t \in Requests : pc[t] \in {"evictDrop", "victimDrop"} => target[t] \in Ids
    BY DEF TargetInv, Targeting
  <2>2. \/ pg' = pg
        \/ pg[target[r]] # None /\ \A e \in Ids : e # target[r] => pg'[e] = pg[e]
    BY <1>1, <1>9 DEF HitCommit
  <2>3. target' = target /\ \A t \in Requests : t # r => pc'[t] = pc[t]
    BY <1>1, <1>9 DEF HitCommit
  <2>4. pc'[r] \notin {"evictDrop", "victimDrop"}
    BY <1>1, <1>9 DEF HitCommit
  <2> QED BY <2>1, <2>2, <2>3, <2>4
<1>10. ASSUME NEW r \in Requests, EvictGet(r) PROVE DropInv'
  BY <1>10, <1>1 DEF EvictGet
<1>11. ASSUME NEW r \in Requests, EvictRedis(r) PROVE DropInv'
  BY <1>11, <1>1 DEF EvictRedis
<1>12. ASSUME NEW r \in Requests, EvictPg(r) PROVE DropInv'
  BY <1>1, <1>12 DEF EvictPg, TargetInv, Targeting
<1>13. ASSUME NEW r \in Requests, EvictDrop(r) PROVE DropInv'
  BY <1>13, <1>1 DEF EvictDrop
<1>14. ASSUME NEW r \in Requests, LookupFault(r) PROVE DropInv'
  BY <1>14, <1>1 DEF LookupFault
<1>15. ASSUME NEW r \in Requests, Generate(r) PROVE DropInv'
  BY <1>15, <1>1 DEF Generate, Answered
<1>15a. ASSUME NEW r \in Requests, SparseRead(r) PROVE DropInv'
  BY <1>15a, <1>1 DEF SparseRead
<1>15b. ASSUME NEW r \in Requests, SparseKeep(r) PROVE DropInv'
  BY <1>15b, <1>1 DEF SparseKeep, Answered
<1>15c. ASSUME NEW r \in Requests, Cancel(r) PROVE DropInv'
  <2>1. /\ pc' = [pc EXCEPT ![r] = "cancelled"]
        /\ \A t \in Requests : target'[t] = target[t] \/ t = r
        /\ \A e \in Ids : pg'[e] = None <=> pg[e] = None
    BY <1>15c, CancelFrame
  <2> QED BY <1>1, <2>1 DEF TargetInv, Targeting
<1>16. ASSUME NEW r \in Requests, WriteLock(r) PROVE DropInv'
  BY <1>16, <1>1 DEF WriteLock
<1>17. ASSUME NEW r \in Requests, WriteSelect(r) PROVE DropInv'
  BY <1>17, <1>1 DEF WriteSelect
<1>18. ASSUME NEW r \in Requests, WriteVictim(r) PROVE DropInv'
  BY <1>18, <1>1 DEF WriteVictim
<1>19. ASSUME NEW r \in Requests, VictimRedis(r) PROVE DropInv'
  BY <1>19, <1>1 DEF VictimRedis
<1>20. ASSUME NEW r \in Requests, VictimPg(r) PROVE DropInv'
  BY <1>1, <1>20 DEF VictimPg, TargetInv, Targeting
<1>21. ASSUME NEW r \in Requests, VictimDrop(r) PROVE DropInv'
  BY <1>21, <1>1 DEF VictimDrop
<1>22. ASSUME NEW r \in Requests, WriteInsert(r) PROVE DropInv'
  <2>1. \A t \in Requests : target[t] # r
    BY <1>22 DEF WriteInsert, UnbornInv, Written
  <2> QED BY <1>1, <1>22, <2>1 DEF WriteInsert
<1>23. ASSUME NEW r \in Requests, WriteUpdate(r) PROVE DropInv'
  <2>1. \A t \in Requests : pc[t] \in {"evictDrop", "victimDrop"} => target[t] \in Ids
    BY DEF TargetInv, Targeting
  <2>2. \/ pg' = pg
        \/ pg[target[r]] # None /\ \A e \in Ids : e # target[r] => pg'[e] = pg[e]
    BY <1>1, <1>23 DEF WriteUpdate
  <2>3. target' = target /\ \A t \in Requests : t # r => pc'[t] = pc[t]
    BY <1>1, <1>23 DEF WriteUpdate
  <2>4. pc'[r] \notin {"evictDrop", "victimDrop"}
    BY <1>1, <1>23 DEF WriteUpdate
  <2> QED BY <2>1, <2>2, <2>3, <2>4
<1>24. ASSUME NEW r \in Requests, WriteAppend(r) PROVE DropInv'
  BY <1>24, <1>1 DEF WriteAppend
<1>25. ASSUME NEW r \in Requests, WriteRedis(r) PROVE DropInv'
  BY <1>25, <1>1 DEF WriteRedis
<1>26. ASSUME NEW r \in Requests, WriteFault(r) PROVE DropInv'
  BY <1>26, <1>1 DEF WriteFault
<1>27. CASE CliFlush
  BY <1>1, <1>27 DEF CliFlush, TargetInv, Targeting
<1>28. CASE CliFlushRedis
  BY <1>28, <1>1 DEF CliFlushRedis
<1>29. CASE CliDeleteRedis
  BY <1>29, <1>1 DEF CliDeleteRedis
<1>30. CASE Reindex
  BY <1>30, <1>1 DEF Reindex
<1>31. CASE Restart
  BY <1>31, <1>1 DEF Restart
<1>32. ASSUME NEW q \in Questions, CliDelete(q) PROVE DropInv'
  BY <1>1, <1>32 DEF CliDelete, TargetInv, Targeting
<1>33. ASSUME NEW q \in Questions, RedisExpire(q) PROVE DropInv'
  BY <1>33, <1>1 DEF RedisExpire
<1>34. CASE UNCHANGED vars
  BY <1>34, <1>1 DEF vars
<1> QED
  BY <1>2, <1>3, <1>4, <1>5, <1>6, <1>7, <1>8, <1>9, <1>10, <1>11, <1>12, <1>13, <1>14, <1>15,
     <1>15a, <1>15b, <1>15c,
     <1>16, <1>17, <1>18, <1>19, <1>20, <1>21, <1>22, <1>23, <1>24, <1>25, <1>26, <1>27, <1>28,
     <1>29, <1>30, <1>31, <1>32, <1>33, <1>34
  DEF Next, Task, Answer, Lookup, Write, Operator, Environment

\* A row is dropped only when its entry is gone, and an insert is on its way to append its row.
LEMMA VisibleStep ==
    ASSUME TypeOK, TargetInv, AskedInv, DropInv, EntriesAreVisible, [Next]_vars
    PROVE  EntriesAreVisible'
<1> USE DEF EntriesAreVisible, Stored, Step, Fault, taskVars, procVars, storeVars, cliVars, envVars
<1>1. /\ pc \in [Requests -> Phases] /\ target \in [Requests -> Ids \cup {None}]
      /\ matrix \in Seq(Row) /\ pg \in [Ids -> Entry \cup {None}] /\ Requests \subseteq Ids
      /\ None \notin Entry
  BY ConstantsAssumption DEF TypeOK, Ids
<1>2. ASSUME NEW r \in Requests, Ask(r) PROVE EntriesAreVisible'
  BY <1>2, <1>1 DEF Ask
<1>3. ASSUME NEW r \in Requests, RedisHit(r) PROVE EntriesAreVisible'
  BY <1>3, <1>1 DEF RedisHit
<1>4. ASSUME NEW r \in Requests, RedisMiss(r) PROVE EntriesAreVisible'
  BY <1>4, <1>1 DEF RedisMiss
<1>5. ASSUME NEW r \in Requests, LoadBegin(r) PROVE EntriesAreVisible'
  BY <1>5, <1>1 DEF LoadBegin
<1>6. ASSUME NEW r \in Requests, LoadFinish(r) PROVE EntriesAreVisible'
  <2>1. RowIds(matrix') = Stored /\ Stored' = Stored
    BY <1>6, LoadsLemma DEF LoadFinish
  <2> QED BY <2>1
<1>7. ASSUME NEW r \in Requests, Match(r) PROVE EntriesAreVisible'
  BY <1>1, <1>7, MatchLemma DEF Match
<1>8. ASSUME NEW r \in Requests, HitRead(r) PROVE EntriesAreVisible'
  BY <1>8, <1>1 DEF HitRead
<1>9. ASSUME NEW r \in Requests, HitCommit(r) PROVE EntriesAreVisible'
  BY <1>9, <1>1 DEF HitCommit
<1>10. ASSUME NEW r \in Requests, EvictGet(r) PROVE EntriesAreVisible'
  BY <1>1, <1>10, MatrixIds DEF EvictGet, DropInv
<1>11. ASSUME NEW r \in Requests, EvictRedis(r) PROVE EntriesAreVisible'
  BY <1>11, <1>1 DEF EvictRedis
<1>12. ASSUME NEW r \in Requests, EvictPg(r) PROVE EntriesAreVisible'
  BY <1>12, <1>1 DEF EvictPg
<1>13. ASSUME NEW r \in Requests, EvictDrop(r) PROVE EntriesAreVisible'
  BY <1>1, <1>13, MatrixIds DEF EvictDrop, DropInv
<1>14. ASSUME NEW r \in Requests, LookupFault(r) PROVE EntriesAreVisible'
  BY <1>14, <1>1 DEF LookupFault
<1>15. ASSUME NEW r \in Requests, Generate(r) PROVE EntriesAreVisible'
  BY <1>15, <1>1 DEF Generate, Answered
<1>15a. ASSUME NEW r \in Requests, SparseRead(r) PROVE EntriesAreVisible'
  BY <1>15a, <1>1 DEF SparseRead
<1>15b. ASSUME NEW r \in Requests, SparseKeep(r) PROVE EntriesAreVisible'
  BY <1>15b, <1>1 DEF SparseKeep, Answered
<1>15c. ASSUME NEW r \in Requests, Cancel(r) PROVE EntriesAreVisible'
  <2>1. /\ pc[r] # "append" /\ pc' = [pc EXCEPT ![r] = "cancelled"]
        /\ \A t \in Requests : target'[t] = target[t] \/ t = r
        /\ \A e \in Ids : pg'[e] = None <=> pg[e] = None
        /\ UNCHANGED <<matrix, loaded>>
    BY <1>15c, CancelFrame DEF LookupPhases
  <2> QED BY <1>1, <2>1
<1>16. ASSUME NEW r \in Requests, WriteLock(r) PROVE EntriesAreVisible'
  BY <1>16, <1>1 DEF WriteLock
<1>17. ASSUME NEW r \in Requests, WriteSelect(r) PROVE EntriesAreVisible'
  BY <1>17, <1>1 DEF WriteSelect
<1>18. ASSUME NEW r \in Requests, WriteVictim(r) PROVE EntriesAreVisible'
  BY <1>18, <1>1 DEF WriteVictim
<1>19. ASSUME NEW r \in Requests, VictimRedis(r) PROVE EntriesAreVisible'
  BY <1>19, <1>1 DEF VictimRedis
<1>20. ASSUME NEW r \in Requests, VictimPg(r) PROVE EntriesAreVisible'
  BY <1>20, <1>1 DEF VictimPg
<1>21. ASSUME NEW r \in Requests, VictimDrop(r) PROVE EntriesAreVisible'
  BY <1>1, <1>21, MatrixIds DEF VictimDrop, DropInv
<1>22. ASSUME NEW r \in Requests, WriteInsert(r) PROVE EntriesAreVisible'
  BY <1>22, <1>1 DEF WriteInsert
<1>23. ASSUME NEW r \in Requests, WriteUpdate(r) PROVE EntriesAreVisible'
  BY <1>23, <1>1 DEF WriteUpdate
<1>24. ASSUME NEW r \in Requests, WriteAppend(r) PROVE EntriesAreVisible'
  <2>1. pc[r] = "append"
    BY <1>24 DEF WriteAppend
  <2>2. RowIds(matrix) \cup {target[r]} \subseteq RowIds(matrix')
    BY <1>1, <1>24, <2>1, AppendedRow, MatrixIds DEF WriteAppend
  <2> QED BY <1>1, <1>24, <2>2 DEF WriteAppend
<1>25. ASSUME NEW r \in Requests, WriteRedis(r) PROVE EntriesAreVisible'
  BY <1>25, <1>1 DEF WriteRedis
<1>26. ASSUME NEW r \in Requests, WriteFault(r) PROVE EntriesAreVisible'
  BY <1>26, <1>1 DEF WriteFault
<1>27. CASE CliFlush
  BY <1>27, <1>1 DEF CliFlush
<1>28. CASE CliFlushRedis
  BY <1>28, <1>1 DEF CliFlushRedis
<1>29. CASE CliDeleteRedis
  BY <1>29, <1>1 DEF CliDeleteRedis
<1>30. CASE Reindex
  BY <1>30, <1>1 DEF Reindex
<1>31. CASE Restart
  BY <1>31, <1>1 DEF Restart
<1>32. ASSUME NEW q \in Questions, CliDelete(q) PROVE EntriesAreVisible'
  BY <1>32, <1>1 DEF CliDelete
<1>33. ASSUME NEW q \in Questions, RedisExpire(q) PROVE EntriesAreVisible'
  BY <1>33, <1>1 DEF RedisExpire
<1>34. CASE UNCHANGED vars
  BY <1>34, <1>1 DEF vars
<1> QED
  BY <1>2, <1>3, <1>4, <1>5, <1>6, <1>7, <1>8, <1>9, <1>10, <1>11, <1>12, <1>13, <1>14, <1>15,
     <1>15a, <1>15b, <1>15c,
     <1>16, <1>17, <1>18, <1>19, <1>20, <1>21, <1>22, <1>23, <1>24, <1>25, <1>26, <1>27, <1>28,
     <1>29, <1>30, <1>31, <1>32, <1>33, <1>34
  DEF Next, Task, Answer, Lookup, Write, Operator, Environment

\* A question is set once, by Ask, and answers served are answers to questions.
LEMMA AskedStep ==
    ASSUME TypeOK, TargetInv, AskedInv, KeyInv, [Next]_vars
    PROVE  AskedInv'
<1> USE DEF AskedInv, Step, Fault, taskVars, procVars, storeVars, cliVars, envVars
<1>1. /\ pc \in [Requests -> Phases] /\ target \in [Requests -> Ids \cup {None}]
      /\ asked \in [Ids -> Questions \cup {None}] /\ pg \in [Ids -> Entry \cup {None}]
      /\ redis \in [Questions -> Ids \cup {None}] /\ served \in [Requests -> Ids \cup {None}]
      /\ copy \in [Requests -> Entry \cup {None}]
      /\ Requests \subseteq Ids /\ Seeds \subseteq Ids /\ Requests \cap Seeds = {}
      /\ None \notin Entry /\ None \notin Questions /\ None \notin Ids
  BY ConstantsAssumption DEF TypeOK, Ids
<1>2. ASSUME NEW r \in Requests, Ask(r) PROVE AskedInv'
  BY <1>2, <1>1 DEF Ask
<1>3. ASSUME NEW r \in Requests, RedisHit(r) PROVE AskedInv'
  <2>1. asked[r] \in Questions /\ asked[redis[asked[r]]] = asked[r] /\ redis[asked[r]] \in Ids
    BY <1>1, <1>3 DEF RedisHit, KeyInv
  <2> QED BY <1>1, <1>3, <2>1 DEF RedisHit
<1>4. ASSUME NEW r \in Requests, RedisMiss(r) PROVE AskedInv'
  BY <1>4, <1>1 DEF RedisMiss
<1>5. ASSUME NEW r \in Requests, LoadBegin(r) PROVE AskedInv'
  BY <1>5, <1>1 DEF LoadBegin
<1>6. ASSUME NEW r \in Requests, LoadFinish(r) PROVE AskedInv'
  BY <1>1, <1>6, MatchLemma DEF LoadFinish
<1>7. ASSUME NEW r \in Requests, Match(r) PROVE AskedInv'
  BY <1>1, <1>7, MatchLemma DEF Match
<1>8. ASSUME NEW r \in Requests, HitRead(r) PROVE AskedInv'
  BY <1>8, <1>1 DEF HitRead
<1>9. ASSUME NEW r \in Requests, HitCommit(r) PROVE AskedInv'
  <2>1. target[r] \in Ids /\ copy[r] \in Entry
    BY <1>1, <1>9 DEF HitCommit, TargetInv, Targeting
  <2>2. pg[target[r]] # None => asked[target[r]] \in Questions
    BY <1>1, <2>1 DEF KeyInv, Stored, Entry
  <2>3. asked[copy[r].ans] = asked[target[r]]
    BY <1>1, <1>9 DEF HitCommit, KeyInv
  <2> QED BY <1>1, <1>9, <2>1, <2>2, <2>3 DEF HitCommit
<1>10. ASSUME NEW r \in Requests, EvictGet(r) PROVE AskedInv'
  BY <1>10, <1>1 DEF EvictGet
<1>11. ASSUME NEW r \in Requests, EvictRedis(r) PROVE AskedInv'
  BY <1>11, <1>1 DEF EvictRedis
<1>12. ASSUME NEW r \in Requests, EvictPg(r) PROVE AskedInv'
  BY <1>12, <1>1 DEF EvictPg
<1>13. ASSUME NEW r \in Requests, EvictDrop(r) PROVE AskedInv'
  BY <1>13, <1>1 DEF EvictDrop
<1>14. ASSUME NEW r \in Requests, LookupFault(r) PROVE AskedInv'
  BY <1>14, <1>1 DEF LookupFault
<1>15. ASSUME NEW r \in Requests, Generate(r) PROVE AskedInv'
  BY <1>15, <1>1 DEF Generate, Answered
<1>15a. ASSUME NEW r \in Requests, SparseRead(r) PROVE AskedInv'
  BY <1>15a, <1>1 DEF SparseRead
<1>15b. ASSUME NEW r \in Requests, SparseKeep(r) PROVE AskedInv'
  BY <1>15b, <1>1 DEF SparseKeep, Answered
<1>15c. ASSUME NEW r \in Requests, Cancel(r) PROVE AskedInv'
  <2>1. /\ pc[r] # "idle" /\ pc' = [pc EXCEPT ![r] = "cancelled"]
        /\ UNCHANGED <<asked, served>>
    BY <1>15c, CancelFrame DEF LookupPhases
  <2> QED BY <1>1, <2>1
<1>16. ASSUME NEW r \in Requests, WriteLock(r) PROVE AskedInv'
  BY <1>16, <1>1 DEF WriteLock
<1>17. ASSUME NEW r \in Requests, WriteSelect(r) PROVE AskedInv'
  BY <1>17, <1>1 DEF WriteSelect
<1>18. ASSUME NEW r \in Requests, WriteVictim(r) PROVE AskedInv'
  BY <1>18, <1>1 DEF WriteVictim
<1>19. ASSUME NEW r \in Requests, VictimRedis(r) PROVE AskedInv'
  BY <1>19, <1>1 DEF VictimRedis
<1>20. ASSUME NEW r \in Requests, VictimPg(r) PROVE AskedInv'
  BY <1>20, <1>1 DEF VictimPg
<1>21. ASSUME NEW r \in Requests, VictimDrop(r) PROVE AskedInv'
  BY <1>21, <1>1 DEF VictimDrop
<1>22. ASSUME NEW r \in Requests, WriteInsert(r) PROVE AskedInv'
  BY <1>22, <1>1 DEF WriteInsert
<1>23. ASSUME NEW r \in Requests, WriteUpdate(r) PROVE AskedInv'
  BY <1>23, <1>1 DEF WriteUpdate
<1>24. ASSUME NEW r \in Requests, WriteAppend(r) PROVE AskedInv'
  BY <1>24, <1>1 DEF WriteAppend
<1>25. ASSUME NEW r \in Requests, WriteRedis(r) PROVE AskedInv'
  BY <1>25, <1>1 DEF WriteRedis
<1>26. ASSUME NEW r \in Requests, WriteFault(r) PROVE AskedInv'
  BY <1>26, <1>1 DEF WriteFault
<1>27. CASE CliFlush
  BY <1>27, <1>1 DEF CliFlush
<1>28. CASE CliFlushRedis
  BY <1>28, <1>1 DEF CliFlushRedis
<1>29. CASE CliDeleteRedis
  BY <1>29, <1>1 DEF CliDeleteRedis
<1>30. CASE Reindex
  BY <1>30, <1>1 DEF Reindex
<1>31. CASE Restart
  BY <1>31, <1>1 DEF Restart
<1>32. ASSUME NEW q \in Questions, CliDelete(q) PROVE AskedInv'
  BY <1>32, <1>1 DEF CliDelete
<1>33. ASSUME NEW q \in Questions, RedisExpire(q) PROVE AskedInv'
  BY <1>33, <1>1 DEF RedisExpire
<1>34. CASE UNCHANGED vars
  BY <1>34, <1>1 DEF vars
<1> QED
  BY <1>2, <1>3, <1>4, <1>5, <1>6, <1>7, <1>8, <1>9, <1>10, <1>11, <1>12, <1>13, <1>14, <1>15,
     <1>15a, <1>15b, <1>15c,
     <1>16, <1>17, <1>18, <1>19, <1>20, <1>21, <1>22, <1>23, <1>24, <1>25, <1>26, <1>27, <1>28,
     <1>29, <1>30, <1>31, <1>32, <1>33, <1>34
  DEF Next, Task, Answer, Lookup, Write, Operator, Environment

\* Whatever names an entry names one whose question is known.
LEMMA Known ==
    ASSUME TypeOK, TargetInv, UnbornInv, AskedInv, KeyInv
    PROVE  /\ \A e \in Stored : asked[e] \in Questions /\ asked[pg[e].ans] \in Questions
           /\ \A q \in Questions : redis[q] # None => asked[redis[q]] \in Questions
           /\ \A i \in DOMAIN matrix : asked[matrix[i].id] \in Questions
           /\ \A t \in Requests : pc[t] \in Targeting => asked[target[t]] \in Questions
<1>1. \A e \in Stored : pg[e].q \in Questions
  BY DEF TypeOK, Stored, Entry
<1>2. \A i \in DOMAIN matrix : matrix[i].q \in Questions
  <2>1. \A i \in DOMAIN matrix : matrix[i] \in Row
    BY DEF TypeOK
  <2> QED BY <2>1 DEF Row
<1>3. ASSUME NEW t \in Requests, pc[t] \in Targeting
      PROVE  asked[target[t]] \in Questions
  <2>1. target[t] \in Ids
    BY <1>3 DEF TargetInv
  <2>2. CASE target[t] \in Seeds
    BY <2>2 DEF AskedInv
  <2>3. CASE target[t] \in Requests
    <3>1. pc[target[t]] \in {"append", "wredis", "done"}
      BY <1>3, <2>3 DEF UnbornInv, Written
    <3> QED BY <2>3, <3>1 DEF AskedInv
  <2> QED BY <2>1, <2>2, <2>3 DEF Ids
<1> QED BY <1>1, <1>2, <1>3 DEF KeyInv

\* Ask changes nothing that is known already.
LEMMA AskFrame ==
    ASSUME TypeOK, AskedInv, NEW r \in Requests, Ask(r)
    PROVE  /\ \A e \in Ids : asked[e] \in Questions => e # r /\ asked'[e] = asked[e]
           /\ \A t \in Requests : t # r => pc'[t] = pc[t] /\ asked'[t] = asked[t]
           /\ pc'[r] \in {"redis", "generate"} /\ served[r] = None /\ asked'[r] \in Questions
           /\ UNCHANGED <<target, copy, served, pg, redis, matrix>>
<1>1. pc[r] = "idle" /\ asked[r] = None
  BY DEF Ask, Step, AskedInv
<1>2. None \notin Questions
  BY ConstantsAssumption
<1> QED
  BY <1>1, <1>2 DEF Ask, Step, AskedInv, TypeOK, taskVars, procVars, storeVars, Ids

\* Every store writes an answer under the question it answers.
LEMMA KeyStep ==
    ASSUME TypeOK, TargetInv, UnbornInv, AskedInv, KeyInv, [Next]_vars
    PROVE  KeyInv'
<1> USE DEF KeyInv, Stored, Step, Fault, RedisCall, taskVars, procVars, storeVars, cliVars, envVars
<1>1. /\ pc \in [Requests -> Phases] /\ target \in [Requests -> Ids \cup {None}]
      /\ asked \in [Ids -> Questions \cup {None}] /\ pg \in [Ids -> Entry \cup {None}]
      /\ redis \in [Questions -> Ids \cup {None}] /\ served \in [Requests -> Ids \cup {None}]
      /\ matrix \in Seq(Row) /\ copy \in [Requests -> Entry \cup {None}]
      /\ Requests \subseteq Ids /\ Seeds \subseteq Ids /\ Requests \cap Seeds = {}
      /\ None \notin Entry /\ None \notin Questions /\ None \notin Ids
  BY ConstantsAssumption DEF TypeOK, Ids
<1>2. ASSUME NEW r \in Requests, Ask(r) PROVE KeyInv'
  <2>1. /\ \A e \in Stored : pg[e].ans \in Ids
        /\ \A q \in Questions : redis[q] # None => redis[q] \in Ids
        /\ \A i \in DOMAIN matrix : matrix[i].id \in Ids
        /\ \A t \in Requests : pc[t] = "hitCommit" => copy[t].ans \in Ids
        /\ \A t \in Requests : pc[t] \in Targeting => target[t] \in Ids
    BY <1>1, RowsNameIds DEF TypeOK, Entry, TargetInv
  <2> QED BY <1>1, <1>2, <2>1, Known, AskFrame DEF Targeting
<1>3. ASSUME NEW r \in Requests, RedisHit(r) PROVE KeyInv'
  BY <1>3, <1>1 DEF RedisHit
<1>4. ASSUME NEW r \in Requests, RedisMiss(r) PROVE KeyInv'
  BY <1>4, <1>1 DEF RedisMiss
<1>5. ASSUME NEW r \in Requests, LoadBegin(r) PROVE KeyInv'
  BY <1>5, <1>1 DEF LoadBegin
<1>6. ASSUME NEW r \in Requests, LoadFinish(r) PROVE KeyInv'
  <2>1. \A i \in DOMAIN matrix' : /\ matrix'[i].id \in Stored
                                  /\ matrix'[i].q = pg[matrix'[i].id].q
    BY <1>6, LoadedMatrix
  <2>2. \A i \in DOMAIN matrix' : matrix'[i].q = asked[matrix'[i].id]
    BY <2>1
  <2>3. UNCHANGED <<asked, pg, redis, copy>>
    BY <1>6 DEF LoadFinish
  <2>4. \A t \in Requests : pc'[t] \in {"hitCommit", "update", "append"} =>
          pc'[t] = pc[t] /\ target'[t] = target[t]
    BY <1>1, <1>6, MatchLemma
  <2> QED BY <2>2, <2>3, <2>4
<1>7. ASSUME NEW r \in Requests, Match(r) PROVE KeyInv'
  BY <1>1, <1>7, MatchLemma DEF Match
<1>8. ASSUME NEW r \in Requests, HitRead(r) PROVE KeyInv'
  BY <1>1, <1>8 DEF HitRead, TargetInv, Targeting
<1>9. ASSUME NEW r \in Requests, HitCommit(r) PROVE KeyInv'
  <2>1. target[r] \in Ids
    BY <1>9 DEF HitCommit, TargetInv, Targeting
  <2>2. \A e \in Ids : pg'[e] # None =>
           pg[e] # None /\ pg'[e].q = pg[e].q /\ pg'[e].ans = pg[e].ans
    BY <1>1, <1>9, <2>1 DEF HitCommit, Entry
  <2>3. \A t \in Requests : pc'[t] \in {"hitCommit", "update", "append"} => t # r /\ pc'[t] = pc[t]
    BY <1>1, <1>9 DEF HitCommit
  <2>4. \A t \in Requests : t # r => copy'[t] = copy[t]
    BY <1>1, <1>9 DEF HitCommit
  <2>5. UNCHANGED <<asked, target, redis, matrix>>
    BY <1>9 DEF HitCommit
  <2> QED BY <2>2, <2>3, <2>4, <2>5
<1>10. ASSUME NEW r \in Requests, EvictGet(r) PROVE KeyInv'
  <2>1. \A i \in DOMAIN matrix' : \E j \in DOMAIN matrix : matrix'[i] = matrix[j]
    BY <1>1, <1>10, DropRowLemma DEF EvictGet
  <2> QED BY <1>1, <1>10, <2>1 DEF EvictGet
<1>11. ASSUME NEW r \in Requests, EvictRedis(r) PROVE KeyInv'
  BY <1>11, <1>1 DEF EvictRedis
<1>12. ASSUME NEW r \in Requests, EvictPg(r) PROVE KeyInv'
  BY <1>12, <1>1 DEF EvictPg
<1>13. ASSUME NEW r \in Requests, EvictDrop(r) PROVE KeyInv'
  <2>1. \A i \in DOMAIN matrix' : \E j \in DOMAIN matrix : matrix'[i] = matrix[j]
    BY <1>1, <1>13, DropRowLemma DEF EvictDrop
  <2> QED BY <1>1, <1>13, <2>1 DEF EvictDrop
<1>14. ASSUME NEW r \in Requests, LookupFault(r) PROVE KeyInv'
  BY <1>14, <1>1 DEF LookupFault
<1>15. ASSUME NEW r \in Requests, Generate(r) PROVE KeyInv'
  BY <1>15, <1>1 DEF Generate, Answered
<1>15a. ASSUME NEW r \in Requests, SparseRead(r) PROVE KeyInv'
  BY <1>15a, <1>1 DEF SparseRead
<1>15b. ASSUME NEW r \in Requests, SparseKeep(r) PROVE KeyInv'
  BY <1>15b, <1>1 DEF SparseKeep, Answered
<1>15c. ASSUME NEW r \in Requests, Cancel(r) PROVE KeyInv'
  BY <1>1, <1>15c, CancelFrame
<1>16. ASSUME NEW r \in Requests, WriteLock(r) PROVE KeyInv'
  BY <1>16, <1>1 DEF WriteLock
<1>17. ASSUME NEW r \in Requests, WriteSelect(r) PROVE KeyInv'
  BY <1>1, <1>17 DEF WriteSelect, HasEntryFor
<1>18. ASSUME NEW r \in Requests, WriteVictim(r) PROVE KeyInv'
  BY <1>18, <1>1 DEF WriteVictim
<1>19. ASSUME NEW r \in Requests, VictimRedis(r) PROVE KeyInv'
  BY <1>19, <1>1 DEF VictimRedis
<1>20. ASSUME NEW r \in Requests, VictimPg(r) PROVE KeyInv'
  BY <1>20, <1>1 DEF VictimPg
<1>21. ASSUME NEW r \in Requests, VictimDrop(r) PROVE KeyInv'
  <2>1. \A i \in DOMAIN matrix' : \E j \in DOMAIN matrix : matrix'[i] = matrix[j]
    BY <1>1, <1>21, DropRowLemma DEF VictimDrop
  <2> QED BY <1>1, <1>21, <2>1 DEF VictimDrop
<1>22. ASSUME NEW r \in Requests, WriteInsert(r) PROVE KeyInv'
  BY <1>22, <1>1 DEF WriteInsert
<1>23. ASSUME NEW r \in Requests, WriteUpdate(r) PROVE KeyInv'
  <2>1. target[r] \in Ids /\ asked[target[r]] = asked[r]
    BY <1>23 DEF WriteUpdate, TargetInv, Targeting
  <2>2. \A e \in Ids : pg'[e] # None =>
           /\ pg[e] # None /\ pg'[e].q = pg[e].q
           /\ pg'[e].ans = pg[e].ans \/ (e = target[r] /\ pg'[e].ans = r)
    BY <1>1, <1>23, <2>1 DEF WriteUpdate, Entry
  <2>3. \A t \in Requests : pc'[t] \in {"hitCommit", "update"} => pc'[t] = pc[t]
    BY <1>1, <1>23 DEF WriteUpdate
  <2>4. \A t \in Requests : pc'[t] = "append" => pc[t] \in {"update", "append"}
    BY <1>1, <1>23 DEF WriteUpdate
  <2>5. UNCHANGED <<asked, target, redis, matrix, copy>>
    BY <1>23 DEF WriteUpdate
  <2> QED BY <2>1, <2>2, <2>3, <2>4, <2>5
<1>24. ASSUME NEW r \in Requests, WriteAppend(r) PROVE KeyInv'
  <2>1. asked[target[r]] = asked[r] /\ pc[r] = "append"
    BY <1>24 DEF WriteAppend
  <2>2. \A i \in DOMAIN DropRow(matrix, target[r]) : \E j \in DOMAIN matrix :
           DropRow(matrix, target[r])[i] = matrix[j]
    BY <1>1, DropRowLemma
  <2>3. DropRow(matrix, target[r]) \in Seq(Row)
    BY <2>1, AppendedRow
  <2>4. \A i \in DOMAIN matrix' :
           \/ \E j \in DOMAIN matrix : matrix'[i] = matrix[j]
           \/ matrix'[i] = [id |-> target[r], q |-> asked[r], man |-> curMan]
    BY <1>24, <2>2, <2>3 DEF WriteAppend
  <2>5. \A i \in DOMAIN matrix' : matrix'[i].q = asked[matrix'[i].id]
    BY <2>1, <2>4
  <2> QED BY <1>1, <1>24, <2>5 DEF WriteAppend
<1>25. ASSUME NEW r \in Requests, WriteRedis(r) PROVE KeyInv'
  BY <1>25, <1>1 DEF WriteRedis
<1>26. ASSUME NEW r \in Requests, WriteFault(r) PROVE KeyInv'
  BY <1>26, <1>1 DEF WriteFault
<1>27. CASE CliFlush
  BY <1>27, <1>1 DEF CliFlush
<1>28. CASE CliFlushRedis
  BY <1>28, <1>1 DEF CliFlushRedis
<1>29. CASE CliDeleteRedis
  BY <1>29, <1>1 DEF CliDeleteRedis
<1>30. CASE Reindex
  BY <1>30, <1>1 DEF Reindex
<1>31. CASE Restart
  BY <1>31, <1>1 DEF Restart
<1>32. ASSUME NEW q \in Questions, CliDelete(q) PROVE KeyInv'
  BY <1>32, <1>1 DEF CliDelete
<1>33. ASSUME NEW q \in Questions, RedisExpire(q) PROVE KeyInv'
  BY <1>33, <1>1 DEF RedisExpire
<1>34. CASE UNCHANGED vars
  BY <1>34, <1>1 DEF vars
<1> QED
  BY <1>2, <1>3, <1>4, <1>5, <1>6, <1>7, <1>8, <1>9, <1>10, <1>11, <1>12, <1>13, <1>14, <1>15,
     <1>15a, <1>15b, <1>15c,
     <1>16, <1>17, <1>18, <1>19, <1>20, <1>21, <1>22, <1>23, <1>24, <1>25, <1>26, <1>27, <1>28,
     <1>29, <1>30, <1>31, <1>32, <1>33, <1>34
  DEF Next, Task, Answer, Lookup, Write, Operator, Environment

\* A match is made on a row whose question is the entry's.
LEMMA MatchStep ==
    ASSUME TypeOK, TargetInv, UnbornInv, AskedInv, KeyInv, KeyInv', MatchInv, [Next]_vars
    PROVE  MatchInv'
<1> USE DEF MatchInv, Step, Fault, taskVars, procVars, storeVars, cliVars, envVars
<1>1. /\ pc \in [Requests -> Phases] /\ target \in [Requests -> Ids \cup {None}]
      /\ asked \in [Ids -> Questions \cup {None}] /\ pg \in [Ids -> Entry \cup {None}]
      /\ redis \in [Questions -> Ids \cup {None}] /\ served \in [Requests -> Ids \cup {None}]
      /\ copy \in [Requests -> Entry \cup {None}]
      /\ Requests \subseteq Ids /\ Seeds \subseteq Ids /\ Requests \cap Seeds = {}
      /\ None \notin Entry /\ None \notin Questions /\ None \notin Ids
  BY ConstantsAssumption DEF TypeOK, Ids
<1>2. ASSUME NEW r \in Requests, Ask(r) PROVE MatchInv'
  <2>1. \A t \in Requests : pc[t] \in Targeting => target[t] \in Ids
    BY DEF TargetInv
  <2> QED BY <1>1, <1>2, <2>1, Known, AskFrame DEF Targeting, AskedInv
<1>3. ASSUME NEW r \in Requests, RedisHit(r) PROVE MatchInv'
  BY <1>3, <1>1 DEF RedisHit
<1>4. ASSUME NEW r \in Requests, RedisMiss(r) PROVE MatchInv'
  BY <1>4, <1>1 DEF RedisMiss
<1>5. ASSUME NEW r \in Requests, LoadBegin(r) PROVE MatchInv'
  BY <1>5, <1>1 DEF LoadBegin
<1>6. ASSUME NEW r \in Requests, LoadFinish(r) PROVE MatchInv'
  <2>1. asked' = asked /\ \A i \in DOMAIN matrix' : matrix'[i].q = asked[matrix'[i].id]
    BY <1>6 DEF LoadFinish, KeyInv
  <2> QED BY <1>1, <1>6, <2>1, MatchLemma
<1>7. ASSUME NEW r \in Requests, Match(r) PROVE MatchInv'
  <2>1. asked' = asked /\ \A i \in DOMAIN matrix' : matrix'[i].q = asked[matrix'[i].id]
    BY <1>7 DEF Match, KeyInv
  <2> QED BY <1>1, <1>7, <2>1, MatchLemma
<1>8. ASSUME NEW r \in Requests, HitRead(r) PROVE MatchInv'
  BY <1>8, <1>1 DEF HitRead
<1>9. ASSUME NEW r \in Requests, HitCommit(r) PROVE MatchInv'
  BY <1>9, <1>1 DEF HitCommit
<1>10. ASSUME NEW r \in Requests, EvictGet(r) PROVE MatchInv'
  BY <1>10, <1>1 DEF EvictGet
<1>11. ASSUME NEW r \in Requests, EvictRedis(r) PROVE MatchInv'
  BY <1>11, <1>1 DEF EvictRedis
<1>12. ASSUME NEW r \in Requests, EvictPg(r) PROVE MatchInv'
  BY <1>12, <1>1 DEF EvictPg
<1>13. ASSUME NEW r \in Requests, EvictDrop(r) PROVE MatchInv'
  BY <1>13, <1>1 DEF EvictDrop
<1>14. ASSUME NEW r \in Requests, LookupFault(r) PROVE MatchInv'
  BY <1>14, <1>1 DEF LookupFault
<1>15. ASSUME NEW r \in Requests, Generate(r) PROVE MatchInv'
  BY <1>15, <1>1 DEF Generate, Answered
<1>15a. ASSUME NEW r \in Requests, SparseRead(r) PROVE MatchInv'
  BY <1>15a, <1>1 DEF SparseRead
<1>15b. ASSUME NEW r \in Requests, SparseKeep(r) PROVE MatchInv'
  BY <1>15b, <1>1 DEF SparseKeep, Answered
<1>15c. ASSUME NEW r \in Requests, Cancel(r) PROVE MatchInv'
  BY <1>15c, <1>1 DEF Cancel
<1>16. ASSUME NEW r \in Requests, WriteLock(r) PROVE MatchInv'
  BY <1>16, <1>1 DEF WriteLock
<1>17. ASSUME NEW r \in Requests, WriteSelect(r) PROVE MatchInv'
  BY <1>17, <1>1 DEF WriteSelect
<1>18. ASSUME NEW r \in Requests, WriteVictim(r) PROVE MatchInv'
  BY <1>18, <1>1 DEF WriteVictim
<1>19. ASSUME NEW r \in Requests, VictimRedis(r) PROVE MatchInv'
  BY <1>19, <1>1 DEF VictimRedis
<1>20. ASSUME NEW r \in Requests, VictimPg(r) PROVE MatchInv'
  BY <1>20, <1>1 DEF VictimPg
<1>21. ASSUME NEW r \in Requests, VictimDrop(r) PROVE MatchInv'
  BY <1>21, <1>1 DEF VictimDrop
<1>22. ASSUME NEW r \in Requests, WriteInsert(r) PROVE MatchInv'
  BY <1>22, <1>1 DEF WriteInsert
<1>23. ASSUME NEW r \in Requests, WriteUpdate(r) PROVE MatchInv'
  BY <1>23, <1>1 DEF WriteUpdate
<1>24. ASSUME NEW r \in Requests, WriteAppend(r) PROVE MatchInv'
  BY <1>24, <1>1 DEF WriteAppend
<1>25. ASSUME NEW r \in Requests, WriteRedis(r) PROVE MatchInv'
  BY <1>25, <1>1 DEF WriteRedis
<1>26. ASSUME NEW r \in Requests, WriteFault(r) PROVE MatchInv'
  BY <1>26, <1>1 DEF WriteFault
<1>27. CASE CliFlush
  BY <1>27, <1>1 DEF CliFlush
<1>28. CASE CliFlushRedis
  BY <1>28, <1>1 DEF CliFlushRedis
<1>29. CASE CliDeleteRedis
  BY <1>29, <1>1 DEF CliDeleteRedis
<1>30. CASE Reindex
  BY <1>30, <1>1 DEF Reindex
<1>31. CASE Restart
  BY <1>31, <1>1 DEF Restart
<1>32. ASSUME NEW q \in Questions, CliDelete(q) PROVE MatchInv'
  BY <1>32, <1>1 DEF CliDelete
<1>33. ASSUME NEW q \in Questions, RedisExpire(q) PROVE MatchInv'
  BY <1>33, <1>1 DEF RedisExpire
<1>34. CASE UNCHANGED vars
  BY <1>34, <1>1 DEF vars
<1> QED
  BY <1>2, <1>3, <1>4, <1>5, <1>6, <1>7, <1>8, <1>9, <1>10, <1>11, <1>12, <1>13, <1>14, <1>15,
     <1>15a, <1>15b, <1>15c,
     <1>16, <1>17, <1>18, <1>19, <1>20, <1>21, <1>22, <1>23, <1>24, <1>25, <1>26, <1>27, <1>28,
     <1>29, <1>30, <1>31, <1>32, <1>33, <1>34
  DEF Next, Task, Answer, Lookup, Write, Operator, Environment

\* What is returned fits: the exact tier by its key, the semantic tier by the match.
LEMMA FitStep ==
    ASSUME TypeOK, TargetInv, UnbornInv, AskedInv, KeyInv, MatchInv, ServedAnswersFit, [Next]_vars
    PROVE  ServedAnswersFit'
<1> USE DEF ServedAnswersFit, Step, Fault, taskVars, procVars, storeVars, cliVars, envVars
<1>1. /\ pc \in [Requests -> Phases] /\ target \in [Requests -> Ids \cup {None}]
      /\ asked \in [Ids -> Questions \cup {None}] /\ pg \in [Ids -> Entry \cup {None}]
      /\ redis \in [Questions -> Ids \cup {None}] /\ served \in [Requests -> Ids \cup {None}]
      /\ copy \in [Requests -> Entry \cup {None}]
      /\ Requests \subseteq Ids /\ Seeds \subseteq Ids /\ Requests \cap Seeds = {}
      /\ None \notin Entry /\ None \notin Questions /\ None \notin Ids
  BY ConstantsAssumption DEF TypeOK, Ids
<1>2. ASSUME NEW r \in Requests, Ask(r) PROVE ServedAnswersFit'
  BY <1>1, <1>2, Known, AskFrame DEF AskedInv
<1>3. ASSUME NEW r \in Requests, RedisHit(r) PROVE ServedAnswersFit'
  <2>1. asked[r] \in Questions /\ asked[redis[asked[r]]] = asked[r]
    BY <1>1, <1>3 DEF RedisHit, KeyInv, AskedInv
  <2> QED BY <1>1, <1>3, <2>1 DEF RedisHit
<1>4. ASSUME NEW r \in Requests, RedisMiss(r) PROVE ServedAnswersFit'
  BY <1>4, <1>1 DEF RedisMiss
<1>5. ASSUME NEW r \in Requests, LoadBegin(r) PROVE ServedAnswersFit'
  BY <1>5, <1>1 DEF LoadBegin
<1>6. ASSUME NEW r \in Requests, LoadFinish(r) PROVE ServedAnswersFit'
  BY <1>1, <1>6, MatchLemma DEF LoadFinish
<1>7. ASSUME NEW r \in Requests, Match(r) PROVE ServedAnswersFit'
  BY <1>1, <1>7, MatchLemma DEF Match
<1>8. ASSUME NEW r \in Requests, HitRead(r) PROVE ServedAnswersFit'
  BY <1>8, <1>1 DEF HitRead
<1>9. ASSUME NEW r \in Requests, HitCommit(r) PROVE ServedAnswersFit'
  BY <1>1, <1>9 DEF HitCommit, KeyInv, MatchInv
<1>10. ASSUME NEW r \in Requests, EvictGet(r) PROVE ServedAnswersFit'
  BY <1>10, <1>1 DEF EvictGet
<1>11. ASSUME NEW r \in Requests, EvictRedis(r) PROVE ServedAnswersFit'
  BY <1>11, <1>1 DEF EvictRedis
<1>12. ASSUME NEW r \in Requests, EvictPg(r) PROVE ServedAnswersFit'
  BY <1>12, <1>1 DEF EvictPg
<1>13. ASSUME NEW r \in Requests, EvictDrop(r) PROVE ServedAnswersFit'
  BY <1>13, <1>1 DEF EvictDrop
<1>14. ASSUME NEW r \in Requests, LookupFault(r) PROVE ServedAnswersFit'
  BY <1>14, <1>1 DEF LookupFault
<1>15. ASSUME NEW r \in Requests, Generate(r) PROVE ServedAnswersFit'
  BY <1>15, <1>1 DEF Generate, Answered
<1>15a. ASSUME NEW r \in Requests, SparseRead(r) PROVE ServedAnswersFit'
  BY <1>15a, <1>1 DEF SparseRead
<1>15b. ASSUME NEW r \in Requests, SparseKeep(r) PROVE ServedAnswersFit'
  BY <1>15b, <1>1 DEF SparseKeep, Answered
<1>15c. ASSUME NEW r \in Requests, Cancel(r) PROVE ServedAnswersFit'
  BY <1>15c, <1>1 DEF Cancel
<1>16. ASSUME NEW r \in Requests, WriteLock(r) PROVE ServedAnswersFit'
  BY <1>16, <1>1 DEF WriteLock
<1>17. ASSUME NEW r \in Requests, WriteSelect(r) PROVE ServedAnswersFit'
  BY <1>17, <1>1 DEF WriteSelect
<1>18. ASSUME NEW r \in Requests, WriteVictim(r) PROVE ServedAnswersFit'
  BY <1>18, <1>1 DEF WriteVictim
<1>19. ASSUME NEW r \in Requests, VictimRedis(r) PROVE ServedAnswersFit'
  BY <1>19, <1>1 DEF VictimRedis
<1>20. ASSUME NEW r \in Requests, VictimPg(r) PROVE ServedAnswersFit'
  BY <1>20, <1>1 DEF VictimPg
<1>21. ASSUME NEW r \in Requests, VictimDrop(r) PROVE ServedAnswersFit'
  BY <1>21, <1>1 DEF VictimDrop
<1>22. ASSUME NEW r \in Requests, WriteInsert(r) PROVE ServedAnswersFit'
  BY <1>22, <1>1 DEF WriteInsert
<1>23. ASSUME NEW r \in Requests, WriteUpdate(r) PROVE ServedAnswersFit'
  BY <1>23, <1>1 DEF WriteUpdate
<1>24. ASSUME NEW r \in Requests, WriteAppend(r) PROVE ServedAnswersFit'
  BY <1>24, <1>1 DEF WriteAppend
<1>25. ASSUME NEW r \in Requests, WriteRedis(r) PROVE ServedAnswersFit'
  BY <1>25, <1>1 DEF WriteRedis
<1>26. ASSUME NEW r \in Requests, WriteFault(r) PROVE ServedAnswersFit'
  BY <1>26, <1>1 DEF WriteFault
<1>27. CASE CliFlush
  BY <1>27, <1>1 DEF CliFlush
<1>28. CASE CliFlushRedis
  BY <1>28, <1>1 DEF CliFlushRedis
<1>29. CASE CliDeleteRedis
  BY <1>29, <1>1 DEF CliDeleteRedis
<1>30. CASE Reindex
  BY <1>30, <1>1 DEF Reindex
<1>31. CASE Restart
  BY <1>31, <1>1 DEF Restart
<1>32. ASSUME NEW q \in Questions, CliDelete(q) PROVE ServedAnswersFit'
  BY <1>32, <1>1 DEF CliDelete
<1>33. ASSUME NEW q \in Questions, RedisExpire(q) PROVE ServedAnswersFit'
  BY <1>33, <1>1 DEF RedisExpire
<1>34. CASE UNCHANGED vars
  BY <1>34, <1>1 DEF vars
<1> QED
  BY <1>2, <1>3, <1>4, <1>5, <1>6, <1>7, <1>8, <1>9, <1>10, <1>11, <1>12, <1>13, <1>14, <1>15,
     <1>15a, <1>15b, <1>15c,
     <1>16, <1>17, <1>18, <1>19, <1>20, <1>21, <1>22, <1>23, <1>24, <1>25, <1>26, <1>27, <1>28,
     <1>29, <1>30, <1>31, <1>32, <1>33, <1>34
  DEF Next, Task, Answer, Lookup, Write, Operator, Environment

\* Only an insert brings an entry into Postgres, and no step changes an entry's question.
LEMMA PgFrame ==
    ASSUME TypeOK, TargetInv, [Next]_vars
    PROVE  KeptOrBorn
<1> USE DEF KeptOrBorn, Step, Fault, taskVars, procVars, storeVars, cliVars, envVars
<1>1. /\ pc \in [Requests -> Phases] /\ pg \in [Ids -> Entry \cup {None}]
      /\ target \in [Requests -> Ids \cup {None}] /\ None \notin Entry /\ None \notin Ids
  BY ConstantsAssumption DEF TypeOK, Ids
<1>2. ASSUME NEW r \in Requests, Ask(r) PROVE KeptOrBorn
  BY <1>2, <1>1 DEF Ask
<1>3. ASSUME NEW r \in Requests, RedisHit(r) PROVE KeptOrBorn
  BY <1>3, <1>1 DEF RedisHit
<1>4. ASSUME NEW r \in Requests, RedisMiss(r) PROVE KeptOrBorn
  BY <1>4, <1>1 DEF RedisMiss
<1>5. ASSUME NEW r \in Requests, LoadBegin(r) PROVE KeptOrBorn
  BY <1>5, <1>1 DEF LoadBegin
<1>6. ASSUME NEW r \in Requests, LoadFinish(r) PROVE KeptOrBorn
  BY <1>6, <1>1 DEF LoadFinish
<1>7. ASSUME NEW r \in Requests, Match(r) PROVE KeptOrBorn
  BY <1>7, <1>1 DEF Match
<1>8. ASSUME NEW r \in Requests, HitRead(r) PROVE KeptOrBorn
  BY <1>8, <1>1 DEF HitRead
<1>9. ASSUME NEW r \in Requests, HitCommit(r) PROVE KeptOrBorn
  <2>1. target[r] \in Ids
    BY <1>9 DEF HitCommit, TargetInv, Targeting
  <2> QED BY <1>1, <1>9, <2>1 DEF HitCommit, Entry
<1>10. ASSUME NEW r \in Requests, EvictGet(r) PROVE KeptOrBorn
  BY <1>10, <1>1 DEF EvictGet
<1>11. ASSUME NEW r \in Requests, EvictRedis(r) PROVE KeptOrBorn
  BY <1>11, <1>1 DEF EvictRedis
<1>12. ASSUME NEW r \in Requests, EvictPg(r) PROVE KeptOrBorn
  BY <1>12, <1>1 DEF EvictPg
<1>13. ASSUME NEW r \in Requests, EvictDrop(r) PROVE KeptOrBorn
  BY <1>13, <1>1 DEF EvictDrop
<1>14. ASSUME NEW r \in Requests, LookupFault(r) PROVE KeptOrBorn
  BY <1>14, <1>1 DEF LookupFault
<1>15. ASSUME NEW r \in Requests, Generate(r) PROVE KeptOrBorn
  BY <1>15, <1>1 DEF Generate, Answered
<1>15a. ASSUME NEW r \in Requests, SparseRead(r) PROVE KeptOrBorn
  BY <1>15a, <1>1 DEF SparseRead
<1>15b. ASSUME NEW r \in Requests, SparseKeep(r) PROVE KeptOrBorn
  BY <1>15b, <1>1 DEF SparseKeep, Answered
<1>15c. ASSUME NEW r \in Requests, Cancel(r) PROVE KeptOrBorn
  BY <1>1, <1>15c, CancelFrame
<1>16. ASSUME NEW r \in Requests, WriteLock(r) PROVE KeptOrBorn
  BY <1>16, <1>1 DEF WriteLock
<1>17. ASSUME NEW r \in Requests, WriteSelect(r) PROVE KeptOrBorn
  BY <1>17, <1>1 DEF WriteSelect
<1>18. ASSUME NEW r \in Requests, WriteVictim(r) PROVE KeptOrBorn
  BY <1>18, <1>1 DEF WriteVictim
<1>19. ASSUME NEW r \in Requests, VictimRedis(r) PROVE KeptOrBorn
  BY <1>19, <1>1 DEF VictimRedis
<1>20. ASSUME NEW r \in Requests, VictimPg(r) PROVE KeptOrBorn
  BY <1>20, <1>1 DEF VictimPg
<1>21. ASSUME NEW r \in Requests, VictimDrop(r) PROVE KeptOrBorn
  BY <1>21, <1>1 DEF VictimDrop
<1>22. ASSUME NEW r \in Requests, WriteInsert(r) PROVE KeptOrBorn
  <2>1. \A e \in Ids : e # r => pg'[e] = pg[e]
    BY <1>1, <1>22 DEF WriteInsert
  <2> QED BY <1>22, <2>1
<1>23. ASSUME NEW r \in Requests, WriteUpdate(r) PROVE KeptOrBorn
  <2>1. target[r] \in Ids
    BY <1>23 DEF WriteUpdate, TargetInv, Targeting
  <2> QED BY <1>1, <1>23, <2>1 DEF WriteUpdate, Entry
<1>24. ASSUME NEW r \in Requests, WriteAppend(r) PROVE KeptOrBorn
  BY <1>24, <1>1 DEF WriteAppend
<1>25. ASSUME NEW r \in Requests, WriteRedis(r) PROVE KeptOrBorn
  BY <1>25, <1>1 DEF WriteRedis
<1>26. ASSUME NEW r \in Requests, WriteFault(r) PROVE KeptOrBorn
  BY <1>26, <1>1 DEF WriteFault
<1>27. CASE CliFlush
  BY <1>27, <1>1 DEF CliFlush
<1>28. CASE CliFlushRedis
  BY <1>28, <1>1 DEF CliFlushRedis
<1>29. CASE CliDeleteRedis
  BY <1>29, <1>1 DEF CliDeleteRedis
<1>30. CASE Reindex
  BY <1>30, <1>1 DEF Reindex
<1>31. CASE Restart
  BY <1>31, <1>1 DEF Restart
<1>32. ASSUME NEW q \in Questions, CliDelete(q) PROVE KeptOrBorn
  BY <1>32, <1>1 DEF CliDelete
<1>33. ASSUME NEW q \in Questions, RedisExpire(q) PROVE KeptOrBorn
  BY <1>33, <1>1 DEF RedisExpire
<1>34. CASE UNCHANGED vars
  BY <1>34, <1>1 DEF vars
<1> QED
  BY <1>2, <1>3, <1>4, <1>5, <1>6, <1>7, <1>8, <1>9, <1>10, <1>11, <1>12, <1>13, <1>14, <1>15,
     <1>15a, <1>15b, <1>15c,
     <1>16, <1>17, <1>18, <1>19, <1>20, <1>21, <1>22, <1>23, <1>24, <1>25, <1>26, <1>27, <1>28,
     <1>29, <1>30, <1>31, <1>32, <1>33, <1>34
  DEF Next, Task, Answer, Lookup, Write, Operator, Environment

\* No question gains an entry except by its insert.
LEMMA StillAbsent ==
    ASSUME TypeOK, TargetInv, [Next]_vars, NEW t \in Requests,
           HasEntryFor(asked[t]) = {}, asked'[t] = asked[t],
           \A r \in Requests : ~WriteInsert(r)
    PROVE  HasEntryFor(asked[t])' = {}
<1>1. KeptOrBorn
  BY PgFrame
<1> QED BY <1>1 DEF KeptOrBorn, HasEntryFor, Stored

\* A write goes on to insert only after it has looked.
LEMMA InsertingFrame ==
    ASSUME TypeOK, [Next]_vars
    PROVE  KeptOrEntering
<1> USE DEF KeptOrEntering, Inserting, Step, Fault, taskVars, procVars, storeVars, cliVars, envVars
<1>1. /\ pc \in [Requests -> Phases] /\ target \in [Requests -> Ids \cup {None}]
      /\ asked \in [Ids -> Questions \cup {None}] /\ Requests \subseteq Ids
  BY DEF TypeOK, Ids
<1>2. ASSUME NEW r \in Requests, Ask(r) PROVE KeptOrEntering
  BY <1>2, <1>1 DEF Ask
<1>3. ASSUME NEW r \in Requests, RedisHit(r) PROVE KeptOrEntering
  BY <1>3, <1>1 DEF RedisHit
<1>4. ASSUME NEW r \in Requests, RedisMiss(r) PROVE KeptOrEntering
  BY <1>4, <1>1 DEF RedisMiss
<1>5. ASSUME NEW r \in Requests, LoadBegin(r) PROVE KeptOrEntering
  BY <1>5, <1>1 DEF LoadBegin
<1>6. ASSUME NEW r \in Requests, LoadFinish(r) PROVE KeptOrEntering
  BY <1>1, <1>6, MatchLemma DEF LoadFinish
<1>7. ASSUME NEW r \in Requests, Match(r) PROVE KeptOrEntering
  BY <1>1, <1>7, MatchLemma DEF Match
<1>8. ASSUME NEW r \in Requests, HitRead(r) PROVE KeptOrEntering
  BY <1>8, <1>1 DEF HitRead
<1>9. ASSUME NEW r \in Requests, HitCommit(r) PROVE KeptOrEntering
  BY <1>9, <1>1 DEF HitCommit
<1>10. ASSUME NEW r \in Requests, EvictGet(r) PROVE KeptOrEntering
  BY <1>10, <1>1 DEF EvictGet
<1>11. ASSUME NEW r \in Requests, EvictRedis(r) PROVE KeptOrEntering
  BY <1>11, <1>1 DEF EvictRedis
<1>12. ASSUME NEW r \in Requests, EvictPg(r) PROVE KeptOrEntering
  BY <1>12, <1>1 DEF EvictPg
<1>13. ASSUME NEW r \in Requests, EvictDrop(r) PROVE KeptOrEntering
  BY <1>13, <1>1 DEF EvictDrop
<1>14. ASSUME NEW r \in Requests, LookupFault(r) PROVE KeptOrEntering
  BY <1>14, <1>1 DEF LookupFault
<1>15. ASSUME NEW r \in Requests, Generate(r) PROVE KeptOrEntering
  BY <1>15, <1>1 DEF Generate, Answered
<1>15a. ASSUME NEW r \in Requests, SparseRead(r) PROVE KeptOrEntering
  BY <1>15a, <1>1 DEF SparseRead
<1>15b. ASSUME NEW r \in Requests, SparseKeep(r) PROVE KeptOrEntering
  BY <1>15b, <1>1 DEF SparseKeep, Answered
<1>15c. ASSUME NEW r \in Requests, Cancel(r) PROVE KeptOrEntering
  BY <1>15c, <1>1 DEF Cancel
<1>16. ASSUME NEW r \in Requests, WriteLock(r) PROVE KeptOrEntering
  BY <1>16, <1>1 DEF WriteLock
<1>17. ASSUME NEW r \in Requests, WriteSelect(r) PROVE KeptOrEntering
  BY <1>17, <1>1 DEF WriteSelect
<1>18. ASSUME NEW r \in Requests, WriteVictim(r) PROVE KeptOrEntering
  BY <1>18, <1>1 DEF WriteVictim
<1>19. ASSUME NEW r \in Requests, VictimRedis(r) PROVE KeptOrEntering
  BY <1>19, <1>1 DEF VictimRedis
<1>20. ASSUME NEW r \in Requests, VictimPg(r) PROVE KeptOrEntering
  BY <1>20, <1>1 DEF VictimPg
<1>21. ASSUME NEW r \in Requests, VictimDrop(r) PROVE KeptOrEntering
  BY <1>21, <1>1 DEF VictimDrop
<1>22. ASSUME NEW r \in Requests, WriteInsert(r) PROVE KeptOrEntering
  BY <1>22, <1>1 DEF WriteInsert
<1>23. ASSUME NEW r \in Requests, WriteUpdate(r) PROVE KeptOrEntering
  BY <1>23, <1>1 DEF WriteUpdate
<1>24. ASSUME NEW r \in Requests, WriteAppend(r) PROVE KeptOrEntering
  BY <1>24, <1>1 DEF WriteAppend
<1>25. ASSUME NEW r \in Requests, WriteRedis(r) PROVE KeptOrEntering
  BY <1>25, <1>1 DEF WriteRedis
<1>26. ASSUME NEW r \in Requests, WriteFault(r) PROVE KeptOrEntering
  BY <1>26, <1>1 DEF WriteFault
<1>27. CASE CliFlush
  BY <1>27, <1>1 DEF CliFlush
<1>28. CASE CliFlushRedis
  BY <1>28, <1>1 DEF CliFlushRedis
<1>29. CASE CliDeleteRedis
  BY <1>29, <1>1 DEF CliDeleteRedis
<1>30. CASE Reindex
  BY <1>30, <1>1 DEF Reindex
<1>31. CASE Restart
  BY <1>31, <1>1 DEF Restart
<1>32. ASSUME NEW q \in Questions, CliDelete(q) PROVE KeptOrEntering
  BY <1>32, <1>1 DEF CliDelete
<1>33. ASSUME NEW q \in Questions, RedisExpire(q) PROVE KeptOrEntering
  BY <1>33, <1>1 DEF RedisExpire
<1>34. CASE UNCHANGED vars
  BY <1>34, <1>1 DEF vars
<1> QED
  BY <1>2, <1>3, <1>4, <1>5, <1>6, <1>7, <1>8, <1>9, <1>10, <1>11, <1>12, <1>13, <1>14, <1>15,
     <1>15a, <1>15b, <1>15c,
     <1>16, <1>17, <1>18, <1>19, <1>20, <1>21, <1>22, <1>23, <1>24, <1>25, <1>26, <1>27, <1>28,
     <1>29, <1>30, <1>31, <1>32, <1>33, <1>34
  DEF Next, Task, Answer, Lookup, Write, Operator, Environment

\* While one write is between its SELECT and its INSERT no other write inserts.
LEMMA AbsentStep ==
    ASSUME TypeOK, TargetInv, LockInv, AbsentInv, [Next]_vars
    PROVE  AbsentInv'
<1> SUFFICES ASSUME NEW t \in Requests, pc'[t] \in Inserting
             PROVE  HasEntryFor(asked[t])' = {}
  BY DEF AbsentInv
<1>1. asked'[t] = asked[t] /\ HasEntryFor(asked[t]) = {}
  BY InsertingFrame DEF KeptOrEntering, AbsentInv
<1>2. ASSUME NEW r \in Requests, WriteInsert(r) PROVE FALSE
  <2>1. pc[r] = "insert" /\ pc' = [pc EXCEPT ![r] = "append"]
    BY <1>2 DEF WriteInsert, Step
  <2>2. t # r /\ pc[t] \in Inserting
    BY <2>1 DEF TypeOK, Inserting
  <2> QED BY <2>1, <2>2 DEF LockInv, Locked, WritePhases, Inserting
<1> QED BY <1>1, <1>2, StillAbsent

\* Hence two entries never share a question.
LEMMA OneEntryStep ==
    ASSUME TypeOK, TargetInv, LockInv, AbsentInv, OneEntryPerQuestion, [Next]_vars
    PROVE  OneEntryPerQuestion'
<1> SUFFICES ASSUME NEW d \in Stored', NEW e \in Stored', pg'[d].q = pg'[e].q, d # e
             PROVE  FALSE
  BY DEF OneEntryPerQuestion
<1>1. d \in Ids /\ e \in Ids /\ pg'[d] # None /\ pg'[e] # None
  BY DEF Stored
<1>2. KeptOrBorn
  BY PgFrame
<1>3. ASSUME NEW a \in Requests, NEW b \in Ids, WriteInsert(a), a # b,
             pg'[b] # None, pg'[a].q = pg'[b].q
      PROVE  FALSE
  <2>1. pc[a] = "insert" /\ pg'[a].q = asked[a] /\ pg'[b] = pg[b]
    BY <1>3 DEF WriteInsert, Step, TypeOK, Ids
  <2>2. b \in HasEntryFor(asked[a])
    BY <1>3, <2>1 DEF HasEntryFor, Stored
  <2> QED BY <2>1, <2>2 DEF AbsentInv, Inserting
<1>4. CASE d \in Requests /\ WriteInsert(d)
  BY <1>1, <1>3, <1>4
<1>5. CASE e \in Requests /\ WriteInsert(e)
  BY <1>1, <1>3, <1>5
<1>6. CASE pg[d] # None /\ pg[e] # None /\ pg'[d].q = pg[d].q /\ pg'[e].q = pg[e].q
  BY <1>1, <1>6 DEF OneEntryPerQuestion, Stored
<1> QED BY <1>1, <1>2, <1>4, <1>5, <1>6 DEF KeptOrBorn

\* Whoever changes an entry's manifest sets it to the one this process loaded.
LEMMA CurrentStep ==
    ASSUME TypeOK, TargetInv, AskedInv, LoadInv, CurrentInv, [Next]_vars
    PROVE  CurrentInv'
<1> USE DEF CurrentInv, Step, Fault, taskVars, procVars, storeVars, cliVars, envVars
<1>1. /\ pc \in [Requests -> Phases] /\ pg \in [Ids -> Entry \cup {None}]
      /\ target \in [Requests -> Ids \cup {None}] /\ copy \in [Requests -> Entry \cup {None}]
      /\ matrix \in Seq(Row) /\ Requests \subseteq Ids /\ None \notin Entry /\ None \notin Ids
  BY ConstantsAssumption DEF TypeOK, Ids
<1>2. ASSUME NEW r \in Requests, Ask(r) PROVE CurrentInv'
  BY <1>1, <1>2 DEF Ask, Stored
<1>3. ASSUME NEW r \in Requests, RedisHit(r) PROVE CurrentInv'
  BY <1>1, <1>3 DEF RedisHit, Stored
<1>4. ASSUME NEW r \in Requests, RedisMiss(r) PROVE CurrentInv'
  BY <1>1, <1>4 DEF RedisMiss, Stored
<1>5. ASSUME NEW r \in Requests, LoadBegin(r) PROVE CurrentInv'
  <2>1. DOMAIN matrix = {} /\ \A t \in Requests : pc[t] \notin Targeting
    BY <1>5 DEF LoadBegin, LoadInv
  <2> QED BY <1>1, <1>5, <2>1 DEF LoadBegin, Targeting
<1>6. ASSUME NEW r \in Requests, LoadFinish(r) PROVE CurrentInv'
  <2>1. \A i \in DOMAIN matrix' : /\ matrix'[i].id \in Stored
                                  /\ matrix'[i].man = pg[matrix'[i].id].man
    BY <1>6, LoadedMatrix
  <2> QED BY <1>1, <1>6, <2>1, MatchLemma DEF LoadFinish, Stored
<1>7. ASSUME NEW r \in Requests, Match(r) PROVE CurrentInv'
  BY <1>1, <1>7, MatchLemma DEF Match, Stored
<1>8. ASSUME NEW r \in Requests, HitRead(r) PROVE CurrentInv'
  BY <1>1, <1>8 DEF HitRead, Stored
<1>9. ASSUME NEW r \in Requests, HitCommit(r) PROVE CurrentInv'
  <2>1. target[r] \in Ids
    BY <1>9 DEF HitCommit, TargetInv, Targeting
  <2>2. \A e \in Ids : pg'[e] # None => pg[e] # None /\ pg'[e].man = pg[e].man
    BY <1>1, <1>9, <2>1 DEF HitCommit, Entry
  <2>3. UNCHANGED <<target, matrix, curMan>>
    BY <1>9 DEF HitCommit
  <2>4. \A t \in Requests : pc'[t] \in {"hitRead", "append"} => pc'[t] = pc[t]
    BY <1>1, <1>9 DEF HitCommit
  <2> QED BY <1>1, <2>2, <2>3, <2>4 DEF Stored
<1>10. ASSUME NEW r \in Requests, EvictGet(r) PROVE CurrentInv'
  <2>1. \A i \in DOMAIN matrix' : \E j \in DOMAIN matrix : matrix'[i] = matrix[j]
    BY <1>1, <1>10, DropRowLemma DEF EvictGet
  <2>2. UNCHANGED <<target, curMan, pg>>
    BY <1>10 DEF EvictGet, storeVars
  <2>3. \A t \in Requests : pc'[t] \in {"hitRead", "append"} => pc'[t] = pc[t]
    BY <1>1, <1>10 DEF EvictGet
  <2> QED BY <2>1, <2>2, <2>3 DEF Stored
<1>11. ASSUME NEW r \in Requests, EvictRedis(r) PROVE CurrentInv'
  BY <1>1, <1>11 DEF EvictRedis, Stored
<1>12. ASSUME NEW r \in Requests, EvictPg(r) PROVE CurrentInv'
  <2>1. \A e \in Ids : pg'[e] # None => pg[e] # None /\ pg'[e].man \in {pg[e].man, curMan}
    <3>1. \A e \in Requests : ~WriteInsert(e)
      BY <1>1, <1>12 DEF EvictPg, WriteInsert
    <3> QED BY <3>1, PgFrame DEF KeptOrBorn
  <2> QED BY <1>1, <1>12, <2>1 DEF EvictPg, Stored
<1>13. ASSUME NEW r \in Requests, EvictDrop(r) PROVE CurrentInv'
  <2>1. \A i \in DOMAIN matrix' : \E j \in DOMAIN matrix : matrix'[i] = matrix[j]
    BY <1>1, <1>13, DropRowLemma DEF EvictDrop
  <2>2. UNCHANGED <<target, curMan, pg>>
    BY <1>13 DEF EvictDrop, storeVars
  <2>3. \A t \in Requests : pc'[t] \in {"hitRead", "append"} => pc'[t] = pc[t]
    BY <1>1, <1>13 DEF EvictDrop
  <2> QED BY <2>1, <2>2, <2>3 DEF Stored
<1>14. ASSUME NEW r \in Requests, LookupFault(r) PROVE CurrentInv'
  BY <1>1, <1>14 DEF LookupFault, Stored
<1>15. ASSUME NEW r \in Requests, Generate(r) PROVE CurrentInv'
  BY <1>1, <1>15 DEF Generate, Answered, Stored
<1>15a. ASSUME NEW r \in Requests, SparseRead(r) PROVE CurrentInv'
  BY <1>1, <1>15a DEF SparseRead, Stored
<1>15b. ASSUME NEW r \in Requests, SparseKeep(r) PROVE CurrentInv'
  BY <1>1, <1>15b DEF SparseKeep, Answered, Stored
<1>15c. ASSUME NEW r \in Requests, Cancel(r) PROVE CurrentInv'
  BY <1>1, <1>15c, CancelFrame DEF Stored
<1>16. ASSUME NEW r \in Requests, WriteLock(r) PROVE CurrentInv'
  BY <1>1, <1>16 DEF WriteLock, Stored
<1>17. ASSUME NEW r \in Requests, WriteSelect(r) PROVE CurrentInv'
  BY <1>1, <1>17 DEF WriteSelect, Stored
<1>18. ASSUME NEW r \in Requests, WriteVictim(r) PROVE CurrentInv'
  BY <1>1, <1>18 DEF WriteVictim, Stored
<1>19. ASSUME NEW r \in Requests, VictimRedis(r) PROVE CurrentInv'
  BY <1>1, <1>19 DEF VictimRedis, Stored
<1>20. ASSUME NEW r \in Requests, VictimPg(r) PROVE CurrentInv'
  <2>1. \A e \in Ids : pg'[e] # None => pg[e] # None /\ pg'[e].man \in {pg[e].man, curMan}
    <3>1. \A e \in Requests : ~WriteInsert(e)
      BY <1>1, <1>20 DEF VictimPg, WriteInsert
    <3> QED BY <3>1, PgFrame DEF KeptOrBorn
  <2> QED BY <1>1, <1>20, <2>1 DEF VictimPg, Stored
<1>21. ASSUME NEW r \in Requests, VictimDrop(r) PROVE CurrentInv'
  <2>1. \A i \in DOMAIN matrix' : \E j \in DOMAIN matrix : matrix'[i] = matrix[j]
    BY <1>1, <1>21, DropRowLemma DEF VictimDrop
  <2>2. UNCHANGED <<target, curMan, pg>>
    BY <1>21 DEF VictimDrop, storeVars
  <2>3. \A t \in Requests : pc'[t] \in {"hitRead", "append"} => pc'[t] = pc[t]
    BY <1>1, <1>21 DEF VictimDrop
  <2> QED BY <2>1, <2>2, <2>3 DEF Stored
<1>22. ASSUME NEW r \in Requests, WriteInsert(r) PROVE CurrentInv'
  <2>1. \A e \in Ids : e # r => pg'[e] = pg[e]
    BY <1>1, <1>22 DEF WriteInsert
  <2>2. pg'[r].man = curMan
    BY <1>1, <1>22 DEF WriteInsert
  <2>3. UNCHANGED <<matrix, curMan>> /\ target'[r] = r
    BY <1>1, <1>22 DEF WriteInsert
  <2>4. \A t \in Requests : t # r => pc'[t] = pc[t] /\ target'[t] = target[t]
    BY <1>1, <1>22 DEF WriteInsert
  <2>5. \A e \in Stored' : pg'[e].man = curMan \/ (e \in Stored /\ pg'[e] = pg[e])
    BY <2>1, <2>2 DEF Stored
  <2>6. \A t \in Requests : pc'[t] = "hitRead" => t # r
    BY <1>1, <1>22 DEF WriteInsert
  <2>7. pg'[target'[r]].man = curMan
    BY <2>2, <2>3
  <2> HIDE <2>1
  <2> QED BY <2>3, <2>4, <2>5, <2>6, <2>7
<1>23. ASSUME NEW r \in Requests, WriteUpdate(r) PROVE CurrentInv'
  <2>1. target[r] \in Ids
    BY <1>23 DEF WriteUpdate, TargetInv, Targeting
  <2>2. \A e \in Ids : pg'[e] # None =>
           /\ pg[e] # None
           /\ \/ pg'[e].man = curMan
              \/ e # target[r] /\ pg'[e].man = pg[e].man
    BY <1>1, <1>23, <2>1 DEF WriteUpdate, Entry
  <2>3. UNCHANGED <<target, matrix, curMan>>
    BY <1>23 DEF WriteUpdate
  <2>4. \A t \in Requests : t # r /\ pc'[t] \in {"hitRead", "append"} => pc'[t] = pc[t]
    BY <1>1, <1>23 DEF WriteUpdate
  <2> QED BY <1>1, <2>1, <2>2, <2>3, <2>4 DEF Stored
<1>24. ASSUME NEW r \in Requests, WriteAppend(r) PROVE CurrentInv'
  <2>1. pc[r] = "append"
    BY <1>24 DEF WriteAppend
  <2>2. \A i \in DOMAIN DropRow(matrix, target[r]) : \E j \in DOMAIN matrix :
           DropRow(matrix, target[r])[i] = matrix[j]
    BY <1>1, DropRowLemma
  <2>3. DropRow(matrix, target[r]) \in Seq(Row)
    BY <2>1, AppendedRow
  <2>4. \A i \in DOMAIN matrix' :
           \/ \E j \in DOMAIN matrix : matrix'[i] = matrix[j]
           \/ matrix'[i] = [id |-> target[r], q |-> asked[r], man |-> curMan]
    BY <1>24, <2>2, <2>3 DEF WriteAppend
  <2>5. UNCHANGED <<target, curMan, pg>>
    BY <1>24 DEF WriteAppend, storeVars
  <2>6. \A t \in Requests : pc'[t] \in {"hitRead", "append"} => pc'[t] = pc[t]
    BY <1>1, <1>24 DEF WriteAppend
  <2> QED BY <2>1, <2>4, <2>5, <2>6 DEF Stored
<1>25. ASSUME NEW r \in Requests, WriteRedis(r) PROVE CurrentInv'
  BY <1>1, <1>25 DEF WriteRedis, Stored
<1>26. ASSUME NEW r \in Requests, WriteFault(r) PROVE CurrentInv'
  BY <1>1, <1>26 DEF WriteFault, Stored
<1>27. CASE CliFlush
  BY <1>1, <1>27 DEF CliFlush, Stored
<1>28. CASE CliFlushRedis
  BY <1>1, <1>28 DEF CliFlushRedis, Stored
<1>29. CASE CliDeleteRedis
  BY <1>1, <1>29 DEF CliDeleteRedis, Stored
<1>30. CASE Reindex
  BY <1>1, <1>30 DEF Reindex, Stored
<1>31. CASE Restart
  <2>1. DOMAIN matrix' = {}
    BY <1>31 DEF Restart
  <2> QED BY <1>1, <1>31, <2>1 DEF Restart
<1>32. ASSUME NEW q \in Questions, CliDelete(q) PROVE CurrentInv'
  BY <1>1, <1>32, RowsNameIds DEF CliDelete, Stored, TargetInv, Targeting
<1>33. ASSUME NEW q \in Questions, RedisExpire(q) PROVE CurrentInv'
  BY <1>1, <1>33 DEF RedisExpire, Stored
<1>34. CASE UNCHANGED vars
  BY <1>34, <1>1 DEF vars, Stored
<1> QED
  BY <1>2, <1>3, <1>4, <1>5, <1>6, <1>7, <1>8, <1>9, <1>10, <1>11, <1>12, <1>13, <1>14, <1>15,
     <1>15a, <1>15b, <1>15c,
     <1>16, <1>17, <1>18, <1>19, <1>20, <1>21, <1>22, <1>23, <1>24, <1>25, <1>26, <1>27, <1>28,
     <1>29, <1>30, <1>31, <1>32, <1>33, <1>34
  DEF Next, Task, Answer, Lookup, Write, Operator, Environment

\* A hit reads an entry whose row looked current.
LEMMA HitsStep ==
    ASSUME TypeOK, TargetInv, LoadInv, CurrentInv, HitsAreCurrent, [Next]_vars
    PROVE  HitsAreCurrent'
<1> USE DEF HitsAreCurrent, Step, Fault, taskVars, procVars, storeVars, cliVars, envVars
<1>1. /\ pc \in [Requests -> Phases] /\ pg \in [Ids -> Entry \cup {None}]
      /\ target \in [Requests -> Ids \cup {None}] /\ copy \in [Requests -> Entry \cup {None}]
      /\ matrix \in Seq(Row) /\ Requests \subseteq Ids /\ None \notin Entry /\ None \notin Ids
  BY ConstantsAssumption DEF TypeOK, Ids
<1>2. ASSUME NEW r \in Requests, Ask(r) PROVE HitsAreCurrent'
  BY <1>2, <1>1 DEF Ask
<1>3. ASSUME NEW r \in Requests, RedisHit(r) PROVE HitsAreCurrent'
  BY <1>3, <1>1 DEF RedisHit
<1>4. ASSUME NEW r \in Requests, RedisMiss(r) PROVE HitsAreCurrent'
  BY <1>4, <1>1 DEF RedisMiss
<1>5. ASSUME NEW r \in Requests, LoadBegin(r) PROVE HitsAreCurrent'
  <2>1. \A t \in Requests : pc[t] \notin Targeting
    BY <1>5 DEF LoadBegin, LoadInv
  <2> QED BY <1>1, <1>5, <2>1 DEF LoadBegin, Targeting
<1>6. ASSUME NEW r \in Requests, LoadFinish(r) PROVE HitsAreCurrent'
  BY <1>1, <1>6, MatchLemma DEF LoadFinish
<1>7. ASSUME NEW r \in Requests, Match(r) PROVE HitsAreCurrent'
  BY <1>1, <1>7, MatchLemma DEF Match
<1>8. ASSUME NEW r \in Requests, HitRead(r) PROVE HitsAreCurrent'
  <2>1. target[r] \in Ids
    BY <1>8 DEF HitRead, TargetInv, Targeting
  <2> QED BY <1>1, <1>8, <2>1 DEF HitRead, CurrentInv, Stored
<1>9. ASSUME NEW r \in Requests, HitCommit(r) PROVE HitsAreCurrent'
  BY <1>9, <1>1 DEF HitCommit
<1>10. ASSUME NEW r \in Requests, EvictGet(r) PROVE HitsAreCurrent'
  BY <1>10, <1>1 DEF EvictGet
<1>11. ASSUME NEW r \in Requests, EvictRedis(r) PROVE HitsAreCurrent'
  BY <1>11, <1>1 DEF EvictRedis
<1>12. ASSUME NEW r \in Requests, EvictPg(r) PROVE HitsAreCurrent'
  BY <1>12, <1>1 DEF EvictPg
<1>13. ASSUME NEW r \in Requests, EvictDrop(r) PROVE HitsAreCurrent'
  BY <1>13, <1>1 DEF EvictDrop
<1>14. ASSUME NEW r \in Requests, LookupFault(r) PROVE HitsAreCurrent'
  BY <1>14, <1>1 DEF LookupFault
<1>15. ASSUME NEW r \in Requests, Generate(r) PROVE HitsAreCurrent'
  BY <1>15, <1>1 DEF Generate, Answered
<1>15a. ASSUME NEW r \in Requests, SparseRead(r) PROVE HitsAreCurrent'
  BY <1>15a, <1>1 DEF SparseRead
<1>15b. ASSUME NEW r \in Requests, SparseKeep(r) PROVE HitsAreCurrent'
  BY <1>15b, <1>1 DEF SparseKeep, Answered
<1>15c. ASSUME NEW r \in Requests, Cancel(r) PROVE HitsAreCurrent'
  BY <1>15c, <1>1 DEF Cancel
<1>16. ASSUME NEW r \in Requests, WriteLock(r) PROVE HitsAreCurrent'
  BY <1>16, <1>1 DEF WriteLock
<1>17. ASSUME NEW r \in Requests, WriteSelect(r) PROVE HitsAreCurrent'
  BY <1>17, <1>1 DEF WriteSelect
<1>18. ASSUME NEW r \in Requests, WriteVictim(r) PROVE HitsAreCurrent'
  BY <1>18, <1>1 DEF WriteVictim
<1>19. ASSUME NEW r \in Requests, VictimRedis(r) PROVE HitsAreCurrent'
  BY <1>19, <1>1 DEF VictimRedis
<1>20. ASSUME NEW r \in Requests, VictimPg(r) PROVE HitsAreCurrent'
  BY <1>20, <1>1 DEF VictimPg
<1>21. ASSUME NEW r \in Requests, VictimDrop(r) PROVE HitsAreCurrent'
  BY <1>21, <1>1 DEF VictimDrop
<1>22. ASSUME NEW r \in Requests, WriteInsert(r) PROVE HitsAreCurrent'
  BY <1>22, <1>1 DEF WriteInsert
<1>23. ASSUME NEW r \in Requests, WriteUpdate(r) PROVE HitsAreCurrent'
  BY <1>23, <1>1 DEF WriteUpdate
<1>24. ASSUME NEW r \in Requests, WriteAppend(r) PROVE HitsAreCurrent'
  BY <1>24, <1>1 DEF WriteAppend
<1>25. ASSUME NEW r \in Requests, WriteRedis(r) PROVE HitsAreCurrent'
  BY <1>25, <1>1 DEF WriteRedis
<1>26. ASSUME NEW r \in Requests, WriteFault(r) PROVE HitsAreCurrent'
  BY <1>26, <1>1 DEF WriteFault
<1>27. CASE CliFlush
  BY <1>27, <1>1 DEF CliFlush
<1>28. CASE CliFlushRedis
  BY <1>28, <1>1 DEF CliFlushRedis
<1>29. CASE CliDeleteRedis
  BY <1>29, <1>1 DEF CliDeleteRedis
<1>30. CASE Reindex
  BY <1>30, <1>1 DEF Reindex
<1>31. CASE Restart
  BY <1>31, <1>1 DEF Restart
<1>32. ASSUME NEW q \in Questions, CliDelete(q) PROVE HitsAreCurrent'
  BY <1>32, <1>1 DEF CliDelete
<1>33. ASSUME NEW q \in Questions, RedisExpire(q) PROVE HitsAreCurrent'
  BY <1>33, <1>1 DEF RedisExpire
<1>34. CASE UNCHANGED vars
  BY <1>34, <1>1 DEF vars
<1> QED
  BY <1>2, <1>3, <1>4, <1>5, <1>6, <1>7, <1>8, <1>9, <1>10, <1>11, <1>12, <1>13, <1>14, <1>15,
     <1>15a, <1>15b, <1>15c,
     <1>16, <1>17, <1>18, <1>19, <1>20, <1>21, <1>22, <1>23, <1>24, <1>25, <1>26, <1>27, <1>28,
     <1>29, <1>30, <1>31, <1>32, <1>33, <1>34
  DEF Next, Task, Answer, Lookup, Write, Operator, Environment

\* Room is made, or found, in one place each.
LEMMA RoomFrame ==
    ASSUME TypeOK, [Next]_vars
    PROVE  KeptOrRoom
<1> USE DEF KeptOrRoom, Step, Fault, taskVars, procVars, storeVars, cliVars, envVars
<1>1. /\ pc \in [Requests -> Phases] /\ target \in [Requests -> Ids \cup {None}]
      /\ matrix \in Seq(Row)
  BY DEF TypeOK
<1>2. ASSUME NEW r \in Requests, Ask(r) PROVE KeptOrRoom
  BY <1>2, <1>1 DEF Ask
<1>3. ASSUME NEW r \in Requests, RedisHit(r) PROVE KeptOrRoom
  BY <1>3, <1>1 DEF RedisHit
<1>4. ASSUME NEW r \in Requests, RedisMiss(r) PROVE KeptOrRoom
  BY <1>4, <1>1 DEF RedisMiss
<1>5. ASSUME NEW r \in Requests, LoadBegin(r) PROVE KeptOrRoom
  BY <1>5, <1>1 DEF LoadBegin
<1>6. ASSUME NEW r \in Requests, LoadFinish(r) PROVE KeptOrRoom
  BY <1>1, <1>6, MatchLemma DEF LoadFinish
<1>7. ASSUME NEW r \in Requests, Match(r) PROVE KeptOrRoom
  BY <1>1, <1>7, MatchLemma DEF Match
<1>8. ASSUME NEW r \in Requests, HitRead(r) PROVE KeptOrRoom
  BY <1>8, <1>1 DEF HitRead
<1>9. ASSUME NEW r \in Requests, HitCommit(r) PROVE KeptOrRoom
  BY <1>9, <1>1 DEF HitCommit
<1>10. ASSUME NEW r \in Requests, EvictGet(r) PROVE KeptOrRoom
  BY <1>10, <1>1 DEF EvictGet
<1>11. ASSUME NEW r \in Requests, EvictRedis(r) PROVE KeptOrRoom
  BY <1>11, <1>1 DEF EvictRedis
<1>12. ASSUME NEW r \in Requests, EvictPg(r) PROVE KeptOrRoom
  BY <1>12, <1>1 DEF EvictPg
<1>13. ASSUME NEW r \in Requests, EvictDrop(r) PROVE KeptOrRoom
  BY <1>13, <1>1 DEF EvictDrop
<1>14. ASSUME NEW r \in Requests, LookupFault(r) PROVE KeptOrRoom
  BY <1>14, <1>1 DEF LookupFault
<1>15. ASSUME NEW r \in Requests, Generate(r) PROVE KeptOrRoom
  BY <1>15, <1>1 DEF Generate, Answered
<1>15a. ASSUME NEW r \in Requests, SparseRead(r) PROVE KeptOrRoom
  BY <1>15a, <1>1 DEF SparseRead
<1>15b. ASSUME NEW r \in Requests, SparseKeep(r) PROVE KeptOrRoom
  BY <1>15b, <1>1 DEF SparseKeep, Answered
<1>15c. ASSUME NEW r \in Requests, Cancel(r) PROVE KeptOrRoom
  BY <1>15c, <1>1 DEF Cancel
<1>16. ASSUME NEW r \in Requests, WriteLock(r) PROVE KeptOrRoom
  BY <1>16, <1>1 DEF WriteLock
<1>17. ASSUME NEW r \in Requests, WriteSelect(r) PROVE KeptOrRoom
  BY <1>1, <1>17, ConstantsAssumption DEF WriteSelect
<1>18. ASSUME NEW r \in Requests, WriteVictim(r) PROVE KeptOrRoom
  BY <1>1, <1>18 DEF WriteVictim, Coldest
<1>19. ASSUME NEW r \in Requests, VictimRedis(r) PROVE KeptOrRoom
  BY <1>19, <1>1 DEF VictimRedis
<1>20. ASSUME NEW r \in Requests, VictimPg(r) PROVE KeptOrRoom
  BY <1>20, <1>1 DEF VictimPg
<1>21. ASSUME NEW r \in Requests, VictimDrop(r) PROVE KeptOrRoom
  BY <1>21, <1>1 DEF VictimDrop
<1>22. ASSUME NEW r \in Requests, WriteInsert(r) PROVE KeptOrRoom
  BY <1>22, <1>1 DEF WriteInsert
<1>23. ASSUME NEW r \in Requests, WriteUpdate(r) PROVE KeptOrRoom
  BY <1>23, <1>1 DEF WriteUpdate
<1>24. ASSUME NEW r \in Requests, WriteAppend(r) PROVE KeptOrRoom
  BY <1>24, <1>1 DEF WriteAppend
<1>25. ASSUME NEW r \in Requests, WriteRedis(r) PROVE KeptOrRoom
  BY <1>25, <1>1 DEF WriteRedis
<1>26. ASSUME NEW r \in Requests, WriteFault(r) PROVE KeptOrRoom
  BY <1>26, <1>1 DEF WriteFault
<1>27. CASE CliFlush
  BY <1>27, <1>1 DEF CliFlush
<1>28. CASE CliFlushRedis
  BY <1>28, <1>1 DEF CliFlushRedis
<1>29. CASE CliDeleteRedis
  BY <1>29, <1>1 DEF CliDeleteRedis
<1>30. CASE Reindex
  BY <1>30, <1>1 DEF Reindex
<1>31. CASE Restart
  BY <1>31, <1>1 DEF Restart
<1>32. ASSUME NEW q \in Questions, CliDelete(q) PROVE KeptOrRoom
  BY <1>32, <1>1 DEF CliDelete
<1>33. ASSUME NEW q \in Questions, RedisExpire(q) PROVE KeptOrRoom
  BY <1>33, <1>1 DEF RedisExpire
<1>34. CASE UNCHANGED vars
  BY <1>34, <1>1 DEF vars
<1> QED
  BY <1>2, <1>3, <1>4, <1>5, <1>6, <1>7, <1>8, <1>9, <1>10, <1>11, <1>12, <1>13, <1>14, <1>15,
     <1>15a, <1>15b, <1>15c,
     <1>16, <1>17, <1>18, <1>19, <1>20, <1>21, <1>22, <1>23, <1>24, <1>25, <1>26, <1>27, <1>28,
     <1>29, <1>30, <1>31, <1>32, <1>33, <1>34
  DEF Next, Task, Answer, Lookup, Write, Operator, Environment

\* When the lookups see every entry, the number of rows bounds the number of entries.
LEMMA RowsBoundEntries ==
    ASSUME TypeOK, LockInv, LoadInv, EntriesAreVisible, NEW t \in Requests, pc[t] = "select"
    PROVE  Cardinality(Stored) <= Len(matrix)
<1>1. loaded /\ \A r \in Requests : pc[r] # "append"
  BY DEF LoadInv, LockInv, Locked, WritePhases
<1>2. Stored \subseteq RowIds(matrix)
  BY <1>1 DEF EntriesAreVisible
<1>3. matrix \in Seq(Row)
  BY DEF TypeOK
<1>4. RowIds(matrix) \in SUBSET Ids /\ Cardinality(RowIds(matrix)) <= Len(matrix)
  BY <1>3, RowCount
<1>5. Stored \in SUBSET Ids
  BY DEF Stored
<1>6. Cardinality(Stored) <= Cardinality(RowIds(matrix))
  BY <1>2, <1>4, <1>5, IdsFinite
<1>7. /\ Cardinality(Stored) \in Nat /\ Cardinality(RowIds(matrix)) \in Nat
      /\ Len(matrix) \in Nat
  BY <1>3, <1>4, <1>5, IdsFinite
<1> QED BY <1>4, <1>6, <1>7

\* Whoever deletes entries only makes more room, and one insert at a time uses it.
LEMMA RoomStep ==
    ASSUME TypeOK, TargetInv, LockInv, LoadInv, EntriesAreVisible, RoomInv, TableBounded,
    [Next]_vars
    PROVE  RoomInv' /\ TableBounded'
<1> DEFINE n == Cardinality(Stored)
           m == Cardinality(Stored')
<1>1. /\ Stored \in SUBSET Ids /\ Stored' \in SUBSET Ids
      /\ n \in Nat /\ m \in Nat /\ MaxEntries \in Nat /\ MaxEntries > 0 /\ n <= MaxEntries
  <2>1. Stored \in SUBSET Ids /\ Stored' \in SUBSET Ids
    BY DEF Stored
  <2> QED BY <2>1, IdsFinite, ConstantsAssumption DEF TableBounded
<1>2. KeptOrBorn /\ KeptOrRoom
  BY PgFrame, RoomFrame
<1>3. ASSUME \A r \in Requests : ~WriteInsert(r)
      PROVE  Stored' \subseteq Stored /\ m <= n /\ (Stored' # Stored => m < n)
  <2>1. Stored' \subseteq Stored
    BY <1>2, <1>3 DEF KeptOrBorn, Stored
  <2> QED BY <1>1, <2>1, IdsFinite
<1> HIDE DEF n, m
<1>4. CASE \A r \in Requests : ~WriteInsert(r)
  <2>1. m <= MaxEntries
    BY <1>1, <1>3, <1>4
  <2>2. ASSUME NEW t \in Requests, pc'[t] \in {"victimRedis", "victimPg"}
        PROVE  target'[t] \in Stored' \/ m < MaxEntries
    <3>1. target'[t] \in Stored \/ n < MaxEntries
      BY <1>2, <2>2 DEF KeptOrRoom, RoomInv, n
    <3> QED BY <1>1, <1>3, <1>4, <3>1
  <2>3. ASSUME NEW t \in Requests, pc'[t] \in {"victimDrop", "insert"}
        PROVE  m < MaxEntries
    <3>1. CASE pc[t] \in {"victimDrop", "insert"}
      <4>1. n < MaxEntries
        BY <3>1 DEF RoomInv, n
      <4> QED BY <1>1, <1>3, <1>4, <4>1
    <3>2. CASE pc[t] = "victimPg" /\ pg' = [pg EXCEPT ![target[t]] = None]
      <4>1. target[t] \in Stored \/ n < MaxEntries
        BY <3>2 DEF RoomInv, n
      <4>2. target[t] \notin Stored'
        BY <3>2 DEF TypeOK, Stored
      <4> QED BY <1>1, <1>3, <1>4, <4>1, <4>2
    <3>3. CASE pc[t] = "victim" /\ Stored = {}
      <4>1. n = 0
        BY <3>3, FS_EmptySet DEF n
      <4> QED BY <1>1, <1>3, <1>4, <4>1
    <3>4. CASE pc[t] = "select" /\ Len(matrix) < MaxEntries
      <4>1. n <= Len(matrix) /\ Len(matrix) \in Nat
        BY <3>4, RowsBoundEntries DEF n, TypeOK
      <4> QED BY <1>1, <1>3, <1>4, <3>4, <4>1
    <3> QED BY <1>2, <2>3, <3>1, <3>2, <3>3, <3>4 DEF KeptOrRoom
  <2> QED BY <2>1, <2>2, <2>3 DEF RoomInv, TableBounded, m
<1>5. ASSUME NEW r \in Requests, WriteInsert(r)
      PROVE  RoomInv' /\ TableBounded'
  <2>1. /\ pc[r] = "insert" /\ pc' = [pc EXCEPT ![r] = "append"]
        /\ \A e \in Ids : e # r => pg'[e] = pg[e]
    BY <1>5 DEF WriteInsert, Step, TypeOK
  <2>2. Stored' \subseteq Stored \cup {r}
    BY <2>1 DEF Stored
  <2>3. \A t \in Requests : pc'[t] \notin {"victimRedis", "victimPg", "victimDrop", "insert"}
    BY <2>1 DEF TypeOK, LockInv, Locked, WritePhases
  <2>4. n < MaxEntries
    BY <2>1 DEF RoomInv, n
  <2>5. Stored \cup {r} \in SUBSET Ids
    BY <1>1 DEF Ids
  <2>6. Cardinality(Stored \cup {r}) <= n + 1 /\ Cardinality(Stored \cup {r}) \in Nat
    <3>1. IsFiniteSet(Stored)
      BY <1>1, IdsFinite
    <3>2. Cardinality(Stored \cup {r}) = IF r \in Stored THEN n ELSE n + 1
      BY <3>1, FS_AddElement DEF n
    <3> QED BY <1>1, <3>2
  <2>7. m <= Cardinality(Stored \cup {r})
    BY <1>1, <2>2, <2>5, IdsFinite DEF m
  <2>8. m <= MaxEntries
    BY <1>1, <2>4, <2>6, <2>7
  <2> QED BY <2>3, <2>8 DEF RoomInv, TableBounded, m
<1> QED BY <1>4, <1>5

-----------------------------------------------------------------------------
(* The theorems *)

\* The invariant holds of a process that has just started, over whatever Postgres kept.
LEMMA InitInv == Init => IInv
<1> SUFFICES ASSUME Init PROVE IInv
  OBVIOUS
<1> USE ConstantsAssumption
<1>1. PICK kept \in SUBSET Seeds :
        /\ Cardinality(kept) <= MaxEntries
        /\ pg = [e \in Ids |-> IF e \in kept
                  THEN [q |-> asked[e], ans |-> e, man |-> gen[e], hit |-> 0, born |-> 0]
                  ELSE None]
  BY DEF Init
<1>2. /\ \A r \in Requests : pc[r] = "idle" /\ target[r] = None /\ served[r] = None
                              /\ asked[r] = None
      /\ \A s \in Seeds : asked[s] \in Questions /\ gen[s] \in Nat
      /\ matrix = << >> /\ loaded = FALSE /\ lock = None
      /\ redis = [q \in Questions |-> None]
      /\ Requests \subseteq Ids /\ Seeds \subseteq Ids /\ None \notin Requests
      /\ asked \in [Ids -> Questions \cup {None}] /\ gen \in [Ids -> Nat]
  <2>1. Requests \subseteq Ids /\ Seeds \subseteq Ids /\ None \notin Requests
    BY DEF Ids
  <2>2. asked \in [Ids -> Questions \cup {None}] /\ \A s \in Seeds : asked[s] # None
    BY DEF Init
  <2>3. gen \in [Ids -> Nat]
    <3>1. gen \in [Ids -> SeedGens \cup {0}] /\ SeedGens \cup {0} \subseteq Nat
      BY DEF Init
    <3> QED BY <3>1
  <2>4. \A r \in Requests : pc[r] = "idle" /\ target[r] = None /\ served[r] = None
                              /\ asked[r] = None
    BY DEF Init
  <2>5. /\ matrix = << >> /\ loaded = FALSE /\ lock = None
        /\ redis = [q \in Questions |-> None]
    BY DEF Init
  <2> QED BY <2>1, <2>2, <2>3, <2>4, <2>5
<1>3. /\ \A e \in kept : pg[e] = [q |-> asked[e], ans |-> e, man |-> gen[e], hit |-> 0, born |-> 0]
      /\ \A e \in Ids \ kept : pg[e] = None
  BY <1>1, <1>2
<1>4. \A e \in kept : pg[e] \in Entry /\ pg[e].q = asked[e] /\ pg[e].ans = e
  <2> TAKE e \in kept
  <2>1. pg[e] = [q |-> asked[e], ans |-> e, man |-> gen[e], hit |-> 0, born |-> 0]
    BY <1>3
  <2>2. asked[e] \in Questions /\ e \in Ids /\ gen[e] \in Nat
    BY <1>2
  <2> QED BY <2>1, <2>2 DEF Entry
<1>5. Stored = kept
  BY <1>2, <1>3, <1>4 DEF Stored
<1>6. TypeOK
  <2>1. pg \in [Ids -> Entry \cup {None}]
    BY <1>1, <1>3, <1>4
  <2>2. matrix \in Seq(Row)
    BY <1>2, EmptyMatrix
  <2>3. /\ pc \in [Requests -> Phases] /\ gen \in [Ids -> Nat]
        /\ target \in [Requests -> Ids \cup {None}] /\ copy \in [Requests -> Entry \cup {None}]
        /\ served \in [Requests -> Ids \cup {None}] /\ redis \in [Questions -> Ids \cup {None}]
    BY <1>2 DEF Init, Phases
  <2>4. /\ loaded \in BOOLEAN /\ curMan \in Nat /\ lock \in Requests \cup {None}
        /\ cli \in [at : {"idle", "flushRedis", "deleteRedis"}, q : Questions \cup {None}]
        /\ doomed \subseteq Ids /\ purged \subseteq Ids
        /\ index \in Nat /\ bm25 \in Nat /\ skipped \subseteq Requests
    BY <1>2 DEF Init
  <2>5. {clock, faults, ops, restarts} \subseteq Nat
    BY DEF Init
  <2> QED BY <1>2, <2>1, <2>2, <2>3, <2>4, <2>5 DEF TypeOK
<1>7. TargetInv /\ LockInv /\ LoadInv /\ DropInv /\ EntriesAreVisible
  BY <1>2 DEF TargetInv, Targeting, LockInv, Locked, WritePhases, LoadInv, DropInv,
              EntriesAreVisible
<1>8. UnbornInv
  <2>1. \A r \in Requests : pg[r] = None
    BY <1>2, <1>3
  <2>2. RowIds(matrix) = {}
    BY <1>2, EmptyMatrix, MatrixIds
  <2> QED BY <1>2, <2>1, <2>2 DEF UnbornInv, Written
<1>9. AskedInv
  BY <1>2 DEF AskedInv
<1>10. KeyInv /\ MatchInv /\ ServedAnswersFit
  <2>1. \A e \in Stored : pg[e].q = asked[e] /\ asked[pg[e].ans] = asked[e]
    BY <1>4, <1>5
  <2>2. DOMAIN matrix = {}
    BY <1>2
  <2> QED BY <1>2, <2>1, <2>2 DEF KeyInv, MatchInv, ServedAnswersFit
<1>11. AbsentInv /\ OneEntryPerQuestion
  <2>1. \A d, e \in Stored : d # e => asked[d] # asked[e]
    BY <1>5 DEF Init
  <2> QED BY <1>2, <1>4, <1>5, <2>1 DEF AbsentInv, Inserting, OneEntryPerQuestion
<1>12. CurrentInv /\ HitsAreCurrent
  <2>1. DOMAIN matrix = {}
    BY <1>2
  <2> QED BY <1>2, <2>1 DEF CurrentInv, HitsAreCurrent
<1>13. RoomInv /\ TableBounded
  BY <1>1, <1>2, <1>5 DEF RoomInv, TableBounded
<1> QED BY <1>6, <1>7, <1>8, <1>9, <1>10, <1>11, <1>12, <1>13 DEF IInv

\* Every step keeps it.
LEMMA StepInv == IInv /\ [Next]_vars => IInv'
<1> SUFFICES ASSUME IInv, [Next]_vars PROVE IInv'
  OBVIOUS
<1> USE DEF IInv
<1>1. TypeOK' /\ TargetInv' /\ AskedInv'
  BY TypeStep, TargetStep, AskedStep
<1>2. LockInv' /\ LoadInv'
  BY LockStep, LoadStep
<1>3. UnbornInv' /\ DropInv' /\ EntriesAreVisible'
  BY UnbornStep, DropStep, VisibleStep
<1>4. KeyInv'
  BY KeyStep
<1>5. MatchInv' /\ ServedAnswersFit'
  BY <1>4, MatchStep, FitStep
<1>6. AbsentInv' /\ OneEntryPerQuestion'
  BY AbsentStep, OneEntryStep
<1>7. CurrentInv' /\ HitsAreCurrent'
  BY CurrentStep, HitsStep
<1>8. RoomInv' /\ TableBounded'
  BY RoomStep
<1> QED BY <1>1, <1>2, <1>3, <1>4, <1>5, <1>6, <1>7, <1>8

\* Hence it holds in every reachable state.
LEMMA Invariance == Spec => []IInv
BY InitInv, StepInv, PTL DEF Spec

\* Every variable keeps its type whatever the interleaving, the faults and the restarts.
THEOREM TypeCorrect == Spec => []TypeOK
<1>1. IInv => TypeOK
  BY DEF IInv
<1> QED BY <1>1, Invariance, PTL

\* The answer returned by either tier fits the question, for any number of concurrent lookups,
\* writes, evictions and operator commands (store.py `_lookup`, baseline.py `_cache_lookup`).
THEOREM AnswersFit == Spec => []ServedAnswersFit
<1>1. IInv => ServedAnswersFit
  BY DEF IInv
<1> QED BY <1>1, Invariance, PTL

\* A semantic hit never returns an entry of another manifest than the one loaded (AC-9).
THEOREM HitsCurrent == Spec => []HitsAreCurrent
<1>1. IInv => HitsAreCurrent
  BY DEF IInv
<1> QED BY <1>1, Invariance, PTL

\* The unique constraint on query_hash is never tripped, whatever else runs (AC-17).
THEOREM OneEntry == Spec => []OneEntryPerQuestion
<1>1. IInv => OneEntryPerQuestion
  BY DEF IInv
<1> QED BY <1>1, Invariance, PTL

\* No committed entry is invisible to lookups and to the capacity check for longer than the
\* one step between its commit and its row.
THEOREM EntriesVisible == Spec => []EntriesAreVisible
<1>1. IInv => EntriesAreVisible
  BY DEF IInv
<1> QED BY <1>1, Invariance, PTL

\* Whoever fails or is cancelled, the lock is held by the task inside its block and by no other.
THEOREM LockHeld == Spec => []LockHeldInside
<1>1. IInv => LockHeldInside
  BY DEF IInv, LockInv, LockHeldInside
<1> QED BY <1>1, Invariance, PTL

\* The table respects CACHE_MAX_ENTRIES, although the check counts the rows of the matrix
\* and other tasks evict meanwhile (AC-18).
THEOREM TableStaysBounded == Spec => []TableBounded
<1>1. IInv => TableBounded
  BY DEF IInv
<1> QED BY <1>1, Invariance, PTL

-----------------------------------------------------------------------------
(* Whose answer an entry holds, and what the operator deleted *)

\* An entry that holds a request's answer was committed by that request.
WrittenInv == \A e \in Stored : pg[e].ans \in Requests => pc[pg[e].ans] \in Written

\* No entry holds an answer the operator is deleting or has deleted, and no write of one is
\* still to come.
PurgeInv ==
    \A a \in doomed \cup purged : /\ \A e \in Stored : pg[e].ans # a
                                  /\ a \in Requests => pc[a] \in Written

\* In this step a committed write stays so, and an entry keeps its answer and manifest or gets
\* those of a write that commits in it.
KeptOrWritten ==
    /\ \A t \in Requests : pc[t] \in Written => pc'[t] \in Written
    /\ \A e \in Ids : pg'[e] # None =>
         \/ pg[e] # None /\ pg'[e].ans = pg[e].ans /\ pg'[e].man = pg[e].man
         \/ \E t \in Requests : /\ pc[t] \in {"insert", "update"} /\ pc'[t] = "append"
                                 /\ pg'[e].ans = t /\ pg'[e].man = curMan

\* Only an insert or an update changes whose answer an entry holds.
LEMMA WrittenFrame ==
    ASSUME TypeOK, TargetInv, [Next]_vars
    PROVE  KeptOrWritten
<1> USE DEF KeptOrWritten, Written, Step, Fault, taskVars, procVars, storeVars, cliVars, envVars
<1>1. /\ pc \in [Requests -> Phases] /\ pg \in [Ids -> Entry \cup {None}]
      /\ target \in [Requests -> Ids \cup {None}] /\ None \notin Entry /\ None \notin Ids
  BY ConstantsAssumption DEF TypeOK, Ids
<1>2. ASSUME NEW r \in Requests, Ask(r) PROVE KeptOrWritten
  BY <1>2, <1>1 DEF Ask
<1>3. ASSUME NEW r \in Requests, RedisHit(r) PROVE KeptOrWritten
  BY <1>3, <1>1 DEF RedisHit
<1>4. ASSUME NEW r \in Requests, RedisMiss(r) PROVE KeptOrWritten
  BY <1>4, <1>1 DEF RedisMiss
<1>5. ASSUME NEW r \in Requests, LoadBegin(r) PROVE KeptOrWritten
  BY <1>5, <1>1 DEF LoadBegin
<1>6. ASSUME NEW r \in Requests, LoadFinish(r) PROVE KeptOrWritten
  BY <1>6, <1>1, MatchLemma DEF LoadFinish
<1>7. ASSUME NEW r \in Requests, Match(r) PROVE KeptOrWritten
  BY <1>7, <1>1, MatchLemma DEF Match
<1>8. ASSUME NEW r \in Requests, HitRead(r) PROVE KeptOrWritten
  BY <1>8, <1>1 DEF HitRead
<1>9. ASSUME NEW r \in Requests, HitCommit(r) PROVE KeptOrWritten
  <2>1. target[r] \in Ids
    BY <1>9 DEF HitCommit, TargetInv, Targeting
  <2> QED BY <1>1, <1>9, <2>1 DEF HitCommit, Entry
<1>10. ASSUME NEW r \in Requests, EvictGet(r) PROVE KeptOrWritten
  BY <1>10, <1>1 DEF EvictGet
<1>11. ASSUME NEW r \in Requests, EvictRedis(r) PROVE KeptOrWritten
  BY <1>11, <1>1 DEF EvictRedis
<1>12. ASSUME NEW r \in Requests, EvictPg(r) PROVE KeptOrWritten
  BY <1>12, <1>1 DEF EvictPg
<1>13. ASSUME NEW r \in Requests, EvictDrop(r) PROVE KeptOrWritten
  BY <1>13, <1>1 DEF EvictDrop
<1>14. ASSUME NEW r \in Requests, LookupFault(r) PROVE KeptOrWritten
  BY <1>14, <1>1 DEF LookupFault
<1>15. ASSUME NEW r \in Requests, Generate(r) PROVE KeptOrWritten
  BY <1>15, <1>1 DEF Generate, Answered
<1>15a. ASSUME NEW r \in Requests, SparseRead(r) PROVE KeptOrWritten
  BY <1>15a, <1>1 DEF SparseRead
<1>15b. ASSUME NEW r \in Requests, SparseKeep(r) PROVE KeptOrWritten
  BY <1>15b, <1>1 DEF SparseKeep, Answered
<1>15c. ASSUME NEW r \in Requests, Cancel(r) PROVE KeptOrWritten
  <2>1. /\ pc[r] \in LookupPhases /\ pc' = [pc EXCEPT ![r] = "cancelled"]
        /\ \A e \in Ids : pg'[e] = None <=> pg[e] = None
        /\ \A e \in Ids : pg[e] # None => pg'[e].ans = pg[e].ans /\ pg'[e].man = pg[e].man
    BY <1>15c, CancelFrame
  <2> QED BY <1>1, <2>1 DEF LookupPhases
<1>16. ASSUME NEW r \in Requests, WriteLock(r) PROVE KeptOrWritten
  BY <1>16, <1>1 DEF WriteLock
<1>17. ASSUME NEW r \in Requests, WriteSelect(r) PROVE KeptOrWritten
  BY <1>17, <1>1 DEF WriteSelect
<1>18. ASSUME NEW r \in Requests, WriteVictim(r) PROVE KeptOrWritten
  BY <1>18, <1>1 DEF WriteVictim
<1>19. ASSUME NEW r \in Requests, VictimRedis(r) PROVE KeptOrWritten
  BY <1>19, <1>1 DEF VictimRedis
<1>20. ASSUME NEW r \in Requests, VictimPg(r) PROVE KeptOrWritten
  BY <1>20, <1>1 DEF VictimPg
<1>21. ASSUME NEW r \in Requests, VictimDrop(r) PROVE KeptOrWritten
  BY <1>21, <1>1 DEF VictimDrop
<1>22. ASSUME NEW r \in Requests, WriteInsert(r) PROVE KeptOrWritten
  <2>1. \A e \in Ids : e # r => pg'[e] = pg[e]
    BY <1>1, <1>22 DEF WriteInsert
  <2>2. pc[r] = "insert" /\ pc'[r] = "append" /\ (r \in Ids => pg'[r].ans = r /\ pg'[r].man = curMan)
    BY <1>1, <1>22 DEF WriteInsert
  <2>3. \A t \in Requests : pc[t] \in Written => pc'[t] \in Written
    BY <1>1, <1>22 DEF WriteInsert
  <2> QED BY <2>1, <2>2, <2>3
<1>23. ASSUME NEW r \in Requests, WriteUpdate(r) PROVE KeptOrWritten
  <2>1. target[r] \in Ids
    BY <1>23 DEF WriteUpdate, TargetInv, Targeting
  <2> QED BY <1>1, <1>23, <2>1 DEF WriteUpdate, Entry
<1>24. ASSUME NEW r \in Requests, WriteAppend(r) PROVE KeptOrWritten
  BY <1>24, <1>1 DEF WriteAppend
<1>25. ASSUME NEW r \in Requests, WriteRedis(r) PROVE KeptOrWritten
  BY <1>25, <1>1 DEF WriteRedis
<1>26. ASSUME NEW r \in Requests, WriteFault(r) PROVE KeptOrWritten
  BY <1>26, <1>1 DEF WriteFault
<1>27. CASE CliFlush
  BY <1>27, <1>1 DEF CliFlush
<1>28. CASE CliFlushRedis
  BY <1>28, <1>1 DEF CliFlushRedis
<1>29. CASE CliDeleteRedis
  BY <1>29, <1>1 DEF CliDeleteRedis
<1>30. CASE Reindex
  BY <1>30, <1>1 DEF Reindex
<1>31. CASE Restart
  BY <1>31, <1>1 DEF Restart
<1>32. ASSUME NEW q \in Questions, CliDelete(q) PROVE KeptOrWritten
  BY <1>32, <1>1 DEF CliDelete
<1>33. ASSUME NEW q \in Questions, RedisExpire(q) PROVE KeptOrWritten
  BY <1>33, <1>1 DEF RedisExpire
<1>34. CASE UNCHANGED vars
  BY <1>34, <1>1 DEF vars
<1> QED
  BY <1>2, <1>3, <1>4, <1>5, <1>6, <1>7, <1>8, <1>9, <1>10, <1>11, <1>12, <1>13, <1>14, <1>15,
     <1>15a, <1>15b, <1>15c,
     <1>16, <1>17, <1>18, <1>19, <1>20, <1>21, <1>22, <1>23, <1>24, <1>25, <1>26, <1>27, <1>28,
     <1>29, <1>30, <1>31, <1>32, <1>33, <1>34
  DEF Next, Task, Answer, Lookup, Write, Operator, Environment

\* Only the operator's command deletes answers for good.
LEMMA PurgeFrame ==
    ASSUME [Next]_vars,
           ~(CliFlush \/ CliFlushRedis \/ CliDeleteRedis \/ \E q \in Questions : CliDelete(q))
    PROVE  UNCHANGED <<doomed, purged>>
<1>1. CASE UNCHANGED vars
  BY <1>1 DEF vars, cliVars
<1>2. ASSUME NEW r \in Requests, Ask(r) \/ Answer(r) \/ Cancel(r) \/ LookupFault(r) \/ WriteFault(r)
      PROVE  UNCHANGED cliVars
  BY <1>2 DEF Ask, Answer, SparseRead, SparseKeep, Generate, Cancel, LookupFault, WriteFault
<1>3. ASSUME NEW r \in Requests, LoadBegin(r) \/ LoadFinish(r) \/ Lookup(r)
      PROVE  UNCHANGED cliVars
  BY <1>3 DEF LoadBegin, LoadFinish, Lookup, RedisHit, RedisMiss, Match, HitRead, HitCommit,
              EvictGet, EvictRedis, EvictPg, EvictDrop
<1>4. ASSUME NEW r \in Requests, WriteLock(r) \/ Write(r)
      PROVE  UNCHANGED cliVars
  BY <1>4 DEF WriteLock, Write, WriteSelect, WriteVictim, VictimRedis, VictimPg, VictimDrop,
              WriteInsert, WriteUpdate, WriteAppend, WriteRedis
<1>5. CASE Environment
  BY <1>5 DEF Environment, Reindex, Restart, RedisExpire, cliVars
<1>6. QED
  BY <1>1, <1>2, <1>3, <1>4, <1>5 DEF Next, Task, Operator, cliVars

\* Deleting every entry of a question leaves none that holds one of their answers.
LEMMA PurgeStep ==
    ASSUME TypeOK, TargetInv, KeyInv, WrittenInv, PurgeInv, [Next]_vars
    PROVE  WrittenInv' /\ PurgeInv'
<1>1. KeptOrWritten
  BY WrittenFrame
<1>2. /\ \A t \in Requests : pc[t] \in Written => pc'[t] \in Written
      /\ \A e \in Stored' : \/ e \in Stored /\ pg'[e].ans = pg[e].ans
                            \/ \E t \in Requests : /\ pg'[e].ans = t /\ pc[t] \notin Written
                                                   /\ pc'[t] \in Written
  BY <1>1 DEF KeptOrWritten, Stored, Written
<1>3. WrittenInv'
  BY <1>2 DEF WrittenInv
<1>4. ASSUME NEW a \in doomed \cup purged
      PROVE  /\ \A e \in Stored' : pg'[e].ans # a
             /\ a \in Requests => pc'[a] \in Written
  BY <1>2 DEF PurgeInv
<1>5. CASE CliFlush
  <2>1. doomed' = {pg[e].ans : e \in Stored} /\ purged' = purged /\ Stored' = {} /\ pc' = pc
    BY <1>5 DEF CliFlush, Doomed, Stored, taskVars
  <2>2. \A a \in doomed' : a \in Requests => pc[a] \in Written
    BY <2>1 DEF WrittenInv
  <2> QED BY <1>3, <1>4, <2>1, <2>2 DEF PurgeInv
<1>6. ASSUME NEW q \in Questions, CliDelete(q) PROVE PurgeInv'
  <2>1. /\ doomed' = {pg[e].ans : e \in HasEntryFor(q)} /\ purged' = purged /\ pc' = pc
        /\ \A e \in Stored' : e \in Stored /\ pg'[e] = pg[e] /\ pg[e].q # q
    BY <1>6 DEF CliDelete, Doomed, Stored, HasEntryFor, taskVars
  <2>2. \A a \in doomed' : asked[a] = q /\ (a \in Requests => pc[a] \in Written)
    BY <2>1 DEF HasEntryFor, KeyInv, WrittenInv
  <2>3. \A e \in Stored' : asked[pg'[e].ans] # q
    BY <2>1 DEF KeyInv
  <2> QED BY <1>4, <2>1, <2>2, <2>3 DEF PurgeInv
<1>7. ASSUME doomed' \cup purged' \subseteq doomed \cup purged PROVE PurgeInv'
  <2> SUFFICES ASSUME NEW a \in doomed' \cup purged'
               PROVE  /\ \A e \in Stored' : pg'[e].ans # a
                      /\ a \in Requests => pc'[a] \in Written
    BY DEF PurgeInv
  <2> QED BY <1>4, <1>7
<1>8. CASE CliFlushRedis \/ CliDeleteRedis
  <2>1. doomed' \cup purged' \subseteq doomed \cup purged
    BY <1>8 DEF CliFlushRedis, CliDeleteRedis
  <2> QED BY <1>3, <1>7, <2>1
<1>9. CASE UNCHANGED <<doomed, purged>>
  BY <1>3, <1>7, <1>9
<1> QED BY <1>3, <1>5, <1>6, <1>8, <1>9, PurgeFrame

-----------------------------------------------------------------------------
(* Which manifest an entry claims *)

\* The manifest and BM25 in memory are ones that were on disk; a request without the cache never
\* writes.  As long as no call has failed, one that uses it answers after the manifest was loaded,
\* and as long as none skips it the manifest was loaded before BM25.
GenInv ==
    /\ curMan <= index /\ bm25 <= index /\ \A r \in Requests : gen[r] <= index
    /\ \A r \in skipped : pc[r] \in {"generate", "sparse", "done", "cancelled"}
    /\ faults = 0 => \A r \in Requests \ skipped :
                       pc[r] \in {"generate", "sparse"} \cup WritePhases => loaded
    /\ faults = 0 /\ skipped = {} =>
         /\ bm25 # 0 => loaded /\ curMan <= bm25
         /\ \A r \in Requests : pc[r] \in {"sparse"} \cup WritePhases => curMan <= gen[r]

\* The manifest is read before the first answer is generated, unless a load fails.
LEMMA GenStep ==
    ASSUME TypeOK, TargetInv, LoadInv, GenInv, [Next]_vars
    PROVE  GenInv'
<1> USE DEF GenInv, WritePhases, Step, Fault, RedisCall, taskVars, procVars, storeVars, cliVars,
envVars
<1>1. /\ pc \in [Requests -> Phases] /\ gen \in [Ids -> Nat] /\ Requests \subseteq Ids
      /\ curMan \in Nat /\ index \in Nat /\ bm25 \in Nat /\ faults \in Nat
      /\ skipped \subseteq Requests
  BY DEF TypeOK, Ids
<1>2. ASSUME NEW r \in Requests, Ask(r) PROVE GenInv'
  BY <1>2, <1>1 DEF Ask, LoadInv, Targeting
<1>3. ASSUME NEW r \in Requests, RedisHit(r) PROVE GenInv'
  BY <1>3, <1>1 DEF RedisHit, LoadInv, Targeting
<1>4. ASSUME NEW r \in Requests, RedisMiss(r) PROVE GenInv'
  BY <1>4, <1>1 DEF RedisMiss, LoadInv, Targeting
<1>5. ASSUME NEW r \in Requests, LoadBegin(r) PROVE GenInv'
  BY <1>5, <1>1 DEF LoadBegin, LoadInv, Targeting
<1>6. ASSUME NEW r \in Requests, LoadFinish(r) PROVE GenInv'
  BY <1>6, <1>1, MatchLemma DEF LoadFinish
<1>7. ASSUME NEW r \in Requests, Match(r) PROVE GenInv'
  <2>1. /\ loaded /\ pc[r] = "lookup"
        /\ UNCHANGED <<gen, loaded, curMan, index, bm25, skipped, faults>>
    BY <1>7 DEF Match
  <2>2. \A t \in Requests : \/ pc'[t] = pc[t]
                            \/ t = r /\ pc'[t] \in {"generate", "hitRead", "evictGet"}
    BY <1>1, <1>7, <2>1, MatchLemma
  <2> QED BY <1>1, <2>1, <2>2
<1>8. ASSUME NEW r \in Requests, HitRead(r) PROVE GenInv'
  BY <1>8, <1>1 DEF HitRead, LoadInv, Targeting
<1>9. ASSUME NEW r \in Requests, HitCommit(r) PROVE GenInv'
  BY <1>9, <1>1 DEF HitCommit, LoadInv, Targeting
<1>10. ASSUME NEW r \in Requests, EvictGet(r) PROVE GenInv'
  BY <1>10, <1>1 DEF EvictGet, LoadInv, Targeting
<1>11. ASSUME NEW r \in Requests, EvictRedis(r) PROVE GenInv'
  BY <1>11, <1>1 DEF EvictRedis, LoadInv, Targeting
<1>12. ASSUME NEW r \in Requests, EvictPg(r) PROVE GenInv'
  BY <1>12, <1>1 DEF EvictPg, LoadInv, Targeting
<1>13. ASSUME NEW r \in Requests, EvictDrop(r) PROVE GenInv'
  BY <1>13, <1>1 DEF EvictDrop, LoadInv, Targeting
<1>14. ASSUME NEW r \in Requests, LookupFault(r) PROVE GenInv'
  BY <1>14, <1>1 DEF LookupFault, LoadInv, Targeting
<1>15. ASSUME NEW r \in Requests, Generate(r) PROVE GenInv'
  BY <1>15, <1>1 DEF Generate, Answered, LoadInv, Targeting
<1>15a. ASSUME NEW r \in Requests, SparseRead(r) PROVE GenInv'
  BY <1>15a, <1>1 DEF SparseRead, LoadInv, Targeting
<1>15b. ASSUME NEW r \in Requests, SparseKeep(r) PROVE GenInv'
  BY <1>15b, <1>1 DEF SparseKeep, Answered, LoadInv, Targeting
<1>15c. ASSUME NEW r \in Requests, Cancel(r) PROVE GenInv'
  <2>1. /\ pc' = [pc EXCEPT ![r] = "cancelled"]
        /\ UNCHANGED <<gen, loaded, curMan, index, bm25, skipped, faults>>
    BY <1>15c, CancelFrame
  <2> QED BY <1>1, <2>1
<1>16. ASSUME NEW r \in Requests, WriteLock(r) PROVE GenInv'
  BY <1>16, <1>1 DEF WriteLock, LoadInv, Targeting
<1>17. ASSUME NEW r \in Requests, WriteSelect(r) PROVE GenInv'
  BY <1>17, <1>1 DEF WriteSelect, LoadInv, Targeting
<1>18. ASSUME NEW r \in Requests, WriteVictim(r) PROVE GenInv'
  BY <1>18, <1>1 DEF WriteVictim, LoadInv, Targeting
<1>19. ASSUME NEW r \in Requests, VictimRedis(r) PROVE GenInv'
  BY <1>19, <1>1 DEF VictimRedis, LoadInv, Targeting
<1>20. ASSUME NEW r \in Requests, VictimPg(r) PROVE GenInv'
  BY <1>20, <1>1 DEF VictimPg, LoadInv, Targeting
<1>21. ASSUME NEW r \in Requests, VictimDrop(r) PROVE GenInv'
  BY <1>21, <1>1 DEF VictimDrop, LoadInv, Targeting
<1>22. ASSUME NEW r \in Requests, WriteInsert(r) PROVE GenInv'
  BY <1>22, <1>1 DEF WriteInsert, LoadInv, Targeting
<1>23. ASSUME NEW r \in Requests, WriteUpdate(r) PROVE GenInv'
  BY <1>23, <1>1 DEF WriteUpdate, LoadInv, Targeting
<1>24. ASSUME NEW r \in Requests, WriteAppend(r) PROVE GenInv'
  BY <1>24, <1>1 DEF WriteAppend, LoadInv, Targeting
<1>25. ASSUME NEW r \in Requests, WriteRedis(r) PROVE GenInv'
  BY <1>25, <1>1 DEF WriteRedis, LoadInv, Targeting
<1>26. ASSUME NEW r \in Requests, WriteFault(r) PROVE GenInv'
  BY <1>26, <1>1 DEF WriteFault, LoadInv, Targeting
<1>27. CASE CliFlush
  BY <1>27, <1>1 DEF CliFlush, LoadInv, Targeting
<1>28. CASE CliFlushRedis
  BY <1>28, <1>1 DEF CliFlushRedis, LoadInv, Targeting
<1>29. CASE CliDeleteRedis
  BY <1>29, <1>1 DEF CliDeleteRedis, LoadInv, Targeting
<1>30. CASE Reindex
  BY <1>30, <1>1 DEF Reindex, LoadInv, Targeting
<1>31. CASE Restart
  BY <1>31, <1>1 DEF Restart, LoadInv, Targeting
<1>32. ASSUME NEW q \in Questions, CliDelete(q) PROVE GenInv'
  BY <1>32, <1>1 DEF CliDelete, LoadInv, Targeting
<1>33. ASSUME NEW q \in Questions, RedisExpire(q) PROVE GenInv'
  BY <1>33, <1>1 DEF RedisExpire, LoadInv, Targeting
<1>34. CASE UNCHANGED vars
  BY <1>34, <1>1 DEF vars, LoadInv, Targeting
<1> QED
  BY <1>2, <1>3, <1>4, <1>5, <1>6, <1>7, <1>8, <1>9, <1>10, <1>11, <1>12, <1>13, <1>14, <1>15,
     <1>15a, <1>15b, <1>15c,
     <1>16, <1>17, <1>18, <1>19, <1>20, <1>21, <1>22, <1>23, <1>24, <1>25, <1>26, <1>27, <1>28,
     <1>29, <1>30, <1>31, <1>32, <1>33, <1>34
  DEF Next, Task, Answer, Lookup, Write, Operator, Environment

\* A call that failed is never forgotten, and the index of an answer is set as it is generated.
LEMMA GenFrame ==
    ASSUME TypeOK, [Next]_vars
    PROVE  /\ faults' = 0 => faults = 0
           /\ skipped' = {} => skipped = {}
           /\ \A a \in Ids : \/ gen'[a] = gen[a]
                             \/ a \in Requests /\ (Generate(a) \/ SparseRead(a))
<1>1. faults' = 0 => faults = 0
  <2>1. faults' = faults \/ Fault
    BY DEF Next, Task, Answer, Lookup, Write, Operator, Environment, Ask, RedisHit, RedisMiss,
           LoadBegin,
           LoadFinish, Match, HitRead, HitCommit, EvictGet, EvictRedis, EvictPg, EvictDrop,
           LookupFault, Cancel, SparseRead, SparseKeep, Generate, WriteLock, WriteSelect,
           WriteVictim, VictimRedis, VictimPg,
           VictimDrop, WriteInsert, WriteUpdate, WriteAppend, WriteRedis, WriteFault, RedisExpire,
           CliFlush, CliFlushRedis, CliDelete, CliDeleteRedis, Reindex, Restart, vars, RedisCall
  <2>2. faults \in Nat
    BY DEF TypeOK
  <2> QED BY <2>1, <2>2 DEF Fault
<1>2. ASSUME \A r \in Requests : ~Generate(r) /\ ~SparseRead(r) PROVE gen' = gen
  BY <1>2
  DEF Next, Task, Answer, Lookup, Write, Operator, Environment, Ask, RedisHit, RedisMiss, LoadBegin,
      LoadFinish, Match, HitRead, HitCommit, EvictGet, EvictRedis, EvictPg, EvictDrop,
      LookupFault, Cancel, SparseKeep, WriteLock, WriteSelect, WriteVictim, VictimRedis, VictimPg,
      VictimDrop,
      WriteInsert, WriteUpdate, WriteAppend, WriteRedis, WriteFault, RedisExpire, CliFlush,
      CliFlushRedis, CliDelete, CliDeleteRedis, Reindex, Restart, vars, taskVars
<1>3. ASSUME NEW r \in Requests, Generate(r) \/ SparseRead(r)
      PROVE  \A a \in Ids : gen'[a] = gen[a] \/ a = r
  <2>1. gen \in [Ids -> Nat] /\ \E g \in Nat : gen' = [gen EXCEPT ![r] = g]
    BY <1>3 DEF TypeOK, Generate, SparseRead
  <2> QED BY <2>1
<1>4. skipped' = {} => skipped = {}
  <2>1. skipped' = skipped \/ \E r \in Requests : skipped' = skipped \cup {r}
    BY DEF Next, Task, Answer, Lookup, Write, Operator, Environment, Ask, RedisHit, RedisMiss,
           LoadBegin,
           LoadFinish, Match, HitRead, HitCommit, EvictGet, EvictRedis, EvictPg, EvictDrop,
           LookupFault, Cancel, SparseRead, SparseKeep, Generate, WriteLock, WriteSelect,
           WriteVictim,
           VictimRedis, VictimPg, VictimDrop, WriteInsert, WriteUpdate, WriteAppend, WriteRedis,
           WriteFault, RedisExpire, CliFlush, CliFlushRedis, CliDelete, CliDeleteRedis, Reindex,
           Restart, vars, envVars
  <2> QED BY <2>1
<1> QED BY <1>1, <1>2, <1>3, <1>4

\* A write tags its answer with a manifest no newer than the oldest index it was generated from.
LEMMA HonestStep ==
    ASSUME TypeOK, TargetInv, WrittenInv, GenInv, TagsAreHonest, [Next]_vars
    PROVE  TagsAreHonest'
<1> SUFFICES ASSUME faults' = 0, skipped' = {}, NEW e \in Ids, pg'[e] # None
             PROVE  pg'[e].man <= gen'[pg'[e].ans]
  BY DEF TagsAreHonest, Stored
<1>1. KeptOrWritten /\ faults = 0 /\ skipped = {}
  BY WrittenFrame, GenFrame
<1>2. CASE pg[e] # None /\ pg'[e].ans = pg[e].ans /\ pg'[e].man = pg[e].man
  <2> DEFINE a == pg[e].ans
  <2>1. e \in Stored /\ a \in Ids /\ pg[e].man <= gen[a]
    BY <1>1, <1>2 DEF TagsAreHonest, Stored, TypeOK, Entry
  <2>2. ~(a \in Requests /\ (Generate(a) \/ SparseRead(a)))
    BY <2>1 DEF WrittenInv, Written, Generate, Answered, SparseRead, Step
  <2>3. gen'[a] = gen[a]
    BY <2>1, <2>2, GenFrame
  <2> QED BY <1>2, <2>1, <2>3
<1>3. CASE \E t \in Requests : /\ pc[t] \in {"insert", "update"} /\ pc'[t] = "append"
                               /\ pg'[e].ans = t /\ pg'[e].man = curMan
  <2>1. PICK t \in Requests : /\ pc[t] \in {"insert", "update"} /\ pg'[e].ans = t
                              /\ pg'[e].man = curMan
    BY <1>3
  <2>2. curMan <= gen[t]
    BY <1>1, <2>1 DEF GenInv, WritePhases
  <2>3. ~Generate(t) /\ ~SparseRead(t)
    BY <2>1 DEF Generate, Answered, SparseRead, Step
  <2>4. gen'[t] = gen[t]
    BY <2>3, GenFrame DEF Ids
  <2> QED BY <2>1, <2>2, <2>4
<1> QED BY <1>1, <1>2, <1>3 DEF KeptOrWritten

-----------------------------------------------------------------------------
(* The matrix and the table, as long as no call fails and no operator command runs *)

\* Every row has an id of its own.
Distinct(rows) == \A i, j \in DOMAIN rows : rows[i].id = rows[j].id => i = j

\* Dropping the row of an id keeps the ids distinct and leaves no row of that id.
LEMMA DistinctDrop ==
    ASSUME NEW rows \in Seq(Row), Distinct(rows), NEW id
    PROVE  Distinct(DropRow(rows, id)) /\ id \notin RowIds(DropRow(rows, id))
<1>1. CASE id \notin RowIds(rows)
  BY <1>1 DEF DropRow
<1>2. CASE id \in RowIds(rows)
  <2> DEFINE i == CHOOSE j \in DOMAIN rows : rows[j].id = id
             out == [k \in 1 .. Len(rows) - 1 |-> IF k < i THEN rows[k] ELSE rows[k + 1]]
             from(k) == IF k < i THEN k ELSE k + 1
  <2>1. i \in 1 .. Len(rows) /\ rows[i].id = id
    BY <1>2 DEF RowIds
  <2>2. DropRow(rows, id) = out /\ DOMAIN out = 1 .. Len(rows) - 1
    BY <1>2 DEF DropRow
  <2> HIDE DEF i
  <2>3. \A k \in 1 .. Len(rows) - 1 :
          from(k) \in 1 .. Len(rows) /\ from(k) # i /\ out[k] = rows[from(k)]
    BY <2>1
  <2>4. \A k, l \in 1 .. Len(rows) - 1 : from(k) = from(l) => k = l
    BY <2>1
  <2> HIDE DEF out, from
  <2>5. Distinct(out)
    BY <2>2, <2>3, <2>4 DEF Distinct
  <2>6. id \notin RowIds(out)
    BY <2>1, <2>2, <2>3 DEF Distinct, RowIds
  <2> QED BY <2>2, <2>5, <2>6
<1> QED BY <1>1, <1>2

\* Appending a row whose id is new keeps the ids distinct.
LEMMA DistinctAppend ==
    ASSUME NEW rows \in Seq(Row), Distinct(rows), NEW row \in Row, row.id \notin RowIds(rows)
    PROVE  Distinct(Append(rows, row))
<1>1. /\ DOMAIN Append(rows, row) = 1 .. Len(rows) + 1 /\ DOMAIN rows = 1 .. Len(rows)
      /\ Len(rows) \in Nat
      /\ \A i \in 1 .. Len(rows) : Append(rows, row)[i] = rows[i]
      /\ Append(rows, row)[Len(rows) + 1] = row
  OBVIOUS
<1>2. \A i \in 1 .. Len(rows) : rows[i].id # row.id
  BY <1>1 DEF RowIds
<1> QED BY <1>1, <1>2 DEF Distinct

\* The load reads every row of the table once.
LEMMA DistinctLoads ==
    ASSUME TypeOK, NEW rows \in Loads
    PROVE  Distinct(rows)
<1> DEFINE n == Cardinality(Stored)
<1>1. n \in Nat
  BY IdsFinite DEF Stored
<1>2. PICK f \in [1 .. n -> Stored] : /\ rows = [i \in 1 .. n |-> RowOf(f[i])]
                                     /\ \A e \in Stored : \E i \in 1 .. n : f[i] = e
  BY DEF Loads
<1>3. f \in Surjection(1 .. n, Stored)
  BY <1>2 DEF Surjection
<1>4. IsFiniteSet(1 .. n) /\ Cardinality(1 .. n) = n
  BY <1>1, FS_Interval
<1> HIDE DEF n
<1>5. Cardinality(1 .. n) = Cardinality(Stored)
  BY <1>4 DEF n
<1>6. f \in Injection(1 .. n, Stored)
  BY <1>3, <1>4, <1>5, FS_SurjSameCardinalityImpliesInj
<1>7. \A i \in 1 .. n : rows[i].id = f[i]
  BY <1>2 DEF RowOf
<1>8. DOMAIN rows = 1 .. n
  BY <1>2
<1> QED BY <1>6, <1>7, <1>8 DEF Distinct, Injection, IsInjective

\* With distinct ids there are as many rows as ids.
LEMMA DistinctCount ==
    ASSUME NEW rows \in Seq(Row), Distinct(rows)
    PROVE  Len(rows) = Cardinality(RowIds(rows))
<1> DEFINE name == [i \in 1 .. Len(rows) |-> rows[i].id]
<1>1. name \in Bijection(1 .. Len(rows), RowIds(rows))
  BY DEF Bijection, Injection, IsInjective, Surjection, Distinct, RowIds
<1>2. ExistsBijection(1 .. Len(rows), RowIds(rows))
  BY <1>1 DEF ExistsBijection
<1>3. Len(rows) \in Nat
  OBVIOUS
<1>4. IsFiniteSet(1 .. Len(rows)) /\ Cardinality(1 .. Len(rows)) = Len(rows)
  BY <1>3, FS_Interval
<1> QED BY <1>2, <1>4, FS_Bijection

\* The only row of a question decides the match: if it is stale, it is evicted.
LEMMA MatchesStale ==
    ASSUME TypeOK, NEW r \in Requests, NEW rows \in Seq(Row), Distinct(rows),
           Consult(r, rows, curMan), NEW e \in Ids,
           \E i \in DOMAIN rows : rows[i].q = asked[r],
           \A i \in DOMAIN rows : rows[i].q = asked[r] => rows[i].id = e /\ rows[i].man # curMan
    PROVE  pc' = [pc EXCEPT ![r] = "evictGet"] /\ target' = [target EXCEPT ![r] = e]
<1>1. PICK i \in DOMAIN rows : rows[i].q = asked[r]
  OBVIOUS
<1>2. {j \in DOMAIN rows : rows[j].q = asked[r]} = {i}
  BY <1>1 DEF Distinct
<1>3. i \in Nat
  BY <1>1
<1>4. Best(asked[r], rows) = {i}
  <2>1. \A j \in {i} : i <= j
    BY <1>3
  <2> QED BY <1>2, <2>1 DEF Best
<1> HIDE DEF Best
<1> QED BY <1>1, <1>4 DEF Consult

\* The matrix is loaded and nothing has come between it and the table.
Settled == loaded /\ Undisturbed

\* Each row has an entry, or a task that has deleted the entry and is about to drop the row or was
\* cancelled there; and a write about to append its row has an entry for it.
RowsInv ==
    Settled =>
        /\ Distinct(matrix)
        /\ \A x \in RowIds(matrix) :
             \/ x \in Stored
             \/ \E r \in Requests : /\ pc[r] \in {"evictDrop", "victimDrop", "cancelled"}
                                 /\ target[r] = x
        /\ \A r \in Requests : pc[r] = "append" => target[r] \in Stored

\* The entry was written under another manifest than the one loaded.
Stale(e) == pg[e].man # curMan

Evicting == {"evictGet", "evictRedis", "evictPg"}

\* The phases past the match of a request that uses the cache.
Matched == {"hitRead", "hitCommit", "evictGet", "evictRedis", "evictPg", "evictDrop",
            "generate", "sparse"} \cup WritePhases

\* A row has its entry's manifest; a stale entry is alone with its question, and a request that
\* asked it has nothing to do with it but to evict it, as it does with stale entries only.
StaleInv ==
    Settled =>
        /\ \A i \in DOMAIN matrix :
             matrix[i].id \in Stored => matrix[i].man = pg[matrix[i].id].man
        /\ \A e \in Stored, i \in DOMAIN matrix :
             Stale(e) /\ matrix[i].q = pg[e].q => matrix[i].id = e
        /\ \A r \in Requests :
             pc[r] \in Evicting /\ target[r] \in Stored => Stale(target[r])
        /\ \A r \in Requests \ skipped, e \in Stored :
             pc[r] \in Matched /\ pg[e].q = asked[r] /\ Stale(e)
               => pc[r] \in Evicting /\ target[r] = e

\* Recording a hit or replacing an answer stores no entry and removes none; an insert stores one.
LEMMA StoredAfter ==
    ASSUME TypeOK, TargetInv, AskedInv, NEW r \in Requests
    PROVE  /\ HitCommit(r) => \A e \in Ids : pg'[e] = None <=> pg[e] = None
           /\ WriteUpdate(r) => \A e \in Ids : pg'[e] = None <=> pg[e] = None
           /\ WriteInsert(r) => \A e \in Ids : pg'[e] = None <=> pg[e] = None /\ e # r
<1>1. /\ pg \in [Ids -> Entry \cup {None}] /\ clock \in Nat /\ curMan \in Nat /\ r \in Ids
      /\ None \notin Entry
  BY ConstantsAssumption DEF TypeOK, Ids
<1>2. ASSUME HitCommit(r) PROVE \A e \in Ids : pg'[e] = None <=> pg[e] = None
  <2>1. target[r] \in Ids
    BY <1>2 DEF HitCommit, Step, TargetInv, Targeting
  <2>2. CASE pg' = pg
    BY <2>2
  <2>3. CASE pg[target[r]] # None /\ pg' = [pg EXCEPT ![target[r]].hit = clock]
    <3>1. [pg[target[r]] EXCEPT !.hit = clock] \in Entry
      BY <1>1, <2>1, <2>3, EntryUpdate
    <3>2. pg' = [pg EXCEPT ![target[r]] = [pg[target[r]] EXCEPT !.hit = clock]]
      BY <2>3
    <3> QED BY <1>1, <2>1, <2>3, <3>1, <3>2
  <2> QED BY <1>2, <2>2, <2>3 DEF HitCommit
<1>3. ASSUME WriteUpdate(r) PROVE \A e \in Ids : pg'[e] = None <=> pg[e] = None
  <2>1. target[r] \in Ids
    BY <1>3 DEF WriteUpdate, Step, TargetInv, Targeting
  <2>2. CASE pg' = pg
    BY <2>2
  <2>3. CASE pg[target[r]] # None /\ pg' = [pg EXCEPT ![target[r]].ans = r,
  ![target[r]].man = curMan]
    <3>1. [pg[target[r]] EXCEPT !.ans = r, !.man = curMan] \in Entry
      BY <1>1, <2>1, <2>3, EntryUpdate
    <3>2. pg' = [pg EXCEPT ![target[r]] = [pg[target[r]] EXCEPT !.ans = r, !.man = curMan]]
      BY <1>1, <2>1, <2>3
    <3> QED BY <1>1, <2>1, <2>3, <3>1, <3>2
  <2> QED BY <1>3, <2>2, <2>3 DEF WriteUpdate
<1>4. ASSUME WriteInsert(r) PROVE \A e \in Ids : pg'[e] = None <=> pg[e] = None /\ e # r
  <2> DEFINE row == [q |-> asked[r], ans |-> r, man |-> curMan, hit |-> 0, born |-> clock]
  <2>1. asked[r] \in Questions /\ pg' = [pg EXCEPT ![r] = row]
    BY <1>4 DEF AskedInv, WriteInsert, Step
  <2>2. row \in Entry
    BY <1>1, <2>1 DEF Entry
  <2> HIDE DEF row
  <2> QED BY <1>1, <2>1, <2>2
<1> QED BY <1>2, <1>3, <1>4

\* A row goes only when its entry has, and comes only when its entry has.
LEMMA RowsStep ==
    ASSUME TypeOK, TargetInv, AskedInv, LockInv, LoadInv,
           CurrentInv, StaleInv, RowsInv, [Next]_vars
    PROVE  RowsInv'
<1> USE DEF RowsInv, Settled, Undisturbed, Stored, Step, Fault, RedisCall, taskVars, procVars,
storeVars,
             cliVars, envVars
<1>1. /\ pc \in [Requests -> Phases] /\ pg \in [Ids -> Entry \cup {None}]
      /\ faults \in Nat /\ ops \in Nat
      /\ target \in [Requests -> Ids \cup {None}] /\ matrix \in Seq(Row) /\ Requests \subseteq Ids
      /\ None \notin Entry /\ None \notin Ids
  BY ConstantsAssumption DEF TypeOK, Ids
<1>2. ASSUME NEW r \in Requests, Ask(r) PROVE RowsInv'
  BY <1>2, <1>1 DEF Ask
<1>3. ASSUME NEW r \in Requests, RedisHit(r) PROVE RowsInv'
  BY <1>3, <1>1 DEF RedisHit
<1>4. ASSUME NEW r \in Requests, RedisMiss(r) PROVE RowsInv'
  BY <1>4, <1>1 DEF RedisMiss
<1>5. ASSUME NEW r \in Requests, LoadBegin(r) PROVE RowsInv'
  BY <1>5, <1>1 DEF LoadBegin
<1>6. ASSUME NEW r \in Requests, LoadFinish(r) PROVE RowsInv'
  <2>1. RowIds(matrix') = Stored /\ Distinct(matrix') /\ UNCHANGED pg
    BY <1>6, LoadedMatrix, DistinctLoads DEF LoadFinish
  <2>2. \A t \in Requests : pc[t] # "append"
    BY <1>6 DEF LoadFinish, LoadInv, Targeting, Step
  <2> QED BY <1>1, <1>6, <2>1, <2>2, MatchLemma DEF LoadFinish
<1>7. ASSUME NEW r \in Requests, Match(r) PROVE RowsInv'
  BY <1>1, <1>7, MatchLemma DEF Match
<1>8. ASSUME NEW r \in Requests, HitRead(r) PROVE RowsInv'
  BY <1>8, <1>1 DEF HitRead
<1>9. ASSUME NEW r \in Requests, HitCommit(r) PROVE RowsInv'
  <2>1. \A e \in Ids : pg'[e] = None <=> pg[e] = None
    BY <1>9, StoredAfter
  <2> QED BY <1>1, <1>9, <2>1 DEF HitCommit
<1>10. ASSUME NEW r \in Requests, EvictGet(r) PROVE RowsInv'
  <2>1. Distinct(matrix) => Distinct(matrix')
    BY <1>1, <1>10, DistinctDrop DEF EvictGet
  <2>2. RowIds(matrix') \subseteq RowIds(matrix)
    BY <1>1, <1>10, MatrixIds DEF EvictGet
  <2> QED BY <1>1, <1>10, <2>1, <2>2 DEF EvictGet
<1>11. ASSUME NEW r \in Requests, EvictRedis(r) PROVE RowsInv'
  BY <1>11, <1>1 DEF EvictRedis
<1>12. ASSUME NEW r \in Requests, EvictPg(r) PROVE RowsInv'
  <2>1. Settled => \A t \in Requests :
                     pc[t] = "append" /\ target[t] \in Stored => target[t] # target[r]
    BY <1>12 DEF EvictPg, CurrentInv, StaleInv, Stale, Evicting
  <2> QED BY <1>1, <1>12, <2>1 DEF EvictPg, TargetInv, Targeting
<1>13. ASSUME NEW r \in Requests, EvictDrop(r) PROVE RowsInv'
  <2>1. Distinct(matrix) => Distinct(matrix') /\ target[r] \notin RowIds(matrix')
    BY <1>1, <1>13, DistinctDrop DEF EvictDrop
  <2>2. RowIds(matrix') \subseteq RowIds(matrix)
    BY <1>1, <1>13, MatrixIds DEF EvictDrop
  <2> QED BY <1>1, <1>13, <2>1, <2>2 DEF EvictDrop
<1>14. ASSUME NEW r \in Requests, LookupFault(r) PROVE RowsInv'
  BY <1>14, <1>1 DEF LookupFault
<1>15. ASSUME NEW r \in Requests, Generate(r) PROVE RowsInv'
  BY <1>15, <1>1 DEF Generate, Answered
<1>15a. ASSUME NEW r \in Requests, SparseRead(r) PROVE RowsInv'
  BY <1>15a, <1>1 DEF SparseRead
<1>15b. ASSUME NEW r \in Requests, SparseKeep(r) PROVE RowsInv'
  BY <1>15b, <1>1 DEF SparseKeep, Answered
<1>15c. ASSUME NEW r \in Requests, Cancel(r) PROVE RowsInv'
  <2>1. /\ pc' = [pc EXCEPT ![r] = "cancelled"] /\ pc[r] \in LookupPhases
        /\ \A t \in Requests : target'[t] = target[t] \/ t = r
        /\ pc[r] = "evictDrop" => target' = target
        /\ \A e \in Ids : pg'[e] = None <=> pg[e] = None
        /\ UNCHANGED <<matrix, loaded, faults, ops>>
    BY <1>15c, CancelFrame
  <2>2. \A t \in Requests : pc[t] \in {"evictDrop", "victimDrop", "cancelled"} =>
           pc'[t] \in {"evictDrop", "victimDrop", "cancelled"} /\ target'[t] = target[t]
    BY <1>1, <2>1 DEF LookupPhases
  <2>3. \A t \in Requests : pc'[t] = "append" => pc[t] = "append" /\ target'[t] = target[t]
    BY <1>1, <2>1
  <2> QED BY <1>1, <2>1, <2>2, <2>3 DEF TargetInv, Targeting
<1>16. ASSUME NEW r \in Requests, WriteLock(r) PROVE RowsInv'
  BY <1>16, <1>1 DEF WriteLock
<1>17. ASSUME NEW r \in Requests, WriteSelect(r) PROVE RowsInv'
  BY <1>17, <1>1 DEF WriteSelect
<1>18. ASSUME NEW r \in Requests, WriteVictim(r) PROVE RowsInv'
  BY <1>18, <1>1 DEF WriteVictim
<1>19. ASSUME NEW r \in Requests, VictimRedis(r) PROVE RowsInv'
  BY <1>19, <1>1 DEF VictimRedis
<1>20. ASSUME NEW r \in Requests, VictimPg(r) PROVE RowsInv'
  <2>1. \A t \in Requests : pc[t] # "append"
    BY <1>20 DEF VictimPg, LockInv, Locked, WritePhases
  <2> QED BY <1>1, <1>20, <2>1 DEF VictimPg, TargetInv, Targeting
<1>21. ASSUME NEW r \in Requests, VictimDrop(r) PROVE RowsInv'
  <2>1. Distinct(matrix) => Distinct(matrix') /\ target[r] \notin RowIds(matrix')
    BY <1>1, <1>21, DistinctDrop DEF VictimDrop
  <2>2. RowIds(matrix') \subseteq RowIds(matrix)
    BY <1>1, <1>21, MatrixIds DEF VictimDrop
  <2> QED BY <1>1, <1>21, <2>1, <2>2 DEF VictimDrop
<1>22. ASSUME NEW r \in Requests, WriteInsert(r) PROVE RowsInv'
  <2>1. \A e \in Ids : pg'[e] = None <=> pg[e] = None /\ e # r
    BY <1>22, StoredAfter
  <2> QED BY <1>1, <1>22, <2>1 DEF WriteInsert
<1>23. ASSUME NEW r \in Requests, WriteUpdate(r) PROVE RowsInv'
  <2>1. \A e \in Ids : pg'[e] = None <=> pg[e] = None
    BY <1>23, StoredAfter
  <2>2. pc'[r] \notin {"evictDrop", "victimDrop"}
    BY <1>1, <1>23 DEF WriteUpdate
  <2>3. pc'[r] = "append" => target[r] \in Stored
    BY <1>1, <1>23 DEF WriteUpdate, TargetInv, Targeting
  <2> QED BY <1>1, <1>23, <2>1, <2>2, <2>3 DEF WriteUpdate
<1>24. ASSUME NEW r \in Requests, WriteAppend(r) PROVE RowsInv'
  <2> DEFINE rest == DropRow(matrix, target[r])
             row == [id |-> target[r], q |-> asked[r], man |-> curMan]
  <2>1. pc[r] = "append" /\ matrix' = Append(rest, row)
    BY <1>24 DEF WriteAppend
  <2>2. row \in Row /\ rest \in Seq(Row) /\ row.id = target[r]
    BY <2>1, AppendedRow
  <2>3. /\ Distinct(matrix) => Distinct(rest) /\ row.id \notin RowIds(rest)
        /\ RowIds(rest) \subseteq RowIds(matrix)
    BY <1>1, <2>2, DistinctDrop, MatrixIds
  <2> HIDE DEF rest, row
  <2>4. /\ Distinct(matrix) => Distinct(matrix')
        /\ RowIds(matrix') \subseteq RowIds(matrix) \cup {target[r]}
    BY <2>1, <2>2, <2>3, DistinctAppend, MatrixIds
  <2> QED BY <1>1, <1>24, <2>1, <2>4 DEF WriteAppend
<1>25. ASSUME NEW r \in Requests, WriteRedis(r) PROVE RowsInv'
  BY <1>25, <1>1 DEF WriteRedis
<1>26. ASSUME NEW r \in Requests, WriteFault(r) PROVE RowsInv'
  BY <1>26, <1>1 DEF WriteFault
<1>27. CASE CliFlush
  BY <1>27, <1>1 DEF CliFlush
<1>28. CASE CliFlushRedis
  BY <1>28, <1>1 DEF CliFlushRedis
<1>29. CASE CliDeleteRedis
  BY <1>29, <1>1 DEF CliDeleteRedis
<1>30. CASE Reindex
  BY <1>30, <1>1 DEF Reindex
<1>31. CASE Restart
  BY <1>31, <1>1 DEF Restart
<1>32. ASSUME NEW q \in Questions, CliDelete(q) PROVE RowsInv'
  BY <1>32, <1>1 DEF CliDelete
<1>33. ASSUME NEW q \in Questions, RedisExpire(q) PROVE RowsInv'
  BY <1>33, <1>1 DEF RedisExpire
<1>34. CASE UNCHANGED vars
  BY <1>34, <1>1 DEF vars
<1> QED
  BY <1>2, <1>3, <1>4, <1>5, <1>6, <1>7, <1>8, <1>9, <1>10, <1>11, <1>12, <1>13, <1>14, <1>15,
     <1>15a, <1>15b, <1>15c,
     <1>16, <1>17, <1>18, <1>19, <1>20, <1>21, <1>22, <1>23, <1>24, <1>25, <1>26, <1>27, <1>28,
     <1>29, <1>30, <1>31, <1>32, <1>33, <1>34
  DEF Next, Task, Answer, Lookup, Write, Operator, Environment

\* A request that finds the row of a stale entry with its own question evicts that entry.
LEMMA StaleIsEvicted ==
    ASSUME TypeOK, NEW r \in Requests, NEW rows \in Seq(Row), Distinct(rows),
           Consult(r, rows, curMan), NEW e \in Stored, pg[e].q = asked[r], Stale(e),
           \E i \in DOMAIN rows : rows[i].id = e /\ rows[i].q = pg[e].q,
           \A i \in DOMAIN rows : rows[i].q = pg[e].q => rows[i].id = e,
           \A i \in DOMAIN rows : rows[i].id \in Stored => rows[i].man = pg[rows[i].id].man
    PROVE  pc' = [pc EXCEPT ![r] = "evictGet"] /\ target' = [target EXCEPT ![r] = e]
<1>1. \E i \in DOMAIN rows : rows[i].q = asked[r]
  OBVIOUS
<1>2. \A i \in DOMAIN rows : rows[i].q = asked[r] => rows[i].id = e /\ rows[i].man # curMan
  BY DEF Stale
<1> QED BY <1>1, <1>2, MatchesStale DEF Stored

\* A stale entry has its row in the matrix, under its question.
LEMMA StaleHasRow ==
    ASSUME EntriesAreVisible, CurrentInv, KeyInv, loaded, NEW e \in Stored, Stale(e)
    PROVE  \E i \in DOMAIN matrix : matrix[i].id = e /\ matrix[i].q = pg[e].q
<1>1. ~\E t \in Requests : pc[t] = "append" /\ target[t] = e
  BY DEF CurrentInv, Stale
<1>2. PICK i \in DOMAIN matrix : matrix[i].id = e
  BY <1>1 DEF EntriesAreVisible, RowIds
<1> QED BY <1>2 DEF KeyInv

\* Whoever finds a stale entry evicts it, and nobody makes one.
LEMMA StaleStep ==
    ASSUME TypeOK, TargetInv, AskedInv, LockInv, LoadInv, UnbornInv, KeyInv,
           EntriesAreVisible, CurrentInv, OneEntryPerQuestion, GenInv, RowsInv, StaleInv,
           [Next]_vars
    PROVE  StaleInv'
<1> USE DEF StaleInv, Settled, Undisturbed, Stored, Stale, Evicting, Matched, WritePhases, Step,
Fault,
             RedisCall, taskVars, procVars, storeVars, cliVars, envVars
<1>1. /\ pc \in [Requests -> Phases] /\ pg \in [Ids -> Entry \cup {None}]
      /\ faults \in Nat /\ ops \in Nat
      /\ target \in [Requests -> Ids \cup {None}] /\ matrix \in Seq(Row) /\ Requests \subseteq Ids
      /\ None \notin Entry /\ None \notin Ids /\ asked \in [Ids -> Questions \cup {None}]
  BY ConstantsAssumption DEF TypeOK, Ids
<1>2. ASSUME NEW r \in Requests, Ask(r) PROVE StaleInv'
  BY <1>2, <1>1 DEF Ask
<1>3. ASSUME NEW r \in Requests, RedisHit(r) PROVE StaleInv'
  BY <1>3, <1>1 DEF RedisHit
<1>4. ASSUME NEW r \in Requests, RedisMiss(r) PROVE StaleInv'
  BY <1>4, <1>1 DEF RedisMiss
<1>5. ASSUME NEW r \in Requests, LoadBegin(r) PROVE StaleInv'
  BY <1>5, <1>1 DEF LoadBegin
<1>6. ASSUME NEW r \in Requests, LoadFinish(r) PROVE StaleInv'
  <2> SUFFICES ASSUME Settled' PROVE StaleInv'
    OBVIOUS
  <2>0. r \notin skipped
    BY <1>6 DEF LoadFinish, GenInv
  <2>1. /\ \A t \in Requests \ skipped : pc[t] \notin Matched
        /\ \A t \in Requests : pc[t] \notin Evicting
        /\ skipped' = skipped
    BY <1>6 DEF LoadFinish, LoadInv, Targeting, GenInv
  <2>2. PICK rows \in Loads : matrix' = rows /\ Consult(r, rows, curMan)
    BY <1>6, <2>0, <2>1 DEF LoadFinish
  <2>3. /\ rows \in Seq(Row) /\ Distinct(rows) /\ RowIds(rows) = Stored
        /\ \A i \in DOMAIN rows : /\ rows[i].id \in Stored
                                  /\ rows[i].q = pg[rows[i].id].q
                                  /\ rows[i].man = pg[rows[i].id].man
    BY LoadsLemma, DistinctLoads
  <2>4. /\ UNCHANGED <<pg, asked, curMan>>
        /\ \A t \in Requests : t # r => pc'[t] = pc[t]
    BY <1>1, <1>6, MatchLemma DEF LoadFinish
  <2>5. pc'[r] = "evictGet" /\ target'[r] \in Stored => Stale(target'[r])
    BY <1>1, <2>2, <2>3, ConsultLemma
  <2>6. \A e \in Stored, i \in DOMAIN rows : rows[i].q = pg[e].q => rows[i].id = e
    BY <2>3 DEF OneEntryPerQuestion
  <2>7. \A e \in Stored : pg[e].q = asked[r] /\ Stale(e) => pc'[r] = "evictGet" /\ target'[r] = e
    <3> SUFFICES ASSUME NEW e \in Stored, pg[e].q = asked[r], Stale(e)
                 PROVE  pc'[r] = "evictGet" /\ target'[r] = e
      OBVIOUS
    <3>1. \E i \in DOMAIN rows : rows[i].id = e /\ rows[i].q = pg[e].q
      BY <2>3 DEF RowIds
    <3>2. pc' = [pc EXCEPT ![r] = "evictGet"] /\ target' = [target EXCEPT ![r] = e]
      BY <2>2, <2>3, <2>6, <3>1, StaleIsEvicted
    <3> QED BY <1>1, <3>2
  <2>8. pc'[r] \in {"generate", "hitRead", "evictGet"}
    BY <1>1, <2>2, <2>3, ConsultLemma
  <2> QED BY <2>1, <2>2, <2>3, <2>4, <2>5, <2>6, <2>7, <2>8
<1>7. ASSUME NEW r \in Requests, Match(r) PROVE StaleInv'
  <2> SUFFICES ASSUME Settled' PROVE StaleInv'
    OBVIOUS
  <2>1. Settled /\ Consult(r, matrix, curMan) /\ Distinct(matrix)
    BY <1>7 DEF Match, RowsInv
  <2>2. /\ UNCHANGED <<pg, asked, curMan, matrix, skipped>>
        /\ \A t \in Requests : t # r => pc'[t] = pc[t] /\ target'[t] = target[t]
    BY <1>1, <1>7, MatchLemma DEF Match
  <2>3. pc'[r] = "evictGet" /\ target'[r] \in Stored => Stale(target'[r])
    BY <1>1, <2>1, ConsultLemma
  <2>4. \A e \in Stored : pg[e].q = asked[r] /\ Stale(e) => pc'[r] = "evictGet" /\ target'[r] = e
    <3> SUFFICES ASSUME NEW e \in Stored, pg[e].q = asked[r], Stale(e)
                 PROVE  pc'[r] = "evictGet" /\ target'[r] = e
      OBVIOUS
    <3>1. \E i \in DOMAIN matrix : matrix[i].id = e /\ matrix[i].q = pg[e].q
      BY <2>1, StaleHasRow
    <3>2. pc' = [pc EXCEPT ![r] = "evictGet"] /\ target' = [target EXCEPT ![r] = e]
      BY <1>1, <2>1, <3>1, StaleIsEvicted
    <3> QED BY <1>1, <3>2
  <2>5. pc'[r] \in {"generate", "hitRead", "evictGet"}
    BY <1>1, <2>1, ConsultLemma
  <2> QED BY <2>1, <2>2, <2>3, <2>4, <2>5
<1>8. ASSUME NEW r \in Requests, HitRead(r) PROVE StaleInv'
  BY <1>8, <1>1 DEF HitRead
<1>9. ASSUME NEW r \in Requests, HitCommit(r) PROVE StaleInv'
  <2>1. \A e \in Ids : pg'[e] # None =>
          pg[e] # None /\ pg'[e].q = pg[e].q /\ pg'[e].man = pg[e].man
    <3>1. target[r] \in Ids
      BY <1>9 DEF HitCommit, TargetInv, Targeting
    <3> QED BY <1>1, <1>9, <3>1 DEF HitCommit, Entry
  <2>2. \A e \in Ids : pg'[e] = None <=> pg[e] = None
    BY <1>9, StoredAfter
  <2> QED BY <1>1, <1>9, <2>1, <2>2 DEF HitCommit
<1>10. ASSUME NEW r \in Requests, EvictGet(r) PROVE StaleInv'
  <2>1. \A i \in DOMAIN matrix' : \E j \in DOMAIN matrix : matrix'[i] = matrix[j]
    BY <1>1, <1>10, DropRowLemma DEF EvictGet
  <2> QED BY <1>1, <1>10, <2>1 DEF EvictGet
<1>11. ASSUME NEW r \in Requests, EvictRedis(r) PROVE StaleInv'
  BY <1>11, <1>1 DEF EvictRedis
<1>12. ASSUME NEW r \in Requests, EvictPg(r) PROVE StaleInv'
  BY <1>12, <1>1 DEF EvictPg
<1>13. ASSUME NEW r \in Requests, EvictDrop(r) PROVE StaleInv'
  <2>1. \A i \in DOMAIN matrix' : \E j \in DOMAIN matrix : matrix'[i] = matrix[j]
    BY <1>1, <1>13, DropRowLemma DEF EvictDrop
  <2> QED BY <1>1, <1>13, <2>1 DEF EvictDrop
<1>14. ASSUME NEW r \in Requests, LookupFault(r) PROVE StaleInv'
  BY <1>14, <1>1 DEF LookupFault
<1>15. ASSUME NEW r \in Requests, Generate(r) PROVE StaleInv'
  BY <1>15, <1>1 DEF Generate, Answered
<1>15a. ASSUME NEW r \in Requests, SparseRead(r) PROVE StaleInv'
  BY <1>15a, <1>1 DEF SparseRead
<1>15b. ASSUME NEW r \in Requests, SparseKeep(r) PROVE StaleInv'
  BY <1>15b, <1>1 DEF SparseKeep, Answered
<1>15c. ASSUME NEW r \in Requests, Cancel(r) PROVE StaleInv'
  <2>1. /\ pc' = [pc EXCEPT ![r] = "cancelled"]
        /\ \A t \in Requests : target'[t] = target[t] \/ t = r
        /\ \A e \in Ids : pg'[e] = None <=> pg[e] = None
        /\ \A e \in Ids : pg[e] # None => pg'[e].q = pg[e].q /\ pg'[e].man = pg[e].man
        /\ UNCHANGED <<asked, matrix, loaded, curMan, skipped, faults, ops>>
    BY <1>15c, CancelFrame
  <2>2. \A i \in DOMAIN matrix : matrix[i].id \in Ids
    BY <1>1, RowsNameIds
  <2> QED BY <1>1, <2>1, <2>2 DEF TargetInv, Targeting
<1>16. ASSUME NEW r \in Requests, WriteLock(r) PROVE StaleInv'
  BY <1>16, <1>1 DEF WriteLock
<1>17. ASSUME NEW r \in Requests, WriteSelect(r) PROVE StaleInv'
  BY <1>17, <1>1 DEF WriteSelect
<1>18. ASSUME NEW r \in Requests, WriteVictim(r) PROVE StaleInv'
  BY <1>18, <1>1 DEF WriteVictim
<1>19. ASSUME NEW r \in Requests, VictimRedis(r) PROVE StaleInv'
  BY <1>19, <1>1 DEF VictimRedis
<1>20. ASSUME NEW r \in Requests, VictimPg(r) PROVE StaleInv'
  BY <1>20, <1>1 DEF VictimPg
<1>21. ASSUME NEW r \in Requests, VictimDrop(r) PROVE StaleInv'
  <2>1. \A i \in DOMAIN matrix' : \E j \in DOMAIN matrix : matrix'[i] = matrix[j]
    BY <1>1, <1>21, DropRowLemma DEF VictimDrop
  <2> QED BY <1>1, <1>21, <2>1 DEF VictimDrop
<1>22. ASSUME NEW r \in Requests, WriteInsert(r) PROVE StaleInv'
  <2>1. /\ \A e \in Ids : e # r => pg'[e] = pg[e]
        /\ pg'[r].man = curMan
    BY <1>1, <1>22 DEF WriteInsert
  <2>2. r \notin RowIds(matrix) /\ \A t \in Requests : target[t] # r
    BY <1>22 DEF WriteInsert, UnbornInv, Written
  <2>3. \A i \in DOMAIN matrix : matrix[i].id # r
    BY <2>2 DEF RowIds
  <2> QED BY <1>1, <1>22, <2>1, <2>2, <2>3 DEF WriteInsert
<1>23. ASSUME NEW r \in Requests, WriteUpdate(r) PROVE StaleInv'
  <2> SUFFICES ASSUME Settled' PROVE StaleInv'
    OBVIOUS
  <2>1. Settled /\ pc[r] = "update" /\ target[r] \in Ids
    BY <1>23 DEF WriteUpdate, TargetInv, Targeting
  <2>0. r \notin skipped
    BY <2>1 DEF GenInv
  <2>2. pg[target[r]] # None => pg[target[r]].man = curMan
    BY <2>0, <2>1 DEF KeyInv
  <2>3. \A e \in Ids : pg'[e] # None =>
          pg[e] # None /\ pg'[e].q = pg[e].q /\ pg'[e].man = pg[e].man
    <3>1. \A e \in Ids : e # target[r] => pg'[e] = pg[e]
      BY <1>1, <1>23, <2>1 DEF WriteUpdate
    <3>2. pg'[target[r]] # None =>
            /\ pg[target[r]] # None /\ pg'[target[r]].q = pg[target[r]].q
            /\ pg'[target[r]].man = curMan
      BY <1>1, <1>23, <2>1 DEF WriteUpdate, Entry
    <3> QED BY <2>1, <2>2, <3>1, <3>2
  <2>4. \A e \in Ids : pg'[e] = None <=> pg[e] = None
    BY <1>23, StoredAfter
  <2> QED BY <1>1, <1>23, <2>1, <2>3, <2>4 DEF WriteUpdate
<1>24. ASSUME NEW r \in Requests, WriteAppend(r) PROVE StaleInv'
  <2> SUFFICES ASSUME Settled' PROVE StaleInv'
    OBVIOUS
  <2> DEFINE rest == DropRow(matrix, target[r])
             row == [id |-> target[r], q |-> asked[r], man |-> curMan]
  <2>1. Settled /\ pc[r] = "append" /\ matrix' = Append(rest, row)
    BY <1>24 DEF WriteAppend
  <2>2. row \in Row /\ rest \in Seq(Row)
    BY <2>1, AppendedRow
  <2>3. \A i \in DOMAIN rest : \E j \in DOMAIN matrix : rest[i] = matrix[j]
    BY <1>1, DropRowLemma
  <2>4. row.id = target[r] /\ row.q = asked[r] /\ row.man = curMan
    OBVIOUS
  <2> HIDE DEF rest, row
  <2>5. \A i \in DOMAIN matrix' :
          matrix'[i] = row \/ \E j \in DOMAIN matrix : matrix'[i] = matrix[j]
    <3>1. \A i \in DOMAIN Append(rest, row) : Append(rest, row)[i] = row \/ i \in DOMAIN rest
      BY <2>2
    <3>2. \A i \in DOMAIN rest : Append(rest, row)[i] = rest[i]
      BY <2>2
    <3> QED BY <2>1, <2>3, <3>1, <3>2
  <2>6. target[r] \in Stored => pg[target[r]].man = curMan
    BY <2>1 DEF CurrentInv
  <2>0. r \notin skipped
    BY <2>1 DEF GenInv
  <2>7. \A e \in Stored : Stale(e) => pg[e].q # asked[r]
    BY <2>0, <2>1
  <2>8. UNCHANGED <<pg, asked, target, curMan, skipped>> /\ pc' = [pc EXCEPT ![r] = "wredis"]
    BY <1>24 DEF WriteAppend
  <2> QED BY <1>1, <2>0, <2>1, <2>4, <2>5, <2>6, <2>7, <2>8
<1>25. ASSUME NEW r \in Requests, WriteRedis(r) PROVE StaleInv'
  BY <1>25, <1>1 DEF WriteRedis
<1>26. ASSUME NEW r \in Requests, WriteFault(r) PROVE StaleInv'
  BY <1>26, <1>1 DEF WriteFault
<1>27. CASE CliFlush
  BY <1>27, <1>1 DEF CliFlush
<1>28. CASE CliFlushRedis
  BY <1>28, <1>1 DEF CliFlushRedis
<1>29. CASE CliDeleteRedis
  BY <1>29, <1>1 DEF CliDeleteRedis
<1>30. CASE Reindex
  BY <1>30, <1>1 DEF Reindex
<1>31. CASE Restart
  BY <1>31, <1>1 DEF Restart
<1>32. ASSUME NEW q \in Questions, CliDelete(q) PROVE StaleInv'
  BY <1>32, <1>1 DEF CliDelete
<1>33. ASSUME NEW q \in Questions, RedisExpire(q) PROVE StaleInv'
  BY <1>33, <1>1 DEF RedisExpire
<1>34. CASE UNCHANGED vars
  BY <1>34, <1>1 DEF vars
<1> QED
  BY <1>2, <1>3, <1>4, <1>5, <1>6, <1>7, <1>8, <1>9, <1>10, <1>11, <1>12, <1>13, <1>14, <1>15,
     <1>15a, <1>15b, <1>15c,
     <1>16, <1>17, <1>18, <1>19, <1>20, <1>21, <1>22, <1>23, <1>24, <1>25, <1>26, <1>27, <1>28,
     <1>29, <1>30, <1>31, <1>32, <1>33, <1>34
  DEF Next, Task, Answer, Lookup, Write, Operator, Environment

-----------------------------------------------------------------------------
(* The second inductive invariant, on top of the first *)

JInv == WrittenInv /\ PurgeInv /\ GenInv /\ TagsAreHonest /\ RowsInv /\ StaleInv

\* It holds initially: nothing is loaded, deleted or generated yet.
LEMMA InitJInv == Init => JInv
<1> SUFFICES ASSUME Init PROVE JInv
  OBVIOUS
<1>1. PICK kept \in SUBSET Seeds :
        pg = [e \in Ids |-> IF e \in kept
                THEN [q |-> asked[e], ans |-> e, man |-> gen[e], hit |-> 0, born |-> 0]
                ELSE None]
  BY DEF Init
<1>2. \A e \in Stored : e \in Seeds /\ pg[e].ans = e /\ pg[e].man = gen[e]
  BY <1>1 DEF Stored, Ids
<1>3. WrittenInv /\ PurgeInv
  <2>1. WrittenInv
    <3>1. Requests \cap Seeds = {}
      BY ConstantsAssumption
    <3>2. QED
      BY <1>2, <3>1 DEF WrittenInv
  <2>2. PurgeInv
    BY DEF Init, PurgeInv
  <2>3. QED
    BY <2>1, <2>2
<1>4. GenInv
  BY DEF Init, GenInv, WritePhases
<1>5. TagsAreHonest
  <2>1. \A e \in Stored : pg[e].man <= gen[pg[e].ans]
    <3> SUFFICES ASSUME NEW e \in Stored PROVE pg[e].man <= gen[pg[e].ans]
      OBVIOUS
    <3>1. gen[e] \in {0, 1}
      BY <1>2, ConstantsAssumption DEF Init
    <3> QED BY <1>2, <3>1
  <2> QED BY <2>1 DEF TagsAreHonest
<1>6. RowsInv /\ StaleInv
  BY DEF Init, RowsInv, StaleInv, Settled
<1> QED BY <1>3, <1>4, <1>5, <1>6 DEF JInv

\* Every step keeps it.
LEMMA StepJInv == IInv /\ JInv /\ [Next]_vars => JInv'
<1> SUFFICES ASSUME IInv, JInv, [Next]_vars PROVE JInv'
  OBVIOUS
<1> USE DEF IInv, JInv
<1>1. WrittenInv' /\ PurgeInv'
  BY PurgeStep
<1>2. GenInv' /\ TagsAreHonest'
  BY GenStep, HonestStep
<1>3. RowsInv'
  BY RowsStep
<1>4. StaleInv'
  BY StaleStep
<1> QED BY <1>1, <1>2, <1>3, <1>4

\* Hence it holds in every reachable state.
LEMMA SecondInvariance == Spec => []JInv
BY InitJInv, StepJInv, Invariance, PTL DEF Spec

\* An answer the operator deleted never returns to the table, not even through a write that
\* was in flight when the entry was deleted (caching/run.py `_flush`, `_delete`).
THEOREM PurgedStaysOut == Spec => []PurgedStaysOutOfTable
<1>1. JInv => PurgedStaysOutOfTable
  BY DEF JInv, PurgeInv, PurgedStaysOutOfTable
<1> QED BY <1>1, SecondInvariance, PTL

\* As long as no call fails and every request uses the cache, no entry claims a newer index than
\* the oldest one its answer came from, whenever the index is rebuilt, whoever loads the manifest
\* (store.py `_ensure_loaded`) and whoever loads BM25 (hybrid.py `_load_bm25_cached`).
THEOREM TagsHonest == Spec => []TagsAreHonest
<1>1. JInv => TagsAreHonest
  BY DEF JInv
<1> QED BY <1>1, SecondInvariance, PTL

\* Between changes the matrix has one row for each entry, and no other but those of evictions
\* cancelled between their commit and their drop, for any number of concurrent lookups,
\* evictions and writes, as long as no call fails and no operator command runs.
THEOREM MatrixFollowsTable == Spec => []NoDrift
<1>1. IInv /\ JInv => NoDrift
  <2> SUFFICES ASSUME IInv, JInv, AtRest, Undisturbed
               PROVE  /\ Stored \subseteq RowIds(matrix)
                      /\ RowIds(matrix) \ Stored \subseteq HalfEvicted
                      /\ Len(matrix) = Cardinality(RowIds(matrix))
    BY DEF NoDrift
  <2>1. Settled /\ \A r \in Requests : pc[r] \notin {"evictDrop", "victimDrop", "append"}
    BY DEF AtRest, MidChange, Settled
  <2>2. Distinct(matrix) /\ RowIds(matrix) \ Stored \subseteq HalfEvicted
    BY <2>1 DEF JInv, RowsInv, HalfEvicted
  <2>3. Stored \subseteq RowIds(matrix)
    BY <2>1 DEF IInv, EntriesAreVisible, Settled
  <2>4. matrix \in Seq(Row)
    BY DEF IInv, TypeOK
  <2>5. Len(matrix) = Cardinality(RowIds(matrix))
    BY <2>2, <2>4, DistinctCount
  <2> QED BY <2>2, <2>3, <2>5
<1> QED BY <1>1, Invariance, SecondInvariance, PTL

-----------------------------------------------------------------------------
(* The cache implements AnswerCache *)

\* Until its lookup is over, a request has returned nothing.
UnservedInv == \A r \in Requests : pc[r] \in {"idle"} \cup LookupPhases => served[r] = None

\* Only the end of a lookup returns an answer.
LEMMA UnservedStep ==
    ASSUME TypeOK, UnservedInv, [Next]_vars
    PROVE  UnservedInv'
<1> USE DEF UnservedInv, LookupPhases, WritePhases, Step, Fault, taskVars,
             procVars, storeVars, cliVars, envVars
<1>1. /\ pc \in [Requests -> Phases] /\ served \in [Requests -> Ids \cup {None}]
  BY DEF TypeOK
<1>2. ASSUME NEW r \in Requests, Ask(r) PROVE UnservedInv'
  BY <1>2, <1>1 DEF Ask
<1>3. ASSUME NEW r \in Requests, RedisHit(r) PROVE UnservedInv'
  BY <1>3, <1>1 DEF RedisHit
<1>4. ASSUME NEW r \in Requests, RedisMiss(r) PROVE UnservedInv'
  BY <1>4, <1>1 DEF RedisMiss
<1>5. ASSUME NEW r \in Requests, LoadBegin(r) PROVE UnservedInv'
  BY <1>5, <1>1 DEF LoadBegin
<1>6. ASSUME NEW r \in Requests, LoadFinish(r) PROVE UnservedInv'
  BY <1>6, <1>1, MatchLemma DEF LoadFinish
<1>7. ASSUME NEW r \in Requests, Match(r) PROVE UnservedInv'
  BY <1>7, <1>1, MatchLemma DEF Match
<1>8. ASSUME NEW r \in Requests, HitRead(r) PROVE UnservedInv'
  BY <1>8, <1>1 DEF HitRead
<1>9. ASSUME NEW r \in Requests, HitCommit(r) PROVE UnservedInv'
  BY <1>9, <1>1 DEF HitCommit
<1>10. ASSUME NEW r \in Requests, EvictGet(r) PROVE UnservedInv'
  BY <1>10, <1>1 DEF EvictGet
<1>11. ASSUME NEW r \in Requests, EvictRedis(r) PROVE UnservedInv'
  BY <1>11, <1>1 DEF EvictRedis
<1>12. ASSUME NEW r \in Requests, EvictPg(r) PROVE UnservedInv'
  BY <1>12, <1>1 DEF EvictPg
<1>13. ASSUME NEW r \in Requests, EvictDrop(r) PROVE UnservedInv'
  BY <1>13, <1>1 DEF EvictDrop
<1>14. ASSUME NEW r \in Requests, LookupFault(r) PROVE UnservedInv'
  BY <1>14, <1>1 DEF LookupFault
<1>15. ASSUME NEW r \in Requests, Generate(r) PROVE UnservedInv'
  BY <1>15, <1>1 DEF Generate, Answered
<1>15a. ASSUME NEW r \in Requests, SparseRead(r) PROVE UnservedInv'
  BY <1>15a, <1>1 DEF SparseRead
<1>15b. ASSUME NEW r \in Requests, SparseKeep(r) PROVE UnservedInv'
  BY <1>15b, <1>1 DEF SparseKeep, Answered
<1>15c. ASSUME NEW r \in Requests, Cancel(r) PROVE UnservedInv'
  BY <1>15c, <1>1 DEF Cancel
<1>16. ASSUME NEW r \in Requests, WriteLock(r) PROVE UnservedInv'
  BY <1>16, <1>1 DEF WriteLock
<1>17. ASSUME NEW r \in Requests, WriteSelect(r) PROVE UnservedInv'
  BY <1>17, <1>1 DEF WriteSelect
<1>18. ASSUME NEW r \in Requests, WriteVictim(r) PROVE UnservedInv'
  BY <1>18, <1>1 DEF WriteVictim
<1>19. ASSUME NEW r \in Requests, VictimRedis(r) PROVE UnservedInv'
  BY <1>19, <1>1 DEF VictimRedis
<1>20. ASSUME NEW r \in Requests, VictimPg(r) PROVE UnservedInv'
  BY <1>20, <1>1 DEF VictimPg
<1>21. ASSUME NEW r \in Requests, VictimDrop(r) PROVE UnservedInv'
  BY <1>21, <1>1 DEF VictimDrop
<1>22. ASSUME NEW r \in Requests, WriteInsert(r) PROVE UnservedInv'
  BY <1>22, <1>1 DEF WriteInsert
<1>23. ASSUME NEW r \in Requests, WriteUpdate(r) PROVE UnservedInv'
  BY <1>23, <1>1 DEF WriteUpdate
<1>24. ASSUME NEW r \in Requests, WriteAppend(r) PROVE UnservedInv'
  BY <1>24, <1>1 DEF WriteAppend
<1>25. ASSUME NEW r \in Requests, WriteRedis(r) PROVE UnservedInv'
  BY <1>25, <1>1 DEF WriteRedis
<1>26. ASSUME NEW r \in Requests, WriteFault(r) PROVE UnservedInv'
  BY <1>26, <1>1 DEF WriteFault
<1>27. CASE CliFlush
  BY <1>27, <1>1 DEF CliFlush
<1>28. CASE CliFlushRedis
  BY <1>28, <1>1 DEF CliFlushRedis
<1>29. CASE CliDeleteRedis
  BY <1>29, <1>1 DEF CliDeleteRedis
<1>30. CASE Reindex
  BY <1>30, <1>1 DEF Reindex
<1>31. CASE Restart
  BY <1>31, <1>1 DEF Restart
<1>32. ASSUME NEW q \in Questions, CliDelete(q) PROVE UnservedInv'
  BY <1>32, <1>1 DEF CliDelete
<1>33. ASSUME NEW q \in Questions, RedisExpire(q) PROVE UnservedInv'
  BY <1>33, <1>1 DEF RedisExpire
<1>34. CASE UNCHANGED vars
  BY <1>34, <1>1 DEF vars
<1> QED
  BY <1>2, <1>3, <1>4, <1>5, <1>6, <1>7, <1>8, <1>9, <1>10, <1>11, <1>12, <1>13, <1>14, <1>15,
     <1>15a, <1>15b, <1>15c,
     <1>16, <1>17, <1>18, <1>19, <1>20, <1>21, <1>22, <1>23, <1>24, <1>25, <1>26, <1>27, <1>28,
     <1>29, <1>30, <1>31, <1>32, <1>33, <1>34
  DEF Next, Task, Answer, Lookup, Write, Operator, Environment

\* What is available: the answer of every entry, Redis value, row read and write under way.
LEMMA AvailableFacts ==
    /\ \A e \in Ids : pg[e] # None => pg[e].ans \in Available
    /\ \A q \in Questions : redis[q] # None => redis[q] \in Available
    /\ \A t \in Requests : copy[t] # None => copy[t].ans \in Available
    /\ \A t \in Requests : pc[t] \in WritePhases => t \in Available
BY DEF Available, Stored

\* Nothing becomes available that no store, row read or writer held before.
LEMMA NothingNew ==
    ASSUME \A e \in Ids : pg'[e] # None => pg'[e].ans \in Available,
           \A q \in Questions : redis'[q] # None => redis'[q] \in Available,
           \A t \in Requests : copy'[t] # None => copy'[t].ans \in Available,
           \A t \in Requests : pc'[t] \in WritePhases => t \in Available
    PROVE  Available' \subseteq Available
<1> DEFINE old == Available
<1> HIDE DEF old
<1>1. /\ \A e \in Ids : pg'[e] # None => pg'[e].ans \in old
      /\ \A q \in Questions : redis'[q] # None => redis'[q] \in old
      /\ \A t \in Requests : copy'[t] # None => copy'[t].ans \in old
      /\ \A t \in Requests : pc'[t] \in WritePhases => t \in old
  BY DEF old
<1>2. Available' \subseteq old
  BY <1>1 DEF Available, Stored
<1> QED BY <1>2 DEF old

\* The answer of this request is complete.
Completes(r) == Generate(r) \/ SparseKeep(r)

\* In this step nothing becomes available, unless a request completes its answer.
Dwindles == Available' \subseteq Available \/ \E r \in Requests : Completes(r)

\* Apart from an answer that is generated, the stores only pass on what there was.
LEMMA DwindleStep ==
    ASSUME TypeOK, TargetInv, [Next]_vars
    PROVE  Dwindles
<1> USE DEF Dwindles, WritePhases, Step, Fault, RedisCall, taskVars,
             procVars, storeVars, cliVars, envVars
<1>1. /\ pc \in [Requests -> Phases] /\ pg \in [Ids -> Entry \cup {None}]
      /\ target \in [Requests -> Ids \cup {None}] /\ copy \in [Requests -> Entry \cup {None}]
      /\ redis \in [Questions -> Ids \cup {None}] /\ served \in [Requests -> Ids \cup {None}]
      /\ Requests \subseteq Ids /\ None \notin Entry /\ None \notin Ids
  BY ConstantsAssumption DEF TypeOK, Ids
<1>2. ASSUME NEW r \in Requests, Ask(r) PROVE Available' \subseteq Available
  <2>1. /\ \A e \in Ids : pg'[e] # None => pg[e] # None /\ pg'[e].ans = pg[e].ans
        /\ \A k \in Questions : redis'[k] # None => redis'[k] = redis[k]
        /\ \A t \in Requests : copy'[t] # None => copy'[t] = copy[t]
        /\ \A t \in Requests : pc'[t] \in WritePhases => pc[t] \in WritePhases
    BY <1>2, <1>1 DEF Ask
  <2> QED BY <2>1, AvailableFacts, NothingNew
<1>3. ASSUME NEW r \in Requests, RedisHit(r) PROVE Available' \subseteq Available
  <2>1. /\ \A e \in Ids : pg'[e] # None => pg[e] # None /\ pg'[e].ans = pg[e].ans
        /\ \A k \in Questions : redis'[k] # None => redis'[k] = redis[k]
        /\ \A t \in Requests : copy'[t] # None => copy'[t] = copy[t]
        /\ \A t \in Requests : pc'[t] \in WritePhases => pc[t] \in WritePhases
    BY <1>3, <1>1 DEF RedisHit
  <2> QED BY <2>1, AvailableFacts, NothingNew
<1>4. ASSUME NEW r \in Requests, RedisMiss(r) PROVE Available' \subseteq Available
  <2>1. /\ \A e \in Ids : pg'[e] # None => pg[e] # None /\ pg'[e].ans = pg[e].ans
        /\ \A k \in Questions : redis'[k] # None => redis'[k] = redis[k]
        /\ \A t \in Requests : copy'[t] # None => copy'[t] = copy[t]
        /\ \A t \in Requests : pc'[t] \in WritePhases => pc[t] \in WritePhases
    BY <1>4, <1>1 DEF RedisMiss
  <2> QED BY <2>1, AvailableFacts, NothingNew
<1>5. ASSUME NEW r \in Requests, LoadBegin(r) PROVE Available' \subseteq Available
  <2>1. /\ \A e \in Ids : pg'[e] # None => pg[e] # None /\ pg'[e].ans = pg[e].ans
        /\ \A k \in Questions : redis'[k] # None => redis'[k] = redis[k]
        /\ \A t \in Requests : copy'[t] # None => copy'[t] = copy[t]
        /\ \A t \in Requests : pc'[t] \in WritePhases => pc[t] \in WritePhases
    BY <1>5, <1>1 DEF LoadBegin
  <2> QED BY <2>1, AvailableFacts, NothingNew
<1>6. ASSUME NEW r \in Requests, LoadFinish(r) PROVE Available' \subseteq Available
  <2>1. /\ \A e \in Ids : pg'[e] # None => pg[e] # None /\ pg'[e].ans = pg[e].ans
        /\ \A q \in Questions : redis'[q] # None => redis'[q] = redis[q]
        /\ \A t \in Requests : copy'[t] # None => copy'[t] = copy[t]
        /\ \A t \in Requests : pc'[t] \in WritePhases => pc[t] \in WritePhases
    BY <1>6, <1>1, MatchLemma DEF LoadFinish
  <2> QED BY <2>1, AvailableFacts, NothingNew
<1>7. ASSUME NEW r \in Requests, Match(r) PROVE Available' \subseteq Available
  <2>1. /\ \A e \in Ids : pg'[e] # None => pg[e] # None /\ pg'[e].ans = pg[e].ans
        /\ \A q \in Questions : redis'[q] # None => redis'[q] = redis[q]
        /\ \A t \in Requests : copy'[t] # None => copy'[t] = copy[t]
        /\ \A t \in Requests : pc'[t] \in WritePhases => pc[t] \in WritePhases
    BY <1>7, <1>1, MatchLemma DEF Match
  <2> QED BY <2>1, AvailableFacts, NothingNew
<1>8. ASSUME NEW r \in Requests, HitRead(r) PROVE Available' \subseteq Available
  <2>1. /\ \A e \in Ids : pg'[e] # None => pg[e] # None /\ pg'[e].ans = pg[e].ans
        /\ \A q \in Questions : redis'[q] # None => redis'[q] = redis[q]
        /\ \A t \in Requests : copy'[t] # None =>
                copy'[t] = copy[t] \/
                (target[t] \in Ids /\ copy'[t] = pg[target[t]] /\ pg[target[t]] # None)
        /\ \A t \in Requests : pc'[t] \in WritePhases => pc[t] \in WritePhases
    BY <1>8, <1>1 DEF HitRead, TargetInv, Targeting
  <2> QED BY <2>1, AvailableFacts, NothingNew
<1>9. ASSUME NEW r \in Requests, HitCommit(r) PROVE Available' \subseteq Available
  <2>1. /\ \A e \in Ids : pg'[e] # None => pg[e] # None /\ pg'[e].ans = pg[e].ans
        /\ \A q \in Questions : redis'[q] # None => redis'[q] = redis[q]
        /\ \A t \in Requests : copy'[t] # None => copy'[t] = copy[t]
        /\ \A t \in Requests : pc'[t] \in WritePhases => pc[t] \in WritePhases
    BY <1>9, <1>1 DEF HitCommit, TargetInv, Targeting, Entry
  <2> QED BY <2>1, AvailableFacts, NothingNew
<1>10. ASSUME NEW r \in Requests, EvictGet(r) PROVE Available' \subseteq Available
  <2>1. /\ \A e \in Ids : pg'[e] # None => pg[e] # None /\ pg'[e].ans = pg[e].ans
        /\ \A k \in Questions : redis'[k] # None => redis'[k] = redis[k]
        /\ \A t \in Requests : copy'[t] # None => copy'[t] = copy[t]
        /\ \A t \in Requests : pc'[t] \in WritePhases => pc[t] \in WritePhases
    BY <1>10, <1>1 DEF EvictGet
  <2> QED BY <2>1, AvailableFacts, NothingNew
<1>11. ASSUME NEW r \in Requests, EvictRedis(r) PROVE Available' \subseteq Available
  <2>1. /\ \A e \in Ids : pg'[e] # None => pg[e] # None /\ pg'[e].ans = pg[e].ans
        /\ \A k \in Questions : redis'[k] # None => redis'[k] = redis[k]
        /\ \A t \in Requests : copy'[t] # None => copy'[t] = copy[t]
        /\ \A t \in Requests : pc'[t] \in WritePhases => pc[t] \in WritePhases
    BY <1>11, <1>1 DEF EvictRedis
  <2> QED BY <2>1, AvailableFacts, NothingNew
<1>12. ASSUME NEW r \in Requests, EvictPg(r) PROVE Available' \subseteq Available
  <2>1. /\ \A e \in Ids : pg'[e] # None => pg[e] # None /\ pg'[e].ans = pg[e].ans
        /\ \A k \in Questions : redis'[k] # None => redis'[k] = redis[k]
        /\ \A t \in Requests : copy'[t] # None => copy'[t] = copy[t]
        /\ \A t \in Requests : pc'[t] \in WritePhases => pc[t] \in WritePhases
    BY <1>12, <1>1 DEF EvictPg
  <2> QED BY <2>1, AvailableFacts, NothingNew
<1>13. ASSUME NEW r \in Requests, EvictDrop(r) PROVE Available' \subseteq Available
  <2>1. /\ \A e \in Ids : pg'[e] # None => pg[e] # None /\ pg'[e].ans = pg[e].ans
        /\ \A k \in Questions : redis'[k] # None => redis'[k] = redis[k]
        /\ \A t \in Requests : copy'[t] # None => copy'[t] = copy[t]
        /\ \A t \in Requests : pc'[t] \in WritePhases => pc[t] \in WritePhases
    BY <1>13, <1>1 DEF EvictDrop
  <2> QED BY <2>1, AvailableFacts, NothingNew
<1>14. ASSUME NEW r \in Requests, LookupFault(r) PROVE Available' \subseteq Available
  <2>1. /\ \A e \in Ids : pg'[e] # None => pg[e] # None /\ pg'[e].ans = pg[e].ans
        /\ \A k \in Questions : redis'[k] # None => redis'[k] = redis[k]
        /\ \A t \in Requests : copy'[t] # None => copy'[t] = copy[t]
        /\ \A t \in Requests : pc'[t] \in WritePhases => pc[t] \in WritePhases
    BY <1>14, <1>1 DEF LookupFault
  <2> QED BY <2>1, AvailableFacts, NothingNew
<1>15. ASSUME NEW r \in Requests, Completes(r) PROVE Dwindles
  BY <1>15
<1>15a. ASSUME NEW r \in Requests, SparseRead(r) PROVE Available' \subseteq Available
  <2>1. /\ \A e \in Ids : pg'[e] # None => pg[e] # None /\ pg'[e].ans = pg[e].ans
        /\ \A k \in Questions : redis'[k] # None => redis'[k] = redis[k]
        /\ \A t \in Requests : copy'[t] # None => copy'[t] = copy[t]
        /\ \A t \in Requests : pc'[t] \in WritePhases => pc[t] \in WritePhases
    BY <1>15a, <1>1 DEF SparseRead
  <2> QED BY <2>1, AvailableFacts, NothingNew
<1>15b. ASSUME NEW r \in Requests, Cancel(r) PROVE Available' \subseteq Available
  <2>1. /\ \A e \in Ids : pg'[e] # None => pg[e] # None /\ pg'[e].ans = pg[e].ans
        /\ \A k \in Questions : redis'[k] # None => redis'[k] = redis[k]
        /\ \A t \in Requests : copy'[t] # None => copy'[t] = copy[t]
        /\ \A t \in Requests : pc'[t] \in WritePhases => pc[t] \in WritePhases
    BY <1>15b, <1>1, CancelFrame
  <2> QED BY <2>1, AvailableFacts, NothingNew
<1>16. ASSUME NEW r \in Requests, WriteLock(r) PROVE Available' \subseteq Available
  <2>1. /\ \A e \in Ids : pg'[e] # None => pg[e] # None /\ pg'[e].ans = pg[e].ans
        /\ \A k \in Questions : redis'[k] # None => redis'[k] = redis[k]
        /\ \A t \in Requests : copy'[t] # None => copy'[t] = copy[t]
        /\ \A t \in Requests : pc'[t] \in WritePhases => pc[t] \in WritePhases
    BY <1>16, <1>1 DEF WriteLock
  <2> QED BY <2>1, AvailableFacts, NothingNew
<1>17. ASSUME NEW r \in Requests, WriteSelect(r) PROVE Available' \subseteq Available
  <2>1. /\ \A e \in Ids : pg'[e] # None => pg[e] # None /\ pg'[e].ans = pg[e].ans
        /\ \A k \in Questions : redis'[k] # None => redis'[k] = redis[k]
        /\ \A t \in Requests : copy'[t] # None => copy'[t] = copy[t]
        /\ \A t \in Requests : pc'[t] \in WritePhases => pc[t] \in WritePhases
    BY <1>17, <1>1 DEF WriteSelect
  <2> QED BY <2>1, AvailableFacts, NothingNew
<1>18. ASSUME NEW r \in Requests, WriteVictim(r) PROVE Available' \subseteq Available
  <2>1. /\ \A e \in Ids : pg'[e] # None => pg[e] # None /\ pg'[e].ans = pg[e].ans
        /\ \A k \in Questions : redis'[k] # None => redis'[k] = redis[k]
        /\ \A t \in Requests : copy'[t] # None => copy'[t] = copy[t]
        /\ \A t \in Requests : pc'[t] \in WritePhases => pc[t] \in WritePhases
    BY <1>18, <1>1 DEF WriteVictim
  <2> QED BY <2>1, AvailableFacts, NothingNew
<1>19. ASSUME NEW r \in Requests, VictimRedis(r) PROVE Available' \subseteq Available
  <2>1. /\ \A e \in Ids : pg'[e] # None => pg[e] # None /\ pg'[e].ans = pg[e].ans
        /\ \A k \in Questions : redis'[k] # None => redis'[k] = redis[k]
        /\ \A t \in Requests : copy'[t] # None => copy'[t] = copy[t]
        /\ \A t \in Requests : pc'[t] \in WritePhases => pc[t] \in WritePhases
    BY <1>19, <1>1 DEF VictimRedis
  <2> QED BY <2>1, AvailableFacts, NothingNew
<1>20. ASSUME NEW r \in Requests, VictimPg(r) PROVE Available' \subseteq Available
  <2>1. /\ \A e \in Ids : pg'[e] # None => pg[e] # None /\ pg'[e].ans = pg[e].ans
        /\ \A k \in Questions : redis'[k] # None => redis'[k] = redis[k]
        /\ \A t \in Requests : copy'[t] # None => copy'[t] = copy[t]
        /\ \A t \in Requests : pc'[t] \in WritePhases => pc[t] \in WritePhases
    BY <1>20, <1>1 DEF VictimPg
  <2> QED BY <2>1, AvailableFacts, NothingNew
<1>21. ASSUME NEW r \in Requests, VictimDrop(r) PROVE Available' \subseteq Available
  <2>1. /\ \A e \in Ids : pg'[e] # None => pg[e] # None /\ pg'[e].ans = pg[e].ans
        /\ \A k \in Questions : redis'[k] # None => redis'[k] = redis[k]
        /\ \A t \in Requests : copy'[t] # None => copy'[t] = copy[t]
        /\ \A t \in Requests : pc'[t] \in WritePhases => pc[t] \in WritePhases
    BY <1>21, <1>1 DEF VictimDrop
  <2> QED BY <2>1, AvailableFacts, NothingNew
<1>22. ASSUME NEW r \in Requests, WriteInsert(r) PROVE Available' \subseteq Available
  <2>1. /\ \A e \in Ids : pg'[e] # None =>
                (pg[e] # None /\ pg'[e].ans = pg[e].ans) \/ (pg'[e].ans = r /\ pc[r] \in WritePhases)
        /\ \A q \in Questions : redis'[q] # None => redis'[q] = redis[q]
        /\ \A t \in Requests : copy'[t] # None => copy'[t] = copy[t]
        /\ \A t \in Requests : pc'[t] \in WritePhases => pc[t] \in WritePhases
    BY <1>22, <1>1 DEF WriteInsert, TargetInv, Targeting, Entry
  <2> QED BY <2>1, AvailableFacts, NothingNew
<1>23. ASSUME NEW r \in Requests, WriteUpdate(r) PROVE Available' \subseteq Available
  <2>1. /\ \A e \in Ids : pg'[e] # None =>
                (pg[e] # None /\ pg'[e].ans = pg[e].ans) \/ (pg'[e].ans = r /\ pc[r] \in WritePhases)
        /\ \A q \in Questions : redis'[q] # None => redis'[q] = redis[q]
        /\ \A t \in Requests : copy'[t] # None => copy'[t] = copy[t]
        /\ \A t \in Requests : pc'[t] \in WritePhases => pc[t] \in WritePhases
    BY <1>23, <1>1 DEF WriteUpdate, TargetInv, Targeting, Entry
  <2> QED BY <2>1, AvailableFacts, NothingNew
<1>24. ASSUME NEW r \in Requests, WriteAppend(r) PROVE Available' \subseteq Available
  <2>1. /\ \A e \in Ids : pg'[e] # None => pg[e] # None /\ pg'[e].ans = pg[e].ans
        /\ \A k \in Questions : redis'[k] # None => redis'[k] = redis[k]
        /\ \A t \in Requests : copy'[t] # None => copy'[t] = copy[t]
        /\ \A t \in Requests : pc'[t] \in WritePhases => pc[t] \in WritePhases
    BY <1>24, <1>1 DEF WriteAppend
  <2> QED BY <2>1, AvailableFacts, NothingNew
<1>25. ASSUME NEW r \in Requests, WriteRedis(r) PROVE Available' \subseteq Available
  <2>1. /\ \A e \in Ids : pg'[e] # None => pg[e] # None /\ pg'[e].ans = pg[e].ans
        /\ \A q \in Questions : redis'[q] # None =>
                redis'[q] = redis[q] \/ (redis'[q] = r /\ pc[r] \in WritePhases)
        /\ \A t \in Requests : copy'[t] # None => copy'[t] = copy[t]
        /\ \A t \in Requests : pc'[t] \in WritePhases => pc[t] \in WritePhases
    BY <1>25, <1>1 DEF WriteRedis
  <2> QED BY <2>1, AvailableFacts, NothingNew
<1>26. ASSUME NEW r \in Requests, WriteFault(r) PROVE Available' \subseteq Available
  <2>1. /\ \A e \in Ids : pg'[e] # None => pg[e] # None /\ pg'[e].ans = pg[e].ans
        /\ \A k \in Questions : redis'[k] # None => redis'[k] = redis[k]
        /\ \A t \in Requests : copy'[t] # None => copy'[t] = copy[t]
        /\ \A t \in Requests : pc'[t] \in WritePhases => pc[t] \in WritePhases
    BY <1>26, <1>1 DEF WriteFault
  <2> QED BY <2>1, AvailableFacts, NothingNew
<1>27. CASE CliFlush
  <2>1. /\ \A e \in Ids : pg'[e] # None => pg[e] # None /\ pg'[e].ans = pg[e].ans
        /\ \A k \in Questions : redis'[k] # None => redis'[k] = redis[k]
        /\ \A t \in Requests : copy'[t] # None => copy'[t] = copy[t]
        /\ \A t \in Requests : pc'[t] \in WritePhases => pc[t] \in WritePhases
    BY <1>27, <1>1 DEF CliFlush
  <2> QED BY <2>1, AvailableFacts, NothingNew
<1>28. CASE CliFlushRedis
  <2>1. /\ \A e \in Ids : pg'[e] # None => pg[e] # None /\ pg'[e].ans = pg[e].ans
        /\ \A k \in Questions : redis'[k] # None => redis'[k] = redis[k]
        /\ \A t \in Requests : copy'[t] # None => copy'[t] = copy[t]
        /\ \A t \in Requests : pc'[t] \in WritePhases => pc[t] \in WritePhases
    BY <1>28, <1>1 DEF CliFlushRedis
  <2> QED BY <2>1, AvailableFacts, NothingNew
<1>29. CASE CliDeleteRedis
  <2>1. /\ \A e \in Ids : pg'[e] # None => pg[e] # None /\ pg'[e].ans = pg[e].ans
        /\ \A k \in Questions : redis'[k] # None => redis'[k] = redis[k]
        /\ \A t \in Requests : copy'[t] # None => copy'[t] = copy[t]
        /\ \A t \in Requests : pc'[t] \in WritePhases => pc[t] \in WritePhases
    BY <1>29, <1>1 DEF CliDeleteRedis
  <2> QED BY <2>1, AvailableFacts, NothingNew
<1>30. CASE Reindex
  <2>1. /\ \A e \in Ids : pg'[e] # None => pg[e] # None /\ pg'[e].ans = pg[e].ans
        /\ \A k \in Questions : redis'[k] # None => redis'[k] = redis[k]
        /\ \A t \in Requests : copy'[t] # None => copy'[t] = copy[t]
        /\ \A t \in Requests : pc'[t] \in WritePhases => pc[t] \in WritePhases
    BY <1>30, <1>1 DEF Reindex
  <2> QED BY <2>1, AvailableFacts, NothingNew
<1>31. CASE Restart
  <2>1. /\ \A e \in Ids : pg'[e] # None => pg[e] # None /\ pg'[e].ans = pg[e].ans
        /\ \A k \in Questions : redis'[k] # None => redis'[k] = redis[k]
        /\ \A t \in Requests : copy'[t] # None => copy'[t] = copy[t]
        /\ \A t \in Requests : pc'[t] \in WritePhases => pc[t] \in WritePhases
    BY <1>31, <1>1 DEF Restart
  <2> QED BY <2>1, AvailableFacts, NothingNew
<1>32. ASSUME NEW q \in Questions, CliDelete(q) PROVE Available' \subseteq Available
  <2>1. /\ \A e \in Ids : pg'[e] # None => pg[e] # None /\ pg'[e].ans = pg[e].ans
        /\ \A k \in Questions : redis'[k] # None => redis'[k] = redis[k]
        /\ \A t \in Requests : copy'[t] # None => copy'[t] = copy[t]
        /\ \A t \in Requests : pc'[t] \in WritePhases => pc[t] \in WritePhases
    BY <1>32, <1>1 DEF CliDelete
  <2> QED BY <2>1, AvailableFacts, NothingNew
<1>33. ASSUME NEW q \in Questions, RedisExpire(q) PROVE Available' \subseteq Available
  <2>1. /\ \A e \in Ids : pg'[e] # None => pg[e] # None /\ pg'[e].ans = pg[e].ans
        /\ \A k \in Questions : redis'[k] # None => redis'[k] = redis[k]
        /\ \A t \in Requests : copy'[t] # None => copy'[t] = copy[t]
        /\ \A t \in Requests : pc'[t] \in WritePhases => pc[t] \in WritePhases
    BY <1>33, <1>1 DEF RedisExpire
  <2> QED BY <2>1, AvailableFacts, NothingNew
<1>34. CASE UNCHANGED vars
  <2>1. /\ \A e \in Ids : pg'[e] # None => pg[e] # None /\ pg'[e].ans = pg[e].ans
        /\ \A q \in Questions : redis'[q] # None => redis'[q] = redis[q]
        /\ \A t \in Requests : copy'[t] # None => copy'[t] = copy[t]
        /\ \A t \in Requests : pc'[t] \in WritePhases => pc[t] \in WritePhases
    BY <1>34, <1>1 DEF vars
  <2> QED BY <2>1, AvailableFacts, NothingNew
<1> QED
  BY <1>2, <1>3, <1>4, <1>5, <1>6, <1>7, <1>8, <1>9, <1>10, <1>11, <1>12, <1>13, <1>14, <1>15,
     <1>15a, <1>15b,
     <1>16, <1>17, <1>18, <1>19, <1>20, <1>21, <1>22, <1>23, <1>24, <1>25, <1>26, <1>27, <1>28,
     <1>29, <1>30, <1>31, <1>32, <1>33, <1>34
  DEF Next, Completes, Task, Answer, Lookup, Write, Operator, Environment

\* The initial states promise no more than the abstract ones.
LEMMA InitRefines == Init => Abstract!Init
<1> SUFFICES ASSUME Init PROVE Abstract!Init
  OBVIOUS
<1>1. PICK kept \in SUBSET Seeds :
        pg = [e \in Ids |-> IF e \in kept
                THEN [q |-> asked[e], ans |-> e, man |-> gen[e], hit |-> 0, born |-> 0]
                ELSE None]
  BY DEF Init
<1>2. \A e \in Stored : pg[e].ans \in Seeds
  BY <1>1 DEF Stored, Ids
<1>3. /\ asked \in [Ids -> Questions \cup {None}] /\ \A r \in Requests : asked[r] = None
      /\ served = [r \in Requests |-> None] /\ redis = [q \in Questions |-> None]
      /\ copy = [r \in Requests |-> None] /\ pc = [r \in Requests |-> "idle"]
  BY DEF Init
<1>4. Available \subseteq Seeds
  <2> HIDE <1>1
  <2> QED BY <1>2, <1>3 DEF Available, WritePhases
<1> QED BY <1>3, <1>4 DEF Ids, Abstract!Init, Abstract!Answers

\* A question asked is the abstract Ask.
LEMMA AskSimulates ==
    ASSUME IInv, NEW r \in Requests, Ask(r) PROVE Abstract!Next
<1>1. asked[r] = None
  BY DEF IInv, AskedInv, Ask, Step
<1>2. Available' = Available
  <2>1. \A t \in Requests : pc'[t] \in WritePhases <=> pc[t] \in WritePhases
    BY DEF IInv, TypeOK, Ask, Step, WritePhases
  <2> QED BY <2>1 DEF Ask, Available, Stored, storeVars
<1>3. Abstract!Ask(r)
  BY <1>1, <1>2 DEF Ask, Abstract!Ask
<1> QED BY <1>3 DEF Abstract!Next

\* An exact or a semantic hit serves an available answer to a fitting question.
LEMMA ServeSimulates ==
    ASSUME IInv, UnservedInv, Available' \subseteq Available, NEW r \in Requests,
           pc[r] \in {"redis", "hitCommit"}, NEW a \in Ids, a \in Available,
           asked[a] \in Questions, Topic[asked[a]] = Topic[asked[r]],
           Disc[asked[a]] = Disc[asked[r]],
           served' = [served EXCEPT ![r] = a], UNCHANGED asked
    PROVE  Abstract!Next
<1>1. asked[r] # None /\ served[r] = None
  BY ConstantsAssumption DEF IInv, AskedInv, UnservedInv, LookupPhases
<1>2. Abstract!Serve(r)
  BY <1>1 DEF Abstract!Serve, Abstract!Fits
<1> QED BY <1>2 DEF Abstract!Next

\* Exact tier: the value is stored under the question it answers.
LEMMA RedisHitSimulates ==
    ASSUME IInv, UnservedInv, Available' \subseteq Available, NEW r \in Requests, RedisHit(r)
    PROVE  Abstract!Next
<1> DEFINE a == redis[asked[r]]
<1>1. asked[r] \in Questions /\ a # None
  BY DEF IInv, AskedInv, RedisHit, Step
<1>2. a \in Ids /\ asked[a] = asked[r] /\ a \in Available
  BY <1>1, AvailableFacts DEF IInv, TypeOK, KeyInv
<1>3. pc[r] = "redis" /\ served' = [served EXCEPT ![r] = a] /\ UNCHANGED asked
  BY DEF RedisHit, Step
<1> HIDE DEF a
<1> QED BY <1>1, <1>2, <1>3, ServeSimulates

\* Semantic tier: the row read answers the entry's question, which fits; a row deleted
\* between the read and the commit serves nothing.
LEMMA HitCommitSimulates ==
    ASSUME IInv, UnservedInv, Available' \subseteq Available, NEW r \in Requests, HitCommit(r)
    PROVE  Abstract!Next
<1> DEFINE a == copy[r].ans
<1>1. pc[r] = "hitCommit" /\ UNCHANGED asked
  BY DEF HitCommit, Step
<1>2. CASE pg[target[r]] = None
  <2>1. UNCHANGED served
    BY <1>1, <1>2 DEF HitCommit
  <2> QED BY <1>1, <2>1 DEF Abstract!Next, Abstract!Forget
<1>3. CASE pg[target[r]] # None
  <2>1. served' = [served EXCEPT ![r] = a]
    BY <1>1, <1>3 DEF HitCommit
  <2>2. target[r] \in Ids /\ copy[r] # None
    BY <1>1 DEF IInv, TargetInv, Targeting
  <2>3. a \in Ids /\ a \in Available
    BY <2>2, AvailableFacts DEF IInv, TypeOK, Entry
  <2>4. asked[a] = asked[target[r]] /\ asked[target[r]] \in Questions
    BY <1>1, <1>3, <2>2 DEF IInv, KeyInv, TypeOK, Stored, Entry
  <2>5. Topic[asked[a]] = Topic[asked[r]] /\ Disc[asked[a]] = Disc[asked[r]]
    BY <1>1, <2>4 DEF IInv, MatchInv
  <2> HIDE DEF a
  <2> QED BY <1>1, <2>1, <2>3, <2>4, <2>5, ServeSimulates
<1> QED BY <1>2, <1>3

\* A generated answer becomes available when its write is scheduled.
LEMMA GenerateSimulates ==
    ASSUME IInv, UnservedInv, NEW r \in Requests, Completes(r) PROVE Abstract!Next
<1>1. asked[r] # None /\ served[r] = None
  BY ConstantsAssumption DEF IInv, AskedInv, UnservedInv, LookupPhases, Completes, Generate,
     SparseKeep,
                              Answered, Step
<1>2. /\ pg' = pg /\ redis' = redis /\ copy' = copy /\ asked' = asked
      /\ served' = [served EXCEPT ![r] = r]
  BY DEF Completes, Generate, SparseKeep, Answered, storeVars
<1>3. \/ \A t \in Requests : pc'[t] \in WritePhases <=> pc[t] \in WritePhases
      \/ \A t \in Requests : pc'[t] \in WritePhases <=> pc[t] \in WritePhases \/ t = r
  BY DEF IInv, TypeOK, Completes, Generate, SparseKeep, Answered, Step, WritePhases
<1>4. \/ Available' = Available
      \/ Available' = Available \cup {r}
  BY <1>2, <1>3 DEF Available, Stored
<1>5. Abstract!Compute(r)
  BY <1>1, <1>2, <1>4 DEF Abstract!Compute
<1> QED BY <1>5 DEF Abstract!Next

\* Every other step returns nothing, and forgets at most.
LEMMA QuietSteps ==
    ASSUME Next, \A r \in Requests : ~(Ask(r) \/ RedisHit(r) \/ HitCommit(r) \/ Completes(r))
    PROVE  UNCHANGED <<asked, served>>
BY DEF Next, Completes, Task, Answer, Lookup, Write, Operator, Environment, RedisMiss, LoadBegin,
       LoadFinish, Match, HitRead, EvictGet, EvictRedis, EvictPg, EvictDrop, LookupFault, Cancel,
       SparseRead, WriteLock, WriteSelect,
       WriteVictim, VictimRedis, VictimPg, VictimDrop, WriteInsert, WriteUpdate, WriteAppend,
       WriteRedis, WriteFault, CliFlush, CliFlushRedis, CliDelete, CliDeleteRedis, RedisExpire,
       Reindex, Restart, taskVars

\* Every step is an abstract step or changes nothing abstract.
LEMMA StepRefines ==
    IInv /\ UnservedInv /\ [Next]_vars => [Abstract!Next]_(Abstract!vars)
<1> SUFFICES ASSUME IInv, UnservedInv, [Next]_vars PROVE [Abstract!Next]_(Abstract!vars)
  OBVIOUS
<1>1. CASE UNCHANGED vars
  BY <1>1 DEF vars, taskVars, storeVars, Available, Stored, Abstract!vars
<1>2. Dwindles
  BY DwindleStep DEF IInv
<1>3. CASE \E r \in Requests : Completes(r)
  BY <1>3, GenerateSimulates
<1>4. ASSUME Next, Available' \subseteq Available PROVE Abstract!Next
  <2>1. ASSUME NEW r \in Requests, Ask(r) \/ RedisHit(r) \/ HitCommit(r) \/ Completes(r)
        PROVE  Abstract!Next
    BY <1>4, <2>1, AskSimulates, RedisHitSimulates, HitCommitSimulates, GenerateSimulates
  <2>2. CASE \A r \in Requests : ~(Ask(r) \/ RedisHit(r) \/ HitCommit(r) \/ Completes(r))
    BY <1>4, <2>2, QuietSteps DEF Abstract!Next, Abstract!Forget
  <2> QED BY <2>1, <2>2
<1> QED BY <1>1, <1>2, <1>3, <1>4 DEF Dwindles

\* No request is served before its lookup ends.
LEMMA Unserved == Spec => []UnservedInv
<1>1. Init => UnservedInv
  BY DEF Init, UnservedInv
<1>2. IInv /\ UnservedInv /\ [Next]_vars => UnservedInv'
  BY UnservedStep DEF IInv
<1> QED BY <1>1, <1>2, Invariance, PTL DEF Spec

\* The cache refines AnswerCache: whatever the interleaving of lookups, writes, evictions,
\* faults, restarts and operator commands, a request computes its own answer or is served a
\* fitting one that some copy kept since it was generated (rag/baseline.py `_cache_lookup`,
\* caching/store.py).
THEOREM Refines == Spec => ImplementsAnswerCache
BY InitRefines, StepRefines, Invariance, Unserved, PTL
DEF Spec, ImplementsAnswerCache, Abstract!Spec
=============================================================================
