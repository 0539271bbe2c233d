---------------------------- MODULE SemanticCache ----------------------------
(***************************************************************************)
(* The two-tier answer cache of one API process: the Postgres entries, the *)
(* in-memory embedding matrix derived from them (caching/store.py), the    *)
(* Redis exact-match tier (caching/redis_hot.py), the requests that read   *)
(* and write both (rag/baseline.py), and the operator's command            *)
(* (caching/run.py), which runs in a process of its own.                   *)
(*                                                                         *)
(* One action is the code between two awaits.  An entry id and an answer   *)
(* are both named by the request that produced them.  Embeddings are       *)
(* abstracted to three similarities: the same question, a question of the  *)
(* same topic (over the threshold), any other question (under it).         *)
(***************************************************************************)
EXTENDS Naturals, Sequences, FiniteSets

CONSTANTS
    Questions,    \* normalized standalone questions (the cache key)
    Topic,        \* Topic[q]: same topic iff the cosine reaches the threshold
    Disc,         \* Disc[q]: keys.discriminators of the question
    Requests,     \* requests of this run, one question each
    Seeds,        \* entries a former process left in Postgres
    SeedGens,     \* index generations those entries may be tagged with; 1 is current
    MaxEntries,   \* settings.CACHE_MAX_ENTRIES
    None,
    IndexBound,   \* the index is rebuilt until its generation reaches this
    MaxRestarts,  \* API process restarts
    MaxOps,       \* operator commands
    MaxFaults,    \* Postgres or Redis calls that fail
    MaxUpsets     \* restarts, commands and failures together

Ids == Requests \cup Seeds
Row == [id : Ids, q : Questions, man : Nat]
Entry == [q : Questions, ans : Ids, man : Nat, hit : Nat, born : Nat]

ASSUME ConstantsAssumption ==
    /\ Requests \cap Seeds = {}
    /\ IsFiniteSet(Requests) /\ IsFiniteSet(Seeds)
    /\ SeedGens \subseteq {0, 1}
    /\ MaxEntries \in Nat \ {0}
    /\ {IndexBound, MaxRestarts, MaxOps, MaxFaults, MaxUpsets} \subseteq Nat
    /\ None \notin Ids /\ None \notin Questions /\ None \notin Entry

VARIABLES
    pc, asked, gen,     \* per request: control point, question, oldest index it answers from
    target,             \* per request: the entry id it is working on
    copy,               \* per request: the row it read on a hit
    served,             \* per request: the answer it returned
    pg,                 \* cache_entries: entry id -> row or None
    redis,              \* exact-match tier: question -> answer or None
    matrix, loaded,     \* the row-parallel arrays, and whether _matrix is not None
    curMan,             \* _current_manifest
    lock,               \* holder of SemanticCache._lock
    index,              \* generation of the index (and of its manifest) on disk
    bm25,               \* generation of hybrid._BM25_CACHE, 0 before it is loaded
    skipped,            \* requests sent with skip_cache
    cli,                \* the operator's command: control point, question
    doomed, purged,     \* answers being deleted, answers reported deleted
    clock, faults, ops, restarts

procVars  == <<matrix, loaded, curMan>>
storeVars == <<pg, redis, clock>>
cliVars   == <<cli, doomed, purged, ops>>
envVars   == <<index, bm25, skipped, restarts>>
taskVars  == <<pc, asked, gen, target, copy, served>>
vars == <<taskVars, procVars, storeVars, cliVars, envVars, lock, faults>>

LookupPhases == {"redis", "lookup", "loadL", "hitRead", "hitCommit",
                 "evictGet", "evictRedis", "evictPg", "evictDrop", "generate", "sparse"}
WritePhases  == {"write", "loadW", "select", "victim", "victimRedis", "victimPg",
                 "victimDrop", "insert", "update", "append", "wredis"}
Phases == {"idle", "done", "cancelled"} \cup LookupPhases \cup WritePhases

\* The phases between `async with self._lock` and its exit.
Locked == {"loadL"} \cup (WritePhases \ {"write", "wredis"})

Init ==
    /\ pc = [r \in Requests |-> "idle"]
    /\ asked \in [Ids -> Questions \cup {None}]
    /\ \A r \in Requests : asked[r] = None
    /\ \A s, t \in Seeds : asked[s] # None /\ (s # t => asked[s] # asked[t])
    /\ gen \in [Ids -> SeedGens \cup {0}]
    /\ \A r \in Requests : gen[r] = 0
    /\ \A s \in Seeds : gen[s] \in SeedGens
    /\ target = [r \in Requests |-> None]
    /\ copy = [r \in Requests |-> None]
    /\ served = [r \in Requests |-> None]
    /\ \E kept \in SUBSET Seeds :
         /\ Cardinality(kept) <= MaxEntries
         /\ pg = [e \in Ids |-> IF e \in kept
                    THEN [q |-> asked[e], ans |-> e, man |-> gen[e], hit |-> 0, born |-> 0]
                    ELSE None]
    /\ redis = [q \in Questions |-> None]
    /\ matrix = << >> /\ loaded = FALSE /\ curMan = 0
    /\ lock = None
    /\ index = 1 /\ bm25 = 0 /\ skipped = {}
    /\ cli = [at |-> "idle", q |-> None]
    /\ doomed = {} /\ purged = {}
    /\ clock = 1 /\ faults = 0 /\ ops = 0 /\ restarts = 0

-----------------------------------------------------------------------------
(* The matrix *)

Stored == {e \in Ids : pg[e] # None}
RowIds(rows) == {rows[i].id : i \in DOMAIN rows}

\* _drop_row: delete the row of this id (list.index; NoDrift: there is one at most).
DropRow(rows, id) ==
    IF id \in RowIds(rows)
    THEN LET i == CHOOSE j \in DOMAIN rows : rows[j].id = id
         IN  [k \in 1 .. Len(rows) - 1 |-> IF k < i THEN rows[k] ELSE rows[k + 1]]
    ELSE rows

\* np.argmax over the cosines that reach the threshold: the first row of the very question,
\* else any row of its topic (their cosines are not distinguished).
Best(q, rows) ==
    LET same == {i \in DOMAIN rows : rows[i].q = q}
        near == {i \in DOMAIN rows : Topic[rows[i].q] = Topic[q]}
    IN  IF same # {} THEN {i \in same : \A j \in same : i <= j} ELSE near

\* Mutant: the discriminator veto is missing.
ConsultNoVeto(r, rows, cur) ==
    LET best == Best(asked[r], rows)
    IN  \/ best = {} /\ pc' = [pc EXCEPT ![r] = "generate"] /\ UNCHANGED target
        \/ \E i \in best :
             /\ target' = [target EXCEPT ![r] = rows[i].id]
             /\ pc' = [pc EXCEPT ![r] = IF rows[i].man = cur THEN "hitRead" ELSE "evictGet"]

\* _lookup after the load: empty, under threshold or vetoed is a miss; a stale manifest is
\* evicted; the rest is read from Postgres.
Consult(r, rows, cur) ==
    LET best == Best(asked[r], rows)
    IN  \/ /\ best = {}
           /\ pc' = [pc EXCEPT ![r] = "generate"]
           /\ UNCHANGED target
        \/ \E i \in best :
             /\ Disc[rows[i].q] # Disc[asked[r]]
             /\ pc' = [pc EXCEPT ![r] = "generate"]
             /\ UNCHANGED target
        \/ \E i \in best :
             /\ Disc[rows[i].q] = Disc[asked[r]]
             /\ target' = [target EXCEPT ![r] = rows[i].id]
             /\ pc' = [pc EXCEPT ![r] = IF rows[i].man = cur THEN "hitRead" ELSE "evictGet"]

RowOf(e) == [id |-> e, q |-> pg[e].q, man |-> pg[e].man]

\* The matrix rebuilt from every Postgres row; the SELECT has no ORDER BY.
Loads == LET n == Cardinality(Stored)
         IN  {[i \in 1 .. n |-> RowOf(f[i])] :
                f \in {g \in [1 .. n -> Stored] : \A e \in Stored : \E i \in 1 .. n : g[i] = e}}

-----------------------------------------------------------------------------
(* Helpers of the task actions *)

Step(r, from, to) == pc[r] = from /\ pc' = [pc EXCEPT ![r] = to]

\* The bound on all that may go wrong in one behaviour.
Room == faults + ops + restarts < MaxUpsets

\* A Redis or Postgres call that raises: swallowed, logged, counted against the bounds.
Fault == faults < MaxFaults /\ Room /\ faults' = faults + 1

\* A Redis mutation whose failure redis_hot swallows.
RedisCall(new) == \/ redis' = new /\ UNCHANGED faults
                  \/ Fault /\ UNCHANGED redis

HasEntryFor(q) == {e \in Stored : pg[e].q = q}

\* ORDER BY last_hit_at ASC NULLS FIRST, created_at ASC LIMIT 1
Coldest == {e \in Stored : \A d \in Stored :
              \/ pg[e].hit < pg[d].hit
              \/ pg[e].hit = pg[d].hit /\ pg[e].born <= pg[d].born}

-----------------------------------------------------------------------------
(* A request: exact tier, then semantic tier, then generation *)

\* With skip_cache neither tier is read or written.
Ask(r) ==
    /\ \/ Step(r, "idle", "redis") /\ UNCHANGED skipped
       \/ Step(r, "idle", "generate") /\ skipped' = skipped \cup {r}
    /\ \E q \in Questions : asked' = [asked EXCEPT ![r] = q]
    /\ UNCHANGED <<gen, target, copy, served, procVars, storeVars, cliVars, index, bm25, restarts,
                   lock, faults>>

RedisHit(r) ==
    /\ Step(r, "redis", "done")
    /\ redis[asked[r]] # None
    /\ served' = [served EXCEPT ![r] = redis[asked[r]]]
    /\ UNCHANGED <<asked, gen, target, copy, procVars, storeVars, cliVars, envVars, lock, faults>>

RedisMiss(r) ==
    /\ Step(r, "redis", "lookup")
    /\ \/ redis[asked[r]] = None /\ UNCHANGED faults
       \/ redis[asked[r]] # None /\ Fault
    /\ UNCHANGED <<asked, gen, target, copy, served, procVars, storeVars, cliVars, envVars, lock>>

\* _ensure_loaded, by a lookup or by a write: take the lock and read the manifest.
LoadBegin(r) ==
    /\ \/ Step(r, "lookup", "loadL")
       \/ Step(r, "write", "loadW")
    /\ ~loaded /\ lock = None
    /\ lock' = r
    /\ curMan' = index
    /\ UNCHANGED <<asked, gen, target, copy, served, matrix, loaded, storeVars, cliVars, envVars,
                   faults>>

\* The SELECT returns, the arrays are built, the lock is released; a lookup goes on to match.
LoadFinish(r) ==
    /\ \E rows \in Loads :
         /\ matrix' = rows
         /\ \/ pc[r] = "loadL" /\ Consult(r, rows, curMan)
            \/ Step(r, "loadW", "write") /\ UNCHANGED target
    /\ loaded' = TRUE
    /\ lock' = None
    /\ UNCHANGED <<asked, gen, copy, served, curMan, storeVars, cliVars, envVars, faults>>

Match(r) ==
    /\ pc[r] = "lookup" /\ loaded
    /\ Consult(r, matrix, curMan)
    /\ UNCHANGED <<asked, gen, copy, served, procVars, storeVars, cliVars, envVars, lock, faults>>

\* session.get(CacheEntry, entry_id)
HitRead(r) ==
    /\ \/ Step(r, "hitRead", "hitCommit") /\ pg[target[r]] # None
       \/ Step(r, "hitRead", "generate") /\ pg[target[r]] = None
    /\ copy' = [copy EXCEPT ![r] = pg[target[r]]]
    /\ UNCHANGED <<asked, gen, target, served, procVars, storeVars, cliVars, envVars, lock, faults>>

\* Mutant: the hit is merged back as the whole row that was read, whether it still exists or not.
HitCommitMerges(r) ==
    /\ Step(r, "hitCommit", "done")
    /\ pg' = [pg EXCEPT ![target[r]] = [copy[r] EXCEPT !.hit = clock]]
    /\ clock' = clock + 1
    /\ served' = [served EXCEPT ![r] = copy[r].ans]
    /\ copy' = [copy EXCEPT ![r] = None]
    /\ UNCHANGED <<asked, gen, target, redis, procVars, cliVars, envVars, lock, faults>>

\* Mutant: a hit does not return, and the pipeline goes on to generate.
HitCommitFallsThrough(r) ==
    /\ Step(r, "hitCommit", "generate")
    /\ served' = [served EXCEPT ![r] = copy[r].ans]
    /\ copy' = [copy EXCEPT ![r] = None]
    /\ UNCHANGED <<asked, gen, target, pg, clock, redis, procVars, cliVars, envVars, lock, faults>>

\* The hit is recorded and the answer read before it is returned; a row deleted meanwhile
\* makes the UPDATE match nothing, which raises and becomes a miss.
HitCommit(r) ==
    /\ \/ /\ Step(r, "hitCommit", "done")
          /\ pg[target[r]] # None
          /\ pg' = [pg EXCEPT ![target[r]].hit = clock]
          /\ clock' = clock + 1
          /\ served' = [served EXCEPT ![r] = copy[r].ans]
       \/ /\ Step(r, "hitCommit", "generate")
          /\ pg[target[r]] = None
          /\ UNCHANGED <<pg, clock, served>>
    /\ copy' = [copy EXCEPT ![r] = None]
    /\ UNCHANGED <<asked, gen, target, redis, procVars, cliVars, envVars, lock, faults>>

\* Mutant: the matrix row goes first, and the row in Postgres later.
EvictGetDropsFirst(r) ==
    /\ \/ Step(r, "evictGet", "evictRedis") /\ pg[target[r]] # None
       \/ Step(r, "evictGet", "generate") /\ pg[target[r]] = None
    /\ matrix' = DropRow(matrix, target[r])
    /\ UNCHANGED <<asked, gen, target, copy, served, loaded, curMan, storeVars, cliVars, envVars,
                   lock, faults>>

\* _evict of a stale row: get, delete from Redis, delete from Postgres, drop the matrix row.
EvictGet(r) ==
    /\ \/ /\ Step(r, "evictGet", "evictRedis") /\ pg[target[r]] # None
          /\ UNCHANGED matrix
       \/ /\ Step(r, "evictGet", "generate") /\ pg[target[r]] = None
          /\ matrix' = DropRow(matrix, target[r])
    /\ UNCHANGED <<asked, gen, target, copy, served, loaded, curMan, storeVars, cliVars, envVars,
                   lock, faults>>

EvictRedis(r) ==
    /\ Step(r, "evictRedis", "evictPg")
    /\ RedisCall([redis EXCEPT ![asked[target[r]]] = None])
    /\ UNCHANGED <<asked, gen, target, copy, served, pg, clock, procVars, cliVars, envVars, lock>>

EvictPg(r) ==
    /\ Step(r, "evictPg", "evictDrop")
    /\ pg' = [pg EXCEPT ![target[r]] = None]
    /\ UNCHANGED <<asked, gen, target, copy, served, redis, clock, procVars, cliVars, envVars,
                   lock, faults>>

EvictDrop(r) ==
    /\ Step(r, "evictDrop", "generate")
    /\ matrix' = DropRow(matrix, target[r])
    /\ UNCHANGED <<asked, gen, target, copy, served, loaded, curMan, storeVars, cliVars, envVars,
                   lock, faults>>

\* Any failed Postgres call of a lookup is a miss (fail-open); the lock is released on the way.
LookupFault(r) ==
    /\ pc[r] \in {"loadL", "hitRead", "hitCommit", "evictGet", "evictPg"}
    /\ Fault
    /\ pc' = [pc EXCEPT ![r] = "generate"]
    /\ lock' = IF lock = r THEN None ELSE lock
    /\ copy' = [copy EXCEPT ![r] = None]
    /\ UNCHANGED <<asked, gen, target, served, procVars, storeVars, cliVars, envVars>>

\* CancelledError passes `except Exception`: a timeout of the request or the loss of its client ends
\* a lookup at any of its awaits, as they and a failure of the pipeline end the generation.  The
\* lock is released, a commit on its way may have been applied.  A request cancelled between the
\* commit of an eviction and the drop of its row keeps the entry's id, for NoDrift only.
Cancel(r) ==
    /\ pc[r] \in LookupPhases
    /\ pc' = [pc EXCEPT ![r] = "cancelled"]
    /\ lock' = IF lock = r THEN None ELSE lock
    /\ \/ UNCHANGED <<pg, clock>>
       \/ /\ pc[r] = "hitCommit" /\ pg[target[r]] # None
          /\ pg' = [pg EXCEPT ![target[r]].hit = clock]
          /\ clock' = clock + 1
    /\ copy' = [copy EXCEPT ![r] = None]
    /\ target' = [target EXCEPT ![r] = IF pc[r] = "evictDrop" THEN @ ELSE None]
    /\ UNCHANGED <<asked, gen, served, redis, procVars, cliVars, envVars, faults>>

\* The first retrieval of the process reads bm25.pkl off the loop ...
SparseRead(r) ==
    /\ Step(r, "generate", "sparse")
    /\ bm25 = 0
    /\ gen' = [gen EXCEPT ![r] = index]
    /\ UNCHANGED <<asked, target, copy, served, procVars, storeVars, cliVars, envVars, lock,
                   faults>>

\* The answer is complete; its write-behind is scheduled after `done`, unless the answer is
\* refused, degraded or uncited, or skips the cache.
Answered(r, phase) ==
    /\ \/ Step(r, phase, "write") /\ r \notin skipped
       \/ Step(r, phase, "done")
    /\ served' = [served EXCEPT ![r] = r]
    /\ target' = [target EXCEPT ![r] = None]

\* ... and keeps it for the life of the process.
SparseKeep(r) ==
    /\ Answered(r, "sparse")
    /\ bm25' = gen[r]
    /\ UNCHANGED <<asked, gen, copy, procVars, storeVars, cliVars, index, skipped, restarts,
                   lock, faults>>

\* Retrieval over the dense index as it is and BM25 as it was loaded, and generation.
Generate(r) ==
    /\ bm25 # 0
    /\ Answered(r, "generate")
    /\ gen' = [gen EXCEPT ![r] = bm25]
    /\ UNCHANGED <<asked, copy, procVars, storeVars, cliVars, envVars, lock, faults>>

-----------------------------------------------------------------------------
(* The write-behind task *)

\* Mutant: the write does not take the lock.
WriteLockSkipped(r) ==
    /\ Step(r, "write", "select")
    /\ loaded
    /\ UNCHANGED <<asked, gen, target, copy, served, procVars, storeVars, cliVars, envVars, lock,
                   faults>>

WriteLock(r) ==
    /\ Step(r, "write", "select")
    /\ loaded /\ lock = None
    /\ lock' = r
    /\ UNCHANGED <<asked, gen, target, copy, served, procVars, storeVars, cliVars, envVars, faults>>

\* Mutant: capacity is checked one row too late.
WriteSelectOffByOne(r) ==
    /\ \/ \E e \in HasEntryFor(asked[r]) :
            /\ Step(r, "select", "update")
            /\ target' = [target EXCEPT ![r] = e]
       \/ /\ HasEntryFor(asked[r]) = {}
          /\ IF Len(matrix) > MaxEntries THEN Step(r, "select", "victim")
                                         ELSE Step(r, "select", "insert")
          /\ UNCHANGED target
    /\ UNCHANGED <<asked, gen, copy, served, procVars, storeVars, cliVars, envVars, lock, faults>>

\* SELECT by query_hash, then the capacity check.
WriteSelect(r) ==
    /\ \/ \E e \in HasEntryFor(asked[r]) :
            /\ Step(r, "select", "update")
            /\ target' = [target EXCEPT ![r] = e]
       \/ /\ HasEntryFor(asked[r]) = {}
          /\ IF Len(matrix) >= MaxEntries THEN Step(r, "select", "victim")
                                          ELSE Step(r, "select", "insert")
          /\ UNCHANGED target
    /\ UNCHANGED <<asked, gen, copy, served, procVars, storeVars, cliVars, envVars, lock, faults>>

\* _evict_least_recently_hit: pick, delete from Redis, delete from Postgres, drop the row.
WriteVictim(r) ==
    /\ \/ \E e \in Coldest :
            /\ Step(r, "victim", "victimRedis")
            /\ target' = [target EXCEPT ![r] = e]
       \/ /\ Stored = {}
          /\ Step(r, "victim", "insert")
          /\ UNCHANGED target
    /\ UNCHANGED <<asked, gen, copy, served, procVars, storeVars, cliVars, envVars, lock, faults>>

VictimRedis(r) ==
    /\ Step(r, "victimRedis", "victimPg")
    /\ RedisCall([redis EXCEPT ![asked[target[r]]] = None])
    /\ UNCHANGED <<asked, gen, target, copy, served, pg, clock, procVars, cliVars, envVars, lock>>

VictimPg(r) ==
    /\ Step(r, "victimPg", "victimDrop")
    /\ pg' = [pg EXCEPT ![target[r]] = None]
    /\ UNCHANGED <<asked, gen, target, copy, served, redis, clock, procVars, cliVars, envVars,
                   lock, faults>>

\* Mutant: the evicted entry keeps its matrix row.
VictimDropForgotten(r) ==
    /\ Step(r, "victimDrop", "insert")
    /\ UNCHANGED <<asked, gen, target, copy, served, procVars, storeVars, cliVars, envVars, lock,
                   faults>>

VictimDrop(r) ==
    /\ Step(r, "victimDrop", "insert")
    /\ matrix' = DropRow(matrix, target[r])
    /\ UNCHANGED <<asked, gen, target, copy, served, loaded, curMan, storeVars, cliVars, envVars,
                   lock, faults>>

\* Mutant: entry_id is read before the flush has assigned it.
WriteInsertNoFlush(r) ==
    /\ Step(r, "insert", "append")
    /\ pg' = [pg EXCEPT ![r] = [q |-> asked[r], ans |-> r, man |-> curMan,
                                hit |-> 0, born |-> clock]]
    /\ clock' = clock + 1
    /\ UNCHANGED <<asked, gen, target, copy, served, redis, procVars, cliVars, envVars, lock,
                   faults>>

\* Mutant: the row is tagged with the manifest on disk instead of the one that was loaded.
WriteInsertTagsDisk(r) ==
    /\ Step(r, "insert", "append")
    /\ pg' = [pg EXCEPT ![r] = [q |-> asked[r], ans |-> r, man |-> index,
                                hit |-> 0, born |-> clock]]
    /\ clock' = clock + 1
    /\ target' = [target EXCEPT ![r] = r]
    /\ UNCHANGED <<asked, gen, copy, served, redis, procVars, cliVars, envVars, lock, faults>>

\* INSERT, flush and commit of a new row, under the manifest the process loaded.
WriteInsert(r) ==
    /\ Step(r, "insert", "append")
    /\ pg' = [pg EXCEPT ![r] = [q |-> asked[r], ans |-> r, man |-> curMan,
                                hit |-> 0, born |-> clock]]
    /\ clock' = clock + 1
    /\ target' = [target EXCEPT ![r] = r]
    /\ UNCHANGED <<asked, gen, copy, served, redis, procVars, cliVars, envVars, lock, faults>>

\* Mutant: the update leaves the old manifest on the row.
WriteUpdateKeepsManifest(r) ==
    /\ \/ /\ Step(r, "update", "append")
          /\ pg[target[r]] # None
          /\ pg' = [pg EXCEPT ![target[r]].ans = r]
          /\ UNCHANGED lock
       \/ /\ Step(r, "update", "done")
          /\ pg[target[r]] = None
          /\ lock' = None
          /\ UNCHANGED pg
    /\ UNCHANGED <<asked, gen, target, copy, served, redis, clock, procVars, cliVars, envVars,
                   faults>>

\* Mutant: the failed update leaves without releasing the lock.
WriteUpdateKeepsLock(r) ==
    /\ \/ /\ Step(r, "update", "append")
          /\ pg[target[r]] # None
          /\ pg' = [pg EXCEPT ![target[r]].ans = r, ![target[r]].man = curMan]
       \/ /\ Step(r, "update", "done")
          /\ pg[target[r]] = None
          /\ UNCHANGED pg
    /\ UNCHANGED <<asked, gen, target, copy, served, redis, clock, procVars, cliVars, envVars,
                   lock, faults>>

\* UPDATE in place and commit; if the row is gone the flush raises, the write is abandoned and
\* leaving the `async with` releases the lock.
WriteUpdate(r) ==
    /\ \/ /\ Step(r, "update", "append")
          /\ pg[target[r]] # None
          /\ pg' = [pg EXCEPT ![target[r]].ans = r, ![target[r]].man = curMan]
          /\ UNCHANGED lock
       \/ /\ Step(r, "update", "done")
          /\ pg[target[r]] = None
          /\ lock' = None
          /\ UNCHANGED pg
    /\ UNCHANGED <<asked, gen, target, copy, served, redis, clock, procVars, cliVars, envVars,
                   faults>>

\* _drop_row then _append_row, and the lock is released.
WriteAppend(r) ==
    /\ Step(r, "append", "wredis")
    /\ matrix' = Append(DropRow(matrix, target[r]),
                        [id |-> target[r], q |-> asked[r], man |-> curMan])
    /\ lock' = None
    /\ UNCHANGED <<asked, gen, target, copy, served, loaded, curMan, storeVars, cliVars, envVars,
                   faults>>

\* redis_hot.set, outside the lock.
WriteRedis(r) ==
    /\ Step(r, "wredis", "done")
    /\ RedisCall([redis EXCEPT ![asked[r]] = r])
    /\ UNCHANGED <<asked, gen, target, copy, served, pg, clock, procVars, cliVars, envVars, lock>>

\* _write_guarded swallows a failed Postgres call; the lock is released on the way out.
WriteFault(r) ==
    /\ pc[r] \in {"loadW", "select", "victim", "victimPg", "insert", "update"}
    /\ Fault
    /\ pc' = [pc EXCEPT ![r] = "done"]
    /\ lock' = None
    /\ UNCHANGED <<asked, gen, target, copy, served, procVars, storeVars, cliVars, envVars>>

-----------------------------------------------------------------------------
(* The operator's command, in its own process: no access to matrix or lock *)

Doomed(E) == {pg[e].ans : e \in E}

CliFlush ==
    /\ cli.at = "idle" /\ ops < MaxOps /\ Room
    /\ pg' = [e \in Ids |-> None]
    /\ doomed' = Doomed(Stored)
    /\ cli' = [at |-> "flushRedis", q |-> None]
    /\ ops' = ops + 1
    /\ UNCHANGED <<taskVars, procVars, redis, clock, envVars, purged, lock, faults>>

\* SCAN and DEL key by key: a failure part-way leaves the rest.
CliFlushRedis ==
    /\ cli.at = "flushRedis"
    /\ \/ redis' = [q \in Questions |-> None] /\ UNCHANGED faults
       \/ /\ Fault
          /\ \E K \in SUBSET Questions :
               redis' = [q \in Questions |-> IF q \in K THEN None ELSE redis[q]]
    /\ cli' = [at |-> "idle", q |-> None]
    /\ purged' = purged \cup doomed
    /\ doomed' = {}
    /\ UNCHANGED <<taskVars, procVars, pg, clock, envVars, ops, lock>>

CliDelete(q) ==
    /\ cli.at = "idle" /\ ops < MaxOps /\ Room
    /\ HasEntryFor(q) # {}
    /\ pg' = [e \in Ids |-> IF e \in HasEntryFor(q) THEN None ELSE pg[e]]
    /\ doomed' = Doomed(HasEntryFor(q))
    /\ cli' = [at |-> "deleteRedis", q |-> q]
    /\ ops' = ops + 1
    /\ UNCHANGED <<taskVars, procVars, redis, clock, envVars, purged, lock, faults>>

CliDeleteRedis ==
    /\ cli.at = "deleteRedis"
    /\ RedisCall([redis EXCEPT ![cli.q] = None])
    /\ cli' = [at |-> "idle", q |-> None]
    /\ purged' = purged \cup doomed
    /\ doomed' = {}
    /\ UNCHANGED <<taskVars, procVars, pg, clock, envVars, ops, lock>>

-----------------------------------------------------------------------------
(* The environment *)

RedisExpire(q) ==
    /\ redis[q] # None
    /\ redis' = [redis EXCEPT ![q] = None]
    /\ UNCHANGED <<taskVars, procVars, pg, clock, cliVars, envVars, lock, faults>>

\* The indexing CLI writes a new manifest.
Reindex ==
    /\ index < IndexBound
    /\ index' = index + 1
    /\ UNCHANGED <<taskVars, procVars, storeVars, cliVars, bm25, skipped, restarts, lock, faults>>

\* The API process stops at any point and starts again: every task, the matrix and
\* BM25 are lost.
Restart ==
    /\ restarts < MaxRestarts /\ Room
    /\ restarts' = restarts + 1
    /\ pc' = [r \in Requests |-> IF pc[r] \in {"idle", "cancelled"} THEN pc[r] ELSE "done"]
    /\ target' = [r \in Requests |-> None]
    /\ copy' = [r \in Requests |-> None]
    /\ matrix' = << >> /\ loaded' = FALSE /\ curMan' = 0
    /\ lock' = None /\ bm25' = 0
    /\ UNCHANGED <<asked, gen, served, storeVars, cliVars, index, skipped, faults>>

Lookup(r) == RedisHit(r) \/ RedisMiss(r) \/ Match(r) \/ HitRead(r) \/ HitCommit(r)
             \/ EvictGet(r) \/ EvictRedis(r) \/ EvictPg(r) \/ EvictDrop(r)

Write(r) == WriteSelect(r) \/ WriteVictim(r) \/ VictimRedis(r) \/ VictimPg(r) \/ VictimDrop(r)
            \/ WriteInsert(r) \/ WriteUpdate(r) \/ WriteAppend(r) \/ WriteRedis(r)

Answer(r) == SparseRead(r) \/ SparseKeep(r) \/ Generate(r)

Task(r) == LoadBegin(r) \/ LoadFinish(r) \/ Lookup(r) \/ Answer(r)
           \/ WriteLock(r) \/ Write(r)

Operator == CliFlush \/ CliFlushRedis \/ CliDeleteRedis \/ \E q \in Questions : CliDelete(q)

Environment == Reindex \/ Restart \/ \E q \in Questions : RedisExpire(q)

Next == \/ \E r \in Requests : Ask(r) \/ Task(r) \/ Cancel(r) \/ LookupFault(r) \/ WriteFault(r)
        \/ Operator
        \/ Environment

Spec == Init /\ [][Next]_vars

-----------------------------------------------------------------------------
(* Properties *)

\* Every variable stays in its type; the matrix is a sequence of whole rows.
TypeOK ==
    /\ pc \in [Requests -> Phases]
    /\ asked \in [Ids -> Questions \cup {None}]
    /\ gen \in [Ids -> Nat]
    /\ target \in [Requests -> Ids \cup {None}]
    /\ copy \in [Requests -> Entry \cup {None}]
    /\ served \in [Requests -> Ids \cup {None}]
    /\ pg \in [Ids -> Entry \cup {None}]
    /\ redis \in [Questions -> Ids \cup {None}]
    /\ matrix \in Seq(Row) /\ loaded \in BOOLEAN /\ curMan \in Nat
    /\ lock \in Requests \cup {None}
    /\ cli \in [at : {"idle", "flushRedis", "deleteRedis"}, q : Questions \cup {None}]
    /\ doomed \subseteq Ids /\ purged \subseteq Ids
    /\ index \in Nat /\ bm25 \in Nat /\ skipped \subseteq Requests
    /\ {clock, faults, ops, restarts} \subseteq Nat

\* An answer is only ever returned for a question of its own topic with the same
\* discriminators, although the row matched, the entry read and the answer returned are
\* looked up in three different steps (store.py `_lookup`).
ServedAnswersFit ==
    \A r \in Requests : served[r] # None =>
        /\ Topic[asked[served[r]]] = Topic[asked[r]]
        /\ Disc[asked[served[r]]] = Disc[asked[r]]

\* A semantic hit returns an entry written under the manifest this process loaded, even when
\* the entry was updated between the match and the read (AC-9).
HitsAreCurrent ==
    \A r \in Requests : pc[r] = "hitCommit" => copy[r].man = curMan

\* The SELECT, eviction and INSERT of a write are one critical section: two concurrent writes
\* of one question never trip the unique constraint on query_hash (AC-17).
OneEntryPerQuestion ==
    \A d, e \in Stored : pg[d].q = pg[e].q => d = e

\* The loaded matrix misses no entry of Postgres, except one whose writer has committed and
\* is about to append its row: nothing is stored that lookups and the capacity check cannot see.
EntriesAreVisible ==
    loaded => \A e \in Stored :
        \/ e \in RowIds(matrix)
        \/ \E r \in Requests : pc[r] = "append" /\ target[r] = e

\* The table never outgrows CACHE_MAX_ENTRIES (AC-18), although the check counts matrix rows.
TableBounded == Cardinality(Stored) <= MaxEntries

\* What the operator deleted from Postgres never comes back to it through a write that had
\* already read the row.
PurgedStaysOutOfTable == \A e \in Stored : pg[e].ans \notin purged

\* An entry never claims a newer index than the oldest one its answer was drawn from: the manifest
\* and BM25 are each read once in a process, in this order, since a request that uses the cache
\* loads the manifest before it retrieves.  Hence only while no call has failed (a first load that
\* fails leaves the manifest to the write) and no request has skipped the cache.
TagsAreHonest ==
    faults = 0 /\ skipped = {} => \A e \in Stored : pg[e].man <= gen[pg[e].ans]

\* The lock is held by exactly the task inside an `async with self._lock` block, which always has a
\* next step, whatever raises there, wherever a lookup is cancelled and whoever restarts: nobody
\* leaves with the lock, waits for it while holding it or works without it.
LockHeldInside == \A r \in Requests : lock = r <=> pc[r] \in Locked

\* r is between the Postgres half and the matrix half of a change.
MidChange(r) == pc[r] \in {"evictGet", "evictRedis", "evictPg", "evictDrop",
                           "victimPg", "victimDrop", "append"}
AtRest == loaded /\ \A r \in Requests : ~MidChange(r)

\* No PostgreSQL call failed in the middle of a change and no operator command ran: either one
\* leaves the matrix and the table apart until the next restart.
Undisturbed == faults = 0 /\ ops = 0

\* The entries whose eviction was cancelled after its commit.
HalfEvicted == {target[r] : r \in {t \in Requests : pc[t] = "cancelled"}}

\* Whenever no task is in the middle of a change, the matrix has one row for each entry and no
\* other, except for an entry whose eviction was cancelled half-way: what is "derived" from the
\* table (docstring of `_ensure_loaded`) misses none of it, whatever overlaps.
NoDrift ==
    AtRest /\ Undisturbed =>
        /\ Stored \subseteq RowIds(matrix)
        /\ RowIds(matrix) \ Stored \subseteq HalfEvicted
        /\ Len(matrix) = Cardinality(RowIds(matrix))

\* The answers some copy of which can still be served.
Available ==
    {pg[e].ans : e \in Stored}
    \cup ({redis[q] : q \in Questions} \ {None})
    \cup {copy[r].ans : r \in {t \in Requests : copy[t] # None}}
    \cup {r \in Requests : pc[r] \in WritePhases}

Abstract == INSTANCE AnswerCache WITH available <- Available, outcome <- served

\* Behind two tiers, a matrix and a lock the cache only ever serves fitting answers that some
\* copy has kept alive since they were generated.
ImplementsAnswerCache == Abstract!Spec
=============================================================================
