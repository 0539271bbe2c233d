# A specification of the Campus RAG backend

TLA+ modules, TLC instances and TLAPS proofs for the program under `src/`: a question-answering service over
university documents (FastAPI, Postgres, Redis, Pinecone, OpenAI) with a React client. The code is the reference;
every definition translates the lines that `PROJECT.json` maps it to.

## 1. The system

| Component | State it keeps | Operations | What makes it correct |
|---|---|---|---|
| Answer cache (`caching/store.py`, `redis_hot.py`, `keys.py`) | rows of `cache_entries`; an in-memory matrix derived from them; Redis keys; `_current_manifest`; an asyncio lock | lookup in two tiers, hit, lazy expiry, write-behind, eviction at capacity | an answer fits its question; tiers and matrix agree; one entry per question; capacity |
| Cache operator command (`caching/run.py`) | none, works on the two stores from another process | `--flush`, `--delete-query` | what was deleted stays deleted |
| Session memory (`memory/service.py`, `window.py`) | `sessions` row (total tokens, summary, fold pointer), `messages`, write-behind tasks, one asyncio lock per session | persist question, load window, fold, persist answer, archive | exact running total; question before answer; every pair either in the summary, waiting or in the window |
| Ask transport (`api/ask.py`) | one request | SSE or JSON turn, busy refusal, timeout, disconnect | a session is locked only while a turn runs; turns end |
| RAG pipeline (`rag/baseline.py`) | one request; context variables for what stages report | cache lookup, rewrite, retrieval, refusal, generation, citations, write-behind | stages paired on every path; one attempt of the generation reaches the client; only clean answers cached |
| Retrieval etc. (`rag/hybrid.py`, `rerank.py`, `compression.py`, ...) | none across requests | rank fusion, reranking, compression to a token budget, degradation | bounds and order of what is kept; `[n]` names the chunk the prompt showed as n |
| Ingestion (`ingestion/`) | `documents` rows, raw files, extracted JSONL | registry upsert, download, drift check, extraction | status, checksum and artifact describe the same content; recorded content is never silently replaced; a run ends |
| Indexing (`indexing/`) | Pinecone vectors, `chunks` rows, `bm25.pkl`, manifest | index, wipe, rebuild, reconcile | the four stores describe the same chunks |
| Authentication (`auth/`) | users, refresh tokens, reset tokens, login attempts | register, login, rotate, reset, logout | one live session per login; a reset ends the sessions it saw; the lockout is passed by no more than what runs at once |
| Rate limiter (`core/ratelimit.py`) | Redis counters | count, reject, fail open | at most the limit per window |
| Observability, evaluation, migrations, settings | log rows, reports | write-behind rows, offline scripts | - |
| Frontend (`src/frontend`) | tokens, chat threads, sessions | refresh, ask, abort, session creation | the page never spends its own session; a question goes to the chat it was asked in; calls and turns settle |

How they interact: a turn (`api/ask.py`) takes the session's lock, stores the question and loads the memory, then
drains the pipeline, which consults the answer cache before it retrieves anything. After `done` two tasks are left
behind, one that stores the answer in the transcript and one that stores it in the cache. The indexing command
changes the manifest under a running API process; the operator's cache command changes Postgres and Redis but has
no access to the matrix or the locks of that process. Ingestion writes the rows and files that indexing reads. The page's
calls carry an access token that names a row of `refresh_tokens`, which rotations, logouts and resets revoke while calls
are under way. The backend runs on one event loop per process, so the
interleaving points are the awaits, and the shared state between processes is Postgres and Redis.

The behaviours that are hard here: code between two awaits that relies on what was read before the first; tasks that
outlive their request; several stores changed in sequence with a failure swallowed in between; database transactions
whose timestamps are those of their start; row locks that order transactions but not their snapshots; files overwritten
before the row that describes them is committed; context variables that a task's parent does not see; restarts that lose tasks. They are listed line by line under `hazards` in
`PROJECT.json`.

## 2. Modules

| Module | Models | State |
|---|---|---|
| `AnswerCache` | abstract: what the cache promises a caller | the questions, the answers still available, the outcome of each request |
| `SemanticCache`, `MCSemanticCache` | `caching/*`, the cache seam of `rag/baseline.py` | both tiers, matrix, manifest, lock, control point of every request, operator command |
| `SemanticCacheProofs` | theorems about `SemanticCache` | |
| `SessionMemory`, `MCSessionMemory` | `memory/*`, the memory path of `api/ask.py`, `db/session.py` | session row, transcript, row lock, asyncio lock, control point of every turn |
| `SessionMemoryProofs` | theorems about `SessionMemory` | |
| `Indexing`, `MCIndexing` | `indexing/run.py` and the modules it calls | documents, Pinecone, chunks table, `bm25.pkl`, manifest, the command's progress |
| `IndexingProofs` | theorems about `Indexing` | |
| `AuthTokens`, `MCAuthTokens` | `auth/service.py`, the reset links of `core/security.py`, the auth router | password versions, `refresh_tokens`, attempts in the window, reset links, requests |
| `AuthTokensProofs` | theorems about `AuthTokens` | |
| `AuthClient`, `MCAuthClient` | `api/client.ts`, `auth/AuthContext.tsx`, composed with `AuthTokens` | both tokens, calls, the shared refresh, the user |
| `AuthClientProofs` | theorems about `AuthClient`, on top of `AuthTokensProofs` | |
| `Chat` | `sessions/useSessions.ts`, `chat/useAsk.ts`, `pages/Chat.tsx` | session shown, creates in flight, turns, stream, lock |
| `ChatProofs` | theorems about `Chat` | |
| `Retrieval` | pure: fusion, merging, reranking, refusal, compression, citations | none |
| `Pipeline`, `MCPipeline` | `rag/baseline.py` and the drivers of its stages | one request: stage, flags, chunks, events and tokens sent |
| `PipelineProofs` | theorems about `Pipeline` | |
| `Ingestion`, `MCIngestion` | `ingestion/run.py`, `downloader.py`, `status.py`, `serialize.py`, the routing of `loaders/legacy.py` | upstream contents, `sources.csv`, rows, raw files, JSONL, one task per document |
| `IngestionProofs` | theorems about `Ingestion` | |

### SemanticCache

One action is the code between two awaits. `pc[r]` is where request `r` stands: the exact tier (`redis`), the
semantic tier (`lookup`, `loadL`, `hitRead`, `hitCommit`, the four steps of `_evict`), generation, then the
write-behind (`write`, `loadW`, `select`, the capacity eviction, `insert`/`update`, `append`, `wredis`).
`loaded` is `_matrix is not None`, `matrix` the row-parallel arrays in their order, `curMan` is `_current_manifest`,
`lock` the holder of `_lock`. Cosine similarity is abstracted to three outcomes (same question, same topic, other)
and `Disc` is `keys.discriminators`. A manifest id is the number of the index generation, since `manifest_id`
hashes the manifest and so changes exactly when it does. `hits` is dropped (a statistic); `last_hit_at` and
`created_at` are logical times because the victim of an eviction depends on their order.
An entry and its answer are named by the request that produced them, so ids are never reused, as UUIDs are not.
Failures: every Postgres call of a lookup or write can raise (`LookupFault`, `WriteFault`) and every Redis call can
fail silently, up to `MaxFaults`. `Cancel` ends a lookup or a generation at any await, as `asyncio.timeout` and a client
that disconnects do; `except Exception` does not catch it, the lock is released, and what was committed stays. It is no
fault and has no bound. A restart may come between any two steps.

An answer comes from two indexes: the dense one as it is, and BM25, which the first retrieval of a process loads and keeps
(`bm25`, `SparseRead`, `SparseKeep`). `gen[r]` is the older of the two, `skipped` the requests with `skip_cache`, which
read and write no tier but do load BM25. The exact tier serves what Redis has without looking at a manifest, as the code
does.

`Available` and `served` map it to `AnswerCache`: a request either computes its own answer or is served a fitting one
of which some copy (row, Redis value, row read by a hit, answer on its way to be written) has existed ever since.

### SessionMemory

One session. `view[t]` is the `Session` object turn `t` holds, `row` the committed row, `stored` and `at` the messages
and their `created_at`. Postgres's `now()` is the start of the transaction, so `InsertUser` stamps a JSON turn's
question with the time of `Resolve` and a streamed one's with that of its own transaction; a message becomes visible
at commit. `rowLock` is the row lock the UPDATE of `total_tokens` takes; a write-behind's UPDATE comes before its
INSERT because the sessionmaker does not autoflush. In a streamed turn the request's `get_session` has exited before
the body runs, hence `Commit` writes `folded` summaries of JSON turns only, and a transaction that the body began is rolled
back by nobody if the turn is cut off: `Rollback` is something the turn will do only in JSON mode. A message counts one token and a summary
is the sequence of messages folded into it, which is what lets "folded twice" and "missing" be stated.

### Indexing

One action is a call to a store or a commit. `vectors` and `chunks` map chunk ids (document, position) to the text they
hold; a text is named by the version of the extracted document and the strategy that split it, and `Size` says how many
chunks it has, so two texts of one document share a prefix of their ids and the longer one leaves a tail. `Wipe` is one
namespace's `delete_all`, which is immediate; the rows of all namespaces go in `WipeCommit`, which is the code's order.
`UpsertFails` stands for any exception before the commit: of the batches in flight an arbitrary subset of vectors
arrives. `CommitFails` rolls back, or reports a failure of a commit that was carried out. `Die` is an uncaught exception
or the end of the process anywhere, including between opening `bm25.pkl` or the manifest and writing it. `Extract`,
`Reject` and `Misplace` are ingestion between and during runs. Retries inside a call, embeddings and costs are left out.
The history variable `torn` names the namespaces whose wipe deleted vectors and has not committed the rows; `clean` says
that no call of the current run failed.

### AuthTokens

Requests are concurrent READ COMMITTED transactions and an action is what one does between two points where others can
run: a bcrypt thread, a row lock, a commit. A request's `phase` implies the row locks it holds, so `Locked(t)` is "some
request is rotating `t`". `ResetUpdate` fixes the snapshot `snap` of an UPDATE when it starts, whatever other resets do: the
sessionmaker does not autoflush, so the new hash is written at the commit only. `ResetCommit` waits for
the rotations of those rows and skips the rows that meanwhile stopped to match, which is what READ COMMITTED does.
A password is the number of times its hash was replaced; that number signs a reset link, so a link is stale after a
reset. Logins and reset mails record their attempts in one column. An address keys its logins, `reset:<address>` its mails, and the
login form accepts that as a username too (`LoginStartAlias`); `recent` therefore counts by `Sources`, what recorded an
attempt, and `Failures` adds those that share a key. An attempt that leaves the window is `AttemptAges`. The columns a property needs and the table lacks are history:
`root` (the login a chain of rotations began with), `under` (the password version that login was checked against) and
`reached` (the sessions a committed reset could see).

### AuthClient

One page, EXTENDing `AuthTokens`, so that its refresh is `RotateSelect` and `RotateCommit` of that module and its logins
and logouts change the same rows. A call goes `sent`, `answer`, and after a 401 `waiting`, `resent`, `reanswer`; the
refresh in flight is shared, as `refreshInFlight` is. A request and its answer travel for any time. `overdue` are the
access tokens past `exp`, a session ending elsewhere is `EndElsewhere`; answers of calls and refreshes can be lost and
the page reloaded. `disturbed` remembers that a refresh was cut off or the session ended elsewhere, cases in which the
page cannot know that its token is dead.

### Chat

`sessionId`, `selection` and `creating` are the ref and state of `useSessions`; a create in flight remembers the
selection it was made under. `stream` is the one run of `useAsk` that is not aborted, `turns` the thread; what streams
into a turn is left out because it changes no status. `deleting` keeps the `sessionId` of the render in which the user
clicked, since the handler compares with that one. `at`, `under` and `orphan` of a turn are history.

### Retrieval and Pipeline

`Retrieval` translates the algorithms: reciprocal rank fusion of the dense and the lexical list, the merge of the
fan-out, the top-k rules with their stable ties, the two refusal gates, the compression stages (dedupe, relevance floor,
token budget with trimming) and the resolution of `[n]` markers. A score is an integer, `1 / (k + rank)` is
`Unit \div (k + rank)` with a common multiple as `Unit`; a text is the set of sentences it still holds, each with a
token count. No operator is `RECURSIVE`: a loop is a recursive function, a sort is the `Place` each position takes in it.
`Whole` is a candidate whose text is its chunk's, `Lists` any lists of those. What Pinecone returns may name a chunk several
times, within a namespace or in two of them: a document whose organisation changed keeps the vectors of its old namespace.
Fusion and merging deduplicate as the code's dicts do (`Firsts`: the first position; the last copy in `RrfFuse`, the first in
`RrfMerge`), the merge of a dense-only retrieval does not.

`Pipeline` is the generator of `rag/baseline.py`: `phase` is the stage it stands in, `sent` the stage frames and
terminal events it has yielded, `tokens` the tokens with the attempt that produced them. Providers succeed, fail with a
429 (retried as `call_with_retry` and `_stream_chain_with_retry` do) or otherwise. `flag` is the context variable
`_DEGRADED` as the request's own context sees it: with a rewrite the retrievals are tasks with a copy of the context, so
the flag they set is not the one the pipeline reads. `lost` is history: no query of the retrieval in use got its dense half.
Any subset of the sparse hits may hydrate, and any subset of the context may have a row when it is cited.
`Close` is a client that leaves or a timeout at any suspension.

### Ingestion

A content, its sha256 and a version label are numbers; upstream and `sources.csv` change at any time (`Publish`,
`Bump`). A run reads the labels and registers every valid row (`Begin`), then each selected document is a task that
queues for the work gate, downloads with retries, overwrites the raw file, checks for drift, extracts, opens and writes
its JSONL (`Torn` between the two) and commits its row, which is one transaction per document: what it will leave in
the row travels in `task`. `Stop` is an exception no task catches, or the end of the process; every open transaction is
rolled back and files stay as they are. `Index` is what the indexing command does to the status. `under` is
history: the label under which a row's content was kept, which the column `version_label` is not, since the registry has
overwritten it by the time a task compares.

### Mutants

Operators such as `WriteAppendOnly` or `RotateSelectPlain` are not part of the models. Each is what a plausible
bug would make of the definition below it; replacing that definition by it violates the property `PROJECT.json` pairs
it with, which shows that the property constrains the code.

## 3. Runs

| Run | Shows | States |
|---|---|---|
| `cache_races` | all safety properties of the cache and the refinement, with cancellations, requests that skip the cache, expiries, a reindexing, and two of a fault, a restart and an operator command | 917k |
| `memory_turns` | safety of a session and that turns end unless a streamed one leaked a lock, with faults, an abandoned turn, an archive and a restart | 49k |
| `index_runs` | what a manifest, a row, the sparse index and a wipe mean over two runs with faults | 1.7M |
| `auth_sessions` | one live session per login, what a reset ends, how far the limits can be passed, also under a shared key | 1.6M |
| `auth_client` | a page never spends its own session; every call settles | 385k |
| `chat_turns` | a question goes where it was asked; the selection stands; a run settles its turn | 340k |
| `pipeline_ask` | one question under every combination of toggles, provider failures and disconnects | 156k |
| `ingest_runs` | status, sha256, raw file and JSONL over two runs with edits of content and label, failures and a stop; every run ends | 481k |
| `memory_sse`, `index_counts`, `chat_composer`, `pipeline_degraded` | violated, one property each: see section 6 | |

Bounds. The cache run has two requests, one entry left by an earlier process, three questions of one topic of which one
differs in a discriminator, and a capacity of one, so that every write of a second question evicts. Every race of the
code involves at most two tasks and one row. `MaxFaults`, `MaxOps`, `MaxRestarts` (one each), `MaxUpsets` (two of them
together) and `IndexBound` (one rebuild) cap the environment only; cancellation and `skip_cache` have no bound. With a
capacity of one an eviction has no choice of victim; the theorems hold for every capacity and any choice among the
coldest. The memory run starts from four pairs with
a window of two, a fold every two pairs and a budget of eleven messages, so that within two turns a fold becomes due by
count, one by budget, and a lost answer is possible. The indexing run has a document in each namespace, two versions
(two chunks, then one), both strategies, two runs of the command and two faults: enough for a partial, interrupted or
failed run to be followed by any other. `auth_sessions` has one account (accounts share no row), two requests and three
tokens: a login, a rotation of its session and a rotation, login or reset beside it, the password replaced up to twice
and limits of one, so that two requests together pass a limit. `auth_client` has two calls that can meet a 401 together,
a refresh that races a logout or a second login, and one fault. `chat_turns` has two questions, two creates, one session
that was there before, three selections and three runs: a create in flight at a selection, a second one after it, two
questions that wait for one create, and a retry that aborts another question; `chat_composer` has no creates and one
selection. `pipeline_ask` has three chunks of two documents, two of them alike, searches that find two, one or none of
them per namespace and one chunk in both, a `MinChunks` of two and a budget of four tokens against six to nine in the
chunks, so every compression stage both drops and keeps; all 32 combinations of the toggles. `ingest_runs` has a
document that can be loaded and one that is a legacy binary, one place in the work gate, two attempts, two runs, two
edits (new content under the old label, under a bumped one) and one stop. Requests, tokens and the two questions that
differ in wording only are symmetric in the pure safety runs; no symmetry is used where liveness is checked.

Deadlock is checked in `auth_sessions`. Elsewhere `CHECK_DEADLOCK FALSE`: requests, turns, questions and runs are
one-shot or bounded, so these systems do come to rest.

Fairness. `memory_turns`: a turn that has begun has its awaits return (`WF`), a JSON turn cut off is rolled back when
its request ends (`WF`; nothing of the kind for a streamed one, so `TurnsEnd` excuses the turns behind a lock that one
leaked, and while it is leaked only), and Postgres grants the row lock to those waiting (`SF`). `auth_client`: the
browser runs its callbacks and the server its requests (`WF` of a call's steps, of the refresh, of a rotation's commit).
`chat_turns`: the stream goes on, a create is answered or fails, the lock's timer fires (`WF`). `ingest_runs`: the
awaits of a task return and a finished run reports (`WF`). A download has a timeout; the subprocesses of OCR and of the
legacy conversion (`ocr.py:56`, `legacy.py:43`) are given none, so that they return is an assumption about those
programs. Nothing is assumed of faults, operators, expiries, restarts or users.

## 4. Proofs

`SemanticCacheProofs` proves for every number of requests, entries and questions, every capacity and every bound, from
`ConstantsAssumption` and the finiteness of the sets of requests and seeds, everything `cache_races` checks: the type
invariant, the nine safety properties and the refinement of `AnswerCache`.

It goes in three layers. The first invariant, `IInv`, gives `TypeCorrect`, `AnswersFit`, `HitsCurrent`, `OneEntry`,
`EntriesVisible`, `LockHeld` and `TableStaysBounded`; it adds what the code relies on without saying so:

- `LockInv`: the lock's holder is exactly the task inside an `async with self._lock` block, so at most one task is
  between SELECT and append;
- `TargetInv`, `KeyInv`, `MatchInv`, `AskedInv`: what a task carries from one await to the next - the row it matched is
  about a fitting question, an entry never changes its question, a request in flight has one;
- `UnbornInv`, `AbsentInv`: an id is not stored before its writer inserts it, and the writer at `insert` has seen that no
  entry for its question exists and nobody else can add one while it holds the lock;
- `LoadInv`, `DropInv`: a row is dropped from a matrix only once its entry is gone or is its dropper's own;
- `CurrentInv`: a matched row tagged with the loaded manifest belongs to an entry that is tagged no differently, for as
  long as the match is in use;
- `RoomInv`: a writer at `insert` has room for one more entry. The code compares the number of matrix rows with the
  capacity; since the matrix misses nothing (`EntriesAreVisible`), the table is no larger than the matrix.

The second, `JInv`, is inductive given the first and is what faults, operators and reindexing leave intact:

- `WrittenInv`, `PurgeInv`: an entry holds a request's answer only once that request's write has committed, so no write of
  an answer that is being deleted is still to come (`PurgedStaysOut`);
- `GenInv`: while no call has failed, whoever uses the cache answers after the manifest was loaded; and if nobody skips the
  cache either, the manifest was loaded before BM25, so it is no newer than either index of an answer (`TagsHonest`). A
  request with `skip_cache` loads BM25 without the manifest, which is why the property excepts it;
- `RowsInv`, `StaleInv`: while nothing failed and no operator ran, every row has an entry, a task about to drop it, or an
  eviction that was cancelled before the drop; and an entry of another manifest than the loaded one is alone with its
  question, so that eviction is all that can happen to it (`MatrixFollowsTable`).

The third is the refinement, `Refines`: an answer is served by the last step of a lookup only (`UnservedInv`), what is
served was available, and every other step passes on what there was (`Dwindles`) unless a request generates its answer; so
each step is a step of `AnswerCache` under the mapping of `SemanticCache`, or a stutter.

The proof has one lemma per action, and one per invariant that the action can disturb; theorems combine them with
`PTL`. A recursion-free module keeps all of it in reach of the SMT backend.

`IndexingProofs` proves all five properties of `index_runs` for any set of documents, any split of them into chunks, any
number of runs and faults, from `ConstantsAssumption` (finitely many documents and strategies). The invariant adds:

- `DocInv`, `TodoInv`, `StartInv`: a document in hand belongs to the run, is split with its strategy, is done once;
- `WrittenInv`, `ResultInv`: at the commit the vectors are there, and a document with a result has exactly its chunks in
  both stores until the next run begins;
- `ReconciledInv`: past the reconciliation every row of the run's namespaces belongs to a document with a result. This is
  why comparing two totals is enough: the chunks counted are among the rows (`CountedPresent`), both sets are finite
  (`IdsFinite`), and equal cardinality makes them the same set;
- `WipingInv`, `FreshInv`: as a wipe advances the namespaces behind it are empty, and afterwards the stores hold only what
  this run wrote, which is why such a run always reconciles.

`SessionMemoryProofs` proves `TokensExact`, `LockHeldByRunningTurn`, `QuestionsFirst`, `SummaryOnce` and `LoadFitsHistory` for
any number of turns, any history and any window, fold size and budget that `ConstantsAssumption` allows. The invariant adds:

- `TimesInv`: a message has the time of one transaction and no other message has it, so `created_at` orders the transcript
  totally;
- `Sound`: the persisted summary folds stored messages, each once, none later than `summary_upto_message_id`;
- `CopyInv`, `BatchInv`: so does the copy a turn carries, whatever others have committed since, and the rows it loaded to
  fold lie past that copy's own boundary, in order. Folding therefore never repeats a message (`FoldSound`), and a turn
  that overwrites the row with an older copy leaves a sound summary, if a shorter one;
- `StoredInv`: which messages of a turn may be stored at which point of it.

`LoadFitsHistory` needs a second one, `LoadInv`: from the count of its question to its commit a turn holds the row lock, so
no other turn or write-behind commits a message meanwhile; what others insert or stamp without committing it is not among
the rows this turn reads (`Reads`, `LoadStands`), and what it loaded is still what its queries would return. The rest is
arithmetic on lists. A list of a set by `created_at` has each message at its rank, so there is only one (`OneList`), and a
slice of it lists what lies between two times (`SliceLists`); an alternating transcript is `P` pairs and the question
(`Full`), a summary that is a prefix of it ends where its boundary cuts (`Known`), so the rows past the boundary, the rows
of the window and the pairs assembled from them are slices of one list (`RowsFacts`, `ShownFacts`). Ranks are counted with
`Cardinality` throughout, which replaces the induction a sort would need.

`AuthTokensProofs` proves `OneLivePerChain`, `ResetEndsWhatItSaw`, `OvershootBounded` and `ChainsKeepTheirUser` for any
accounts, tokens, number of requests and limits. `RotationInv` is the reason for the first: a rotation holds the row lock
of the only session of its chain that may be live, and no two rotations hold rows of one chain, so a second one finds its
row revoked. `ChainInv` says where a session comes from; `ReqInv` and `SeenInv` that what a request read exists when it
uses it. `OvershootBounded` is inductive by itself because it counts what is under way together with what is recorded, per source
and, for the key that reset mails and alias logins share, for both sources together: a request is admitted below the limit,
and admitting or recording leaves the sum within what the requests can add. `ResetEndsWhatItSaw` needs no order between a
reset's UPDATE and anything else: the rows it waits for are revoked when it reads them again.

`AuthClientProofs` proves `KeptTokenIsLive` and `NeverLosesToItself` for any number of calls, sessions, requests and faults,
on top of the invariant of `AuthTokensProofs`, which it does not need to repeat: every step of the page is one of those
actions or leaves the sessions alone. `RotatingInv` says that the only rotation under way is of the session the page sent,
which is what sharing one refresh buys; `GrantedInv` that a session granted to a login is live and known to nobody but the
answer on its way; `KeptInv` that the session the page keeps was never rotated and is live unless a logout of this page,
which keeps the tokens until it has answered, is under way. A reload during a refresh or a logout makes the page forget
both and counts as `disturbed`, like a session that ends elsewhere.

`PipelineProofs` proves `TypeOK`, `OneAttemptIsSent`, `MarkersNameTheirChunk`, `StagesPair`, `CleanWrites` and
`CompressionKeepsEnough` for any toggles, searches, scores, answers, limits and numbers of retries. `TrailInv` names, for
each phase, the stages that may be open and those that have been; a frame either opens a stage that was not seen
(`StartKept`) or opens none (`PlainKept`). `TokensInv` is the attempt the sent tokens come from, `AnswerInv` that an answer
has citations into the chunks of the prompt, `DegradedInv` that without a rewrite the signal the pipeline reads is the loss
that happened.

`CompressionKeepsEnough` and `TypeOK` need what the algorithms compute for lists of any length, from `TextsAssumption` (a
finite corpus, no chunk without a sentence), `LimitsAssumption`, `FoundAssumption` (a search returns lists of candidates,
whatever they name) and `WidthsAssumption`. `PoolInv` says that `pool` is one of `Lists`, without repetition (`Once`) if it
was fused or merged, and that the prompt shows a `Compressed` of it: an increasing map into the pool, each text a nonempty
part of the chunk's, nothing else changed, at least the minimum of them, and within the budget but for the last. The lemmas:

- `Climbs` is induction about a set of numbers, not a predicate, so it can be instantiated; it comes from the least member
  of a set (`WFMin`). `Recursion` gives the function a loop defines, from one step function per position. With these
  `Total` is a running sum (`TotalSums`), and a list that picks members of another, none made larger, has no larger total
  (`TotalOfPicked`);
- `PlaceFacts`: the places of a sort are a bijection, by counting, ties included. So sorting permutes, the best
  first (`SortedOrder`), the n best are n or all (`BestFacts`), and keeping positions lists them in order (`KeepFacts`).
  Theorem `RerankKeepsBest` follows: no candidate the reranker drops was scored above one it keeps;
- `FirstsFacts`, `LastFacts`: what the dicts of the code keep of a list with repetitions. `FusePool`, `MergedPool`,
  `RerankPool` and `GatheredPool`: what is fused or merged names no chunk twice (theorem `PooledOnce`), whatever is found,
  lost or hydrated, and reranking passes that on. Dense-only retrieval may repeat a chunk, and the theorem leaves it out;
- `DedupeSelects`, `FloorSelects`: what the two filters top up reaches the minimum. `Filled` is the loop invariant of
  `token_budget_fill`: the kept chunks are a shortened prefix, which ends early only once it has the minimum
  (`FillStepFacts`); `TrimFacts` that a trimmed text keeps the sentence liked best, so it is never empty.

`IngestionProofs` proves `ExtractedIsReadable` and `RecordedContentStands` for any documents, places in the work gate,
attempts and runs. `KeptInv` is what the drift check buys for the rest of a task: the content in hand is the recorded one
if one is recorded, and that of the raw file. It needs `LabelInv`, that the row already carries the label the check compares
with; for that very reason a bump changes nothing, and the proof shows recorded content to stand whatever the label (section
6), where `RecordedContentStands` claims it of unbumped labels only. `ClosingInv` is the agreement of what a task is about to
commit with the row, the raw file and the JSONL, `OnInv` that no task outlives its run.

`ChatProofs` proves `SelectionStands` and `PostedWhereAsked` for any number of questions, sessions, selections and retries.
`CreatesInv` says that a create made under the current selection was made because nothing is selected, `JoinInv` that the
create a first question would join is one of those, `TurnInv` that a turn waits for, or was posted to, a session made for
its own selection. `BoundsInv` is there only because the model bounds the selections.

Only model-checked is all liveness: `TurnsEnd`, `CallsSettle`, `RunSettlesItsTurn`, `RunsEnd` (this
prover reasons neither about fairness nor about `ENABLED`). Every invariant and every action property that a passing run
checks is a theorem.

## 5. Not modelled

The table of components in `PROJECT.json` lists every part with its status.

- Document loaders, cleaning and OCR, chunkers: parsing of third-party formats without shared state. `Ingestion` and
  `Indexing` take their outcome as given or failed.
- Authentication beyond sessions and passwords: API keys, `is_active`, the domain allowlist, mail delivery. Several
  browser tabs sharing one refresh token: the page of `AuthClient` is the only one that uses its token.
- The rate limiter: INCR, then EXPIRE, per fixed window. A failure between the two leaves a counter without expiry, and
  the TTL call after the limit is outside the `try` (`ratelimit.py:47`), so a Redis error there is not fail-open.
- Observability (write-behind rows, statistics), the evaluation harness (offline), migrations, settings, the other
  routers (reads), rendering and admin pages, deployment.
- In modelled parts: an embedding of norm zero and a corrupt Redis value (it becomes a miss like an absent one); two API
  processes on one database (each is a copy of the model whose others look like operators that also write); several
  sessions in `SessionMemory` (they share no state but the tables); the `bm25_only` mode and the contents of prompts.

## 6. Where code and documents disagree

- `memory_sse`: the streamed turn's `Session` is detached (FastAPI closes `get_session` before the body is sent), so
  `apply_summary` does not "persist the extended rolling summary" (`service.py:138`); each turn folds again.
- `index_counts`: a document extracted anew with fewer chunks and indexed again keeps the vectors of its old tail in
  Pinecone. The reconciliation compares the rows with this run's own results and never asks Pinecone, so the manifest is
  written, against "shall keep Pinecone vector count == Postgres `chunks` count per namespace after a successful run"
  (`docs/specs/f2-indexing/requirements.md:119`). A `--wipe` run repairs it (theorem `WipeRepairs`).
- `chat_composer`: "WHEN `done` arrives, THE SYSTEM SHALL re-enable the composer" (`docs/specs/f14-frontend/requirements.md:138`).
  The retry of an older card aborts a newer turn's stream (`useAsk.ts:148`), whose run then returns without a dispatch
  (`useAsk.ts:198`): that turn stays "streaming" and the composer disabled. `RunSettlesItsTurn` says that nothing but such an
  abort leaves a turn unsettled.
- `pipeline_degraded`: with query rewriting on, the retrievals of the fan-out are tasks whose context variable is a copy. In
  the run, with hybrid retrieval and reranking on too, no query of the fan-out gets its dense half, the pool passes the gate
  on its rerank scores, reads as not degraded, and the answer is cached; "a `degraded` answer came from BM25-only and would be
  frozen in at full confidence" (`baseline.py:413-415`). `CleanWrites` says what holds without a rewrite.

Seen while modelling, with no run of their own, by part:

- Cache: a lookup cancelled between the commit and the drop of `_evict` (`store.py:323`, by `ask.py:228`, `258` or a
  disconnect) leaves a matrix row without an entry until a restart, although rebuilding "is what makes matrix/DB drift
  impossible" (`store.py:97`; `NoDrift` excepts exactly that row); BM25 is loaded once per process (`hybrid.py:55`), so after
  a request with `skip_cache` and a reindexing the first cached answer is drawn from the old BM25 and tagged with the new
  manifest (`TagsAreHonest` excepts processes where a request skipped the cache); the exact tier replays what Redis has
  without comparing a manifest (`baseline.py:124`), against "its stored `index_manifest_id` equals the current manifest id"
  (`docs/specs/f9-redis/requirements.md:88`); `_evict` runs without the lock, so a failed call in it while a write updates the same entry in place leaves a
  matrix row without an entry (`store.py:92`, `166`); `redis_hot.set` runs after the lock is released, so a flush in
  between leaves an answer in Redis (`store.py:239`, `280`); a failing first load lets a row be tagged with an older
  manifest than the one its answer was made with; the matrix may exceed its capacity after an operator's flush.
- Memory: an answer whose write-behind begins after the next question sorts behind it, so the transcript does not
  strictly alternate (`window.py:24`); a client gone between the acquisition of the lock and the start of the generator
  that frees it (`ask.py:312`, `218`) leaves the session busy until a restart; a streamed turn cut off after its
  UPDATE of the session's row keeps the row lock, as `get_session` has exited (`TurnsEnd` excuses waiting behind either
  leak); with a total near the budget a JSON turn
  with a stale view can move the fold pointer back; `_load_pending`'s "oldest unsummarised rows are exactly the slid-out
  ones" (`service.py:241`) fails when an answer is late.
- Indexing: a wipe of one namespace with the other strategy, or a death before the manifest, mixes strategies although
  the guard is there to prevent it (AC-25); a document that ingestion marked `failed` while its old chunks remain makes
  every run without `--wipe` end in a mismatch, so the manifest stays the old one although the stores have changed.
- Ingestion: a bumped `version_label` does not let new content in, since the upsert copies the label into the row that
  the drift check compares it with (`run.py:222`, `status.py:31`), although "only bumping `version_label` clears it"
  (`status.py:22-24`), AC-28 (`docs/specs/f1-ingestion/requirements.md:128`) and `test_bumped_label_proceeds` say it does; the raw file is overwritten before the check keeps the prior
  artifacts (`downloader.py:164`), although "the raw/JSONL files from the last good run are never overwritten"
  (`run.py:111-115`): the document is then `failed` (`ExtractedIsReadable`); one uncaught exception ends the whole gather although a failure is meant to be one document's
  (`run.py:6`, `241`); the legacy conversion can not be reached with the suffixes the downloader writes (`legacy.py:38`,
  `downloader.py:154`); a torn JSONL of an `extracted` document is skipped by every routine run, while an `indexed` one
  is downloaded anew (`run.py:74`).
- Authentication: a rotation that holds its row while a reset starts leaves a successor that the reset does not see
  (`service.py:155`, "every existing session dies with it"); a login whose password was checked before a reset commits opens a session afterwards; two resets
  with one link both succeed when they overlap; a login form filled in with `reset:<address>` counts against the mails of that
  address (`service.py:98`, `123`), up to the limit of logins.
- Page: a refresh that answers after a logout stores its tokens again (`client.ts:43`, `AuthContext.tsx:93`); a 401 that
  arrives after the shared refresh has ended starts another one, which spends the token of a call that is being repeated,
  and the page logs out although its session is good (`client.ts:90-98`).
- Chat: a network failure in the middle of an answer ends as "failed", not "interrupted"; the `finally` of an older
  create forgets a newer one (`useSessions.ts:39`); a
  delete compares with the session of an old render (`Chat.tsx:75`).

## 7. Status and plan

Done: the cache with its abstract specification and proofs, session memory, indexing with its proofs, ingestion, sessions
and their page, the chat page, the pipeline with the algorithms of its stages, and proofs of every
safety property the runs check and of the refinement. Next, in this order: a
composition of `Ingestion` with `Indexing` over one registry; the rate limiter's windows; two pages that share one refresh
token.
