---------------------------- MODULE SessionMemory ----------------------------
(***************************************************************************)
(* The memory of one chat session (memory/service.py, memory/window.py)    *)
(* and the turns that use it (api/ask.py): the per-session asyncio lock,   *)
(* the session row and its row lock in Postgres, the transcript, the       *)
(* rolling summary and the write-behind of the answers.                    *)
(*                                                                         *)
(* One action is the code between two awaits, except that reads which no   *)
(* commit can separate are one action.  A message is named by its role and *)
(* turn and counts one token; a summary is the sequence of the messages    *)
(* folded into it.  A transaction's messages carry the time it began       *)
(* (created_at is now()), so a message may appear later than its time.     *)
(***************************************************************************)
EXTENDS Naturals, SequencesExt

CONSTANTS
    Turns,        \* asks of this session, one question each
    History,      \* pairs the session already holds
    Window,       \* settings.MEMORY_WINDOW_PAIRS
    KeepLast,     \* settings.MEMORY_KEEP_LAST_PAIRS
    Every,        \* settings.MEMORY_SUMMARIZE_EVERY_PAIRS
    Budget,       \* settings.MEMORY_TOKEN_BUDGET, in messages
    Modes,        \* responses asked for: "sse", "json"
    None,
    MaxFaults,    \* calls that fail, streams that break
    MaxAbandons,  \* clients gone before the first byte of their stream
    MaxArchives,  \* DELETE requests
    MaxRestarts   \* API process restarts

ASSUME ConstantsAssumption ==
    /\ {History, Budget, MaxFaults, MaxAbandons, MaxArchives, MaxRestarts} \subseteq Nat
    /\ {Window, KeepLast, Every} \subseteq Nat \ {0}
    /\ KeepLast <= Window
    /\ Modes \subseteq {"sse", "json"}
    \* The history was stored by turns none of which had anything to fold.
    /\ History <= Window + Every /\ 2 * History <= Budget
    /\ Turns \cap (1..History) = {} /\ IsFiniteSet(Turns)
    /\ None \notin Turns /\ None \notin {"user", "assistant"} \X (Turns \cup (1..History))

Messages == {"user", "assistant"} \X (Turns \cup (1..History))
Question(t) == <<"user", t>>
Answer(t)   == <<"assistant", t>>
Past == {"user", "assistant"} \X (1..History)
IsUser(m) == m[1] = "user"

VARIABLES
    pc, mode,       \* per turn: control point, response asked for
    began,          \* per turn: when its transaction began
    view,           \* per turn: its in-memory Session object
    recent, batch,  \* per turn: the window load and the pairs to fold, as messages
    folded,         \* per turn: apply_summary ran
    ctx,            \* per turn: the MemoryContext given to the pipeline
    lock,           \* holder of the session's asyncio.Lock
    row,            \* the committed session row
    rowLock,        \* the turn whose transaction locked that row
    stored, at,     \* the committed messages; created_at
    clock, faults, abandons, restarts

locals  == <<mode, began, view, recent, batch, folded, ctx>>
tables  == <<row, stored>>
bounds  == <<faults, abandons, restarts>>
vars == <<pc, locals, lock, tables, rowLock, at, clock, bounds>>

Holding  == {"locked", "counting", "loading", "folding", "committing", "streaming"}
Writing  == {"behind", "waiting"}
Terminal == {"refused", "busy", "abandoned", "failed", "broken", "answered",
             "unsaved", "lost"}
Phases   == {"idle", "resolved", "aborted"} \cup Holding \cup Writing \cup Terminal

NoView == [summary |-> <<>>, upto |-> None, tokens |-> 0]
NoContext == [summary |-> <<>>, pairs |-> <<>>, over |-> FALSE]

Init ==
    /\ pc = [t \in Turns |-> "idle"]
    /\ mode \in [Turns -> Modes]
    /\ began = [t \in Turns |-> 0]
    /\ view = [t \in Turns |-> NoView]
    /\ recent = [t \in Turns |-> <<>>] /\ batch = [t \in Turns |-> <<>>]
    /\ folded = [t \in Turns |-> FALSE]
    /\ ctx = [t \in Turns |-> NoContext]
    /\ lock = None /\ rowLock = None
    /\ row = [summary |-> <<>>, upto |-> None, tokens |-> 2 * History, archived |-> FALSE]
    /\ stored = Past
    /\ at = [m \in Messages |->
               IF m \in Past THEN 2 * m[2] - (IF IsUser(m) THEN 1 ELSE 0) ELSE 0]
    /\ clock = 2 * History
    /\ faults = 0 /\ abandons = 0 /\ restarts = 0

Fault == faults < MaxFaults /\ faults' = faults + 1

----------------------------------------------------------------------------
\* The queries and the window rule, over the messages a transaction sees.

\* The elements of S by increasing key; keys differ.
Sorted(S, key(_)) ==
    [i \in 1..Cardinality(S) |->
        CHOOSE x \in S : Cardinality({y \in S : key(y) <= key(x)}) = i]
InOrder(S) == Sorted(S, LAMBDA m : at[m])
Newest(s, n) == SubSeq(s, IF n < Len(s) THEN Len(s) - n + 1 ELSE 1, Len(s))
Oldest(s, n) == SubSeq(s, 1, IF n < Len(s) THEN n ELSE Len(s))
Answers(S) == {m \in S : ~IsUser(m)}

\* The rows of _load_window and _load_pending for turn t.
Visible(t) == stored \cup {Question(t)}
\* Mutation: _load_window forgets the row of the current question.
LoadWindowOneShort(t) == Newest(InOrder(Visible(t)), 2 * Window)

LoadWindow(t) == Newest(InOrder(Visible(t)), 2 * Window + 1)

\* The messages at or before the boundary m; none when there is no boundary.
UpTo(m) == {n \in Messages : m # None /\ at[n] <= at[m]}

\* Mutation: _load_pending reads from the boundary on, not past it.
LoadPendingFromBoundary(t, pairs) ==
    Oldest(InOrder({m \in Visible(t) : view[t].upto # None => at[m] >= at[view[t].upto]}),
           2 * pairs)

LoadPending(t, pairs) == Oldest(InOrder(Visible(t) \ UpTo(view[t].upto)), 2 * pairs)

OverBudget(v) == v.tokens >= Budget
WindowPairs(v) == IF OverBudget(v) THEN KeepLast ELSE Window
SlidOut(t) ==
    LET completed == Cardinality(Answers(Visible(t)))
        kept == WindowPairs(view[t])
    IN  IF completed > kept THEN completed - kept ELSE 0
Summarized(t) == Cardinality(Answers(Visible(t) \cap UpTo(view[t].upto)))
PendingPairs(t) == IF SlidOut(t) > Summarized(t) THEN SlidOut(t) - Summarized(t) ELSE 0
Threshold(v) == IF OverBudget(v) THEN 1 ELSE Every

\* window._pairs: the adjacent (user, assistant) messages.
Pairs(s) ==
    LET starts == {i \in 1..Len(s) - 1 : IsUser(s[i]) /\ ~IsUser(s[i + 1])}
        order == Sorted(starts, LAMBDA i : i)
    IN  [k \in 1..Cardinality(starts) |-> <<s[order[k]], s[order[k] + 1]>>]

\* window.assemble, on what the turn holds in memory.
Assemble(t) ==
    [summary |-> view[t].summary,
     pairs   |-> Newest(Pairs(recent[t]), WindowPairs(view[t])),
     over    |-> OverBudget(view[t])]

----------------------------------------------------------------------------
\* A turn, until its transaction commits.

\* A turn that ends forgets its local variables.
Forget(t) ==
    /\ view' = [view EXCEPT ![t] = NoView]
    /\ recent' = [recent EXCEPT ![t] = <<>>]
    /\ batch' = [batch EXCEPT ![t] = <<>>]
    /\ folded' = [folded EXCEPT ![t] = FALSE]
    /\ ctx' = [ctx EXCEPT ![t] = NoContext]
    /\ UNCHANGED <<mode, began>>

Go(t, phase) == pc' = [pc EXCEPT ![t] = phase]

\* _resolve_owned reads the session row.  A JSON turn stays in this transaction;
\* an SSE turn's ends before its stream starts.
Resolve(t) ==
    /\ pc[t] = "idle"
    /\ Go(t, IF row.archived THEN "refused" ELSE "resolved")
    /\ view' = [view EXCEPT ![t] = IF row.archived THEN NoView
                   ELSE [summary |-> row.summary, upto |-> row.upto, tokens |-> row.tokens]]
    /\ clock' = clock + 1
    /\ began' = [began EXCEPT ![t] = clock + 1]
    /\ UNCHANGED <<mode, recent, batch, folded, ctx, lock, tables, rowLock, at, bounds>>

\* lock.locked(): 409 session_busy.
RefuseBusy(t) ==
    /\ pc[t] = "resolved" /\ lock # None
    /\ Go(t, "busy")
    /\ Forget(t)
    /\ UNCHANGED <<lock, tables, rowLock, at, clock, bounds>>

Acquire(t) ==
    /\ pc[t] = "resolved" /\ lock = None
    /\ lock' = t
    /\ Go(t, "locked")
    /\ UNCHANGED <<locals, tables, rowLock, at, clock, bounds>>

\* The client is gone before the stream's first step: the generator never starts,
\* so its `finally` never runs.
Abandon(t) ==
    /\ pc[t] = "locked" /\ mode[t] = "sse"
    /\ abandons < MaxAbandons /\ abandons' = abandons + 1
    /\ Go(t, "abandoned")
    /\ Forget(t)
    /\ UNCHANGED <<lock, tables, rowLock, at, clock, faults, restarts>>

\* persist_user: the INSERT, in a transaction the SSE turn begins here.
InsertUser(t) ==
    /\ pc[t] = "locked"
    /\ Go(t, "counting")
    /\ IF mode[t] = "sse"
       THEN /\ clock' = clock + 1
            /\ began' = [began EXCEPT ![t] = clock + 1]
       ELSE UNCHANGED <<clock, began>>
    /\ at' = [at EXCEPT ![Question(t)] = began'[t]]
    /\ UNCHANGED <<mode, view, recent, batch, folded, ctx, lock, tables, rowLock, bounds>>

\* persist_user: UPDATE ... total_tokens + tok waits for the row lock; then
\* set_committed_value mirrors the sum of what the turn read.
CountUser(t) ==
    /\ pc[t] = "counting" /\ rowLock = None
    /\ rowLock' = t
    /\ view' = [view EXCEPT ![t].tokens = @ + 1]
    /\ Go(t, "loading")
    /\ UNCHANGED <<mode, began, recent, batch, folded, ctx, lock, tables, at, clock, bounds>>

\* load_memory.  Every commit that adds a message needs the row lock this turn holds,
\* so its four queries see the same transcript.
LoadMemory(t) ==
    LET due == PendingPairs(t) >= Threshold(view[t])
        rows == IF due THEN LoadPending(t, PendingPairs(t)) ELSE <<>>
    IN  /\ pc[t] = "loading"
        /\ recent' = [recent EXCEPT ![t] = LoadWindow(t)]
        /\ batch' = [batch EXCEPT ![t] = rows]
        /\ Go(t, IF rows = <<>> THEN "committing" ELSE "folding")
        /\ UNCHANGED <<mode, began, view, folded, ctx, lock, tables, rowLock, at, clock, bounds>>

\* extend_summary succeeded; apply_summary sets the Session object's attributes.
ApplySummary(t) ==
    /\ pc[t] = "folding"
    /\ view' = [view EXCEPT ![t].summary = @ \o batch[t], ![t].upto = Last(batch[t])]
    /\ folded' = [folded EXCEPT ![t] = TRUE]
    /\ Go(t, "committing")
    /\ UNCHANGED <<mode, began, recent, batch, ctx, lock, tables, rowLock, at, clock, bounds>>

\* memory.summarize_failed: the turn goes on with its window only.
SummaryFails(t) ==
    /\ pc[t] = "folding" /\ Fault
    /\ Go(t, "committing")
    /\ UNCHANGED <<locals, lock, tables, rowLock, at, clock, abandons, restarts>>

\* Mutation: persist_user adds to the total it read (session.total_tokens += n).
CommitOverwritesTotal(t) ==
    /\ pc[t] = "committing"
    /\ ctx' = [ctx EXCEPT ![t] = Assemble(t)]
    /\ stored' = stored \cup {Question(t)}
    /\ row' = [row EXCEPT !.tokens = view[t].tokens]
    /\ rowLock' = None
    /\ Go(t, "streaming")
    /\ UNCHANGED <<mode, began, view, recent, batch, folded, lock, at, clock, bounds>>

\* assemble, then db.commit().  Only a JSON turn's Session object still belongs to the
\* database session, so only its new summary is part of the transaction.
Commit(t) ==
    /\ pc[t] = "committing"
    /\ ctx' = [ctx EXCEPT ![t] = Assemble(t)]
    /\ stored' = stored \cup {Question(t)}
    /\ row' = IF folded[t] /\ mode[t] = "json"
              THEN [row EXCEPT !.tokens = @ + 1, !.summary = view[t].summary,
                               !.upto = view[t].upto]
              ELSE [row EXCEPT !.tokens = @ + 1]
    /\ rowLock' = None
    /\ Go(t, "streaming")
    /\ UNCHANGED <<mode, began, view, recent, batch, folded, lock, at, clock, bounds>>

\* Mutation: the lock is released after the stream instead of in `finally`.
AbortKeepsLock(t) ==
    /\ pc[t] \in Holding \ {"streaming"} /\ Fault
    /\ Go(t, "aborted")
    /\ Forget(t)
    /\ UNCHANGED <<lock, tables, rowLock, at, clock, abandons, restarts>>

\* A failed call, a timeout or a lost client before the commit: `finally` frees the
\* lock; the transaction is still open.
Abort(t) ==
    /\ pc[t] \in Holding \ {"streaming"} /\ Fault
    /\ lock' = None
    /\ Go(t, "aborted")
    /\ Forget(t)
    /\ UNCHANGED <<tables, rowLock, at, clock, abandons, restarts>>

\* Mutation: get_session forgets to roll back.
RollbackForgotten(t) ==
    /\ pc[t] = "aborted"
    /\ Go(t, "failed")
    /\ UNCHANGED <<locals, lock, tables, rowLock, at, clock, bounds>>

\* get_session rolls a JSON turn's transaction back.  A streamed turn began its own on the
\* database session that get_session had already closed: only the collection of that session, if
\* it comes, ends it.
Rollback(t) ==
    /\ pc[t] = "aborted"
    /\ rowLock' = IF rowLock = t THEN None ELSE rowLock
    /\ Go(t, "failed")
    /\ UNCHANGED <<locals, lock, tables, at, clock, bounds>>

----------------------------------------------------------------------------
\* The rest of a turn: the pipeline's stream and the answer's write-behind.

\* A clean `done`: the answer's task is scheduled and `finally` frees the lock.
Finish(t) ==
    /\ pc[t] = "streaming"
    /\ lock' = None
    /\ Go(t, "behind")
    /\ Forget(t)
    /\ UNCHANGED <<tables, rowLock, at, clock, bounds>>

\* A disconnect, a timeout or an `error` event before `done`: no answer is stored.
StreamBreaks(t) ==
    /\ pc[t] = "streaming" /\ Fault
    /\ lock' = None
    /\ Go(t, "broken")
    /\ Forget(t)
    /\ UNCHANGED <<tables, rowLock, at, clock, abandons, restarts>>

\* Mutation: the answer is stamped with the time of its request.
BeginAnswerAtRequest(t) ==
    /\ pc[t] = "behind"
    /\ at' = [at EXCEPT ![Answer(t)] = began[t]]
    /\ Go(t, "waiting")
    /\ UNCHANGED <<locals, lock, tables, rowLock, clock, bounds>>

\* _persist_assistant_guarded: its transaction begins with the UPDATE, which asks for
\* the row lock (the sessionmaker does not autoflush) ...
BeginAnswer(t) ==
    /\ pc[t] = "behind"
    /\ clock' = clock + 1
    /\ at' = [at EXCEPT ![Answer(t)] = clock + 1]
    /\ Go(t, "waiting")
    /\ UNCHANGED <<locals, lock, tables, rowLock, bounds>>

\* ... gets it, inserts the message and commits.
StoreAnswer(t) ==
    /\ pc[t] = "waiting" /\ rowLock = None
    /\ stored' = stored \cup {Answer(t)}
    /\ row' = [row EXCEPT !.tokens = @ + 1]
    /\ Go(t, "answered")
    /\ UNCHANGED <<locals, lock, rowLock, at, clock, bounds>>

\* memory.persist_failed: swallowed, the answer is not stored.
AnswerFails(t) ==
    /\ pc[t] \in Writing /\ Fault
    /\ Go(t, "unsaved")
    /\ UNCHANGED <<locals, lock, tables, rowLock, at, clock, abandons, restarts>>

\* DELETE /api/sessions/{id}: archive.
Archive ==
    /\ MaxArchives > 0 /\ ~row.archived /\ rowLock = None
    /\ row' = [row EXCEPT !.archived = TRUE]
    /\ UNCHANGED <<pc, locals, lock, stored, rowLock, at, clock, bounds>>

\* The process dies: the locks, the open transactions and the tasks go with it.
Restart ==
    /\ restarts < MaxRestarts /\ restarts' = restarts + 1
    /\ pc' = [t \in Turns |-> IF pc[t] \in Terminal \cup {"idle"} THEN pc[t] ELSE "lost"]
    /\ view' = [t \in Turns |-> NoView]
    /\ recent' = [t \in Turns |-> <<>>] /\ batch' = [t \in Turns |-> <<>>]
    /\ folded' = [t \in Turns |-> FALSE]
    /\ ctx' = [t \in Turns |-> NoContext]
    /\ lock' = None /\ rowLock' = None
    /\ UNCHANGED <<mode, began, tables, at, clock, faults, abandons>>

Begin(t)  == Resolve(t) \/ RefuseBusy(t) \/ Acquire(t) \/ Abandon(t)
Store(t)  == InsertUser(t) \/ CountUser(t) \/ LoadMemory(t) \/ ApplySummary(t)
               \/ SummaryFails(t) \/ Commit(t) \/ Abort(t) \/ Rollback(t)
Stream(t) == Finish(t) \/ StreamBreaks(t)
Behind(t) == BeginAnswer(t) \/ StoreAnswer(t) \/ AnswerFails(t)
Turn(t)   == Begin(t) \/ Store(t) \/ Stream(t) \/ Behind(t)

Next == (\E t \in Turns : Turn(t)) \/ Archive \/ Restart

Spec == Init /\ [][Next]_vars

\* Once begun, a turn's awaits return, and the row lock reaches whoever waits for it.  The
\* rollback is certain for a JSON turn only.
Advance(t) == RefuseBusy(t) \/ Acquire(t) \/ InsertUser(t) \/ CountUser(t) \/ LoadMemory(t)
                \/ ApplySummary(t) \/ Commit(t) \/ (mode[t] = "json" /\ Rollback(t)) \/ Finish(t)
                \/ BeginAnswer(t) \/ StoreAnswer(t)
Fairness == \A t \in Turns : SF_vars(CountUser(t)) /\ SF_vars(StoreAnswer(t)) /\ WF_vars(Advance(t))
FairSpec == Spec /\ Fairness
----------------------------------------------------------------------------
\* Properties.

\* Each variable holds a value of its type.
TypeOK ==
    /\ pc \in [Turns -> Phases] /\ mode \in [Turns -> {"sse", "json"}]
    /\ clock \in Nat /\ began \in [Turns -> 0..clock] /\ at \in [Messages -> 0..clock]
    /\ view \in [Turns -> [summary : Seq(Messages), upto : Messages \cup {None}, tokens : Nat]]
    /\ recent \in [Turns -> Seq(Messages)] /\ batch \in [Turns -> Seq(Messages)]
    /\ folded \in [Turns -> BOOLEAN]
    /\ lock \in Turns \cup {None} /\ rowLock \in Turns \cup {None}
    /\ row \in [summary : Seq(Messages), upto : Messages \cup {None}, tokens : Nat,
                archived : BOOLEAN]
    /\ stored \subseteq Messages
    /\ faults \in Nat /\ abandons \in Nat /\ restarts \in Nat

\* The row's running total counts exactly the stored messages, whatever turns, answers,
\* failures and restarts interleave (service.py's two atomic increments).
TokensExact == row.tokens = Cardinality(stored)

\* The session's lock is held by exactly the turn that is inside _memory_events (ask.py's
\* `finally: lock.release()`); only a turn whose response was never started leaves the session
\* busy with nobody in it.
LockHeldByRunningTurn ==
    \A t \in Turns :
        /\ pc[t] \in Holding => lock = t
        /\ lock = t => pc[t] \in Holding \cup {"abandoned"}

\* An answer is stored only for a stored question, and sorts after it in the transcript
\* (persist_user runs before the pipeline, the write-behind after `done`).
QuestionsFirst ==
    \A t \in Turns : Answer(t) \in stored =>
        Question(t) \in stored /\ at[Question(t)] < at[Answer(t)]

\* No message is folded into the stored summary twice, although turns fold from copies of
\* the row that other turns have folded past (apply_summary, _load_pending).
SummaryOnce ==
    \A i, j \in DOMAIN row.summary : i # j => row.summary[i] # row.summary[j]

\* S, in order, is question, answer, ..., question, each answer to the question before it.
Alternates(S) ==
    LET s == InOrder(S)
    IN  \A i \in DOMAIN s : IF i % 2 = 1 THEN IsUser(s[i])
                            ELSE ~IsUser(s[i]) /\ s[i][2] = s[i - 1][2]

\* When the transcript a turn reads alternates and its copy of the summary covers a whole
\* number of its first pairs, load_memory and window.assemble divide the history as the
\* table in window.py says: the summary after the fold, then fewer pairs than the
\* threshold that wait, then the last pairs verbatim; nothing twice, nothing missing.
LoadFitsHistory ==
    \A t \in Turns :
        LET history == InOrder(Visible(t) \ {Question(t)})
            known   == view[t].summary
            pairs   == Len(history) \div 2
            kept    == IF pairs < WindowPairs(view[t]) THEN pairs ELSE WindowPairs(view[t])
            after   == Len(known \o batch[t]) \div 2
        IN  (/\ pc[t] = "folding" \/ (pc[t] = "committing" /\ ~folded[t])
             /\ Alternates(Visible(t))
             /\ IsPrefix(known, history) /\ Len(known) % 2 = 0)
            => /\ IsPrefix(known \o batch[t], history)
               /\ Assemble(t).pairs = [k \in 1..kept |->
                      LET i == 2 * (pairs - kept + k) IN <<history[i - 1], history[i]>>]
               /\ after <= pairs - kept \/ batch[t] = <<>>
               /\ pairs - kept < after + Threshold(view[t])

\* A turn that is over and holds neither the session's asyncio lock nor its row.
Ended(t) == pc[t] \in Terminal \cup {"aborted"} /\ lock # t /\ rowLock # t

\* A streamed turn that is over and still holds one of them: its response was never started, or
\* it was cut off in mid-transaction.
Leaked ==
    \E t \in Turns : /\ mode[t] = "sse"
                     /\ (pc[t] = "abandoned" /\ lock = t) \/ (pc[t] = "aborted" /\ rowLock = t)

\* Every turn that resolved its session ends and leaves both locks free, its answer's write-behind
\* included, whatever calls fail and whoever else waits for the row (ask.py's `finally`,
\* get_session's rollback); only behind a lock that a streamed turn leaked, and for as long as it
\* is leaked, may a turn wait.
TurnsEnd == \A t \in Turns : pc[t] = "resolved" ~> (Ended(t) \/ []Leaked)

\* apply_summary: "Persist the extended rolling summary and advance the fold pointer":
\* once the turn committed, the row holds the summary its prompt was given.
FoldsPersist ==
    \A t \in Turns : pc[t] = "streaming" /\ folded[t] =>
        row.summary = ctx[t].summary /\ row.upto = view[t].upto

=============================================================================
