-------------------------------- MODULE Chat --------------------------------
(***************************************************************************)
(* The chat page: which session the next question is posted to             *)
(* (sessions/useSessions.ts), the turns of the thread and the stream that  *)
(* answers the last of them (chat/useAsk.ts), and the handlers that join   *)
(* them (pages/Chat.tsx).  The browser runs one callback at a time; every  *)
(* `await` lets the user and the other responses in.                       *)
(*                                                                         *)
(* A run of useAsk aborts the one before it, and an aborted run dispatches *)
(* nothing more, so there is one stream.  What streams into a turn (its    *)
(* stages, tokens and citations) is left out: it changes no status.        *)
(***************************************************************************)
EXTENDS Naturals, FiniteSets

CONSTANTS
    Turns,       \* turn ids; the bound on the questions asked
    Creates,     \* POST /api/sessions requests; each names the session it makes
    Saved,       \* sessions of the sidebar that were there before
    MaxEpoch,    \* bound on the selections
    MaxStarts,   \* bound on the runs: first asks and retries
    None         \* null

ASSUME NoneAssumption == None \notin Turns \cup Creates \cup Saved
ASSUME BoundsAssumption == IsFiniteSet(Turns) /\ MaxEpoch \in Nat /\ MaxStarts \in Nat

VARIABLES
    sessionId,   \* the session the page shows and posts to
    selection,   \* the counter selectSession bumps
    creating,    \* the create a first ask would join, or None
    creates,     \* create -> its state, and the selection it was made under
    turns,       \* turn -> its state
    stream,      \* the run that is not aborted
    busy,        \* busyReason: why the composer is locked
    opening,     \* sessions whose transcript is being loaded
    deleting,    \* <<session deleted, sessionId when the user clicked>>
    chosen,      \* the session of the last explicit selection (history)
    starts       \* runs started

vars == <<sessionId, selection, creating, creates, turns, stream, busy, opening, deleting,
          chosen, starts>>

Sessions == Creates \cup Saved

Shown == {"streaming", "done", "refused", "interrupted", "failed"}

\* `at` and `under` are the selection and the session when the user asked, `orphan` says that
\* another run aborted the turn's own (all three are history).
Turn == [status : Shown \cup {"unused", "waiting", "gone"}, create : Creates \cup {None},
         posted : Sessions \cup {None}, at : Nat, under : Sessions \cup {None}, orphan : BOOLEAN]

Create == [state : {"unused", "pending", "made", "failed"}, at : Nat]

Stream == [turn : Turns \cup {None}, phase : {"none", "sent", "open", "error", "done"}]

NoStream == [turn |-> None, phase |-> "none"]

Init ==
    /\ sessionId = None /\ chosen = None /\ selection = 0
    /\ creating = None
    /\ creates = [c \in Creates |-> [state |-> "unused", at |-> 0]]
    /\ turns = [t \in Turns |-> [status |-> "unused", create |-> None, posted |-> None,
                                 at |-> 0, under |-> None, orphan |-> FALSE]]
    /\ stream = NoStream
    /\ busy = None
    /\ opening = {} /\ deleting = {}
    /\ starts = 0

-----------------------------------------------------------------------------
Streaming == \E t \in Turns : turns[t].status = "streaming"

\* The composer is enabled: `!(locked || streaming)`.
CanSend == busy = None /\ ~Streaming

\* patch: a turn that left the thread is not brought back.
Patched(t, status) ==
    [turns EXCEPT ![t].status = IF @ \in Shown THEN status ELSE @]

\* "load" and "reset" replace the turns; asks that wait for their session are no turns yet.
Cleared == [t \in Turns |-> IF turns[t].status \in Shown
                            THEN [turns[t] EXCEPT !.status = "gone"] ELSE turns[t]]

\* run: show the turn, drop the lock, abort the run before.  Nothing settles an aborted turn.
Run(t, record) ==
    /\ starts < MaxStarts
    /\ starts' = starts + 1
    /\ turns' = [u \in Turns |->
                    IF u = t THEN record
                    ELSE IF turns[u].status = "streaming" THEN [turns[u] EXCEPT !.orphan = TRUE]
                    ELSE turns[u]]
    /\ stream' = [turn |-> t, phase |-> "sent"]
    /\ busy' = None

\* Mutant: forgets to drop the create in flight, which a question of the next chat then joins.
SelectKeepsCreate(s) ==
    /\ selection' = selection + 1
    /\ UNCHANGED creating
    /\ sessionId' = s
    /\ chosen' = s

\* selectSession: a create in flight will be neither joined nor followed.
Select(s) ==
    /\ selection' = selection + 1
    /\ creating' = None
    /\ sessionId' = s
    /\ chosen' = s

\* The selections under way stay within the bound.
MaySelect == selection + Cardinality(opening) + Cardinality(deleting) < MaxEpoch

Asked(t) == [turns[t] EXCEPT !.at = selection, !.under = sessionId]

-----------------------------------------------------------------------------
(* The user *)

\* handleAsk with a session: ensureSession returns it and the question is posted.
AskHere(t) ==
    /\ CanSend
    /\ turns[t].status = "unused"
    /\ sessionId # None
    /\ Run(t, [Asked(t) EXCEPT !.status = "streaming", !.posted = sessionId])
    /\ UNCHANGED <<sessionId, selection, creating, creates, opening, deleting, chosen>>

\* handleAsk without one: ensureSession joins the create in flight or posts a new one.  The
\* composer stays enabled meanwhile.
AskFirst(t) ==
    /\ CanSend
    /\ turns[t].status = "unused"
    /\ sessionId = None
    /\ \/ /\ creating # None
          /\ turns' = [turns EXCEPT ![t] = [Asked(t) EXCEPT !.status = "waiting", !.create = creating]]
          /\ UNCHANGED <<creating, creates>>
       \/ /\ creating = None
          /\ \E c \in Creates :
                /\ creates[c].state = "unused"
                /\ creates' = [creates EXCEPT ![c] = [state |-> "pending", at |-> selection]]
                /\ creating' = c
                /\ turns' = [turns EXCEPT ![t] = [Asked(t) EXCEPT !.status = "waiting", !.create = c]]
    /\ UNCHANGED <<sessionId, selection, stream, busy, opening, deleting, chosen, starts>>

\* "Try again" on a card: neither a lock nor another turn's stream disables it.
Retry(t) ==
    /\ turns[t].status \in {"interrupted", "failed"}
    /\ Run(t, [Asked(t) EXCEPT !.status = "streaming", !.posted = sessionId, !.orphan = FALSE])
    /\ UNCHANGED <<sessionId, selection, creating, creates, opening, deleting, chosen>>

OpenSession(s) ==
    /\ s \notin opening
    /\ s \in Creates => creates[s].state = "made"
    /\ MaySelect
    /\ opening' = opening \cup {s}
    /\ UNCHANGED <<sessionId, selection, creating, creates, turns, stream, busy, deleting, chosen, starts>>

\* startNewChat: reset aborts the run, clears the thread and the lock.
NewChat ==
    /\ Select(None)
    /\ turns' = Cleared
    /\ stream' = NoStream
    /\ busy' = None

StartNewChat ==
    /\ MaySelect
    /\ NewChat
    /\ UNCHANGED <<creates, opening, deleting, starts>>

\* handleDelete compares with the sessionId of the render the user clicked in.
Delete(s) ==
    /\ \A d \in deleting : d[1] # s
    /\ s \in Creates => creates[s].state = "made"
    /\ MaySelect
    /\ deleting' = deleting \cup {<<s, sessionId>>}
    /\ UNCHANGED <<sessionId, selection, creating, creates, turns, stream, busy, opening, chosen, starts>>

-----------------------------------------------------------------------------
(* Responses *)

Waiting(c) == {t \in Turns : turns[t].status = "waiting" /\ turns[t].create = c}

\* Mutant: selects the session it made whatever the user selected meanwhile.
CreateDoneTakesOver(c) ==
    /\ creates[c].state = "pending"
    /\ starts + Cardinality(Waiting(c)) <= MaxStarts
    /\ creates' = [creates EXCEPT ![c].state = "made"]
    /\ sessionId' = c
    /\ creating' = None
    /\ \E last \in Waiting(c) :
        /\ turns' = [t \in Turns |->
                        IF t \in Waiting(c)
                        THEN [turns[t] EXCEPT !.status = "streaming", !.posted = c, !.orphan = t # last]
                        ELSE IF turns[t].status = "streaming" THEN [turns[t] EXCEPT !.orphan = TRUE]
                        ELSE turns[t]]
        /\ stream' = [turn |-> last, phase |-> "sent"]
    /\ starts' = starts + Cardinality(Waiting(c))
    /\ busy' = None
    /\ UNCHANGED <<selection, opening, deleting, chosen>>

\* The create answers: its session is selected unless the user selected since, and each ask that
\* waited for it is posted there, the last one aborting the others.  `finally` forgets whichever
\* create is in flight.
CreateDone(c) ==
    /\ creates[c].state = "pending"
    /\ starts + Cardinality(Waiting(c)) <= MaxStarts
    /\ creates' = [creates EXCEPT ![c].state = "made"]
    /\ sessionId' = IF creates[c].at = selection THEN c ELSE sessionId
    /\ creating' = None
    /\ \E last \in Waiting(c) :
        /\ turns' = [t \in Turns |->
                        IF t \in Waiting(c)
                        THEN [turns[t] EXCEPT !.status = "streaming", !.posted = c, !.orphan = t # last]
                        ELSE IF turns[t].status = "streaming" THEN [turns[t] EXCEPT !.orphan = TRUE]
                        ELSE turns[t]]
        /\ stream' = [turn |-> last, phase |-> "sent"]
    /\ starts' = starts + Cardinality(Waiting(c))
    /\ busy' = None
    /\ UNCHANGED <<selection, opening, deleting, chosen>>

\* It fails: every handleAsk that awaited it rejects, and its question is lost.
CreateFails(c) ==
    /\ creates[c].state = "pending"
    /\ creates' = [creates EXCEPT ![c].state = "failed"]
    /\ creating' = None
    /\ turns' = [t \in Turns |-> IF t \in Waiting(c) THEN [turns[t] EXCEPT !.status = "gone"] ELSE turns[t]]
    /\ UNCHANGED <<sessionId, selection, stream, busy, opening, deleting, chosen, starts>>

\* The transcript arrived: select the session and load its turns.  The run goes on, but its turn
\* has left the thread.
OpenDone(s) ==
    /\ s \in opening
    /\ opening' = opening \ {s}
    /\ Select(s)
    /\ turns' = Cleared
    /\ UNCHANGED <<creates, stream, busy, deleting, starts>>

\* "Load BEFORE switching": a failed fetch changes only the error line.
OpenFails(s) ==
    /\ s \in opening
    /\ opening' = opening \ {s}
    /\ UNCHANGED <<sessionId, selection, creating, creates, turns, stream, busy, deleting, chosen, starts>>

DeleteDone(d) ==
    /\ d \in deleting
    /\ deleting' = deleting \ {d}
    /\ IF d[1] = d[2] THEN NewChat
       ELSE UNCHANGED <<sessionId, selection, creating, turns, stream, busy, chosen>>
    /\ UNCHANGED <<creates, opening, starts>>

DeleteFails(d) ==
    /\ d \in deleting
    /\ deleting' = deleting \ {d}
    /\ UNCHANGED <<sessionId, selection, creating, creates, turns, stream, busy, opening, chosen, starts>>

-----------------------------------------------------------------------------
(* The stream *)

Rest == UNCHANGED <<sessionId, selection, creating, creates, opening, deleting, chosen, starts>>

Advance(phase) == stream' = [stream EXCEPT !.phase = phase]

\* 200: events follow.
StreamOpens ==
    /\ stream.phase = "sent"
    /\ Advance("open")
    /\ UNCHANGED <<turns, busy>> /\ Rest

\* Mutant: locks the composer and leaves the refused turn streaming.
StreamRefusedKeepsTurn ==
    /\ stream.phase = "sent"
    /\ \E reason \in {"session_busy", "rate_limited"} : busy' = reason
    /\ UNCHANGED turns
    /\ stream' = NoStream
    /\ Rest

\* 409 session_busy and 429: the question was not accepted.  Lock the composer, drop the turn.
StreamRefused ==
    /\ stream.phase = "sent"
    /\ \E reason \in {"session_busy", "rate_limited"} : busy' = reason
    /\ turns' = Patched(stream.turn, "gone")
    /\ stream' = NoStream
    /\ Rest

\* Another status, or a rejected fetch or read: also in the middle of an answer, and after the
\* terminal event, whatever it settled.
StreamFails ==
    /\ stream.phase # "none"
    /\ turns' = Patched(stream.turn, "failed")
    /\ stream' = NoStream
    /\ UNCHANGED busy /\ Rest

\* The terminal "error" event settles the turn; the run ends when the body does.
StreamErrorEvent ==
    /\ stream.phase = "open"
    /\ turns' = Patched(stream.turn, "interrupted")
    /\ Advance("error")
    /\ UNCHANGED busy /\ Rest

StreamDoneEvent ==
    /\ stream.phase = "open"
    /\ Advance("done")
    /\ UNCHANGED <<turns, busy>> /\ Rest

\* The body ends: nothing more after an error, "done" or "refused" (meta.refused) after a done
\* event, "interrupted" when neither came.
StreamEnds ==
    /\ stream.phase \in {"open", "error", "done"}
    /\ \/ stream.phase = "error" /\ UNCHANGED turns
       \/ stream.phase = "done" /\ \E s \in {"done", "refused"} : turns' = Patched(stream.turn, s)
       \/ stream.phase = "open" /\ turns' = Patched(stream.turn, "interrupted")
    /\ stream' = NoStream
    /\ UNCHANGED busy /\ Rest

\* useLock: `busyUntil` passes.
LockEnds ==
    /\ busy # None
    /\ busy' = None
    /\ UNCHANGED <<turns, stream>> /\ Rest

User ==
    \/ \E t \in Turns : AskHere(t) \/ AskFirst(t) \/ Retry(t)
    \/ \E s \in Sessions : OpenSession(s) \/ Delete(s)
    \/ StartNewChat

StreamStep ==
    StreamOpens \/ StreamRefused \/ StreamFails \/ StreamErrorEvent \/ StreamDoneEvent \/ StreamEnds

Next ==
    \/ User
    \/ \E c \in Creates : CreateDone(c) \/ CreateFails(c)
    \/ \E s \in Sessions : OpenDone(s) \/ OpenFails(s)
    \/ \E d \in deleting : DeleteDone(d) \/ DeleteFails(d)
    \/ StreamStep
    \/ LockEnds

\* Every request is answered or fails, and the lock's timer fires.
Fairness ==
    /\ WF_vars(StreamStep)
    /\ WF_vars(LockEnds)
    /\ \A c \in Creates : WF_vars(CreateDone(c) \/ CreateFails(c))

Spec == Init /\ [][Next]_vars /\ Fairness

-----------------------------------------------------------------------------
TypeOK ==
    /\ sessionId \in Sessions \cup {None} /\ chosen \in Sessions \cup {None}
    /\ selection \in 0..MaxEpoch /\ starts \in 0..MaxStarts
    /\ creating \in Creates \cup {None}
    /\ creates \in [Creates -> Create]
    /\ turns \in [Turns -> Turn]
    /\ stream \in Stream /\ (stream.phase = "none" <=> stream.turn = None)
    /\ busy \in {None, "session_busy", "rate_limited"}
    /\ opening \subseteq Sessions
    /\ deleting \subseteq Sessions \X (Sessions \cup {None})

\* The page shows what the user last selected, or the session made for a question asked since
\* then: a create still in flight at a selection never takes it back (useSessions.ts:19-21).
SelectionStands ==
    \/ sessionId = chosen
    \/ chosen = None /\ sessionId \in Creates /\ creates[sessionId].at = selection

\* A question goes to the session that was shown when the user asked it, or to one made for that
\* very selection; never to one made for an earlier chat.
PostedWhereAsked ==
    \A t \in Turns : turns[t].posted # None =>
        \/ turns[t].posted = turns[t].under
        \/ turns[t].under = None /\ turns[t].posted \in Creates
           /\ creates[turns[t].posted].at = turns[t].at

\* A run settles the turn it was started for, whatever the response does and whatever the user
\* opens meanwhile, unless a later run aborts it.
RunSettlesItsTurn ==
    \A t \in Turns : turns[t].status = "streaming" ~> turns[t].status # "streaming" \/ turns[t].orphan

\* Does not hold.  "When `done` arrives, the system shall re-enable the composer" (f14 AC-10).
DoneReenablesComposer == stream.phase = "done" ~> CanSend
=============================================================================
