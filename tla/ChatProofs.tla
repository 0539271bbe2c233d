----------------------------- MODULE ChatProofs -----------------------------
(***************************************************************************)
(* What holds of Chat for any number of questions, sessions, selections    *)
(* and retries.                                                            *)
(***************************************************************************)
EXTENDS Chat, FiniteSetTheorems, TLAPS

-----------------------------------------------------------------------------
(* The inductive invariant *)

\* The selections under way never pass the bound.
BoundsInv ==
    /\ IsFiniteSet(opening) /\ IsFiniteSet(deleting)
    /\ selection + Cardinality(opening) + Cardinality(deleting) <= MaxEpoch

\* A create made under the current selection was made because nothing is selected.
CreatesInv ==
    \A c \in Creates :
        /\ creates[c].at <= selection
        /\ creates[c].state = "pending" /\ creates[c].at = selection => chosen = None

\* The create that a first ask would join was made under the current selection.
JoinInv ==
    creating # None => creates[creating].state # "unused" /\ creates[creating].at = selection

\* Session c was made, or is being made, for the selection under which t was asked.
MadeFor(t, c) ==
    /\ turns[t].under = None
    /\ c \in Creates /\ creates[c].state # "unused" /\ creates[c].at = turns[t].at

TurnInv(t) ==
    /\ turns[t].status = "unused" => turns[t].posted = None
    /\ turns[t].status = "waiting" => MadeFor(t, turns[t].create)
    /\ turns[t].posted # None => turns[t].posted = turns[t].under \/ MadeFor(t, turns[t].posted)

IInv ==
    /\ TypeOK /\ BoundsInv /\ CreatesInv /\ JoinInv /\ SelectionStands
    /\ \A t \in Turns : TurnInv(t)

-----------------------------------------------------------------------------
(* What the helpers do *)

\* A step that leaves a turn where it was asked and posted, and does not make it wait.
Kept(t) ==
    /\ turns'[t].posted = turns[t].posted /\ turns'[t].create = turns[t].create
    /\ turns'[t].at = turns[t].at /\ turns'[t].under = turns[t].under
    /\ turns'[t].status \in {"unused", "waiting"} => turns[t].status = turns'[t].status

\* A step that changes no session in the making for which a turn waits or was posted.
Lasting ==
    \A c \in Creates : creates[c].state # "unused" =>
        creates'[c].state # "unused" /\ creates'[c].at = creates[c].at

LEMMA KeptStands ==
    ASSUME NEW t \in Turns, TurnInv(t), Kept(t), Lasting
    PROVE  TurnInv(t)'
BY DEF TurnInv, MadeFor, Kept, Lasting

LEMMA SameTurns ==
    ASSUME TypeOK, UNCHANGED turns
    PROVE  turns' \in [Turns -> Turn] /\ \A t \in Turns : Kept(t)
BY DEF TypeOK, Kept

\* What "patch", "load" and "reset" make of the turns.
LEMMA Settled ==
    ASSUME TypeOK, NEW S \in SUBSET Turns, NEW status \in Shown \cup {"gone"},
           turns' = [t \in Turns |-> IF t \in S THEN [turns[t] EXCEPT !.status = status] ELSE turns[t]]
    PROVE  turns' \in [Turns -> Turn] /\ \A t \in Turns : Kept(t)
<1> SUFFICES ASSUME NEW t \in Turns PROVE turns'[t] \in Turn /\ Kept(t)
  OBVIOUS
<1>1. turns[t] \in Turn
  BY DEF TypeOK
<1>2. [turns[t] EXCEPT !.status = status] \in Turn
  BY <1>1 DEF Turn
<1>3. CASE t \in S
  <2>1. turns'[t] = [turns[t] EXCEPT !.status = status]
    BY <1>3
  <2> QED BY <1>1, <1>2, <2>1 DEF Kept, Turn, Shown
<1> QED BY <1>1, <1>3 DEF Kept

LEMMA PatchedTurns ==
    ASSUME TypeOK, NEW s \in Turns, NEW status \in Shown \cup {"gone"},
           turns' = Patched(s, status)
    PROVE  turns' \in [Turns -> Turn] /\ \A t \in Turns : Kept(t)
<1>1. turns \in [Turns -> Turn] /\ turns[s] \in Turn
  BY DEF TypeOK
<1>2. turns' = [turns EXCEPT ![s].status = IF turns[s].status \in Shown THEN status ELSE turns[s].status]
  BY DEF Patched
<1>3. CASE turns[s].status \in Shown
  <2>1. turns' = [turns EXCEPT ![s] = [turns[s] EXCEPT !.status = status]]
    BY <1>1, <1>2, <1>3
  <2>2. turns' = [t \in Turns |-> IF t \in {s} THEN [turns[t] EXCEPT !.status = status] ELSE turns[t]]
    BY <1>1, <2>1
  <2> QED BY <2>2, Settled
<1>4. CASE turns[s].status \notin Shown
  <2>1. [turns[s] EXCEPT !.status = turns[s].status] = turns[s]
    BY <1>1 DEF Turn
  <2>2. turns' = turns
    BY <1>1, <1>2, <1>4, <2>1
  <2> QED BY <2>2, SameTurns
<1> QED BY <1>3, <1>4

LEMMA ClearedTurns ==
    ASSUME TypeOK, turns' = Cleared
    PROVE  turns' \in [Turns -> Turn] /\ \A t \in Turns : Kept(t)
<1> DEFINE S == {t \in Turns : turns[t].status \in Shown}
<1>1. turns' = [t \in Turns |-> IF t \in S THEN [turns[t] EXCEPT !.status = "gone"] ELSE turns[t]]
  BY DEF Cleared
<1> QED BY <1>1, Settled

\* A turn that is asked now.
LEMMA AskedFacts ==
    ASSUME TypeOK, NEW t \in Turns
    PROVE  /\ Asked(t) \in Turn
           /\ Asked(t).at = selection /\ Asked(t).under = sessionId /\ Asked(t).posted = turns[t].posted
<1>1. turns[t] \in Turn /\ selection \in Nat /\ sessionId \in Sessions \cup {None}
  BY BoundsAssumption DEF TypeOK
<1>2. [turns[t] EXCEPT !.at = selection] \in Turn
  BY <1>1 DEF Turn
<1>3. Asked(t) = [[turns[t] EXCEPT !.at = selection] EXCEPT !.under = sessionId]
  BY <1>1 DEF Asked, Turn
<1> QED BY <1>1, <1>2, <1>3 DEF Turn

LEMMA WaitingFinite ==
    ASSUME NEW c
    PROVE  IsFiniteSet(Waiting(c)) /\ Cardinality(Waiting(c)) \in Nat
<1>1. Waiting(c) \subseteq Turns
  BY DEF Waiting
<1> QED BY <1>1, BoundsAssumption, FS_Subset, FS_CardinalityType

LEMMA BoundsTyped ==
    ASSUME IInv
    PROVE  Cardinality(opening) \in Nat /\ Cardinality(deleting) \in Nat /\ selection \in Nat
BY FS_CardinalityType, BoundsAssumption DEF IInv, TypeOK, BoundsInv

-----------------------------------------------------------------------------
(* Steps *)

LEMMA InitIInv == Init => IInv
<1> SUFFICES ASSUME Init PROVE IInv
  OBVIOUS
<1>1. TypeOK
  BY BoundsAssumption, NoneAssumption DEF Init, TypeOK, Create, Turn, Stream, NoStream, Shown
<1>2. BoundsInv
  BY FS_EmptySet, BoundsAssumption DEF Init, BoundsInv
<1>3. CreatesInv /\ JoinInv /\ SelectionStands /\ \A t \in Turns : TurnInv(t)
  BY DEF Init, CreatesInv, JoinInv, SelectionStands, TurnInv
<1> QED BY <1>1, <1>2, <1>3 DEF IInv

\* What a step must show when it leaves the selection and the sessions in the making alone.
LEMMA TurnsStep ==
    ASSUME IInv, TypeOK', UNCHANGED <<sessionId, selection, creating, creates, opening, deleting, chosen>>,
           \A t \in Turns : TurnInv(t)'
    PROVE  IInv'
<1>1. BoundsInv' /\ CreatesInv' /\ JoinInv' /\ SelectionStands'
  BY DEF IInv, BoundsInv, CreatesInv, JoinInv, SelectionStands
<1> QED BY <1>1 DEF IInv

\* A step of the stream, which settles a turn at most.
LEMMA StreamIInv == ASSUME IInv, StreamStep PROVE IInv'
<1>1. turns' \in [Turns -> Turn] /\ (\A t \in Turns : Kept(t))
  <2>1. \/ UNCHANGED turns
        \/ \E status \in Shown \cup {"gone"} : stream.turn \in Turns /\ turns' = Patched(stream.turn, status)
    <3>1. stream.phase # "none" => stream.turn \in Turns
      BY DEF IInv, TypeOK, Stream
    <3>2. CASE StreamOpens \/ StreamDoneEvent
      BY <3>2 DEF StreamOpens, StreamDoneEvent
    <3>3. CASE StreamRefused
      BY <3>1, <3>3 DEF StreamRefused
    <3>4. CASE StreamFails
      BY <3>1, <3>4 DEF StreamFails, Shown
    <3>5. CASE StreamErrorEvent
      BY <3>1, <3>5 DEF StreamErrorEvent, Shown
    <3>6. CASE StreamEnds
      BY <3>1, <3>6 DEF StreamEnds, Shown
    <3> QED BY <3>2, <3>3, <3>4, <3>5, <3>6 DEF StreamStep
  <2>2. TypeOK
    BY DEF IInv
  <2>3. CASE UNCHANGED turns
    BY <2>2, <2>3, SameTurns
  <2>4. ASSUME NEW status \in Shown \cup {"gone"}, stream.turn \in Turns, turns' = Patched(stream.turn, status)
        PROVE  turns' \in [Turns -> Turn] /\ \A t \in Turns : Kept(t)
    BY <2>2, <2>4, PatchedTurns
  <2> QED BY <2>1, <2>3, <2>4
<1>2. Rest
  BY DEF StreamStep, StreamOpens, StreamRefused, StreamFails, StreamErrorEvent, StreamDoneEvent, StreamEnds
<1>3. stream' \in Stream /\ (stream'.phase = "none" <=> stream'.turn = None)
  BY NoneAssumption DEF IInv, TypeOK, StreamStep, StreamOpens, StreamRefused, StreamFails, StreamErrorEvent,
        StreamDoneEvent, StreamEnds, Advance, NoStream, Stream
<1>4. busy' \in {None, "session_busy", "rate_limited"}
  BY DEF IInv, TypeOK, StreamStep, StreamOpens, StreamRefused, StreamFails, StreamErrorEvent,
        StreamDoneEvent, StreamEnds
<1>5. TypeOK'
  BY <1>1, <1>2, <1>3, <1>4 DEF IInv, TypeOK, Rest
<1>6. \A t \in Turns : TurnInv(t)'
  BY <1>1, <1>2, KeptStands DEF IInv, Rest, Lasting
<1> QED BY <1>2, <1>5, <1>6, TurnsStep DEF Rest

LEMMA LockStep == ASSUME IInv, LockEnds PROVE IInv'
<1>1. TypeOK'
  BY DEF IInv, TypeOK, LockEnds, Rest
<1>2. \A t \in Turns : TurnInv(t)'
  BY SameTurns, KeptStands DEF IInv, LockEnds, Rest, Lasting
<1> QED BY <1>1, <1>2, TurnsStep DEF LockEnds, Rest

\* A run posts its turn where the page is, or to the session made for it.
LEMMA RunFacts ==
    ASSUME TypeOK, NEW t \in Turns, NEW record \in Turn, Run(t, record)
    PROVE  /\ turns' \in [Turns -> Turn] /\ turns'[t] = record
           /\ \A u \in Turns \ {t} : Kept(u)
           /\ stream' \in Stream /\ (stream'.phase = "none" <=> stream'.turn = None)
           /\ starts' \in 0..MaxStarts /\ busy' = None
<1>1. ASSUME NEW u \in Turns
      PROVE  /\ turns'[u] \in Turn
             /\ u # t => Kept(u)
  <2>1. turns[u] \in Turn /\ [turns[u] EXCEPT !.orphan = TRUE] \in Turn
    BY DEF TypeOK, Turn
  <2>2. turns'[u] \in {record, turns[u], [turns[u] EXCEPT !.orphan = TRUE]}
    BY DEF Run
  <2>3. CASE u # t
    <3>1. turns'[u] \in {turns[u], [turns[u] EXCEPT !.orphan = TRUE]}
      BY <2>3 DEF Run
    <3> QED BY <2>1, <3>1 DEF Kept, Turn
  <2> QED BY <2>1, <2>2, <2>3
<1>2. turns' \in [Turns -> Turn] /\ turns'[t] = record
  BY <1>1 DEF Run
<1>3. stream' \in Stream /\ (stream'.phase = "none" <=> stream'.turn = None)
  BY NoneAssumption DEF Run, Stream
<1>4. starts' \in 0..MaxStarts /\ busy' = None
  BY BoundsAssumption DEF Run, TypeOK
<1> QED BY <1>1, <1>2, <1>3, <1>4

LEMMA RunStep ==
    ASSUME IInv, NEW t \in Turns, NEW record \in Turn, Run(t, record),
           record.status = "streaming", record.posted = record.under,
           UNCHANGED <<sessionId, selection, creating, creates, opening, deleting, chosen>>
    PROVE  IInv'
<1>1. TypeOK
  BY DEF IInv
<1>2. TypeOK'
  BY <1>1, RunFacts DEF TypeOK
<1>3. ASSUME NEW u \in Turns PROVE TurnInv(u)'
  <2>1. CASE u = t
    <3>1. turns'[t] = record
      BY <1>1, RunFacts
    <3> QED BY <2>1, <3>1 DEF TurnInv
  <2>2. CASE u # t
    <3>1. Kept(u)
      BY <1>1, <2>2, RunFacts
    <3> QED BY <3>1, KeptStands DEF IInv, Lasting
  <2> QED BY <2>1, <2>2
<1> QED BY <1>2, <1>3, TurnsStep

LEMMA AskHereStep == ASSUME IInv, NEW t \in Turns, AskHere(t) PROVE IInv'
<1> DEFINE record == [Asked(t) EXCEPT !.status = "streaming", !.posted = sessionId]
<1>1. Asked(t) \in Turn /\ Asked(t).under = sessionId /\ sessionId \in Sessions \cup {None}
  BY AskedFacts DEF IInv, TypeOK
<1>2. record \in Turn /\ record.status = "streaming" /\ record.posted = sessionId /\ record.under = sessionId
  BY <1>1 DEF Turn, Shown
<1>3. Run(t, record) /\ UNCHANGED <<sessionId, selection, creating, creates, opening, deleting, chosen>>
  BY DEF AskHere
<1> HIDE DEF record
<1> QED BY <1>2, <1>3, RunStep

LEMMA RetryStep == ASSUME IInv, NEW t \in Turns, Retry(t) PROVE IInv'
<1> DEFINE record == [Asked(t) EXCEPT !.status = "streaming", !.posted = sessionId, !.orphan = FALSE]
<1>1. Asked(t) \in Turn /\ Asked(t).under = sessionId /\ sessionId \in Sessions \cup {None}
  BY AskedFacts DEF IInv, TypeOK
<1>2. record \in Turn /\ record.status = "streaming" /\ record.posted = sessionId /\ record.under = sessionId
  BY <1>1 DEF Turn, Shown
<1>3. Run(t, record) /\ UNCHANGED <<sessionId, selection, creating, creates, opening, deleting, chosen>>
  BY DEF Retry
<1> HIDE DEF record
<1> QED BY <1>2, <1>3, RunStep

\* The turn of a first ask waits for a session made under the selection it was asked under.
LEMMA WaitStep ==
    ASSUME IInv, NEW t \in Turns, sessionId = None, turns[t].posted = None, NEW c \in Creates,
           turns' = [turns EXCEPT ![t] = [Asked(t) EXCEPT !.status = "waiting", !.create = c]],
           Lasting, creates'[c].state # "unused", creates'[c].at = selection
    PROVE  turns' \in [Turns -> Turn] /\ \A u \in Turns : TurnInv(u)'
<1> DEFINE record == [Asked(t) EXCEPT !.status = "waiting", !.create = c]
<1>1. Asked(t) \in Turn /\ Asked(t).under = None /\ Asked(t).at = selection /\ Asked(t).posted = None
  BY AskedFacts DEF IInv
<1>2. record \in Turn
  BY <1>1 DEF Turn
<1>3. /\ record.status = "waiting" /\ record.create = c /\ record.posted = None
      /\ record.under = None /\ record.at = selection
  BY <1>1 DEF Turn
<1>4. turns \in [Turns -> Turn] /\ turns' = [turns EXCEPT ![t] = record]
  BY DEF IInv, TypeOK
<1> HIDE DEF record
<1>5. turns' \in [Turns -> Turn] /\ turns'[t] = record /\ \A u \in Turns \ {t} : turns'[u] = turns[u]
  BY <1>2, <1>4
<1>6. TurnInv(t)'
  BY <1>3, <1>5 DEF TurnInv, MadeFor
<1>7. ASSUME NEW u \in Turns \ {t} PROVE TurnInv(u)'
  BY <1>5, KeptStands DEF IInv, Kept
<1> QED BY <1>5, <1>6, <1>7

LEMMA AskFirstStep == ASSUME IInv, NEW t \in Turns, AskFirst(t) PROVE IInv'
<1>1. /\ sessionId = None /\ turns[t].status = "unused"
      /\ UNCHANGED <<sessionId, selection, stream, busy, opening, deleting, chosen, starts>>
  BY DEF AskFirst
<1>2. turns[t].posted = None
  BY <1>1 DEF IInv, TurnInv
<1>3. chosen = None
  BY <1>1, NoneAssumption DEF IInv, SelectionStands
<1>4. BoundsInv' /\ SelectionStands'
  BY <1>1, <1>3 DEF IInv, BoundsInv, SelectionStands
<1>5. CASE /\ creating # None
           /\ turns' = [turns EXCEPT ![t] = [Asked(t) EXCEPT !.status = "waiting", !.create = creating]]
           /\ UNCHANGED <<creating, creates>>
  <2>1. creating \in Creates /\ creates'[creating].state # "unused" /\ creates'[creating].at = selection
    BY <1>5 DEF IInv, TypeOK, JoinInv
  <2>2. turns' \in [Turns -> Turn] /\ \A u \in Turns : TurnInv(u)'
    BY <1>1, <1>2, <1>5, <2>1, WaitStep DEF Lasting
  <2>3. TypeOK' /\ CreatesInv' /\ JoinInv'
    BY <1>1, <1>5, <2>2 DEF IInv, TypeOK, CreatesInv, JoinInv
  <2> QED BY <1>4, <2>2, <2>3 DEF IInv
<1>6. ASSUME NEW c \in Creates, creates[c].state = "unused",
             creates' = [creates EXCEPT ![c] = [state |-> "pending", at |-> selection]],
             creating' = c,
             turns' = [turns EXCEPT ![t] = [Asked(t) EXCEPT !.status = "waiting", !.create = c]]
      PROVE  IInv'
  <2>1. selection \in Nat /\ creates \in [Creates -> Create]
    BY BoundsAssumption DEF IInv, TypeOK
  <2>2. /\ creates' \in [Creates -> Create] /\ creates'[c] = [state |-> "pending", at |-> selection]
        /\ \A e \in Creates \ {c} : creates'[e] = creates[e]
    BY <1>6, <2>1 DEF Create
  <2>3. Lasting
    BY <1>6, <2>2 DEF Lasting
  <2>4. turns' \in [Turns -> Turn] /\ \A u \in Turns : TurnInv(u)'
    BY <1>1, <1>2, <1>6, <2>2, <2>3, WaitStep
  <2>5. TypeOK'
    BY <1>1, <1>6, <2>2, <2>4 DEF IInv, TypeOK
  <2>6. CreatesInv' /\ JoinInv'
    BY <1>1, <1>3, <1>6, <2>1, <2>2 DEF IInv, CreatesInv, JoinInv
  <2> QED BY <1>4, <2>4, <2>5, <2>6 DEF IInv
<1> QED BY <1>5, <1>6 DEF AskFirst

\* A selection: no create in flight was made under the new one.
LEMMA SelectStep ==
    ASSUME IInv, NEW s \in Sessions \cup {None}, Select(s), UNCHANGED creates
    PROVE  /\ CreatesInv' /\ JoinInv' /\ SelectionStands'
           /\ sessionId' \in Sessions \cup {None} /\ chosen' \in Sessions \cup {None}
           /\ creating' = None /\ selection' = selection + 1
<1>1. selection \in Nat /\ creates \in [Creates -> Create]
  BY BoundsAssumption DEF IInv, TypeOK
<1>2. CreatesInv'
  BY <1>1 DEF IInv, CreatesInv, Select, Create
<1> QED BY <1>2 DEF Select, JoinInv, SelectionStands

LEMMA OpenSessionStep == ASSUME IInv, NEW s \in Sessions, OpenSession(s) PROVE IInv'
<1>1. TypeOK'
  BY DEF IInv, TypeOK, OpenSession
<1>2. BoundsInv'
  <2>1. IsFiniteSet(opening') /\ Cardinality(opening') = Cardinality(opening) + 1
    BY FS_AddElement DEF IInv, BoundsInv, OpenSession
  <2> QED BY <2>1, BoundsTyped, BoundsAssumption DEF IInv, BoundsInv, OpenSession, MaySelect
<1>3. CreatesInv' /\ JoinInv' /\ SelectionStands'
  BY DEF IInv, OpenSession, CreatesInv, JoinInv, SelectionStands
<1>4. \A t \in Turns : TurnInv(t)'
  BY SameTurns, KeptStands DEF IInv, OpenSession, Lasting
<1> QED BY <1>1, <1>2, <1>3, <1>4 DEF IInv

LEMMA DeleteStep == ASSUME IInv, NEW s \in Sessions, Delete(s) PROVE IInv'
<1>1. TypeOK'
  BY DEF IInv, TypeOK, Delete
<1>2. BoundsInv'
  <2>1. <<s, sessionId>> \notin deleting
    BY DEF Delete
  <2>2. IsFiniteSet(deleting') /\ Cardinality(deleting') = Cardinality(deleting) + 1
    BY <2>1, FS_AddElement DEF IInv, BoundsInv, Delete
  <2> QED BY <2>2, BoundsTyped, BoundsAssumption DEF IInv, BoundsInv, Delete, MaySelect
<1>3. CreatesInv' /\ JoinInv' /\ SelectionStands'
  BY DEF IInv, Delete, CreatesInv, JoinInv, SelectionStands
<1>4. \A t \in Turns : TurnInv(t)'
  BY SameTurns, KeptStands DEF IInv, Delete, Lasting
<1> QED BY <1>1, <1>2, <1>3, <1>4 DEF IInv

\* startNewChat, at once or when a delete was answered; opening and deleting are the caller's.
LEMMA NewChatStep ==
    ASSUME IInv, NewChat, UNCHANGED <<creates, starts>>, BoundsInv',
           opening' \subseteq Sessions, deleting' \subseteq Sessions \X (Sessions \cup {None})
    PROVE  IInv'
<1>1. /\ CreatesInv' /\ JoinInv' /\ SelectionStands'
      /\ sessionId' \in Sessions \cup {None} /\ chosen' \in Sessions \cup {None}
      /\ creating' = None /\ selection' = selection + 1
  BY SelectStep DEF NewChat
<1>2. turns' \in [Turns -> Turn] /\ \A t \in Turns : Kept(t)
  BY ClearedTurns DEF IInv, NewChat
<1>3. \A t \in Turns : TurnInv(t)'
  BY <1>2, KeptStands DEF IInv, Lasting
<1>4. Cardinality(opening') \in Nat /\ Cardinality(deleting') \in Nat
  BY FS_CardinalityType DEF BoundsInv
<1>5. selection' \in 0..MaxEpoch
  BY <1>1, <1>4, BoundsTyped, BoundsAssumption DEF BoundsInv
<1>6. stream' \in Stream /\ (stream'.phase = "none" <=> stream'.turn = None)
  BY DEF NewChat, NoStream, Stream
<1>7. TypeOK'
  BY <1>1, <1>2, <1>5, <1>6 DEF IInv, TypeOK, NewChat
<1> QED BY <1>1, <1>3, <1>7 DEF IInv

LEMMA StartNewChatStep == ASSUME IInv, StartNewChat PROVE IInv'
<1>1. selection' = selection + 1
  BY DEF StartNewChat, NewChat, Select
<1>2. BoundsInv'
  BY <1>1, BoundsTyped, BoundsAssumption DEF IInv, BoundsInv, StartNewChat, MaySelect
<1> QED BY <1>2, NewChatStep DEF StartNewChat, IInv, TypeOK

\* A transcript or the answer to a delete is one selection fewer to come.
LEMMA OpenEnds ==
    ASSUME IInv, NEW s \in opening, opening' = opening \ {s}, UNCHANGED deleting,
           selection' \in {selection, selection + 1}
    PROVE  BoundsInv'
<1>1. IsFiniteSet(opening') /\ Cardinality(opening') = Cardinality(opening) - 1
  BY FS_RemoveElement DEF IInv, BoundsInv
<1> QED BY <1>1, BoundsTyped, BoundsAssumption DEF IInv, BoundsInv

LEMMA DeleteEnds ==
    ASSUME IInv, NEW d \in deleting, deleting' = deleting \ {d}, UNCHANGED opening,
           selection' \in {selection, selection + 1}
    PROVE  BoundsInv'
<1>1. IsFiniteSet(deleting') /\ Cardinality(deleting') = Cardinality(deleting) - 1
  BY FS_RemoveElement DEF IInv, BoundsInv
<1> QED BY <1>1, BoundsTyped, BoundsAssumption DEF IInv, BoundsInv

LEMMA OpenDoneStep == ASSUME IInv, NEW s \in Sessions, OpenDone(s) PROVE IInv'
<1>1. /\ CreatesInv' /\ JoinInv' /\ SelectionStands'
      /\ sessionId' \in Sessions \cup {None} /\ chosen' \in Sessions \cup {None}
      /\ creating' = None /\ selection' = selection + 1
  BY SelectStep DEF OpenDone
<1>2. turns' \in [Turns -> Turn] /\ \A t \in Turns : Kept(t)
  BY ClearedTurns DEF IInv, OpenDone
<1>3. \A t \in Turns : TurnInv(t)'
  BY <1>2, KeptStands DEF IInv, Lasting, OpenDone
<1>4. BoundsInv'
  BY <1>1, OpenEnds DEF OpenDone
<1>5. Cardinality(opening') \in Nat /\ Cardinality(deleting') \in Nat
  BY <1>4, FS_CardinalityType DEF BoundsInv
<1>6. selection' \in 0..MaxEpoch
  BY <1>1, <1>4, <1>5, BoundsTyped, BoundsAssumption DEF BoundsInv
<1>7. TypeOK'
  BY <1>1, <1>2, <1>6 DEF IInv, TypeOK, OpenDone
<1> QED BY <1>1, <1>3, <1>4, <1>7 DEF IInv

LEMMA OpenFailsStep == ASSUME IInv, NEW s \in Sessions, OpenFails(s) PROVE IInv'
<1>1. TypeOK'
  BY DEF IInv, TypeOK, OpenFails
<1>2. BoundsInv'
  BY OpenEnds DEF OpenFails
<1>3. CreatesInv' /\ JoinInv' /\ SelectionStands'
  BY DEF IInv, OpenFails, CreatesInv, JoinInv, SelectionStands
<1>4. \A t \in Turns : TurnInv(t)'
  BY SameTurns, KeptStands DEF IInv, OpenFails, Lasting
<1> QED BY <1>1, <1>2, <1>3, <1>4 DEF IInv

LEMMA DeleteEndsStep == ASSUME IInv, NEW d \in deleting, DeleteDone(d) \/ DeleteFails(d) PROVE IInv'
<1>1. /\ deleting' = deleting \ {d} /\ UNCHANGED <<creates, opening, starts>>
      /\ \/ NewChat
         \/ UNCHANGED <<sessionId, selection, creating, turns, stream, busy, chosen>>
  BY DEF DeleteDone, DeleteFails
<1>2. BoundsInv'
  BY <1>1, DeleteEnds DEF NewChat, Select
<1>3. CASE NewChat
  BY <1>1, <1>2, <1>3, NewChatStep DEF IInv, TypeOK
<1>4. CASE UNCHANGED <<sessionId, selection, creating, turns, stream, busy, chosen>>
  <2>1. TypeOK'
    BY <1>1, <1>4 DEF IInv, TypeOK
  <2>2. CreatesInv' /\ JoinInv' /\ SelectionStands'
    BY <1>1, <1>4 DEF IInv, CreatesInv, JoinInv, SelectionStands
  <2>3. \A t \in Turns : TurnInv(t)'
    BY <1>1, <1>4, SameTurns, KeptStands DEF IInv, Lasting
  <2> QED BY <1>2, <2>1, <2>2, <2>3 DEF IInv
<1> QED BY <1>1, <1>3, <1>4

\* The answer to a create changes nothing but its state.
LEMMA AnsweredCreate ==
    ASSUME IInv, NEW c \in Creates, NEW state \in {"made", "failed"},
           creates' = [creates EXCEPT ![c].state = state], creating' = None,
           UNCHANGED <<selection, chosen>>
    PROVE  creates' \in [Creates -> Create] /\ Lasting /\ CreatesInv' /\ JoinInv'
<1>1. creates \in [Creates -> Create] /\ creates[c] \in Create
  BY DEF IInv, TypeOK
<1>2. /\ creates' \in [Creates -> Create]
      /\ creates'[c].state = state /\ creates'[c].at = creates[c].at
      /\ \A e \in Creates \ {c} : creates'[e] = creates[e]
  BY <1>1 DEF Create
<1> QED BY <1>2 DEF IInv, Lasting, CreatesInv, JoinInv

LEMMA CreateFailsStep == ASSUME IInv, NEW c \in Creates, CreateFails(c) PROVE IInv'
<1>1. creates' \in [Creates -> Create] /\ Lasting /\ CreatesInv' /\ JoinInv'
  BY AnsweredCreate DEF CreateFails
<1>2. turns' \in [Turns -> Turn] /\ \A t \in Turns : Kept(t)
  <2>1. Waiting(c) \in SUBSET Turns
    BY DEF Waiting
  <2> QED BY <2>1, Settled DEF IInv, CreateFails
<1>3. \A t \in Turns : TurnInv(t)'
  BY <1>1, <1>2, KeptStands DEF IInv
<1>4. TypeOK' /\ BoundsInv'
  BY <1>1, <1>2 DEF IInv, TypeOK, BoundsInv, CreateFails
<1>5. SelectionStands'
  BY <1>1, NoneAssumption DEF IInv, SelectionStands, CreateFails, Lasting
<1> QED BY <1>1, <1>3, <1>4, <1>5 DEF IInv

\* The questions that waited are posted to the session made for their selection.
LEMMA CreateDoneStep == ASSUME IInv, NEW c \in Creates, CreateDone(c) PROVE IInv'
<1>1. creates' \in [Creates -> Create] /\ Lasting /\ CreatesInv' /\ JoinInv'
  BY AnsweredCreate DEF CreateDone
<1>2. PICK last \in Waiting(c) :
        /\ turns' = [t \in Turns |->
                        IF t \in Waiting(c)
                        THEN [turns[t] EXCEPT !.status = "streaming", !.posted = c, !.orphan = t # last]
                        ELSE IF turns[t].status = "streaming" THEN [turns[t] EXCEPT !.orphan = TRUE]
                        ELSE turns[t]]
        /\ stream' = [turn |-> last, phase |-> "sent"]
  BY DEF CreateDone
<1>3. last \in Turns /\ None \notin Turns /\ c # None
  BY <1>2, NoneAssumption DEF Waiting
<1>4. ASSUME NEW t \in Turns PROVE turns'[t] \in Turn /\ TurnInv(t)'
  <2>1. turns[t] \in Turn
    BY DEF IInv, TypeOK
  <2>2. CASE t \in Waiting(c)
    <3> DEFINE posted == [turns[t] EXCEPT !.status = "streaming", !.posted = c, !.orphan = t # last]
    <3>1. turns'[t] = posted
      BY <1>2, <2>2
    <3>2. /\ posted \in Turn /\ posted.status = "streaming" /\ posted.posted = c
          /\ posted.under = turns[t].under /\ posted.at = turns[t].at
      BY <2>1 DEF Turn, Shown, Sessions
    <3>3. MadeFor(t, c)
      BY <2>2 DEF IInv, TurnInv, Waiting
    <3> HIDE DEF posted
    <3>4. MadeFor(t, c)'
      BY <1>1, <3>1, <3>2, <3>3 DEF MadeFor, Lasting
    <3> QED BY <1>3, <3>1, <3>2, <3>4 DEF TurnInv
  <2>3. CASE t \notin Waiting(c)
    <3>1. turns'[t] \in {turns[t], [turns[t] EXCEPT !.orphan = TRUE]}
      BY <1>2, <2>3
    <3>2. turns'[t] \in Turn /\ Kept(t)
      BY <2>1, <3>1 DEF Turn, Kept
    <3> QED BY <1>1, <3>2, KeptStands DEF IInv
  <2> QED BY <2>2, <2>3
<1>5. SelectionStands'
  <2>1. creates[c].state = "pending" /\ sessionId' = IF creates[c].at = selection THEN c ELSE sessionId
    BY DEF CreateDone
  <2>2. CASE creates[c].at = selection
    BY <1>1, <2>1, <2>2 DEF IInv, CreatesInv, SelectionStands, Lasting, CreateDone
  <2>3. CASE creates[c].at # selection
    <3>1. UNCHANGED <<sessionId, selection, chosen>>
      BY <2>1, <2>3 DEF CreateDone
    <3>2. \A e \in Creates : creates'[e].at = creates[e].at
      BY DEF IInv, TypeOK, Create, CreateDone
    <3> QED BY <3>1, <3>2 DEF IInv, SelectionStands
  <2> QED BY <2>2, <2>3
<1>6. starts' \in 0..MaxStarts
  <2>1. Cardinality(Waiting(c)) \in Nat /\ starts \in Nat /\ MaxStarts \in Nat
    BY WaitingFinite, BoundsAssumption DEF IInv, TypeOK
  <2>2. starts + Cardinality(Waiting(c)) <= MaxStarts /\ starts' = starts + Cardinality(Waiting(c))
    BY DEF CreateDone
  <2> QED BY <2>1, <2>2
<1>7. turns' \in [Turns -> Turn] /\ stream' \in Stream /\ (stream'.phase = "none" <=> stream'.turn = None)
  BY <1>2, <1>3, <1>4 DEF Stream
<1>8. sessionId' \in Sessions \cup {None}
  BY DEF IInv, TypeOK, CreateDone, Sessions
<1>9. TypeOK' /\ BoundsInv'
  BY <1>1, <1>6, <1>7, <1>8 DEF IInv, TypeOK, BoundsInv, CreateDone
<1> QED BY <1>1, <1>4, <1>5, <1>9 DEF IInv

LEMMA IInvStep == IInv /\ [Next]_vars => IInv'
<1> SUFFICES ASSUME IInv, [Next]_vars PROVE IInv'
  OBVIOUS
<1>1. CASE UNCHANGED vars
  BY <1>1 DEF vars, IInv, TypeOK, BoundsInv, CreatesInv, JoinInv, SelectionStands, TurnInv, MadeFor
<1>2. CASE User
  BY <1>2, AskHereStep, AskFirstStep, RetryStep, OpenSessionStep, DeleteStep, StartNewChatStep DEF User
<1>3. ASSUME NEW c \in Creates, CreateDone(c) \/ CreateFails(c) PROVE IInv'
  BY <1>3, CreateDoneStep, CreateFailsStep
<1>4. ASSUME NEW s \in Sessions, OpenDone(s) \/ OpenFails(s) PROVE IInv'
  BY <1>4, OpenDoneStep, OpenFailsStep
<1>5. ASSUME NEW d \in deleting, DeleteDone(d) \/ DeleteFails(d) PROVE IInv'
  BY <1>5, DeleteEndsStep
<1>6. CASE StreamStep \/ LockEnds
  BY <1>6, StreamIInv, LockStep
<1> QED BY <1>1, <1>2, <1>3, <1>4, <1>5, <1>6 DEF Next

LEMMA Invariance == Spec => []IInv
<1> QED BY InitIInv, IInvStep, PTL DEF Spec

-----------------------------------------------------------------------------
(* Theorems *)

\* Every variable holds a value of its type, and the selections and runs stay within their bounds.
THEOREM ChatTyped == Spec => []TypeOK
<1>1. IInv => TypeOK
  BY DEF IInv
<1> QED BY <1>1, Invariance, PTL

\* The page shows what the user last selected or the session made for a question asked since: a
\* create in flight at a selection never takes it back (useSessions.ts:19-21).
THEOREM SelectionNeverTaken == Spec => []SelectionStands
<1>1. IInv => SelectionStands
  BY DEF IInv
<1> QED BY <1>1, Invariance, PTL

\* A question is posted to the session shown when it was asked, or to one made for that very
\* selection, whichever creates and opens were in flight (useSessions.ts, pages/Chat.tsx).
THEOREM AskedIsPosted == Spec => []PostedWhereAsked
<1>1. IInv => PostedWhereAsked
  BY DEF IInv, TurnInv, MadeFor, PostedWhereAsked
<1> QED BY <1>1, Invariance, PTL
=============================================================================
