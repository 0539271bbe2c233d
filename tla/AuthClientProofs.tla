--------------------------- MODULE AuthClientProofs ---------------------------
(***************************************************************************)
(* What holds of AuthClient for any number of calls under way, sessions,   *)
(* requests and faults.                                                    *)
(***************************************************************************)
EXTENDS AuthClient, AuthTokensProofs

-----------------------------------------------------------------------------
(* The inductive invariant *)

\* The login of c has its session, which the page does not know yet.
Granted(c) == call[c].kind = "login" /\ call[c].phase \in {"answer", "reanswer"} /\ call[c].ok

\* Every session the page or the server works with was opened; a call that ended is no logout.
KnownInv ==
    /\ \A t \in {access, stored} : t # None => row[t].state # "unused"
    /\ \A c \in Calls : /\ call[c].sid # None => row[call[c].sid].state # "unused"
                        /\ call[c].got # None => row[call[c].got].state # "unused"
                        /\ call[c].phase = "idle" => call[c].kind # "logout"
    /\ refresh.phase = "none" => refresh = NoRefresh
    /\ refresh.phase # "none" => row[refresh.tok].state # "unused"
    /\ \A r \in Requests : req[r].phase = "rotate" =>
         req[r].tok \in Tokens /\ row[req[r].tok].state # "unused"

\* The one rotation under way is the one the page waits for; what it rotates was not rotated
\* before, and what it won is known to nobody else.
RotatingInv ==
    ~disturbed =>
        /\ refresh.phase = "begun" =>
             /\ refresh.req \in Requests
             /\ req[refresh.req].phase = "rotate" /\ req[refresh.req].tok = refresh.tok
        /\ \A r \in Requests : req[r].phase = "rotate" =>
             refresh.phase = "begun" /\ refresh.req = r
        /\ refresh.phase # "none" => row[refresh.tok].next = None
        /\ refresh.phase = "won" =>
             /\ Live(refresh.tok) /\ refresh.tok # access
             /\ \A c \in Calls : call[c].sid # refresh.tok

\* A session granted to a login is live, and nobody knows it but the answer on its way.
Secret(c) ==
    LET t == call[c].got IN
    /\ t \in Tokens /\ Live(t) /\ row[t].next = None
    /\ t \notin {access, stored, refresh.tok}
    /\ \A d \in Calls : call[d].sid # t
    /\ \A d \in Calls : Granted(d) /\ call[d].got = t => d = c

GrantedInv == ~disturbed => \A c \in Calls : Granted(c) => Secret(c)

\* The session the page keeps was never rotated, and only its own logout ends it.
KeptInv ==
    ~disturbed /\ refresh = NoRefresh /\ stored # None =>
        /\ row[stored].next = None
        /\ Live(stored) \/ LoggingOut

ClientInv == ClientTypeOK /\ KnownInv /\ RotatingInv /\ GrantedInv /\ KeptInv

-----------------------------------------------------------------------------
(* What the helpers of the page do *)

\* The type of a call.
CallType == [phase : CallPhases, kind : Kinds, sid : Tokens \cup {None},
             ok : BOOLEAN, got : Tokens \cup {None}]

\* The type of the refresh.
RefreshType == [phase : {"none", "sent", "begun", "won", "lost"}, tok : Tokens \cup {None},
                req : Requests \cup {None}]

LEMMA CallTyped ==
    /\ NoCall \in CallType
    /\ \A k \in Kinds, p \in CallPhases, t \in Tokens \cup {None} : Sent(k, p, t) \in CallType
BY DEF NoCall, Sent, CallType, CallPhases, Kinds

\* The caller of a call ends it and, by its kind, keeps, stores or drops the tokens.
LEMMA FinishFacts ==
    ASSUME ClientTypeOK, NEW c \in Calls, NEW ok \in BOOLEAN, Finish(c, ok)
    PROVE  /\ \A d \in Calls : d # c => call'[d] = call[d]
           /\ call'[c].phase \in {"idle", "sent"} /\ call'[c].kind \in {"get", "me"}
           /\ call'[c].got = None
           /\ \/ /\ call[c].kind = "login" /\ ok
                 /\ call'[c].sid = call[c].got /\ access' = call[c].got /\ stored' = call[c].got
              \/ /\ call[c].kind = "logout"
                 /\ call'[c].sid = None /\ access' = None /\ stored' = None
              \/ /\ call[c].kind # "logout"
                 /\ call'[c].sid = None /\ access' = access /\ stored' = stored
           /\ user' \in {user, Account, None}
           /\ call' \in [Calls -> CallType]
<1>1. call \in [Calls -> CallType]
  BY DEF ClientTypeOK, CallType
<1>2. call[c].got \in Tokens \cup {None}
  BY <1>1 DEF CallType
<1>3. Sent("me", "sent", call[c].got) \in CallType
  BY <1>2, CallTyped DEF CallPhases, Kinds
<1>4. call' \in [Calls -> CallType] /\ user' \in {user, Account, None}
  BY <1>1, <1>3, CallTyped DEF Finish, TearDown
<1>5. CASE /\ call[c].kind = "login" /\ ok
           /\ SetTokens(call[c].got)
           /\ call' = [call EXCEPT ![c] = Sent("me", "sent", call[c].got)]
  <2>1. /\ call'[c] = Sent("me", "sent", call[c].got)
        /\ \A d \in Calls : d # c => call'[d] = call[d]
    BY <1>1, <1>5
  <2> QED BY <1>4, <1>5, <2>1 DEF SetTokens, Sent
<1>6. CASE call[c].kind = "logout" /\ TearDown /\ call' = [call EXCEPT ![c] = NoCall]
  <2>1. call'[c] = NoCall /\ \A d \in Calls : d # c => call'[d] = call[d]
    BY <1>1, <1>6
  <2> QED BY <1>4, <1>6, <2>1 DEF TearDown, SetTokens, NoCall
<1>7. CASE /\ call[c].kind # "logout" /\ UNCHANGED <<access, stored>>
           /\ call' = [call EXCEPT ![c] = NoCall]
  <2>1. call'[c] = NoCall /\ \A d \in Calls : d # c => call'[d] = call[d]
    BY <1>1, <1>7
  <2> QED BY <1>4, <1>7, <2>1 DEF NoCall
<1> QED BY <1>5, <1>6, <1>7 DEF Finish

\* The server's answer to a call.
LEMMA AnsweredFacts ==
    ASSUME ClientTypeOK, NEW c \in Calls, NEW ok \in BOOLEAN, NEW got \in Tokens \cup {None},
           Answered(c, ok, got)
    PROVE  /\ \A d \in Calls : d # c => call'[d] = call[d]
           /\ call'[c].kind = call[c].kind /\ call'[c].sid = call[c].sid
           /\ call'[c].ok = ok /\ call'[c].got = got
           /\ call'[c].phase \in {"answer", "reanswer"}
           /\ call' \in [Calls -> CallType]
<1>1. call \in [Calls -> CallType]
  BY DEF ClientTypeOK, CallType
<1>2. call'[c] \in CallType
  BY <1>1 DEF Answered, CallType, CallPhases
<1>3. \A d \in Calls : d # c => call'[d] = call[d]
  BY <1>1 DEF Answered
<1> QED BY <1>1, <1>2, <1>3 DEF Answered, CallType

\* Sessions already opened stay so, and nothing but a rotation gives one a successor.
LEMMA RowFacts ==
    ASSUME TypeOK
    PROVE  /\ \A ts : /\ Revoked(ts) \in [Tokens -> Row]
                      /\ \A x \in Tokens :
                           /\ row[x].state # "unused" => Revoked(ts)[x].state # "unused"
                           /\ Revoked(ts)[x].next = row[x].next
                           /\ x \notin ts => Revoked(ts)[x] = row[x]
           /\ \A u \in Users, ver \in Versions : Unused # {} =>
                /\ Opened(Fresh, u, ver) \in [Tokens -> Row]
                /\ Opened(Fresh, u, ver)[Fresh].state = "live"
                /\ Opened(Fresh, u, ver)[Fresh].next = None
                /\ \A x \in Tokens \ {Fresh} : Opened(Fresh, u, ver)[x] = row[x]
<1>1. ASSUME NEW ts
      PROVE  /\ Revoked(ts) \in [Tokens -> Row]
             /\ \A x \in Tokens : /\ row[x].state # "unused" => Revoked(ts)[x].state # "unused"
                                  /\ Revoked(ts)[x].next = row[x].next
                                  /\ x \notin ts => Revoked(ts)[x] = row[x]
  <2>1. Revoked(ts) \in [Tokens -> Row]
    BY RevokedFacts
  <2>2. ASSUME NEW x \in Tokens
        PROVE  /\ row[x].state # "unused" => Revoked(ts)[x].state # "unused"
               /\ Revoked(ts)[x].next = row[x].next
               /\ x \notin ts => Revoked(ts)[x] = row[x]
    <3>1. row[x] \in Row
      BY DEF TypeOK
    <3> QED BY <3>1 DEF Revoked, Row
  <2> QED BY <2>1, <2>2
<1>2. ASSUME NEW u \in Users, NEW ver \in Versions, Unused # {}
      PROVE  /\ Opened(Fresh, u, ver) \in [Tokens -> Row]
             /\ Opened(Fresh, u, ver)[Fresh].state = "live"
             /\ Opened(Fresh, u, ver)[Fresh].next = None
             /\ \A x \in Tokens \ {Fresh} : Opened(Fresh, u, ver)[x] = row[x]
  <2>1. Fresh \in Tokens
    BY <1>2, FreshFacts
  <2>2. /\ Opened(Fresh, u, ver) \in [Tokens -> Row]
        /\ Opened(Fresh, u, ver)[Fresh] =
             [state |-> "live", user |-> u, next |-> None, root |-> Fresh, under |-> ver]
        /\ \A x \in Tokens \ {Fresh} : Opened(Fresh, u, ver)[x] = row[x]
    BY <2>1, OpenedFacts
  <2>3. /\ Opened(Fresh, u, ver)[Fresh].state = "live"
        /\ Opened(Fresh, u, ver)[Fresh].next = None
    BY <2>2
  <2> QED BY <2>2, <2>3
<1> QED BY <1>1, <1>2

\* Room leaves a session to open.
LEMMA RoomFacts == ASSUME Room PROVE Unused # {}
<1>1. Inserting \subseteq Requests
  BY DEF Inserting
<1>2. IsFiniteSet(Inserting)
  BY <1>1, RequestsAssumption, FS_Subset
<1>3. Cardinality(Inserting) \in Nat
  BY <1>2, FS_CardinalityType
<1>4. Cardinality({}) = 0
  BY FS_EmptySet
<1> QED BY <1>3, <1>4 DEF Room

\* A refresh takes the row of its session.
LEMMA SelectFacts ==
    ASSUME TypeOK, NEW r \in Requests, NEW t \in Tokens, RotateSelect(r, t)
    PROVE  /\ TypeOK' /\ row' = row /\ version' = version /\ Live(t)
           /\ req'[r].phase = "rotate" /\ req'[r].tok = t
           /\ \A s \in Requests : s # r => req'[s] = req[s]
<1>1. row[t].user \in Users \cup {None}
  BY DEF TypeOK, Row
<1>2. /\ req' \in [Requests -> Request]
      /\ req'[r].phase = "rotate" /\ req'[r].tok = t
      /\ \A s \in Requests : s # r => req'[s] = req[s]
  BY <1>1, IdleTyped DEF RotateSelect, Begin, TypeOK, Request, Phases
<1> QED BY <1>2 DEF RotateSelect, TypeOK

\* A rotation revokes the session it holds and opens its successor.
LEMMA CommitFacts ==
    ASSUME TypeOK, NEW r \in Requests, RotateCommit(r),
           req[r].tok \in Tokens, row[req[r].tok].state # "unused"
    PROVE  /\ TypeOK' /\ Fresh \in Tokens /\ row[Fresh].state = "unused"
           /\ row'[Fresh].state = "live" /\ row'[Fresh].next = None
           /\ row'[req[r].tok].state = "revoked"
           /\ \A x \in Tokens \ {req[r].tok, Fresh} : row'[x] = row[x]
           /\ req[r].phase = "rotate" /\ req'[r].phase = "idle"
           /\ \A s \in Requests : s # r => req'[s] = req[s]
<1>1. Fresh \in Tokens /\ row[Fresh].state = "unused" /\ Fresh # req[r].tok
  BY FreshFacts DEF RotateCommit
<1>2. /\ Rotated(req[r].tok, Fresh) \in [Tokens -> Row]
      /\ Rotated(req[r].tok, Fresh)[Fresh] =
            [row[req[r].tok] EXCEPT !.state = "live", !.next = None]
      /\ Rotated(req[r].tok, Fresh)[req[r].tok] =
            [row[req[r].tok] EXCEPT !.state = "revoked", !.next = Fresh]
      /\ \A x \in Tokens \ {req[r].tok, Fresh} : Rotated(req[r].tok, Fresh)[x] = row[x]
  BY <1>1, RotatedFacts
<1>3. row[req[r].tok] \in Row /\ row' = Rotated(req[r].tok, Fresh)
  BY DEF RotateCommit, TypeOK
<1>4. row'[Fresh].state = "live" /\ row'[Fresh].next = None
  <2>1. PICK f : f = [row[req[r].tok] EXCEPT !.state = "live"]
    OBVIOUS
  <2>2. row'[Fresh] = [f EXCEPT !.next = None]
    BY <1>2, <1>3, <2>1, Zenon
  <2>3. f.state = "live" /\ DOMAIN f = {"state", "user", "next", "root", "under"}
    BY <1>3, <2>1 DEF Row
  <2> QED BY <2>2, <2>3
<1>7. row'[req[r].tok].state = "revoked"
  <2>1. PICK f : f = [row[req[r].tok] EXCEPT !.state = "revoked"]
    OBVIOUS
  <2>2. row'[req[r].tok] = [f EXCEPT !.next = Fresh]
    BY <1>2, <1>3, <2>1, Zenon
  <2>3. f.state = "revoked" /\ DOMAIN f = {"state", "user", "next", "root", "under"}
    BY <1>3, <2>1 DEF Row
  <2> QED BY <2>2, <2>3
<1>8. /\ row' \in [Tokens -> Row]
      /\ \A x \in Tokens \ {req[r].tok, Fresh} : row'[x] = row[x]
  BY <1>2, <1>3, Zenon
<1>5. /\ req' \in [Requests -> Request] /\ req'[r] = Idle
      /\ \A s \in Requests : s # r => req'[s] = req[s]
  BY IdleTyped DEF RotateCommit, End, TypeOK
<1>6. TypeOK' /\ req'[r].phase = "idle"
  BY <1>8, <1>5 DEF RotateCommit, TypeOK, Idle
<1> QED BY <1>1, <1>4, <1>5, <1>6, <1>7, <1>8 DEF RotateCommit

\* A session runs out.
LEMMA ExpireFacts ==
    ASSUME TypeOK, NEW t \in Tokens, Expire(t)
    PROVE  TypeOK' /\ \A x \in Tokens : row[x].state # "unused" => row'[x].state # "unused"
<1>1. row[t] \in Row
  BY DEF TypeOK
<1>2. [row[t] EXCEPT !.state = "expired"] \in Row
  BY <1>1 DEF Row
<1> QED BY <1>1, <1>2 DEF Expire, TypeOK, Row

\* Leaving the sessions alone keeps their types.
LEMMA TypeKept == ASSUME TypeOK, UNCHANGED vars PROVE TypeOK'
BY DEF TypeOK, vars

\* A first 401 waits for a refresh, the one under way or a new one.
LEMMA WaitFacts ==
    ASSUME ClientTypeOK, NEW c \in Calls, DeliverUnauthorized(c)
    PROVE  /\ \A d \in Calls : d # c => call'[d] = call[d]
           /\ call'[c].kind = call[c].kind /\ call'[c].sid = call[c].sid
           /\ call'[c].got = call[c].got
           /\ call'[c].phase = "waiting"
           /\ \/ refresh # NoRefresh /\ refresh' = refresh
              \/ /\ refresh = NoRefresh /\ stored # None
                 /\ refresh'.phase = "sent" /\ refresh'.tok = stored
<1>1. call \in [Calls -> CallType]
  BY DEF ClientTypeOK, CallType
<1>2. /\ \A d \in Calls : d # c => call'[d] = call[d]
      /\ call'[c].kind = call[c].kind /\ call'[c].sid = call[c].sid /\ call'[c].got = call[c].got
      /\ call'[c].phase = "waiting"
  BY <1>1 DEF DeliverUnauthorized, CallType
<1> QED BY <1>2 DEF DeliverUnauthorized

\* The refresh is taken up by a request, or is lost.
LEMMA ArriveFacts ==
    ASSUME ClientTypeOK, RefreshArrives
    PROVE  /\ row' = row /\ refresh.phase = "sent" /\ refresh'.tok = refresh.tok
           /\ disturbed => disturbed'
           /\ \/ refresh'.phase = "lost" /\ req' = req
              \/ \E r \in Requests :
                   /\ refresh'.phase = "begun" /\ refresh'.req = r
                   /\ req'[r].phase = "rotate" /\ req'[r].tok = refresh.tok
                   /\ \A s \in Requests : s # r => req'[s] = req[s]
<1>1. TypeOK /\ refresh.tok \in Tokens
  BY DEF ClientTypeOK, RefreshArrives
<1>2. ASSUME NEW r \in Requests, RotateSelect(r, refresh.tok), UNCHANGED disturbed,
             refresh' = [refresh EXCEPT !.phase = "begun", !.req = r]
      PROVE  /\ row' = row /\ refresh'.tok = refresh.tok /\ disturbed' = disturbed
             /\ refresh'.phase = "begun" /\ refresh'.req = r
             /\ req'[r].phase = "rotate" /\ req'[r].tok = refresh.tok
             /\ \A s \in Requests : s # r => req'[s] = req[s]
  <2>1. refresh'.phase = "begun" /\ refresh'.req = r /\ refresh'.tok = refresh.tok
    BY <1>2 DEF ClientTypeOK
  <2> QED BY <1>1, <1>2, <2>1, SelectFacts
<1>3. ASSUME refresh' = [refresh EXCEPT !.phase = "lost"], UNCHANGED vars
      PROVE  row' = row /\ req' = req /\ refresh'.phase = "lost" /\ refresh'.tok = refresh.tok
  BY <1>3 DEF ClientTypeOK, vars
<1>4. refresh.phase = "sent"
  BY DEF RefreshArrives
<1>5. CASE \E r \in Requests :
             /\ RotateSelect(r, refresh.tok)
             /\ refresh' = [refresh EXCEPT !.phase = "begun", !.req = r]
             /\ UNCHANGED disturbed
  <2>1. PICK r \in Requests :
             /\ RotateSelect(r, refresh.tok)
             /\ refresh' = [refresh EXCEPT !.phase = "begun", !.req = r]
             /\ UNCHANGED disturbed
    BY <1>5
  <2>2. /\ row' = row /\ refresh'.tok = refresh.tok /\ disturbed' = disturbed
        /\ refresh'.phase = "begun" /\ refresh'.req = r
        /\ req'[r].phase = "rotate" /\ req'[r].tok = refresh.tok
        /\ \A s \in Requests : s # r => req'[s] = req[s]
    BY <2>1, <1>2
  <2> QED BY <1>4, <2>2, Zenon
<1>6. CASE /\ refresh' = [refresh EXCEPT !.phase = "lost"]
           /\ UNCHANGED vars /\ (disturbed => disturbed')
  BY <1>3, <1>4, <1>6
<1>7. \/ \E r \in Requests :
            /\ RotateSelect(r, refresh.tok)
            /\ refresh' = [refresh EXCEPT !.phase = "begun", !.req = r]
            /\ UNCHANGED disturbed
      \/ refresh' = [refresh EXCEPT !.phase = "lost"] /\ UNCHANGED vars /\ (disturbed => disturbed')
  BY Zenon DEF RefreshArrives
<1> QED BY <1>5, <1>6, <1>7, Zenon

\* The refresh won: the calls that waited for it send again, and wait for their answer.
LEMMA WonFacts ==
    ASSUME ClientTypeOK, RefreshWon
    PROVE  \A d \in Calls :
            \/ call'[d] = call[d]
            \/ /\ call[d].phase = "waiting" /\ call'[d].phase = "resent"
               /\ call'[d].kind = call[d].kind /\ call'[d].sid = refresh.tok /\ call'[d].got = None
BY DEF RefreshWon, Sent

\* The refresh is lost: the calls that waited for it end.
LEMMA LostFacts ==
    ASSUME ClientTypeOK, RefreshLost
    PROVE  \A d \in Calls :
            \/ call'[d] = call[d]
            \/ /\ call'[d].phase = "idle" /\ call'[d].kind = "get"
               /\ call'[d].sid = None /\ call'[d].got = None
BY DEF RefreshLost, NoCall

\* What the server does for a call other than a login.
LEMMA ServeFacts ==
    ASSUME ClientTypeOK, NEW c \in Calls, Serve(c)
    PROVE  /\ TypeOK' /\ req' = req
           /\ \A d \in Calls : d # c => call'[d] = call[d]
           /\ call[c].kind # "login" /\ call'[c].phase # "idle"
           /\ call'[c].kind = call[c].kind /\ call'[c].sid = call[c].sid /\ call'[c].got = None
           /\ call' \in [Calls -> CallType]
           /\ \A x \in Tokens : /\ row[x].state # "unused" => row'[x].state # "unused"
                                /\ row'[x].next = row[x].next
                                /\ x # call[c].sid => row'[x] = row[x]
           /\ call[c].kind = "logout" \/ row' = row
<1>1. TypeOK
  BY DEF ClientTypeOK
<1> DEFINE ok == Accepts(call[c].kind, call[c].sid)
<1>2. Answered(c, ok, None) /\ ok \in BOOLEAN
  BY DEF Serve, Accepts, Decodes, Live
<1>3. /\ \A d \in Calls : d # c => call'[d] = call[d]
      /\ call'[c].kind = call[c].kind /\ call'[c].sid = call[c].sid /\ call'[c].got = None
      /\ call'[c].phase \in {"answer", "reanswer"}
      /\ call' \in [Calls -> CallType]
  <2> HIDE DEF ok
  <2> QED BY <1>2, AnsweredFacts
<1>4. CASE row' = row
  <2>1. TypeOK'
    BY <1>1, <1>4 DEF Serve, rest, TypeOK
  <2> QED BY <1>3, <1>4, <2>1 DEF Serve
<1>5. CASE call[c].kind = "logout" /\ row' = Revoked({call[c].sid})
  <2>1. /\ row' \in [Tokens -> Row]
        /\ \A x \in Tokens : /\ row[x].state # "unused" => row'[x].state # "unused"
                             /\ row'[x].next = row[x].next
                             /\ x # call[c].sid => row'[x] = row[x]
    BY <1>1, <1>5, RowFacts
  <2>2. TypeOK'
    BY <1>1, <2>1 DEF Serve, rest, TypeOK
  <2> QED BY <1>3, <1>5, <2>1, <2>2 DEF Serve
<1> QED BY <1>4, <1>5 DEF Serve

\* A login is refused, or gets a session of its own.
LEMMA ServeLoginFacts ==
    ASSUME ClientTypeOK, NEW c \in Calls, ServeLogin(c)
    PROVE  /\ TypeOK' /\ req' = req
           /\ \A d \in Calls : d # c => call'[d] = call[d]
           /\ call[c].kind = "login" /\ call'[c].phase # "idle"
           /\ call'[c].kind = call[c].kind /\ call'[c].sid = call[c].sid
           /\ call' \in [Calls -> CallType]
           /\ \A x \in Tokens : row[x].state # "unused" => row'[x] = row[x]
           /\ \/ row' = row /\ ~call'[c].ok /\ call'[c].got = None
              \/ /\ call'[c].got \in Tokens /\ row[call'[c].got].state = "unused"
                 /\ row'[call'[c].got].state = "live" /\ row'[call'[c].got].next = None
<1>1. TypeOK
  BY DEF ClientTypeOK
<1>2. CASE Answered(c, FALSE, None) /\ UNCHANGED row
  <2>1. TypeOK'
    BY <1>1, <1>2 DEF ServeLogin, rest, TypeOK
  <2> QED BY <1>2, <2>1, AnsweredFacts DEF ServeLogin
<1>3. CASE /\ Room
           /\ row' = Opened(Fresh, Account, version[Account])
           /\ Answered(c, TRUE, Fresh)
  <2>1. Unused # {}
    BY <1>3, RoomFacts
  <2>2. Fresh \in Tokens /\ row[Fresh].state = "unused"
    BY <2>1, FreshFacts
  <2>3. version[Account] \in Versions
    BY <1>1, AccountAssumption DEF TypeOK
  <2>4. /\ row' \in [Tokens -> Row]
        /\ row'[Fresh].state = "live" /\ row'[Fresh].next = None
        /\ \A x \in Tokens \ {Fresh} : row'[x] = row[x]
    BY <1>1, <1>3, <2>1, <2>3, AccountAssumption, RowFacts
  <2>5. TypeOK'
    BY <1>1, <2>4 DEF ServeLogin, rest, TypeOK
  <2>6. /\ \A d \in Calls : d # c => call'[d] = call[d]
        /\ call'[c].kind = call[c].kind /\ call'[c].sid = call[c].sid /\ call'[c].got = Fresh
        /\ call'[c].phase \in {"answer", "reanswer"}
        /\ call' \in [Calls -> CallType]
    BY <1>3, <2>2, AnsweredFacts
  <2> QED BY <2>2, <2>4, <2>5, <2>6 DEF ServeLogin
<1> QED BY <1>2, <1>3 DEF ServeLogin

-----------------------------------------------------------------------------
(* Every step keeps the inductive invariant *)

\* Every variable of the page and of the sessions keeps its type.
LEMMA ClientTypeStep ==
    ASSUME ClientTypeOK, KnownInv, [ClientNext]_all
    PROVE  ClientTypeOK'
<1>1. /\ TypeOK /\ call \in [Calls -> CallType] /\ {access, stored} \subseteq Tokens \cup {None}
      /\ refresh.phase # "none" => refresh.tok \in Tokens
  BY TokensAssumption DEF ClientTypeOK, CallType
<1>2. ASSUME NEW c \in Calls, NEW k \in Kinds, Send(c, k) PROVE ClientTypeOK'
  <2>1. TypeOK'
    BY <1>1, <1>2, TypeKept DEF Send
  <2>2. call' \in [Calls -> CallType]
    BY <1>1, <1>2, CallTyped DEF Send, CallPhases
  <2> QED BY <1>2, <2>1, <2>2 DEF Send, RefreshType, ClientTypeOK, CallType, vars, rest, world,
     page
<1>3. ASSUME NEW c \in Calls, DeliverOk(c) PROVE ClientTypeOK'
  <2>1. TypeOK'
    BY <1>1, <1>3, TypeKept DEF DeliverOk
  <2>2. Finish(c, TRUE)
    BY <1>3 DEF DeliverOk
  <2>3. /\ {access', stored'} \subseteq Tokens \cup {None}
        /\ user' \in {user, Account, None}
        /\ call' \in [Calls -> CallType]
    <3>1. call[c].got \in Tokens \cup {None}
      BY <1>1 DEF CallType
    <3> QED BY <1>1, <2>2, <3>1, FinishFacts
  <2> QED
    BY <1>3, <2>1, <2>3, AccountAssumption, FaultsAssumption DEF DeliverOk, RefreshType,
       ClientTypeOK, CallType, vars, rest, world, page
<1>4. ASSUME NEW c \in Calls, DeliverUnauthorized(c) PROVE ClientTypeOK'
  <2>1. TypeOK'
    BY <1>1, <1>4, TypeKept DEF DeliverUnauthorized
  <2>2. call' \in [Calls -> CallType]
    BY <1>1, <1>4 DEF DeliverUnauthorized, CallType, CallPhases
  <2>3. /\ refresh' \in RefreshType
        /\ refresh'.phase # "none" => refresh'.tok # None
    BY <1>4 DEF DeliverUnauthorized, ClientTypeOK, RefreshType
  <2> QED BY <1>4, <2>1, <2>2, <2>3 DEF DeliverUnauthorized, RefreshType, ClientTypeOK, CallType,
     vars, rest, world, page
<1>5. ASSUME NEW c \in Calls, GiveUp(c) PROVE ClientTypeOK'
  <2>1. TypeOK'
    BY <1>1, <1>5, TypeKept DEF GiveUp
  <2>2. call' \in [Calls -> CallType]
    BY <1>1, <1>5, CallTyped DEF GiveUp
  <2> QED BY <1>5, <2>1, <2>2 DEF GiveUp, TearDown, SetTokens, RefreshType, ClientTypeOK,
     CallType, vars, rest, world, page
<1>6. ASSUME NEW c \in Calls, Serve(c) PROVE ClientTypeOK'
  <2>1. TypeOK' /\ call' \in [Calls -> CallType]
    BY <1>6, ServeFacts
  <2> QED BY <1>6, <2>1 DEF Serve, RefreshType, ClientTypeOK, CallType, vars, rest, world, page
<1>7. ASSUME NEW c \in Calls, ServeLogin(c) PROVE ClientTypeOK'
  <2>1. TypeOK' /\ call' \in [Calls -> CallType]
    BY <1>7, ServeLoginFacts
  <2> QED BY <1>7, <2>1 DEF ServeLogin, RefreshType, ClientTypeOK, CallType, vars, rest, world,
     page
<1>8. ASSUME NEW c \in Calls, LoseCall(c) PROVE ClientTypeOK'
  <2>1. TypeOK'
    BY <1>1, <1>8, TypeKept DEF LoseCall
  <2>2. Finish(c, FALSE)
    BY <1>8 DEF LoseCall
  <2>3. /\ {access', stored'} \subseteq Tokens \cup {None}
        /\ user' \in {user, Account, None}
        /\ call' \in [Calls -> CallType]
    <3>1. call[c].got \in Tokens \cup {None}
      BY <1>1 DEF CallType
    <3> QED BY <1>1, <2>2, <3>1, FinishFacts
  <2> QED
    BY <1>8, <2>1, <2>3, AccountAssumption, FaultsAssumption DEF LoseCall, RefreshType,
       ClientTypeOK, CallType, vars, rest, world, page
<1>9. ASSUME NEW c \in Calls, Reload(c) PROVE ClientTypeOK'
  <2>1. TypeOK'
    BY <1>1, <1>9, TypeKept DEF Reload
  <2>2. call' \in [Calls -> CallType]
    BY <1>1, <1>9, CallTyped DEF Reload, CallPhases, Kinds
  <2>3. faults' \in 0 .. MaxFaults /\ disturbed' \in BOOLEAN
    BY <1>9, FaultsAssumption DEF Reload, ClientTypeOK
  <2> QED BY <1>9, <2>1, <2>2, <2>3 DEF Reload, NoRefresh, RefreshType, ClientTypeOK, CallType,
     vars, rest, world, page
<1>10. CASE RefreshArrives
  <2>1. TypeOK'
    <3>1. CASE UNCHANGED vars
      BY <1>1, <3>1, TypeKept
    <3>2. ASSUME NEW r \in Requests, RotateSelect(r, refresh.tok) PROVE TypeOK'
      <4>1. refresh.tok \in Tokens
        BY <1>1, <1>10 DEF RefreshArrives
      <4> QED BY <1>1, <3>2, <4>1, SelectFacts
    <3> QED BY <1>10, <3>1, <3>2 DEF RefreshArrives
  <2>2. /\ refresh' \in RefreshType
        /\ refresh'.phase # "none" => refresh'.tok # None
    BY <1>1, <1>10, TokensAssumption DEF RefreshArrives, ClientTypeOK, RefreshType
  <2> QED BY <1>10, <2>1, <2>2 DEF RefreshArrives, RefreshType, ClientTypeOK, CallType, vars,
     rest, world, page
<1>11. CASE RefreshWon
  <2>1. TypeOK'
    BY <1>1, <1>11, TypeKept DEF RefreshWon
  <2>2. call' \in [Calls -> CallType]
    <3>1. refresh.tok \in Tokens
      BY <1>1, <1>11 DEF RefreshWon
    <3>2. \A d \in Calls : call[d] \in CallType /\ call[d].kind \in Kinds
      BY <1>1 DEF CallType
    <3>3. \A d \in Calls : Sent(call[d].kind, "resent", refresh.tok) \in CallType
      BY <3>1, <3>2, CallTyped DEF CallPhases
    <3> QED BY <1>11, <3>2, <3>3 DEF RefreshWon
  <2> QED BY <1>1, <1>11, <2>1, <2>2 DEF RefreshWon, SetTokens, NoRefresh, RefreshType,
     ClientTypeOK, CallType, vars, rest, world, page
<1>12. CASE RefreshLost
  <2>1. TypeOK'
    BY <1>1, <1>12, TypeKept DEF RefreshLost
  <2>2. call' \in [Calls -> CallType]
    BY <1>1, <1>12, CallTyped DEF RefreshLost
  <2> QED BY <1>1, <1>12, <2>1, <2>2 DEF RefreshLost, TearDown, SetTokens, NoRefresh,
     RefreshType, ClientTypeOK, CallType, vars, rest, world, page
<1>13. CASE LoseRefresh
  <2>1. TypeOK'
    BY <1>1, <1>13, TypeKept DEF LoseRefresh
  <2>2. /\ refresh' \in RefreshType
        /\ refresh'.phase # "none" => refresh'.tok # None
    BY <1>1, <1>13, TokensAssumption DEF LoseRefresh, ClientTypeOK, RefreshType
  <2>3. faults' \in 0 .. MaxFaults
    BY <1>13, FaultsAssumption DEF LoseRefresh, ClientTypeOK
  <2> QED BY <1>13, <2>1, <2>2, <2>3 DEF LoseRefresh, RefreshType, ClientTypeOK, CallType, vars,
     rest, world, page
<1>14. ASSUME NEW r \in Requests, RefreshCommits(r) PROVE ClientTypeOK'
  <2>1. TypeOK' /\ Fresh \in Tokens
    <3>1. /\ RotateCommit(r) /\ req[r].phase = "rotate"
          /\ req[r].tok \in Tokens /\ row[req[r].tok].state # "unused"
      BY <1>14 DEF RefreshCommits, RotateCommit, KnownInv
    <3> QED BY <1>1, <3>1, CommitFacts
  <2> QED BY <1>14, <2>1, TokensAssumption DEF RefreshCommits, RefreshType, ClientTypeOK,
     CallType, vars, rest, world, page
<1>15. ASSUME NEW t \in Tokens, AccessExpires(t) PROVE ClientTypeOK'
  <2>1. TypeOK'
    BY <1>1, <1>15, TypeKept DEF AccessExpires
  <2> QED BY <1>15, <2>1 DEF AccessExpires, RefreshType, ClientTypeOK, CallType, vars, rest,
     world, page
<1>16. ASSUME NEW t \in Tokens, EndElsewhere(t) PROVE ClientTypeOK'
  <2>1. TypeOK'
    BY <1>1, <1>16, ExpireFacts DEF EndElsewhere
  <2>2. faults' \in 0 .. MaxFaults
    BY <1>16, FaultsAssumption DEF EndElsewhere, ClientTypeOK
  <2> QED BY <1>16, <2>1, <2>2 DEF EndElsewhere, RefreshType, ClientTypeOK, CallType, vars, rest,
     world, page
<1>17. CASE UNCHANGED all
  <2>1. TypeOK'
    BY <1>1, <1>17, TypeKept DEF all
  <2> QED BY <1>17, <2>1 DEF all, RefreshType, ClientTypeOK, CallType, vars, rest, world, page
<1> QED
  BY <1>2, <1>3, <1>4, <1>5, <1>6, <1>7, <1>8, <1>9, <1>10, <1>11, <1>12, <1>13, <1>14, <1>15,
     <1>16, <1>17
  DEF ClientNext, PageStep, RefreshStep

\* Every session named was opened.
LEMMA KnownStep ==
    ASSUME ClientTypeOK, KnownInv, [ClientNext]_all
    PROVE  KnownInv'
<1> USE DEF KnownInv, vars, rest, world, page, all, Sent, NoCall, SetTokens, TearDown
<1>1. /\ refresh.phase # "none" => refresh.tok \in Tokens
      /\ access \in Tokens \cup {None} /\ stored \in Tokens \cup {None}
      /\ \A c \in Calls : call[c].sid \in Tokens \cup {None} /\ call[c].got \in Tokens \cup {None}
      /\ TypeOK /\ call \in [Calls -> CallType]
      /\ NoRefresh.phase = "none" /\ NoRefresh.tok = None /\ None \notin Tokens
  BY TokensAssumption DEF ClientTypeOK, CallType, NoRefresh
<1>2. ASSUME NEW c \in Calls, NEW k \in Kinds, Send(c, k) PROVE KnownInv'
  BY <1>2, <1>1 DEF Send
<1>3. ASSUME NEW c \in Calls, DeliverOk(c) PROVE KnownInv'
  <2>1. Finish(c, TRUE)
    BY <1>3 DEF DeliverOk
  <2>2. /\ \A d \in Calls : d # c => call'[d] = call[d]
        /\ call'[c].phase \in {"idle", "sent"} /\ call'[c].kind \in {"get", "me"}
        /\ call'[c].got = None
        /\ \/ /\ call[c].kind = "login" /\ TRUE
              /\ call'[c].sid = call[c].got /\ access' = call[c].got /\ stored' = call[c].got
           \/ /\ call[c].kind = "logout"
              /\ call'[c].sid = None /\ access' = None /\ stored' = None
           \/ /\ call[c].kind # "logout"
              /\ call'[c].sid = None /\ access' = access /\ stored' = stored
    BY <2>1, FinishFacts
  <2>3. /\ call[c].phase # "idle" /\ row' = row /\ req' = req
        /\ refresh' = refresh /\ disturbed' = disturbed
    BY <1>3 DEF DeliverOk
  <2> QED BY <1>1, <2>2, <2>3, <1>3 DEF DeliverOk
<1>4. ASSUME NEW c \in Calls, DeliverUnauthorized(c) PROVE KnownInv'
  <2>1. /\ \A d \in Calls : d # c => call'[d] = call[d]
        /\ call'[c].kind = call[c].kind /\ call'[c].sid = call[c].sid /\ call'[c].got = call[c].got
        /\ call'[c].phase = "waiting"
        /\ \/ refresh # NoRefresh /\ refresh' = refresh
           \/ /\ refresh = NoRefresh /\ stored # None
              /\ refresh'.phase = "sent" /\ refresh'.tok = stored
    BY <1>4, WaitFacts
  <2>2. /\ access' = access /\ stored' = stored
        /\ row' = row /\ req' = req /\ disturbed' = disturbed
    BY <1>4 DEF DeliverUnauthorized
  <2> QED BY <1>1, <2>1, <2>2
<1>5. ASSUME NEW c \in Calls, GiveUp(c) PROVE KnownInv'
  BY <1>5, <1>1 DEF GiveUp
<1>6. ASSUME NEW c \in Calls, Serve(c) PROVE KnownInv'
  <2>1. /\ req' = req
        /\ \A d \in Calls : d # c => call'[d] = call[d]
        /\ call[c].kind # "login" /\ call'[c].phase # "idle"
        /\ call'[c].kind = call[c].kind /\ call'[c].sid = call[c].sid /\ call'[c].got = None
        /\ \A x \in Tokens : /\ row[x].state # "unused" => row'[x].state # "unused"
                             /\ row'[x].next = row[x].next
                             /\ x # call[c].sid => row'[x] = row[x]
        /\ call[c].kind = "logout" \/ row' = row
    BY <1>6, ServeFacts
  <2>2. /\ access' = access /\ stored' = stored /\ refresh' = refresh /\ disturbed' = disturbed
    BY <1>6 DEF Serve
  <2> QED BY <1>1, <2>1, <2>2
<1>7. ASSUME NEW c \in Calls, ServeLogin(c) PROVE KnownInv'
  <2>1. /\ req' = req
        /\ \A d \in Calls : d # c => call'[d] = call[d]
        /\ call[c].kind = "login" /\ call'[c].phase # "idle"
        /\ call'[c].kind = call[c].kind /\ call'[c].sid = call[c].sid
        /\ \A x \in Tokens : row[x].state # "unused" => row'[x] = row[x]
        /\ \/ row' = row /\ ~call'[c].ok /\ call'[c].got = None
           \/ /\ call'[c].got \in Tokens /\ row[call'[c].got].state = "unused"
              /\ row'[call'[c].got].state = "live" /\ row'[call'[c].got].next = None
    BY <1>7, ServeLoginFacts
  <2>2. /\ access' = access /\ stored' = stored /\ refresh' = refresh /\ disturbed' = disturbed
    BY <1>7 DEF ServeLogin
  <2> QED BY <1>1, <2>1, <2>2
<1>8. ASSUME NEW c \in Calls, LoseCall(c) PROVE KnownInv'
  <2>1. Finish(c, FALSE)
    BY <1>8 DEF LoseCall
  <2>2. /\ \A d \in Calls : d # c => call'[d] = call[d]
        /\ call'[c].phase \in {"idle", "sent"} /\ call'[c].kind \in {"get", "me"}
        /\ call'[c].got = None
        /\ \/ /\ call[c].kind = "login" /\ FALSE
              /\ call'[c].sid = call[c].got /\ access' = call[c].got /\ stored' = call[c].got
           \/ /\ call[c].kind = "logout"
              /\ call'[c].sid = None /\ access' = None /\ stored' = None
           \/ /\ call[c].kind # "logout"
              /\ call'[c].sid = None /\ access' = access /\ stored' = stored
    BY <2>1, FinishFacts
  <2>3. /\ call[c].phase # "idle" /\ row' = row /\ req' = req
        /\ refresh' = refresh /\ disturbed' = disturbed
    BY <1>8 DEF LoseCall
  <2> QED BY <1>1, <2>2, <2>3, <1>8 DEF LoseCall
<1>9. ASSUME NEW c \in Calls, Reload(c) PROVE KnownInv'
  BY <1>9, <1>1 DEF Reload
<1>10. CASE RefreshArrives
  <2>1. /\ row' = row /\ refresh.phase = "sent" /\ refresh'.tok = refresh.tok
        /\ disturbed => disturbed'
        /\ \/ refresh'.phase = "lost" /\ req' = req
           \/ \E r \in Requests :
                /\ refresh'.phase = "begun" /\ refresh'.req = r
                /\ req'[r].phase = "rotate" /\ req'[r].tok = refresh.tok
                /\ \A s \in Requests : s # r => req'[s] = req[s]
    BY <1>10, ArriveFacts
  <2>2. access' = access /\ stored' = stored /\ call' = call
    BY <1>10 DEF RefreshArrives
  <2> QED BY <1>1, <2>1, <2>2
<1>11. CASE RefreshWon
  <2>1. \A d \in Calls :
          \/ call'[d] = call[d]
          \/ /\ call[d].phase = "waiting" /\ call'[d].phase = "resent"
             /\ call'[d].kind = call[d].kind /\ call'[d].sid = refresh.tok /\ call'[d].got = None
    BY <1>11, WonFacts
  <2>2. /\ refresh.phase = "won" /\ refresh' = NoRefresh
        /\ access' = refresh.tok /\ stored' = refresh.tok
        /\ row' = row /\ req' = req /\ disturbed' = disturbed
    BY <1>11 DEF RefreshWon
  <2> QED BY <1>1, <2>1, <2>2
<1>12. CASE RefreshLost
  <2>1. \A d \in Calls :
          \/ call'[d] = call[d]
          \/ /\ call'[d].phase = "idle" /\ call'[d].kind = "get"
             /\ call'[d].sid = None /\ call'[d].got = None
    BY <1>12, LostFacts
  <2>2. /\ refresh.phase = "lost" /\ refresh' = NoRefresh /\ access' = None /\ stored' = None
        /\ row' = row /\ req' = req /\ disturbed' = disturbed
    BY <1>12 DEF RefreshLost
  <2> QED BY <1>1, <2>1, <2>2
<1>13. CASE LoseRefresh
  <2>1. refresh'.phase = "lost" /\ refresh'.tok = refresh.tok
    BY <1>13 DEF LoseRefresh, ClientTypeOK
  <2> QED BY <1>1, <1>13, <2>1 DEF LoseRefresh
<1>14. ASSUME NEW r \in Requests, RefreshCommits(r) PROVE KnownInv'
  <2>1. /\ Fresh \in Tokens /\ row[Fresh].state = "unused"
        /\ row'[Fresh].state = "live" /\ row'[Fresh].next = None
        /\ row'[req[r].tok].state = "revoked"
        /\ \A x \in Tokens \ {req[r].tok, Fresh} : row'[x] = row[x]
        /\ req[r].phase = "rotate" /\ req'[r].phase = "idle"
        /\ \A s \in Requests : s # r => req'[s] = req[s]
    <3>1. /\ RotateCommit(r) /\ req[r].phase = "rotate"
          /\ req[r].tok \in Tokens /\ row[req[r].tok].state # "unused"
      BY <1>14 DEF RefreshCommits, RotateCommit
    <3> QED BY <1>1, <3>1, CommitFacts
  <2>2. /\ access' = access /\ stored' = stored /\ call' = call /\ disturbed' = disturbed
        /\ IF refresh.phase = "begun" /\ refresh.req = r
           THEN refresh' = [phase |-> "won", tok |-> Fresh, req |-> None] ELSE refresh' = refresh
    BY <1>14 DEF RefreshCommits
  <2>3. req[r].tok \in Tokens /\ row[req[r].tok].state # "unused"
    BY <2>1
  <2> QED BY <1>1, <2>1, <2>2, <2>3
<1>15. ASSUME NEW t \in Tokens, AccessExpires(t) PROVE KnownInv'
  BY <1>15, <1>1 DEF AccessExpires
<1>16. ASSUME NEW t \in Tokens, EndElsewhere(t) PROVE KnownInv'
  <2>1. \A x \in Tokens : row[x].state # "unused" => row'[x].state # "unused"
    BY <1>1, <1>16, ExpireFacts DEF EndElsewhere
  <2> QED BY <1>1, <1>16, <2>1 DEF EndElsewhere, Expire
<1>17. CASE UNCHANGED all
  BY <1>17, <1>1 DEF all
<1> QED
  BY <1>2, <1>3, <1>4, <1>5, <1>6, <1>7, <1>8, <1>9, <1>10, <1>11, <1>12, <1>13, <1>14, <1>15,
     <1>16, <1>17
  DEF ClientNext, PageStep, RefreshStep

\* Only the refresh the page waits for rotates, and only the session it sent.
LEMMA RotatingStep ==
    ASSUME ClientTypeOK, KnownInv, RotatingInv, GrantedInv, KeptInv, [ClientNext]_all
    PROVE  RotatingInv'
<1> USE DEF RotatingInv, KnownInv, GrantedInv, KeptInv, Granted, Live, vars, rest, world, page,
   all, Sent, NoCall, SetTokens, TearDown
<1>1. /\ refresh.phase # "none" => refresh.tok \in Tokens
      /\ access \in Tokens \cup {None} /\ stored \in Tokens \cup {None}
      /\ \A c \in Calls : call[c].sid \in Tokens \cup {None} /\ call[c].got \in Tokens \cup {None}
      /\ TypeOK /\ call \in [Calls -> CallType]
      /\ NoRefresh.phase = "none" /\ NoRefresh.tok = None /\ None \notin Tokens
  BY TokensAssumption DEF ClientTypeOK, CallType, NoRefresh
<1>2. ASSUME NEW c \in Calls, NEW k \in Kinds, Send(c, k) PROVE RotatingInv'
  BY <1>2, <1>1 DEF Send
<1>3. ASSUME NEW c \in Calls, DeliverOk(c) PROVE RotatingInv'
  <2>1. Finish(c, TRUE)
    BY <1>3 DEF DeliverOk
  <2>2. /\ \A d \in Calls : d # c => call'[d] = call[d]
        /\ call'[c].phase \in {"idle", "sent"} /\ call'[c].kind \in {"get", "me"}
        /\ call'[c].got = None
        /\ \/ /\ call[c].kind = "login" /\ TRUE
              /\ call'[c].sid = call[c].got /\ access' = call[c].got /\ stored' = call[c].got
           \/ /\ call[c].kind = "logout"
              /\ call'[c].sid = None /\ access' = None /\ stored' = None
           \/ /\ call[c].kind # "logout"
              /\ call'[c].sid = None /\ access' = access /\ stored' = stored
    BY <2>1, FinishFacts
  <2>3. /\ call[c].phase # "idle" /\ row' = row /\ req' = req
        /\ refresh' = refresh /\ disturbed' = disturbed
    BY <1>3 DEF DeliverOk
  <2>4. ~disturbed /\ call[c].kind = "login" => Secret(c)
    BY <1>3 DEF DeliverOk
  <2>5. ~disturbed /\ call[c].kind = "login" =>
          /\ call[c].got \in Tokens /\ Live(call[c].got) /\ row[call[c].got].next = None
          /\ refresh.tok # call[c].got
    BY <2>4 DEF Secret
  <2> QED BY <1>1, <2>5, <2>2, <2>3, <1>3 DEF DeliverOk
<1>4. ASSUME NEW c \in Calls, DeliverUnauthorized(c) PROVE RotatingInv'
  <2>1. /\ \A d \in Calls : d # c => call'[d] = call[d]
        /\ call'[c].kind = call[c].kind /\ call'[c].sid = call[c].sid /\ call'[c].got = call[c].got
        /\ call'[c].phase = "waiting"
        /\ \/ refresh # NoRefresh /\ refresh' = refresh
           \/ /\ refresh = NoRefresh /\ stored # None
              /\ refresh'.phase = "sent" /\ refresh'.tok = stored
    BY <1>4, WaitFacts
  <2>2. /\ access' = access /\ stored' = stored
        /\ row' = row /\ req' = req /\ disturbed' = disturbed
    BY <1>4 DEF DeliverUnauthorized
  <2> QED BY <1>1, <2>1, <2>2
<1>5. ASSUME NEW c \in Calls, GiveUp(c) PROVE RotatingInv'
  BY <1>5, <1>1 DEF GiveUp
<1>6. ASSUME NEW c \in Calls, Serve(c) PROVE RotatingInv'
  <2>1. /\ req' = req
        /\ \A d \in Calls : d # c => call'[d] = call[d]
        /\ call[c].kind # "login" /\ call'[c].phase # "idle"
        /\ call'[c].kind = call[c].kind /\ call'[c].sid = call[c].sid /\ call'[c].got = None
        /\ \A x \in Tokens : /\ row[x].state # "unused" => row'[x].state # "unused"
                             /\ row'[x].next = row[x].next
                             /\ x # call[c].sid => row'[x] = row[x]
        /\ call[c].kind = "logout" \/ row' = row
    BY <1>6, ServeFacts
  <2>2. /\ access' = access /\ stored' = stored /\ refresh' = refresh /\ disturbed' = disturbed
    BY <1>6 DEF Serve
  <2> QED BY <1>1, <2>1, <2>2
<1>7. ASSUME NEW c \in Calls, ServeLogin(c) PROVE RotatingInv'
  <2>1. /\ req' = req
        /\ \A d \in Calls : d # c => call'[d] = call[d]
        /\ call[c].kind = "login" /\ call'[c].phase # "idle"
        /\ call'[c].kind = call[c].kind /\ call'[c].sid = call[c].sid
        /\ \A x \in Tokens : row[x].state # "unused" => row'[x] = row[x]
        /\ \/ row' = row /\ ~call'[c].ok /\ call'[c].got = None
           \/ /\ call'[c].got \in Tokens /\ row[call'[c].got].state = "unused"
              /\ row'[call'[c].got].state = "live" /\ row'[call'[c].got].next = None
    BY <1>7, ServeLoginFacts
  <2>2. /\ access' = access /\ stored' = stored /\ refresh' = refresh /\ disturbed' = disturbed
    BY <1>7 DEF ServeLogin
  <2> QED BY <1>1, <2>1, <2>2
<1>8. ASSUME NEW c \in Calls, LoseCall(c) PROVE RotatingInv'
  <2>1. Finish(c, FALSE)
    BY <1>8 DEF LoseCall
  <2>2. /\ \A d \in Calls : d # c => call'[d] = call[d]
        /\ call'[c].phase \in {"idle", "sent"} /\ call'[c].kind \in {"get", "me"}
        /\ call'[c].got = None
        /\ \/ /\ call[c].kind = "login" /\ FALSE
              /\ call'[c].sid = call[c].got /\ access' = call[c].got /\ stored' = call[c].got
           \/ /\ call[c].kind = "logout"
              /\ call'[c].sid = None /\ access' = None /\ stored' = None
           \/ /\ call[c].kind # "logout"
              /\ call'[c].sid = None /\ access' = access /\ stored' = stored
    BY <2>1, FinishFacts
  <2>3. /\ call[c].phase # "idle" /\ row' = row /\ req' = req
        /\ refresh' = refresh /\ disturbed' = disturbed
    BY <1>8 DEF LoseCall
  <2> QED BY <1>1, <2>2, <2>3, <1>8 DEF LoseCall
<1>9. ASSUME NEW c \in Calls, Reload(c) PROVE RotatingInv'
  BY <1>9, <1>1 DEF Reload
<1>10. CASE RefreshArrives
  <2>1. /\ row' = row /\ refresh.phase = "sent" /\ refresh'.tok = refresh.tok
        /\ disturbed => disturbed'
        /\ \/ refresh'.phase = "lost" /\ req' = req
           \/ \E r \in Requests :
                /\ refresh'.phase = "begun" /\ refresh'.req = r
                /\ req'[r].phase = "rotate" /\ req'[r].tok = refresh.tok
                /\ \A s \in Requests : s # r => req'[s] = req[s]
    BY <1>10, ArriveFacts
  <2>2. access' = access /\ stored' = stored /\ call' = call
    BY <1>10 DEF RefreshArrives
  <2> QED BY <1>1, <2>1, <2>2
<1>11. CASE RefreshWon
  <2>1. \A d \in Calls :
          \/ call'[d] = call[d]
          \/ /\ call[d].phase = "waiting" /\ call'[d].phase = "resent"
             /\ call'[d].kind = call[d].kind /\ call'[d].sid = refresh.tok /\ call'[d].got = None
    BY <1>11, WonFacts
  <2>2. /\ refresh.phase = "won" /\ refresh' = NoRefresh
        /\ access' = refresh.tok /\ stored' = refresh.tok
        /\ row' = row /\ req' = req /\ disturbed' = disturbed
    BY <1>11 DEF RefreshWon
  <2> QED BY <1>1, <2>1, <2>2
<1>12. CASE RefreshLost
  <2>1. \A d \in Calls :
          \/ call'[d] = call[d]
          \/ /\ call'[d].phase = "idle" /\ call'[d].kind = "get"
             /\ call'[d].sid = None /\ call'[d].got = None
    BY <1>12, LostFacts
  <2>2. /\ refresh.phase = "lost" /\ refresh' = NoRefresh /\ access' = None /\ stored' = None
        /\ row' = row /\ req' = req /\ disturbed' = disturbed
    BY <1>12 DEF RefreshLost
  <2> QED BY <1>1, <2>1, <2>2
<1>13. CASE LoseRefresh
  <2>1. refresh'.phase = "lost" /\ refresh'.tok = refresh.tok
    BY <1>13 DEF LoseRefresh, ClientTypeOK
  <2> QED BY <1>1, <1>13, <2>1 DEF LoseRefresh
<1>14. ASSUME NEW r \in Requests, RefreshCommits(r) PROVE RotatingInv'
  <2>1. /\ Fresh \in Tokens /\ row[Fresh].state = "unused"
        /\ row'[Fresh].state = "live" /\ row'[Fresh].next = None
        /\ row'[req[r].tok].state = "revoked"
        /\ \A x \in Tokens \ {req[r].tok, Fresh} : row'[x] = row[x]
        /\ req[r].phase = "rotate" /\ req'[r].phase = "idle"
        /\ \A s \in Requests : s # r => req'[s] = req[s]
    <3>1. /\ RotateCommit(r) /\ req[r].phase = "rotate"
          /\ req[r].tok \in Tokens /\ row[req[r].tok].state # "unused"
      BY <1>14 DEF RefreshCommits, RotateCommit
    <3> QED BY <1>1, <3>1, CommitFacts
  <2>2. /\ access' = access /\ stored' = stored /\ call' = call /\ disturbed' = disturbed
        /\ IF refresh.phase = "begun" /\ refresh.req = r
           THEN refresh' = [phase |-> "won", tok |-> Fresh, req |-> None] ELSE refresh' = refresh
    BY <1>14 DEF RefreshCommits
  <2>3. req[r].tok \in Tokens /\ row[req[r].tok].state # "unused"
    BY <2>1
  <2> QED BY <1>1, <2>1, <2>2, <2>3
<1>15. ASSUME NEW t \in Tokens, AccessExpires(t) PROVE RotatingInv'
  BY <1>15, <1>1 DEF AccessExpires
<1>16. ASSUME NEW t \in Tokens, EndElsewhere(t) PROVE RotatingInv'
  <2>1. \A x \in Tokens : row[x].state # "unused" => row'[x].state # "unused"
    BY <1>1, <1>16, ExpireFacts DEF EndElsewhere
  <2> QED BY <1>1, <1>16, <2>1 DEF EndElsewhere, Expire
<1>17. CASE UNCHANGED all
  BY <1>17, <1>1 DEF all
<1> QED
  BY <1>2, <1>3, <1>4, <1>5, <1>6, <1>7, <1>8, <1>9, <1>10, <1>11, <1>12, <1>13, <1>14, <1>15,
     <1>16, <1>17
  DEF ClientNext, PageStep, RefreshStep

\* A granted session stays the secret of the answer that carries it.
LEMMA GrantedStep ==
    ASSUME ClientTypeOK, KnownInv, RotatingInv, GrantedInv, [ClientNext]_all
    PROVE  GrantedInv'
<1> USE DEF RotatingInv, KnownInv, Granted, Secret, Live, vars, rest, world, page, all, Sent,
   NoCall, SetTokens, TearDown
<1>1. /\ refresh.phase # "none" => refresh.tok \in Tokens
      /\ access \in Tokens \cup {None} /\ stored \in Tokens \cup {None}
      /\ \A c \in Calls : call[c].sid \in Tokens \cup {None} /\ call[c].got \in Tokens \cup {None}
      /\ TypeOK /\ call \in [Calls -> CallType]
      /\ NoRefresh.phase = "none" /\ NoRefresh.tok = None /\ None \notin Tokens
  BY TokensAssumption DEF ClientTypeOK, CallType, NoRefresh
<1>0. SUFFICES ASSUME ~disturbed', NEW e \in Calls, Granted(e)' PROVE Secret(e)'
  BY Zenon DEF GrantedInv
<1>2. ASSUME NEW c \in Calls, NEW k \in Kinds, Send(c, k) PROVE Secret(e)'
  BY <1>0, <1>2, <1>1 DEF Send, GrantedInv
<1>3. ASSUME NEW c \in Calls, DeliverOk(c) PROVE Secret(e)'
  <2>1. Finish(c, TRUE)
    BY <1>3 DEF DeliverOk
  <2>2. /\ \A d \in Calls : d # c => call'[d] = call[d]
        /\ call'[c].phase \in {"idle", "sent"} /\ call'[c].kind \in {"get", "me"}
        /\ call'[c].got = None
        /\ \/ /\ call[c].kind = "login" /\ TRUE
              /\ call'[c].sid = call[c].got /\ access' = call[c].got /\ stored' = call[c].got
           \/ /\ call[c].kind = "logout"
              /\ call'[c].sid = None /\ access' = None /\ stored' = None
           \/ /\ call[c].kind # "logout"
              /\ call'[c].sid = None /\ access' = access /\ stored' = stored
    BY <2>1, FinishFacts
  <2>3. /\ call[c].phase # "idle" /\ row' = row /\ req' = req
        /\ refresh' = refresh /\ disturbed' = disturbed
    BY <1>3 DEF DeliverOk
  <2>8. /\ \A d \in Calls : Granted(d)' => Granted(d) /\ call'[d] = call[d]
        /\ ~disturbed
    BY <1>3, <1>0, <2>1, <2>2, <2>3
  <2>9. Granted(e) /\ call'[e] = call[e] /\ Secret(e)
    BY <1>0, <2>8 DEF GrantedInv
  <2>7. call[c].kind = "login" => call[c].got # call[e].got
    BY <1>0, <1>3, <2>2, <2>9 DEF DeliverOk
  <2> DEFINE t == call[e].got
  <2>10. t \in Tokens /\ Live(t)' /\ row'[t].next = None
    BY <1>0, <2>7, <2>8, <2>9, <1>1, <2>2, <2>3, <1>3 DEF DeliverOk
  <2>11. t \notin {access', stored', refresh'.tok}
    BY <1>0, <2>7, <2>8, <2>9, <1>1, <2>2, <2>3, <1>3 DEF DeliverOk
  <2>12. \A d \in Calls : call'[d].sid # t
    BY <1>0, <2>7, <2>8, <2>9, <1>1, <2>2, <2>3, <1>3 DEF DeliverOk
  <2>13. \A d \in Calls : Granted(d)' /\ call'[d].got = t => d = e
    BY <2>8, <2>9
  <2> QED BY <2>9, <2>10, <2>11, <2>12, <2>13
<1>4. ASSUME NEW c \in Calls, DeliverUnauthorized(c) PROVE Secret(e)'
  <2>1. /\ \A d \in Calls : d # c => call'[d] = call[d]
        /\ call'[c].kind = call[c].kind /\ call'[c].sid = call[c].sid /\ call'[c].got = call[c].got
        /\ call'[c].phase = "waiting"
        /\ \/ refresh # NoRefresh /\ refresh' = refresh
           \/ /\ refresh = NoRefresh /\ stored # None
              /\ refresh'.phase = "sent" /\ refresh'.tok = stored
    BY <1>4, WaitFacts
  <2>2. /\ access' = access /\ stored' = stored
        /\ row' = row /\ req' = req /\ disturbed' = disturbed
    BY <1>4 DEF DeliverUnauthorized
  <2>8. /\ \A d \in Calls : Granted(d)' => Granted(d) /\ call'[d] = call[d]
        /\ ~disturbed
    BY <1>4, <1>0, <2>1, <2>2
  <2>9. Granted(e) /\ call'[e] = call[e] /\ Secret(e)
    BY <1>0, <2>8 DEF GrantedInv
  <2> DEFINE t == call[e].got
  <2>10. t \in Tokens /\ Live(t)' /\ row'[t].next = None
    BY <1>0, <2>8, <2>9, <1>1, <2>1, <2>2
  <2>11. t \notin {access', stored', refresh'.tok}
    BY <1>0, <2>8, <2>9, <1>1, <2>1, <2>2
  <2>12. \A d \in Calls : call'[d].sid # t
    BY <1>0, <2>8, <2>9, <1>1, <2>1, <2>2
  <2>13. \A d \in Calls : Granted(d)' /\ call'[d].got = t => d = e
    BY <2>8, <2>9
  <2> QED BY <2>9, <2>10, <2>11, <2>12, <2>13
<1>5. ASSUME NEW c \in Calls, GiveUp(c) PROVE Secret(e)'
  BY <1>0, <1>5, <1>1 DEF GiveUp, GrantedInv
<1>6. ASSUME NEW c \in Calls, Serve(c) PROVE Secret(e)'
  <2>1. /\ req' = req
        /\ \A d \in Calls : d # c => call'[d] = call[d]
        /\ call[c].kind # "login" /\ call'[c].phase # "idle"
        /\ call'[c].kind = call[c].kind /\ call'[c].sid = call[c].sid /\ call'[c].got = None
        /\ \A x \in Tokens : /\ row[x].state # "unused" => row'[x].state # "unused"
                             /\ row'[x].next = row[x].next
                             /\ x # call[c].sid => row'[x] = row[x]
        /\ call[c].kind = "logout" \/ row' = row
    BY <1>6, ServeFacts
  <2>2. /\ access' = access /\ stored' = stored /\ refresh' = refresh /\ disturbed' = disturbed
    BY <1>6 DEF Serve
  <2>8. /\ \A d \in Calls : Granted(d)' => Granted(d) /\ call'[d] = call[d]
        /\ ~disturbed
    BY <1>6, <1>0, <2>1, <2>2
  <2>9. Granted(e) /\ call'[e] = call[e] /\ Secret(e)
    BY <1>0, <2>8 DEF GrantedInv
  <2> DEFINE t == call[e].got
  <2>10. t \in Tokens /\ Live(t)' /\ row'[t].next = None
    BY <1>0, <2>8, <2>9, <1>1, <2>1, <2>2
  <2>11. t \notin {access', stored', refresh'.tok}
    BY <1>0, <2>8, <2>9, <1>1, <2>1, <2>2
  <2>12. \A d \in Calls : call'[d].sid # t
    BY <1>0, <2>8, <2>9, <1>1, <2>1, <2>2
  <2>13. \A d \in Calls : Granted(d)' /\ call'[d].got = t => d = e
    BY <2>8, <2>9
  <2> QED BY <2>9, <2>10, <2>11, <2>12, <2>13
<1>7. ASSUME NEW c \in Calls, ServeLogin(c) PROVE Secret(e)'
  <2>1. /\ req' = req
        /\ \A d \in Calls : d # c => call'[d] = call[d]
        /\ call[c].kind = "login" /\ call'[c].phase # "idle"
        /\ call'[c].kind = call[c].kind /\ call'[c].sid = call[c].sid
        /\ \A x \in Tokens : row[x].state # "unused" => row'[x] = row[x]
        /\ \/ row' = row /\ ~call'[c].ok /\ call'[c].got = None
           \/ /\ call'[c].got \in Tokens /\ row[call'[c].got].state = "unused"
              /\ row'[call'[c].got].state = "live" /\ row'[call'[c].got].next = None
    BY <1>7, ServeLoginFacts
  <2>2. /\ access' = access /\ stored' = stored /\ refresh' = refresh /\ disturbed' = disturbed
    BY <1>7 DEF ServeLogin
  <2>3. CASE e = c
    BY <1>0, <1>1, <2>1, <2>2, <2>3 DEF GrantedInv
  <2>4. CASE e # c
    <3>1. Granted(e) /\ call'[e] = call[e] /\ Secret(e)
      BY <1>0, <2>1, <2>2, <2>4 DEF GrantedInv
    <3> QED BY <1>0, <1>1, <2>1, <2>2, <2>4, <3>1
  <2> QED BY <2>3, <2>4
<1>8. ASSUME NEW c \in Calls, LoseCall(c) PROVE Secret(e)'
  <2>1. Finish(c, FALSE)
    BY <1>8 DEF LoseCall
  <2>2. /\ \A d \in Calls : d # c => call'[d] = call[d]
        /\ call'[c].phase \in {"idle", "sent"} /\ call'[c].kind \in {"get", "me"}
        /\ call'[c].got = None
        /\ \/ /\ call[c].kind = "login" /\ FALSE
              /\ call'[c].sid = call[c].got /\ access' = call[c].got /\ stored' = call[c].got
           \/ /\ call[c].kind = "logout"
              /\ call'[c].sid = None /\ access' = None /\ stored' = None
           \/ /\ call[c].kind # "logout"
              /\ call'[c].sid = None /\ access' = access /\ stored' = stored
    BY <2>1, FinishFacts
  <2>3. /\ call[c].phase # "idle" /\ row' = row /\ req' = req
        /\ refresh' = refresh /\ disturbed' = disturbed
    BY <1>8 DEF LoseCall
  <2>8. /\ \A d \in Calls : Granted(d)' => Granted(d) /\ call'[d] = call[d]
        /\ ~disturbed
    BY <1>8, <1>0, <2>1, <2>2, <2>3
  <2>9. Granted(e) /\ call'[e] = call[e] /\ Secret(e)
    BY <1>0, <2>8 DEF GrantedInv
  <2> DEFINE t == call[e].got
  <2>10. t \in Tokens /\ Live(t)' /\ row'[t].next = None
    BY <1>0, <2>8, <2>9, <1>1, <2>2, <2>3, <1>8 DEF LoseCall
  <2>11. t \notin {access', stored', refresh'.tok}
    BY <1>0, <2>8, <2>9, <1>1, <2>2, <2>3, <1>8 DEF LoseCall
  <2>12. \A d \in Calls : call'[d].sid # t
    BY <1>0, <2>8, <2>9, <1>1, <2>2, <2>3, <1>8 DEF LoseCall
  <2>13. \A d \in Calls : Granted(d)' /\ call'[d].got = t => d = e
    BY <2>8, <2>9
  <2> QED BY <2>9, <2>10, <2>11, <2>12, <2>13
<1>9. ASSUME NEW c \in Calls, Reload(c) PROVE Secret(e)'
  BY <1>0, <1>9, <1>1 DEF Reload, GrantedInv
<1>10. CASE RefreshArrives
  <2>1. /\ row' = row /\ refresh.phase = "sent" /\ refresh'.tok = refresh.tok
        /\ disturbed => disturbed'
        /\ \/ refresh'.phase = "lost" /\ req' = req
           \/ \E r \in Requests :
                /\ refresh'.phase = "begun" /\ refresh'.req = r
                /\ req'[r].phase = "rotate" /\ req'[r].tok = refresh.tok
                /\ \A s \in Requests : s # r => req'[s] = req[s]
    BY <1>10, ArriveFacts
  <2>2. access' = access /\ stored' = stored /\ call' = call
    BY <1>10 DEF RefreshArrives
  <2>8. /\ \A d \in Calls : Granted(d)' => Granted(d) /\ call'[d] = call[d]
        /\ ~disturbed
    BY <1>10, <1>0, <2>1, <2>2
  <2>9. Granted(e) /\ call'[e] = call[e] /\ Secret(e)
    BY <1>0, <2>8 DEF GrantedInv
  <2> DEFINE t == call[e].got
  <2>10. t \in Tokens /\ Live(t)' /\ row'[t].next = None
    BY <1>0, <2>8, <2>9, <1>1, <2>1, <2>2
  <2>11. t \notin {access', stored', refresh'.tok}
    BY <1>0, <2>8, <2>9, <1>1, <2>1, <2>2
  <2>12. \A d \in Calls : call'[d].sid # t
    BY <1>0, <2>8, <2>9, <1>1, <2>1, <2>2
  <2>13. \A d \in Calls : Granted(d)' /\ call'[d].got = t => d = e
    BY <2>8, <2>9
  <2> QED BY <2>9, <2>10, <2>11, <2>12, <2>13
<1>11. CASE RefreshWon
  <2>1. \A d \in Calls :
          \/ call'[d] = call[d]
          \/ /\ call[d].phase = "waiting" /\ call'[d].phase = "resent"
             /\ call'[d].kind = call[d].kind /\ call'[d].sid = refresh.tok /\ call'[d].got = None
    BY <1>11, WonFacts
  <2>2. /\ refresh.phase = "won" /\ refresh' = NoRefresh
        /\ access' = refresh.tok /\ stored' = refresh.tok
        /\ row' = row /\ req' = req /\ disturbed' = disturbed
    BY <1>11 DEF RefreshWon
  <2>8. /\ \A d \in Calls : Granted(d)' => Granted(d) /\ call'[d] = call[d]
        /\ ~disturbed
    BY <1>11, <1>0, <2>1, <2>2
  <2>9. Granted(e) /\ call'[e] = call[e] /\ Secret(e)
    BY <1>0, <2>8 DEF GrantedInv
  <2> DEFINE t == call[e].got
  <2>10. t \in Tokens /\ Live(t)' /\ row'[t].next = None
    BY <1>0, <2>8, <2>9, <1>1, <2>1, <2>2
  <2>11. t \notin {access', stored', refresh'.tok}
    BY <1>0, <2>8, <2>9, <1>1, <2>1, <2>2
  <2>12. \A d \in Calls : call'[d].sid # t
    BY <1>0, <2>8, <2>9, <1>1, <2>1, <2>2
  <2>13. \A d \in Calls : Granted(d)' /\ call'[d].got = t => d = e
    BY <2>8, <2>9
  <2> QED BY <2>9, <2>10, <2>11, <2>12, <2>13
<1>12. CASE RefreshLost
  <2>1. \A d \in Calls :
          \/ call'[d] = call[d]
          \/ /\ call'[d].phase = "idle" /\ call'[d].kind = "get"
             /\ call'[d].sid = None /\ call'[d].got = None
    BY <1>12, LostFacts
  <2>2. /\ refresh.phase = "lost" /\ refresh' = NoRefresh /\ access' = None /\ stored' = None
        /\ row' = row /\ req' = req /\ disturbed' = disturbed
    BY <1>12 DEF RefreshLost
  <2>8. /\ \A d \in Calls : Granted(d)' => Granted(d) /\ call'[d] = call[d]
        /\ ~disturbed
    BY <1>12, <1>0, <2>1, <2>2
  <2>9. Granted(e) /\ call'[e] = call[e] /\ Secret(e)
    BY <1>0, <2>8 DEF GrantedInv
  <2> DEFINE t == call[e].got
  <2>10. t \in Tokens /\ Live(t)' /\ row'[t].next = None
    BY <1>0, <2>8, <2>9, <1>1, <2>1, <2>2
  <2>11. t \notin {access', stored', refresh'.tok}
    BY <1>0, <2>8, <2>9, <1>1, <2>1, <2>2
  <2>12. \A d \in Calls : call'[d].sid # t
    BY <1>0, <2>8, <2>9, <1>1, <2>1, <2>2
  <2>13. \A d \in Calls : Granted(d)' /\ call'[d].got = t => d = e
    BY <2>8, <2>9
  <2> QED BY <2>9, <2>10, <2>11, <2>12, <2>13
<1>13. CASE LoseRefresh
  <2> QED BY <1>0, <1>13 DEF LoseRefresh
<1>14. ASSUME NEW r \in Requests, RefreshCommits(r) PROVE Secret(e)'
  <2>1. /\ Fresh \in Tokens /\ row[Fresh].state = "unused"
        /\ row'[Fresh].state = "live" /\ row'[Fresh].next = None
        /\ row'[req[r].tok].state = "revoked"
        /\ \A x \in Tokens \ {req[r].tok, Fresh} : row'[x] = row[x]
        /\ req[r].phase = "rotate" /\ req'[r].phase = "idle"
        /\ \A s \in Requests : s # r => req'[s] = req[s]
    <3>1. /\ RotateCommit(r) /\ req[r].phase = "rotate"
          /\ req[r].tok \in Tokens /\ row[req[r].tok].state # "unused"
      BY <1>14 DEF RefreshCommits, RotateCommit
    <3> QED BY <1>1, <3>1, CommitFacts
  <2>2. /\ access' = access /\ stored' = stored /\ call' = call /\ disturbed' = disturbed
        /\ IF refresh.phase = "begun" /\ refresh.req = r
           THEN refresh' = [phase |-> "won", tok |-> Fresh, req |-> None] ELSE refresh' = refresh
    BY <1>14 DEF RefreshCommits
  <2>3. req[r].tok \in Tokens /\ row[req[r].tok].state # "unused"
    BY <2>1
  <2>8. /\ \A d \in Calls : Granted(d)' => Granted(d) /\ call'[d] = call[d]
        /\ ~disturbed
    BY <1>14, <1>0, <2>1, <2>2, <2>3
  <2>9. Granted(e) /\ call'[e] = call[e] /\ Secret(e)
    BY <1>0, <2>8 DEF GrantedInv
  <2> DEFINE t == call[e].got
  <2>10. t \in Tokens /\ Live(t)' /\ row'[t].next = None
    BY <1>0, <2>8, <2>9, <1>1, <2>1, <2>2, <2>3
  <2>11. t \notin {access', stored', refresh'.tok}
    BY <1>0, <2>8, <2>9, <1>1, <2>1, <2>2, <2>3
  <2>12. \A d \in Calls : call'[d].sid # t
    BY <1>0, <2>8, <2>9, <1>1, <2>1, <2>2, <2>3
  <2>13. \A d \in Calls : Granted(d)' /\ call'[d].got = t => d = e
    BY <2>8, <2>9
  <2> QED BY <2>9, <2>10, <2>11, <2>12, <2>13
<1>15. ASSUME NEW t \in Tokens, AccessExpires(t) PROVE Secret(e)'
  BY <1>0, <1>15, <1>1 DEF AccessExpires, GrantedInv
<1>16. ASSUME NEW t \in Tokens, EndElsewhere(t) PROVE Secret(e)'
  <2> QED BY <1>0, <1>16 DEF EndElsewhere
<1>17. CASE UNCHANGED all
  BY <1>0, <1>17, <1>1 DEF all, GrantedInv
<1> QED
  BY <1>2, <1>3, <1>4, <1>5, <1>6, <1>7, <1>8, <1>9, <1>10, <1>11, <1>12, <1>13, <1>14, <1>15,
     <1>16, <1>17
  DEF ClientNext, PageStep, RefreshStep

\* The page's session stays good until the page ends it.
LEMMA KeptStep ==
    ASSUME ClientTypeOK, KnownInv, RotatingInv, GrantedInv, KeptInv, [ClientNext]_all
    PROVE  KeptInv'
<1> USE DEF RotatingInv, KnownInv, GrantedInv, KeptInv, Granted, Live, LoggingOut, vars, rest,
   world, page, all, Sent, NoCall, SetTokens, TearDown
<1>1. /\ refresh.phase # "none" => refresh.tok \in Tokens
      /\ access \in Tokens \cup {None} /\ stored \in Tokens \cup {None}
      /\ \A c \in Calls : call[c].sid \in Tokens \cup {None} /\ call[c].got \in Tokens \cup {None}
      /\ TypeOK /\ call \in [Calls -> CallType]
      /\ NoRefresh.phase = "none" /\ NoRefresh.tok = None /\ None \notin Tokens
  BY TokensAssumption DEF ClientTypeOK, CallType, NoRefresh
<1>2. ASSUME NEW c \in Calls, NEW k \in Kinds, Send(c, k) PROVE KeptInv'
  BY <1>2, <1>1 DEF Send
<1>3. ASSUME NEW c \in Calls, DeliverOk(c) PROVE KeptInv'
  <2>1. Finish(c, TRUE)
    BY <1>3 DEF DeliverOk
  <2>2. /\ \A d \in Calls : d # c => call'[d] = call[d]
        /\ call'[c].phase \in {"idle", "sent"} /\ call'[c].kind \in {"get", "me"}
        /\ call'[c].got = None
        /\ \/ /\ call[c].kind = "login" /\ TRUE
              /\ call'[c].sid = call[c].got /\ access' = call[c].got /\ stored' = call[c].got
           \/ /\ call[c].kind = "logout"
              /\ call'[c].sid = None /\ access' = None /\ stored' = None
           \/ /\ call[c].kind # "logout"
              /\ call'[c].sid = None /\ access' = access /\ stored' = stored
    BY <2>1, FinishFacts
  <2>3. /\ call[c].phase # "idle" /\ row' = row /\ req' = req
        /\ refresh' = refresh /\ disturbed' = disturbed
    BY <1>3 DEF DeliverOk
  <2>4. ~disturbed /\ call[c].kind = "login" => Secret(c)
    BY <1>3 DEF DeliverOk
  <2>5. ~disturbed /\ call[c].kind = "login" =>
          /\ call[c].got \in Tokens /\ Live(call[c].got) /\ row[call[c].got].next = None
          /\ refresh.tok # call[c].got
    BY <2>4 DEF Secret
  <2> QED BY <1>1, <2>5, <2>2, <2>3, <1>3 DEF DeliverOk
<1>4. ASSUME NEW c \in Calls, DeliverUnauthorized(c) PROVE KeptInv'
  <2>1. /\ \A d \in Calls : d # c => call'[d] = call[d]
        /\ call'[c].kind = call[c].kind /\ call'[c].sid = call[c].sid /\ call'[c].got = call[c].got
        /\ call'[c].phase = "waiting"
        /\ \/ refresh # NoRefresh /\ refresh' = refresh
           \/ /\ refresh = NoRefresh /\ stored # None
              /\ refresh'.phase = "sent" /\ refresh'.tok = stored
    BY <1>4, WaitFacts
  <2>2. /\ access' = access /\ stored' = stored
        /\ row' = row /\ req' = req /\ disturbed' = disturbed
    BY <1>4 DEF DeliverUnauthorized
  <2> QED BY <1>1, <2>1, <2>2
<1>5. ASSUME NEW c \in Calls, GiveUp(c) PROVE KeptInv'
  BY <1>5, <1>1 DEF GiveUp
<1>6. ASSUME NEW c \in Calls, Serve(c) PROVE KeptInv'
  <2>1. /\ req' = req
        /\ \A d \in Calls : d # c => call'[d] = call[d]
        /\ call[c].kind # "login" /\ call'[c].phase # "idle"
        /\ call'[c].kind = call[c].kind /\ call'[c].sid = call[c].sid /\ call'[c].got = None
        /\ \A x \in Tokens : /\ row[x].state # "unused" => row'[x].state # "unused"
                             /\ row'[x].next = row[x].next
                             /\ x # call[c].sid => row'[x] = row[x]
        /\ call[c].kind = "logout" \/ row' = row
    BY <1>6, ServeFacts
  <2>2. /\ access' = access /\ stored' = stored /\ refresh' = refresh /\ disturbed' = disturbed
    BY <1>6 DEF Serve
  <2> QED BY <1>1, <2>1, <2>2
<1>7. ASSUME NEW c \in Calls, ServeLogin(c) PROVE KeptInv'
  <2>1. /\ req' = req
        /\ \A d \in Calls : d # c => call'[d] = call[d]
        /\ call[c].kind = "login" /\ call'[c].phase # "idle"
        /\ call'[c].kind = call[c].kind /\ call'[c].sid = call[c].sid
        /\ \A x \in Tokens : row[x].state # "unused" => row'[x] = row[x]
        /\ \/ row' = row /\ ~call'[c].ok /\ call'[c].got = None
           \/ /\ call'[c].got \in Tokens /\ row[call'[c].got].state = "unused"
              /\ row'[call'[c].got].state = "live" /\ row'[call'[c].got].next = None
    BY <1>7, ServeLoginFacts
  <2>2. /\ access' = access /\ stored' = stored /\ refresh' = refresh /\ disturbed' = disturbed
    BY <1>7 DEF ServeLogin
  <2> QED BY <1>1, <2>1, <2>2
<1>8. ASSUME NEW c \in Calls, LoseCall(c) PROVE KeptInv'
  <2>1. Finish(c, FALSE)
    BY <1>8 DEF LoseCall
  <2>2. /\ \A d \in Calls : d # c => call'[d] = call[d]
        /\ call'[c].phase \in {"idle", "sent"} /\ call'[c].kind \in {"get", "me"}
        /\ call'[c].got = None
        /\ \/ /\ call[c].kind = "login" /\ FALSE
              /\ call'[c].sid = call[c].got /\ access' = call[c].got /\ stored' = call[c].got
           \/ /\ call[c].kind = "logout"
              /\ call'[c].sid = None /\ access' = None /\ stored' = None
           \/ /\ call[c].kind # "logout"
              /\ call'[c].sid = None /\ access' = access /\ stored' = stored
    BY <2>1, FinishFacts
  <2>3. /\ call[c].phase # "idle" /\ row' = row /\ req' = req
        /\ refresh' = refresh /\ disturbed' = disturbed
    BY <1>8 DEF LoseCall
  <2> QED BY <1>1, <2>2, <2>3, <1>8 DEF LoseCall
<1>9. ASSUME NEW c \in Calls, Reload(c) PROVE KeptInv'
  BY <1>9, <1>1 DEF Reload
<1>10. CASE RefreshArrives
  <2>1. /\ row' = row /\ refresh.phase = "sent" /\ refresh'.tok = refresh.tok
        /\ disturbed => disturbed'
        /\ \/ refresh'.phase = "lost" /\ req' = req
           \/ \E r \in Requests :
                /\ refresh'.phase = "begun" /\ refresh'.req = r
                /\ req'[r].phase = "rotate" /\ req'[r].tok = refresh.tok
                /\ \A s \in Requests : s # r => req'[s] = req[s]
    BY <1>10, ArriveFacts
  <2>2. access' = access /\ stored' = stored /\ call' = call
    BY <1>10 DEF RefreshArrives
  <2> QED BY <1>1, <2>1, <2>2
<1>11. CASE RefreshWon
  <2>1. \A d \in Calls :
          \/ call'[d] = call[d]
          \/ /\ call[d].phase = "waiting" /\ call'[d].phase = "resent"
             /\ call'[d].kind = call[d].kind /\ call'[d].sid = refresh.tok /\ call'[d].got = None
    BY <1>11, WonFacts
  <2>2. /\ refresh.phase = "won" /\ refresh' = NoRefresh
        /\ access' = refresh.tok /\ stored' = refresh.tok
        /\ row' = row /\ req' = req /\ disturbed' = disturbed
    BY <1>11 DEF RefreshWon
  <2> QED BY <1>1, <2>1, <2>2
<1>12. CASE RefreshLost
  <2>1. \A d \in Calls :
          \/ call'[d] = call[d]
          \/ /\ call'[d].phase = "idle" /\ call'[d].kind = "get"
             /\ call'[d].sid = None /\ call'[d].got = None
    BY <1>12, LostFacts
  <2>2. /\ refresh.phase = "lost" /\ refresh' = NoRefresh /\ access' = None /\ stored' = None
        /\ row' = row /\ req' = req /\ disturbed' = disturbed
    BY <1>12 DEF RefreshLost
  <2> QED BY <1>1, <2>1, <2>2
<1>13. CASE LoseRefresh
  <2>1. refresh'.phase = "lost" /\ refresh'.tok = refresh.tok
    BY <1>13 DEF LoseRefresh, ClientTypeOK
  <2> QED BY <1>1, <1>13, <2>1 DEF LoseRefresh
<1>14. ASSUME NEW r \in Requests, RefreshCommits(r) PROVE KeptInv'
  <2>1. /\ Fresh \in Tokens /\ row[Fresh].state = "unused"
        /\ row'[Fresh].state = "live" /\ row'[Fresh].next = None
        /\ row'[req[r].tok].state = "revoked"
        /\ \A x \in Tokens \ {req[r].tok, Fresh} : row'[x] = row[x]
        /\ req[r].phase = "rotate" /\ req'[r].phase = "idle"
        /\ \A s \in Requests : s # r => req'[s] = req[s]
    <3>1. /\ RotateCommit(r) /\ req[r].phase = "rotate"
          /\ req[r].tok \in Tokens /\ row[req[r].tok].state # "unused"
      BY <1>14 DEF RefreshCommits, RotateCommit
    <3> QED BY <1>1, <3>1, CommitFacts
  <2>2. /\ access' = access /\ stored' = stored /\ call' = call /\ disturbed' = disturbed
        /\ IF refresh.phase = "begun" /\ refresh.req = r
           THEN refresh' = [phase |-> "won", tok |-> Fresh, req |-> None] ELSE refresh' = refresh
    BY <1>14 DEF RefreshCommits
  <2>3. req[r].tok \in Tokens /\ row[req[r].tok].state # "unused"
    BY <2>1
  <2> QED BY <1>1, <2>1, <2>2, <2>3
<1>15. ASSUME NEW t \in Tokens, AccessExpires(t) PROVE KeptInv'
  BY <1>15, <1>1 DEF AccessExpires
<1>16. ASSUME NEW t \in Tokens, EndElsewhere(t) PROVE KeptInv'
  <2>1. \A x \in Tokens : row[x].state # "unused" => row'[x].state # "unused"
    BY <1>1, <1>16, ExpireFacts DEF EndElsewhere
  <2> QED BY <1>1, <1>16, <2>1 DEF EndElsewhere, Expire
<1>17. CASE UNCHANGED all
  BY <1>17, <1>1 DEF all
<1> QED
  BY <1>2, <1>3, <1>4, <1>5, <1>6, <1>7, <1>8, <1>9, <1>10, <1>11, <1>12, <1>13, <1>14, <1>15,
     <1>16, <1>17
  DEF ClientNext, PageStep, RefreshStep

-----------------------------------------------------------------------------
(* The theorems *)

\* At first nobody is logged in and no session was opened.
LEMMA ClientInitInv == ClientInit => ClientInv
<1> SUFFICES ASSUME ClientInit PROVE ClientInv
  OBVIOUS
<1>1. NoRow \in Row
  BY DEF NoRow, Row, Versions
<1>2. TypeOK
  BY <1>1, IdleTyped, Versions0 DEF ClientInit, NoSessions, TypeOK, Versions
<1>3. /\ call \in [Calls -> CallType] /\ \A c \in Calls : call[c] = NoCall
      /\ \A r \in Requests : req[r] = Idle
      /\ access = None /\ stored = None /\ refresh = NoRefresh
  BY CallTyped DEF ClientInit, NoSessions
<1>4. ClientTypeOK
  <2>1. NoRefresh \in RefreshType /\ NoRefresh.phase = "none"
    BY DEF NoRefresh, RefreshType
  <2>2. faults = 0 /\ overdue = {} /\ user = None
    BY DEF ClientInit
  <2>3. disturbed \in BOOLEAN
    BY Zenon DEF ClientInit
  <2>4. 0 \in 0 .. MaxFaults
    BY FaultsAssumption
  <2> QED BY <1>2, <1>3, <2>1, <2>2, <2>3, <2>4 DEF ClientTypeOK, CallType, RefreshType
<1>5. /\ NoRefresh.phase = "none" /\ Idle.phase = "idle"
      /\ NoCall.phase = "idle" /\ NoCall.kind = "get" /\ NoCall.sid = None /\ NoCall.got = None
  BY DEF NoRefresh, Idle, NoCall
<1>6. KnownInv /\ RotatingInv /\ GrantedInv /\ KeptInv
  BY <1>3, <1>5 DEF KnownInv, RotatingInv, GrantedInv, Granted, KeptInv
<1> QED BY <1>4, <1>6 DEF ClientInv

LEMMA ClientInvStep == ClientInv /\ [ClientNext]_all => ClientInv'
BY ClientTypeStep, KnownStep, RotatingStep, GrantedStep, KeptStep DEF ClientInv

LEMMA ClientInvariance == ClientSpec => []ClientInv
BY ClientInitInv, ClientInvStep, PTL DEF ClientSpec

\* The page and the sessions behind it keep their types, for any number of calls (tokens.ts,
\* client.ts, AuthContext.tsx).
THEOREM ClientTyped == ClientSpec => []ClientTypeOK
<1>1. ClientInv => ClientTypeOK
  BY DEF ClientInv
<1> QED BY <1>1, ClientInvariance, PTL

\* A page never spends its own session: whenever no refresh and no logout is under way, the
\* refresh token in localStorage is still good (client.ts refreshAccessToken).
THEOREM KeptLive == ClientSpec => []KeptTokenIsLive
<1>1. ClientInv => KeptTokenIsLive
  BY DEF ClientInv, KeptInv, KeptTokenIsLive
<1> QED BY <1>1, ClientInvariance, PTL

\* A refresh that fails was never beaten by another refresh of the same page (client.ts:4-11).
THEOREM LosesToNobody == ClientSpec => []NeverLosesToItself
<1>1. ClientInv => NeverLosesToItself
  BY DEF ClientInv, RotatingInv, NeverLosesToItself
<1> QED BY <1>1, ClientInvariance, PTL
=============================================================================
