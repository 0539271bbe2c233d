----------------------------- MODULE AuthClient -----------------------------
(***************************************************************************)
(* One page of the frontend (api/client.ts, api/tokens.ts,                 *)
(* auth/AuthContext.tsx) against the sessions of AuthTokens: calls that    *)
(* share one silent refresh and are retried once, login, logout, reload.   *)
(*                                                                         *)
(* A browser action runs to its next await; a request and its answer       *)
(* travel for any time.  An access token is named by the session (sid) it  *)
(* was minted with.                                                        *)
(***************************************************************************)
EXTENDS AuthTokens

CONSTANTS
    Calls,           \* calls the page can have under way
    Account,         \* the account its user logs in to
    MaxFaults        \* bound on lost answers, reloads and sessions ended elsewhere

ASSUME AccountAssumption == Account \in Users
ASSUME FaultsAssumption == MaxFaults \in Nat

VARIABLES
    access,      \* tokens.ts: the access token, in memory
    stored,      \* the refresh token, in localStorage
    overdue,     \* access tokens past their exp
    call,        \* call -> where its apiFetch stands
    refresh,     \* refreshInFlight
    user,        \* AuthContext's user
    faults,
    disturbed    \* an answer was lost, or the session ended elsewhere (history)

page == <<access, stored, call, refresh, user>>
world == <<overdue, faults, disturbed>>
rest == <<version, recent, links, reached>>
all == <<vars, page, world>>

\* "probe" and "me" are loadMe, from the mount and from a login.
Kinds == {"get", "probe", "me", "login", "logout"}
LoadMe == {"probe", "me"}
CallPhases == {"idle", "sent", "answer", "waiting", "resent", "reanswer"}
NoCall == [phase |-> "idle", kind |-> "get", sid |-> None, ok |-> FALSE, got |-> None]
NoRefresh == [phase |-> "none", tok |-> None, req |-> None]

\* The account exists; nobody is logged in on this page.
ClientInit ==
    /\ version = [u \in Users |-> 1] /\ NoSessions
    /\ access = None /\ stored = None /\ overdue = {} /\ user = None
    /\ call = [c \in Calls |-> NoCall]
    /\ refresh = NoRefresh
    /\ faults = 0 /\ disturbed = FALSE

-----------------------------------------------------------------------------
(* The page *)

LoggingOut == \E c \in Calls : call[c].kind = "logout"

SetTokens(t) == access' = t /\ stored' = t

\* fetch reads the token in memory when it sends.
Sent(kind, phase, t) ==
    [phase |-> phase, kind |-> kind, sid |-> t, ok |-> FALSE, got |-> None]

\* A component asks for data (only a logged-in page does), or the user logs in or out; the form
\* is busy until its login and the loadMe after it have ended.
Send(c, kind) ==
    /\ call[c].phase = "idle"
    /\ \/ kind \in {"get", "logout"} /\ user # None
       \/ kind = "login" /\ user = None /\ \A x \in Calls : call[x].kind \notin {"login", "me"}
    /\ call' = [call EXCEPT ![c] = Sent(kind, "sent", access)]
    /\ UNCHANGED <<vars, access, stored, refresh, user, world>>

\* logout() of client.ts: drop the tokens and, through the handler, the user.
TearDown == SetTokens(None) /\ user' = None

\* What the caller does with the outcome: login stores the pair and loads /me, loadMe sets the
\* user, logout drops the tokens and the user whatever the server said.
Finish(c, ok) ==
    LET kind == call[c].kind IN
    \/ /\ kind = "login" /\ ok
       /\ SetTokens(call[c].got) /\ UNCHANGED user
       /\ call' = [call EXCEPT ![c] = Sent("me", "sent", call[c].got)]
    \/ /\ kind = "logout" /\ TearDown
       /\ call' = [call EXCEPT ![c] = NoCall]
    \/ /\ kind # "logout" /\ ~(kind = "login" /\ ok)
       /\ user' = IF kind \in LoadMe THEN IF ok THEN Account ELSE None ELSE user
       /\ call' = [call EXCEPT ![c] = NoCall]
       /\ UNCHANGED <<access, stored>>

DeliverOk(c) ==
    /\ call[c].phase \in {"answer", "reanswer"} /\ call[c].ok
    /\ Finish(c, TRUE)
    /\ UNCHANGED <<vars, refresh, world>>

\* Mutant: every 401 starts a refresh of its own.
DeliverUnauthorizedAlone(c) ==
    /\ call[c].phase = "answer" /\ ~call[c].ok
    /\ stored # None
    /\ call' = [call EXCEPT ![c].phase = "waiting"]
    /\ refresh' = [phase |-> "sent", tok |-> stored, req |-> None]
    /\ UNCHANGED <<vars, access, stored, user, world>>

\* A first 401 awaits the refresh in flight, or starts one.
DeliverUnauthorized(c) ==
    /\ call[c].phase = "answer" /\ ~call[c].ok
    /\ refresh # NoRefresh \/ stored # None
    /\ call' = [call EXCEPT ![c].phase = "waiting"]
    /\ refresh' = IF refresh # NoRefresh THEN refresh
                  ELSE [phase |-> "sent", tok |-> stored, req |-> None]
    /\ UNCHANGED <<vars, access, stored, user, world>>

\* Without a refresh token there is nothing to refresh with; a second 401 is final.
GiveUp(c) ==
    /\ ~call[c].ok
    /\ \/ call[c].phase = "answer" /\ refresh = NoRefresh /\ stored = None
       \/ call[c].phase = "reanswer"
    /\ TearDown
    /\ call' = [call EXCEPT ![c] = NoCall]
    /\ UNCHANGED <<vars, refresh, world>>

\* Mutant: keeps the new access token and the old refresh token.
RefreshWonInMemory ==
    /\ refresh.phase = "won"
    /\ access' = refresh.tok
    /\ call' = [c \in Calls |-> IF call[c].phase = "waiting"
                                THEN Sent(call[c].kind, "resent", refresh.tok) ELSE call[c]]
    /\ refresh' = NoRefresh
    /\ UNCHANGED <<vars, stored, user, world>>

\* The refresh resolves: every call that waited for it sends again, with the new token...
RefreshWon ==
    /\ refresh.phase = "won"
    /\ SetTokens(refresh.tok)
    /\ call' = [c \in Calls |-> IF call[c].phase = "waiting"
                                THEN Sent(call[c].kind, "resent", refresh.tok) ELSE call[c]]
    /\ refresh' = NoRefresh
    /\ UNCHANGED <<vars, user, world>>

\* Mutant: does not wake the calls that waited for it.
RefreshLostSilently ==
    /\ refresh.phase = "lost"
    /\ TearDown
    /\ refresh' = NoRefresh
    /\ UNCHANGED <<vars, call, world>>

\* ... or gives up, and the page is logged out.
RefreshLost ==
    /\ refresh.phase = "lost"
    /\ TearDown
    /\ call' = [c \in Calls |-> IF call[c].phase = "waiting" THEN NoCall ELSE call[c]]
    /\ refresh' = NoRefresh
    /\ UNCHANGED <<vars, world>>

\* A reload forgets the memory and the calls; with a refresh token left, the mount probe asks /me.
Reload(c) ==
    /\ faults < MaxFaults
    /\ faults' = faults + 1
    /\ access' = None /\ user' = None /\ refresh' = NoRefresh
    /\ call' = [x \in Calls |-> IF x = c /\ stored # None THEN Sent("probe", "sent", None)
                                ELSE NoCall]
    /\ disturbed' = (disturbed \/ refresh # NoRefresh \/ LoggingOut)
    /\ UNCHANGED <<vars, stored, overdue>>

-----------------------------------------------------------------------------
(* The server *)

\* decode_token accepts an access token until its exp; resolve_jwt also wants its session live,
\* while logout only decodes (access_claims).
Decodes(t) == t # None /\ t \notin overdue
Accepts(kind, t) == Decodes(t) /\ (kind = "logout" \/ Live(t))

Answered(c, ok, got) ==
    call' = [call EXCEPT ![c].phase = IF @ = "sent" THEN "answer" ELSE "reanswer",
                         ![c].ok = ok, ![c].got = got]

\* The server handles a call other than a login; a logout revokes the session it names, after
\* a rotation that holds the row.
Serve(c) ==
    LET k == call[c].kind
        t == call[c].sid IN
    /\ call[c].phase \in {"sent", "resent"} /\ k # "login"
    /\ Answered(c, Accepts(k, t), None)
    /\ IF k = "logout" /\ Accepts(k, t) THEN ~Locked(t) /\ row' = Revoked({t})
       ELSE UNCHANGED row
    /\ UNCHANGED <<rest, req, access, stored, refresh, user, world>>

\* POST /token: the password is right or wrong; a wrong one is as wrong when the client retries.
ServeLogin(c) ==
    /\ call[c].phase \in {"sent", "resent"} /\ call[c].kind = "login"
    /\ \/ Answered(c, FALSE, None) /\ UNCHANGED row
       \/ /\ call[c].phase = "sent" /\ Room
          /\ row' = Opened(Fresh, Account, version[Account])
          /\ Answered(c, TRUE, Fresh)
    /\ UNCHANGED <<rest, req, access, stored, refresh, user, world>>

\* The refresh reaches the server: it takes its row, or finds it dead, or the server fails (the
\* bound on Tokens).
RefreshArrives ==
    /\ refresh.phase = "sent"
    /\ \/ \E r \in Requests :
            /\ RotateSelect(r, refresh.tok)
            /\ refresh' = [refresh EXCEPT !.phase = "begun", !.req = r]
            /\ UNCHANGED disturbed
       \/ /\ ~Live(refresh.tok) /\ ~Locked(refresh.tok)
          /\ refresh' = [refresh EXCEPT !.phase = "lost"]
          /\ UNCHANGED <<vars, disturbed>>
       \/ /\ ~Room
          /\ refresh' = [refresh EXCEPT !.phase = "lost"]
          /\ disturbed' = TRUE
          /\ UNCHANGED vars
    /\ UNCHANGED <<access, stored, call, user, overdue, faults>>

\* A rotation commits; its answer goes to the page unless the page has forgotten it.
RefreshCommits(r) ==
    /\ RotateCommit(r)
    /\ IF refresh.phase = "begun" /\ refresh.req = r
       THEN refresh' = [phase |-> "won", tok |-> Fresh, req |-> None]
       ELSE UNCHANGED refresh
    /\ UNCHANGED <<access, stored, call, user, world>>

\* An access token passes its exp.
AccessExpires(t) ==
    /\ row[t].state # "unused" /\ t \notin overdue
    /\ overdue' = overdue \cup {t}
    /\ UNCHANGED <<vars, page, faults, disturbed>>

\* The network fails a call (fetch rejects: no refresh, no retry) ...
LoseCall(c) ==
    /\ faults < MaxFaults
    /\ call[c].phase \in {"sent", "answer", "resent", "reanswer"}
    /\ Finish(c, FALSE)
    /\ faults' = faults + 1
    /\ UNCHANGED <<vars, refresh, overdue, disturbed>>

\* ... or the refresh, which may have been served all the same.
LoseRefresh ==
    /\ faults < MaxFaults
    /\ refresh.phase \in {"sent", "begun", "won"}
    /\ refresh' = [refresh EXCEPT !.phase = "lost"]
    /\ faults' = faults + 1 /\ disturbed' = TRUE
    /\ UNCHANGED <<vars, access, stored, call, user, overdue>>

\* The session runs out.
EndElsewhere(t) ==
    /\ faults < MaxFaults
    /\ Expire(t)
    /\ faults' = faults + 1 /\ disturbed' = TRUE
    /\ UNCHANGED <<page, overdue>>

PageStep(c) == DeliverOk(c) \/ DeliverUnauthorized(c) \/ GiveUp(c) \/ Serve(c) \/ ServeLogin(c)
RefreshStep == RefreshArrives \/ RefreshWon \/ RefreshLost

ClientNext ==
    \/ \E c \in Calls, k \in Kinds : Send(c, k)
    \/ \E c \in Calls : PageStep(c) \/ LoseCall(c) \/ Reload(c)
    \/ RefreshStep \/ LoseRefresh
    \/ \E r \in Requests : RefreshCommits(r)
    \/ \E t \in Tokens : AccessExpires(t) \/ EndElsewhere(t)

\* The browser runs its callbacks and the server its requests; nothing makes a user act, a token
\* expire or a fault happen.
Fairness ==
    /\ \A c \in Calls : WF_all(PageStep(c))
    /\ WF_all(RefreshStep)
    /\ \A r \in Requests : WF_all(RefreshCommits(r))

ClientSpec == ClientInit /\ [][ClientNext]_all /\ Fairness

-----------------------------------------------------------------------------
ClientTypeOK ==
    /\ TypeOK
    /\ {access, stored} \subseteq Tokens \cup {None} /\ overdue \subseteq Tokens
    /\ call \in [Calls -> [phase : CallPhases, kind : Kinds, sid : Tokens \cup {None},
                           ok : BOOLEAN, got : Tokens \cup {None}]]
    /\ refresh \in [phase : {"none", "sent", "begun", "won", "lost"}, tok : Tokens \cup {None},
                    req : Requests \cup {None}]
    /\ refresh.phase # "none" => refresh.tok # None
    /\ user \in Users \cup {None} /\ faults \in 0 .. MaxFaults /\ disturbed \in BOOLEAN

\* However many calls meet a 401 together, the refresh token the page keeps is good whenever no
\* refresh and no logout is under way: a page never spends its own session (client.ts:4-11).
KeptTokenIsLive ==
    refresh = NoRefresh /\ stored # None /\ ~disturbed /\ ~LoggingOut => Live(stored)

\* A refresh that fails was never beaten by another refresh of the page ("the second one presents
\* an already-revoked token, fails, and logs the user out"): nobody rotated its token.
NeverLosesToItself ==
    refresh.phase = "lost" /\ ~disturbed => row[refresh.tok].next = None

\* Every call settles, whatever is lost.
CallsSettle == \A c \in Calls : call[c].phase # "idle" ~> call[c].phase = "idle"
=============================================================================
