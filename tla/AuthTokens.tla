----------------------------- MODULE AuthTokens -----------------------------
(***************************************************************************)
(* Accounts and their sessions (auth/service.py): login with its lockout,  *)
(* refresh-token rotation, logout, and the password reset.  Requests run   *)
(* as concurrent READ COMMITTED transactions; an action is the work of a   *)
(* request between two points where others can run.  A row lock is implied *)
(* by the phase of the request that holds it.                              *)
(*                                                                         *)
(* A session is one row of `refresh_tokens`: a refresh token names it by   *)
(* its jti and an access token by its sid, and both are good only while    *)
(* the row is live.  Passwords are named by the number of times the hash   *)
(* was replaced, which is also what signs a reset link.                    *)
(***************************************************************************)
EXTENDS Integers, FiniteSets

CONSTANTS
    Users,           \* accounts
    Requests,        \* requests being served at one time
    Tokens,          \* jtis of refresh tokens; the bound on the logins and rotations
    MaxLogins,       \* LOGIN_MAX_FAILURES
    MaxMails,        \* RESET_MAX_PER_WINDOW
    MaxVersion,      \* bound on the password's versions
    None             \* no user, no token

ASSUME UsersAssumption == None \notin Users
ASSUME TokensAssumption == None \notin Tokens
ASSUME RequestsAssumption == IsFiniteSet(Requests)
ASSUME LimitsAssumption == MaxLogins \in Nat \ {0} /\ MaxMails \in Nat \ {0}
ASSUME VersionAssumption == MaxVersion \in Nat \ {0}

VARIABLES
    version,   \* user -> the version of users.hashed_password
    row,       \* token -> its row of refresh_tokens
    recent,    \* <<source, user>> -> rows of login_attempts in the window, by what recorded them
    links,     \* the reset links mailed: <<user, version that signed it>>
    req,       \* request -> what it is doing
    reached    \* tokens some committed reset's UPDATE saw live (history)

vars == <<version, row, recent, links, req, reached>>

\* Version 0: no account has this address.
Versions == Nat

\* What records a failed attempt, each named by the phase of the request that will: a login
\* form with an account's address, a login form whose username is "reset:<address>" (which no
\* account has), and a request for a reset mail.
Sources == {"verify", "alias", "mail"}

\* `next` is replaced_by_jti.  `root` is the login the chain of rotations started from and
\* `under` the password version that login was checked against; neither is a column.
Row == [state : {"unused", "live", "revoked", "expired", "gone"},
        user : Users \cup {None}, next : Tokens \cup {None},
        root : Tokens \cup {None}, under : Versions]

NoRow == [state |-> "unused", user |-> None, next |-> None, root |-> None, under |-> 0]

Phases == Sources \cup {"idle", "register", "rotate", "hash", "revoke"}

Request == [phase : Phases, user : Users \cup {None}, tok : Tokens \cup {None},
            ver : Versions, snap : SUBSET Tokens]

Idle == [phase |-> "idle", user |-> None, tok |-> None, ver |-> 0, snap |-> {}]

NoSessions ==
    /\ row = [t \in Tokens |-> NoRow]
    /\ recent = [k \in Sources \X Users |-> 0]
    /\ links = {}
    /\ req = [r \in Requests |-> Idle]
    /\ reached = {}

Init == version = [u \in Users |-> 0] /\ NoSessions

-----------------------------------------------------------------------------
Limit(s) == IF s = "mail" THEN MaxMails ELSE MaxLogins

\* _recent_failures counts the rows of one email_or_ip, whatever recorded them: the last two
\* sources share the key "reset:<address>" (_reset_key).
Failures(s, u) ==
    IF s = "verify" THEN recent[<<"verify", u>>] ELSE recent[<<"alias", u>>] + recent[<<"mail", u>>]

\* The requests that have counted and not yet recorded.
Pending(ss, u) == {r \in Requests : req[r].phase \in ss /\ req[r].user = u}

\* Recorded, and committed with the end of the request.
Record(s, u) == recent' = [recent EXCEPT ![<<s, u>>] = @ + 1]

\* The validity rule of refresh_tokens: `revoked_at IS NULL AND expires_at > now()`.
Live(t) == row[t].state = "live"

\* A new jti is a fresh uuid; which one makes no difference.
Unused == {t \in Tokens : row[t].state = "unused"}
Fresh == CHOOSE t \in Unused : TRUE

\* A rotation holds its row from SELECT ... FOR UPDATE to its commit.
Locked(t) == \E r \in Requests : req[r].phase = "rotate" /\ req[r].tok = t

LiveOf(u) == {t \in Tokens : Live(t) /\ row[t].user = u}

\* One more request can insert a row: the bound on Tokens, not a guard of the code.
Inserting == {r \in Requests : req[r].phase \in {"verify", "rotate"}}
Room == Cardinality(Unused) > Cardinality(Inserting)

\* The resets under way: each will replace the hash, within the bound on the versions.
Resetting(u) == {r \in Requests : req[r].phase \in {"hash", "revoke"} /\ req[r].user = u}

\* _issue_pair: a session of its own for the login.
Opened(t, u, ver) ==
    [row EXCEPT ![t] = [state |-> "live", user |-> u, next |-> None, root |-> t, under |-> ver]]

\* The old row is revoked and its successor inserted.
Rotated(old, t) ==
    [x \in Tokens |-> CASE x = old -> [row[old] EXCEPT !.state = "revoked", !.next = t]
                        [] x = t   -> [row[old] EXCEPT !.state = "live", !.next = None]
                        [] OTHER   -> row[x]]

Revoked(ts) ==
    [t \in Tokens |-> IF t \in ts /\ Live(t) THEN [row[t] EXCEPT !.state = "revoked"] ELSE row[t]]

Begin(r, record) ==
    /\ req[r].phase = "idle"
    /\ req' = [req EXCEPT ![r] = record]

End(r) == req' = [req EXCEPT ![r] = Idle]

-----------------------------------------------------------------------------
\* register: the password is hashed in a thread before the INSERT.
RegisterStart(r, u) ==
    /\ Begin(r, [Idle EXCEPT !.phase = "register", !.user = u])
    /\ UNCHANGED <<version, row, recent, links, reached>>

\* The unique email makes the INSERT fail (409) when another registration came first.
RegisterCommit(r) ==
    /\ req[r].phase = "register"
    /\ version' = [version EXCEPT ![req[r].user] = IF @ = 0 THEN 1 ELSE @]
    /\ End(r)
    /\ UNCHANGED <<row, recent, links, reached>>

\* Mutant: refuses one attempt late.
LoginStartPastLimit(r, u) ==
    /\ Failures("verify", u) <= MaxLogins
    /\ Room
    /\ Begin(r, [Idle EXCEPT !.phase = "verify", !.user = u, !.ver = version[u]])
    /\ UNCHANGED <<version, row, recent, links, reached>>

\* authenticate: count the failures in the window, refuse at the limit (which changes nothing),
\* read the user row, and go to the bcrypt thread with the hash it held.
LoginStart(r, u) ==
    /\ Failures("verify", u) < MaxLogins
    /\ Room
    /\ Begin(r, [Idle EXCEPT !.phase = "verify", !.user = u, !.ver = version[u]])
    /\ UNCHANGED <<version, row, recent, links, reached>>

\* The same with the username "reset:<address>", which finds no account.
LoginStartAlias(r, u) ==
    /\ Failures("alias", u) < MaxLogins
    /\ Begin(r, [Idle EXCEPT !.phase = "alias", !.user = u])
    /\ UNCHANGED <<version, row, recent, links, reached>>

\* The password does not match the hash read, or there was no account: record the failure, commit, 401.
LoginFail(r) ==
    /\ req[r].phase \in {"verify", "alias"}
    /\ Record(req[r].phase, req[r].user)
    /\ End(r)
    /\ UNCHANGED <<version, row, links, reached>>

\* It does: a session is inserted whatever happened to the user row meanwhile.
LoginSucceed(r) ==
    /\ req[r].phase = "verify"
    /\ req[r].ver > 0
    /\ Unused # {}
    /\ row' = Opened(Fresh, req[r].user, req[r].ver)
    /\ End(r)
    /\ UNCHANGED <<version, recent, links, reached>>

\* Mutant: SELECT without FOR UPDATE.
RotateSelectPlain(r, t) ==
    /\ Live(t)
    /\ Room
    /\ Begin(r, [Idle EXCEPT !.phase = "rotate", !.user = row[t].user, !.tok = t])
    /\ UNCHANGED <<version, row, recent, links, reached>>

\* rotate_refresh: SELECT ... FOR UPDATE waits for a row another rotation holds, and finds the
\* row only while it is live; a token without one gets 401, which changes nothing.
RotateSelect(r, t) ==
    /\ Live(t)
    /\ ~Locked(t)
    /\ Room
    /\ Begin(r, [Idle EXCEPT !.phase = "rotate", !.user = row[t].user, !.tok = t])
    /\ UNCHANGED <<version, row, recent, links, reached>>

\* One commit for both rows.
RotateCommit(r) ==
    /\ req[r].phase = "rotate"
    /\ Unused # {}
    /\ row' = Rotated(req[r].tok, Fresh)
    /\ End(r)
    /\ UNCHANGED <<version, recent, links, reached>>

\* revoke_family: one UPDATE of the row named by the access token's sid.  It waits for a
\* rotation of that row, and then no longer matches it.
Logout(t) ==
    /\ Live(t)
    /\ ~Locked(t)
    /\ row' = Revoked({t})
    /\ UNCHANGED <<version, recent, links, req, reached>>

\* request_reset: count the mails of the window and read the hash that will sign the link.
MailStart(r, u) ==
    /\ Failures("mail", u) < MaxMails
    /\ Begin(r, [Idle EXCEPT !.phase = "mail", !.user = u, !.ver = version[u]])
    /\ UNCHANGED <<version, row, recent, links, reached>>

\* Mutant: signs a link without looking whether there is an account.
MailSendUnknown(r) ==
    /\ req[r].phase = "mail"
    /\ Record("mail", req[r].user)
    /\ links' = links \cup {<<req[r].user, req[r].ver>>}
    /\ End(r)
    /\ UNCHANGED <<version, row, reached>>

\* Record the attempt, commit, and send the link when there is an account.
MailSend(r) ==
    /\ req[r].phase = "mail"
    /\ Record("mail", req[r].user)
    /\ links' = IF req[r].ver > 0 THEN links \cup {<<req[r].user, req[r].ver>>} ELSE links
    /\ End(r)
    /\ UNCHANGED <<version, row, reached>>

\* reset_password: the link must verify under the hash the row holds now; the new password is
\* then hashed in a thread.
ResetStart(r, u) ==
    /\ <<u, version[u]>> \in links
    /\ version[u] + Cardinality(Resetting(u)) < MaxVersion
    /\ Begin(r, [Idle EXCEPT !.phase = "hash", !.user = u, !.ver = version[u]])
    /\ UNCHANGED <<version, row, recent, links, reached>>

\* The UPDATE works on the sessions that are live when it starts.  Nothing is flushed before it
\* (autoflush is off, db/engine.py): the user row is written at the commit, so that resets of
\* one account meet only at the sessions both of them revoke.
ResetUpdate(r) ==
    /\ req[r].phase = "hash"
    /\ req' = [req EXCEPT ![r].phase = "revoke", ![r].snap = LiveOf(req[r].user)]
    /\ UNCHANGED <<version, row, recent, links, reached>>

\* Mutant: skips the rows that a rotation holds.
ResetCommitSkipsLocked(r) ==
    /\ req[r].phase = "revoke"
    /\ version' = [version EXCEPT ![req[r].user] = @ + 1]
    /\ row' = Revoked({t \in req[r].snap : ~Locked(t)})
    /\ reached' = reached \cup req[r].snap
    /\ End(r)
    /\ UNCHANGED <<recent, links>>

\* It waits for the rotations that hold one of those rows, skips the rows that are no longer
\* live, and commits them with the new hash.
ResetCommit(r) ==
    /\ req[r].phase = "revoke"
    /\ \A t \in req[r].snap : ~Locked(t)
    /\ version' = [version EXCEPT ![req[r].user] = @ + 1]
    /\ row' = Revoked(req[r].snap)
    /\ reached' = reached \cup req[r].snap
    /\ End(r)
    /\ UNCHANGED <<recent, links>>

\* The connection or the server dies: the transaction is rolled back and its locks are freed.
Drop(r) ==
    /\ req[r].phase # "idle"
    /\ End(r)
    /\ UNCHANGED <<version, row, recent, links, reached>>

\* A row's expires_at passes.
Expire(t) ==
    /\ Live(t)
    /\ row' = [row EXCEPT ![t].state = "expired"]
    /\ UNCHANGED <<version, recent, links, req, reached>>

\* prune deletes the rows past expires_at (waiting for the locked ones) and the attempts that
\* left the window, which no count sees.
Prune ==
    /\ \E t \in Tokens : row[t].state = "expired"
    /\ \A t \in Tokens : row[t].state = "expired" => ~Locked(t)
    /\ row' = [t \in Tokens |-> IF row[t].state = "expired"
                                THEN [row[t] EXCEPT !.state = "gone"] ELSE row[t]]
    /\ UNCHANGED <<version, recent, links, req, reached>>

\* An attempt leaves the LOGIN_LOCKOUT_WINDOW_MIN window.
AttemptAges(k) ==
    /\ recent[k] > 0
    /\ recent' = [recent EXCEPT ![k] = @ - 1]
    /\ UNCHANGED <<version, row, links, req, reached>>

Step(r) ==
    \/ RegisterCommit(r) \/ LoginFail(r) \/ LoginSucceed(r) \/ RotateCommit(r)
    \/ MailSend(r) \/ ResetUpdate(r) \/ ResetCommit(r)

Start(r, u) ==
    \/ RegisterStart(r, u) \/ LoginStart(r, u) \/ LoginStartAlias(r, u)
    \/ MailStart(r, u) \/ ResetStart(r, u)

Arrive(r) ==
    \/ \E u \in Users : Start(r, u)
    \/ \E t \in Tokens : RotateSelect(r, t)

Next ==
    \/ \E r \in Requests : Arrive(r) \/ Step(r) \/ Drop(r)
    \/ \E t \in Tokens : Logout(t) \/ Expire(t)
    \/ Prune
    \/ \E k \in Sources \X Users : AttemptAges(k)

Spec == Init /\ [][Next]_vars

-----------------------------------------------------------------------------
TypeOK ==
    /\ version \in [Users -> Versions]
    /\ row \in [Tokens -> Row]
    /\ recent \in [Sources \X Users -> Nat]
    /\ links \subseteq Users \X (Versions \ {0})      \* an account's hash signs a link
    /\ req \in [Requests -> Request]
    /\ reached \subseteq Tokens

\* A chain of rotations has at most one live session, however often a token is presented:
\* "two concurrent refreshes of one token" do not "each mint a valid family" (service.py).
OneLivePerChain ==
    \A s, t \in Tokens : Live(s) /\ Live(t) /\ row[s].root = row[t].root => s = t

\* A session a reset's UPDATE could see is dead once the reset has committed, even when a
\* rotation held its row meanwhile.
ResetEndsWhatItSaw == \A t \in reached : ~Live(t)

\* Every session belongs to an account, and to the account of the login its chain began with.
ChainsKeepTheirUser ==
    \A t \in Tokens : row[t].state # "unused" =>
        /\ row[t].root \in Tokens /\ row[row[t].root].state # "unused"
        /\ row[t].user = row[row[t].root].user
        /\ 0 < row[t].under /\ row[t].under <= version[row[t].user]

\* Attempts are counted first and recorded later, so requests served together can pass a limit,
\* but only by as many as are served at one time.  A login form can also fill the key that
\* counts the reset mails, up to its own limit; it cannot make more mails go out.
OvershootBounded ==
    \A u \in Users :
        /\ \A s \in Sources :
            recent[<<s, u>>] + Cardinality(Pending({s}, u)) < Limit(s) + Cardinality(Requests)
        /\ \E s \in {"alias", "mail"} :
            Failures(s, u) + Cardinality(Pending({"alias", "mail"}, u))
                < Limit(s) + Cardinality(Requests)

=============================================================================
