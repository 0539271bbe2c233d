--------------------------- MODULE AuthTokensProofs ---------------------------
(***************************************************************************)
(* What holds of AuthTokens for any accounts, any number of requests at a  *)
(* time, any limits and any number of sessions.                            *)
(***************************************************************************)
EXTENDS AuthTokens, FiniteSetTheorems, TLAPS

-----------------------------------------------------------------------------
(* The inductive invariant *)

\* A request in a phase knows its account, or the session it rotates.
ReqInv ==
    \A r \in Requests :
        /\ req[r].phase \in Sources \cup {"register", "hash", "revoke"} => req[r].user \in Users
        /\ req[r].phase = "rotate" => req[r].tok \in Tokens /\ row[req[r].tok].state # "unused"
        /\ req[r].phase = "verify" => req[r].ver <= version[req[r].user]

\* A rotation holds the only session of its chain that may be live, and no two rotations hold
\* sessions of one chain: what the row lock buys.
RotationInv ==
    /\ \A r \in Requests : req[r].phase = "rotate" =>
        \A t \in Tokens : Live(t) /\ row[t].root = row[req[r].tok].root => t = req[r].tok
    /\ \A r, s \in Requests : req[r].phase = "rotate" /\ req[s].phase = "rotate" /\ r # s =>
        row[req[r].tok].root # row[req[s].tok].root

\* What a reset's UPDATE saw was in the table.
SeenInv ==
    /\ \A t \in reached : row[t].state # "unused"
    /\ \A r \in Requests : req[r].phase = "revoke" => \A t \in req[r].snap : row[t].state # "unused"

ChainInv ==
    \A t \in Tokens : row[t].state # "unused" =>
        /\ row[t].user \in Users
        /\ row[t].root \in Tokens /\ row[row[t].root].state # "unused"
        /\ row[t].user = row[row[t].root].user
        /\ 0 < row[t].under /\ row[t].under <= version[row[t].user]

IInv ==
    /\ TypeOK /\ ReqInv /\ ChainInv /\ OneLivePerChain /\ RotationInv /\ SeenInv
    /\ ResetEndsWhatItSaw /\ OvershootBounded

-----------------------------------------------------------------------------
(* Data *)

LEMMA FreshFacts == ASSUME Unused # {} PROVE Fresh \in Tokens /\ row[Fresh].state = "unused"
BY DEF Unused, Fresh

LEMMA Versions0 == 0 \in Versions /\ 1 \in Versions /\ Versions \subseteq Int
BY DEF Versions

LEMMA IdleTyped == Idle \in Request
BY Versions0 DEF Idle, Request, Phases, Sources

\* What an insertion, a rotation and a revocation leave in each row.
LEMMA OpenedFacts ==
    ASSUME TypeOK, NEW t \in Tokens, NEW u \in Users, NEW ver \in Versions
    PROVE  /\ Opened(t, u, ver) \in [Tokens -> Row]
           /\ Opened(t, u, ver)[t] =
                [state |-> "live", user |-> u, next |-> None, root |-> t, under |-> ver]
           /\ \A x \in Tokens \ {t} : Opened(t, u, ver)[x] = row[x]
BY DEF TypeOK, Opened, Row

LEMMA RotatedFacts ==
    ASSUME TypeOK, NEW old \in Tokens, NEW t \in Tokens, old # t
    PROVE  /\ Rotated(old, t) \in [Tokens -> Row]
           /\ Rotated(old, t)[t] = [row[old] EXCEPT !.state = "live", !.next = None]
           /\ Rotated(old, t)[old] = [row[old] EXCEPT !.state = "revoked", !.next = t]
           /\ \A x \in Tokens \ {old, t} : Rotated(old, t)[x] = row[x]
<1>1. row[old] \in Row
  BY DEF TypeOK
<1>2. /\ [row[old] EXCEPT !.state = "live", !.next = None] \in Row
      /\ [row[old] EXCEPT !.state = "revoked", !.next = t] \in Row
  BY <1>1 DEF Row
<1> QED BY <1>2 DEF TypeOK, Rotated

LEMMA RevokedFacts ==
    ASSUME TypeOK, NEW ts
    PROVE  /\ Revoked(ts) \in [Tokens -> Row]
           /\ \A x \in Tokens : \/ Revoked(ts)[x] = row[x] /\ ~(x \in ts /\ Live(x))
                                \/ /\ x \in ts /\ Live(x)
                                   /\ Revoked(ts)[x] = [row[x] EXCEPT !.state = "revoked"]
BY DEF TypeOK, Revoked, Row, Live

-----------------------------------------------------------------------------
(* Every step keeps the inductive invariant *)

\* Every step keeps the types.
LEMMA TypeStep ==
    ASSUME TypeOK, ReqInv, [Next]_vars
    PROVE  TypeOK'
<1>1. CASE UNCHANGED vars
  BY <1>1 DEF vars, TypeOK
<1>2. ASSUME NEW r \in Requests, NEW u \in Users, RegisterStart(r, u) PROVE TypeOK'
  BY <1>2, IdleTyped, Versions0 DEF RegisterStart, Begin, Idle, TypeOK, Request, Phases, Sources
<1>3. ASSUME NEW r \in Requests, RegisterCommit(r) PROVE TypeOK'
  BY <1>3, IdleTyped, Versions0 DEF RegisterCommit, End, Idle, TypeOK, ReqInv
<1>19. ASSUME NEW r \in Requests, NEW u \in Users, LoginStartAlias(r, u) PROVE TypeOK'
  BY <1>19, IdleTyped, Versions0 DEF LoginStartAlias, Begin, Idle, TypeOK, Request, Phases, Sources
<1>4. ASSUME NEW r \in Requests, NEW u \in Users, LoginStart(r, u) PROVE TypeOK'
  BY <1>4, IdleTyped, Versions0 DEF LoginStart, Begin, Idle, TypeOK, Request, Phases, Sources
<1>5. ASSUME NEW r \in Requests, LoginFail(r) PROVE TypeOK'
  BY <1>5, IdleTyped, Versions0 DEF LoginFail, Record, End, Idle, TypeOK, ReqInv, Sources
<1>6. ASSUME NEW r \in Requests, LoginSucceed(r) PROVE TypeOK'
  <2>1. req[r].user \in Users /\ req[r].ver \in Versions
    BY <1>6 DEF LoginSucceed, ReqInv, TypeOK, Request, Sources
  <2>2. row' \in [Tokens -> Row]
    BY <1>6, <2>1, FreshFacts, OpenedFacts DEF LoginSucceed
  <2> QED BY <1>6, <2>2, IdleTyped DEF LoginSucceed, End, TypeOK
<1>7. ASSUME NEW r \in Requests, NEW t \in Tokens, RotateSelect(r, t) PROVE TypeOK'
  BY <1>7, IdleTyped, Versions0 DEF RotateSelect, Begin, Idle, TypeOK, Request, Phases, Sources, Row, Live
<1>8. ASSUME NEW r \in Requests, RotateCommit(r) PROVE TypeOK'
  <2>1. req[r].tok \in Tokens /\ Fresh \in Tokens /\ Fresh # req[r].tok
    BY <1>8, FreshFacts DEF RotateCommit, ReqInv
  <2>2. row' \in [Tokens -> Row]
    BY <1>8, <2>1, RotatedFacts DEF RotateCommit
  <2> QED BY <1>8, <2>2, IdleTyped DEF RotateCommit, End, TypeOK
<1>9. ASSUME NEW t \in Tokens, Logout(t) PROVE TypeOK'
  <2>1. row' \in [Tokens -> Row]
    BY <1>9, RevokedFacts DEF Logout
  <2> QED BY <1>9, <2>1 DEF Logout, TypeOK
<1>10. ASSUME NEW r \in Requests, NEW u \in Users, MailStart(r, u) PROVE TypeOK'
  BY <1>10, IdleTyped, Versions0 DEF MailStart, Begin, Idle, TypeOK, Request, Phases, Sources
<1>11. ASSUME NEW r \in Requests, MailSend(r) PROVE TypeOK'
  BY <1>11, IdleTyped, Versions0 DEF MailSend, Record, End, Idle, TypeOK, ReqInv, Sources, Request
<1>12. ASSUME NEW r \in Requests, NEW u \in Users, ResetStart(r, u) PROVE TypeOK'
  BY <1>12, IdleTyped, Versions0 DEF ResetStart, Begin, Idle, TypeOK, Request, Phases, Sources
<1>13. ASSUME NEW r \in Requests, ResetUpdate(r) PROVE TypeOK'
  BY <1>13, IdleTyped, Versions0 DEF ResetUpdate, TypeOK, Request, Phases, Sources, LiveOf
<1>14. ASSUME NEW r \in Requests, ResetCommit(r) PROVE TypeOK'
  <2>1. row' \in [Tokens -> Row]
    BY <1>14, RevokedFacts DEF ResetCommit
  <2>2. req[r].user \in Users
    BY <1>14 DEF ResetCommit, ReqInv
  <2>4. version' \in [Users -> Versions]
    BY <1>14, <2>2 DEF ResetCommit, TypeOK, Versions
  <2>3. reached' \subseteq Tokens
    BY <1>14 DEF ResetCommit, TypeOK, Request
  <2> QED BY <1>14, <2>1, <2>3, <2>4, IdleTyped DEF ResetCommit, End, TypeOK
<1>15. ASSUME NEW r \in Requests, Drop(r) PROVE TypeOK'
  BY <1>15, IdleTyped, Versions0 DEF Drop, End, Idle, TypeOK
<1>16. ASSUME NEW t \in Tokens, Expire(t) PROVE TypeOK'
  BY <1>16, IdleTyped, Versions0 DEF Expire, TypeOK, Row, Live
<1>17. ASSUME Prune PROVE TypeOK'
  BY <1>17, IdleTyped, Versions0 DEF Prune, TypeOK, Row
<1>18. ASSUME NEW k \in Sources \X Users, AttemptAges(k) PROVE TypeOK'
  BY <1>18, IdleTyped, Versions0 DEF AttemptAges, TypeOK
<1> QED BY <1>1, <1>2, <1>3, <1>4, <1>5, <1>6, <1>7, <1>8, <1>9,
       <1>10, <1>11, <1>12, <1>13, <1>14, <1>15, <1>16, <1>17, <1>18, <1>19
       DEF Next, Arrive, Start, Step

\* The hash of a password is only ever replaced.
LEMMA VersionGrows ==
    ASSUME TypeOK, ReqInv, [Next]_vars
    PROVE  \A u \in Users : version[u] <= version'[u]
<1>1. CASE version' = version
  BY <1>1 DEF TypeOK, Versions
<1>2. ASSUME NEW r \in Requests, RegisterCommit(r) PROVE \A u \in Users : version[u] <= version'[u]
  BY <1>2 DEF RegisterCommit, TypeOK, Versions
<1>3. ASSUME NEW r \in Requests, ResetCommit(r) PROVE \A u \in Users : version[u] <= version'[u]
  BY <1>3 DEF ResetCommit, TypeOK, Versions
<1> QED
  BY <1>1, <1>2, <1>3 DEF Next, Arrive, Start, Step, vars, RegisterStart, LoginStart, LoginStartAlias, LoginFail, LoginSucceed,
     RotateSelect, RotateCommit, Logout, MailStart, MailSend, ResetStart, ResetUpdate, Drop, Expire,
     Prune, AttemptAges

\* Sessions end, and nothing else happens to a row.
Ending ==
    \A x \in Tokens :
        \/ row'[x] = row[x]
        \/ /\ row[x].state # "unused"
           /\ row'[x].state \notin {"unused", "live"}
           /\ row'[x].user = row[x].user /\ row'[x].root = row[x].root
           /\ row'[x].under = row[x].under

\* What a step can do to the sessions.
LEMMA RowStep ==
    ASSUME TypeOK, [Next]_vars
    PROVE  \/ Ending
           \/ \E r \in Requests : LoginSucceed(r) \/ RotateCommit(r)
<1>1. CASE row' = row
  BY <1>1 DEF Ending
<1>2. ASSUME NEW ts, row' = Revoked(ts) PROVE Ending
  <2> SUFFICES ASSUME NEW x \in Tokens, row'[x] # row[x]
               PROVE  /\ row[x].state # "unused"
                      /\ row'[x].state \notin {"unused", "live"}
                      /\ row'[x].user = row[x].user /\ row'[x].root = row[x].root
                      /\ row'[x].under = row[x].under
    BY DEF Ending
  <2>1. Live(x) /\ row'[x] = [row[x] EXCEPT !.state = "revoked"]
    BY <1>2, RevokedFacts
  <2>2. row[x] \in Row
    BY DEF TypeOK
  <2> QED BY <2>1, <2>2 DEF Live, Row
<1>3. ASSUME NEW t \in Tokens, Expire(t) PROVE Ending
  BY <1>3 DEF Expire, Ending, TypeOK, Row, Live
<1>4. ASSUME Prune PROVE Ending
  BY <1>4 DEF Prune, Ending, TypeOK, Row
<1> QED
  BY <1>1, <1>2, <1>3, <1>4 DEF Next, Arrive, Start, Step, vars, RegisterStart, RegisterCommit, LoginStart, LoginStartAlias,
     LoginFail, RotateSelect, Logout, MailStart, MailSend, ResetStart, ResetUpdate, ResetCommit, Drop,
     AttemptAges

\* A login opens a session that begins a chain of its own.
LEMMA LoginStep ==
    ASSUME TypeOK, ReqInv, NEW r \in Requests, LoginSucceed(r)
    PROVE  \E t \in Tokens :
            /\ row[t].state = "unused"
            /\ req[r].user \in Users /\ req[r].ver \in Nat \ {0} /\ req[r].ver <= version[req[r].user]
            /\ row'[t] = [state |-> "live", user |-> req[r].user, next |-> None, root |-> t,
                          under |-> req[r].ver]
            /\ \A x \in Tokens \ {t} : row'[x] = row[x]
<1>1. /\ req[r].user \in Users /\ req[r].ver \in Versions
      /\ req[r].ver > 0 /\ req[r].ver <= version[req[r].user]
  BY DEF LoginSucceed, ReqInv, TypeOK, Request, Sources
<1>2. Fresh \in Tokens /\ row[Fresh].state = "unused" /\ row' = Opened(Fresh, req[r].user, req[r].ver)
  BY FreshFacts DEF LoginSucceed
<1>3. /\ row'[Fresh] = [state |-> "live", user |-> req[r].user, next |-> None, root |-> Fresh,
                        under |-> req[r].ver]
      /\ \A x \in Tokens \ {Fresh} : row'[x] = row[x]
  BY <1>1, <1>2, OpenedFacts
<1>4. req[r].ver \in Nat \ {0}
  BY <1>1 DEF Versions
<1> QED BY <1>1, <1>2, <1>3, <1>4

\* A rotation ends one session and opens another of its chain.
LEMMA RotateStep ==
    ASSUME TypeOK, ReqInv, NEW r \in Requests, RotateCommit(r)
    PROVE  \E t \in Tokens :
            /\ row[t].state = "unused" /\ t # req[r].tok
            /\ req[r].tok \in Tokens /\ row[req[r].tok].state # "unused"
            /\ row'[t].state = "live" /\ row'[req[r].tok].state = "revoked"
            /\ \A x \in {t, req[r].tok} : /\ row'[x].user = row[req[r].tok].user
                                          /\ row'[x].root = row[req[r].tok].root
                                          /\ row'[x].under = row[req[r].tok].under
            /\ \A x \in Tokens \ {req[r].tok, t} : row'[x] = row[x]
<1>1. req[r].tok \in Tokens /\ row[req[r].tok].state # "unused"
  BY DEF RotateCommit, ReqInv
<1>2. Fresh \in Tokens /\ row[Fresh].state = "unused" /\ row' = Rotated(req[r].tok, Fresh)
  BY FreshFacts DEF RotateCommit
<1>3. row[req[r].tok] \in Row
  BY <1>1 DEF TypeOK
<1>4. /\ Rotated(req[r].tok, Fresh)[Fresh] = [row[req[r].tok] EXCEPT !.state = "live", !.next = None]
      /\ Rotated(req[r].tok, Fresh)[req[r].tok] =
            [row[req[r].tok] EXCEPT !.state = "revoked", !.next = Fresh]
      /\ \A x \in Tokens \ {req[r].tok, Fresh} : Rotated(req[r].tok, Fresh)[x] = row[x]
  BY <1>1, <1>2, RotatedFacts
<1>5. /\ row'[Fresh].state = "live" /\ row'[Fresh].user = row[req[r].tok].user
      /\ row'[Fresh].root = row[req[r].tok].root /\ row'[Fresh].under = row[req[r].tok].under
  <2>1. PICK f : f = [row[req[r].tok] EXCEPT !.state = "live"]
    OBVIOUS
  <2>2. row'[Fresh] = [f EXCEPT !.next = None]
    BY <1>2, <1>4, <2>1, Zenon
  <2>3. /\ f.state = "live" /\ f.user = row[req[r].tok].user
        /\ f.root = row[req[r].tok].root /\ f.under = row[req[r].tok].under
        /\ DOMAIN f = {"state", "user", "next", "root", "under"}
    BY <1>3, <2>1 DEF Row
  <2> QED BY <2>2, <2>3
<1>6. /\ row'[req[r].tok].state = "revoked" /\ row'[req[r].tok].user = row[req[r].tok].user
      /\ row'[req[r].tok].root = row[req[r].tok].root /\ row'[req[r].tok].under = row[req[r].tok].under
  <2>1. PICK f : f = [row[req[r].tok] EXCEPT !.state = "revoked"]
    OBVIOUS
  <2>2. row'[req[r].tok] = [f EXCEPT !.next = Fresh]
    BY <1>2, <1>4, <2>1, Zenon
  <2>3. /\ f.state = "revoked" /\ f.user = row[req[r].tok].user
        /\ f.root = row[req[r].tok].root /\ f.under = row[req[r].tok].under
        /\ DOMAIN f = {"state", "user", "next", "root", "under"}
    BY <1>3, <2>1 DEF Row
  <2> QED BY <2>2, <2>3
<1>7. Fresh # req[r].tok /\ (\A x \in Tokens \ {req[r].tok, Fresh} : row'[x] = row[x])
  BY <1>1, <1>2, <1>4, Zenon
<1>8. \A x \in {Fresh, req[r].tok} : /\ row'[x].user = row[req[r].tok].user
                                    /\ row'[x].root = row[req[r].tok].root
                                    /\ row'[x].under = row[req[r].tok].under
  BY <1>5, <1>6, Zenon
<1> QED BY <1>1, <1>2, <1>5, <1>6, <1>7, <1>8, Zenon

\* A session that is over stays over, and no row becomes unused again.
LEMMA NeverRelives ==
    ASSUME TypeOK, ReqInv, [Next]_vars
    PROVE  \A x \in Tokens : row[x].state # "unused" =>
            row'[x].state # "unused" /\ (Live(x)' => Live(x))
<1>1. CASE Ending
  BY <1>1 DEF Ending, Live
<1>2. ASSUME NEW r \in Requests, LoginSucceed(r)
      PROVE  \A x \in Tokens : row[x].state # "unused" =>
                row'[x].state # "unused" /\ (Live(x)' => Live(x))
  BY <1>2, LoginStep DEF Live
<1>3. ASSUME NEW r \in Requests, RotateCommit(r)
      PROVE  \A x \in Tokens : row[x].state # "unused" =>
                row'[x].state # "unused" /\ (Live(x)' => Live(x))
  BY <1>3, RotateStep DEF Live
<1> QED BY <1>1, <1>2, <1>3, RowStep

LEMMA ChainStep ==
    ASSUME TypeOK, ReqInv, ChainInv, [Next]_vars
    PROVE  ChainInv'
<1> USE VersionGrows DEF Versions
<1>0. TypeOK'
  BY TypeStep
<1>1. CASE Ending
  <2> SUFFICES ASSUME NEW t \in Tokens, row'[t].state # "unused"
               PROVE  /\ row'[t].user \in Users
                      /\ row'[t].root \in Tokens /\ row'[row'[t].root].state # "unused"
                      /\ row'[t].user = row'[row'[t].root].user
                      /\ 0 < row'[t].under /\ row'[t].under <= version'[row'[t].user]
    BY DEF ChainInv
  <2>1. /\ row[t].state # "unused" /\ row'[t].user = row[t].user
        /\ row'[t].root = row[t].root /\ row'[t].under = row[t].under
    BY <1>1 DEF Ending
  <2>2. /\ row[t].user \in Users /\ row[t].root \in Tokens /\ row[row[t].root].state # "unused"
        /\ row[t].user = row[row[t].root].user
        /\ 0 < row[t].under /\ row[t].under <= version[row[t].user]
    BY <2>1 DEF ChainInv
  <2>3. row'[row[t].root].state # "unused" /\ row'[row[t].root].user = row[t].user
    BY <1>1, <2>2, NeverRelives DEF Ending
  <2>4. row[t].under <= version'[row[t].user]
    <3>1. /\ row[t].under \in Nat
          /\ version[row[t].user] \in Nat /\ version'[row[t].user] \in Nat
      BY <1>0, <2>2 DEF TypeOK, Row
    <3> QED BY <2>2, <3>1
  <2> QED BY <2>1, <2>2, <2>3, <2>4
<1>2. ASSUME NEW r \in Requests, LoginSucceed(r) PROVE ChainInv'
  <2>1. PICK t \in Tokens :
            /\ row[t].state = "unused"
            /\ req[r].user \in Users /\ req[r].ver \in Nat \ {0} /\ req[r].ver <= version[req[r].user]
            /\ row'[t] = [state |-> "live", user |-> req[r].user, next |-> None, root |-> t,
                          under |-> req[r].ver]
            /\ \A x \in Tokens \ {t} : row'[x] = row[x]
    BY <1>2, LoginStep
  <2>2. version' = version
    BY <1>2 DEF LoginSucceed
  <2> QED BY <2>1, <2>2 DEF ChainInv, TypeOK, Row
<1>3. ASSUME NEW r \in Requests, RotateCommit(r) PROVE ChainInv'
  <2>1. version' = version
    BY <1>3 DEF RotateCommit
  <2>2. PICK t \in Tokens :
            /\ row[t].state = "unused" /\ t # req[r].tok
            /\ req[r].tok \in Tokens /\ row[req[r].tok].state # "unused"
            /\ row'[t].state = "live" /\ row'[req[r].tok].state = "revoked"
            /\ \A x \in {t, req[r].tok} : /\ row'[x].user = row[req[r].tok].user
                                          /\ row'[x].root = row[req[r].tok].root
                                          /\ row'[x].under = row[req[r].tok].under
            /\ \A x \in Tokens \ {req[r].tok, t} : row'[x] = row[x]
    BY <1>3, RotateStep
  <2>3. \A x \in Tokens : row[x].state # "unused" =>
            /\ row'[x].user = row[x].user /\ row'[x].root = row[x].root
            /\ row'[x].under = row[x].under /\ row'[x].state # "unused"
    BY <2>2
  <2>4. \A x \in Tokens \ {t} : row'[x].state # "unused" => row[x].state # "unused"
    BY <2>2
  <2>5. ASSUME NEW x \in Tokens, row[x].state # "unused"
        PROVE  /\ row'[x].user \in Users
               /\ row'[x].root \in Tokens /\ row'[row'[x].root].state # "unused"
               /\ row'[x].user = row'[row'[x].root].user
               /\ 0 < row'[x].under /\ row'[x].under <= version'[row'[x].user]
    BY <2>1, <2>3, <2>5 DEF ChainInv
  <2>6. /\ row'[t].user = row'[req[r].tok].user /\ row'[t].root = row'[req[r].tok].root
        /\ row'[t].under = row'[req[r].tok].under
    BY <2>2
  <2>7. /\ row'[t].user \in Users
        /\ row'[t].root \in Tokens /\ row'[row'[t].root].state # "unused"
        /\ row'[t].user = row'[row'[t].root].user
        /\ 0 < row'[t].under /\ row'[t].under <= version'[row'[t].user]
    BY <2>2, <2>5, <2>6
  <2> QED BY <2>4, <2>5, <2>7 DEF ChainInv
<1> QED BY <1>1, <1>2, <1>3, RowStep

LEMMA OneLiveStep ==
    ASSUME TypeOK, ReqInv, ChainInv, OneLivePerChain, RotationInv, [Next]_vars
    PROVE  OneLivePerChain'
<1>1. CASE Ending
  BY <1>1 DEF Ending, OneLivePerChain, Live
<1>2. ASSUME NEW r \in Requests, LoginSucceed(r) PROVE OneLivePerChain'
  <2>0. PICK t \in Tokens :
            /\ row[t].state = "unused"
            /\ req[r].user \in Users /\ req[r].ver \in Nat \ {0} /\ req[r].ver <= version[req[r].user]
            /\ row'[t] = [state |-> "live", user |-> req[r].user, next |-> None, root |-> t,
                          under |-> req[r].ver]
            /\ \A x \in Tokens \ {t} : row'[x] = row[x]
    BY <1>2, LoginStep
  <2>1. /\ row[t].state = "unused" /\ row'[t].root = t
        /\ \A x \in Tokens \ {t} : row'[x] = row[x]
    BY <2>0
  <2>2. \A x \in Tokens \ {t} : row[x].state # "unused" => row[x].root # t
    BY <2>1 DEF ChainInv
  <2>3. ASSUME NEW x \in Tokens \ {t}, Live(x)' PROVE Live(x) /\ row'[x].root = row[x].root /\ row[x].root # t
    BY <2>1, <2>2, <2>3 DEF Live
  <2> SUFFICES ASSUME NEW x \in Tokens, NEW y \in Tokens, Live(x)', Live(y)', row'[x].root = row'[y].root
               PROVE  x = y
    BY DEF OneLivePerChain
  <2>4. CASE x = t \/ y = t
    BY <2>1, <2>3, <2>4
  <2>5. CASE x # t /\ y # t
    BY <2>3, <2>5 DEF OneLivePerChain
  <2> QED BY <2>4, <2>5
<1>3. ASSUME NEW r \in Requests, RotateCommit(r) PROVE OneLivePerChain'
  BY <1>3, RotateStep DEF OneLivePerChain, RotationInv, RotateCommit, Live
<1> QED BY <1>1, <1>2, <1>3, RowStep

\* A request that holds a session's row in the next state holds it now or takes it in this step.
LEMMA RotatorStep ==
    ASSUME TypeOK, [Next]_vars, NEW r \in Requests, req'[r].phase = "rotate"
    PROVE  \/ req'[r] = req[r] /\ ~LoginSucceed(r) /\ ~RotateCommit(r)
           \/ \E t \in Tokens : RotateSelect(r, t)
<1> USE DEF TypeOK, Request
<1>1. CASE UNCHANGED vars
  BY <1>1 DEF vars, LoginSucceed, RotateCommit, End, Idle
<1>2. ASSUME NEW s \in Requests, End(s)
      PROVE  req'[r] = req[r] /\ ~LoginSucceed(r) /\ ~RotateCommit(r)
  BY <1>2 DEF End, Idle, LoginSucceed, RotateCommit
<1>3. ASSUME NEW s \in Requests, NEW e, Begin(s, e), req'[s].phase # "rotate"
      PROVE  req'[r] = req[r] /\ ~LoginSucceed(r) /\ ~RotateCommit(r)
  BY <1>3 DEF Begin, End, Idle, LoginSucceed, RotateCommit
<1>4. ASSUME NEW s \in Requests, NEW t \in Tokens, RotateSelect(s, t), s # r
      PROVE  req'[r] = req[r] /\ ~LoginSucceed(r) /\ ~RotateCommit(r)
  BY <1>4 DEF RotateSelect, Begin, End, Idle, LoginSucceed, RotateCommit
<1>5. ASSUME NEW s \in Requests, ResetUpdate(s)
      PROVE  req'[r] = req[r] /\ ~LoginSucceed(r) /\ ~RotateCommit(r)
  BY <1>5 DEF ResetUpdate, End, Idle, LoginSucceed, RotateCommit
<1>6. CASE req' = req
  BY <1>6 DEF End, Idle, LoginSucceed, RotateCommit
<1>7. ASSUME NEW s \in Requests, NEW u \in Users, Start(s, u)
      PROVE  req'[r] = req[r] /\ ~LoginSucceed(r) /\ ~RotateCommit(r)
  <2>1. CASE RegisterStart(s, u)
    <3>1. Begin(s, [Idle EXCEPT !.phase = "register", !.user = u])
      BY <2>1 DEF RegisterStart
    <3>2. req'[s].phase # "rotate"
      BY <3>1 DEF Begin, Idle
    <3> QED BY <3>1, <3>2, <1>3
  <2>2. CASE LoginStart(s, u)
    <3>1. Begin(s, [Idle EXCEPT !.phase = "verify", !.user = u, !.ver = version[u]])
      BY <2>2 DEF LoginStart
    <3>2. req'[s].phase # "rotate"
      BY <3>1 DEF Begin, Idle
    <3> QED BY <3>1, <3>2, <1>3
  <2>5. CASE LoginStartAlias(s, u)
    <3>1. Begin(s, [Idle EXCEPT !.phase = "alias", !.user = u])
      BY <2>5 DEF LoginStartAlias
    <3>2. req'[s].phase # "rotate"
      BY <3>1 DEF Begin, Idle
    <3> QED BY <3>1, <3>2, <1>3
  <2>3. CASE MailStart(s, u)
    <3>1. Begin(s, [Idle EXCEPT !.phase = "mail", !.user = u, !.ver = version[u]])
      BY <2>3 DEF MailStart
    <3>2. req'[s].phase # "rotate"
      BY <3>1 DEF Begin, Idle
    <3> QED BY <3>1, <3>2, <1>3
  <2>4. CASE ResetStart(s, u)
    <3>1. Begin(s, [Idle EXCEPT !.phase = "hash", !.user = u, !.ver = version[u]])
      BY <2>4 DEF ResetStart
    <3>2. req'[s].phase # "rotate"
      BY <3>1 DEF Begin, Idle
    <3> QED BY <3>1, <3>2, <1>3
  <2> QED BY <1>7, <2>1, <2>2, <2>3, <2>4, <2>5 DEF Start
<1>8. ASSUME NEW s \in Requests, Step(s) \/ Drop(s)
      PROVE  req'[r] = req[r] /\ ~LoginSucceed(r) /\ ~RotateCommit(r)
  <2>1. End(s) \/ ResetUpdate(s)
    BY <1>8 DEF Step, Drop, RegisterCommit, LoginFail, LoginSucceed, RotateCommit, MailSend, ResetCommit
  <2> QED BY <2>1, <1>2, <1>5
<1>9. ASSUME Prune \/ (\E t \in Tokens : Logout(t) \/ Expire(t))
             \/ (\E k \in Sources \X Users : AttemptAges(k))
      PROVE  req' = req
  BY <1>9 DEF Prune, Logout, Expire, AttemptAges
<1> QED BY <1>1, <1>4, <1>6, <1>7, <1>8, <1>9 DEF Next, Arrive

\* The chains of the rows that are not being inserted stay what they are.
LEMMA RootsStay ==
    ASSUME TypeOK, ReqInv, [Next]_vars, NEW t \in Tokens, row[t].state # "unused"
    PROVE  row'[t].root = row[t].root
<1>1. CASE Ending
  BY <1>1 DEF Ending
<1>2. ASSUME NEW r \in Requests, LoginSucceed(r) PROVE row'[t].root = row[t].root
  BY <1>2, LoginStep
<1>3. ASSUME NEW r \in Requests, RotateCommit(r) PROVE row'[t].root = row[t].root
  BY <1>3, RotateStep
<1> QED BY <1>1, <1>2, <1>3, RowStep

\* Requests keep what they know.
LEMMA ReqStep ==
    ASSUME TypeOK, ReqInv, ChainInv, [Next]_vars
    PROVE  ReqInv'
<1> SUFFICES ASSUME NEW r \in Requests
             PROVE  /\ req'[r].phase \in Sources \cup {"register", "hash", "revoke"} =>
                        req'[r].user \in Users
                    /\ req'[r].phase = "rotate" =>
                        req'[r].tok \in Tokens /\ row'[req'[r].tok].state # "unused"
                    /\ req'[r].phase = "verify" => req'[r].ver <= version'[req'[r].user]
  BY DEF ReqInv
<1> USE DEF TypeOK, Request
<1>1. \/ req'[r] = req[r] \/ req'[r] = Idle
      \/ \E t \in Tokens : RotateSelect(r, t)
      \/ \E u \in Users :
            \/ /\ req'[r].user = u /\ req'[r].ver = version[u] /\ version' = version
               /\ req'[r].phase \notin {"idle", "rotate"}
            \/ req'[r].user = u /\ req'[r].phase \in {"register", "alias"}
      \/ /\ req'[r].phase = "revoke" /\ req[r].phase = "hash" /\ req'[r].user = req[r].user
  <2>1. ASSUME NEW s \in Requests, End(s) PROVE req'[r] = req[r] \/ req'[r] = Idle
    BY <2>1 DEF End
  <2>2. ASSUME NEW s \in Requests, NEW e, Begin(s, e), s # r PROVE req'[r] = req[r]
    BY <2>2 DEF Begin
  <2>3. ASSUME NEW u \in Users, RegisterStart(r, u) PROVE req'[r].user = u /\ req'[r].phase = "register"
    BY <2>3 DEF RegisterStart, Begin, Idle
  <2>4. ASSUME NEW u \in Users, LoginStart(r, u)
        PROVE  /\ req'[r].user = u /\ req'[r].ver = version[u] /\ version' = version
               /\ req'[r].phase \notin {"idle", "rotate"}
    BY <2>4 DEF LoginStart, Begin, Idle
  <2>5. ASSUME NEW u \in Users, MailStart(r, u)
        PROVE  /\ req'[r].user = u /\ req'[r].ver = version[u] /\ version' = version
               /\ req'[r].phase \notin {"idle", "rotate"}
    BY <2>5 DEF MailStart, Begin, Idle
  <2>6. ASSUME NEW u \in Users, ResetStart(r, u)
        PROVE  /\ req'[r].user = u /\ req'[r].ver = version[u] /\ version' = version
               /\ req'[r].phase \notin {"idle", "rotate"}
    BY <2>6 DEF ResetStart, Begin, Idle
  <2>14. ASSUME NEW u \in Users, LoginStartAlias(r, u)
         PROVE  req'[r].user = u /\ req'[r].phase = "alias"
    BY <2>14 DEF LoginStartAlias, Begin, Idle
  <2>7. ASSUME NEW s \in Requests, ResetUpdate(s)
        PROVE  \/ req'[r] = req[r]
               \/ /\ req'[r].phase = "revoke" /\ req[r].phase = "hash" /\ req'[r].user = req[r].user
    BY <2>7 DEF ResetUpdate
  <2>8. ASSUME NEW s \in Requests, Arrive(s), s # r PROVE req'[r] = req[r]
    BY <2>2, <2>8 DEF Arrive, Start, RegisterStart, LoginStart, LoginStartAlias, MailStart, ResetStart, RotateSelect
  <2>9. ASSUME NEW s \in Requests, Step(s) \/ Drop(s) PROVE End(s) \/ ResetUpdate(s)
    BY <2>9 DEF Step, Drop, RegisterCommit, LoginFail, LoginSucceed, RotateCommit, MailSend, ResetCommit
  <2>10. ASSUME \/ UNCHANGED vars \/ Prune \/ (\E t \in Tokens : Logout(t) \/ Expire(t))
                \/ (\E k \in Sources \X Users : AttemptAges(k))
         PROVE  req'[r] = req[r]
    BY <2>10 DEF vars, Prune, Logout, Expire, AttemptAges
  <2>11. ASSUME NEW u \in Users, Start(r, u)
         PROVE  \/ /\ req'[r].user = u /\ req'[r].ver = version[u] /\ version' = version
                   /\ req'[r].phase \notin {"idle", "rotate"}
                \/ req'[r].user = u /\ req'[r].phase \in {"register", "alias"}
    BY <2>3, <2>4, <2>5, <2>6, <2>11, <2>14 DEF Start
  <2>12. CASE Arrive(r)
    <3>1. CASE \E t \in Tokens : RotateSelect(r, t)
      BY <3>1
    <3>2. CASE \E u \in Users : Start(r, u)
      <4>1. PICK u \in Users : Start(r, u)
        BY <3>2
      <4>2. \/ /\ req'[r].user = u /\ req'[r].ver = version[u] /\ version' = version
               /\ req'[r].phase \notin {"idle", "rotate"}
            \/ req'[r].user = u /\ req'[r].phase \in {"register", "alias"}
        BY <4>1, <2>11, Zenon
      <4> QED BY <4>2
    <3> QED BY <2>12, <3>1, <3>2 DEF Arrive
  <2> QED BY <2>1, <2>7, <2>8, <2>9, <2>10, <2>12 DEF Next
<1>2. TypeOK' /\ \A u \in Users : version[u] <= version'[u]
  BY TypeStep, VersionGrows
<1>3. CASE req'[r] = req[r]
  <2>1. req[r].phase = "verify" => req[r].ver <= version'[req[r].user]
    BY <1>2 DEF ReqInv, Versions, Sources
  <2> QED BY <1>3, <2>1, NeverRelives DEF ReqInv
<1>4. CASE req'[r] = Idle
  BY <1>4 DEF Idle, Sources
<1>5. ASSUME NEW t \in Tokens, RotateSelect(r, t)
      PROVE  req'[r].phase = "rotate" /\ req'[r].tok = t /\ row'[t].state # "unused"
  BY <1>5 DEF RotateSelect, Begin, Idle, Live
<1>6. ASSUME NEW u \in Users, req'[r].user = u, req'[r].ver = version[u], version' = version,
             req'[r].phase # "rotate"
      PROVE  req'[r].user \in Users /\ req'[r].ver <= version'[req'[r].user]
  BY <1>6 DEF Versions
<1>7. CASE req'[r].phase = "revoke" /\ req[r].phase = "hash" /\ req'[r].user = req[r].user
  BY <1>7 DEF ReqInv
<1> QED BY <1>1, <1>3, <1>4, <1>5, <1>6, <1>7 DEF Sources

LEMMA RotationStep ==
    ASSUME TypeOK, ReqInv, ChainInv, OneLivePerChain, RotationInv, [Next]_vars
    PROVE  RotationInv'
<1>1. ASSUME NEW r \in Requests, NEW s \in Requests, req'[r].phase = "rotate",
             req'[s].phase = "rotate", r # s
      PROVE  row'[req'[r].tok].root # row'[req'[s].tok].root
  <2>1. ASSUME NEW x \in Requests, NEW y \in Requests, NEW t \in Tokens, x # y,
               RotateSelect(x, t), req[y].phase = "rotate", req'[y] = req[y]
        PROVE  row'[req'[x].tok].root # row'[req'[y].tok].root
    <3>1. Live(t) /\ ~Locked(t) /\ row' = row /\ req'[x].tok = t
      BY <2>1 DEF RotateSelect, Begin, Idle, TypeOK, Request
    <3>2. t # req[y].tok
      BY <2>1, <3>1 DEF Locked
    <3>3. row[req[y].tok].root # row[t].root
      BY <2>1, <3>1, <3>2 DEF RotationInv
    <3> QED BY <2>1, <3>1, <3>3
  <2>2. CASE req'[r] = req[r] /\ req'[s] = req[s]
    BY <1>1, <2>2, RootsStay DEF RotationInv, ReqInv
  <2>3. ASSUME NEW x \in Requests, NEW y \in Requests, NEW t \in Tokens, NEW u \in Tokens, x # y,
               RotateSelect(x, t), RotateSelect(y, u)
        PROVE  FALSE
    BY <2>3 DEF RotateSelect, Begin, Idle, TypeOK, Request
  <2> QED BY <1>1, <2>1, <2>2, <2>3, RotatorStep
<1>2. ASSUME NEW r \in Requests, NEW t \in Tokens, req'[r].phase = "rotate",
             Live(t)', row'[t].root = row'[req'[r].tok].root
      PROVE  t = req'[r].tok
  <2>1. CASE \E u \in Tokens : RotateSelect(r, u)
    BY <1>2, <2>1 DEF RotateSelect, Begin, Idle, TypeOK, Request, OneLivePerChain, Live
  <2>2. CASE req'[r] = req[r] /\ ~LoginSucceed(r) /\ ~RotateCommit(r)
    <3> DEFINE old == req[r].tok
    <3>1. req[r].phase = "rotate" /\ old \in Tokens /\ row[old].state # "unused"
      BY <1>2, <2>2 DEF ReqInv
    <3>2. row'[old].root = row[old].root
      BY <3>1, RootsStay
    <3>3. CASE row[t].state # "unused"
      BY <1>2, <2>2, <3>1, <3>2, <3>3, RootsStay, NeverRelives DEF RotationInv
    <3>4. ASSUME row[t].state = "unused", NEW s \in Requests, LoginSucceed(s) PROVE FALSE
      <4>1. row'[t].root = t
        <5>1. PICK u \in Tokens :
                /\ row[u].state = "unused"
                /\ req[s].user \in Users /\ req[s].ver \in Nat \ {0} /\ req[s].ver <= version[req[s].user]
                /\ row'[u] = [state |-> "live", user |-> req[s].user, next |-> None, root |-> u,
                              under |-> req[s].ver]
                /\ \A x \in Tokens \ {u} : row'[x] = row[x]
          BY <3>4, LoginStep
        <5>2. t = u
          BY <1>2, <3>4, <5>1 DEF Live
        <5> QED BY <5>1, <5>2
      <4>2. row[old].root # t
        BY <3>1, <3>4 DEF ChainInv
      <4> QED BY <1>2, <2>2, <3>2, <4>1, <4>2
    <3>5. ASSUME row[t].state = "unused", NEW s \in Requests, RotateCommit(s) PROVE FALSE
      <4>1. row'[t].root = row[req[s].tok].root
        BY <1>2, <3>5, RotateStep DEF Live
      <4>2. s # r /\ req[s].phase = "rotate"
        BY <2>2, <3>5 DEF RotateCommit
      <4>3. row[req[s].tok].root # row[old].root
        BY <3>1, <4>2 DEF RotationInv
      <4> QED BY <1>2, <2>2, <3>2, <4>1, <4>3
    <3>6. CASE Ending
      BY <1>2, <3>3, <3>6 DEF Ending, Live
    <3> QED BY <3>3, <3>4, <3>5, <3>6, RowStep
  <2> QED BY <1>2, <2>1, <2>2, RotatorStep
<1> QED BY <1>1, <1>2 DEF RotationInv

LEMMA SeenStep ==
    ASSUME TypeOK, ReqInv, SeenInv, ResetEndsWhatItSaw, [Next]_vars
    PROVE  SeenInv' /\ ResetEndsWhatItSaw'
<1> USE DEF TypeOK, Request
<1>1. ASSUME NEW r \in Requests, ResetCommit(r) PROVE SeenInv' /\ ResetEndsWhatItSaw'
  <2>1. req[r].phase = "revoke" /\ req[r].snap \subseteq Tokens
    BY <1>1 DEF ResetCommit
  <2>2. reached' = reached \cup req[r].snap /\ row' = Revoked(req[r].snap)
    BY <1>1 DEF ResetCommit
  <2>3. \A t \in Tokens : row[t].state # "unused" => row'[t].state # "unused"
    BY NeverRelives
  <2>4. \A t \in reached' : row'[t].state # "unused"
    BY <2>1, <2>2, <2>3 DEF SeenInv
  <2>5. ASSUME NEW s \in Requests, req'[s].phase = "revoke"
        PROVE  \A t \in req'[s].snap : row'[t].state # "unused"
    BY <1>1, <2>3, <2>5 DEF ResetCommit, End, Idle, SeenInv
  <2>6. \A t \in req[r].snap : row'[t].state # "live"
    <3> SUFFICES ASSUME NEW t \in req[r].snap PROVE row'[t].state # "live"
      OBVIOUS
    <3>1. row[t] \in Row
      BY <2>1
    <3>2. \/ row'[t] = row[t] /\ ~Live(t)
          \/ row'[t] = [row[t] EXCEPT !.state = "revoked"]
      BY <2>1, <2>2, RevokedFacts, Zenon
    <3> QED BY <3>1, <3>2 DEF Live, Row
  <2>7. \A t \in reached : row'[t].state # "live"
    BY NeverRelives DEF SeenInv, ResetEndsWhatItSaw, Live
  <2> QED BY <2>2, <2>4, <2>5, <2>6, <2>7 DEF SeenInv, ResetEndsWhatItSaw, Live
<1>2. CASE reached' = reached
  <2>1. ASSUME NEW s \in Requests, req'[s].phase = "revoke"
        PROVE  req'[s] = req[s] \/ req'[s].snap = LiveOf(req[s].user)
    <3> USE <2>1
    <3>1. ASSUME NEW r \in Requests, End(r) PROVE req'[s] = req[s]
      BY <3>1 DEF End, Idle
    <3>2. ASSUME NEW r \in Requests, ResetUpdate(r)
          PROVE  req'[s] = req[s] \/ req'[s].snap = LiveOf(req[s].user)
      BY <3>2 DEF ResetUpdate
    <3>3. ASSUME NEW r \in Requests, Arrive(r) PROVE req'[s] = req[s]
      <4>1. ASSUME NEW u \in Users, RegisterStart(r, u) PROVE req'[s] = req[s]
        BY <4>1 DEF RegisterStart, Begin, Idle
      <4>2. ASSUME NEW u \in Users, LoginStart(r, u) PROVE req'[s] = req[s]
        BY <4>2 DEF LoginStart, Begin, Idle
      <4>6. ASSUME NEW u \in Users, LoginStartAlias(r, u) PROVE req'[s] = req[s]
        BY <4>6 DEF LoginStartAlias, Begin, Idle
      <4>3. ASSUME NEW u \in Users, MailStart(r, u) PROVE req'[s] = req[s]
        BY <4>3 DEF MailStart, Begin, Idle
      <4>4. ASSUME NEW u \in Users, ResetStart(r, u) PROVE req'[s] = req[s]
        BY <4>4 DEF ResetStart, Begin, Idle
      <4>5. ASSUME NEW t \in Tokens, RotateSelect(r, t) PROVE req'[s] = req[s]
        BY <4>5 DEF RotateSelect, Begin, Idle
      <4> QED BY <3>3, <4>1, <4>2, <4>3, <4>4, <4>5, <4>6 DEF Arrive, Start
    <3>4. ASSUME NEW r \in Requests, Step(r) \/ Drop(r) PROVE End(r) \/ ResetUpdate(r)
      BY <3>4 DEF Step, Drop, RegisterCommit, LoginFail, LoginSucceed, RotateCommit, MailSend, ResetCommit
    <3>5. ASSUME \/ UNCHANGED vars \/ Prune \/ (\E t \in Tokens : Logout(t) \/ Expire(t))
                 \/ (\E k \in Sources \X Users : AttemptAges(k))
          PROVE  req'[s] = req[s]
      BY <3>5 DEF vars, Prune, Logout, Expire, AttemptAges
    <3> QED BY <3>1, <3>2, <3>3, <3>4, <3>5 DEF Next
  <2>2. \A s \in Requests : req'[s].phase = "revoke" =>
            \A t \in req'[s].snap : row'[t].state # "unused"
    <3> SUFFICES ASSUME NEW s \in Requests, req'[s].phase = "revoke", NEW t \in req'[s].snap
                 PROVE  row'[t].state # "unused"
      OBVIOUS
    <3>1. CASE req'[s] = req[s]
      BY <3>1, NeverRelives DEF SeenInv
    <3>2. CASE req'[s].snap = LiveOf(req[s].user)
      BY <3>2, NeverRelives DEF LiveOf, Live
    <3> QED BY <2>1, <3>1, <3>2
  <2>3. \A t \in reached : row'[t].state # "unused" /\ row'[t].state # "live"
    BY NeverRelives DEF SeenInv, ResetEndsWhatItSaw, Live
  <2> QED BY <1>2, <2>2, <2>3 DEF SeenInv, ResetEndsWhatItSaw, Live
<1> QED
  BY <1>1, <1>2 DEF Next, Arrive, Start, Step, vars, RegisterStart, RegisterCommit, LoginStart, LoginStartAlias, LoginFail,
     LoginSucceed, RotateSelect, RotateCommit, Logout, MailStart, MailSend, ResetStart, ResetUpdate,
     Drop, Expire, Prune, AttemptAges

-----------------------------------------------------------------------------
(* How far requests served together can pass a limit *)

LEMMA PendingFinite ==
    ASSUME NEW ss, NEW u
    PROVE  /\ IsFiniteSet(Pending(ss, u)) /\ Cardinality(Pending(ss, u)) \in Nat
           /\ Cardinality(Requests) \in Nat /\ Cardinality(Pending(ss, u)) <= Cardinality(Requests)
<1>1. Pending(ss, u) \subseteq Requests
  BY DEF Pending
<1> QED BY <1>1, RequestsAssumption, FS_Subset, FS_CardinalityType

LEMMA LimitTyped == \A s \in Sources : Limit(s) \in Nat \ {0}
BY LimitsAssumption DEF Limit

\* Nobody joins the requests that have counted, and no attempt is recorded.
Calm ==
    /\ \A k \in Sources \X Users : recent'[k] <= recent[k]
    /\ \A r \in Requests : req'[r] = req[r] \/ req'[r].phase \notin Sources

\* A request finds its counter below the limit.
LetIn(s, v, r) ==
    /\ Failures(s, v) < Limit(s)
    /\ recent' = recent
    /\ req'[r].phase = s /\ req'[r].user = v
    /\ \A x \in Requests \ {r} : req'[x] = req[x]

\* A request records its attempt and ends.
Recorded(s, r) ==
    /\ req[r].phase = s /\ req[r].user \in Users
    /\ End(r) /\ Record(s, req[r].user)

LEMMA RecordFacts ==
    ASSUME TypeOK, NEW s \in Sources, NEW v \in Users, Record(s, v)
    PROVE  \A z \in Sources, u \in Users :
            recent'[<<z, u>>] = IF z = s /\ u = v THEN recent[<<z, u>>] + 1 ELSE recent[<<z, u>>]
<1> SUFFICES ASSUME NEW z \in Sources, NEW u \in Users
             PROVE  recent'[<<z, u>>] =
                        IF z = s /\ u = v THEN recent[<<z, u>>] + 1 ELSE recent[<<z, u>>]
  OBVIOUS
<1>1. recent' = [recent EXCEPT ![<<s, v>>] = recent[<<s, v>>] + 1]
  BY DEF Record
<1>2. <<z, u>> \in DOMAIN recent /\ <<s, v>> \in DOMAIN recent
  BY DEF TypeOK
<1>3. <<z, u>> = <<s, v>> <=> z = s /\ u = v
  OBVIOUS
<1> QED BY <1>1, <1>2, <1>3

\* What a step can do to the counters.
LEMMA AttemptStep ==
    ASSUME TypeOK, ReqInv, [Next]_vars
    PROVE  \/ Calm
           \/ \E s \in Sources, v \in Users, r \in Requests : LetIn(s, v, r)
           \/ \E s \in Sources, r \in Requests : Recorded(s, r)
<1>1. ASSUME recent' = recent, NEW r \in Requests, End(r) PROVE Calm
  BY <1>1 DEF Calm, End, Idle, TypeOK, Sources
<1>2. ASSUME recent' = recent, NEW r \in Requests, req'[r].phase \notin Sources,
             \A x \in Requests \ {r} : req'[x] = req[x]
      PROVE  Calm
  BY <1>2 DEF Calm, TypeOK
<1>3. ASSUME recent' = recent, req' = req PROVE Calm
  BY <1>3 DEF Calm, TypeOK
<1>4. ASSUME NEW r \in Requests, NEW v \in Users, RegisterStart(r, v) PROVE Calm
  BY <1>2, <1>4 DEF RegisterStart, Begin, Idle, TypeOK, Sources
<1>5. ASSUME NEW r \in Requests, NEW v \in Users, ResetStart(r, v) PROVE Calm
  BY <1>2, <1>5 DEF ResetStart, Begin, Idle, TypeOK, Sources
<1>6. ASSUME NEW r \in Requests, NEW t \in Tokens, RotateSelect(r, t) PROVE Calm
  BY <1>2, <1>6 DEF RotateSelect, Begin, Idle, TypeOK, Sources
<1>7. ASSUME NEW r \in Requests, ResetUpdate(r) PROVE Calm
  BY <1>2, <1>7 DEF ResetUpdate, TypeOK, Request, Sources
<1>8. ASSUME NEW r \in Requests, NEW v \in Users, LoginStart(r, v) PROVE LetIn("verify", v, r)
  BY <1>8 DEF LetIn, LoginStart, Begin, Idle, TypeOK, Limit
<1>9. ASSUME NEW r \in Requests, NEW v \in Users, LoginStartAlias(r, v) PROVE LetIn("alias", v, r)
  BY <1>9 DEF LetIn, LoginStartAlias, Begin, Idle, TypeOK, Limit
<1>10. ASSUME NEW r \in Requests, NEW v \in Users, MailStart(r, v) PROVE LetIn("mail", v, r)
  BY <1>10 DEF LetIn, MailStart, Begin, Idle, TypeOK, Limit
<1>11. ASSUME NEW r \in Requests, LoginFail(r) \/ MailSend(r)
       PROVE  \E s \in Sources : Recorded(s, r)
  BY <1>11 DEF Recorded, LoginFail, MailSend, ReqInv, Sources
<1>12. ASSUME NEW r \in Requests,
              RegisterCommit(r) \/ LoginSucceed(r) \/ RotateCommit(r) \/ ResetCommit(r) \/ Drop(r)
       PROVE  Calm
  BY <1>1, <1>12 DEF RegisterCommit, LoginSucceed, RotateCommit, ResetCommit, Drop
<1>13. CASE UNCHANGED vars \/ Prune \/ (\E t \in Tokens : Logout(t) \/ Expire(t))
  BY <1>3, <1>13 DEF vars, Prune, Logout, Expire
<1>14. ASSUME NEW k \in Sources \X Users, AttemptAges(k) PROVE Calm
  <2>1. req' = req /\ recent' = [recent EXCEPT ![k] = recent[k] - 1] /\ recent[k] \in Nat
    BY <1>14 DEF AttemptAges, TypeOK
  <2> QED BY <2>1 DEF Calm, TypeOK
<1>15. "verify" \in Sources /\ "alias" \in Sources /\ "mail" \in Sources
  BY DEF Sources
<1>16. ASSUME NEW r \in Requests, NEW v \in Users, Start(r, v)
       PROVE  Calm \/ \E s \in Sources : LetIn(s, v, r)
  BY <1>4, <1>5, <1>8, <1>9, <1>10, <1>15, <1>16 DEF Start
<1>17. ASSUME NEW r \in Requests, Arrive(r) \/ Step(r) \/ Drop(r)
       PROVE  \/ Calm
              \/ \E s \in Sources, v \in Users : LetIn(s, v, r)
              \/ \E s \in Sources : Recorded(s, r)
  BY <1>6, <1>7, <1>11, <1>12, <1>16, <1>17 DEF Arrive, Step
<1> QED BY <1>13, <1>14, <1>17 DEF Next

\* The sum of what is recorded and what is pending, for one source or for those of one key.
LEMMA SumStep ==
    ASSUME TypeOK, TypeOK', NEW ss \in SUBSET Sources, NEW u \in Users,
           NEW old \in Nat, NEW new \in Nat, NEW most \in Nat
    PROVE  /\ new < most => new + Cardinality(Pending(ss, u)') < most + Cardinality(Requests)
           /\ \/ new <= old /\ Pending(ss, u)' \subseteq Pending(ss, u)
              \/ /\ new = old + 1
                 /\ \E r \in Pending(ss, u) : Pending(ss, u)' = Pending(ss, u) \ {r}
              => new + Cardinality(Pending(ss, u)') <= old + Cardinality(Pending(ss, u))
<1>1. IsFiniteSet(Pending(ss, u)) /\ Cardinality(Pending(ss, u)) \in Nat /\ Cardinality(Requests) \in Nat
  BY PendingFinite
<1>2. Cardinality(Pending(ss, u)') \in Nat /\ Cardinality(Pending(ss, u)') <= Cardinality(Requests)
  <2>1. Pending(ss, u)' \subseteq Requests
    BY DEF Pending
  <2> QED BY <2>1, RequestsAssumption, FS_Subset, FS_CardinalityType
<1>3. ASSUME Pending(ss, u)' \subseteq Pending(ss, u)
      PROVE  Cardinality(Pending(ss, u)') <= Cardinality(Pending(ss, u))
  BY <1>1, <1>3, FS_Subset
<1>4. ASSUME NEW r \in Pending(ss, u), Pending(ss, u)' = Pending(ss, u) \ {r}
      PROVE  Cardinality(Pending(ss, u)') = Cardinality(Pending(ss, u)) - 1
  BY <1>1, <1>4, FS_RemoveElement
<1> QED BY <1>1, <1>2, <1>3, <1>4

\* The requests that have counted, before and after.
LEMMA PendingStep ==
    ASSUME TypeOK, NEW ss \in SUBSET Sources, NEW u \in Users
    PROVE  /\ Calm => Pending(ss, u)' \subseteq Pending(ss, u)
           /\ \A s \in Sources, v \in Users, r \in Requests :
                LetIn(s, v, r) /\ (s \notin ss \/ v # u) => Pending(ss, u)' \subseteq Pending(ss, u)
           /\ \A s \in Sources, r \in Requests :
                Recorded(s, r) =>
                    IF s \in ss /\ req[r].user = u
                    THEN r \in Pending(ss, u) /\ Pending(ss, u)' = Pending(ss, u) \ {r}
                    ELSE Pending(ss, u)' \subseteq Pending(ss, u)
<1>1. Calm => Pending(ss, u)' \subseteq Pending(ss, u)
  BY DEF Calm, Pending
<1>2. ASSUME NEW s \in Sources, NEW v \in Users, NEW r \in Requests, LetIn(s, v, r),
             s \notin ss \/ v # u
      PROVE  Pending(ss, u)' \subseteq Pending(ss, u)
  BY <1>2 DEF LetIn, Pending
<1>3. ASSUME NEW s \in Sources, NEW r \in Requests, Recorded(s, r)
      PROVE  IF s \in ss /\ req[r].user = u
             THEN r \in Pending(ss, u) /\ Pending(ss, u)' = Pending(ss, u) \ {r}
             ELSE Pending(ss, u)' \subseteq Pending(ss, u)
  <2>1. req'[r].phase = "idle" /\ \A x \in Requests \ {r} : req'[x] = req[x]
    BY <1>3 DEF Recorded, End, Idle, TypeOK
  <2>2. "idle" \notin ss /\ req[r].phase = s
    BY <1>3 DEF Recorded, Sources
  <2> QED BY <2>1, <2>2 DEF Pending
<1> QED BY <1>1, <1>2, <1>3

LEMMA OvershootStep ==
    ASSUME TypeOK, ReqInv, OvershootBounded, [Next]_vars
    PROVE  OvershootBounded'
<1>1. TypeOK'
  BY TypeStep
<1> DEFINE Key == {"alias", "mail"}
           Sum(u) == recent[<<"alias", u>>] + recent[<<"mail", u>>]
           Size == Cardinality(Requests)
<1>2. \A s \in Sources, u \in Users : recent[<<s, u>>] \in Nat /\ recent'[<<s, u>>] \in Nat
  BY <1>1 DEF TypeOK
<1>3. ASSUME NEW u \in Users PROVE Sum(u) \in Nat /\ Sum(u)' \in Nat
  <2>1. "alias" \in Sources /\ "mail" \in Sources
    BY DEF Sources
  <2>2. /\ recent[<<"alias", u>>] \in Nat /\ recent[<<"mail", u>>] \in Nat
        /\ recent'[<<"alias", u>>] \in Nat /\ recent'[<<"mail", u>>] \in Nat
    BY <1>2, <2>1
  <2> QED BY <2>2
<1>4. Key \subseteq Sources /\ \A s \in Key : \A u : Failures(s, u) = Sum(u) /\ Failures(s, u)' = Sum(u)'
  BY DEF Sources, Failures
<1>5. Size \in Nat /\ \A ss, u : Cardinality(Pending(ss, u)) \in Nat
  BY PendingFinite
<1>6. ASSUME NEW s \in Sources, NEW u \in Users
      PROVE  recent'[<<s, u>>] + Cardinality(Pending({s}, u)') < Limit(s) + Size
  <2>1. recent[<<s, u>>] + Cardinality(Pending({s}, u)) < Limit(s) + Size
    BY DEF OvershootBounded
  <2>2. /\ recent'[<<s, u>>] < Limit(s) =>
            recent'[<<s, u>>] + Cardinality(Pending({s}, u)') < Limit(s) + Size
        /\ \/ recent'[<<s, u>>] <= recent[<<s, u>>] /\ Pending({s}, u)' \subseteq Pending({s}, u)
           \/ /\ recent'[<<s, u>>] = recent[<<s, u>>] + 1
              /\ \E r \in Pending({s}, u) : Pending({s}, u)' = Pending({s}, u) \ {r}
           => recent'[<<s, u>>] + Cardinality(Pending({s}, u)')
                <= recent[<<s, u>>] + Cardinality(Pending({s}, u))
    BY <1>1, <1>2, LimitTyped, SumStep
  <2>3. Cardinality(Pending({s}, u)') \in Nat
    BY PendingFinite, <1>1, RequestsAssumption, FS_Subset, FS_CardinalityType DEF Pending
  <2>4. \/ recent'[<<s, u>>] <= recent[<<s, u>>] /\ Pending({s}, u)' \subseteq Pending({s}, u)
        \/ /\ recent'[<<s, u>>] = recent[<<s, u>>] + 1
           /\ \E r \in Pending({s}, u) : Pending({s}, u)' = Pending({s}, u) \ {r}
        \/ recent'[<<s, u>>] < Limit(s)
    <3>1. CASE Calm
      BY <3>1, PendingStep DEF Calm
    <3>2. ASSUME NEW z \in Sources, NEW v \in Users, NEW r \in Requests, LetIn(z, v, r)
          PROVE  \/ recent'[<<s, u>>] <= recent[<<s, u>>] /\ Pending({s}, u)' \subseteq Pending({s}, u)
                 \/ recent'[<<s, u>>] < Limit(s)
      <4>1. CASE z = s /\ v = u
        <5>1. recent'[<<s, u>>] = recent[<<s, u>>] /\ Failures(s, u) < Limit(s)
          BY <3>2, <4>1 DEF LetIn
        <5>2. recent[<<s, u>>] <= Failures(s, u)
          BY <1>2 DEF Failures, Sources
        <5>3. recent[<<s, u>>] \in Nat /\ Failures(s, u) \in Nat /\ Limit(s) \in Nat
          BY <1>2, LimitTyped DEF Failures, Sources
        <5> QED BY <5>1, <5>2, <5>3
      <4>2. CASE z # s \/ v # u
        <5>1. recent'[<<s, u>>] = recent[<<s, u>>] /\ recent[<<s, u>>] \in Nat
          BY <1>2, <3>2 DEF LetIn
        <5>2. Pending({s}, u)' \subseteq Pending({s}, u)
          BY <3>2, <4>2, PendingStep
        <5> QED BY <5>1, <5>2
      <4> QED BY <4>1, <4>2
    <3>3. ASSUME NEW z \in Sources, NEW r \in Requests, Recorded(z, r)
          PROVE  \/ recent'[<<s, u>>] <= recent[<<s, u>>] /\ Pending({s}, u)' \subseteq Pending({s}, u)
                 \/ /\ recent'[<<s, u>>] = recent[<<s, u>>] + 1
                    /\ \E x \in Pending({s}, u) : Pending({s}, u)' = Pending({s}, u) \ {x}
      <4>0. /\ recent'[<<s, u>>] = IF s = z /\ u = req[r].user
                                    THEN recent[<<s, u>>] + 1 ELSE recent[<<s, u>>]
            /\ recent[<<s, u>>] \in Nat
        BY <1>2, <3>3, RecordFacts DEF Recorded
      <4>1. CASE z = s /\ req[r].user = u
        <5>1. r \in Pending({s}, u) /\ Pending({s}, u)' = Pending({s}, u) \ {r}
          BY <3>3, <4>1, PendingStep
        <5> QED BY <4>0, <4>1, <5>1
      <4>2. CASE z # s \/ req[r].user # u
        <5>1. Pending({s}, u)' \subseteq Pending({s}, u)
          BY <3>3, <4>2, PendingStep
        <5>2. recent'[<<s, u>>] = recent[<<s, u>>] /\ recent[<<s, u>>] \in Nat
          BY <4>0, <4>2
        <5>3. recent'[<<s, u>>] <= recent[<<s, u>>]
          BY <5>2
        <5> QED BY <5>1, <5>3
      <4> QED BY <4>1, <4>2
    <3> QED BY <3>1, <3>2, <3>3, AttemptStep
  <2>5. recent[<<s, u>>] \in Nat /\ recent'[<<s, u>>] \in Nat /\ Limit(s) \in Nat
    BY <1>2, LimitTyped
  <2>6. CASE recent'[<<s, u>>] < Limit(s)
    BY <2>2, <2>6
  <2>7. CASE ~(recent'[<<s, u>>] < Limit(s))
    <3>1. recent'[<<s, u>>] + Cardinality(Pending({s}, u)')
                <= recent[<<s, u>>] + Cardinality(Pending({s}, u))
      BY <2>2, <2>4, <2>7
    <3>2. Cardinality(Pending({s}, u)) \in Nat /\ Size \in Nat
      BY <1>5
    <3> HIDE DEF Size
    <3> QED BY <2>1, <2>3, <2>5, <3>1, <3>2
  <2> QED BY <2>6, <2>7
<1>7. ASSUME NEW u \in Users
      PROVE  \E s \in Key : Sum(u)' + Cardinality(Pending(Key, u)') < Limit(s) + Size
  <2>1. PICK s \in Key : Sum(u) + Cardinality(Pending(Key, u)) < Limit(s) + Size
    BY <1>4 DEF OvershootBounded
  <2>2. \A z \in Sources : Limit(z) \in Nat
    BY LimitTyped
  <2>3. \A z \in Sources :
            Sum(u)' < Limit(z) => Sum(u)' + Cardinality(Pending(Key, u)') < Limit(z) + Size
    BY <1>1, <1>3, <1>4, <2>2, SumStep
  <2>4. \/ Sum(u)' <= Sum(u) /\ Pending(Key, u)' \subseteq Pending(Key, u)
        \/ /\ Sum(u)' = Sum(u) + 1
           /\ \E r \in Pending(Key, u) : Pending(Key, u)' = Pending(Key, u) \ {r}
        => Sum(u)' + Cardinality(Pending(Key, u)') <= Sum(u) + Cardinality(Pending(Key, u))
    BY <1>1, <1>3, <1>4, SumStep
  <2>5. \/ Sum(u)' <= Sum(u) /\ Pending(Key, u)' \subseteq Pending(Key, u)
        \/ /\ Sum(u)' = Sum(u) + 1
           /\ \E r \in Pending(Key, u) : Pending(Key, u)' = Pending(Key, u) \ {r}
        \/ \E z \in Key : Sum(u)' < Limit(z)
    <3>1. CASE Calm
      <4>1. Sum(u)' <= Sum(u)
        BY <1>2, <3>1 DEF Calm, Sources
      <4> QED BY <1>4, <3>1, <4>1, PendingStep
    <3>2. ASSUME NEW z \in Sources, NEW v \in Users, NEW r \in Requests, LetIn(z, v, r)
          PROVE  \/ Sum(u)' <= Sum(u) /\ Pending(Key, u)' \subseteq Pending(Key, u)
                 \/ z \in Key /\ Sum(u)' < Limit(z)
      <4>0. Sum(u)' = Sum(u)
        BY <3>2 DEF LetIn
      <4>1. CASE z \in Key /\ v = u
        BY <1>4, <3>2, <4>0, <4>1 DEF LetIn
      <4>2. CASE z \notin Key \/ v # u
        <5>1. Pending(Key, u)' \subseteq Pending(Key, u)
          BY <1>4, <3>2, <4>2, PendingStep
        <5>2. Sum(u) \in Nat
          BY <1>3
        <5> HIDE DEF Sum
        <5> QED BY <4>0, <5>1, <5>2
      <4> QED BY <4>1, <4>2
    <3>3. ASSUME NEW z \in Sources, NEW r \in Requests, Recorded(z, r)
          PROVE  \/ Sum(u)' <= Sum(u) /\ Pending(Key, u)' \subseteq Pending(Key, u)
                 \/ /\ Sum(u)' = Sum(u) + 1
                    /\ \E x \in Pending(Key, u) : Pending(Key, u)' = Pending(Key, u) \ {x}
      <4>0. /\ \A x \in Sources :
                recent'[<<x, u>>] = IF x = z /\ u = req[r].user
                                    THEN recent[<<x, u>>] + 1 ELSE recent[<<x, u>>]
            /\ "alias" \in Sources /\ "mail" \in Sources
        BY <3>3, RecordFacts DEF Recorded, Sources
      <4>1. CASE z \in Key /\ req[r].user = u
        <5>1. Sum(u)' = Sum(u) + 1
          <6>1. recent[<<"alias", u>>] \in Nat /\ recent[<<"mail", u>>] \in Nat
            BY <1>2, <4>0
          <6> QED BY <4>0, <4>1, <6>1
        <5>2. r \in Pending(Key, u) /\ Pending(Key, u)' = Pending(Key, u) \ {r}
          <6>1. \A x \in Requests :
                    Recorded(z, x) =>
                        IF z \in Key /\ req[x].user = u
                        THEN x \in Pending(Key, u) /\ Pending(Key, u)' = Pending(Key, u) \ {x}
                        ELSE Pending(Key, u)' \subseteq Pending(Key, u)
            BY <1>4, PendingStep
          <6> QED BY <3>3, <4>1, <6>1
        <5> QED BY <5>1, <5>2
      <4>2. CASE z \notin Key \/ req[r].user # u
        <5>1. Sum(u)' = Sum(u)
          BY <4>0, <4>2
        <5>2. Pending(Key, u)' \subseteq Pending(Key, u)
          BY <1>4, <3>3, <4>2, PendingStep
        <5>3. Sum(u) \in Nat
          BY <1>3
        <5> HIDE DEF Sum
        <5> QED BY <5>1, <5>2, <5>3
      <4> QED BY <4>1, <4>2
    <3> QED BY <3>1, <3>2, <3>3, AttemptStep
  <2>6. Cardinality(Pending(Key, u)') \in Nat
    BY PendingFinite, RequestsAssumption, FS_Subset, FS_CardinalityType DEF Pending
  <2> QED BY <1>3, <1>4, <1>5, <2>1, <2>2, <2>3, <2>4, <2>5, <2>6
<1>8. \A u \in Users : \E s \in Key :
            Failures(s, u)' + Cardinality(Pending(Key, u)') < Limit(s) + Size
  BY <1>4, <1>7
<1> QED BY <1>6, <1>8 DEF OvershootBounded, Limit

-----------------------------------------------------------------------------
(* The theorems *)

LEMMA InitIInv ==
    ASSUME Init
    PROVE  IInv
<1>1. TypeOK
  BY IdleTyped, Versions0 DEF TypeOK, Row, Versions, Init, NoSessions, Idle, NoRow
<1>2. ReqInv /\ ChainInv /\ OneLivePerChain /\ RotationInv /\ SeenInv /\ ResetEndsWhatItSaw
  BY DEF ReqInv, ChainInv, OneLivePerChain, RotationInv, SeenInv, ResetEndsWhatItSaw, Live,
         Init, NoSessions, Sources, Idle, NoRow
<1>3. ASSUME NEW ss \in SUBSET Sources, NEW u PROVE Cardinality(Pending(ss, u)) = 0
  <2>1. Pending(ss, u) = {}
    BY DEF Pending, Init, NoSessions, Idle, Sources
  <2> QED BY <2>1, FS_EmptySet
<1>4. OvershootBounded
  <2>1. \A s \in Sources, u \in Users : recent[<<s, u>>] = 0
    BY DEF Init, NoSessions
  <2>2. \A s \in {"alias", "mail"}, u \in Users : Failures(s, u) = 0
    <3>1. "alias" \in Sources /\ "mail" \in Sources
      BY DEF Sources
    <3>2. \A u \in Users : recent[<<"alias", u>>] = 0 /\ recent[<<"mail", u>>] = 0
      BY <2>1, <3>1
    <3>3. ASSUME NEW u \in Users, NEW s \in {"alias", "mail"} PROVE Failures(s, u) = 0
      <4>1. recent[<<"alias", u>>] = 0 /\ recent[<<"mail", u>>] = 0
        BY <3>2
      <4>2. s # "verify"
        OBVIOUS
      <4>3. Failures(s, u) = recent[<<"alias", u>>] + recent[<<"mail", u>>]
        BY <4>2 DEF Failures
      <4> QED BY <4>1, <4>3
    <3> QED BY <3>3
  <2>3. Cardinality(Requests) \in Nat
    BY PendingFinite
  <2>4. ASSUME NEW s \in Sources, NEW ss \in SUBSET Sources, NEW u
        PROVE  0 + Cardinality(Pending(ss, u)) < Limit(s) + Cardinality(Requests)
    BY <1>3, <2>3, LimitTyped
  <2>5. {"alias", "mail"} \subseteq Sources /\ "mail" \in Sources /\ \A s \in Sources : {s} \subseteq Sources
    BY DEF Sources
  <2> QED BY <2>1, <2>2, <2>4, <2>5 DEF OvershootBounded
<1> QED BY <1>1, <1>2, <1>4 DEF IInv

LEMMA IInvStep ==
    ASSUME IInv, [Next]_vars
    PROVE  IInv'
BY TypeStep, ReqStep, ChainStep, OneLiveStep, RotationStep, SeenStep, OvershootStep DEF IInv

LEMMA Invariance == Spec => []IInv
<1>1. Init => IInv
  BY InitIInv
<1>2. IInv /\ [Next]_vars => IInv'
  BY IInvStep
<1> QED BY <1>1, <1>2, PTL DEF Spec

\* The variables keep their types.
THEOREM SessionsTyped == Spec => []TypeOK
<1>1. IInv => TypeOK
  BY DEF IInv
<1> QED BY <1>1, Invariance, PTL

\* However many requests present a refresh token together, a login's chain of rotations has one
\* live session (the row lock of rotate_refresh).
THEOREM OneLive == Spec => []OneLivePerChain
<1>1. IInv => OneLivePerChain
  BY DEF IInv
<1> QED BY <1>1, Invariance, PTL

\* A session that a reset's UPDATE could see never lives again, whatever rotated meanwhile
\* and without any order among resets (the UPDATE of reset_password).
THEOREM ResetEnds == Spec => []ResetEndsWhatItSaw
<1>1. IInv => ResetEndsWhatItSaw
  BY DEF IInv
<1> QED BY <1>1, Invariance, PTL

\* The lockout and the limit on reset mails, which count first and record later, are passed by
\* fewer attempts than there are requests at one time, also where the two share a key.
THEOREM Overshoot == Spec => []OvershootBounded
<1>1. IInv => OvershootBounded
  BY DEF IInv
<1> QED BY <1>1, Invariance, PTL

\* Every session belongs to the account its chain began with and names a password version that
\* account has had.
THEOREM ChainsKeepUser == Spec => []ChainsKeepTheirUser
<1>1. IInv => ChainsKeepTheirUser
  BY DEF IInv, ChainInv, ChainsKeepTheirUser
<1> QED BY <1>1, Invariance, PTL
=============================================================================
