----------------------------- MODULE AnswerCache -----------------------------
(***************************************************************************)
(* What the two-tier answer cache promises to its callers, with no matrix, *)
(* lock, database or Redis in sight.  A request either computes its own    *)
(* answer or is served one that some earlier request computed for a        *)
(* question the cache accepts as the same; an answer may be forgotten at   *)
(* any time, and once forgotten it is never served again.                  *)
(***************************************************************************)

CONSTANTS Questions,  \* normalized standalone questions
          Topic,      \* Topic[q]: questions of one topic are similar enough to match
          Disc,       \* Disc[q]: the discriminators (numbers, terms) of a question
          Requests,   \* the requests of this behaviour
          Seeds,      \* answers kept from earlier behaviours
          None

VARIABLES asked,      \* asked[a]: the question that answer or request a is about
          available,  \* the answers a request could still be served
          outcome     \* outcome[r]: the answer request r returned, or None

vars == <<asked, available, outcome>>

Answers == Requests \cup Seeds

\* An answer to question p may be returned for question q.
Fits(q, p) == /\ p \in Questions
              /\ Topic[p] = Topic[q]
              /\ Disc[p] = Disc[q]

Init ==
    /\ asked \in [Answers -> Questions \cup {None}]
    /\ \A r \in Requests : asked[r] = None
    /\ available \subseteq Seeds
    /\ outcome = [r \in Requests |-> None]

Ask(r) ==
    /\ asked[r] = None
    /\ \E q \in Questions : asked' = [asked EXCEPT ![r] = q]
    /\ UNCHANGED <<available, outcome>>

\* A miss: r answers its own question, and may leave the answer for others.
Compute(r) ==
    /\ asked[r] # None
    /\ outcome[r] = None
    /\ outcome' = [outcome EXCEPT ![r] = r]
    /\ \/ available' = available
       \/ available' = available \cup {r}
    /\ UNCHANGED asked

\* A hit: an available answer to a fitting question is replayed.
Serve(r) ==
    /\ asked[r] # None
    /\ outcome[r] = None
    /\ \E a \in available : /\ Fits(asked[r], asked[a])
                            /\ outcome' = [outcome EXCEPT ![r] = a]
    /\ available' \subseteq available
    /\ UNCHANGED asked

\* Eviction, expiry, operator deletion, a write that never lands, a restart.
Forget ==
    /\ available' \subseteq available
    /\ UNCHANGED <<asked, outcome>>

Next == \/ \E r \in Requests : Ask(r) \/ Compute(r) \/ Serve(r)
        \/ Forget

Spec == Init /\ [][Next]_vars
=============================================================================
