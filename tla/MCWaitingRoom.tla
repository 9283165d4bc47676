--------------------------- MODULE MCWaitingRoom ---------------------------
(***************************************************************************)
(* A small instance of WaitingRoom for TLC: one customer goes all the way, *)
(* with two requests and two keys; a second customer and a second worker   *)
(* take part as long as no token has been delivered.                       *)
(***************************************************************************)
EXTENDS WaitingRoom, TLC

CONSTANTS o1, o2, w1, w2

Interchangeable ==
    Permutations(Keys) \cup Permutations(Attempts) \cup Permutations(EntryIds)
      \cup Permutations(TokenIds)

TwoEntries == \A e \in EntryIds : \E v \in PolicyVersions : room[v].entries[e] # NoEntry

\* Only the queue is at work, under the first version.
OnlyQueue ==
    /\ policy.version = 1 /\ losses = 0 /\ held = {}
    /\ \A a \in Attempts : attempt[a] = NoAttempt

SecondCustomer ==
    \/ \E v \in PolicyVersions, e \in EntryIds : room[v].entries[e].o = o2
    \/ \E a \in Attempts : attempt[a].o = o2

\* Bound: the complications come one at a time.
OneComplication ==
    /\ policy.version + losses + (IF TwoEntries THEN 1 ELSE 0) <= 2
    /\ policy.version + losses = 2 => \E a \in Attempts : attempt[a] = NoAttempt
    /\ (worker[w2] # Idle \/ SecondCustomer) => OnlyQueue
=============================================================================
