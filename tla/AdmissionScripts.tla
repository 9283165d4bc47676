-------------------------- MODULE AdmissionScripts --------------------------
(***************************************************************************)
(* The Redis scripts of the waiting room, as operators on one generation   *)
(* (the keys of one policy version).  Redis runs a script to its end before *)
(* anything else, so a script is one operator from the generation it finds *)
(* to the generation it leaves; its early returns give back the generation *)
(* unchanged.                                                              *)
(*                                                                         *)
(* Deadlines are kept as what the scripts can tell of them.  The x of a    *)
(* token or an entry is "ahead" or "past", and due holds the members of the*)
(* Leases set whose score has passed.  When a deadline passes is decided by*)
(* the specification that uses these operators.                            *)
(*                                                                         *)
(* Left out: the admission fingerprint (another one makes join and acquire *)
(* refuse and changes nothing), the page limits of the cleanup loops (every*)
(* member found due is treated), and the rate window, whose remaining room *)
(* is an argument.                                                         *)
(***************************************************************************)
EXTENDS Integers, Sequences, FiniteSets, FiniteSetsExt, SequencesExt

CONSTANTS
    Owners,       \* customers
    Keys,         \* idempotency keys a customer may send
    Attempts,     \* requests being served at the same time (lease owners)
    EntryIds,     \* entry identifiers: a bound on the entries there are at once
    TokenIds,     \* token identifiers: a bound on the tokens there are at once
    MaxQueue,     \* max_queue_size
    MaxInflight,  \* max_inflight_admissions
    None          \* no entry, token, key or lease owner

\* Members of the Leases sorted set: a processing lease or a tombstone of a
\* token, and the tombstone of an entry that never had a token.
TokenMember(t) == <<"token", t>>
EntryMember(e) == <<"entry", e>>
Members == {TokenMember(t) : t \in TokenIds} \cup {EntryMember(e) : e \in EntryIds}

NoEntry == [s |-> "absent", o |-> None, x |-> "ahead", t |-> None]
NoToken == [s |-> "absent", e |-> None, o |-> None, x |-> "ahead", d |-> FALSE,
            ih |-> None, lo |-> None, cr |-> FALSE]

\* The keys of a generation before its first write.
EmptyGeneration ==
    [continuity |-> FALSE,
     queue      |-> <<>>,
     entries    |-> [e \in EntryIds |-> NoEntry],
     users      |-> [o \in Owners |-> None],
     tokens     |-> [t \in TokenIds |-> NoToken],
     inflight   |-> {},
     leases     |-> {},
     due        |-> {}]

InUse == {"issued", "processing"}

(***************************************************************************)
(* Writes the scripts share.                                               *)
(***************************************************************************)
\* ZADD and ZREM on the Leases set.
Schedule(g, m) == [g EXCEPT !.leases = @ \cup {m}, !.due = @ \ {m}]
Unschedule(g, m) == [g EXCEPT !.leases = @ \ {m}, !.due = @ \ {m}]

\* Mutant: the mapping goes whatever entry it points at.
ForgetUserAlways(g, o, e) == IF o # None THEN [g EXCEPT !.users[o] = None] ELSE g

\* The mapping from an owner goes only when it still points at this entry.
ForgetUser(g, o, e) ==
    IF o # None /\ e # None /\ g.users[o] = e
    THEN [g EXCEPT !.users[o] = None] ELSE g

\* The token leaves the capacity, its owner may join again, its entry and the
\* token itself take their last status and the lease fields are dropped.
EndToken(g, t, entryStatus, tokenStatus) ==
    LET k == g.tokens[t]
        h == ForgetUser(g, k.o, k.e)
    IN  [h EXCEPT !.inflight = @ \ {t},
                  !.queue = Remove(@, k.e),
                  !.entries[k.e].s = entryStatus,
                  !.tokens[t].s = tokenStatus,
                  !.tokens[t].lo = None,
                  !.tokens[t].cr = FALSE]

\* terminalize_expired: the tombstone is kept for a while.
TerminalizeExpired(g, t) ==
    Schedule(EndToken(g, t, "expired", "expired"), TokenMember(t))

\* delete_token_state: the token and its entry are gone.
DeleteTokenState(g, t) ==
    LET k == g.tokens[t]
        h == Unschedule(ForgetUser(g, k.o, k.e), TokenMember(t))
    IN  [h EXCEPT !.inflight = @ \ {t}, !.queue = Remove(@, k.e),
                  !.entries[k.e] = NoEntry, !.tokens[t] = NoToken]

\* terminalize_cancelled: the tombstone lasts as long as the token would have.
TerminalizeCancelled(g, t) ==
    LET h == EndToken(g, t, "cancelled", "cancelled")
    IN  IF g.tokens[t].x # "past" THEN Schedule(h, TokenMember(t))
        ELSE DeleteTokenState(h, t)

\* terminalize_entry_expired: an entry that was still queued.
TerminalizeEntryExpired(g, e) ==
    LET h == ForgetUser(g, g.entries[e].o, e)
    IN  Schedule([h EXCEPT !.queue = Remove(@, e), !.entries[e].s = "expired"],
                 EntryMember(e))

DeleteEntry(g, e) ==
    LET h == Unschedule(ForgetUser(g, g.entries[e].o, e), EntryMember(e))
    IN  [h EXCEPT !.queue = Remove(@, e), !.entries[e] = NoEntry]

(***************************************************************************)
(* joinScript.                                                             *)
(***************************************************************************)
LapsedInQueue(g) ==
    {e \in ToSet(g.queue) : g.entries[e].s = "queued" /\ g.entries[e].x = "past"}

ExpireQueueHead(g) ==
    FoldSet(LAMBDA e, h : TerminalizeEntryExpired(h, e), g, LapsedInQueue(g))

LivePlace(g, o) ==
    /\ g.users[o] # None
    /\ g.entries[g.users[o]].s \in {"queued", "admitted"}
    /\ g.entries[g.users[o]].x # "past"

\* Expired heads leave first.  An owner with a live place gets that place; one
\* whose place is over loses the mapping to it, and joins unless the queue is
\* full.
Join(g, o, e) ==
    LET h == ExpireQueueHead(g)
        k == [h EXCEPT !.users[o] = None]
    IN  IF LivePlace(h, o) THEN h
        ELSE IF Len(h.queue) >= MaxQueue THEN k
        ELSE [k EXCEPT !.queue = Append(@, e),
                       !.entries[e] = [NoEntry EXCEPT !.s = "queued", !.o = o],
                       !.users[o] = e]

(***************************************************************************)
(* getScript: without the claim it only notices that time has passed; with *)
(* it the token is marked delivered once.                                  *)
(***************************************************************************)
GetExpires(g, e) ==
    \/ g.entries[e].s = "queued" /\ g.entries[e].x = "past"
    \/ /\ g.entries[e].s = "admitted"
       /\ g.entries[e].t # None
       /\ g.tokens[g.entries[e].t].x = "past"

Get(g, e) ==
    IF ~GetExpires(g, e) THEN g
    ELSE IF g.entries[e].s = "queued" THEN TerminalizeEntryExpired(g, e)
    ELSE TerminalizeExpired(g, g.entries[e].t)

Claimable(g, e) ==
    /\ g.entries[e].s = "admitted"
    /\ g.entries[e].t # None
    /\ ~g.tokens[g.entries[e].t].d
    /\ g.tokens[g.entries[e].t].x # "past"

ClaimDelivery(g, e) ==
    IF Claimable(g, e) THEN [g EXCEPT !.tokens[g.entries[e].t].d = TRUE] ELSE Get(g, e)

(***************************************************************************)
(* cancelScript.  A token being processed is only asked to stop.           *)
(***************************************************************************)
Cancel(g, e) ==
    LET t == g.entries[e].t
    IN  IF g.entries[e].s \in {"absent", "cancelled", "expired"} THEN g
        ELSE IF t = None THEN DeleteEntry(g, e)
        ELSE IF g.tokens[t].s = "processing" THEN [g EXCEPT !.tokens[t].cr = TRUE]
        ELSE IF g.tokens[t].s \in {"consumed", "expired", "cancelled"} THEN g
        ELSE Schedule(EndToken(g, t, "cancelled", "cancelled"), TokenMember(t))

(***************************************************************************)
(* peekScript and issueScript.                                             *)
(***************************************************************************)
Peek(g, limit) ==
    LET live == SelectSeq(g.queue, LAMBDA e : g.entries[e].s = "queued" /\ g.entries[e].x # "past")
    IN  SubSeq(live, 1, Min({limit, Len(live)}))

\* A member of Leases whose time has come: an entry's tombstone goes with the
\* entry, a token's with the token, and a processing lease gives the token
\* back unless it expired or its owner asked to cancel.
CleanLease(g, m) ==
    LET t == m[2]
        h == Unschedule(g, m)
    IN  IF m[1] = "entry" THEN DeleteEntry(h, m[2])
        ELSE IF h.tokens[t].s = "processing"
        THEN IF h.tokens[t].x = "past" THEN TerminalizeExpired(h, t)
             ELSE IF h.tokens[t].cr THEN TerminalizeCancelled(h, t)
             ELSE [h EXCEPT !.tokens[t].s = "issued", !.tokens[t].lo = None]
        ELSE IF h.tokens[t].s \in {"consumed", "cancelled", "expired"}
        THEN DeleteTokenState(h, t)
        ELSE h

CleanLeases(g) == FoldSet(LAMBDA m, h : CleanLease(h, m), g, g.due)

CleanToken(g, t) ==
    IF g.tokens[t].s \in InUse THEN TerminalizeExpired(g, t) ELSE DeleteTokenState(g, t)

CleanTokens(g) ==
    FoldSet(LAMBDA t, h : CleanToken(h, t), g,
            {t \in g.inflight : g.tokens[t].x = "past"})

Maintained(g) == ExpireQueueHead(CleanTokens(CleanLeases(g)))

\* One candidate [e, t] becomes an admitted entry and an issued token.
Admit(g, c) ==
    [g EXCEPT !.tokens[c.t] = [NoToken EXCEPT !.s = "issued", !.e = c.e,
                                              !.o = g.entries[c.e].o],
              !.entries[c.e].s = "admitted",
              !.entries[c.e].t = c.t,
              !.queue = Remove(@, c.e),
              !.inflight = @ \cup {c.t}]

Capacity(g, requested, rateRoom) ==
    Min({requested, rateRoom, MaxInflight - Cardinality(g.inflight)})

\* The candidates that are taken: as long as the queue starts with them.
Taken(g, candidates, rateRoom) ==
    LET n == Min({Capacity(g, Len(candidates), rateRoom), Len(g.queue)})
        Same(i) == \A j \in 1..i : candidates[j].e = g.queue[j]
    IN  {candidates[i] : i \in {j \in 1..n : Same(j) /\ g.tokens[candidates[j].t].s = "absent"}}

\* The generation after an issue call, and what it admitted.
Issue(g, candidates, rateRoom) ==
    LET h == Maintained(g)
        taken == Taken(h, candidates, rateRoom)
    IN  [after |-> FoldSet(LAMBDA c, k : Admit(k, c), h, taken),
         admitted |-> {c.e : c \in taken}]

(***************************************************************************)
(* acquireScript, releaseScript, finalizeScript.                           *)
(***************************************************************************)
\* Mutant: a token is not bound to the first request that used it.
BoundToOwner(k, o, key) == k.o = o

\* The owner's token, and bound to no other booking request.
Bound(k, o, key) == k.o = o /\ (k.ih = None \/ k.ih = key)

LeaseLapsed(g, t) == g.tokens[t].s = "processing" /\ TokenMember(t) \in g.due

\* A lapsed lease is taken back first, unless the owner asked to cancel.
Reclaimed(g, t) ==
    IF LeaseLapsed(g, t) /\ ~g.tokens[t].cr
    THEN Unschedule([g EXCEPT !.tokens[t].s = "issued", !.tokens[t].lo = None], TokenMember(t))
    ELSE g

\* The generation after an acquire call and its decision.  Only this call asks
\* whether a token is closing: less than one processing lease remains of it.
Acquire(g, t, o, key, a, closing) ==
    LET k == g.tokens[t]
        h == Reclaimed(g, t)
        s == h.tokens[t].s
        Reply(after, decision) == [after |-> after, decision |-> decision]
    IN  IF k.s = "absent" THEN Reply(g, "not_found")
        ELSE IF ~Bound(k, o, key) THEN Reply(g, "mismatch")
        ELSE IF LeaseLapsed(g, t) /\ k.cr
        THEN Reply(Schedule(EndToken(g, t, "cancelled", "cancelled"), TokenMember(t)), "terminal")
        ELSE IF s = "processing" THEN Reply(g, "retry_allowed")
        ELSE IF s = "consumed"
        THEN IF k.x = "past" THEN Reply(TerminalizeExpired(g, t), "expired")
             ELSE Reply(g, "replay_allowed")
        ELSE IF s # "issued" THEN Reply(g, "terminal")
        ELSE IF k.x = "past" \/ closing THEN Reply(TerminalizeExpired(h, t), "expired")
        ELSE Reply(Schedule([h EXCEPT !.tokens[t].s = "processing", !.tokens[t].ih = key,
                                      !.tokens[t].lo = a],
                            TokenMember(t)), "acquired")

\* Mutant: any request of the same identity may end the lease.
HoldsSomeLease(g, t, o, key, a) ==
    g.tokens[t].s = "processing" /\ g.tokens[t].o = o /\ g.tokens[t].ih = key

\* lo stands for the lease owner and the lease generation together: every
\* request draws a new lease owner.
HoldsLease(g, t, o, key, a) ==
    /\ g.tokens[t].s = "processing"
    /\ g.tokens[t].o = o
    /\ g.tokens[t].ih = key
    /\ g.tokens[t].lo = a

\* Given back for the same request to try again, or cancelled for good.
Release(g, t, o, key, a, permanent) ==
    IF ~HoldsLease(g, t, o, key, a) THEN g
    ELSE IF permanent \/ g.tokens[t].cr
    THEN Schedule(EndToken(g, t, "cancelled", "cancelled"), TokenMember(t))
    ELSE Unschedule([g EXCEPT !.tokens[t].s = "issued", !.tokens[t].lo = None,
                              !.tokens[t].cr = FALSE], TokenMember(t))

Consume(g, t) ==
    Schedule(EndToken(g, t, "admitted", "consumed"), TokenMember(t))

Finalize(g, t, o, key, a) ==
    IF HoldsLease(g, t, o, key, a) THEN Consume(g, t) ELSE g

\* finalizeCommittedScript: whatever became of the token, once its booking is
\* durable it is consumed.
FinalizeCommitted(g, t, o, key) ==
    IF g.tokens[t].s # "absent" /\ g.tokens[t].o = o /\ g.tokens[t].ih = key
    THEN Consume(g, t) ELSE g

=============================================================================
