---------------------------- MODULE WaitingRoom ----------------------------
(***************************************************************************)
(* Admission to a hot train: the policy row in PostgreSQL, the waiting room*)
(* in Redis, the admission workers, and the hold requests that spend an    *)
(* admission token.                                                        *)
(*                                                                         *)
(* Customers join, look and cancel; a worker installs the policy's         *)
(* generation, maintains it, writes locators ahead and issues tokens; a    *)
(* hold request takes a processing lease on its token, books in PostgreSQL *)
(* and consumes or releases the token.  A worker or a request may stop     *)
(* anywhere, a call to Redis may happen and its answer be lost, a deadline *)
(* may pass at any moment, the policy may change under everybody, and Redis*)
(* may lose its data.                                                      *)
(*                                                                         *)
(* A lease may lapse while its request is still in the booking transaction *)
(* (a request can be slow before the transaction's timeout starts), so no  *)
(* property relies on the two being disjoint.                              *)
(***************************************************************************)
EXTENDS AdmissionScripts

CONSTANTS
    Workers,      \* admission worker processes
    MaxVersions,  \* bound: versions of the policy
    MaxLosses,    \* bound: times Redis loses its data
    MaxHeld,      \* bound: tokens that reach their customers
    Batch,        \* the workers' batch
    MaxRate       \* admission_rate_per_second

VARIABLES
    policy,    \* the row of hot_train_policies
    marker,    \* the policy-version key: 0 when absent
    room,      \* the generations' keys, by version
    located,   \* token locators: token to version, 0 when absent
    held,      \* raw tokens in their customers' hands
    worker,    \* what each worker is doing
    attempt,   \* what each hold request is doing
    booked,    \* per customer and key: the durable booking
    losses     \* times Redis lost its data

vars == <<policy, marker, room, located, held, worker, attempt, booked, losses>>

PolicyVersions == 1..MaxVersions

ASSUME WaitingRoomAssumption ==
    /\ MaxQueue \in Nat \ {0} /\ MaxInflight \in Nat \ {0} /\ Batch \in Nat \ {0}
    /\ None \notin Owners \cup Keys \cup Attempts \cup EntryIds \cup TokenIds

Idle == [pc |-> "idle", v |-> 0, cand |-> <<>>]
NoAttempt == [pc |-> "idle", o |-> None, k |-> None, t |-> None, v |-> 0, permanent |-> FALSE]
NotBooked == [done |-> FALSE, t |-> None, policy |-> 0, v |-> 0]

\* The version a customer must be admitted under, 0 when the train is not hot.
RequiredVersion == IF policy.enabled THEN policy.version ELSE 0

\* Every script but the repair first compares the two continuity keys.
Reachable(v) == v # 0 /\ marker = v /\ room[v].continuity

Init ==
    /\ policy \in [version : {1}, enabled : BOOLEAN, initialized : {FALSE}]
    /\ marker = 0
    /\ room = [v \in PolicyVersions |-> EmptyGeneration]
    /\ located = [t \in TokenIds |-> 0]
    /\ held = {}
    /\ worker = [w \in Workers |-> Idle]
    /\ attempt = [a \in Attempts |-> NoAttempt]
    /\ booked = [p \in Owners \X Keys |-> NotBooked]
    /\ losses = 0

(***************************************************************************)
(* The policy row.  Both changes take the scope's advisory lock, open a    *)
(* new version and forget that Redis was initialised.                      *)
(***************************************************************************)
NewVersion(enabled) ==
    /\ policy.version < MaxVersions
    /\ policy' = [version |-> policy.version + 1, enabled |-> enabled, initialized |-> FALSE]
    /\ UNCHANGED <<marker, room, located, held, worker, attempt, booked, losses>>

UpdatePolicy == \E enabled \in BOOLEAN : NewVersion(enabled)

DisablePolicy == policy.enabled /\ NewVersion(FALSE)

(***************************************************************************)
(* Customers.  Their request read the policy earlier: of the versions it   *)
(* may have read, the scripts accept only the one the marker names.        *)
(***************************************************************************)
\* An identifier that nobody uses stands for a new uuid.
FreshEntry(e) ==
    /\ \A v \in PolicyVersions : room[v].entries[e] = NoEntry
    /\ \A w \in Workers : \A i \in DOMAIN worker[w].cand : worker[w].cand[i].e # e

\* An entry is found through its locator, written after the join and again
\* before the issue; a request that finds none changes nothing.
JoinWaitingRoom(o) ==
    /\ Reachable(marker)
    /\ \E e \in EntryIds :
         FreshEntry(e) /\ room' = [room EXCEPT ![marker] = Join(@, o, e)]
    /\ UNCHANGED <<policy, marker, located, held, worker, attempt, booked, losses>>

GetWaitingRoomEntry(e) ==
    /\ Reachable(marker)
    /\ room' = [room EXCEPT ![marker] = Get(@, e)]
    /\ UNCHANGED <<policy, marker, located, held, worker, attempt, booked, losses>>

\* The second half of a status request: the claim.  A customer whose answer is
\* lost holds a token they never present.
DeliverToken(e) ==
    /\ Reachable(marker)
    /\ LET g == room[marker]
       IN  /\ Claimable(g, e) => Cardinality(held) < MaxHeld
           /\ room' = [room EXCEPT ![marker] = ClaimDelivery(g, e)]
           /\ held' = IF Claimable(g, e)
                      THEN held \cup {<<g.entries[e].o, g.entries[e].t>>} ELSE held
    /\ UNCHANGED <<policy, marker, located, worker, attempt, booked, losses>>

\* The status is read before the cancel.
CancelWaitingRoomEntry(e) ==
    /\ Reachable(marker)
    /\ room' = [room EXCEPT ![marker] = IF GetExpires(@, e) THEN Get(@, e) ELSE Cancel(@, e)]
    /\ UNCHANGED <<policy, marker, located, held, worker, attempt, booked, losses>>

(***************************************************************************)
(* The admission worker.                                                   *)
(***************************************************************************)
Go(w, r) == worker' = [worker EXCEPT ![w] = r]

\* When the row says Redis is initialised InstallPolicy only refreshes the keys
\* and checks what Maintain checks again.
NextPolicies(w) ==
    /\ worker[w].pc = "idle"
    /\ policy.enabled
    /\ Go(w, [Idle EXCEPT !.pc = IF policy.initialized THEN "maintain" ELSE "install",
                          !.v = policy.version])
    /\ UNCHANGED <<policy, marker, room, located, held, attempt, booked, losses>>

\* A pass that found the row not yet initialised may create the marker or
\* raise it.
Installable(v) == marker < v \/ (marker = v /\ room[v].continuity)

InstallPolicy(w) ==
    /\ worker[w].pc = "install"
    /\ LET v == worker[w].v
       IN  IF Installable(v)
           THEN /\ marker' = v
                /\ room' = [room EXCEPT ![v].continuity = TRUE]
                /\ Go(w, [worker[w] EXCEPT !.pc = "mark"])
           ELSE /\ UNCHANGED <<marker, room>>
                /\ Go(w, Idle)
    /\ UNCHANGED <<policy, located, held, attempt, booked, losses>>

MarkRedisInitialized(w) ==
    /\ worker[w].pc = "mark"
    /\ IF policy.version = worker[w].v /\ policy.enabled
       THEN /\ policy' = [policy EXCEPT !.initialized = TRUE]
            /\ Go(w, [worker[w] EXCEPT !.pc = "maintain"])
       ELSE policy' = policy /\ Go(w, Idle)
    /\ UNCHANGED <<marker, room, located, held, attempt, booked, losses>>

FreshToken(t) ==
    /\ \A v \in PolicyVersions : room[v].tokens[t] = NoToken
    /\ located[t] = 0 /\ \A o \in Owners : <<o, t>> \notin held
    /\ \A w \in Workers : \A i \in DOMAIN worker[w].cand : worker[w].cand[i].t # t
    /\ \A p \in DOMAIN booked : booked[p].t # t
    /\ \A a \in Attempts : attempt[a].t # t

\* The head of the queue, with a new token for every entry.
Candidates(g) ==
    LET entries == Peek(g, Batch)
        fresh == {t \in TokenIds : FreshToken(t)}
        n == Min({Len(entries), Cardinality(fresh)})
    IN  {[i \in 1..n |-> [e |-> entries[i], t |-> ts[i]]] : ts \in Injection(1..n, fresh)}

PutIssueLocators(candidates, v) ==
    [t \in TokenIds |-> IF t \in {c.t : c \in ToSet(candidates)} THEN v ELSE located[t]]

\* Maintain, PeekQueued and PutIssueLocators follow each other; what comes in
\* between is seen by nobody before the issue call, which maintains again.  The
\* pass may also end after the first of them.
MaintainAndPeek(w) ==
    /\ worker[w].pc = "maintain"
    /\ LET v == worker[w].v
           g == Maintained(room[v])
       IN  \/ /\ ~Reachable(v)
              /\ UNCHANGED <<room, located>> /\ Go(w, Idle)
           \/ /\ Reachable(v)
              /\ room' = [room EXCEPT ![v] = g]
              /\ \/ located' = located /\ Go(w, Idle)
                 \/ \E candidates \in Candidates(g) :
                      /\ candidates # <<>>
                      /\ located' = PutIssueLocators(candidates, v)
                      /\ Go(w, [worker[w] EXCEPT !.pc = "issue", !.cand = candidates])
    /\ UNCHANGED <<policy, marker, held, attempt, booked, losses>>

\* Mutant: an ambiguous failure cleans up all candidates.
AfterIssueTrimsAll(w, admitted, answered) ==
    LET rest == SelectSeq(worker[w].cand, LAMBDA c : c.e \notin admitted \/ ~answered)
    IN  IF rest # <<>> THEN [worker[w] EXCEPT !.pc = "trim", !.cand = rest] ELSE Idle

AfterIssue(w, admitted, answered) ==
    LET rest == SelectSeq(worker[w].cand, LAMBDA c : c.e \notin admitted)
    IN  IF answered /\ rest # <<>> THEN [worker[w] EXCEPT !.pc = "trim", !.cand = rest] ELSE Idle

\* The issue call.  Answered, the worker goes on with the candidates that were
\* not admitted; with its answer lost it ends the pass and keeps the locators.
\* rateRoom is what the sliding window and the age of the candidates leave.
IssueTokens(w) ==
    /\ worker[w].pc = "issue"
    /\ \E rateRoom \in 0..MaxRate, answered \in BOOLEAN :
         LET v == worker[w].v
             r == Issue(room[v], worker[w].cand, rateRoom)
         IN  IF Reachable(v)
             THEN /\ room' = [room EXCEPT ![v] = r.after]
                  /\ Go(w, AfterIssue(w, r.admitted, answered))
             ELSE room' = room /\ Go(w, Idle)
    /\ UNCHANGED <<policy, marker, located, held, attempt, booked, losses>>

DeleteTokenLocators(w) ==
    /\ worker[w].pc = "trim"
    /\ located' = [t \in TokenIds |->
                     IF t \in {c.t : c \in ToSet(worker[w].cand)} THEN 0 ELSE located[t]]
    /\ Go(w, Idle)
    /\ UNCHANGED <<policy, marker, room, held, attempt, booked, losses>>

\* A call fails, the context ends or the process dies: the pass is over.
PassEnds(w) ==
    /\ worker[w].pc # "idle"
    /\ Go(w, Idle)
    /\ UNCHANGED <<policy, marker, room, located, held, attempt, booked, losses>>

(***************************************************************************)
(* Hold requests.                                                          *)
(***************************************************************************)
Serve(a, r) == attempt' = [attempt EXCEPT ![a] = r]

\* repairCommittedAdmission: a request that finds its booking durable repairs
\* the token it presents.  A locator that leads to nothing is removed.
RepairCommittedAdmission(o, k, t) ==
    /\ booked[<<o, k>>].done
    /\ <<o, t>> \in held
    /\ located[t] # 0
    /\ LET g == room[located[t]]
       IN  IF ~g.continuity \/ g.tokens[t].s = "absent"
           THEN room' = room /\ located' = [located EXCEPT ![t] = 0]
           ELSE /\ room' = [room EXCEPT ![located[t]] = FinalizeCommitted(g, t, o, k)]
                /\ located' = located
    /\ UNCHANGED <<policy, marker, held, worker, attempt, booked, losses>>

\* A train that was not hot when the request read the policy is booked without
\* a token.
BeginHold(a, o, k) ==
    /\ attempt[a].pc = "idle"
    /\ RequiredVersion = 0
    /\ Serve(a, [NoAttempt EXCEPT !.pc = "book", !.o = o, !.k = k])
    /\ UNCHANGED <<policy, marker, room, located, held, worker, booked, losses>>

\* A hot train asks for a token.  The request looked for a durable booking and
\* read the policy earlier; of the versions it may have read the script accepts
\* the marker's.  Only the acquired decision goes on to book.
AcquireToken(a, o, k, t) ==
    /\ attempt[a].pc = "idle"
    /\ <<o, t>> \in held
    /\ Reachable(marker)
    /\ \E closing \in BOOLEAN :
         LET reply == Acquire(room[marker], t, o, k, a, closing)
         IN  /\ room' = [room EXCEPT ![marker] = reply.after]
             /\ IF reply.decision = "acquired"
                THEN Serve(a, [NoAttempt EXCEPT !.pc = "book", !.o = o, !.k = k, !.t = t,
                                                !.v = marker])
                ELSE attempt' = attempt
    /\ UNCHANGED <<policy, marker, located, held, worker, booked, losses>>

Failed(a, permanent) ==
    Serve(a, IF attempt[a].v = 0 THEN NoAttempt
             ELSE [attempt[a] EXCEPT !.pc = "release", !.permanent = permanent])


\* recheckAdmissionPolicy, under the advisory lock the policy changes take.
RecheckAdmissionPolicy(v) == v = RequiredVersion

\* The booking transaction.  A key that is already booked is replayed; the
\* policy is checked again; the booking commits, or fails for good (no seat,
\* no quota), or for now (no execution slot, a database error, a commit whose
\* answer is lost).
BookHold(a) ==
    /\ attempt[a].pc = "book"
    /\ LET r == attempt[a]
           p == <<r.o, r.k>>
           Finish == Serve(a, IF r.v = 0 THEN NoAttempt ELSE [r EXCEPT !.pc = "finalize"])
       IN  \/ booked[p].done /\ booked' = booked /\ Finish
           \/ /\ ~booked[p].done /\ RecheckAdmissionPolicy(r.v)
              /\ booked' = [booked EXCEPT ![p] = [done |-> TRUE, t |-> r.t,
                                                   policy |-> RequiredVersion, v |-> r.v]]
              /\ Finish \/ Failed(a, FALSE)
           \/ /\ ~booked[p].done /\ ~RecheckAdmissionPolicy(r.v)
              /\ booked' = booked /\ Failed(a, TRUE)
           \/ /\ booked' = booked
              /\ \E permanent \in BOOLEAN : Failed(a, permanent)
    /\ UNCHANGED <<policy, marker, room, located, held, worker, losses>>

\* The lease is given back or the token consumed; the call is best effort.
ReleaseToken(a) ==
    /\ attempt[a].pc = "release"
    /\ LET r == attempt[a]
       IN  room' = IF Reachable(r.v)
                   THEN [room EXCEPT ![r.v] = Release(@, r.t, r.o, r.k, a, r.permanent)]
                   ELSE room
    /\ Serve(a, NoAttempt)
    /\ UNCHANGED <<policy, marker, located, held, worker, booked, losses>>

FinalizeToken(a) ==
    /\ attempt[a].pc = "finalize"
    /\ LET r == attempt[a]
       IN  room' = IF Reachable(r.v)
                   THEN [room EXCEPT ![r.v] = Finalize(@, r.t, r.o, r.k, a)]
                   ELSE room
    /\ Serve(a, NoAttempt)
    /\ UNCHANGED <<policy, marker, located, held, worker, booked, losses>>

\* The process dies, or its last call to Redis does not arrive.
AttemptEnds(a) ==
    /\ attempt[a].pc # "idle"
    /\ Serve(a, NoAttempt)
    /\ UNCHANGED <<policy, marker, room, located, held, worker, booked, losses>>

(***************************************************************************)
(* Time, for the generation the marker names, and what Redis loses.        *)
(***************************************************************************)
Passes(g) ==
    /\ room' = [room EXCEPT ![marker] = g]
    /\ UNCHANGED <<policy, marker, located, held, worker, attempt, booked, losses>>

\* An admitted entry lasts at least as long as its token; once its owner's
\* mapping is gone its end is not looked at.
EntryLapses(e) ==
    /\ marker # 0
    /\ LET g == room[marker]
       IN  /\ g.entries[e].x = "ahead"
           /\ \/ g.entries[e].s = "queued"
              \/ /\ g.entries[e].s = "admitted" /\ g.users[g.entries[e].o] = e
                 /\ g.tokens[g.entries[e].t].x = "past"
           /\ Passes([g EXCEPT !.entries[e].x = "past"])

\* A lease is only granted when it ends before its token does; until it lapses
\* nobody looks at the token's own end.
TokenLapses(t) ==
    /\ marker # 0
    /\ LET g == room[marker]
           k == g.tokens[t]
       IN  /\ k.x # "past"
           /\ \/ k.s = "issued" \/ LeaseLapsed(g, t)
              \/ k.s = "consumed"
           /\ Passes([g EXCEPT !.tokens[t].x = "past"])

\* The tombstone of a consumed token lasts as long as the token at least; that
\* of a refused one may go at any time, a request is refused with or without.
ScoreLapses(m) ==
    /\ marker # 0
    /\ LET g == room[marker]
       IN  /\ m \in g.leases \ g.due
           /\ (m[1] = "token" /\ g.tokens[m[2]].s = "consumed") => g.tokens[m[2]].x = "past"
           /\ Passes([g EXCEPT !.due = @ \cup {m}])

\* A locator has a time to live of its own, longer than its token's.
LocatorLapses(t) ==
    /\ located[t] # 0
    /\ \A v \in PolicyVersions : room[v].tokens[t].s = "absent"
    /\ \A w \in Workers : \A i \in DOMAIN worker[w].cand : worker[w].cand[i].t # t
    /\ located' = [located EXCEPT ![t] = 0]
    /\ UNCHANGED <<policy, marker, room, held, worker, attempt, booked, losses>>

\* Nothing refreshes the keys of a superseded generation.
GenerationLapses(v) ==
    /\ v < marker
    /\ room[v] # EmptyGeneration
    /\ room' = [room EXCEPT ![v] = EmptyGeneration]
    /\ UNCHANGED <<policy, marker, located, held, worker, attempt, booked, losses>>

\* Redis comes back empty.
RedisLosesData ==
    /\ losses < MaxLosses
    /\ losses' = losses + 1
    /\ marker' = 0
    /\ room' = [v \in PolicyVersions |-> EmptyGeneration]
    /\ located' = [t \in TokenIds |-> 0]
    /\ UNCHANGED <<policy, held, worker, attempt, booked>>

Next ==
    \/ UpdatePolicy \/ DisablePolicy \/ RedisLosesData
    \/ \E o \in Owners : JoinWaitingRoom(o)
    \/ \E e \in EntryIds : \/ GetWaitingRoomEntry(e) \/ DeliverToken(e)
                           \/ CancelWaitingRoomEntry(e) \/ EntryLapses(e)
    \/ \E w \in Workers : \/ NextPolicies(w) \/ InstallPolicy(w) \/ MarkRedisInitialized(w)
                          \/ MaintainAndPeek(w)
                          \/ IssueTokens(w) \/ DeleteTokenLocators(w) \/ PassEnds(w)
    \/ \E o \in Owners, k \in Keys, t \in TokenIds : RepairCommittedAdmission(o, k, t)
    \/ \E a \in Attempts, o \in Owners, k \in Keys : BeginHold(a, o, k)
    \/ \E a \in Attempts, o \in Owners, k \in Keys, t \in TokenIds : AcquireToken(a, o, k, t)
    \/ \E a \in Attempts : \/ BookHold(a) \/ ReleaseToken(a)
                           \/ FinalizeToken(a) \/ AttemptEnds(a)
    \/ \E t \in TokenIds : TokenLapses(t) \/ LocatorLapses(t)
    \/ \E m \in Members : ScoreLapses(m)
    \/ \E v \in PolicyVersions : GenerationLapses(v)

Spec == Init /\ [][Next]_vars

(***************************************************************************)
(* Properties.                                                             *)
(***************************************************************************)
Generation ==
    [continuity : BOOLEAN,
     queue      : Seq(EntryIds),
     entries    : [EntryIds -> [s : {"absent", "queued", "admitted", "cancelled", "expired"},
                                o : Owners \cup {None}, x : {"ahead", "past"},
                                t : TokenIds \cup {None}]],
     users      : [Owners -> EntryIds \cup {None}],
     tokens     : [TokenIds -> [s : {"absent", "issued", "processing", "consumed",
                                     "cancelled", "expired"},
                                e : EntryIds \cup {None}, o : Owners \cup {None},
                                x : {"ahead", "past"}, d : BOOLEAN,
                                ih : Keys \cup {None}, lo : Attempts \cup {None},
                                cr : BOOLEAN]],
     inflight   : SUBSET TokenIds,
     leases     : SUBSET Members,
     due        : SUBSET Members]

\* Every variable has its type, in particular a script leaves a generation.
TypeOK ==
    /\ policy \in [version : PolicyVersions, enabled : BOOLEAN, initialized : BOOLEAN]
    /\ marker \in 0..MaxVersions
    /\ room \in [PolicyVersions -> Generation]
    /\ located \in [TokenIds -> 0..MaxVersions]
    /\ held \subseteq Owners \X TokenIds
    /\ \A w \in Workers : worker[w].v \in 0..MaxVersions
    /\ \A a \in Attempts : attempt[a].v \in 0..MaxVersions
    /\ losses \in 0..MaxLosses

\* An entry that still gives its owner a place: queued, or admitted with a
\* token to use, and not past its time.
Place(g, e) ==
    \/ g.entries[e].s = "queued" /\ g.entries[e].x # "past"
    \/ /\ g.entries[e].s = "admitted"
       /\ g.tokens[g.entries[e].t].s \in InUse
       /\ g.tokens[g.entries[e].t].x # "past"

\* The accounts of a generation agree, as inspectStateScript audits them: the
\* inflight set is exactly the tokens in use, no more than the policy allows,
\* each of them and its entry name each other, and an owner has one place,
\* the one the users hash names, through joins, cancels, expiry, lease
\* recovery and late finalisation in any order.
RoomAccountsAgree ==
    /\ TypeOK
    /\ \A v \in PolicyVersions :
         LET g == room[v]
         IN  /\ g.inflight = {t \in TokenIds : g.tokens[t].s \in InUse}
             /\ Cardinality(g.inflight) <= MaxInflight
             /\ \A t \in g.inflight : /\ g.entries[g.tokens[t].e].t = t
                                      /\ g.entries[g.tokens[t].e].s = "admitted"
                                      /\ g.entries[g.tokens[t].e].o = g.tokens[t].o
             /\ \A e \in EntryIds : Place(g, e) => g.users[g.entries[e].o] = e
             /\ ToSet(g.queue) = {e \in EntryIds : g.entries[e].s = "queued"}
             /\ Len(g.queue) = Cardinality(ToSet(g.queue))

\* A token buys one booking at most, whatever leases lapse, answers get lost
\* and keys change, and a token is consumed only when the booking it is bound
\* to is durable.
TokensBuyOneBooking ==
    /\ \A p, q \in DOMAIN booked :
         (booked[p].done /\ booked[q].done /\ booked[p].t # None /\ booked[p].t = booked[q].t)
           => p = q
    /\ \A v \in PolicyVersions : \A t \in TokenIds :
         room[v].tokens[t].s = "consumed"
           => booked[<<room[v].tokens[t].o, room[v].tokens[t].ih>>].done


\* A token that can be spent can be found: its locator was written before the
\* issue call and stays, though the answer of that call may be lost and the
\* locators of candidates that lost a race are deleted.
SpendableTokensLocated ==
    \A v \in PolicyVersions : \A t \in TokenIds :
      room[v].tokens[t].s \in InUse => located[t] = v

\* A request's lease is its own until it lapses: before that the token leaves
\* the request's hands only by the request's own call, by the repair of its
\* durable booking, or with the generation.
LeasesAreFenced ==
    [][\A v \in PolicyVersions, t \in TokenIds, a \in Attempts :
         (/\ room[v].tokens[t].s = "processing" /\ room[v].tokens[t].lo = a
          /\ TokenMember(t) \notin room[v].due
          /\ room'[v].continuity
          /\ ~(room'[v].tokens[t].s = "processing" /\ room'[v].tokens[t].lo = a))
           => \/ attempt[a].pc \in {"release", "finalize"} /\ attempt'[a].pc = "idle"
              \/ booked[<<room[v].tokens[t].o, room[v].tokens[t].ih>>].done]_vars

=============================================================================
