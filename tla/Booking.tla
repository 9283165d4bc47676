------------------------------- MODULE Booking -------------------------------
(***************************************************************************)
(* The booking store of internal/booking/postgres on one PostgreSQL        *)
(* database: seat inventory, reservations, idempotency records and ticket  *)
(* orders, with the offering and admission-policy writes that race with it.*)
(*                                                                         *)
(* A create-hold transaction is a sequence of statements; each statement   *)
(* is one step, and the locks it takes (the idempotency key's unique       *)
(* index entry, the policy scope's shared advisory lock, the user's        *)
(* advisory lock, the train run's share lock, the passengers' and the      *)
(* seats' row locks) are held until commit or rollback.  Locks are not     *)
(* variables: the step a transaction has reached says which ones it holds. *)
(* What a transaction writes becomes visible when it commits.  The other   *)
(* commands lock the one reservation row they work on before they read it, *)
(* so each of them is a single step that waits for the rows it updates.    *)
(***************************************************************************)
EXTENDS Integers, FiniteSets

CONSTANTS
    Clients,            \* concurrent create-hold requests in flight
    Users, Runs, Classes, Seats, Passengers, Keys,
    ResIds,             \* identities that uuid.New() can return
    SegmentCount,       \* segments of a train run's route
    SeatClass,          \* Seats -> Classes: the class of a seat's coach
    PassengerOwner,     \* Passengers -> Users
    Requests,           \* create-hold requests the clients may send
    CommandKeys,        \* idempotency keys sent with confirm and cancel commands
    MaxHoldsPerUser, MaxHoldsPerUserPerRun, MaxPassengersPerUser,
    HoldTTL, IdempotencyTTL,
    MaxTime,            \* bound: the clock stops here
    MaxPolicyVersion    \* bound: number of policy mutations per scope

Request == [user : Users, run : Runs, class : Classes, from : Nat, to : Nat,
            passengers : SUBSET Passengers, key : Keys]

ASSUME SeatAssumption == Seats \subseteq Nat /\ SeatClass \in [Seats -> Classes]
ASSUME PassengerAssumption ==
    IsFiniteSet(Passengers) /\ PassengerOwner \in [Passengers -> Users]
ASSUME RequestAssumption ==
    /\ Requests \subseteq Request
    /\ \A r \in Requests : r.from < r.to /\ r.passengers # {}
ASSUME LimitAssumption ==
    /\ {MaxHoldsPerUser, MaxHoldsPerUserPerRun, MaxPassengersPerUser} \subseteq Nat \ {0}
    /\ MaxHoldsPerUserPerRun <= MaxHoldsPerUser
ASSUME TimeAssumption ==
    /\ {HoldTTL, IdempotencyTTL} \subseteq Nat \ {0}
    /\ {SegmentCount, MaxTime, MaxPolicyVersion} \subseteq Nat
ASSUME IdAssumption == IsFiniteSet(ResIds)

Segments == 0 .. SegmentCount - 1
Scopes == Runs \X Classes
RunStatuses == {"absent", "scheduled", "boarding", "departed", "completed", "cancelled"}
Commands == {"confirm", "cancel"}

VARIABLES
    now,        \* clock_timestamp()
    runStatus,  \* train_runs.status
    policy,     \* hot_train_policies: version (0: no row) and enabled, per scope
    occupied,   \* seat_inventory.occupied_segments
    rsv,        \* reservations with their reservation_seats
    idem,       \* idempotency_records of create requests, per user and key
    cmdIdem,    \* idempotency_records of confirm and cancel commands
    orders,     \* ticket_orders and their tickets, per reservation
    tx          \* the create-hold transaction of each client

vars == <<now, runStatus, policy, occupied, rsv, idem, cmdIdem, orders, tx>>

NoRow == [status |-> "none"]
NoRecord == [resource |-> "none"]
Idle == [pc |-> "idle"]

Reservation == [status : {"held", "confirmed", "expired", "cancelled"},
                user : Users, run : Runs, class : Classes, key : Keys,
                mask : SUBSET Segments, seats : SUBSET Seats,
                passengers : SUBSET Passengers, expires : Nat, created : Nat]

\* The statements of createHoldOnce, in order: pc names the next one to run.
Steps == {"acquire", "policy", "quota", "run", "passengers", "allocate", "insert"}
Transaction == [pc : Steps, req : Requests, observed : Nat,
                expires : Nat, acquired : Nat, seats : SUBSET Seats]

Active(id) == rsv[id].status \in {"held", "confirmed"}

\* Mutant of SegmentMask: the arrival stop's segment is taken too.
SegmentMaskInclusive(r) == r.from .. r.to

\* NewSegmentMask: the segments between two stops of the route.
SegmentMask(r) == r.from .. r.to - 1

\* The policy decision a booking is made under: the enabled version, 0 for none.
CurrentPolicy(scope) == IF policy[scope].enabled THEN policy[scope].version ELSE 0

-----------------------------------------------------------------------------
(* Locks, read off the statements a transaction has run.                   *)

HoldsKey(c) == tx[c].pc \in {"policy", "quota", "run", "passengers", "allocate", "insert"}
HoldsPolicy(c) == tx[c].pc \in {"quota", "run", "passengers", "allocate", "insert"}
HoldsUser(c) == tx[c].pc \in {"run", "passengers", "allocate", "insert"}
HoldsRun(c) == tx[c].pc \in {"passengers", "allocate", "insert"}
HoldsPassengers(c) == tx[c].pc \in {"allocate", "insert"}
HoldsSeats(c) == tx[c].pc = "insert"

\* Mutant of SeatLocked: no FOR UPDATE ... SKIP LOCKED.
SeatNeverLocked(run, s) == FALSE

SeatLocked(run, s) ==
    \E c \in Clients : HoldsSeats(c) /\ tx[c].req.run = run /\ s \in tx[c].seats

-----------------------------------------------------------------------------
Init ==
    /\ now = 0
    /\ runStatus = [run \in Runs |-> "absent"]
    /\ policy = [scope \in Scopes |-> [enabled |-> FALSE, version |-> 0]]
    /\ occupied = [run \in Runs |-> [s \in Seats |-> {}]]
    /\ rsv = [id \in ResIds |-> NoRow]
    /\ idem = [k \in Users \X Keys |-> NoRecord]
    /\ cmdIdem = [k \in Users \X Commands \X CommandKeys |-> NoRecord]
    /\ orders = [id \in ResIds |-> "none"]
    /\ tx = [c \in Clients |-> Idle]

Tick == 
    /\ now < MaxTime
    /\ now' = now + 1
    /\ UNCHANGED <<runStatus, policy, occupied, rsv, idem, cmdIdem, orders, tx>>

-----------------------------------------------------------------------------
(* Offering and admission-policy writes.                                   *)

\* A train run is commissioned with one zero mask per active seat.
CommissionTrainRun(run) ==
    /\ runStatus[run] = "absent"
    /\ runStatus' = [runStatus EXCEPT ![run] = "scheduled"]
    /\ occupied' = [occupied EXCEPT ![run] = [s \in Seats |-> {}]]
    /\ UNCHANGED <<now, policy, rsv, idem, cmdIdem, orders, tx>>

\* ValidateTrainRunTransition.
RunTransition(current, next) ==
    \/ current = "scheduled" /\ next \in {"boarding", "cancelled"}
    \/ current = "boarding" /\ next \in {"departed", "cancelled"}
    \/ current = "departed" /\ next = "completed"

\* Mutant of UpdateTrainRunStatus: the run's row is not locked.
UpdateTrainRunStatusUnlocked(run, next) ==
    /\ RunTransition(runStatus[run], next)
    /\ runStatus' = [runStatus EXCEPT ![run] = next]
    /\ UNCHANGED <<now, policy, occupied, rsv, idem, cmdIdem, orders, tx>>

\* The FOR UPDATE of the run waits for every share lock on it.
UpdateTrainRunStatus(run, next) ==
    /\ \A c \in Clients : HoldsRun(c) => tx[c].req.run # run
    /\ RunTransition(runStatus[run], next)
    /\ runStatus' = [runStatus EXCEPT ![run] = next]
    /\ UNCHANGED <<now, policy, occupied, rsv, idem, cmdIdem, orders, tx>>

\* Mutant of PolicyScopeFree: policy mutations take no lock.
PolicyScopeAlwaysFree(scope) == TRUE

\* The exclusive advisory lock of a policy mutation waits for every booking
\* that has rechecked the scope and not yet ended.
PolicyScopeFree(scope) ==
    \A c \in Clients : HoldsPolicy(c) => <<tx[c].req.run, tx[c].req.class>> # scope

CreatePolicy(scope) ==
    /\ PolicyScopeFree(scope)
    /\ runStatus[scope[1]] # "absent"
    /\ policy[scope].version = 0
    /\ MaxPolicyVersion > 0
    /\ policy' = [policy EXCEPT ![scope] = [enabled |-> TRUE, version |-> 1]]
    /\ UNCHANGED <<now, runStatus, occupied, rsv, idem, cmdIdem, orders, tx>>

\* UpdatePolicy and DisablePolicy: the expected version matched, the version
\* moves on and enabled becomes what the operator asked for.
UpdatePolicy(scope, enabled) ==
    /\ PolicyScopeFree(scope)
    /\ policy[scope].version \in 1 .. MaxPolicyVersion - 1
    /\ policy' = [policy EXCEPT ![scope] =
                    [enabled |-> enabled, version |-> policy[scope].version + 1]]
    /\ UNCHANGED <<now, runStatus, occupied, rsv, idem, cmdIdem, orders, tx>>

-----------------------------------------------------------------------------
(* CreateHold, one statement at a time.                                    *)

\* The application has read the policy and gone through admission; the
\* decision and the hold's deadline travel with the request.
BeginCreateHold(c, r) ==
    /\ tx[c] = Idle
    /\ now + HoldTTL <= MaxTime
    /\ tx' = [tx EXCEPT ![c] = [pc |-> "acquire", req |-> r,
                                observed |-> CurrentPolicy(<<r.run, r.class>>),
                                expires |-> now + HoldTTL, acquired |-> 0, seats |-> {}]]
    /\ UNCHANGED <<now, runStatus, policy, occupied, rsv, idem, cmdIdem, orders>>

\* Rollback: an error return of any statement, a lost connection, a deadlock
\* victim, a crashed process.
Rollback(c) ==
    /\ tx[c] # Idle
    /\ tx' = [tx EXCEPT ![c] = Idle]
    /\ UNCHANGED <<now, runStatus, policy, occupied, rsv, idem, cmdIdem, orders>>

Advance(c, pc) ==
    /\ tx' = [tx EXCEPT ![c].pc = pc]
    /\ UNCHANGED <<now, runStatus, policy, occupied, rsv, idem, cmdIdem, orders>>

KeyOf(r) == <<r.user, r.key>>

Live(record) == record # NoRecord /\ record.expires > now

\* Mutant of AcquireIdempotency: the key is looked up, not claimed.
AcquireIdempotencyUnlocked(c) ==
    LET r == tx[c].req IN
    /\ tx[c].pc = "acquire"
    /\ IF Live(idem[KeyOf(r)])
       THEN tx' = [tx EXCEPT ![c] = Idle]
       ELSE tx' = [tx EXCEPT ![c] = [@ EXCEPT !.pc = "policy", !.acquired = now]]
    /\ UNCHANGED <<now, runStatus, policy, occupied, rsv, idem, cmdIdem, orders>>

\* INSERT ... ON CONFLICT waits for a transaction that holds the same key.  A
\* live record with this fingerprint is a replay and with another a conflict:
\* both end the transaction without a write.
AcquireIdempotency(c) ==
    LET r == tx[c].req IN
    /\ tx[c].pc = "acquire"
    /\ \A d \in Clients \ {c} : HoldsKey(d) => KeyOf(tx[d].req) # KeyOf(r)
    /\ IF Live(idem[KeyOf(r)])
       THEN tx' = [tx EXCEPT ![c] = Idle]
       ELSE tx' = [tx EXCEPT ![c] = [@ EXCEPT !.pc = "policy", !.acquired = now]]
    /\ UNCHANGED <<now, runStatus, policy, occupied, rsv, idem, cmdIdem, orders>>

RecheckAdmissionPolicy(c) ==
    /\ tx[c].pc = "policy"
    /\ tx[c].observed = CurrentPolicy(<<tx[c].req.run, tx[c].req.class>>)
    /\ Advance(c, "quota")

HeldBy(user) == {id \in ResIds : rsv[id].status = "held" /\ rsv[id].user = user}
HeldByOn(user, run) == {id \in HeldBy(user) : rsv[id].run = run}
HeldPassengers(user) ==
    {seat \in HeldBy(user) \X Passengers : seat[2] \in rsv[seat[1]].passengers}

AtOrAboveLimit(current, additional, limit) == additional > limit - current

\* Mutant of EnforceReservationQuota: no advisory lock on the user.
EnforceReservationQuotaUnlocked(c) ==
    LET r == tx[c].req IN
    /\ tx[c].pc = "quota"
    /\ ~ AtOrAboveLimit(Cardinality(HeldBy(r.user)), 1, MaxHoldsPerUser)
    /\ ~ AtOrAboveLimit(Cardinality(HeldByOn(r.user, r.run)), 1, MaxHoldsPerUserPerRun)
    /\ ~ AtOrAboveLimit(Cardinality(HeldPassengers(r.user)), Cardinality(r.passengers),
                        MaxPassengersPerUser)
    /\ Advance(c, "run")

EnforceReservationQuota(c) ==
    LET r == tx[c].req IN
    /\ tx[c].pc = "quota"
    /\ \A d \in Clients \ {c} : HoldsUser(d) => tx[d].req.user # r.user
    /\ ~ AtOrAboveLimit(Cardinality(HeldBy(r.user)), 1, MaxHoldsPerUser)
    /\ ~ AtOrAboveLimit(Cardinality(HeldByOn(r.user, r.run)), 1, MaxHoldsPerUserPerRun)
    /\ ~ AtOrAboveLimit(Cardinality(HeldPassengers(r.user)), Cardinality(r.passengers),
                        MaxPassengersPerUser)
    /\ Advance(c, "run")

\* The share lock on the run, its status, the deadline and the segments.
LockTrainRun(c) ==
    /\ tx[c].pc = "run"
    /\ runStatus[tx[c].req.run] = "scheduled"
    /\ tx[c].expires > now
    /\ tx[c].req.to <= SegmentCount
    /\ Advance(c, "passengers")

\* Mutant of LockPassengers: the run's active bookings are not looked up.
LockPassengersUnchecked(c) ==
    LET r == tx[c].req IN
    /\ tx[c].pc = "passengers"
    /\ \A d \in Clients \ {c} : HoldsPassengers(d) => tx[d].req.passengers \cap r.passengers = {}
    /\ \A p \in r.passengers : PassengerOwner[p] = r.user
    /\ Advance(c, "allocate")

\* The passengers' row locks, their owner, and no active booking on the run.
LockPassengers(c) ==
    LET r == tx[c].req IN
    /\ tx[c].pc = "passengers"
    /\ \A d \in Clients \ {c} : HoldsPassengers(d) => tx[d].req.passengers \cap r.passengers = {}
    /\ \A p \in r.passengers : PassengerOwner[p] = r.user
    /\ \A id \in ResIds :
          Active(id) /\ rsv[id].run = r.run => rsv[id].passengers \cap r.passengers = {}
    /\ Advance(c, "allocate")

Candidates(r) ==
    {s \in Seats : /\ SeatClass[s] = r.class
                   /\ occupied[r.run][s] \cap SegmentMask(r) = {}
                   /\ ~ SeatLocked(r.run, s)}

\* The first seats in coach order that are free and not locked, exactly as
\* many as there are passengers.
AllocateSeats(c) ==
    LET r == tx[c].req IN
    /\ tx[c].pc = "allocate"
    /\ \E chosen \in SUBSET Candidates(r) :
          /\ Cardinality(chosen) = Cardinality(r.passengers)
          /\ \A s \in chosen, t \in Candidates(r) \ chosen : s < t
          /\ tx' = [tx EXCEPT ![c] = [@ EXCEPT !.pc = "insert", !.seats = chosen]]
    /\ UNCHANGED <<now, runStatus, policy, occupied, rsv, idem, cmdIdem, orders>>

\* The remaining inserts and the commit that makes the hold visible.
CommitCreateHold(c) ==
    LET r == tx[c].req IN
    /\ tx[c].pc = "insert"
    /\ \E id \in ResIds :
          /\ rsv[id] = NoRow
          /\ rsv' = [rsv EXCEPT ![id] =
                [status |-> "held", user |-> r.user, run |-> r.run, class |-> r.class,
                 key |-> r.key, mask |-> SegmentMask(r), seats |-> tx[c].seats,
                 passengers |-> r.passengers, expires |-> tx[c].expires,
                 created |-> tx[c].acquired]]
          /\ idem' = [idem EXCEPT ![KeyOf(r)] =
                [fingerprint |-> r, resource |-> id,
                 expires |-> tx[c].acquired + IdempotencyTTL]]
    /\ occupied' = [occupied EXCEPT ![r.run] =
          [s \in Seats |-> IF s \in tx[c].seats THEN @[s] \cup SegmentMask(r) ELSE @[s]]]
    /\ tx' = [tx EXCEPT ![c] = Idle]
    /\ UNCHANGED <<now, runStatus, policy, cmdIdem, orders>>

CreateHoldStep(c) ==
    \/ AcquireIdempotency(c)
    \/ RecheckAdmissionPolicy(c)
    \/ EnforceReservationQuota(c)
    \/ LockTrainRun(c)
    \/ LockPassengers(c)
    \/ AllocateSeats(c)
    \/ CommitCreateHold(c)

-----------------------------------------------------------------------------
(* Commands on one reservation, each under its row lock.                   *)

\* Mutant of ReleaseReservationSeats: the whole seat is freed.
ReleaseWholeSeats(id) ==
    LET row == rsv[id] IN
    /\ \A s \in row.seats : ~ SeatLocked(row.run, s)
    /\ occupied' = [occupied EXCEPT ![row.run] =
          [s \in Seats |-> IF s \in row.seats THEN {} ELSE @[s]]]

\* Mutant of ReleaseReservationSeats: the mask must be all the seat carries.
ReleaseOnlyExactSeats(id) ==
    LET row == rsv[id] IN
    /\ \A s \in row.seats : ~ SeatLocked(row.run, s) /\ row.mask = occupied[row.run][s]
    /\ occupied' = [occupied EXCEPT ![row.run] =
          [s \in Seats |-> IF s \in row.seats THEN {} ELSE @[s]]]

\* releaseReservationSeats: every seat of the reservation still carries the
\* whole mask, no other transaction holds its row, and all are cleared.
ReleaseReservationSeats(id) ==
    LET row == rsv[id] IN
    /\ \A s \in row.seats : ~ SeatLocked(row.run, s)
    /\ row.seats # {}
    /\ \A s \in row.seats : row.mask \subseteq occupied[row.run][s]
    /\ occupied' = [occupied EXCEPT ![row.run] =
          [s \in Seats |-> IF s \in row.seats THEN @[s] \ row.mask ELSE @[s]]]

\* The idempotency record of the command is acquired (absent or expired) and
\* completed in the transaction.  A live record is a replay or a conflict and
\* changes nothing.
CompleteIdempotency(id, command, key) ==
    LET k == <<rsv[id].user, command, key>> IN
    /\ ~ Live(cmdIdem[k])
    /\ cmdIdem' = [cmdIdem EXCEPT ![k] =
          [fingerprint |-> id, resource |-> id, expires |-> now + IdempotencyTTL]]

ConfirmReservation(id, key) ==
    /\ rsv[id] # NoRow
    /\ CompleteIdempotency(id, "confirm", key)
    /\ \/ /\ rsv[id].status = "confirmed"
          /\ UNCHANGED <<rsv, orders>>
       \/ /\ rsv[id].status = "held"
          /\ rsv[id].expires > now
          /\ rsv' = [rsv EXCEPT ![id].status = "confirmed"]
          /\ orders' = [orders EXCEPT ![id] = "confirmed"]
    /\ UNCHANGED <<now, runStatus, policy, occupied, idem, tx>>

\* Mutant of CancelReservation: the ticket order keeps its status.
CancelReservationOnly(id, key) ==
    /\ rsv[id] # NoRow
    /\ CompleteIdempotency(id, "cancel", key)
    /\ \/ /\ rsv[id].status = "cancelled"
          /\ UNCHANGED <<rsv, occupied>>
       \/ /\ Active(id)
          /\ rsv' = [rsv EXCEPT ![id].status = "cancelled"]
          /\ ReleaseReservationSeats(id)
    /\ UNCHANGED <<now, runStatus, policy, idem, orders, tx>>

\* Mutant of CancelReservation: any ended reservation counts as cancelled.
CancelReservationEnded(id, key) ==
    /\ rsv[id].status \in {"cancelled", "expired"}
    /\ CompleteIdempotency(id, "cancel", key)
    /\ UNCHANGED <<now, runStatus, policy, occupied, rsv, orders, idem, tx>>

CancelReservation(id, key) ==
    /\ rsv[id] # NoRow
    /\ CompleteIdempotency(id, "cancel", key)
    /\ \/ /\ rsv[id].status = "cancelled"
          /\ UNCHANGED <<rsv, orders, occupied>>
       \/ /\ Active(id)
          /\ rsv' = [rsv EXCEPT ![id].status = "cancelled"]
          /\ ReleaseReservationSeats(id)
          /\ orders' = IF rsv[id].status = "confirmed"
                       THEN [orders EXCEPT ![id] = "cancelled"] ELSE orders
    /\ UNCHANGED <<now, runStatus, policy, idem, tx>>

\* Mutant of ExpireOneDue: the status is not part of the claim.
ExpireAnyDue(id) ==
    /\ Active(id)
    /\ rsv[id].expires <= now
    /\ rsv' = [rsv EXCEPT ![id].status = "expired"]
    /\ ReleaseReservationSeats(id)
    /\ UNCHANGED <<now, runStatus, policy, idem, cmdIdem, orders, tx>>

\* expireOneDue: one due hold, claimed and ended in its own transaction.
ExpireOneDue(id) ==
    /\ rsv[id].status = "held"
    /\ rsv[id].expires <= now
    /\ rsv' = [rsv EXCEPT ![id].status = "expired"]
    /\ ReleaseReservationSeats(id)
    /\ UNCHANGED <<now, runStatus, policy, idem, cmdIdem, orders, tx>>

\* cleanupExpiredIdempotency, SKIP LOCKED on the records of open transactions.
CleanupExpiredIdempotency ==
    LET Drop(k) == ~ Live(idem[k]) /\ \A c \in Clients : HoldsKey(c) => KeyOf(tx[c].req) # k
    IN
    /\ idem' = [k \in DOMAIN idem |-> IF Drop(k) THEN NoRecord ELSE idem[k]]
    /\ cmdIdem' = [k \in DOMAIN cmdIdem |-> IF Live(cmdIdem[k]) THEN cmdIdem[k] ELSE NoRecord]
    /\ UNCHANGED <<now, runStatus, policy, occupied, rsv, orders, tx>>

-----------------------------------------------------------------------------
Next ==
    \/ Tick
    \/ \E run \in Runs : CommissionTrainRun(run)
    \/ \E run \in Runs, next \in RunStatuses : UpdateTrainRunStatus(run, next)
    \/ \E scope \in Scopes : CreatePolicy(scope)
    \/ \E scope \in Scopes, enabled \in BOOLEAN : UpdatePolicy(scope, enabled)
    \/ \E c \in Clients, r \in Requests : BeginCreateHold(c, r)
    \/ \E c \in Clients : Rollback(c)
    \/ \E c \in Clients : CreateHoldStep(c)
    \/ \E id \in ResIds, key \in CommandKeys : ConfirmReservation(id, key)
    \/ \E id \in ResIds, key \in CommandKeys : CancelReservation(id, key)
    \/ \E id \in ResIds : ExpireOneDue(id)
    \/ CleanupExpiredIdempotency

Spec == Init /\ [][Next]_vars

\* Time passes; a transaction commits or rolls back (statement and request
\* timeouts bound it); the hold expirer polls for due holds for ever, and the
\* row-lock queue serves its update even if new bookings keep locking a seat.
Fairness ==
    /\ WF_vars(Tick)
    /\ \A c \in Clients : WF_vars(CreateHoldStep(c) \/ Rollback(c))
    /\ \A id \in ResIds : SF_vars(ExpireOneDue(id))

FairSpec == Spec /\ Fairness

-----------------------------------------------------------------------------
(* Properties.                                                             *)

\* Every variable keeps its type; in particular a committed idempotency record
\* is always a completed one with the reservation it names.
TypeOK ==
    /\ now \in 0 .. MaxTime
    /\ runStatus \in [Runs -> RunStatuses]
    /\ policy \in [Scopes -> [enabled : BOOLEAN, version : 0 .. MaxPolicyVersion]]
    /\ occupied \in [Runs -> [Seats -> SUBSET Segments]]
    /\ rsv \in [ResIds -> Reservation \cup {NoRow}]
    /\ idem \in [Users \X Keys -> [fingerprint : Requests, resource : ResIds, expires : Nat]
                                   \cup {NoRecord}]
    /\ cmdIdem \in [Users \X Commands \X CommandKeys ->
                       [fingerprint : ResIds, resource : ResIds, expires : Nat] \cup {NoRecord}]
    /\ orders \in [ResIds -> {"none", "confirmed", "cancelled"}]
    /\ tx \in [Clients -> Transaction \cup {Idle}]

\* No seat is sold twice: two active reservations of one run that share a seat
\* travel on disjoint segments (AllocateSeats against every concurrent hold,
\* cancellation and expiry).
SeatExclusive ==
    \A a, b \in ResIds :
        a # b /\ Active(a) /\ Active(b) /\ rsv[a].run = rsv[b].run
           /\ rsv[a].seats \cap rsv[b].seats # {}
        => rsv[a].mask \cap rsv[b].mask = {}

\* seat_inventory is exactly what the active reservations occupy: a release
\* frees what its own hold took and nothing else, and nothing leaks.
InventoryExact ==
    \A run \in Runs, s \in Seats, i \in Segments :
        i \in occupied[run][s] <=>
            \E id \in ResIds : /\ Active(id) /\ rsv[id].run = run
                               /\ s \in rsv[id].seats /\ i \in rsv[id].mask

\* ensurePassengersAvailable: a passenger has at most one active reservation
\* on a run, whatever holds are being created at the same time.
PassengerBookedOnce ==
    \A a, b \in ResIds :
        a # b /\ Active(a) /\ Active(b) /\ rsv[a].run = rsv[b].run
        => rsv[a].passengers \cap rsv[b].passengers = {}

\* enforceReservationQuota: concurrent creates of one user never take it past
\* the limits on holds, holds per run and held passengers.
QuotaRespected ==
    \A u \in Users :
        /\ Cardinality(HeldBy(u)) <= MaxHoldsPerUser
        /\ \A run \in Runs : Cardinality(HeldByOn(u, run)) <= MaxHoldsPerUserPerRun
        /\ Cardinality(HeldPassengers(u)) <= MaxPassengersPerUser

\* AcquireIdempotency: one key of one user creates at most one reservation in
\* any window of IdempotencyTTL, whatever is retried, rolled back or cleaned up.
KeyCreatesOnce ==
    \A a, b \in ResIds :
        a # b /\ rsv[a].status # "none" /\ rsv[b].status # "none"
           /\ rsv[a].user = rsv[b].user /\ rsv[a].key = rsv[b].key
        => \/ rsv[a].created >= rsv[b].created + IdempotencyTTL
           \/ rsv[b].created >= rsv[a].created + IdempotencyTTL

\* A replayed command always finds its result: while a confirm record lives its
\* reservation has a ticket order (loadConfirmationResult), and while a cancel
\* record lives its reservation is cancelled (loadCancellationResult).
CommandReplaysSucceed ==
    \A k \in DOMAIN cmdIdem :
        Live(cmdIdem[k]) =>
            IF k[2] = "confirm" THEN orders[cmdIdem[k].resource] # "none"
                                ELSE rsv[cmdIdem[k].resource].status = "cancelled"

\* Tickets follow the reservation: an order is confirmed exactly while its
\* reservation is, and a cancelled one belongs to a cancelled reservation.
OrdersFollowReservations ==
    \A id \in ResIds :
        /\ orders[id] = "confirmed" <=> rsv[id].status = "confirmed"
        /\ orders[id] = "cancelled" => rsv[id].status = "cancelled"

HoldAppears(id) == rsv[id] = NoRow /\ rsv'[id] # NoRow

\* A hold becomes visible only under the policy it was admitted with and on a
\* run that is still scheduled: recheckAdmissionPolicy and the run's share lock
\* make both checks hold at commit, not only when they were made.
HoldsCommitUnderCheckedState ==
    [][\A id \in ResIds : HoldAppears(id) =>
         \E c \in Clients :
            /\ tx[c].pc = "insert" /\ tx'[c] = Idle
            /\ runStatus[tx[c].req.run] = "scheduled"
            /\ tx[c].observed = CurrentPolicy(<<tx[c].req.run, tx[c].req.class>>)]_vars

\* An ended reservation stays ended, a confirmed one can only be cancelled, and
\* no step changes the seats, segments or passengers of a reservation.
ReservationsOnlyMoveForward ==
    [][\A id \in ResIds : rsv[id] # NoRow =>
         /\ rsv'[id] # NoRow
         /\ rsv'[id] = [rsv[id] EXCEPT !.status = rsv'[id].status]
         /\ \/ rsv'[id].status = rsv[id].status
            \/ rsv[id].status = "held"
            \/ rsv[id].status = "confirmed" /\ rsv'[id].status = "cancelled"]_vars

\* What a transaction has checked stays true while it is open: the policy it
\* rechecked, the quota it has room in, the run it found scheduled, the
\* passengers and the seats it found free.  This is what the locks are for.
PolicyStillCurrent ==
    \A c \in Clients : HoldsPolicy(c) =>
        tx[c].observed = CurrentPolicy(<<tx[c].req.run, tx[c].req.class>>)

QuotaStillHasRoom ==
    \A c \in Clients : HoldsUser(c) =>
        LET r == tx[c].req IN
        /\ Cardinality(HeldBy(r.user)) < MaxHoldsPerUser
        /\ Cardinality(HeldByOn(r.user, r.run)) < MaxHoldsPerUserPerRun
        /\ Cardinality(HeldPassengers(r.user)) + Cardinality(r.passengers)
              <= MaxPassengersPerUser

RunStillScheduled ==
    \A c \in Clients : HoldsRun(c) =>
        runStatus[tx[c].req.run] = "scheduled" /\ tx[c].req.to <= SegmentCount

PassengersStillFree ==
    \A c \in Clients : HoldsPassengers(c) =>
        \A id \in ResIds : Active(id) /\ rsv[id].run = tx[c].req.run
                            => rsv[id].passengers \cap tx[c].req.passengers = {}

SeatsStillFree ==
    \A c \in Clients : HoldsSeats(c) =>
        \A s \in tx[c].seats : occupied[tx[c].req.run][s] \cap SegmentMask(tx[c].req) = {}

KeyStillUnused ==
    \A c \in Clients : HoldsKey(c) =>
        /\ tx[c].acquired <= now
        /\ \A id \in ResIds : rsv[id] # NoRow /\ <<rsv[id].user, rsv[id].key>> = KeyOf(tx[c].req)
                              => rsv[id].created + IdempotencyTTL <= tx[c].acquired

ChecksStayTrue ==
    /\ PolicyStillCurrent /\ QuotaStillHasRoom /\ RunStillScheduled
    /\ PassengersStillFree /\ SeatsStillFree /\ KeyStillUnused

\* Every hold ends: it is confirmed, cancelled, or expired by the expirer.
HoldsEnd == \A id \in ResIds : rsv[id].status = "held" ~> rsv[id].status # "held"
=============================================================================
