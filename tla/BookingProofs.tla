---------------------------- MODULE BookingProofs ----------------------------
(***************************************************************************)
(* The theorems about Booking, for every number of clients, users, runs,   *)
(* seats, passengers and reservations.                                     *)
(*                                                                         *)
(* The inductive invariant IInv is the conjunction of the properties the   *)
(* store promises, what each open transaction relies on (ChecksStayTrue),  *)
(* that the locks exclude each other (LocksExclusive), that a live         *)
(* idempotency record covers every reservation its key made (KeysCovered)  *)
(* and that a run without inventory has no reservation (AbsentRunsEmpty).  *)
(* First what the steps do, then that every step keeps the parts of IInv   *)
(* that concern seats, passengers, locks and keys, then the quotas, whose  *)
(* steps count what a user holds, and the theorems at the end.             *)
(***************************************************************************)
EXTENDS Booking, FiniteSetTheorems, TLAPS

-----------------------------------------------------------------------------
(* What a step does to a record of rsv or tx.                              *)

\* A transaction that has begun carries a well-formed request.
LEMMA OpenTransaction ==
    ASSUME TypeOK, NEW c \in Clients, tx[c].pc # "idle"
    PROVE  tx[c] \in Transaction /\ tx[c].req \in Request
  BY RequestAssumption DEF TypeOK, Idle, Transaction

\* The segments of a journey that ends on the route are segments of the run.
LEMMA MaskType ==
    ASSUME NEW r \in Requests, r.to <= SegmentCount
    PROVE  SegmentMask(r) \in SUBSET Segments
  BY RequestAssumption, TimeAssumption DEF SegmentMask, Segments, Request

\* Moving on to the next statement keeps the type and changes only pc.
LEMMA AdvanceEffect ==
    ASSUME TypeOK, NEW c \in Clients, NEW pc \in Steps, tx[c].pc # "idle", Advance(c, pc)
    PROVE  /\ TypeOK'
           /\ \A d \in Clients \ {c} : tx'[d] = tx[d]
           /\ tx'[c].pc = pc /\ tx'[c].req = tx[c].req /\ tx'[c].seats = tx[c].seats
           /\ tx'[c].observed = tx[c].observed /\ tx'[c].acquired = tx[c].acquired
<1> DEFINE t == [tx[c] EXCEPT !.pc = pc]
<1>1. tx[c] \in Transaction
  BY Zenon, OpenTransaction
<1>2. /\ t \in Transaction /\ t.pc = pc /\ t.req = tx[c].req /\ t.seats = tx[c].seats
      /\ t.observed = tx[c].observed /\ t.acquired = tx[c].acquired
  BY Zenon, <1>1 DEF Transaction
<1>3. tx' = [tx EXCEPT ![c] = t]
  BY Zenon DEF Advance
<1> HIDE DEF t
<1> QED
  BY Zenon, <1>2, <1>3 DEF Advance, TypeOK

\* Taking the idempotency key records when it was taken.
LEMMA AcquireEffect ==
    ASSUME TypeOK, NEW c \in Clients, tx[c].pc = "acquire",
           tx' = [tx EXCEPT ![c] = [@ EXCEPT !.pc = "policy", !.acquired = now]]
    PROVE  /\ tx' \in [Clients -> Transaction \cup {Idle}]
           /\ \A d \in Clients \ {c} : tx'[d] = tx[d]
           /\ tx'[c].pc = "policy" /\ tx'[c].req = tx[c].req /\ tx'[c].acquired = now
<1> DEFINE t == [tx[c] EXCEPT !.pc = "policy", !.acquired = now]
<1>1. tx[c] \in Transaction
  BY Zenon, OpenTransaction
<1>2. t \in Transaction /\ t.pc = "policy" /\ t.req = tx[c].req /\ t.acquired = now
  <2>1. now \in Nat
    BY TimeAssumption DEF TypeOK
  <2> QED
    BY Zenon, <1>1, <2>1 DEF Transaction, Steps
<1>3. tx' = [tx EXCEPT ![c] = t]
  BY Zenon
<1> HIDE DEF t
<1> QED
  BY <1>2, <1>3 DEF TypeOK

\* Allocation records the chosen seats.
LEMMA AllocateEffect ==
    ASSUME TypeOK, NEW c \in Clients, AllocateSeats(c)
    PROVE  /\ TypeOK'
           /\ \A d \in Clients \ {c} : tx'[d] = tx[d]
           /\ tx'[c].pc = "insert" /\ tx'[c].req = tx[c].req
           /\ tx'[c].observed = tx[c].observed /\ tx'[c].acquired = tx[c].acquired
           /\ tx'[c].seats \subseteq Candidates(tx[c].req)
<1>1. PICK chosen \in SUBSET Candidates(tx[c].req) :
        tx' = [tx EXCEPT ![c] = [@ EXCEPT !.pc = "insert", !.seats = chosen]]
  BY Zenon DEF AllocateSeats
<1> DEFINE t == [tx[c] EXCEPT !.pc = "insert", !.seats = chosen]
<1>2. tx[c] \in Transaction
  BY Zenon, OpenTransaction DEF AllocateSeats
<1>3. /\ t \in Transaction /\ t.pc = "insert" /\ t.req = tx[c].req /\ t.seats = chosen
      /\ t.observed = tx[c].observed /\ t.acquired = tx[c].acquired
  BY Zenon, <1>2 DEF Transaction, Steps, Candidates
<1>4. tx' = [tx EXCEPT ![c] = t]
  BY Zenon, <1>1
<1> HIDE DEF t
<1> QED
  BY Zenon, <1>3, <1>4 DEF AllocateSeats, TypeOK

\* A status change keeps the type and changes nothing else of any row.
LEMMA StatusEffect ==
    ASSUME TypeOK, NEW id \in ResIds, rsv[id].status # "none",
           NEW st \in {"held", "confirmed", "expired", "cancelled"},
           rsv' = [rsv EXCEPT ![id].status = st]
    PROVE  /\ rsv' \in [ResIds -> Reservation \cup {NoRow}]
           /\ rsv[id] \in Reservation /\ rsv'[id] \in Reservation
           /\ \A j \in ResIds \ {id} : rsv'[j] = rsv[j]
           /\ rsv'[id].status = st
           /\ rsv'[id].user = rsv[id].user /\ rsv'[id].run = rsv[id].run
           /\ rsv'[id].key = rsv[id].key /\ rsv'[id].created = rsv[id].created
           /\ rsv'[id].seats = rsv[id].seats /\ rsv'[id].mask = rsv[id].mask
           /\ rsv'[id].passengers = rsv[id].passengers
<1> DEFINE t == [rsv[id] EXCEPT !.status = st]
<1>1. rsv[id] \in Reservation
  BY DEF TypeOK, NoRow
<1>2. /\ t \in Reservation /\ t.status = st /\ t.user = rsv[id].user /\ t.run = rsv[id].run
      /\ t.key = rsv[id].key /\ t.created = rsv[id].created /\ t.seats = rsv[id].seats
      /\ t.mask = rsv[id].mask /\ t.passengers = rsv[id].passengers
  BY Zenon, <1>1 DEF Reservation
<1>3. rsv' = [rsv EXCEPT ![id] = t]
  BY Zenon
<1> HIDE DEF t
<1> QED
  BY ZenonT(60), <1>1, <1>2, <1>3 DEF TypeOK

\* Releasing a reservation's seats keeps the inventory's type.
LEMMA ReleaseType ==
    ASSUME TypeOK, NEW id \in ResIds, rsv[id] \in Reservation, ReleaseReservationSeats(id)
    PROVE  occupied' \in [Runs -> [Seats -> SUBSET Segments]]
<1>1. rsv[id].run \in Runs
  BY Zenon DEF Reservation
<1> QED
  BY <1>1 DEF ReleaseReservationSeats, TypeOK

-----------------------------------------------------------------------------
(* Types.                                                                  *)

\* Every step keeps the types; a committed hold needs that its run was checked.
LEMMA TypeStep == TypeOK /\ RunStillScheduled /\ [Next]_vars => TypeOK'
<1> SUFFICES ASSUME TypeOK, RunStillScheduled, [Next]_vars PROVE TypeOK'
  BY Zenon
<1> USE TimeAssumption, RequestAssumption
<1>1. CASE Tick
  BY <1>1 DEF Tick, TypeOK
<1>2. ASSUME NEW run \in Runs, CommissionTrainRun(run) PROVE TypeOK'
  BY Zenon, <1>2 DEF CommissionTrainRun, TypeOK, RunStatuses
<1>3. ASSUME NEW run \in Runs, NEW next \in RunStatuses, UpdateTrainRunStatus(run, next)
      PROVE TypeOK'
  BY Zenon, <1>3 DEF UpdateTrainRunStatus, TypeOK
<1>4. ASSUME NEW scope \in Scopes, CreatePolicy(scope) PROVE TypeOK'
  BY <1>4 DEF CreatePolicy, TypeOK
<1>5. ASSUME NEW scope \in Scopes, NEW enabled \in BOOLEAN, UpdatePolicy(scope, enabled)
      PROVE TypeOK'
  BY <1>5 DEF UpdatePolicy, TypeOK
<1>6. ASSUME NEW c \in Clients, NEW r \in Requests, BeginCreateHold(c, r) PROVE TypeOK'
  BY <1>6 DEF BeginCreateHold, TypeOK, Transaction, Steps, CurrentPolicy, Request, Scopes
<1>7. ASSUME NEW c \in Clients, Rollback(c) PROVE TypeOK'
  BY Zenon, <1>7 DEF Rollback, TypeOK
<1>8. ASSUME NEW c \in Clients, CreateHoldStep(c) PROVE TypeOK'
  <2>1. CASE AcquireIdempotency(c)
    <3>1. CASE tx' = [tx EXCEPT ![c] = Idle]
      BY Zenon, <2>1, <3>1 DEF AcquireIdempotency, TypeOK
    <3>2. CASE tx' = [tx EXCEPT ![c] = [@ EXCEPT !.pc = "policy", !.acquired = now]]
      BY Zenon, <2>1, <3>2, AcquireEffect DEF AcquireIdempotency, TypeOK
    <3> QED
      BY Zenon, <2>1, <3>1, <3>2 DEF AcquireIdempotency
  <2>2. CASE RecheckAdmissionPolicy(c)
    BY Zenon, <2>2, AdvanceEffect DEF RecheckAdmissionPolicy, Steps
  <2>3. CASE EnforceReservationQuota(c)
    BY Zenon, <2>3, AdvanceEffect DEF EnforceReservationQuota, Steps
  <2>4. CASE LockTrainRun(c)
    BY Zenon, <2>4, AdvanceEffect DEF LockTrainRun, Steps
  <2>5. CASE LockPassengers(c)
    BY Zenon, <2>5, AdvanceEffect DEF LockPassengers, Steps
  <2>6. CASE AllocateSeats(c)
    BY Zenon, <2>6, AllocateEffect
  <2>7. CASE CommitCreateHold(c)
    <3> DEFINE r == tx[c].req
    <3>1. r \in Requests /\ tx[c] \in Transaction /\ SegmentMask(r) \in SUBSET Segments
      BY Zenon, <2>7, OpenTransaction, MaskType
      DEF CommitCreateHold, RunStillScheduled, HoldsRun, Transaction
    <3>2. PICK id \in ResIds :
            /\ rsv' = [rsv EXCEPT ![id] =
                  [status |-> "held", user |-> r.user, run |-> r.run, class |-> r.class,
                   key |-> r.key, mask |-> SegmentMask(r), seats |-> tx[c].seats,
                   passengers |-> r.passengers, expires |-> tx[c].expires,
                   created |-> tx[c].acquired]]
            /\ idem' = [idem EXCEPT ![KeyOf(r)] =
                  [fingerprint |-> r, resource |-> id,
                   expires |-> tx[c].acquired + IdempotencyTTL]]
      BY Zenon, <2>7 DEF CommitCreateHold
    <3>3. rsv' \in [ResIds -> Reservation \cup {NoRow}]
      BY SMTT(30), <3>1, <3>2 DEF TypeOK, Reservation, Transaction, Request
    <3>4. idem' \in [Users \X Keys -> [fingerprint : Requests, resource : ResIds, expires : Nat]
                                      \cup {NoRecord}]
      BY SMTT(30), <3>1, <3>2 DEF TypeOK, Transaction, Request, KeyOf
    <3>5. occupied' \in [Runs -> [Seats -> SUBSET Segments]]
      BY SMTT(60), <2>7, <3>1 DEF CommitCreateHold, TypeOK, Request
    <3> QED
      BY Zenon, <2>7, <3>3, <3>4, <3>5 DEF CommitCreateHold, TypeOK
  <2> QED
    BY Zenon, <1>8, <2>1, <2>2, <2>3, <2>4, <2>5, <2>6, <2>7 DEF CreateHoldStep
<1>9. ASSUME NEW id \in ResIds, NEW key \in CommandKeys, ConfirmReservation(id, key)
      PROVE TypeOK'
  <2>1. rsv[id] \in Reservation
    BY Zenon, <1>9 DEF ConfirmReservation, TypeOK
  <2>2. cmdIdem' \in [Users \X Commands \X CommandKeys ->
                        [fingerprint : ResIds, resource : ResIds, expires : Nat] \cup {NoRecord}]
    BY <1>9, <2>1 DEF ConfirmReservation, CompleteIdempotency, TypeOK, Reservation, Commands
  <2>3. rsv' \in [ResIds -> Reservation \cup {NoRow}]
    BY Zenon, <1>9, <2>1, StatusEffect DEF ConfirmReservation, TypeOK, Reservation
  <2> QED
    BY Zenon, <1>9, <2>2, <2>3 DEF ConfirmReservation, TypeOK
<1>10. ASSUME NEW id \in ResIds, NEW key \in CommandKeys, CancelReservation(id, key)
       PROVE TypeOK'
  <2>1. rsv[id] \in Reservation
    BY Zenon, <1>10 DEF CancelReservation, TypeOK
  <2>2. cmdIdem' \in [Users \X Commands \X CommandKeys ->
                        [fingerprint : ResIds, resource : ResIds, expires : Nat] \cup {NoRecord}]
    BY <1>10, <2>1 DEF CancelReservation, CompleteIdempotency, TypeOK, Reservation, Commands
  <2>3. rsv' \in [ResIds -> Reservation \cup {NoRow}]
    BY Zenon, <1>10, <2>1, StatusEffect DEF CancelReservation, TypeOK, Reservation
  <2>4. occupied' \in [Runs -> [Seats -> SUBSET Segments]]
    BY Zenon, <1>10, <2>1, ReleaseType DEF CancelReservation, TypeOK
  <2> QED
    BY Zenon, <1>10, <2>2, <2>3, <2>4 DEF CancelReservation, TypeOK
<1>11. ASSUME NEW id \in ResIds, ExpireOneDue(id) PROVE TypeOK'
  <2>1. rsv[id] \in Reservation /\ rsv' \in [ResIds -> Reservation \cup {NoRow}]
    BY Zenon, <1>11, StatusEffect DEF ExpireOneDue
  <2>2. occupied' \in [Runs -> [Seats -> SUBSET Segments]]
    BY Zenon, <1>11, <2>1, ReleaseType DEF ExpireOneDue
  <2> QED
    BY Zenon, <1>11, <2>1, <2>2 DEF ExpireOneDue, TypeOK
<1>12. CASE CleanupExpiredIdempotency
  BY Zenon, <1>12 DEF CleanupExpiredIdempotency, TypeOK
<1>13. CASE UNCHANGED vars
  BY Zenon, <1>13 DEF vars, TypeOK
<1> QED
  BY Zenon, <1>1, <1>2, <1>3, <1>4, <1>5, <1>6, <1>7, <1>8, <1>9, <1>10, <1>11, <1>12, <1>13 DEF Next

-----------------------------------------------------------------------------
(* The inductive invariant.                                                *)

KeyLocksExclusive ==
    \A c, d \in Clients : c # d /\ HoldsKey(c) /\ HoldsKey(d)
        => KeyOf(tx[c].req) # KeyOf(tx[d].req)

UserLocksExclusive ==
    \A c, d \in Clients : c # d /\ HoldsUser(c) /\ HoldsUser(d)
        => tx[c].req.user # tx[d].req.user

PassengerLocksExclusive ==
    \A c, d \in Clients : c # d /\ HoldsPassengers(c) /\ HoldsPassengers(d)
        => tx[c].req.passengers \cap tx[d].req.passengers = {}

SeatLocksExclusive ==
    \A c, d \in Clients : c # d /\ HoldsSeats(c) /\ HoldsSeats(d) /\ tx[c].req.run = tx[d].req.run
        => tx[c].seats \cap tx[d].seats = {}

LocksExclusive ==
    KeyLocksExclusive /\ UserLocksExclusive /\ PassengerLocksExclusive /\ SeatLocksExclusive

KeysCovered ==
    \A id \in ResIds : rsv[id] # NoRow =>
        LET k == <<rsv[id].user, rsv[id].key>> IN
        \/ rsv[id].created + IdempotencyTTL <= now
        \/ idem[k] # NoRecord /\ rsv[id].created + IdempotencyTTL <= idem[k].expires

AbsentRunsEmpty == \A id \in ResIds : rsv[id] # NoRow => runStatus[rsv[id].run] # "absent"

IInv ==
    /\ TypeOK /\ SeatExclusive /\ InventoryExact /\ PassengerBookedOnce
    /\ QuotaRespected /\ KeyCreatesOnce
    /\ ChecksStayTrue /\ LocksExclusive /\ KeysCovered /\ AbsentRunsEmpty

-----------------------------------------------------------------------------
(* The shapes a step can have.                                             *)

\* The clock, the offering, the policies, the idempotency cleanup or a command
\* that only records its key: nothing an open transaction has checked changes.
Background ==
    /\ UNCHANGED <<occupied, rsv, tx>>
    /\ now <= now'
    /\ \A run \in Runs : runStatus[run] # "absent" => runStatus'[run] # "absent"
    /\ \A c \in Clients : HoldsRun(c) => runStatus'[tx[c].req.run] = runStatus[tx[c].req.run]
    /\ \A c \in Clients : HoldsPolicy(c) =>
          policy'[<<tx[c].req.run, tx[c].req.class>>] = policy[<<tx[c].req.run, tx[c].req.class>>]
    /\ \A k \in Users \X Keys : idem'[k] # idem[k] => idem[k].expires <= now

\* A transaction begins or ends without a write: it holds no lock afterwards.
Unlocked(c) ==
    /\ tx' \in [Clients -> Transaction \cup {Idle}]
    /\ \A d \in Clients \ {c} : tx'[d] = tx[d]
    /\ tx'[c].pc \in {"idle", "acquire"}
    /\ UNCHANGED <<now, runStatus, policy, occupied, rsv, idem>>

KeyTaken(c) ==
    /\ AcquireIdempotency(c)
    /\ ~ Live(idem[KeyOf(tx[c].req)])

\* A reservation changes status and, when it ends, gives its seats back.
StatusMove(id, st) ==
    /\ Active(id)
    /\ rsv' = [rsv EXCEPT ![id].status = st]
    /\ \/ st = "confirmed" /\ UNCHANGED occupied
       \/ st \in {"cancelled", "expired"} /\ ReleaseReservationSeats(id)
    /\ UNCHANGED <<now, runStatus, policy, idem, tx>>

Working(c) ==
    \/ KeyTaken(c) \/ RecheckAdmissionPolicy(c) \/ EnforceReservationQuota(c)
    \/ LockTrainRun(c) \/ LockPassengers(c) \/ AllocateSeats(c)

\* Every step has one of these shapes.
LEMMA StepShapes ==
    ASSUME TypeOK, [Next]_vars
    PROVE  \/ Background
           \/ \E run \in Runs : CommissionTrainRun(run)
           \/ \E c \in Clients : Unlocked(c)
           \/ \E c \in Clients : Working(c)
           \/ \E c \in Clients : CommitCreateHold(c)
           \/ \E id \in ResIds, st \in {"confirmed", "cancelled", "expired"} : StatusMove(id, st)
<1> DEFINE Goal == \/ Background
                   \/ \E run \in Runs : CommissionTrainRun(run)
                   \/ \E c \in Clients : Unlocked(c)
                   \/ \E c \in Clients : Working(c)
                   \/ \E c \in Clients : CommitCreateHold(c)
                   \/ \E id \in ResIds, st \in {"confirmed", "cancelled", "expired"} :
                         StatusMove(id, st)
<1>0. now \in Nat
  BY TimeAssumption DEF TypeOK
<1>1. CASE Tick \/ UNCHANGED vars
  BY <1>0, <1>1 DEF Tick, vars, Background
<1>12. CASE CleanupExpiredIdempotency
  <2>1. ASSUME NEW k \in Users \X Keys, idem'[k] # idem[k] PROVE idem[k].expires <= now
    <3>1. idem[k] # NoRecord /\ ~ Live(idem[k])
      BY Zenon, <1>12, <2>1 DEF CleanupExpiredIdempotency, TypeOK
    <3>2. idem[k].expires \in Nat
      BY Zenon, <3>1 DEF TypeOK
    <3> QED
      BY <1>0, <3>1, <3>2 DEF Live
  <2> QED
    BY <1>0, <1>12, <2>1 DEF CleanupExpiredIdempotency, Background
<1>2. ASSUME NEW run \in Runs, NEW next \in RunStatuses, UpdateTrainRunStatus(run, next)
      PROVE Goal
  <2>1. \A q \in Runs : runStatus'[q] = IF q = run THEN next ELSE runStatus[q]
    BY Zenon, <1>2 DEF UpdateTrainRunStatus, TypeOK
  <2>2. next # "absent" /\ \A c \in Clients : HoldsRun(c) => tx[c].req.run \in Runs \ {run}
    <3>1. \A c \in Clients : HoldsRun(c) => tx[c].req.run \in Runs
      BY Zenon, OpenTransaction DEF HoldsRun, Request
    <3> QED
      BY Zenon, <1>2, <3>1 DEF UpdateTrainRunStatus, RunTransition
  <2> QED
    BY <1>0, <1>2, <2>1, <2>2 DEF UpdateTrainRunStatus, Background
<1>13. ASSUME NEW scope \in Scopes, PolicyScopeFree(scope),
              \A other \in Scopes \ {scope} : policy'[other] = policy[other],
              UNCHANGED <<now, runStatus, occupied, rsv, idem, tx>>
       PROVE  Goal
  <2>1. ASSUME NEW c \in Clients, HoldsPolicy(c)
        PROVE  <<tx[c].req.run, tx[c].req.class>> \in Scopes \ {scope}
    BY Zenon, <1>13, <2>1, OpenTransaction DEF HoldsPolicy, Request, Scopes, PolicyScopeFree
  <2> QED
    BY <1>0, <1>13, <2>1 DEF Background
<1>3. ASSUME NEW scope \in Scopes, CreatePolicy(scope) PROVE Goal
  BY Zenon, <1>3, <1>13 DEF CreatePolicy, TypeOK
<1>4. ASSUME NEW scope \in Scopes, NEW enabled \in BOOLEAN, UpdatePolicy(scope, enabled)
      PROVE Goal
  BY Zenon, <1>4, <1>13 DEF UpdatePolicy, TypeOK
<1>5. ASSUME NEW c \in Clients, NEW r \in Requests, BeginCreateHold(c, r) PROVE Goal
  <2> DEFINE t == [pc |-> "acquire", req |-> r,
                   observed |-> CurrentPolicy(<<r.run, r.class>>),
                   expires |-> now + HoldTTL, acquired |-> 0, seats |-> {}]
  <2>1. CurrentPolicy(<<r.run, r.class>>) \in Nat /\ now + HoldTTL \in Nat
    <3>1. now \in Nat /\ HoldTTL \in Nat
      BY TimeAssumption DEF TypeOK
    <3>2. <<r.run, r.class>> \in Scopes
      BY Zenon, RequestAssumption DEF Request, Scopes
    <3>3. policy[<<r.run, r.class>>] \in [enabled : BOOLEAN, version : 0 .. MaxPolicyVersion]
      BY Zenon, <3>2 DEF TypeOK
    <3> QED
      BY <3>1, <3>3, TimeAssumption DEF CurrentPolicy
  <2>2. t \in Transaction
    BY Zenon, <2>1 DEF Transaction, Steps
  <2>3. tx' = [tx EXCEPT ![c] = t] /\ t.pc = "acquire"
    BY Zenon, <1>5 DEF BeginCreateHold
  <2> HIDE DEF t
  <2>4. /\ tx' \in [Clients -> Transaction \cup {Idle}]
        /\ \A d \in Clients \ {c} : tx'[d] = tx[d]
        /\ tx'[c] = t
    BY Zenon, <2>2, <2>3 DEF TypeOK
  <2>5. Unlocked(c)
    BY Zenon, <1>5, <2>3, <2>4 DEF BeginCreateHold, Unlocked
  <2> QED
    BY Zenon, <2>5
<1>6. ASSUME NEW c \in Clients, tx' = [tx EXCEPT ![c] = Idle],
             UNCHANGED <<now, runStatus, policy, occupied, rsv, idem>>
      PROVE Goal
  BY Zenon, <1>6 DEF Unlocked, TypeOK, Idle
<1>7. ASSUME NEW c \in Clients, Rollback(c) PROVE Goal
  BY Zenon, <1>6, <1>7 DEF Rollback
<1>8. ASSUME NEW c \in Clients, CreateHoldStep(c) PROVE Goal
  BY Zenon, <1>6, <1>8 DEF CreateHoldStep, Working, KeyTaken, AcquireIdempotency
<1>9. ASSUME NEW id \in ResIds, NEW key \in CommandKeys, ConfirmReservation(id, key) PROVE Goal
  BY <1>0, <1>9 DEF ConfirmReservation, Background, StatusMove, Active
<1>10. ASSUME NEW id \in ResIds, NEW key \in CommandKeys, CancelReservation(id, key) PROVE Goal
  BY <1>0, <1>10 DEF CancelReservation, Background, StatusMove, Active
<1>11. ASSUME NEW id \in ResIds, ExpireOneDue(id) PROVE Goal
  BY Zenon, <1>11 DEF ExpireOneDue, StatusMove, Active
<1> QED
  BY Zenon, <1>1, <1>2, <1>3, <1>4, <1>5, <1>7, <1>8, <1>9, <1>10, <1>11, <1>12 DEF Next

\* The row a commit inserts.
LEMMA CommitEffect ==
    ASSUME TypeOK, RunStillScheduled, NEW c \in Clients, CommitCreateHold(c)
    PROVE  /\ tx[c].req \in Request /\ tx[c].acquired \in Nat /\ tx[c].seats \in SUBSET Seats
           /\ tx' = [tx EXCEPT ![c] = Idle]
           /\ \A d \in Clients \ {c} : tx'[d] = tx[d]
           /\ SegmentMask(tx[c].req) \in SUBSET Segments
           /\ \E id \in ResIds :
                /\ rsv[id] = NoRow
                /\ \A j \in ResIds \ {id} : rsv'[j] = rsv[j]
                /\ rsv'[id] \in Reservation
                /\ rsv'[id].status = "held" /\ rsv'[id].user = tx[c].req.user
                /\ rsv'[id].run = tx[c].req.run /\ rsv'[id].key = tx[c].req.key
                /\ rsv'[id].mask = SegmentMask(tx[c].req) /\ rsv'[id].seats = tx[c].seats
                /\ rsv'[id].passengers = tx[c].req.passengers
                /\ rsv'[id].created = tx[c].acquired
                /\ idem' = [idem EXCEPT ![KeyOf(tx[c].req)] =
                      [fingerprint |-> tx[c].req, resource |-> id,
                       expires |-> tx[c].acquired + IdempotencyTTL]]
<1> DEFINE r == tx[c].req
           row == [status |-> "held", user |-> r.user, run |-> r.run, class |-> r.class,
                   key |-> r.key, mask |-> SegmentMask(r), seats |-> tx[c].seats,
                   passengers |-> r.passengers, expires |-> tx[c].expires,
                   created |-> tx[c].acquired]
<1>1. tx[c] \in Transaction /\ r \in Request /\ r \in Requests
  BY Zenon, OpenTransaction DEF CommitCreateHold, Transaction
<1>2. SegmentMask(r) \in SUBSET Segments
  BY Zenon, <1>1, MaskType DEF CommitCreateHold, RunStillScheduled, HoldsRun
<1>3. row \in Reservation
  BY Zenon, <1>1, <1>2 DEF Reservation, Transaction, Request
<1>4. PICK id \in ResIds :
        /\ rsv[id] = NoRow
        /\ rsv' = [rsv EXCEPT ![id] = row]
        /\ idem' = [idem EXCEPT ![KeyOf(r)] =
              [fingerprint |-> r, resource |-> id, expires |-> tx[c].acquired + IdempotencyTTL]]
  BY Zenon DEF CommitCreateHold
<1>5. /\ row.status = "held" /\ row.user = r.user /\ row.run = r.run /\ row.key = r.key
      /\ row.mask = SegmentMask(r) /\ row.seats = tx[c].seats /\ row.passengers = r.passengers
      /\ row.created = tx[c].acquired
  BY Zenon
<1> HIDE DEF row
<1>6. /\ rsv'[id] = row /\ \A j \in ResIds \ {id} : rsv'[j] = rsv[j]
  BY Zenon, <1>4 DEF TypeOK
<1>7. tx' = [tx EXCEPT ![c] = Idle] /\ \A d \in Clients \ {c} : tx'[d] = tx[d]
  BY Zenon DEF CommitCreateHold, TypeOK
<1> QED
  BY ZenonT(60), <1>1, <1>2, <1>3, <1>4, <1>5, <1>6, <1>7 DEF Transaction

\* A statement of an open transaction writes nothing others can see.
LEMMA WorkingEffect ==
    ASSUME TypeOK, NEW c \in Clients, Working(c)
    PROVE  /\ UNCHANGED <<now, runStatus, policy, occupied, rsv, idem>>
           /\ \A d \in Clients \ {c} : tx'[d] = tx[d]
           /\ tx'[c].req = tx[c].req
<1>1. CASE KeyTaken(c)
  BY ZenonT(60), <1>1, AcquireEffect DEF KeyTaken, AcquireIdempotency
<1>2. CASE AllocateSeats(c)
  BY Zenon, <1>2, AllocateEffect DEF AllocateSeats
<1>3. ASSUME NEW pc \in Steps, tx[c].pc # "idle", Advance(c, pc)
      PROVE  /\ UNCHANGED <<now, runStatus, policy, occupied, rsv, idem>>
             /\ \A d \in Clients \ {c} : tx'[d] = tx[d]
             /\ tx'[c].req = tx[c].req
  BY Zenon, <1>3, AdvanceEffect DEF Advance
<1>4. CASE RecheckAdmissionPolicy(c)
  BY Zenon, <1>3, <1>4 DEF RecheckAdmissionPolicy, Steps
<1>5. CASE EnforceReservationQuota(c)
  BY Zenon, <1>3, <1>5 DEF EnforceReservationQuota, Steps
<1>6. CASE LockTrainRun(c)
  BY Zenon, <1>3, <1>6 DEF LockTrainRun, Steps
<1>7. CASE LockPassengers(c)
  BY Zenon, <1>3, <1>7 DEF LockPassengers, Steps
<1> QED
  BY Zenon, <1>1, <1>2, <1>4, <1>5, <1>6, <1>7 DEF Working

-----------------------------------------------------------------------------
(* Seats and inventory.                                                    *)

\* A commit takes seats that are free, a release gives back what its reservation
\* held: no seat is shared and the inventory stays exact.
LEMMA SeatStep ==
    ASSUME IInv, [Next]_vars
    PROVE  SeatExclusive' /\ InventoryExact'
<1> USE DEF IInv, ChecksStayTrue
<1>1. CASE UNCHANGED <<rsv, occupied>>
  BY <1>1 DEF SeatExclusive, InventoryExact, Active
<1>2. ASSUME NEW run \in Runs, CommissionTrainRun(run)
      PROVE  SeatExclusive' /\ InventoryExact'
  <2>1. \A id \in ResIds : Active(id) => rsv[id].run # run
    BY <1>2 DEF CommissionTrainRun, AbsentRunsEmpty, Active, NoRow
  <2>2. rsv' = rsv /\ \A q \in Runs, s \in Seats : occupied'[q][s] = IF q = run THEN {} ELSE occupied[q][s]
    BY Zenon, <1>2 DEF CommissionTrainRun, TypeOK
  <2> QED
    BY <2>1, <2>2 DEF SeatExclusive, InventoryExact, Active
<1>3. ASSUME NEW c \in Clients, CommitCreateHold(c)
      PROVE  SeatExclusive' /\ InventoryExact'
  <2> DEFINE r == tx[c].req
  <2>1. r \in Request /\ SegmentMask(r) \in SUBSET Segments /\ tx[c].seats \in SUBSET Seats
    BY Zenon, <1>3, CommitEffect
  <2>2. PICK id \in ResIds :
          /\ rsv[id] = NoRow /\ \A j \in ResIds \ {id} : rsv'[j] = rsv[j]
          /\ rsv'[id].status = "held" /\ rsv'[id].run = r.run
          /\ rsv'[id].mask = SegmentMask(r) /\ rsv'[id].seats = tx[c].seats
    BY Zenon, <1>3, CommitEffect
  <2>3. \A s \in tx[c].seats : occupied[r.run][s] \cap SegmentMask(r) = {}
    BY Zenon, <1>3 DEF CommitCreateHold, SeatsStillFree, HoldsSeats
  <2>4. \A j \in ResIds : /\ Active(j)' <=> (j = id \/ Active(j))
                         /\ j = id => ~ Active(j)
    BY <2>2 DEF Active, NoRow
  <2>5. \A q \in Runs, s \in Seats : occupied'[q][s] =
           IF q = r.run /\ s \in tx[c].seats THEN occupied[q][s] \cup SegmentMask(r)
                                             ELSE occupied[q][s]
    BY Zenon, <1>3, <2>1 DEF CommitCreateHold, TypeOK, Request
  <2>6. \A j \in ResIds : Active(j) =>
           rsv[j].run \in Runs /\ rsv[j].seats \in SUBSET Seats /\ rsv[j].mask \in SUBSET Segments
    BY DEF TypeOK, Active, NoRow, Reservation
  <2>7. ASSUME NEW j \in ResIds, Active(j), rsv[j].run = r.run, NEW s \in rsv[j].seats, s \in tx[c].seats
        PROVE  rsv[j].mask \cap SegmentMask(r) = {}
    BY Zenon, <2>3, <2>6, <2>7 DEF InventoryExact
  <2> DEFINE Clash(a, b) == /\ rsv'[a].run = rsv'[b].run
                            /\ rsv'[a].seats \cap rsv'[b].seats # {}
                            /\ rsv'[a].mask \cap rsv'[b].mask # {}
  <2>8. SeatExclusive'
    <3>1. ASSUME NEW j \in ResIds, j # id, Active(j) PROVE ~ Clash(j, id) /\ ~ Clash(id, j)
      BY Zenon, <2>2, <2>7, <3>1
    <3>2. ASSUME NEW a \in ResIds, NEW b \in ResIds, a # b, a # id, b # id, Active(a), Active(b)
          PROVE ~ Clash(a, b)
      BY <2>2, <3>2 DEF SeatExclusive
    <3> HIDE DEF Clash
    <3>3. ASSUME NEW a \in ResIds, NEW b \in ResIds, a # b, Active(a)', Active(b)'
          PROVE ~ Clash(a, b)
      <4>1. (a = id \/ Active(a)) /\ (b = id \/ Active(b))
        BY Zenon, <2>2, <2>4, <3>3 DEF Active
      <4> QED
        BY Zenon, <3>1, <3>2, <3>3, <4>1
    <3> QED
      BY Zenon, <3>3 DEF SeatExclusive, Active, Clash
  <2>9. InventoryExact'
    <3> SUFFICES ASSUME NEW q \in Runs, NEW s \in Seats, NEW i \in Segments
                 PROVE  i \in occupied'[q][s] <=>
                          \E j \in ResIds : /\ Active(j)' /\ rsv'[j].run = q
                                            /\ s \in rsv'[j].seats /\ i \in rsv'[j].mask
      BY Zenon DEF InventoryExact
    <3>1. i \in occupied'[q][s] <=>
            i \in occupied[q][s] \/ (q = r.run /\ s \in tx[c].seats /\ i \in SegmentMask(r))
      BY Zenon, <2>5
    <3>2. i \in occupied[q][s] <=>
            \E j \in ResIds : /\ Active(j) /\ rsv[j].run = q
                              /\ s \in rsv[j].seats /\ i \in rsv[j].mask
      BY DEF InventoryExact
    <3> QED
      BY <2>2, <2>4, <3>1, <3>2 DEF Active
  <2> QED
    BY Zenon, <2>8, <2>9
<1>4. ASSUME NEW id \in ResIds, NEW st \in {"confirmed", "cancelled", "expired"}, StatusMove(id, st)
      PROVE  SeatExclusive' /\ InventoryExact'
  <2>1. /\ rsv[id] \in Reservation /\ \A j \in ResIds \ {id} : rsv'[j] = rsv[j]
        /\ rsv'[id].status = st /\ rsv'[id].run = rsv[id].run
        /\ rsv'[id].seats = rsv[id].seats /\ rsv'[id].mask = rsv[id].mask
    BY Zenon, <1>4, StatusEffect DEF StatusMove, Active
  <2>2. \A j \in ResIds : Active(j)' => Active(j)
    BY Zenon, <1>4, <2>1 DEF Active, StatusMove
  <2>3. SeatExclusive'
    BY <2>1, <2>2 DEF SeatExclusive
  <2>4. CASE st = "confirmed" /\ UNCHANGED occupied
    <3>1. \A j \in ResIds : Active(j)' <=> Active(j)
      BY Zenon, <1>4, <2>1, <2>4 DEF Active, StatusMove
    <3> QED
      BY <2>1, <2>3, <2>4, <3>1 DEF InventoryExact
  <2>5. CASE st \in {"cancelled", "expired"} /\ ReleaseReservationSeats(id)
    <3>1. \A j \in ResIds : Active(j)' <=> (j # id /\ Active(j))
      BY Zenon, <1>4, <2>1, <2>5 DEF Active, StatusMove
    <3>2. \A q \in Runs, s \in Seats : occupied'[q][s] =
             IF q = rsv[id].run /\ s \in rsv[id].seats THEN occupied[q][s] \ rsv[id].mask
                                                       ELSE occupied[q][s]
      BY Zenon, <2>1, <2>5 DEF ReleaseReservationSeats, TypeOK, Reservation
    <3>3. \A j \in ResIds \ {id} : Active(j) /\ rsv[j].run = rsv[id].run
             /\ rsv[j].seats \cap rsv[id].seats # {} => rsv[j].mask \cap rsv[id].mask = {}
      BY Zenon, <1>4 DEF SeatExclusive, StatusMove
    <3>4. ASSUME NEW q \in Runs, NEW s \in Seats, NEW i \in Segments
          PROVE  i \in occupied'[q][s] <=>
                   \E j \in ResIds : /\ Active(j)' /\ rsv'[j].run = q
                                     /\ s \in rsv'[j].seats /\ i \in rsv'[j].mask
      <4>1. i \in occupied[q][s] <=>
              \E j \in ResIds : /\ Active(j) /\ rsv[j].run = q
                                /\ s \in rsv[j].seats /\ i \in rsv[j].mask
        BY DEF InventoryExact
      <4>2. i \in occupied'[q][s] <=> /\ i \in occupied[q][s]
                                      /\ ~ (q = rsv[id].run /\ s \in rsv[id].seats /\ i \in rsv[id].mask)
        BY Zenon, <3>2
      <4> QED
        BY <2>1, <3>1, <3>3, <4>1, <4>2 DEF Active
    <3>5. InventoryExact'
      BY Zenon, <3>4 DEF InventoryExact, Active
    <3> QED
      BY Zenon, <2>3, <3>5
  <2> QED
    BY Zenon, <1>4, <2>4, <2>5 DEF StatusMove
<1> QED
  BY Zenon, <1>1, <1>2, <1>3, <1>4, StepShapes, WorkingEffect DEF Background, Unlocked

-----------------------------------------------------------------------------
(* Passengers and runs.                                                    *)

\* A new active reservation comes from a commit, and no row changes its run or
\* passengers.
LEMMA PassengerStep ==
    ASSUME IInv, [Next]_vars
    PROVE  PassengerBookedOnce' /\ AbsentRunsEmpty'
<1> USE DEF IInv, ChecksStayTrue
<1>1. CASE Background
  <2>1. \A id \in ResIds : rsv[id] # NoRow => rsv[id].run \in Runs
    BY Zenon DEF TypeOK, Reservation
  <2> QED
    BY Zenon, <1>1, <2>1 DEF Background, PassengerBookedOnce, AbsentRunsEmpty, Active
<1>2. ASSUME NEW run \in Runs, CommissionTrainRun(run)
      PROVE  PassengerBookedOnce' /\ AbsentRunsEmpty'
  BY <1>2 DEF CommissionTrainRun, PassengerBookedOnce, AbsentRunsEmpty, Active, TypeOK
<1>3. CASE UNCHANGED <<rsv, runStatus>>
  BY Zenon, <1>3 DEF PassengerBookedOnce, AbsentRunsEmpty, Active
<1>4. ASSUME NEW c \in Clients, CommitCreateHold(c)
      PROVE  PassengerBookedOnce' /\ AbsentRunsEmpty'
  <2> DEFINE r == tx[c].req
  <2>1. PICK id \in ResIds :
          /\ rsv[id] = NoRow /\ \A j \in ResIds \ {id} : rsv'[j] = rsv[j]
          /\ rsv'[id].run = r.run /\ rsv'[id].passengers = r.passengers
    BY Zenon, <1>4, CommitEffect
  <2>2. /\ runStatus' = runStatus /\ runStatus[r.run] = "scheduled"
        /\ \A j \in ResIds : Active(j) /\ rsv[j].run = r.run => rsv[j].passengers \cap r.passengers = {}
    BY Zenon, <1>4 DEF CommitCreateHold, RunStillScheduled, HoldsRun, PassengersStillFree, HoldsPassengers
  <2>3. AbsentRunsEmpty'
    BY Zenon, <2>1, <2>2 DEF AbsentRunsEmpty
  <2>4. ASSUME NEW a \in ResIds, NEW b \in ResIds, a # b, Active(a)', Active(b)',
               rsv'[a].run = rsv'[b].run
        PROVE  rsv'[a].passengers \cap rsv'[b].passengers = {}
    <3>1. (a = id \/ Active(a)) /\ (b = id \/ Active(b))
      BY Zenon, <2>1, <2>4 DEF Active
    <3> QED
      BY <2>1, <2>2, <2>4, <3>1 DEF PassengerBookedOnce
  <2>5. PassengerBookedOnce'
    BY Zenon, <2>4 DEF PassengerBookedOnce, Active
  <2> QED
    BY Zenon, <2>3, <2>5
<1>5. ASSUME NEW id \in ResIds, NEW st \in {"confirmed", "cancelled", "expired"}, StatusMove(id, st)
      PROVE  PassengerBookedOnce' /\ AbsentRunsEmpty'
  <2>1. /\ rsv[id] # NoRow /\ \A j \in ResIds \ {id} : rsv'[j] = rsv[j]
        /\ rsv'[id].run = rsv[id].run /\ rsv'[id].passengers = rsv[id].passengers
    BY <1>5, StatusEffect DEF StatusMove, Active, NoRow
  <2>2. runStatus' = runStatus /\ \A j \in ResIds : Active(j)' => Active(j)
    BY Zenon, <1>5, <2>1 DEF Active, StatusMove
  <2>3. AbsentRunsEmpty'
    BY Zenon, <2>1, <2>2 DEF AbsentRunsEmpty
  <2>4. PassengerBookedOnce'
    BY <2>1, <2>2 DEF PassengerBookedOnce, Active
  <2> QED
    BY Zenon, <2>3, <2>4
<1> QED
  BY Zenon, <1>1, <1>2, <1>3, <1>4, <1>5, StepShapes, WorkingEffect DEF Unlocked

-----------------------------------------------------------------------------
(* Locks.                                                                  *)

\* A transaction holds a lock after a step only if it held it before or the
\* step was its own and found the lock free.
LEMMA LockStep ==
    ASSUME IInv, [Next]_vars
    PROVE  LocksExclusive'
<1> USE DEF IInv, LocksExclusive
<1>1. CASE UNCHANGED tx
  BY Zenon, <1>1 DEF KeyLocksExclusive, UserLocksExclusive, PassengerLocksExclusive, SeatLocksExclusive,
              HoldsKey, HoldsUser, HoldsPassengers, HoldsSeats
<1>2. ASSUME NEW c \in Clients, tx'[c].pc \in {"idle", "acquire"},
             \A d \in Clients \ {c} : tx'[d] = tx[d]
      PROVE  LocksExclusive'
  BY <1>2 DEF KeyLocksExclusive, UserLocksExclusive, PassengerLocksExclusive, SeatLocksExclusive,
              HoldsKey, HoldsUser, HoldsPassengers, HoldsSeats
<1>3. ASSUME NEW c \in Clients, Working(c) PROVE LocksExclusive'
  <2>1. /\ tx'[c].req = tx[c].req /\ \A d \in Clients \ {c} : tx'[d] = tx[d]
    BY Zenon, <1>3, WorkingEffect
  <2>2. KeyLocksExclusive'
    <3>1. ASSUME NEW d \in Clients \ {c}, HoldsKey(c)', HoldsKey(d)
          PROVE  KeyOf(tx[c].req) # KeyOf(tx[d].req)
      BY Zenon, <1>3, <3>1 DEF Working, KeyTaken, AcquireIdempotency, RecheckAdmissionPolicy,
         EnforceReservationQuota, LockTrainRun, LockPassengers, AllocateSeats, KeyLocksExclusive,
         HoldsKey
    <3> QED
      BY <2>1, <3>1 DEF KeyLocksExclusive, HoldsKey, KeyOf
  <2>3. UserLocksExclusive'
    <3>1. ASSUME NEW d \in Clients \ {c}, HoldsUser(c)', HoldsUser(d)
          PROVE  tx[c].req.user # tx[d].req.user
      BY ZenonT(60), <1>3, <3>1, AdvanceEffect, AcquireEffect DEF Working, KeyTaken, AcquireIdempotency,
         RecheckAdmissionPolicy, EnforceReservationQuota, LockTrainRun, LockPassengers,
         AllocateSeats, UserLocksExclusive, HoldsUser, Steps
    <3> QED
      BY <2>1, <3>1 DEF UserLocksExclusive, HoldsUser
  <2>4. PassengerLocksExclusive'
    <3>1. ASSUME NEW d \in Clients \ {c}, HoldsPassengers(c)', HoldsPassengers(d)
          PROVE  tx[c].req.passengers \cap tx[d].req.passengers = {}
      BY Zenon, <1>3, <3>1, AdvanceEffect, AcquireEffect DEF Working, KeyTaken, AcquireIdempotency,
         RecheckAdmissionPolicy, EnforceReservationQuota, LockTrainRun, LockPassengers,
         AllocateSeats, PassengerLocksExclusive, HoldsPassengers, Steps
    <3> QED
      BY <2>1, <3>1 DEF PassengerLocksExclusive, HoldsPassengers
  <2>5. SeatLocksExclusive'
    <3>1. ASSUME NEW d \in Clients \ {c}, HoldsSeats(c)', HoldsSeats(d), tx[c].req.run = tx[d].req.run
          PROVE  tx'[c].seats \cap tx[d].seats = {}
      <4>1. AllocateSeats(c)
        BY Zenon, <1>3, <3>1, AdvanceEffect, AcquireEffect DEF Working, KeyTaken, AcquireIdempotency,
           RecheckAdmissionPolicy, EnforceReservationQuota, LockTrainRun, LockPassengers,
           HoldsSeats, Steps
      <4> QED
        BY Zenon, <3>1, <4>1, AllocateEffect DEF Candidates, SeatLocked
    <3> QED
      BY <2>1, <3>1 DEF SeatLocksExclusive, HoldsSeats
  <2> QED
    BY Zenon, <2>2, <2>3, <2>4, <2>5
<1>4. ASSUME NEW c \in Clients, CommitCreateHold(c) PROVE LocksExclusive'
  <2>1. tx'[c] = Idle /\ \A d \in Clients \ {c} : tx'[d] = tx[d]
    BY Zenon, <1>4 DEF CommitCreateHold, TypeOK
  <2> QED
    BY SMTT(30), <1>2, <2>1 DEF Idle
<1> QED
  BY Zenon, <1>1, <1>2, <1>3, <1>4, StepShapes DEF Background, CommissionTrainRun, Unlocked, StatusMove

-----------------------------------------------------------------------------
(* What a transaction has checked stays true.                              *)

\* Only a transaction's own statements change what it carries.
LEMMA PolicyStep ==
    ASSUME IInv, [Next]_vars
    PROVE  PolicyStillCurrent'
<1> USE DEF IInv, ChecksStayTrue
<1>1. CASE Background
  BY Zenon, <1>1 DEF Background, PolicyStillCurrent, HoldsPolicy, CurrentPolicy
<1>2. ASSUME NEW c \in Clients, UNCHANGED policy, \A d \in Clients \ {c} : tx'[d] = tx[d],
             HoldsPolicy(c)' => tx'[c].observed = CurrentPolicy(<<tx'[c].req.run, tx'[c].req.class>>)
      PROVE  PolicyStillCurrent'
  BY <1>2 DEF PolicyStillCurrent, HoldsPolicy, CurrentPolicy
<1>3. ASSUME NEW c \in Clients, Working(c) PROVE PolicyStillCurrent'
  <2>1. CASE KeyTaken(c)
    <3>1. ~ HoldsPolicy(c)'
      BY Zenon, <2>1, AcquireEffect DEF KeyTaken, AcquireIdempotency, HoldsPolicy
    <3> QED
      BY Zenon, <1>2, <1>3, <3>1, WorkingEffect
  <2>2. CASE RecheckAdmissionPolicy(c)
    BY Zenon, <1>2, <1>3, <2>2, WorkingEffect, AdvanceEffect DEF RecheckAdmissionPolicy, Steps
  <2>3. CASE HoldsPolicy(c) /\ tx'[c].observed = tx[c].observed
    BY ZenonT(60), <1>2, <1>3, <2>3, WorkingEffect DEF PolicyStillCurrent
  <2>4. CASE EnforceReservationQuota(c) \/ LockTrainRun(c) \/ LockPassengers(c)
    BY Zenon, <2>3, <2>4, AdvanceEffect DEF EnforceReservationQuota, LockTrainRun, LockPassengers, Steps,
       HoldsPolicy
  <2>5. CASE AllocateSeats(c)
    BY ZenonT(60), <2>3, <2>5, AllocateEffect DEF AllocateSeats, HoldsPolicy
  <2> QED
    BY Zenon, <1>3, <2>1, <2>2, <2>4, <2>5 DEF Working
<1>4. ASSUME NEW c \in Clients, CommitCreateHold(c) PROVE PolicyStillCurrent'
  BY Zenon, <1>2, <1>4 DEF CommitCreateHold, TypeOK, HoldsPolicy, Idle
<1>5. CASE UNCHANGED <<policy, tx>>
  BY Zenon, <1>5 DEF PolicyStillCurrent, HoldsPolicy, CurrentPolicy
<1> QED
  BY Zenon, <1>1, <1>2, <1>3, <1>4, <1>5, StepShapes DEF CommissionTrainRun, Unlocked, StatusMove, HoldsPolicy

\* The run of a transaction that holds its share lock keeps its status.
LEMMA RunStep ==
    ASSUME IInv, [Next]_vars
    PROVE  RunStillScheduled'
<1> USE DEF IInv, ChecksStayTrue
<1>1. CASE Background
  BY Zenon, <1>1 DEF Background, RunStillScheduled, HoldsRun
<1>2. ASSUME NEW run \in Runs, CommissionTrainRun(run) PROVE RunStillScheduled'
  BY <1>2 DEF CommissionTrainRun, RunStillScheduled, HoldsRun, TypeOK
<1>3. ASSUME NEW c \in Clients, UNCHANGED runStatus, \A d \in Clients \ {c} : tx'[d] = tx[d],
             HoldsRun(c)' => runStatus[tx'[c].req.run] = "scheduled" /\ tx'[c].req.to <= SegmentCount
      PROVE  RunStillScheduled'
  BY Zenon, <1>3 DEF RunStillScheduled, HoldsRun
<1>4. ASSUME NEW c \in Clients, Working(c) PROVE RunStillScheduled'
  <2>1. CASE KeyTaken(c) \/ RecheckAdmissionPolicy(c) \/ EnforceReservationQuota(c)
    <3>1. ~ HoldsRun(c)'
      BY Zenon, <2>1, AcquireEffect, AdvanceEffect DEF KeyTaken, AcquireIdempotency, HoldsRun,
         RecheckAdmissionPolicy, EnforceReservationQuota, Steps
    <3> QED
      BY Zenon, <1>3, <1>4, <3>1, WorkingEffect
  <2>2. CASE LockTrainRun(c)
    BY Zenon, <1>3, <1>4, <2>2, WorkingEffect DEF LockTrainRun
  <2>3. CASE LockPassengers(c) \/ AllocateSeats(c)
    BY ZenonT(60), <1>3, <1>4, <2>3, WorkingEffect DEF LockPassengers, AllocateSeats, RunStillScheduled, HoldsRun
  <2> QED
    BY Zenon, <1>4, <2>1, <2>2, <2>3 DEF Working
<1>5. ASSUME NEW c \in Clients, CommitCreateHold(c) PROVE RunStillScheduled'
  BY Zenon, <1>3, <1>5 DEF CommitCreateHold, TypeOK, HoldsRun, Idle
<1>6. CASE UNCHANGED <<runStatus, tx>>
  BY Zenon, <1>6 DEF RunStillScheduled, HoldsRun
<1> QED
  BY Zenon, <1>1, <1>2, <1>3, <1>4, <1>5, <1>6, StepShapes DEF Unlocked, StatusMove, HoldsRun

\* Passengers found free are booked by nobody else while they are locked.
LEMMA PassengersFreeStep ==
    ASSUME IInv, [Next]_vars
    PROVE  PassengersStillFree'
<1> USE DEF IInv, ChecksStayTrue
<1> DEFINE Free(c) == \A id \in ResIds : Active(id) /\ rsv[id].run = tx[c].req.run
                          => rsv[id].passengers \cap tx[c].req.passengers = {}
<1>1. CASE UNCHANGED <<rsv, tx>>
  BY Zenon, <1>1 DEF PassengersStillFree, HoldsPassengers, Active
<1>2. ASSUME NEW c \in Clients, UNCHANGED rsv, \A d \in Clients \ {c} : tx'[d] = tx[d],
             HoldsPassengers(c)' => Free(c)'
      PROVE  PassengersStillFree'
  BY Zenon, <1>2 DEF PassengersStillFree, HoldsPassengers, Active
<1>3. ASSUME NEW c \in Clients, Working(c) PROVE PassengersStillFree'
  <2>1. CASE KeyTaken(c) \/ RecheckAdmissionPolicy(c) \/ EnforceReservationQuota(c) \/ LockTrainRun(c)
    <3>1. ~ HoldsPassengers(c)'
      BY Zenon, <2>1, AcquireEffect, AdvanceEffect DEF KeyTaken, AcquireIdempotency, HoldsPassengers,
         RecheckAdmissionPolicy, EnforceReservationQuota, LockTrainRun, Steps
    <3> QED
      BY Zenon, <1>2, <1>3, <3>1, WorkingEffect
  <2>2. CASE LockPassengers(c) \/ AllocateSeats(c)
    <3>1. Free(c)
      BY Zenon, <2>2 DEF LockPassengers, AllocateSeats, PassengersStillFree, HoldsPassengers
    <3>2. Free(c)'
      BY Zenon, <1>3, <3>1, WorkingEffect DEF Active
    <3> QED
      BY Zenon, <1>2, <1>3, <3>2, WorkingEffect
  <2> QED
    BY Zenon, <1>3, <2>1, <2>2 DEF Working
<1>4. ASSUME NEW c \in Clients, CommitCreateHold(c) PROVE PassengersStillFree'
  <2>1. PICK id \in ResIds :
          /\ \A j \in ResIds \ {id} : rsv'[j] = rsv[j]
          /\ rsv'[id].passengers = tx[c].req.passengers
    BY ZenonT(30), <1>4, CommitEffect
  <2>2. tx'[c] = Idle /\ \A d \in Clients \ {c} : tx'[d] = tx[d]
    BY Zenon, <1>4 DEF CommitCreateHold, TypeOK
  <2>3. ASSUME NEW d \in Clients \ {c}, HoldsPassengers(d)
        PROVE  Free(d) /\ tx[c].req.passengers \cap tx[d].req.passengers = {}
    BY Zenon, <1>4, <2>3 DEF CommitCreateHold, PassengersStillFree, LocksExclusive, PassengerLocksExclusive,
       HoldsPassengers
  <2> QED
    BY <2>1, <2>2, <2>3 DEF PassengersStillFree, HoldsPassengers, Active, Idle
<1>5. ASSUME NEW id \in ResIds, NEW st \in {"confirmed", "cancelled", "expired"}, StatusMove(id, st)
      PROVE  PassengersStillFree'
  <2>1. /\ \A j \in ResIds \ {id} : rsv'[j] = rsv[j]
        /\ rsv'[id].run = rsv[id].run /\ rsv'[id].passengers = rsv[id].passengers
    BY Zenon, <1>5, StatusEffect DEF StatusMove, Active
  <2>2. tx' = tx /\ \A j \in ResIds : Active(j)' => Active(j)
    BY Zenon, <1>5, <2>1 DEF Active, StatusMove
  <2> QED
    BY SMTT(30), <2>1, <2>2 DEF PassengersStillFree, HoldsPassengers, Active
<1> QED
  BY Zenon, <1>1, <1>2, <1>3, <1>4, <1>5, StepShapes
  DEF Background, CommissionTrainRun, Unlocked, HoldsPassengers

\* Seats found free stay free of the segments asked for while they are locked.
LEMMA SeatsFreeStep ==
    ASSUME IInv, [Next]_vars
    PROVE  SeatsStillFree'
<1> USE DEF IInv, ChecksStayTrue
<1> DEFINE Free(c) == \A s \in tx[c].seats :
                         occupied[tx[c].req.run][s] \cap SegmentMask(tx[c].req) = {}
<1>1. CASE UNCHANGED <<occupied, tx>>
  BY Zenon, <1>1 DEF SeatsStillFree, HoldsSeats
<1>2. ASSUME NEW c \in Clients, UNCHANGED occupied, \A d \in Clients \ {c} : tx'[d] = tx[d],
             HoldsSeats(c)' => Free(c)'
      PROVE  SeatsStillFree'
  BY Zenon, <1>2 DEF SeatsStillFree, HoldsSeats
<1>3. ASSUME NEW c \in Clients, Working(c) PROVE SeatsStillFree'
  <2>1. CASE AllocateSeats(c)
    <3>1. \A s \in tx'[c].seats : occupied[tx[c].req.run][s] \cap SegmentMask(tx[c].req) = {}
      BY Zenon, <2>1, AllocateEffect DEF Candidates
    <3> QED
      BY Zenon, <1>2, <1>3, <3>1, WorkingEffect DEF SegmentMask
  <2>2. CASE ~ AllocateSeats(c)
    <3>1. ~ HoldsSeats(c)'
      BY Zenon, <1>3, <2>2, AcquireEffect, AdvanceEffect DEF Working, KeyTaken, AcquireIdempotency,
         HoldsSeats, RecheckAdmissionPolicy, EnforceReservationQuota, LockTrainRun, LockPassengers,
         Steps
    <3> QED
      BY Zenon, <1>2, <1>3, <3>1, WorkingEffect
  <2> QED
    BY Zenon, <2>1, <2>2
<1>4. ASSUME NEW d \in Clients, HoldsSeats(d)
      PROVE  tx[d].req.run \in Runs /\ tx[d].seats \in SUBSET Seats /\ Free(d)
  BY Zenon, <1>4, OpenTransaction DEF HoldsSeats, SeatsStillFree, Transaction, Request
<1>5. ASSUME NEW run \in Runs, CommissionTrainRun(run) PROVE SeatsStillFree'
  <2>1. tx' = tx /\ \A q \in Runs, s \in Seats : occupied'[q][s] \subseteq occupied[q][s]
    BY Zenon, <1>5 DEF CommissionTrainRun, TypeOK
  <2> QED
    BY Zenon, <1>4, <2>1 DEF SeatsStillFree, HoldsSeats
<1>6. ASSUME NEW c \in Clients, CommitCreateHold(c) PROVE SeatsStillFree'
  <2>1. tx'[c] = Idle /\ \A d \in Clients \ {c} : tx'[d] = tx[d]
    BY ZenonT(60), <1>6 DEF CommitCreateHold, TypeOK
  <2>2. \A q \in Runs, s \in Seats : occupied'[q][s] # occupied[q][s]
                                        => q = tx[c].req.run /\ s \in tx[c].seats
    <3>1. tx[c].req.run \in Runs
      BY Zenon, <1>4, <1>6 DEF CommitCreateHold, HoldsSeats
    <3> QED
      BY ZenonT(60), <1>6, <3>1 DEF CommitCreateHold, TypeOK
  <2>3. ASSUME NEW d \in Clients \ {c}, HoldsSeats(d), NEW s \in tx[d].seats
        PROVE  occupied'[tx[d].req.run][s] = occupied[tx[d].req.run][s]
    <3>1. HoldsSeats(c)
      BY Zenon, <1>6 DEF CommitCreateHold, HoldsSeats
    <3>2. tx[d].req.run = tx[c].req.run => s \notin tx[c].seats
      BY Zenon, <2>3, <3>1 DEF LocksExclusive, SeatLocksExclusive
    <3>3. tx[d].req.run \in Runs /\ s \in Seats
      BY Zenon, <1>4, <2>3
    <3> QED
      BY Zenon, <2>2, <3>2, <3>3
  <2> QED
    BY <1>4, <2>1, <2>3 DEF SeatsStillFree, HoldsSeats, Idle
<1>7. ASSUME NEW id \in ResIds, NEW st \in {"confirmed", "cancelled", "expired"}, StatusMove(id, st)
      PROVE  SeatsStillFree'
  <2>1. tx' = tx /\ \A q \in Runs, s \in Seats : occupied'[q][s] \subseteq occupied[q][s]
    <3>1. rsv[id].run \in Runs
      BY Zenon, <1>7, StatusEffect DEF StatusMove, Active, Reservation
    <3> QED
      BY SMTT(30), <1>7, <3>1 DEF StatusMove, ReleaseReservationSeats, TypeOK
  <2> QED
    BY Zenon, <1>4, <2>1 DEF SeatsStillFree, HoldsSeats
<1> QED
  BY Zenon, <1>1, <1>2, <1>3, <1>5, <1>6, <1>7, StepShapes DEF Background, Unlocked, HoldsSeats

-----------------------------------------------------------------------------
(* Idempotency keys.                                                       *)

\* The clock is a natural number after every step.
LEMMA ClockStep ==
    ASSUME TypeOK, RunStillScheduled, [Next]_vars
    PROVE  now' \in Nat
<1>1. TypeOK'
  BY Zenon, TypeStep
<1>2. now' \in 0 .. MaxTime
  BY Zenon, <1>1 DEF TypeOK
<1> QED
  BY <1>2, TimeAssumption

\* A key is acquired only when no live record names it, so every reservation it
\* made is older than the window; a commit covers the new one by its record.
LEMMA KeyStep ==
    ASSUME IInv, [Next]_vars
    PROVE  KeyStillUnused' /\ KeysCovered' /\ KeyCreatesOnce'
<1> USE DEF IInv, ChecksStayTrue
<1> DEFINE Made(id, k) == rsv[id] # NoRow /\ <<rsv[id].user, rsv[id].key>> = k
           Unused(c) == /\ tx[c].acquired <= now
                        /\ \A id \in ResIds : Made(id, KeyOf(tx[c].req))
                              => rsv[id].created + IdempotencyTTL <= tx[c].acquired
<1>0. now \in Nat /\ IdempotencyTTL \in Nat
  BY SMTT(30), TimeAssumption DEF TypeOK
<1>1. ASSUME NEW id \in ResIds, rsv[id] # NoRow
      PROVE  /\ rsv[id] \in Reservation /\ rsv[id].created \in Nat
             /\ <<rsv[id].user, rsv[id].key>> \in Users \X Keys
  BY <1>1 DEF TypeOK, Reservation
<1>2. ASSUME NEW k \in Users \X Keys, idem[k] # NoRecord PROVE idem[k].expires \in Nat
  BY Zenon, <1>2 DEF TypeOK
<1>3. ASSUME NEW c \in Clients, HoldsKey(c) PROVE tx[c].acquired \in Nat /\ Unused(c)
  BY Zenon, <1>3, OpenTransaction DEF HoldsKey, KeyStillUnused, Transaction
<1>4. CASE Background
  <2>1. now' \in Nat /\ now <= now'
    <3>1. now' \in Nat
      BY Zenon, ClockStep
    <3> QED
      BY Zenon, <1>4, <3>1 DEF Background
  <2>2. KeyStillUnused'
    <3>1. rsv' = rsv /\ tx' = tx
      BY ZenonT(60), <1>4 DEF Background
    <3>2. ASSUME NEW c \in Clients, HoldsKey(c) PROVE tx[c].acquired <= now'
      BY SMTT(30), <1>0, <1>3, <2>1, <3>2
    <3> QED
      BY Zenon, <3>1, <3>2 DEF KeyStillUnused, HoldsKey, KeyOf
  <2>3. KeysCovered'
    BY SMTT(30), <1>0, <1>1, <1>2, <1>4, <2>1 DEF Background, KeysCovered
  <2>4. KeyCreatesOnce'
    BY Zenon, <1>4 DEF Background, KeyCreatesOnce
  <2> QED
    BY Zenon, <2>2, <2>3, <2>4
<1>5. ASSUME UNCHANGED <<now, rsv, idem>> PROVE KeysCovered' /\ KeyCreatesOnce'
  BY Zenon, <1>5 DEF KeysCovered, KeyCreatesOnce
<1>6. ASSUME UNCHANGED <<now, rsv, tx>> PROVE KeyStillUnused'
  BY Zenon, <1>6 DEF KeyStillUnused, HoldsKey, KeyOf
<1>7. ASSUME NEW c \in Clients, UNCHANGED <<now, rsv>>, \A d \in Clients \ {c} : tx'[d] = tx[d],
             HoldsKey(c)' => Unused(c)'
      PROVE  KeyStillUnused'
  BY <1>7 DEF KeyStillUnused, HoldsKey, KeyOf
<1>8. ASSUME NEW c \in Clients, Working(c) PROVE KeyStillUnused'
  <2>1. CASE KeyTaken(c)
    <3> DEFINE k == KeyOf(tx[c].req)
    <3>1. tx'[c].acquired = now /\ tx'[c].req = tx[c].req /\ rsv' = rsv /\ now' = now
      BY Zenon, <1>8, <2>1, AcquireEffect, WorkingEffect DEF KeyTaken, AcquireIdempotency
    <3>2. k \in Users \X Keys /\ ~ Live(idem[k])
      BY Zenon, <2>1, OpenTransaction DEF KeyTaken, AcquireIdempotency, KeyOf, Request
    <3>3. ASSUME NEW id \in ResIds, Made(id, k) PROVE rsv[id].created + IdempotencyTTL <= now
      BY SMTT(30), <1>0, <1>1, <1>2, <3>2, <3>3 DEF KeysCovered, Live
    <3>4. Unused(c)'
      BY <1>0, <3>1, <3>3 DEF KeyOf
    <3> QED
      BY Zenon, <1>7, <1>8, <3>4, WorkingEffect
  <2>2. CASE HoldsKey(c) /\ tx'[c].acquired = tx[c].acquired
    BY Zenon, <1>3, <1>7, <1>8, <2>2, WorkingEffect DEF KeyOf
  <2>3. CASE RecheckAdmissionPolicy(c) \/ EnforceReservationQuota(c) \/ LockTrainRun(c) \/ LockPassengers(c)
    BY ZenonT(60), <2>2, <2>3, AdvanceEffect DEF RecheckAdmissionPolicy, EnforceReservationQuota, LockTrainRun,
       LockPassengers, Steps, HoldsKey
  <2>4. CASE AllocateSeats(c)
    BY Zenon, <2>2, <2>4, AllocateEffect DEF AllocateSeats, HoldsKey
  <2> QED
    BY Zenon, <1>8, <2>1, <2>3, <2>4 DEF Working
<1>9. ASSUME NEW c \in Clients, CommitCreateHold(c)
      PROVE  KeyStillUnused' /\ KeysCovered' /\ KeyCreatesOnce'
  <2> DEFINE k == KeyOf(tx[c].req)
             new == tx[c].acquired
  <2>1. HoldsKey(c) /\ now' = now
    BY ZenonT(60), <1>9 DEF CommitCreateHold, HoldsKey
  <2>2. PICK id \in ResIds :
          /\ rsv[id] = NoRow /\ \A j \in ResIds \ {id} : rsv'[j] = rsv[j]
          /\ rsv'[id].user = tx[c].req.user /\ rsv'[id].key = tx[c].req.key
          /\ rsv'[id].status = "held" /\ rsv'[id].created = new
          /\ idem' = [idem EXCEPT ![k] = [fingerprint |-> tx[c].req, resource |-> id,
                                          expires |-> new + IdempotencyTTL]]
    BY ZenonT(60), <1>9, CommitEffect
  <2>3. tx'[c] = Idle /\ \A d \in Clients \ {c} : tx'[d] = tx[d]
    BY Zenon, <1>9 DEF CommitCreateHold, TypeOK
  <2>4. k \in Users \X Keys
    BY Zenon, <1>9, CommitEffect DEF KeyOf, Request
  <2>5. \A q \in Users \X Keys : q # k => idem'[q] = idem[q]
    BY Zenon, <2>2 DEF TypeOK
  <2>6. idem'[k] # NoRecord /\ idem'[k].expires = new + IdempotencyTTL
    BY Zenon, <2>2, <2>4 DEF TypeOK, NoRecord
  <2>7. ASSUME NEW j \in ResIds, Made(j, k) PROVE rsv[j].created + IdempotencyTTL <= new
    BY Zenon, <1>3, <2>1, <2>7
  <2>8. new \in Nat /\ new <= now
    BY Zenon, <1>3, <2>1
  <2>9. KeyStillUnused'
    <3>1. ASSUME NEW d \in Clients \ {c}, HoldsKey(d) PROVE KeyOf(tx[d].req) # k
      BY Zenon, <2>1, <3>1 DEF LocksExclusive, KeyLocksExclusive
    <3>2. ASSUME NEW d \in Clients, HoldsKey(d)' PROVE d # c /\ HoldsKey(d)
      BY <2>3, <3>2 DEF HoldsKey, Idle
    <3>3. <<rsv'[id].user, rsv'[id].key>> = k
      BY Zenon, <2>2 DEF KeyOf
    <3>4. ASSUME NEW d \in Clients, HoldsKey(d)'
          PROVE  /\ tx'[d] = tx[d] /\ tx[d].acquired <= now'
                 /\ \A j \in ResIds : rsv'[j] # NoRow /\ <<rsv'[j].user, rsv'[j].key>> = KeyOf(tx[d].req)
                                      => rsv'[j].created + IdempotencyTTL <= tx[d].acquired
      <4>1. d # c /\ HoldsKey(d) /\ KeyOf(tx[d].req) # k
        BY Zenon, <3>1, <3>2, <3>4
      <4>2. tx'[d] = tx[d]
        BY Zenon, <2>3, <4>1
      <4>3. Unused(d)
        BY Zenon, <1>3, <4>1
      <4>4. ASSUME NEW j \in ResIds, rsv'[j] # NoRow, <<rsv'[j].user, rsv'[j].key>> = KeyOf(tx[d].req)
            PROVE  rsv'[j].created + IdempotencyTTL <= tx[d].acquired
        <5>1. j # id
          BY Zenon, <3>3, <4>1, <4>4
        <5>2. rsv'[j] = rsv[j]
          BY Zenon, <2>2, <5>1
        <5> QED
          BY Zenon, <4>3, <4>4, <5>2
      <4> QED
        BY Zenon, <2>1, <4>2, <4>3, <4>4
    <3> QED
      BY Zenon, <3>4 DEF KeyStillUnused, KeyOf
  <2>10. KeysCovered'
    <3>1. ASSUME NEW j \in ResIds \ {id}, rsv[j] # NoRow, <<rsv[j].user, rsv[j].key>> = k
          PROVE  rsv[j].created + IdempotencyTTL <= now
      BY SMTT(30), <1>0, <1>1, <2>7, <2>8, <3>1
    <3>2. ASSUME NEW j \in ResIds \ {id}, rsv[j] # NoRow, <<rsv[j].user, rsv[j].key>> # k
          PROVE  idem'[<<rsv[j].user, rsv[j].key>>] = idem[<<rsv[j].user, rsv[j].key>>]
      BY Zenon, <1>1, <2>5, <3>2
    <3>3. <<rsv'[id].user, rsv'[id].key>> = k /\ rsv'[id].created = new
      BY Zenon, <2>2 DEF KeyOf
    <3>4. ASSUME NEW j \in ResIds, rsv'[j] # NoRow
          PROVE  LET q == <<rsv'[j].user, rsv'[j].key>> IN
                 \/ rsv'[j].created + IdempotencyTTL <= now'
                 \/ idem'[q] # NoRecord /\ rsv'[j].created + IdempotencyTTL <= idem'[q].expires
      <4>1. CASE j = id
        <5>1. new + IdempotencyTTL <= new + IdempotencyTTL
          BY <1>0, <2>8
        <5> QED
          BY Zenon, <2>6, <3>3, <4>1, <5>1
      <4>2. CASE j # id /\ <<rsv[j].user, rsv[j].key>> = k
        BY ZenonT(30), <2>1, <2>2, <3>1, <3>4, <4>2
      <4>3. CASE j # id /\ <<rsv[j].user, rsv[j].key>> # k
        BY <2>1, <2>2, <3>2, <3>4, <4>3 DEF KeysCovered
      <4> QED
        BY Zenon, <4>1, <4>2, <4>3
    <3> QED
      BY Zenon, <3>4 DEF KeysCovered
  <2>11. KeyCreatesOnce'
    <3>1. ASSUME NEW j \in ResIds \ {id}, rsv[j].status # "none",
                 rsv[j].user = tx[c].req.user, rsv[j].key = tx[c].req.key
          PROVE  new >= rsv[j].created + IdempotencyTTL
      BY SMTT(30), <1>0, <1>1, <2>7, <2>8, <3>1 DEF NoRow, KeyOf
    <3>2. ASSUME NEW a \in ResIds, NEW b \in ResIds, a # b,
                 rsv'[a].status # "none", rsv'[b].status # "none",
                 rsv'[a].user = rsv'[b].user, rsv'[a].key = rsv'[b].key
          PROVE  \/ rsv'[a].created >= rsv'[b].created + IdempotencyTTL
                 \/ rsv'[b].created >= rsv'[a].created + IdempotencyTTL
      <4>1. CASE a = id
        <5>1. b # id /\ rsv'[b] = rsv[b]
          BY Zenon, <2>2, <3>2, <4>1
        <5>2. /\ rsv[b].status # "none" /\ rsv[b].user = tx[c].req.user /\ rsv[b].key = tx[c].req.key
              /\ rsv'[a].created = new
          BY Zenon, <2>2, <3>2, <4>1, <5>1
        <5> QED
          BY Zenon, <3>1, <5>1, <5>2
      <4>2. CASE b = id
        <5>1. a # id /\ rsv'[a] = rsv[a]
          BY Zenon, <2>2, <3>2, <4>2
        <5>2. /\ rsv[a].status # "none" /\ rsv[a].user = tx[c].req.user /\ rsv[a].key = tx[c].req.key
              /\ rsv'[b].created = new
          BY Zenon, <2>2, <3>2, <4>2, <5>1
        <5> QED
          BY Zenon, <3>1, <5>1, <5>2
      <4>3. CASE a # id /\ b # id
        <5>1. rsv'[a] = rsv[a] /\ rsv'[b] = rsv[b]
          BY Zenon, <2>2, <4>3
        <5> QED
          BY Zenon, <3>2, <5>1 DEF KeyCreatesOnce
      <4> QED
        BY Zenon, <4>1, <4>2, <4>3
    <3> QED
      BY Zenon, <3>2 DEF KeyCreatesOnce
  <2> QED
    BY Zenon, <2>9, <2>10, <2>11
<1>10. ASSUME NEW id \in ResIds, NEW st \in {"confirmed", "cancelled", "expired"}, StatusMove(id, st)
       PROVE  KeyStillUnused' /\ KeysCovered' /\ KeyCreatesOnce'
  <2>1. /\ \A j \in ResIds \ {id} : rsv'[j] = rsv[j]
        /\ rsv[id] # NoRow /\ rsv[id].status # "none" /\ rsv'[id].status # "none" /\ rsv'[id] # NoRow
        /\ rsv'[id].user = rsv[id].user /\ rsv'[id].key = rsv[id].key
        /\ rsv'[id].created = rsv[id].created
    BY SMTT(60), <1>10, StatusEffect DEF StatusMove, Active, NoRow
  <2>2. UNCHANGED <<now, idem, tx>>
    BY Zenon, <1>10 DEF StatusMove
  <2>3. KeyStillUnused'
    BY SMTT(60), <2>1, <2>2 DEF KeyStillUnused, HoldsKey, KeyOf
  <2>4. KeysCovered'
    BY Zenon, <2>1, <2>2 DEF KeysCovered
  <2>5. KeyCreatesOnce'
    BY <2>1 DEF KeyCreatesOnce
  <2> QED
    BY Zenon, <2>3, <2>4, <2>5
<1> QED
  BY ZenonT(30), <1>4, <1>5, <1>6, <1>7, <1>8, <1>9, <1>10, StepShapes, WorkingEffect
  DEF CommissionTrainRun, Unlocked, HoldsKey

-----------------------------------------------------------------------------
(* Quotas.                                                                 *)

\* What a user holds is finite.
LEMMA HeldFinite ==
    ASSUME NEW u
    PROVE  /\ IsFiniteSet(HeldBy(u)) /\ Cardinality(HeldBy(u)) \in Nat
           /\ \A run : IsFiniteSet(HeldByOn(u, run)) /\ Cardinality(HeldByOn(u, run)) \in Nat
           /\ IsFiniteSet(HeldPassengers(u)) /\ Cardinality(HeldPassengers(u)) \in Nat
<1>1. IsFiniteSet(HeldBy(u))
  BY Zenon, IdAssumption, FS_Subset DEF HeldBy
<1>2. \A run : IsFiniteSet(HeldByOn(u, run))
  BY Zenon, <1>1, FS_Subset DEF HeldByOn
<1>3. IsFiniteSet(HeldPassengers(u))
  <2>1. IsFiniteSet(HeldBy(u) \X Passengers)
    BY Zenon, <1>1, PassengerAssumption, FS_Product
  <2> QED
    BY Zenon, <2>1, FS_Subset DEF HeldPassengers
<1> QED
  BY Zenon, <1>1, <1>2, <1>3, FS_CardinalityType

\* The same after a step.
LEMMA HeldFiniteNext ==
    ASSUME NEW u
    PROVE  /\ Cardinality(HeldBy(u)') \in Nat /\ Cardinality(HeldPassengers(u)') \in Nat
           /\ \A run : Cardinality(HeldByOn(u, run)') \in Nat
<1>1. IsFiniteSet(HeldBy(u)')
  BY Zenon, IdAssumption, FS_Subset DEF HeldBy
<1>2. \A run : IsFiniteSet(HeldByOn(u, run)')
  BY Zenon, <1>1, FS_Subset DEF HeldByOn
<1>3. IsFiniteSet(HeldPassengers(u)')
  <2>1. IsFiniteSet(HeldBy(u)' \X Passengers)
    BY Zenon, <1>1, PassengerAssumption, FS_Product
  <2> QED
    BY Zenon, <2>1, FS_Subset DEF HeldPassengers
<1> QED
  BY Zenon, <1>1, <1>2, <1>3, FS_CardinalityType

\* A user that holds no more than before has as much room as before.
LEMMA QuotaShrinks ==
    ASSUME NEW u, HeldBy(u)' \subseteq HeldBy(u),
           \A run : HeldByOn(u, run)' \subseteq HeldByOn(u, run),
           HeldPassengers(u)' \subseteq HeldPassengers(u)
    PROVE  /\ Cardinality(HeldBy(u))' \in Nat /\ Cardinality(HeldBy(u))' <= Cardinality(HeldBy(u))
           /\ \A run : /\ Cardinality(HeldByOn(u, run))' \in Nat
                       /\ Cardinality(HeldByOn(u, run))' <= Cardinality(HeldByOn(u, run))
           /\ Cardinality(HeldPassengers(u))' \in Nat
           /\ Cardinality(HeldPassengers(u))' <= Cardinality(HeldPassengers(u))
<1>1. ASSUME NEW S, NEW T, T \subseteq S, IsFiniteSet(S)
      PROVE  Cardinality(T) \in Nat /\ Cardinality(T) <= Cardinality(S)
  BY Zenon, <1>1, FS_Subset, FS_CardinalityType
<1>2. /\ Cardinality(HeldBy(u)') \in Nat /\ Cardinality(HeldBy(u)') <= Cardinality(HeldBy(u))
      /\ Cardinality(HeldPassengers(u)') \in Nat
      /\ Cardinality(HeldPassengers(u)') <= Cardinality(HeldPassengers(u))
  BY Zenon, <1>1, HeldFinite
<1>3. ASSUME NEW run
      PROVE  /\ Cardinality(HeldByOn(u, run)') \in Nat
             /\ Cardinality(HeldByOn(u, run)') <= Cardinality(HeldByOn(u, run))
  BY Zenon, <1>1, HeldFinite
<1> QED
  BY Zenon, <1>2, <1>3

\* A commit adds one hold and its passengers to what its user holds.
LEMMA QuotaCommit ==
    ASSUME TypeOK, RunStillScheduled, NEW c \in Clients, CommitCreateHold(c), NEW u \in Users,
           u = tx[c].req.user
    PROVE  /\ Cardinality(HeldBy(u))' <= Cardinality(HeldBy(u)) + 1
           /\ \A run \in Runs : Cardinality(HeldByOn(u, run))' <=
                 Cardinality(HeldByOn(u, run)) + (IF run = tx[c].req.run THEN 1 ELSE 0)
           /\ Cardinality(HeldPassengers(u))' <=
                 Cardinality(HeldPassengers(u)) + Cardinality(tx[c].req.passengers)
<1> DEFINE P == tx[c].req.passengers
<1>1. PICK id \in ResIds :
        /\ rsv[id] = NoRow /\ \A j \in ResIds \ {id} : rsv'[j] = rsv[j]
        /\ rsv'[id].status = "held" /\ rsv'[id].user = u /\ rsv'[id].run = tx[c].req.run
        /\ rsv'[id].passengers = P
  BY Zenon, CommitEffect
<1>2. HeldBy(u)' = HeldBy(u) \cup {id} /\ id \notin HeldBy(u)
  BY <1>1 DEF HeldBy, NoRow
<1>3. \A run : HeldByOn(u, run)' = HeldByOn(u, run) \cup (IF run = tx[c].req.run THEN {id} ELSE {})
  BY <1>1, <1>2 DEF HeldByOn, HeldBy, NoRow
<1>4. P \in SUBSET Passengers
  BY Zenon, CommitEffect DEF Request
<1>5. HeldPassengers(u)' = HeldPassengers(u) \cup ({id} \X P)
  <2>1. ASSUME NEW j \in ResIds, NEW p \in Passengers
        PROVE  /\ <<j, p>> \in HeldPassengers(u) <=> j \in HeldBy(u) /\ p \in rsv[j].passengers
               /\ <<j, p>> \in HeldPassengers(u)' <=> j \in HeldBy(u)' /\ p \in rsv'[j].passengers
    BY Zenon DEF HeldPassengers
  <2>2. ASSUME NEW j \in ResIds, NEW p \in Passengers
        PROVE  <<j, p>> \in HeldPassengers(u)'
                  <=> <<j, p>> \in HeldPassengers(u) \/ <<j, p>> \in {id} \X P
    BY Zenon, <1>1, <1>2, <2>1
  <2>3. /\ HeldPassengers(u) \in SUBSET (ResIds \X Passengers)
        /\ HeldPassengers(u)' \in SUBSET (ResIds \X Passengers)
        /\ {id} \X P \in SUBSET (ResIds \X Passengers)
    BY Zenon, <1>4 DEF HeldPassengers, HeldBy
  <2> QED
    BY <2>2, <2>3
<1>6. IsFiniteSet({id} \X P) /\ Cardinality({id} \X P) = Cardinality(P) /\ Cardinality(P) \in Nat
  <2>1. IsFiniteSet(P) /\ Cardinality(P) \in Nat
    BY Zenon, <1>4, PassengerAssumption, FS_Subset, FS_CardinalityType
  <2>2. IsFiniteSet({id}) /\ Cardinality({id}) = 1
    BY Zenon, FS_Singleton
  <2>3. IsFiniteSet({id} \X P) /\ Cardinality({id} \X P) = Cardinality({id}) * Cardinality(P)
    BY Zenon, <2>1, <2>2, FS_Product
  <2> QED
    BY <2>1, <2>2, <2>3
<1>7. ASSUME NEW S, NEW T, IsFiniteSet(S), IsFiniteSet(T)
      PROVE  Cardinality(S \cup T) <= Cardinality(S) + Cardinality(T)
  <2>1. Cardinality(S \cap T) \in Nat
    BY Zenon, <1>7, FS_Subset, FS_CardinalityType
  <2>2. Cardinality(S) \in Nat /\ Cardinality(T) \in Nat
    BY Zenon, <1>7, FS_CardinalityType
  <2>3. Cardinality(S \cup T) = Cardinality(S) + Cardinality(T) - Cardinality(S \cap T)
    BY Zenon, <1>7, FS_Union
  <2> QED
    BY <2>1, <2>2, <2>3
<1>8. IsFiniteSet({id}) /\ Cardinality({id}) = 1 /\ IsFiniteSet({}) /\ Cardinality({}) = 0
  BY Zenon, FS_Singleton, FS_EmptySet
<1>9. Cardinality(HeldBy(u)') <= Cardinality(HeldBy(u)) + 1
  BY Zenon, <1>2, <1>7, <1>8, HeldFinite
<1>10. ASSUME NEW run \in Runs
       PROVE  Cardinality(HeldByOn(u, run)') <=
                Cardinality(HeldByOn(u, run)) + (IF run = tx[c].req.run THEN 1 ELSE 0)
  <2>1. CASE run = tx[c].req.run
    <3>1. HeldByOn(u, run)' = HeldByOn(u, run) \cup {id}
      BY Zenon, <1>3, <2>1
    <3> QED
      BY Zenon, <1>7, <1>8, <2>1, <3>1, HeldFinite
  <2>2. CASE run # tx[c].req.run
    <3>1. HeldByOn(u, run)' = HeldByOn(u, run)
      BY SMTT(30), <1>3, <2>2
    <3>2. Cardinality(HeldByOn(u, run)) \in Nat
      BY Zenon, HeldFinite
    <3> QED
      BY <2>2, <3>1, <3>2
  <2> QED
    BY Zenon, <2>1, <2>2
<1>11. Cardinality(HeldPassengers(u)') <= Cardinality(HeldPassengers(u)) + Cardinality(P)
  BY Zenon, <1>5, <1>6, <1>7, HeldFinite
<1> QED
  BY Zenon, <1>9, <1>10, <1>11

\* Room found under the user's lock is still there at commit.
LEMMA QuotaStep ==
    ASSUME IInv, [Next]_vars
    PROVE  QuotaRespected' /\ QuotaStillHasRoom'
<1> USE DEF IInv, ChecksStayTrue
<1> DEFINE Room(c) == LET r == tx[c].req IN
              /\ Cardinality(HeldBy(r.user)) < MaxHoldsPerUser
              /\ Cardinality(HeldByOn(r.user, r.run)) < MaxHoldsPerUserPerRun
              /\ Cardinality(HeldPassengers(r.user)) + Cardinality(r.passengers)
                    <= MaxPassengersPerUser
           Within(u) == /\ Cardinality(HeldBy(u)) <= MaxHoldsPerUser
                        /\ \A run \in Runs : Cardinality(HeldByOn(u, run)) <= MaxHoldsPerUserPerRun
                        /\ Cardinality(HeldPassengers(u)) <= MaxPassengersPerUser
           NoMore(u) == /\ HeldBy(u)' \subseteq HeldBy(u)
                        /\ \A run : HeldByOn(u, run)' \subseteq HeldByOn(u, run)
                        /\ HeldPassengers(u)' \subseteq HeldPassengers(u)
<1>0. {MaxHoldsPerUser, MaxHoldsPerUserPerRun, MaxPassengersPerUser} \subseteq Nat
  BY Zenon, LimitAssumption
<1>1. ASSUME NEW u \in Users, NoMore(u) PROVE Within(u)'
  <2>1. Within(u)
    BY Zenon DEF QuotaRespected
  <2> QED
    BY <1>0, <1>1, <2>1, QuotaShrinks, HeldFinite
<1>2. ASSUME NEW d \in Clients, HoldsUser(d)
      PROVE  /\ Room(d) /\ tx[d].req \in Request /\ Cardinality(tx[d].req.passengers) \in Nat
  <2>1. tx[d].req \in Request
    BY Zenon, <1>2, OpenTransaction DEF HoldsUser
  <2>2. Cardinality(tx[d].req.passengers) \in Nat
    BY SMTT(30), <2>1, PassengerAssumption, FS_Subset, FS_CardinalityType DEF Request
  <2> QED
    BY Zenon, <1>2, <2>1, <2>2 DEF QuotaStillHasRoom
<1>3. ASSUME NEW d \in Clients, HoldsUser(d), tx'[d].req = tx[d].req, NoMore(tx[d].req.user)
      PROVE  Room(d)'
  <2> DEFINE r == tx[d].req
  <2>1. /\ Cardinality(HeldBy(r.user)') \in Nat
        /\ Cardinality(HeldBy(r.user)') <= Cardinality(HeldBy(r.user))
        /\ Cardinality(HeldByOn(r.user, r.run)') \in Nat
        /\ Cardinality(HeldByOn(r.user, r.run)') <= Cardinality(HeldByOn(r.user, r.run))
        /\ Cardinality(HeldPassengers(r.user)') \in Nat
        /\ Cardinality(HeldPassengers(r.user)') <= Cardinality(HeldPassengers(r.user))
    BY Zenon, <1>3, QuotaShrinks
  <2>2. Room(d) /\ Cardinality(r.passengers) \in Nat
    BY Zenon, <1>2, <1>3
  <2> QED
    BY SMTT(60), <1>0, <1>3, <2>1, <2>2, HeldFinite
<1>4. ASSUME NEW c \in Clients, \A u \in Users : NoMore(u),
             \A d \in Clients \ {c} : tx'[d] = tx[d], HoldsUser(c)' => Room(c)'
      PROVE  QuotaRespected' /\ QuotaStillHasRoom'
  <2>1. QuotaRespected'
    BY Zenon, <1>1, <1>4 DEF QuotaRespected
  <2>2. ASSUME NEW d \in Clients, HoldsUser(d)' PROVE Room(d)'
    <3>1. CASE d = c
      BY Zenon, <1>4, <2>2, <3>1
    <3>2. CASE d # c
      <4>1. HoldsUser(d) /\ tx'[d] = tx[d]
        BY Zenon, <1>4, <2>2, <3>2 DEF HoldsUser
      <4>2. tx[d].req.user \in Users
        BY Zenon, <1>2, <4>1 DEF Request
      <4> QED
        BY Zenon, <1>3, <1>4, <4>1, <4>2
    <3> QED
      BY Zenon, <3>1, <3>2
  <2> QED
    BY Zenon, <2>1, <2>2 DEF QuotaStillHasRoom
<1>5. ASSUME rsv' = rsv PROVE \A u \in Users : NoMore(u)
  BY Zenon, <1>5 DEF HeldBy, HeldByOn, HeldPassengers
<1>6. ASSUME UNCHANGED tx, \A u \in Users : NoMore(u)
      PROVE  QuotaRespected' /\ QuotaStillHasRoom'
  <2>1. QuotaRespected'
    BY Zenon, <1>1, <1>6 DEF QuotaRespected
  <2>2. ASSUME NEW d \in Clients, HoldsUser(d) PROVE Room(d)'
    BY Zenon, <1>2, <1>3, <1>6, <2>2 DEF Request
  <2> QED
    BY Zenon, <1>6, <2>1, <2>2 DEF QuotaStillHasRoom, HoldsUser
<1>7. ASSUME NEW c \in Clients, Working(c) PROVE QuotaRespected' /\ QuotaStillHasRoom'
  <2>1. rsv' = rsv /\ tx'[c].req = tx[c].req /\ \A d \in Clients \ {c} : tx'[d] = tx[d]
    BY Zenon, <1>7, WorkingEffect
  <2>2. CASE KeyTaken(c) \/ RecheckAdmissionPolicy(c)
    <3>1. ~ HoldsUser(c)'
      BY ZenonT(60), <2>2, AcquireEffect, AdvanceEffect DEF KeyTaken, AcquireIdempotency, HoldsUser,
         RecheckAdmissionPolicy, Steps
    <3> QED
      BY Zenon, <1>4, <1>5, <2>1, <3>1
  <2>3. CASE Room(c)
    <3>1. Room(c)'
      BY Zenon, <2>1, <2>3 DEF HeldBy, HeldByOn, HeldPassengers
    <3> QED
      BY Zenon, <1>4, <1>5, <2>1, <3>1
  <2>4. CASE EnforceReservationQuota(c)
    <3> DEFINE r == tx[c].req
    <3>1. r.user \in Users /\ Cardinality(r.passengers) \in Nat
      BY Zenon, <2>4, OpenTransaction, PassengerAssumption, FS_Subset, FS_CardinalityType
      DEF EnforceReservationQuota, Request
    <3>2. /\ Cardinality(HeldBy(r.user)) \in Nat /\ Cardinality(HeldByOn(r.user, r.run)) \in Nat
          /\ Cardinality(HeldPassengers(r.user)) \in Nat
      BY Zenon, HeldFinite
    <3>3. Room(c)
      BY <1>0, <2>4, <3>1, <3>2 DEF EnforceReservationQuota, AtOrAboveLimit
    <3> QED
      BY SMTT(30), <2>3, <3>3
  <2>5. CASE LockTrainRun(c) \/ LockPassengers(c) \/ AllocateSeats(c)
    BY ZenonT(60), <1>2, <2>3, <2>5 DEF LockTrainRun, LockPassengers, AllocateSeats, HoldsUser
  <2> QED
    BY Zenon, <1>7, <2>2, <2>4, <2>5 DEF Working
<1>8. ASSUME NEW c \in Clients, CommitCreateHold(c) PROVE QuotaRespected' /\ QuotaStillHasRoom'
  <2> DEFINE r == tx[c].req
  <2>1. HoldsUser(c)
    BY Zenon, <1>8 DEF CommitCreateHold, HoldsUser
  <2>2. tx'[c] = Idle /\ \A d \in Clients \ {c} : tx'[d] = tx[d]
    BY Zenon, <1>8 DEF CommitCreateHold, TypeOK
  <2>3. ASSUME NEW u \in Users, u # r.user PROVE NoMore(u)
    <3>1. PICK id \in ResIds : (\A j \in ResIds \ {id} : rsv'[j] = rsv[j]) /\ rsv'[id].user = r.user
      BY ZenonT(60), <1>8, CommitEffect
    <3>2. HeldBy(u)' \subseteq HeldBy(u) /\ \A j \in HeldBy(u)' : rsv'[j] = rsv[j]
      BY Zenon, <2>3, <3>1 DEF HeldBy
    <3>3. \A run : HeldByOn(u, run)' \subseteq HeldByOn(u, run)
      BY Zenon, <3>2 DEF HeldByOn
    <3>4. HeldPassengers(u)' \subseteq HeldPassengers(u)
      BY Zenon, <3>2 DEF HeldPassengers
    <3> QED
      BY Zenon, <3>2, <3>3, <3>4
  <2>4. ASSUME NEW u \in Users, u = r.user PROVE Within(u)'
    <3>1. Room(c) /\ Cardinality(r.passengers) \in Nat /\ Within(u)
      BY Zenon, <1>2, <2>1 DEF QuotaRespected
    <3>2. /\ Cardinality(HeldBy(u)') <= Cardinality(HeldBy(u)) + 1
          /\ \A run \in Runs : Cardinality(HeldByOn(u, run)') <=
                Cardinality(HeldByOn(u, run)) + (IF run = r.run THEN 1 ELSE 0)
          /\ Cardinality(HeldPassengers(u)') <= Cardinality(HeldPassengers(u)) + Cardinality(r.passengers)
      BY Zenon, <1>8, <2>4, QuotaCommit
    <3>3. /\ Cardinality(HeldBy(u)') \in Nat /\ Cardinality(HeldPassengers(u)') \in Nat
          /\ Cardinality(HeldBy(u)) \in Nat /\ Cardinality(HeldPassengers(u)) \in Nat
      BY Zenon, HeldFinite, HeldFiniteNext
    <3>4. ASSUME NEW run \in Runs PROVE Cardinality(HeldByOn(u, run)') <= MaxHoldsPerUserPerRun
      <4>1. Cardinality(HeldByOn(u, run)') \in Nat /\ Cardinality(HeldByOn(u, run)) \in Nat
        BY Zenon, HeldFinite, HeldFiniteNext
      <4>2. Cardinality(HeldByOn(u, run)') <=
                Cardinality(HeldByOn(u, run)) + (IF run = r.run THEN 1 ELSE 0)
        BY Zenon, <3>2
      <4>3. run = r.run => Cardinality(HeldByOn(u, run)) < MaxHoldsPerUserPerRun
        BY Zenon, <2>4, <3>1
      <4>4. Cardinality(HeldByOn(u, run)) <= MaxHoldsPerUserPerRun
        BY Zenon, <3>1
      <4> QED
        BY SMTT(30), <1>0, <4>1, <4>2, <4>3, <4>4
    <3> QED
      BY SMTT(60), <1>0, <2>4, <3>1, <3>2, <3>3, <3>4
  <2>5. QuotaRespected'
    BY Zenon, <1>1, <2>3, <2>4 DEF QuotaRespected
  <2>6. ASSUME NEW d \in Clients, HoldsUser(d)' PROVE Room(d)'
    <3>1. d # c /\ HoldsUser(d) /\ tx'[d].req = tx[d].req
      BY SMTT(30), <2>2, <2>6 DEF HoldsUser, Idle
    <3>2. tx[d].req.user \in Users /\ tx[d].req.user # r.user
      BY Zenon, <1>2, <2>1, <3>1 DEF LocksExclusive, UserLocksExclusive, Request
    <3> QED
      BY Zenon, <1>3, <2>3, <3>1, <3>2
  <2> QED
    BY Zenon, <2>5, <2>6 DEF QuotaStillHasRoom
<1>9. ASSUME NEW id \in ResIds, NEW st \in {"confirmed", "cancelled", "expired"}, StatusMove(id, st)
      PROVE  \A u \in Users : NoMore(u)
  <2>1. /\ \A j \in ResIds \ {id} : rsv'[j] = rsv[j] /\ rsv'[id].status # "held"
    BY ZenonT(30), <1>9, StatusEffect DEF StatusMove, Active
  <2>2. \A u : HeldBy(u)' \subseteq HeldBy(u) /\ \A j \in HeldBy(u)' : rsv'[j] = rsv[j]
    BY <1>9, <2>1, StatusEffect DEF HeldBy, StatusMove, Active
  <2>3. \A u, run : HeldByOn(u, run)' \subseteq HeldByOn(u, run)
    BY Zenon, <2>2 DEF HeldByOn
  <2>4. \A u : HeldPassengers(u)' \subseteq HeldPassengers(u)
    BY Zenon, <2>2 DEF HeldPassengers
  <2> QED
    BY Zenon, <2>2, <2>3, <2>4
<1> QED
  BY <1>4, <1>5, <1>6, <1>7, <1>8, <1>9, StepShapes
  DEF Background, CommissionTrainRun, Unlocked, StatusMove, HoldsUser

-----------------------------------------------------------------------------
(* The theorems.                                                           *)

\* The empty database satisfies the invariant.
LEMMA InitIInv == Init => IInv
<1> SUFFICES ASSUME Init PROVE IInv
  BY Zenon
<1>1. TypeOK
  BY TimeAssumption DEF Init, TypeOK, RunStatuses
<1>2. \A id \in ResIds : rsv[id] = NoRow /\ ~ Active(id) /\ rsv[id].status = "none"
  BY Zenon DEF Init, Active, NoRow
<1>3. \A c \in Clients : tx[c].pc = "idle"
  BY Zenon DEF Init, Idle
<1>4. SeatExclusive /\ InventoryExact /\ PassengerBookedOnce /\ KeyCreatesOnce
  BY Zenon, <1>2 DEF Init, SeatExclusive, InventoryExact, PassengerBookedOnce, KeyCreatesOnce
<1>5. QuotaRespected
  <2>1. \A u : HeldBy(u) = {} /\ (\A run : HeldByOn(u, run) = {}) /\ HeldPassengers(u) = {}
    BY Zenon, <1>2 DEF HeldBy, HeldByOn, HeldPassengers
  <2> QED
    BY SMTT(30), <2>1, FS_EmptySet, LimitAssumption DEF QuotaRespected
<1>6. ChecksStayTrue /\ LocksExclusive
  BY Zenon, <1>3 DEF ChecksStayTrue, PolicyStillCurrent, QuotaStillHasRoom, RunStillScheduled,
     PassengersStillFree, SeatsStillFree, KeyStillUnused, LocksExclusive, KeyLocksExclusive,
     UserLocksExclusive, PassengerLocksExclusive, SeatLocksExclusive, HoldsKey, HoldsPolicy,
     HoldsUser, HoldsRun, HoldsPassengers, HoldsSeats
<1>7. KeysCovered /\ AbsentRunsEmpty
  BY Zenon, <1>2 DEF KeysCovered, AbsentRunsEmpty
<1> QED
  BY Zenon, <1>1, <1>4, <1>5, <1>6, <1>7 DEF IInv

\* Every step of the store keeps it.
LEMMA StepIInv == IInv /\ [Next]_vars => IInv'
  BY SMTT(30), TypeStep, SeatStep, PassengerStep, LockStep, PolicyStep, RunStep, PassengersFreeStep,
     SeatsFreeStep, KeyStep, QuotaStep
  DEF IInv, ChecksStayTrue

\* The inductive invariant holds in every reachable state, for any number of
\* clients, users, runs, seats, passengers and keys.
THEOREM InvariantHolds == Spec => []IInv
  BY InitIInv, StepIInv, PTL DEF Spec

\* Every variable of the booking store keeps its type.
THEOREM TypeCorrect == Spec => []TypeOK
<1>1. IInv => TypeOK
  BY Zenon DEF IInv
<1> QED
  BY <1>1, InvariantHolds, PTL

\* AllocateSeats, cancellation and expiry never let two active reservations
\* share a seat on a segment.
THEOREM SeatsSoldOnce == Spec => []SeatExclusive
<1>1. IInv => SeatExclusive
  BY Zenon DEF IInv
<1> QED
  BY <1>1, InvariantHolds, PTL

\* seat_inventory is what the active reservations occupy: a release frees what
\* its own hold took, and nothing leaks.
THEOREM InventoryStaysExact == Spec => []InventoryExact
<1>1. IInv => InventoryExact
  BY Zenon DEF IInv
<1> QED
  BY <1>1, InvariantHolds, PTL

\* ensurePassengersAvailable under the passengers' row locks: no passenger has
\* two active reservations on one run.
THEOREM PassengersBookedOnce == Spec => []PassengerBookedOnce
<1>1. IInv => PassengerBookedOnce
  BY Zenon DEF IInv
<1> QED
  BY <1>1, InvariantHolds, PTL

\* enforceReservationQuota under the user's advisory lock: no interleaving of
\* creates takes a user past a limit.
THEOREM QuotaHolds == Spec => []QuotaRespected
<1>1. IInv => QuotaRespected
  BY Zenon DEF IInv
<1> QED
  BY <1>1, InvariantHolds, PTL

\* AcquireIdempotency: a key creates at most one reservation per window.
THEOREM KeysCreateOnce == Spec => []KeyCreatesOnce
<1>1. IInv => KeyCreatesOnce
  BY Zenon DEF IInv
<1> QED
  BY <1>1, InvariantHolds, PTL

\* What a transaction checked under a lock is still true when it commits.
THEOREM ChecksHoldAtCommit == Spec => []ChecksStayTrue
<1>1. IInv => ChecksStayTrue
  BY Zenon DEF IInv
<1> QED
  BY <1>1, InvariantHolds, PTL

\* A hold becomes visible only under the policy it was admitted with and on a
\* scheduled run (recheckAdmissionPolicy, the run's FOR SHARE).
THEOREM CommitsUnderCheckedState == Spec => HoldsCommitUnderCheckedState
<1> DEFINE A == \A id \in ResIds : HoldAppears(id) =>
                 \E c \in Clients :
                    /\ tx[c].pc = "insert" /\ tx'[c] = Idle
                    /\ runStatus[tx[c].req.run] = "scheduled"
                    /\ tx[c].observed = CurrentPolicy(<<tx[c].req.run, tx[c].req.class>>)
<1>1. ASSUME IInv, [Next]_vars PROVE A
  <2> USE DEF IInv, ChecksStayTrue
  <2>1. CASE UNCHANGED rsv
    BY Zenon, <2>1 DEF HoldAppears
  <2>2. ASSUME NEW c \in Clients, CommitCreateHold(c) PROVE A
    <3>1. tx[c].pc = "insert" /\ tx'[c] = Idle
      BY ZenonT(60), <1>1, <2>2 DEF CommitCreateHold, TypeOK
    <3>2. runStatus[tx[c].req.run] = "scheduled"
      BY Zenon, <1>1, <3>1 DEF RunStillScheduled, HoldsRun
    <3>3. tx[c].observed = CurrentPolicy(<<tx[c].req.run, tx[c].req.class>>)
      BY Zenon, <1>1, <3>1 DEF PolicyStillCurrent, HoldsPolicy
    <3> QED
      BY Zenon, <3>1, <3>2, <3>3
  <2>3. ASSUME NEW id \in ResIds, NEW st \in {"confirmed", "cancelled", "expired"}, StatusMove(id, st)
        PROVE  A
    BY SMTT(60), <1>1, <2>3, StatusEffect DEF StatusMove, Active, HoldAppears, NoRow
  <2> QED
    BY Zenon, <1>1, <2>1, <2>2, <2>3, StepShapes, WorkingEffect DEF Background, CommissionTrainRun, Unlocked
<1>2. IInv /\ [Next]_vars => [A]_vars
  BY Zenon, <1>1
<1> QED
  BY <1>2, InvariantHolds, PTL DEF Spec, HoldsCommitUnderCheckedState

-----------------------------------------------------------------------------
(* Ticket orders and the records of commands.                              *)

\* CommandReplaysSucceed without regard to the record's age: what a command
\* left behind is never undone.
CommandRecordsTrue ==
    \A k \in DOMAIN cmdIdem :
        cmdIdem[k] # NoRecord =>
            IF k[2] = "confirm" THEN orders[cmdIdem[k].resource] # "none"
                                ELSE rsv[cmdIdem[k].resource].status = "cancelled"

OrdersInv == OrdersFollowReservations /\ CommandRecordsTrue

\* What a step does to the reservations that exist: their status may move
\* forward, and nothing else of them changes.
MovesForward(id) ==
    /\ rsv'[id] # NoRow
    /\ rsv'[id] = [rsv[id] EXCEPT !.status = rsv'[id].status]
    /\ \/ rsv'[id].status = rsv[id].status
       \/ rsv[id].status = "held"
       \/ rsv[id].status = "confirmed" /\ rsv'[id].status = "cancelled"

LEMMA UnmovedForward ==
    ASSUME TypeOK, NEW id \in ResIds, rsv[id] # NoRow, rsv'[id] = rsv[id]
    PROVE  MovesForward(id)
<1>1. rsv[id] \in Reservation
  BY Zenon DEF TypeOK
<1>2. rsv[id] = [rsv[id] EXCEPT !.status = rsv[id].status]
  BY Zenon, <1>1 DEF Reservation
<1> QED
  BY Zenon, <1>2 DEF MovesForward

\* A command changes the status of its own reservation only.
LEMMA CommandMovesForward ==
    ASSUME TypeOK, NEW id \in ResIds, NEW st \in {"confirmed", "cancelled", "expired"},
           \/ rsv[id].status = "held"
           \/ rsv[id].status = "confirmed" /\ st = "cancelled",
           rsv' = [rsv EXCEPT ![id].status = st],
           NEW j \in ResIds, rsv[j] # NoRow
    PROVE  MovesForward(j)
<1>1. CASE j # id
  <2>1. rsv'[j] = rsv[j]
    BY Zenon, <1>1 DEF TypeOK
  <2> QED
    BY Zenon, <2>1, UnmovedForward
<1>2. CASE j = id
  <2>1. rsv[id] \in Reservation
    BY Zenon, <1>2 DEF TypeOK
  <2>2. rsv'[id] = [rsv[id] EXCEPT !.status = st]
    BY Zenon DEF TypeOK
  <2>3. rsv'[id].status = st /\ rsv'[id] # NoRow
    BY SMTT(30), <2>1, <2>2 DEF Reservation, NoRow
  <2> QED
    BY Zenon, <1>2, <2>2, <2>3 DEF MovesForward
<1> QED
  BY Zenon, <1>1, <1>2

\* The steps that leave reservations, orders and command records alone.
LEMMA OrdersUntouched ==
    ASSUME TypeOK, OrdersInv, UNCHANGED <<rsv, orders, cmdIdem>>
    PROVE  OrdersInv' /\ \A j \in ResIds : rsv[j] # NoRow => MovesForward(j)
  BY Zenon, UnmovedForward DEF OrdersInv, OrdersFollowReservations, CommandRecordsTrue

LEMMA OrdersStep ==
    ASSUME IInv, OrdersInv, [Next]_vars
    PROVE  OrdersInv' /\ \A j \in ResIds : rsv[j] # NoRow => MovesForward(j)
<1> DEFINE Forward == \A j \in ResIds : rsv[j] # NoRow => MovesForward(j)
<1>0. TypeOK /\ TypeOK' /\ RunStillScheduled
  BY Zenon, TypeStep DEF IInv, ChecksStayTrue
<1>1. ASSUME NEW c \in Clients, CommitCreateHold(c) PROVE OrdersInv' /\ Forward
  <2>1. PICK id \in ResIds : /\ rsv[id] = NoRow /\ rsv'[id].status = "held"
                             /\ \A j \in ResIds \ {id} : rsv'[j] = rsv[j]
    BY ZenonT(30), <1>0, <1>1, CommitEffect
  <2>2. UNCHANGED <<orders, cmdIdem>>
    BY Zenon, <1>1 DEF CommitCreateHold
  <2>3. rsv[id].status = "none"
    BY SMTT(30), <2>1 DEF NoRow
  <2>4. orders[id] = "none"
    BY Zenon, <1>0, <2>3 DEF OrdersInv, OrdersFollowReservations, TypeOK
  <2>5. OrdersFollowReservations'
    BY Zenon, <2>1, <2>2, <2>4 DEF OrdersInv, OrdersFollowReservations
  <2>6. CommandRecordsTrue'
    <3> SUFFICES ASSUME NEW k \in DOMAIN cmdIdem, cmdIdem[k] # NoRecord, k[2] # "confirm"
                 PROVE  rsv'[cmdIdem[k].resource].status = "cancelled"
      BY Zenon, <2>2 DEF OrdersInv, CommandRecordsTrue
    <3>1. rsv[cmdIdem[k].resource].status = "cancelled" /\ cmdIdem[k].resource \in ResIds
      BY Zenon, <1>0 DEF OrdersInv, CommandRecordsTrue, TypeOK
    <3> QED
      BY Zenon, <2>1, <2>3, <3>1
  <2>7. Forward
    BY Zenon, <1>0, <2>1, UnmovedForward
  <2> QED
    BY Zenon, <2>5, <2>6, <2>7 DEF OrdersInv
<1>2. ASSUME NEW id \in ResIds, ExpireOneDue(id) PROVE OrdersInv' /\ Forward
  <2>1. /\ rsv' = [rsv EXCEPT ![id].status = "expired"] /\ rsv[id].status = "held"
        /\ UNCHANGED <<orders, cmdIdem>>
    BY Zenon, <1>2 DEF ExpireOneDue
  <2>2. \A j \in ResIds : rsv'[j].status = IF j = id THEN "expired" ELSE rsv[j].status
    BY ZenonT(30), <1>0, <2>1, StatusEffect
  <2>3. OrdersFollowReservations'
    BY <2>1, <2>2 DEF OrdersInv, OrdersFollowReservations
  <2>4. CommandRecordsTrue'
    <3> SUFFICES ASSUME NEW k \in DOMAIN cmdIdem, cmdIdem[k] # NoRecord, k[2] # "confirm"
                 PROVE  rsv'[cmdIdem[k].resource].status = "cancelled"
      BY Zenon, <2>1 DEF OrdersInv, CommandRecordsTrue
    <3>1. rsv[cmdIdem[k].resource].status = "cancelled" /\ cmdIdem[k].resource \in ResIds
      BY <1>0 DEF OrdersInv, CommandRecordsTrue, TypeOK
    <3> QED
      BY Zenon, <2>1, <2>2, <3>1
  <2>5. Forward
    BY ZenonT(30), <1>0, <2>1, CommandMovesForward
  <2> QED
    BY Zenon, <2>3, <2>4, <2>5 DEF OrdersInv
<1>3. ASSUME NEW id \in ResIds, NEW key \in CommandKeys, NEW command \in Commands,
             rsv[id] # NoRow, CompleteIdempotency(id, command, key),
             \A j \in ResIds : orders[j] # "none" => orders'[j] # "none",
             \A j \in ResIds : rsv[j].status = "cancelled" => rsv'[j].status = "cancelled",
             IF command = "confirm" THEN orders'[id] # "none" ELSE rsv'[id].status = "cancelled"
      PROVE  CommandRecordsTrue'
  <2> DEFINE k == <<rsv[id].user, command, key>>
             rec == [fingerprint |-> id, resource |-> id, expires |-> now + IdempotencyTTL]
  <2>1. k \in DOMAIN cmdIdem /\ DOMAIN cmdIdem' = DOMAIN cmdIdem
    BY ZenonT(30), <1>0, <1>3 DEF TypeOK, Reservation
  <2>2. cmdIdem'[k] = rec /\ rec.resource = id /\ k[2] = command
    BY SMTT(30), <1>0, <1>3, <2>1 DEF CompleteIdempotency, TypeOK
  <2>3. \A j \in DOMAIN cmdIdem : j # k => cmdIdem'[j] = cmdIdem[j]
    BY Zenon, <1>0, <1>3 DEF CompleteIdempotency, TypeOK
  <2> HIDE DEF k, rec
  <2>4. ASSUME NEW j \in DOMAIN cmdIdem, cmdIdem'[j] # NoRecord
        PROVE  IF j[2] = "confirm" THEN orders'[cmdIdem'[j].resource] # "none"
                                   ELSE rsv'[cmdIdem'[j].resource].status = "cancelled"
    <3>1. CASE j = k
      BY Zenon, <1>3, <2>2, <3>1
    <3>2. CASE j # k
      <4>1. cmdIdem'[j] = cmdIdem[j] /\ cmdIdem[j].resource \in ResIds
        BY Zenon, <1>0, <2>3, <2>4, <3>2 DEF TypeOK
      <4> QED
        BY SMTT(30), <1>3, <2>4, <4>1 DEF OrdersInv, CommandRecordsTrue
    <3> QED
      BY Zenon, <3>1, <3>2
  <2> QED
    BY Zenon, <2>1, <2>4 DEF CommandRecordsTrue
<1>4. ASSUME NEW id \in ResIds, NEW key \in CommandKeys, ConfirmReservation(id, key)
      PROVE  OrdersInv' /\ Forward
  <2>1. rsv[id] # NoRow /\ CompleteIdempotency(id, "confirm", key)
    BY Zenon, <1>4 DEF ConfirmReservation
  <2>2. CASE rsv[id].status = "confirmed" /\ UNCHANGED <<rsv, orders>>
    <3>1. OrdersFollowReservations' /\ orders'[id] # "none"
      BY Zenon, <2>2 DEF OrdersInv, OrdersFollowReservations
    <3>2. CommandRecordsTrue'
      BY Zenon, <1>3, <2>1, <2>2, <3>1 DEF Commands
    <3> QED
      BY Zenon, <1>0, <2>2, <3>1, <3>2, UnmovedForward DEF OrdersInv
  <2>3. CASE /\ rsv[id].status = "held"
             /\ rsv' = [rsv EXCEPT ![id].status = "confirmed"]
             /\ orders' = [orders EXCEPT ![id] = "confirmed"]
    <3>1. /\ \A j \in ResIds : rsv'[j].status = IF j = id THEN "confirmed" ELSE rsv[j].status
          /\ \A j \in ResIds : orders'[j] = IF j = id THEN "confirmed" ELSE orders[j]
      BY <1>0, <2>3, StatusEffect DEF TypeOK
    <3>2. OrdersFollowReservations'
      BY Zenon, <3>1 DEF OrdersInv, OrdersFollowReservations
    <3>3. CommandRecordsTrue'
      BY <1>3, <2>1, <2>3, <3>1 DEF Commands
    <3> QED
      BY Zenon, <1>0, <2>3, <3>2, <3>3, CommandMovesForward DEF OrdersInv
  <2> QED
    BY Zenon, <1>4, <2>2, <2>3 DEF ConfirmReservation
<1>5. ASSUME NEW id \in ResIds, NEW key \in CommandKeys, CancelReservation(id, key)
      PROVE  OrdersInv' /\ Forward
  <2>1. rsv[id] # NoRow /\ CompleteIdempotency(id, "cancel", key)
    BY Zenon, <1>5 DEF CancelReservation
  <2>2. CASE rsv[id].status = "cancelled" /\ UNCHANGED <<rsv, orders>>
    <3>1. OrdersFollowReservations'
      BY Zenon, <2>2 DEF OrdersInv, OrdersFollowReservations
    <3>2. CommandRecordsTrue'
      BY Zenon, <1>3, <2>1, <2>2 DEF Commands
    <3> QED
      BY Zenon, <1>0, <2>2, <3>1, <3>2, UnmovedForward DEF OrdersInv
  <2>3. CASE /\ Active(id)
             /\ rsv' = [rsv EXCEPT ![id].status = "cancelled"]
             /\ orders' = IF rsv[id].status = "confirmed"
                          THEN [orders EXCEPT ![id] = "cancelled"] ELSE orders
    <3>1. /\ \A j \in ResIds : rsv'[j].status = IF j = id THEN "cancelled" ELSE rsv[j].status
          /\ \A j \in ResIds : orders'[j] = IF j = id /\ rsv[id].status = "confirmed"
                                              THEN "cancelled" ELSE orders[j]
      BY <1>0, <2>3, StatusEffect DEF TypeOK, Active
    <3>2. OrdersFollowReservations'
      BY <2>3, <3>1 DEF OrdersInv, OrdersFollowReservations, Active
    <3>3. CommandRecordsTrue'
      BY SMTT(30), <1>3, <2>1, <2>3, <3>1 DEF Commands
    <3> QED
      BY Zenon, <1>0, <2>3, <3>2, <3>3, CommandMovesForward DEF OrdersInv, Active
  <2> QED
    BY Zenon, <1>5, <2>2, <2>3 DEF CancelReservation
<1>6. CASE CleanupExpiredIdempotency
  <2>1. /\ UNCHANGED <<rsv, orders>> /\ DOMAIN cmdIdem' = DOMAIN cmdIdem
        /\ \A k \in DOMAIN cmdIdem : cmdIdem'[k] \in {cmdIdem[k], NoRecord}
    BY Zenon, <1>6 DEF CleanupExpiredIdempotency
  <2>2. OrdersInv'
    BY SMTT(30), <2>1 DEF OrdersInv, OrdersFollowReservations, CommandRecordsTrue
  <2> QED
    BY Zenon, <1>0, <2>1, <2>2, UnmovedForward
<1>7. ASSUME NEW c \in Clients, CreateHoldStep(c) PROVE OrdersInv' /\ Forward
  BY Zenon, <1>0, <1>1, <1>7, OrdersUntouched
  DEF CreateHoldStep, AcquireIdempotency, RecheckAdmissionPolicy, EnforceReservationQuota,
      LockTrainRun, LockPassengers, AllocateSeats, Advance
<1>8. CASE UNCHANGED <<rsv, orders, cmdIdem>>
  BY Zenon, <1>0, <1>8, OrdersUntouched
<1> QED
  BY Zenon, <1>2, <1>4, <1>5, <1>6, <1>7, <1>8
  DEF Next, vars, Tick, CommissionTrainRun, UpdateTrainRunStatus, CreatePolicy, UpdatePolicy,
      BeginCreateHold, Rollback

\* Orders and command records start empty and every step keeps them true.
LEMMA OrdersHold == Spec => []OrdersInv
<1>1. Init => OrdersInv
  BY DEF Init, OrdersInv, OrdersFollowReservations, CommandRecordsTrue, NoRow
<1>2. IInv /\ OrdersInv /\ [Next]_vars => OrdersInv'
  BY Zenon, OrdersStep
<1> QED
  BY <1>1, <1>2, InvariantHolds, PTL DEF Spec

\* A ticket order is confirmed exactly while its reservation is, and one that
\* is cancelled belongs to a cancelled reservation, whatever confirms, cancels
\* and expiries follow each other.
THEOREM OrdersFollow == Spec => []OrdersFollowReservations
<1>1. OrdersInv => OrdersFollowReservations
  BY Zenon DEF OrdersInv
<1> QED
  BY <1>1, OrdersHold, PTL

\* A replayed confirm finds its order and a replayed cancel its cancelled
\* reservation, as long as the command's record lives.
THEOREM ReplaysSucceed == Spec => []CommandReplaysSucceed
<1>1. OrdersInv => CommandReplaysSucceed
  BY Zenon DEF OrdersInv, CommandRecordsTrue, CommandReplaysSucceed, Live
<1> QED
  BY <1>1, OrdersHold, PTL

\* No step takes a reservation back, revives one that ended, or changes what
\* it booked.
THEOREM ReservationsMoveForward == Spec => ReservationsOnlyMoveForward
<1> DEFINE A == \A id \in ResIds : rsv[id] # NoRow =>
                 /\ rsv'[id] # NoRow
                 /\ rsv'[id] = [rsv[id] EXCEPT !.status = rsv'[id].status]
                 /\ \/ rsv'[id].status = rsv[id].status
                    \/ rsv[id].status = "held"
                    \/ rsv[id].status = "confirmed" /\ rsv'[id].status = "cancelled"
<1>1. IInv /\ OrdersInv /\ [Next]_vars => [A]_vars
  BY Zenon, OrdersStep DEF MovesForward
<1> QED
  BY <1>1, InvariantHolds, OrdersHold, PTL DEF Spec, ReservationsOnlyMoveForward
=============================================================================
