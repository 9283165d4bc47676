# Verification of the railway ticketing platform

TLA+ models of the platform's state-changing components, TLC configurations
that check them on small instances, and TLAPS proofs of the properties that
matter most. `PROJECT.json` links every modelling definition to the source
lines it stands for, every property to a mutant that breaks it, and lists the
hazards each property is aimed at. Paths below are relative to `src/`.

## 1. The system

A Go modular monolith that sells train seats by segment. State lives in
PostgreSQL (one control database and, from milestone 5 on, physical shards that
own train runs) and in Redis (event stream, caches, waiting room). Concurrency
is between API processes and the worker processes under `cmd/`; it is settled by
row locks, advisory locks, unique keys, fencing generations and Redis scripts.

| Component | State | Operations | Hard behaviour | What must hold | Module |
|---|---|---|---|---|---|
| Booking store `internal/booking/postgres` | reservations, seat_inventory, idempotency records, orders | create hold, confirm, cancel, expire, clean up | statements of concurrent transactions interleave; checks go stale; retries | no double sale, exact inventory, quotas, one result per key | `Booking` |
| Railway offering `internal/offering` | train runs and catalogue | commission, change status | races with holds | a hold commits on a scheduled run | `Booking` (partly) |
| Admission policy `internal/admission/postgres` | hot-train policies | create, update | changes between admission and commit | a hold commits under the policy it saw | `Booking`, `WaitingRoom` |
| Booking command saga `internal/booking/command` | commands, quota leases, directory, ledger; shard receipts | reserve, execute, finalize, reconcile | three transactions in two databases, any process may die between them | both sides agree, quota and seats exact | `BookingCommand` |
| Operator commands `internal/booking/operatorcommand` | operator commands, run snapshots | commission, change status | as above | as above | only the shard half of a cancellation |
| Physical shard workers `internal/sharding/physicalworker` | shard holds and outbox | expire, publish | leases, fences | expiry once; events of every generation published | `ExpireHold` only |
| Event relay `internal/eventrelay` | outbox_events | claim, publish, mark | crash after publishing, lock taken over | no event lost | `EventRelay` |
| Query read model `internal/query/readmodel` | progress, receipts, projection | consume, page, rebuild, redrive | duplicate deliveries, two consumers on one event, rebuild racing events | receipt means applied; projection current when used | `ReadModel` |
| Query cache `internal/query/cache` | Redis entries and namespace tokens, flights | read, fill, invalidate | a slow fill after an invalidation | answers no older than receipts | `QueryCache` |
| Payment `internal/payment` | intents, operations, sagas, webhooks; shard payment rows, tickets | begin, cancel, authorize, capture, issue, void, refund, release, reconcile | uncertain provider calls, late webhooks, lost answers, lapsed leases | money, seats and ticket agree; what is recorded happened | `PaymentSaga`, `PaymentAudit`, `PaymentPromise` |
| Waiting room `internal/admission` | policy, queue, tokens, in-flight set, leases, locators | join, look, cancel, issue, acquire, release, finalize, maintain | lost answers, deadlines, policy changes, Redis data loss | bound on admissions, one booking per token | `AdmissionScripts`, `WaitingRoom` |
| Routing and fencing `internal/sharding` | assignment, generations, fences, routes | resolve, begin write, commit | stale routes | one writer per run | `ShardStores` |
| Logical migration `internal/sharding/migration` | migration record, generation writes | plan, drain, copy, cut over, roll back | writers in every phase | nothing lost, audits clean | `LogicalMigration`, `ShardAudit` |
| Physical migration `internal/sharding/physicalmigration` | migration record, capture journal, fences, receipts, evidence | plan, copy, replay, fence, enable, switch, complete, clean up, roll back, reverse | a process dies between a step on a shard and its record | nothing lost, one writer | `PhysicalShards`, `ControlSource`, `PhysicalMigration`, `ShardMigration` |
| Accounts `internal/accounts` | users, refresh tokens | register, rotate, revoke | single transactions under a row lock | | not modelled |
| Transport, wiring, platform, read-only stores | none of their own | | | | not modelled |

How they meet: a request goes through the admission policy or waiting room to
the booking store, or with physical shards to the command saga. Both write an
outbox row in the transaction of the change. A held reservation is paid for by the
payment saga, which secures the seats and issues the tickets on the run's shard.
Every write on a shard carries a route that migrations may have made stale. The
relay moves rows to a Redis
stream, the read-model worker applies them to the projection and rotates the
cache namespaces, and searches read cache, projection or source tables.

## 2. Modules

### Booking

A create-hold transaction is a sequence of steps, one per locking statement of
`Store.CreateHold` (`AcquireIdempotency`, `RecheckAdmissionPolicy`,
`EnforceReservationQuota`, `LockTrainRun`, `LockPassengers`, `AllocateSeats`,
`CommitCreateHold`), and may roll back at any of them. `tx[c].pc` says which
statement comes next and so which locks are held. Writes become visible at
commit. `SKIP LOCKED` is the exclusion of `SeatLocked` seats from `Candidates`.
Confirm, cancel and expire lock their one reservation row first and are single
actions; they wait for the seat rows that an open booking has locked. Segment
masks are sets of segment numbers; seats are numbered in coach order. An
identifier, a key, a passenger or a class is a model value; a fingerprint is the
request itself.

### BookingCommand

One action per database transaction: `Reserve`, `ReserveLifecycle`, `Replay` in
the control database; `ExecuteOnce` (read before the fence) and `ExecuteLocked`
on the shard; `Finalize` in the control database; and the reconciler's `Claim`,
`Inspect` and `Repair`. A handler or a worker carries what it read in its own
record, which may be stale when used. `HandlerFails`, `WorkerFails` and
`LeaseRunsOut` end an attempt anywhere. A fenced or stale route, an unreachable
database and a lost reply are such ends. Seats of the shard are a count: which
seat is taken is the subject of `Booking`.

### EventRelay, ReadModel, QueryCache, EventPipeline

Components with their own variables, composed in `EventPipeline`, whose actions
pair a step of one with what it leaves alone or changes in the others
(`RelayPublish` appends to the stream the consumers read). An event is a number,
a run's projection is the set of events it reflects, and a cached value likewise,
so that "fresh" is set inclusion. `ReadModel` follows `Worker.RunOnce` and the
processor page by page with progress phases; `QueryCache` follows search and
availability through the first read, the singleflight, the second read inside
the fill, the token installation and the write. `spent` counts the uses of the
three bounds on faults, admin commands and requests.

Left out of the pipeline: messages that cannot be decoded; the station list
(the path of search without a projection) and batch availability; caller
cancellation; the shard-generation check of availability; the log publisher;
search with the source fallback disabled; trimming of the dead-letter stream;
projection deletion and the single-transaction processors that the worker no
longer calls. Impact pages are ordered by id and rebuild pages by date and id in
the code; the model has one order. `replay-outbox` is modelled one event at a
time.

### PaymentSaga, PaymentAudit, PaymentPromise

One payment of one reservation. `ctl` is the control database (intent, saga,
operations), `inbox` the stored webhooks, `shard` the reservation's payment row
and tickets, `prov` the provider (external, modelled from the adapter and the
provider of `internal/payment/provider/sandbox`), `keys` its idempotency keys,
`late` the calls still under way after their worker gave up, `job` what each
worker has claimed and `api` a request between its two transactions. One action
stands for one transaction or one call, and a worker may stop between any two.
`PaymentAudit` adds the reconciler's audit of one payment and the administrator's
repairs. Amounts are not modelled (every message names the right one).
`PaymentPromise` says what all this is for, in three variables: money, seats and
ticket. `KeepsPromise` states that the saga implements it, with the money read from
the provider and seats and ticket from the shard.

### ShardStores, migrations, ShardMigration, RunOwnership

One train run. `assignment`, `genWrites`, `pm` and `lm` are rows of the control
database, `store` has per shard the fence, the rows, the capture journal, the
replay receipts and the write evidence, `txn` is the open write transaction of a
physical shard, `known` every route ever resolved. A row is the number of the write
that produced it, so a lost or a repeated write shows. `op` is the administrator's
process: the engine's steps on a shard change `store`, and the migration record only
changes when the result is persisted; `Interrupt` forgets the process between them.
One administrator works at a time. `RunOwnership` is the promise: at most one store
accepts writes, each write builds on the one before it, and moving the run changes
no row. `KeepsOwnership` states that the stores and both engines implement it.

### AdmissionScripts, WaitingRoom

The Lua scripts run alone on Redis, so each is an operator from the keys of one
policy generation to the new keys and an answer (`AdmissionScripts`); `WaitingRoom`
has the policy row, the workers, the hold requests and their booking transaction
around them. A deadline is ahead, or past and due for clean-up (`due`), and may pass
at any step. A lost answer is a caller that stops after its call. Abstracted or left
out: page limits of the clean-up; the rate window, which is a choice of how much
room it leaves; entry locators, which only answer status queries; the admission
fingerprint; the refresh of an installed policy, which is part of `Maintain`;
maintenance, the look at the queue and the writing of locators, which are one step.

## 3. Runs

| Run | Properties | Question |
|---|---|---|
| `booking_race` | TypeOK, SeatExclusive, InventoryExact, PassengerBookedOnce, OrdersFollowReservations, ChecksStayTrue, ReservationsOnlyMoveForward | two holds of two users interleave by statement with confirm, cancel, expiry and run changes |
| `booking_retry` | QuotaRespected, KeyCreatesOnce, CommandReplaysSucceed | one key is sent again while its first use is open, committed, rolled back, expired or cleaned up, and races a second key at the hold limit |
| `booking_live` | HoldsCommitUnderCheckedState, HoldsEnd | policies and run statuses change under an open hold; every hold ends |
| `command_race` | TypeOK, HoldsAreCounted, LiveHoldsWithinQuota, OutcomesAgree, LedgerFollowsShard, SeatsExact, DecisionsAreFinal | two handlers and a reconciler drive creates, a confirm and a cancel |
| `command_settle` | LiveHoldsWithinQuota, CommandsSettle | two creates compete for one place, handlers may vanish |
| `command_released`, `command_expiry`, `command_confirms` | ReleasedStaysReleased, ExpiryReleasesLease, ConfirmsSettle | violated: the findings of section 6 |
| `pipeline_deliver` | TypeOK, ReceiptMeansApplied, NoEventLost, EventsFinish | two relays, two consumers, an event of two pages, two faults |
| `pipeline_project` | ProjectionCurrent | two operators rebuild while a consumer applies two events |
| `pipeline_read` | CacheEntriesFresh, AnswersFresh | two API processes fill caches during an invalidation |

Bounds. Two actors of a kind are the fewest that race; a third repeats the
pairwise conflicts of locks. Two seats and two segments allow overlapping,
adjacent and disjoint journeys and a request for two passengers; one request
reaches past the last stop. Clock bounds (`MaxTime`) are one or two lifetimes, so
that holds run out; in `booking_retry` a key runs out as well and is used a second
time, and in `command_settle` a user reserves again after the reconciler has
expired a command. Limits are one or two so that they
bind. In the pipeline `MaxFaults = 2` allows a crash during the recovery from a
crash, `MaxAttempts = MaxDeliveries = 2` reaches both dead-letter places, and
`PageLimit = 1` splits an event over pages. `MaxRequests = 3` with two readers lets
a reader ask again after an invalidation. Symmetry is used only in runs without
liveness properties. The instances are small: TLC says nothing beyond them, and
the proofs of section 5 only cover the booking modules.

`CHECK_DEADLOCK FALSE` is set where a bounded system really stops: all commands
settled, all events finished, all requests answered.

## 4. Fairness

* `Booking`: the clock advances; a transaction commits or rolls back, since
  statement and request timeouts bound it; the expirer polls on a ticker
  (`cmd/hold-expirer`), and its update is strongly fair because PostgreSQL queues
  it on the seat row while new bookings keep taking that lock.
* `BookingCommand`: clock, lease expiry and shard expirer are weakly fair. The
  reconciler claims in the order of `updated_at`, so an eligible command is taken
  up again and again: `Claim`, `Inspect` and `Repair` of a command are strongly
  fair, which assumes both databases are reachable often enough. Nothing is
  assumed of handlers or clients. The counterexamples of `command_expiry` and
  `command_confirms` hold under this fairness.
* `EventPipeline`: relay and consumer loops poll for ever and a pass goes on
  (`cmd/outbox-worker/main.go` 189-220, `cmd/read-model-worker/main.go` 123-152).
  Faults are bounded and never fair. Configuration requires the pending idle time
  to exceed the pass timeout (`config.go:492`).

## 5. Proofs

All proofs hold for every value of the constants that satisfies the `ASSUME`s of
the component's module: finite sets of reservations and passengers (creates, for
the saga), positive limits and lifetimes, requests that travel at least one
segment for at least one passenger. The clock bound is any natural number.

**Booking** (`BookingSteps`, `BookingInvariant`, `BookingProofs`). Theorems
`TypeCorrect`, `SeatsSoldOnce` (SeatExclusive and InventoryExact),
`PassengersBookedOnce`, `QuotaHolds`, `KeysCreateOnce`, `ChecksHoldAtCommit`,
`CommitsUnderCheckedState`. None of these is inductive alone: that a commit sells
a free seat depends on a check made several statements earlier. `IInv` adds
`ChecksStayTrue` (what a transaction checked is still true while it is open),
`LocksExclusive` (two open transactions never hold one lock),
`KeysCovered` (a reservation's idempotency record outlives its window) and
`AbsentRunsEmpty`. `BookingSteps` reduces the actions to a few shapes (a
background step, an open transaction working, a commit, a status move);
`BookingInvariant` shows that each shape keeps seats, passengers, locks and keys;
`BookingProofs` adds the counting argument for quotas and the theorems.

**BookingCommand** (`BookingCommandSteps`, `BookingCommandInvariant`,
`BookingCommandProofs`). Theorems `CommandTypeCorrect`, `CommandHoldsCounted`,
`CommandQuota`, `CommandOutcomes`, `CommandLedger`, `CommandSeats`,
`CommandDecisions`. The invariant's `Core` says what each database row implies of
the rows on the other side (`RowsAgree`, `LifecycleAgrees`, `ReleaseJustified`,
`LedgerAgrees`) and what a handler's or worker's stale knowledge is still worth
(`HandlerFacts`, `WorkerFacts`): a receipt once seen stays, a missing one may have
come. The quota follows because a command is expired only once its deadline has
passed, so a hold committed after that is no longer live.

Only model-checked: the liveness properties (HoldsEnd, CommandsSettle,
EventsFinish), since the prover does not reason about fairness here;
OrdersFollowReservations, CommandReplaysSucceed and ReservationsOnlyMoveForward,
which are not proved yet; and the whole event pipeline.

## 6. What the checks found

1. **A released lease counts again** (`command_released`). The reconciler claims
   finalized creates whose lease is not `active_hold`, including those a finalized
   confirm or cancel released, and `Finalize` sets the lease active whatever it
   was (`internal/booking/command/reconcile/postgres/store.go:194`).
2. **Expiry on a shard never releases the lease** (`command_expiry`), though ADR 039
   says it does (`internal/sharding/physicalworker/postgres_processors.go:266`).
3. **A committed confirm without its handler is never finalized**
   (`command_confirms`): the inspector's query selects an ambiguous `id`
   (`internal/booking/command/reconcile/physical/inspector.go:143`). This is read
   from the SQL and the schema; the query was not run against a database.

The models contain these behaviours, so the other properties are shown of the
code as it is. Two further observations without a run: the availability flight
key carries no namespace token (`internal/query/cache/store.go:659-665`), so an
availability request may join a fill begun before an invalidation, which
`AnswersFresh` excepts, while `docs/high-concurrency-design.md:133-134` speaks of
"exact-key singleflight"; and `docs/cache-invalidation.md` puts the commit of
projection and receipt before the rotation, while the code rotates first, as
`docs/projection-event-processing.md` says.

## 7. Plan

In this order, each with its hazards already listed in `PROJECT.json`:

1. **Payment** (`PaymentSaga`): intents, operations with leases and uncertainty,
   webhooks, shard securing and ticket issuance, void and refund; the provider as
   an external party that acts at most once per key. Properties: no operation
   takes effect twice, tickets are issued only for captured money, every captured
   cancellation ends refunded, uncertain operations settle. Then an inductive
   invariant for the first two.
2. **Routing, fencing and physical migration** (`ShardMigration`): one writer per
   run against an abstract single-owner specification, journal replay after a
   crash, rollback against a late write, shard outbox across generations.
3. **Waiting room** (`Admission`): join, issue, acquire, finalize, expiry.
4. **Shard outbox and operator commands**: both reuse the shape of `EventRelay` and
   `BookingCommand`.
5. **Accounts**: refresh-token rotation.
6. **Refinement**: `BookingCommand` and `Booking` against one abstract booking
   specification (a set of active reservations that only grows when seats are
   free).
7. **Proofs**: the remaining booking properties, `NoEventLost` and
   `ReceiptMeansApplied`, and the payment and single-writer invariants.

Not planned: HTTP transport, wiring, configuration and metrics (no protocol state
of their own), read-only SQL and audits (they change nothing), password hashing,
signatures and wire formats, the load tests and deployment files.
