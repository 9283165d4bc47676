--------------------------- MODULE BookingCommand ---------------------------
(***************************************************************************)
(* The booking command saga (internal/booking/command): a command is       *)
(* reserved in the control database together with its quota lease and      *)
(* directory row, executed once on a physical shard under a receipt, and   *)
(* finalized in the control database, by its own request handler or, when  *)
(* that one is gone, by the booking-command reconciler.                    *)
(*                                                                         *)
(* Each database transaction is one action: the control transactions lock  *)
(* the command row, the shard transactions lock the run's write fence.     *)
(* What a handler or a reconciler carries from one transaction to the next *)
(* is in its own record and may be stale by the time it is used.  A fenced *)
(* or stale route, an unreachable database and a lost reply all end the    *)
(* handler or the reconciler's attempt: HandlerFails, WorkerFails.         *)
(***************************************************************************)
EXTENDS Integers, FiniteSets

CONSTANTS
    Creates,        \* create commands; each names the reservation it makes
    Owner,          \* the user of each create command
    Lifecycle,      \* confirm and cancel commands
    Handlers,       \* request handlers
    Workers,        \* reconciler workers
    MaxHolds,       \* Options.MaxActiveHoldsPerUser
    Capacity,       \* seats of the run
    HoldTTL,        \* life of a hold
    MaxTime         \* bound: clock

LifecycleCommand == [op : {"confirm", "cancel"}, rsv : Creates, key : Nat]
Commands == Creates \cup Lifecycle

ASSUME CommandAssumption ==
    /\ IsFiniteSet(Creates)
    /\ Lifecycle \subseteq LifecycleCommand
    /\ Creates \cap Lifecycle = {}
ASSUME BoundAssumption ==
    /\ MaxHolds \in Nat \ {0} /\ Capacity \in Nat
    /\ HoldTTL \in Nat \ {0} /\ MaxTime \in Nat

VARIABLES
    now,            \* the clock
    command,        \* booking_commands.state ("none": no row)
    lease,          \* booking_quota_leases.state
    expires,        \* booking_quota_leases.expires_at, the hold's deadline
    directory,      \* reservation_directory.state
    ledger,         \* reservation_lifecycle_states.status
    orderLocator,   \* ticket_order_shard_locators.status
    claimed,        \* commands with a reconciler lease that has not run out
    receipt,        \* shard: booking_command_receipts.status
    status,         \* shard: reservations.status
    free,           \* shard: seats not occupied
    runOpen,        \* shard: train_run_booking_snapshots.status allows sales
    handler,        \* what each request handler is doing
    worker          \* what each reconciler worker is doing

control == <<command, lease, expires, directory, ledger, orderLocator>>
shard == <<receipt, status, free, runOpen>>
vars == <<now, control, claimed, shard, handler, worker>>

Idle == [pc |-> "idle"]
Counted == {"pending", "active_hold"}
Refused == {"failed", "expired"}

IsCreate(c) == c \in Creates
ReservationOf(c) == IF IsCreate(c) THEN c ELSE c.rsv
Operation(c) == IF IsCreate(c) THEN "create" ELSE c.op

Init ==
    /\ now = 0
    /\ command = [c \in Commands |-> "none"]
    /\ lease = [r \in Creates |-> "none"]
    /\ expires = [r \in Creates |-> 0]
    /\ directory = [r \in Creates |-> "none"]
    /\ ledger = [r \in Creates |-> "none"]
    /\ orderLocator = [r \in Creates |-> "none"]
    /\ claimed = {}
    /\ receipt = [c \in Commands |-> "none"]
    /\ status = [r \in Creates |-> "none"]
    /\ free = Capacity
    /\ runOpen = TRUE
    /\ handler = [h \in Handlers |-> Idle]
    /\ worker = [w \in Workers |-> Idle]

Tick ==
    /\ now < MaxTime
    /\ now' = now + 1
    /\ UNCHANGED <<control, claimed, shard, handler, worker>>

-----------------------------------------------------------------------------
(* First control transaction: Reserve and ReserveLifecycle.                *)

\* The handler goes on to the shard with the command as it was read.
GoTo(h, c, pc, replayed) ==
    handler' = [handler EXCEPT ![h] = [pc |-> pc, cmd |-> c, replayed |-> replayed]]

Leave(h) == handler' = [handler EXCEPT ![h] = Idle]

CountedLeases(u) == {r \in Creates : Owner[r] = u /\ lease[r] \in Counted}

\* Mutant of Reserve: the new hold itself is not counted.
ReserveOneMore(h, c) ==
    /\ handler[h] = Idle
    /\ IsCreate(c) /\ command[c] = "none"
    /\ now + HoldTTL <= MaxTime
    /\ Cardinality(CountedLeases(Owner[c])) <= MaxHolds
    /\ command' = [command EXCEPT ![c] = "reserved"]
    /\ lease' = [lease EXCEPT ![c] = "pending"]
    /\ expires' = [expires EXCEPT ![c] = now + HoldTTL]
    /\ directory' = [directory EXCEPT ![c] = "pending"]
    /\ GoTo(h, c, "execute", FALSE)
    /\ UNCHANGED <<now, ledger, orderLocator, claimed, shard, worker>>

\* A new create command, under the user's row and advisory locks: the quota
\* is counted, then command, lease and directory row are inserted together.
Reserve(h, c) ==
    /\ handler[h] = Idle
    /\ IsCreate(c) /\ command[c] = "none"
    /\ now + HoldTTL <= MaxTime
    /\ Cardinality(CountedLeases(Owner[c])) + 1 <= MaxHolds
    /\ command' = [command EXCEPT ![c] = "reserved"]
    /\ lease' = [lease EXCEPT ![c] = "pending"]
    /\ expires' = [expires EXCEPT ![c] = now + HoldTTL]
    /\ directory' = [directory EXCEPT ![c] = "pending"]
    /\ GoTo(h, c, "execute", FALSE)
    /\ UNCHANGED <<now, ledger, orderLocator, claimed, shard, worker>>

\* A new confirm or cancel command, under the lock of an active directory row.
ReserveLifecycle(h, c) ==
    /\ handler[h] = Idle
    /\ ~IsCreate(c) /\ command[c] = "none"
    /\ directory[c.rsv] = "active"
    /\ command' = [command EXCEPT ![c] = "reserved"]
    /\ GoTo(h, c, "execute", FALSE)
    /\ UNCHANGED <<now, lease, expires, directory, ledger, orderLocator, claimed,
                   shard, worker>>

\* The key was used before: the stored command is taken up again.  A finalized
\* create and a failed or expired command are answered at once.
Replay(h, c) ==
    /\ handler[h] = Idle
    /\ \/ command[c] = "reserved"
       \/ ~IsCreate(c) /\ command[c] = "finalized"
    /\ GoTo(h, c, "execute", command[c] = "finalized")
    /\ UNCHANGED <<now, control, claimed, shard, worker>>

-----------------------------------------------------------------------------
(* Shard transaction: Executor.executeOnce.                                *)

\* Mutant of AfterReceipt: a rejection is finalized like a success.
AfterAnyReceipt(h, c, outcome) ==
    IF ~handler[h].replayed THEN GoTo(h, c, "finalize", FALSE) ELSE Leave(h)

\* What the handler does with a receipt it found or wrote: a rejection is an
\* error, a committed one is finalized unless the command already was.
AfterReceipt(h, c, outcome) ==
    IF outcome = "succeeded" /\ ~handler[h].replayed
    THEN GoTo(h, c, "finalize", FALSE)
    ELSE Leave(h)

\* Before the fence is locked: a receipt ends the work, and a create whose
\* deadline has passed is refused without a receipt.
ExecuteOnce(h) ==
    /\ handler[h].pc = "execute"
    /\ LET c == handler[h].cmd IN
         IF receipt[c] # "none" THEN AfterReceipt(h, c, receipt[c])
         ELSE IF IsCreate(c) /\ expires[c] <= now THEN Leave(h)
         ELSE GoTo(h, c, "locked", handler[h].replayed)
    /\ UNCHANGED <<now, control, claimed, shard, worker>>

\* The shard half of a command, once, with its receipt: outcome and effect.
Apply(c, outcome, newStatus, seats) ==
    /\ receipt' = [receipt EXCEPT ![c] = outcome]
    /\ status' = [status EXCEPT ![ReservationOf(c)] = newStatus]
    /\ free' = free + seats

\* Under the fence lock.  A fare or a seat that is missing rejects the create.
CreateReservation(c, fare) ==
    IF fare /\ free > 0
    THEN Apply(c, "succeeded", "held", -1)
    ELSE Apply(c, "rejected", status[c], 0)

ConfirmReservation(c) ==
    LET r == c.rsv IN
    IF status[r] = "confirmed" \/ (status[r] = "held" /\ expires[r] > now)
    THEN Apply(c, "succeeded", "confirmed", 0)
    ELSE Apply(c, "rejected", status[r], 0)

\* Mutant of CancelReservation: an expired reservation is cancelled too.
CancelAnyReservation(c) ==
    LET r == c.rsv IN
    IF status[r] # "cancelled" THEN Apply(c, "succeeded", "cancelled", 1)
    ELSE Apply(c, "succeeded", "cancelled", 0)

CancelReservation(c) ==
    LET r == c.rsv IN
    CASE status[r] \in {"held", "confirmed"} -> Apply(c, "succeeded", "cancelled", 1)
      [] status[r] = "cancelled" -> Apply(c, "succeeded", "cancelled", 0)
      [] OTHER -> Apply(c, "rejected", status[r], 0)

\* Creating and confirming need a run that still sells; cancelling does not.
MayExecute(c) == runOpen \/ Operation(c) = "cancel"

\* Mutant of ExecuteLocked: the receipt is not looked for again.
ExecuteUnchecked(h, fare) ==
    /\ handler[h].pc = "locked"
    /\ LET c == handler[h].cmd IN
       IF ~MayExecute(c) THEN Leave(h) /\ UNCHANGED shard
       ELSE /\ CASE Operation(c) = "create" -> CreateReservation(c, fare)
                 [] Operation(c) = "confirm" -> ConfirmReservation(c)
                 [] Operation(c) = "cancel" -> CancelReservation(c)
            /\ AfterReceipt(h, c, receipt'[c])
            /\ UNCHANGED runOpen
    /\ UNCHANGED <<now, control, claimed, worker>>

\* The fence and the run's snapshot are locked: a closed run ends the work
\* without a receipt, and the receipt is looked for once more.
ExecuteLocked(h, fare) ==
    /\ handler[h].pc = "locked"
    /\ LET c == handler[h].cmd IN
       IF ~MayExecute(c) THEN Leave(h) /\ UNCHANGED shard
       ELSE IF receipt[c] # "none"
       THEN AfterReceipt(h, c, receipt[c]) /\ UNCHANGED shard
       ELSE /\ CASE Operation(c) = "create" -> CreateReservation(c, fare)
                 [] Operation(c) = "confirm" -> ConfirmReservation(c)
                 [] Operation(c) = "cancel" -> CancelReservation(c)
            /\ AfterReceipt(h, c, receipt'[c])
            /\ UNCHANGED runOpen
    /\ UNCHANGED <<now, control, claimed, worker>>

\* The operator cancels the run: its snapshot stops sales for good.
CancelTrainRun ==
    /\ runOpen
    /\ runOpen' = FALSE
    /\ UNCHANGED <<now, control, claimed, receipt, status, free, handler, worker>>

\* Mutant of ExpireHold: a reservation that was cancelled is expired again.
ExpireAgain(r) ==
    /\ status[r] \in {"held", "cancelled"} /\ expires[r] <= now
    /\ status' = [status EXCEPT ![r] = "expired"]
    /\ free' = free + 1
    /\ UNCHANGED <<now, control, claimed, receipt, runOpen, handler, worker>>

\* The shard's hold expirer.
ExpireHold(r) ==
    /\ status[r] = "held" /\ expires[r] <= now
    /\ status' = [status EXCEPT ![r] = "expired"]
    /\ free' = free + 1
    /\ UNCHANGED <<now, control, claimed, receipt, runOpen, handler, worker>>

-----------------------------------------------------------------------------
(* Second control transaction: Finalize, by the handler.                   *)

\* Mutant of Advanced: the last command to be finalized wins.
LastFinalized(r, op) == IF op = "cancel" THEN "cancelled" ELSE "confirmed"

\* A cancellation is final; a confirmation never takes its place.
Advanced(r, op) ==
    IF op = "cancel" \/ ledger[r] = "cancelled" THEN "cancelled" ELSE "confirmed"

\* Finalizing a confirm or a cancel: the ledger advances, the order's locator
\* shows what the ledger says, and the create's lease is released.
FinalizeLifecycle(c) ==
    LET r == c.rsv IN
    /\ command' = [command EXCEPT ![c] = "finalized"]
    /\ ledger' = [ledger EXCEPT ![r] = Advanced(r, c.op)]
    /\ orderLocator' = [orderLocator EXCEPT ![r] =
         IF c.op = "confirm" \/ @ # "none" THEN Advanced(r, c.op) ELSE @]
    /\ lease' = [lease EXCEPT ![r] =
         IF @ \in {"pending", "active_hold", "released"} THEN "released" ELSE @]
    /\ UNCHANGED <<expires, directory>>

\* Repository.Finalize of a create: rows that are no longer pending or active
\* are left as they are.
FinalizeCreate(c) ==
    /\ command' = [command EXCEPT ![c] = "finalized"]
    /\ directory' = [directory EXCEPT ![c] = IF @ = "pending" THEN "active" ELSE @]
    /\ lease' = [lease EXCEPT ![c] = IF @ = "pending" THEN "active_hold" ELSE @]
    /\ UNCHANGED <<expires, ledger, orderLocator>>

Finalize(h) ==
    /\ handler[h].pc = "finalize"
    /\ LET c == handler[h].cmd IN
         IF command[c] \in Refused
         THEN UNCHANGED <<control, claimed>>
         ELSE /\ IF IsCreate(c) THEN FinalizeCreate(c) ELSE FinalizeLifecycle(c)
              /\ claimed' = claimed \ {c}
    /\ Leave(h)
    /\ UNCHANGED <<now, shard, worker>>

\* The request times out, its process dies or a database call fails: what is
\* committed stays, the rest is left to a retry or to the reconciler.
HandlerFails(h) ==
    /\ handler[h] # Idle
    /\ Leave(h)
    /\ UNCHANGED <<now, control, claimed, shard, worker>>

-----------------------------------------------------------------------------
(* The booking-command reconciler.                                         *)

Eligible(c) ==
    \/ command[c] = "reserved"
    \/ /\ IsCreate(c) /\ command[c] = "finalized"
       /\ lease[c] # "active_hold" \/ directory[c] # "active"

\* Store.Claim: the candidate keeps the state the command had.
Claim(w, c) ==
    /\ worker[w] = Idle
    /\ Eligible(c) /\ c \notin claimed
    /\ claimed' = claimed \cup {c}
    /\ worker' = [worker EXCEPT ![w] = [pc |-> "inspect", cmd |-> c, state |-> command[c],
                                        seen |-> "none"]]
    /\ UNCHANGED <<now, control, shard, handler>>

Rest(w) == worker' = [worker EXCEPT ![w] = Idle]

\* Inspector.Inspect: one read of the shard's receipt.  Its query for the
\* ticket order of a committed confirm names an ambiguous column and fails.
Inspect(w) ==
    /\ worker[w].pc = "inspect"
    /\ LET c == worker[w].cmd IN
         IF Operation(c) = "confirm" /\ receipt[c] = "succeeded"
         THEN Rest(w)
         ELSE worker' = [worker EXCEPT ![w].pc = "repair", ![w].seen = receipt[c]]
    /\ UNCHANGED <<now, control, claimed, shard, handler>>

\* Store.Finalize of a create sets the lease active whatever its state was.
FinalizeCandidate(c) ==
    /\ command' = [command EXCEPT ![c] = "finalized"]
    /\ directory' = [directory EXCEPT ![c] = "active"]
    /\ lease' = [lease EXCEPT ![c] = "active_hold"]
    /\ UNCHANGED <<expires, ledger, orderLocator>>

\* Store.terminal: Fail and Expire end the command, and with a create its
\* directory row and its lease.
Terminal(c, target, quotaState) ==
    /\ command' = [command EXCEPT ![c] = target]
    /\ IF IsCreate(c)
       THEN /\ directory' = [directory EXCEPT ![c] = "failed"]
            /\ lease' = [lease EXCEPT ![c] = quotaState]
       ELSE UNCHANGED <<directory, lease>>
    /\ UNCHANGED <<expires, ledger, orderLocator>>

\* Mutant of Decisive: a missing receipt is taken as a failure at once.
DecisiveAtOnce(w) ==
    LET c == worker[w].cmd IN
    CASE worker[w].seen = "succeeded" -> command[c] \notin Refused
      [] worker[w].seen = "rejected" -> command[c] # "finalized"
      [] worker[w].seen = "none" -> IsCreate(c) /\ command[c] # "finalized"

\* Whether what was seen of the receipt decides the command.  Only a create
\* expires, once its deadline has passed with no receipt.
Decisive(w) ==
    LET c == worker[w].cmd IN
    CASE worker[w].seen = "succeeded" -> command[c] \notin Refused
      [] worker[w].seen = "rejected" -> command[c] # "finalized"
      [] worker[w].seen = "none" -> /\ IsCreate(c) /\ expires[c] <= now
                                    /\ worker[w].state # "finalized"
                                    /\ command[c] # "finalized"

Settle(w) ==
    LET c == worker[w].cmd IN
    CASE worker[w].seen = "succeeded" ->
           IF IsCreate(c) THEN FinalizeCandidate(c) ELSE FinalizeLifecycle(c)
      [] worker[w].seen = "rejected" -> Terminal(c, "failed", "released")
      [] worker[w].seen = "none" -> Terminal(c, "expired", "expired")

\* Service.Repair: what is not decisive is deferred, and the claim stays
\* until its lease runs out.
Repair(w) ==
    /\ worker[w].pc = "repair"
    /\ IF Decisive(w)
       THEN Settle(w) /\ claimed' = claimed \ {worker[w].cmd}
       ELSE UNCHANGED <<control, claimed>>
    /\ Rest(w)
    /\ UNCHANGED <<now, shard, handler>>

\* The worker dies, or a database it needs cannot be reached.
WorkerFails(w) ==
    /\ worker[w] # Idle
    /\ Rest(w)
    /\ UNCHANGED <<now, control, claimed, shard, handler>>

\* Mutant of LeaseRunsOut: a claim is only given up by its owner.
LeaseNeverRunsOut(c) == FALSE /\ UNCHANGED vars

\* lease_until < clock_timestamp(): the command may be claimed again.
LeaseRunsOut(c) ==
    /\ c \in claimed
    /\ claimed' = claimed \ {c}
    /\ UNCHANGED <<now, control, shard, handler, worker>>

-----------------------------------------------------------------------------
Next ==
    \/ Tick
    \/ \E h \in Handlers, c \in Commands :
         Reserve(h, c) \/ ReserveLifecycle(h, c) \/ Replay(h, c)
    \/ \E h \in Handlers :
         ExecuteOnce(h) \/ Finalize(h) \/ HandlerFails(h)
    \/ \E h \in Handlers, fare \in BOOLEAN : ExecuteLocked(h, fare)
    \/ CancelTrainRun
    \/ \E r \in Creates : ExpireHold(r)
    \/ \E w \in Workers, c \in Commands : Claim(w, c)
    \/ \E w \in Workers : Inspect(w) \/ Repair(w) \/ WorkerFails(w)
    \/ \E c \in Commands : LeaseRunsOut(c)

Spec == Init /\ [][Next]_vars

\* Time passes, claims run out, the shard's expirer polls.  The reconciler
\* polls in the order of updated_at, so every eligible command is claimed
\* again and again, and its shard and the control database are reachable
\* often enough.  Nothing is assumed of request handlers or of clients.
Fairness ==
    /\ WF_vars(Tick)
    /\ \A r \in Creates : WF_vars(ExpireHold(r))
    /\ \A c \in Commands :
         /\ WF_vars(LeaseRunsOut(c))
         /\ SF_vars(\E w \in Workers : Claim(w, c))
         /\ SF_vars(\E w \in Workers : worker[w] # Idle /\ worker[w].cmd = c /\ Inspect(w))
         /\ SF_vars(\E w \in Workers : worker[w] # Idle /\ worker[w].cmd = c /\ Repair(w))

FairSpec == Spec /\ Fairness

-----------------------------------------------------------------------------
(* Properties.                                                             *)

\* Every variable keeps its type.
TypeOK ==
    /\ now \in 0 .. MaxTime
    /\ command \in [Commands -> {"none", "reserved", "finalized", "failed", "expired"}]
    /\ lease \in [Creates -> {"none", "pending", "active_hold", "released", "expired"}]
    /\ expires \in [Creates -> Nat]
    /\ directory \in [Creates -> {"none", "pending", "active", "failed"}]
    /\ ledger \in [Creates -> {"none", "confirmed", "cancelled"}]
    /\ orderLocator \in [Creates -> {"none", "confirmed", "cancelled"}]
    /\ claimed \subseteq Commands
    /\ receipt \in [Commands -> {"none", "succeeded", "rejected"}]
    /\ status \in [Creates -> {"none", "held", "confirmed", "cancelled", "expired"}]
    /\ free \in 0 .. Capacity
    /\ runOpen \in BOOLEAN
    /\ handler \in [Handlers -> {Idle} \cup
         [pc : {"execute", "locked", "finalize"}, cmd : Commands, replayed : BOOLEAN]]
    /\ worker \in [Workers -> {Idle} \cup
         [pc : {"inspect", "repair"}, cmd : Commands,
          state : {"reserved", "finalized"}, seen : {"none", "succeeded", "rejected"}]]

LiveHold(r) == status[r] = "held" /\ expires[r] > now

\* Quota is never given back too early: a hold that has not reached its
\* deadline on the shard always has a counted lease in the control database,
\* whatever handlers and reconcilers did in between.
HoldsAreCounted == \A r \in Creates : LiveHold(r) => lease[r] \in Counted

\* The user's limit holds across the two databases: live holds, and create
\* commands that may still become one, never exceed MaxActiveHoldsPerUser.
MayBeHeld(r) ==
    \/ LiveHold(r)
    \/ command[r] = "reserved" /\ receipt[r] = "none" /\ expires[r] > now

LiveHoldsWithinQuota ==
    \A u \in {Owner[r] : r \in Creates} :
        Cardinality({r \in Creates : Owner[r] = u /\ MayBeHeld(r)}) <= MaxHolds

\* Control and shard agree on every outcome: a finalized command has a
\* committed receipt, a failed one a rejection, and the directory shows a
\* reservation exactly when its create is finalized.
OutcomesAgree ==
    /\ \A c \in Commands :
         /\ command[c] = "finalized" => receipt[c] = "succeeded"
         /\ command[c] = "failed" => receipt[c] = "rejected"
    /\ \A r \in Creates : directory[r] = "active" <=> command[r] = "finalized"

\* What the control database shows of a reservation after its confirm or
\* cancel was finalized: a cancellation is never covered by a late
\* confirmation, and neither is shown before the shard did it.
LedgerFollowsShard ==
    \A c \in Lifecycle : command[c] = "finalized" =>
        IF c.op = "cancel"
        THEN /\ status[c.rsv] = "cancelled" /\ ledger[c.rsv] = "cancelled"
             /\ orderLocator[c.rsv] # "confirmed"
        ELSE /\ status[c.rsv] \in {"confirmed", "cancelled"}
             /\ orderLocator[c.rsv] = ledger[c.rsv] /\ ledger[c.rsv] # "none"

\* A command that is executed by several handlers, retried or repaired takes
\* and gives back its seat once: the shard's free seats are exact.
SeatsExact ==
    free + Cardinality({r \in Creates : status[r] \in {"held", "confirmed"}}) = Capacity

\* What is decided stays decided: finalized commands, receipts and finished
\* reservations are never rewritten by a late handler or a stale reconciler.
DecisionsAreFinal ==
    [][/\ \A c \in Commands :
            /\ command[c] = "finalized" => command'[c] = "finalized"
            /\ receipt[c] # "none" => receipt'[c] = receipt[c]
       /\ \A r \in Creates :
            status[r] \in {"cancelled", "expired"} => status'[r] = status[r]]_vars

\* Nothing stays half done: a reserved create is settled by the reconciler
\* even if its handler is gone, and so is a cancel the shard has decided.
CommandsSettle ==
    \A c \in Commands :
        /\ IsCreate(c) => (command[c] = "reserved" ~> command[c] # "reserved")
        /\ Operation(c) = "cancel" =>
             (command[c] = "reserved" /\ receipt[c] # "none" ~> command[c] # "reserved")

\* What docs/global-quota-leases.md says of a release: it is idempotent, so a
\* released lease does not count again.
ReleasedStaysReleased ==
    [][\A r \in Creates : lease[r] = "released" => lease'[r] = "released"]_vars

\* What docs/control-plane-booking-command.md says of the reconciler: it
\* repairs a command whose receipt is on the shard, confirms included.
ConfirmsSettle ==
    \A c \in Lifecycle :
        command[c] = "reserved" /\ receipt[c] = "succeeded" ~> command[c] # "reserved"
=============================================================================
