---------------------------- MODULE PaymentSaga ----------------------------
(***************************************************************************)
(* The payment of one reservation: the intent, its saga and its provider   *)
(* operations in the control database, the provider behind an unreliable   *)
(* wire, the reservation on its shard, and the processes that move them:   *)
(* the customer's requests, payment workers, webhook deliveries and the    *)
(* operator's repairs.                                                     *)
(*                                                                         *)
(* A reservation has at most one active intent (unique index), a failed    *)
(* intent leaves the reservation unpayable, so one intent is all a         *)
(* reservation ever has.  Leases are an owner and whether the lease is     *)
(* still live; back-off delays are over whenever a row is looked at.       *)
(* Amounts, fingerprints and currencies always agree here: the checks that *)
(* compare them pass.                                                      *)
(***************************************************************************)
EXTENDS Naturals, FiniteSets

CONSTANTS
    Workers,      \* payment-worker processes
    Admin,        \* the payment-admin process that replays recorded commands
    None,         \* no lease owner
    MaxAttempts,  \* WorkerConfig.MaxAttempts
    MaxUpsets,    \* bound: crashes, stalled jobs and operator commands
    Events        \* the webhook events the provider delivers, by status

ASSUME PaymentConstants ==
    /\ MaxAttempts \in Nat \ {0}
    /\ MaxUpsets \in Nat
    /\ Admin \notin Workers /\ None \notin Workers \cup {Admin}
    /\ Events \subseteq {"authorized", "captured", "voided", "refunded"}

VARIABLES
    ctl,       \* control database: intent, saga, operations, order locator
    inbox,     \* payment_webhook_inbox, one row per event id
    shard,     \* the reservation, order, tickets and receipts on its shard
    prov,      \* the provider's status of the payment
    keys,      \* the operations whose idempotency key the provider recorded
    late,      \* requests given up by their sender that may still arrive
    job,       \* what each worker, and the operator, is doing
    api,       \* the customer's CreateIntent call after its shard command
    upsets     \* crashes, stalled jobs and operator commands so far

vars == <<ctl, inbox, shard, prov, keys, late, job, api, upsets>>

providerVars == <<prov, keys, late>>

OpTypes == {"create_checkout", "capture", "void", "refund"}

Commands == {"issue_tickets", "mark_refund_pending",
             "cancel_voided_reservation", "apply_refund_compensation"}

Owners == Workers \cup {Admin}

NoLease == [owner |-> None, live |-> FALSE]

Lease(w) == [owner |-> w, live |-> TRUE]

\* attempts only matters up to the limit
Bump(n) == IF n < MaxAttempts THEN n + 1 ELSE n

\* a row that is over keeps no lease, and its attempts are not read again
Closed(state) == [state |-> state, lease |-> NoLease, attempts |-> 0]

NoOperation == Closed("none")

NewOperation == [NoOperation EXCEPT !.state = "pending"]

NoSaga == [state |-> "none", step |-> "none", lease |-> NoLease,
           attempts |-> 0, category |-> "none"]

Idle == [kind |-> "idle", what |-> "none", at |-> "none",
         answer |-> "none", last |-> FALSE]

IntentTerminal == {"completed", "voided", "refunded", "cancelled", "failed"}

SagaTerminal == {"completed", "compensated", "failed"}

InSaga(c, state, step) == c.saga.state = state /\ c.saga.step = step

Succeeded(c, t) == c.ops[t].state = "succeeded"

\* an insert that keeps the row already there (ON CONFLICT DO NOTHING)
InsertOperation(c, t) ==
    IF c.ops[t].state = "none" THEN [c EXCEPT !.ops[t] = NewOperation] ELSE c

ReleaseSagaLease(c) == [c EXCEPT !.saga.lease = NoLease]

MoveSaga(c, state, step) ==
    [c EXCEPT !.saga.state = state, !.saga.step = step]

Init ==
    /\ ctl = [intent |-> "none", saga |-> NoSaga,
              ops |-> [t \in OpTypes |-> NoOperation], locator |-> "none"]
    /\ inbox = [e \in Events |-> Closed("none")]
    /\ shard = [resv |-> "held", order |-> "none", tickets |-> "none",
                receipts |-> {}, releases |-> 0]
    /\ prov = "absent" /\ keys = {} /\ late = {}
    /\ job = [w \in Owners |-> Idle]
    /\ api = "idle"
    /\ upsets = 0

----------------------------------------------------------------------------
(* The customer: CreateIntent, the cancellation request, the hold that     *)
(* runs out on the shard before the payment begins.                        *)

Payable(s) == s.resv = "held"

ReserveIntent(c) ==
    MoveSaga([c EXCEPT !.intent = "reservation_securing"],
             "created", "secure_reservation")

\* CreateIntent up to the shard command: the hold is read, the intent and its
\* saga are inserted
CreateIntent ==
    /\ ctl.intent = "none" /\ Payable(shard)
    /\ ctl' = ReserveIntent(ctl)
    /\ UNCHANGED <<inbox, shard, providerVars, job, api, upsets>>

\* BeginPayment on the shard: replayed from its receipt, or the hold moves to
\* payment_pending with its order
BeginPayment(s) ==
    IF "begin" \in s.receipts THEN s
    ELSE [s EXCEPT !.resv = "payment_pending", !.order = "payment_pending",
                   !.receipts = @ \cup {"begin"}]

\* secureReservation: the answer may be lost after the shard committed, and
\* the same key may then run it again
SecureReservation ==
    /\ api = "idle" /\ ctl.intent = "reservation_securing"
    /\ IF "begin" \in shard.receipts \/ Payable(shard)
         THEN shard' = BeginPayment(shard) /\ api' \in {"secured", "idle"}
         ELSE api' = "not_payable" /\ UNCHANGED shard
    /\ UNCHANGED <<ctl, inbox, providerVars, job, upsets>>

\* what MarkReservationSecured writes; each update accepts zero rows
Secured(c) ==
    InsertOperation(
        [c EXCEPT !.intent = IF @ = "reservation_securing"
                               THEN "checkout_pending" ELSE @,
                  !.saga = IF @.state = "created"
                             THEN [@ EXCEPT !.state = "reservation_secured",
                                            !.step = "create_checkout"]
                             ELSE @],
        "create_checkout")

MarkReservationSecured ==
    /\ api = "secured" /\ api' = "idle"
    /\ ctl' = Secured(ctl)
    /\ UNCHANGED <<inbox, shard, providerVars, job, upsets>>

\* FailReservationSecuring commits only if both rows are still where the
\* request left them
FailReservationSecuring ==
    /\ api = "not_payable" /\ api' = "idle"
    /\ IF ctl.intent = "reservation_securing" /\ ctl.saga.state = "created"
         THEN ctl' = MoveSaga([ctl EXCEPT !.intent = "failed"],
                              "failed", "complete")
         ELSE UNCHANGED ctl
    /\ UNCHANGED <<inbox, shard, providerVars, job, upsets>>

\* the hold expirer of the booking component
HoldExpires ==
    /\ shard.resv = "held"
    /\ shard' = [shard EXCEPT !.resv = "expired"]
    /\ UNCHANGED <<ctl, inbox, providerVars, job, api, upsets>>

stateAllowsNewCancellation(c, kind) ==
    \/ kind = "void" /\ c.intent \in {"awaiting_customer", "authorized"}
    \/ kind = "refund" /\ c.intent = "completed"

\* RequestCancellation: a void before the capture is proven, a refund after
RequestCancellation(c, kind) ==
    MoveSaga(
        InsertOperation(
            [c EXCEPT !.intent = IF kind = "void" THEN "void_pending"
                                                  ELSE "refund_pending"],
            kind),
        "compensating", kind)

\* CancelIntent and CancelReservation; repeats find the operation and change
\* nothing
CancelIntent ==
    LET kind == IF Succeeded(ctl, "capture") THEN "refund" ELSE "void"
    IN  /\ ctl.ops[kind].state = "none"
        /\ stateAllowsNewCancellation(ctl, kind)
        /\ ctl.saga.state \in (IF kind = "void"
                                 THEN {"awaiting_provider", "authorized"}
                                 ELSE {"completed"})
        /\ ctl' = RequestCancellation(ctl, kind)
        /\ UNCHANGED <<inbox, shard, providerVars, job, api, upsets>>

----------------------------------------------------------------------------
(* The provider, modelled from the sandbox and from how the worker uses    *)
(* it: a request on the wire may be applied late, an idempotency key acts  *)
(* at most once, and the merchant may capture an authorized payment on its *)
(* own.                                                                    *)

StatusAfter == [create_checkout |-> "created", capture |-> "captured",
                void |-> "voided", refund |-> "refunded"]

validateTransition(t, status) ==
    CASE t = "create_checkout" -> status = "absent"
      [] t = "capture" -> status = "authorized"
      [] t = "void" -> status \in {"created", "authorized"}
      [] t = "refund" -> status = "captured"

\* some request for the operation is on its way to the provider
OnTheWire(t) ==
    t \in late \/ \E w \in Workers : job[w].at = "sent" /\ job[w].what = t

\* the key is recorded with the change, so a repeated request finds it
Applied(t) ==
    /\ OnTheWire(t) /\ t \notin keys
    /\ validateTransition(t, prov)
    /\ prov' = StatusAfter[t]
    /\ keys' = keys \cup {t}
    /\ late' = late \ {t}
    /\ UNCHANGED <<ctl, inbox, shard, job, api, upsets>>

CreateCheckout == Applied("create_checkout")

Transition(t) == t # "create_checkout" /\ Applied(t)

\* the hosted checkout, whose reference the customer has once the checkout
\* is recorded
CompleteHostedCheckout ==
    /\ prov = "created" /\ Succeeded(ctl, "create_checkout")
    /\ prov' = "authorized"
    /\ UNCHANGED <<ctl, inbox, shard, keys, late, job, api, upsets>>

MerchantCaptures ==
    /\ prov = "authorized"
    /\ prov' = "captured"
    /\ UNCHANGED <<ctl, inbox, shard, keys, late, job, api, upsets>>

\* the statuses the provider has been through, as far as an event tells
Reached(status) ==
    CASE prov = "captured" -> status \in {"authorized", "captured"}
      [] prov = "refunded" -> status \in {"authorized", "captured", "refunded"}
      [] OTHER -> status = prov

\* the first delivery of an event is kept, later ones are duplicates
StoreVerified(rows, e) ==
    IF rows[e].state = "none" THEN [rows EXCEPT ![e].state = "received"] ELSE rows

IngestPaymentWebhook(e) ==
    /\ Reached(e)
    /\ inbox' = StoreVerified(inbox, e)
    /\ UNCHANGED <<ctl, shard, providerVars, job, api, upsets>>

----------------------------------------------------------------------------
(* Claims.                                                                 *)

\* what ClaimOperations first does to a row whose lease ran out, and to one
\* that may be retried
Reap(o) ==
    LET r == IF o.lease.live THEN o
             ELSE IF o.state = "claimed"
               THEN [o EXCEPT !.state = "pending", !.lease = NoLease]
             ELSE IF o.state = "in_flight"
               THEN [o EXCEPT !.state = "uncertain", !.lease = NoLease]
             ELSE o
    IN  IF r.state = "failed_retryable" /\ r.attempts < MaxAttempts
          THEN [r EXCEPT !.state = "pending"] ELSE r

ReapAll(c) == [c EXCEPT !.ops = [t \in OpTypes |-> Reap(c.ops[t])]]

\* mutant: the refund may leave before the shard has withdrawn the tickets
ClaimGate_BeforeWithdrawal(c, t) ==
    CASE t = "create_checkout" ->
           InSaga(c, "reservation_secured", "create_checkout")
      [] t = "capture" -> InSaga(c, "authorized", "capture")
      [] t = "void" -> InSaga(c, "compensating", "void")
      [] t = "refund" -> c.saga.step = "refund"

\* the saga position in which a pending operation may be claimed
ClaimGate(c, t) ==
    CASE t = "create_checkout" ->
           InSaga(c, "reservation_secured", "create_checkout")
      [] t = "capture" -> InSaga(c, "authorized", "capture")
      [] t = "void" -> InSaga(c, "compensating", "void")
      [] t = "refund" -> InSaga(c, "refunding", "refund")

ClaimOperation(w, t) ==
    LET c == ReapAll(ctl) IN
    /\ job[w] = Idle
    /\ c.ops[t].state = "pending" /\ ClaimGate(c, t)
    /\ ctl' = [c EXCEPT !.ops[t].state = "claimed",
                        !.ops[t].attempts = Bump(@),
                        !.ops[t].lease = Lease(w)]
    /\ job' = [job EXCEPT ![w] =
                 [Idle EXCEPT !.kind = "send", !.what = t, !.at = "claimed",
                              !.last = Bump(c.ops[t].attempts) = MaxAttempts]]
    /\ UNCHANGED <<inbox, shard, providerVars, api, upsets>>

\* an operation whose outcome is unknown is claimed through the saga's lease,
\* whatever the saga's state
ClaimUncertain(w, t) ==
    LET c == ReapAll(ctl) IN
    /\ job[w] = Idle
    /\ c.ops[t].state = "uncertain" /\ ~c.saga.lease.live
    /\ ctl' = [c EXCEPT !.saga.lease = Lease(w), !.saga.attempts = Bump(@)]
    /\ job' = [job EXCEPT ![w] =
                 [Idle EXCEPT !.kind = "query", !.what = t, !.at = "claimed",
                              !.last = c.ops[t].attempts = MaxAttempts]]
    /\ UNCHANGED <<inbox, shard, providerVars, api, upsets>>

\* ClaimOperations with nothing to claim still commits the reaping
ReapOnly(w) ==
    LET c == ReapAll(ctl) IN
    /\ job[w] = Idle /\ c # ctl
    /\ \A t \in OpTypes : ~(c.ops[t].state = "pending" /\ ClaimGate(c, t))
    /\ c.saga.lease.live \/ \A t \in OpTypes : c.ops[t].state # "uncertain"
    /\ ctl' = c
    /\ UNCHANGED <<inbox, shard, providerVars, job, api, upsets>>

\* ClaimWebhooks; a row whose lease ran out is retried like a failed one.
\* The status is read again for every event; nobody else sees the row between
\* the claim and the read, so the two are one step
ClaimWebhook(w, e) ==
    /\ job[w] = Idle
    /\ \/ inbox[e].state \in {"received", "failed_retryable"}
       \/ inbox[e].state = "processing" /\ ~inbox[e].lease.live
    /\ inbox' = [inbox EXCEPT ![e] = [state |-> "processing",
                                      lease |-> Lease(w),
                                      attempts |-> Bump(@.attempts)]]
    /\ \E a \in {prov, "retryable", "rejected"} :
         job' = [job EXCEPT ![w] =
                   [kind |-> "webhook", what |-> e, at |-> "read", answer |-> a,
                    last |-> Bump(inbox[e].attempts) = MaxAttempts]]
    /\ UNCHANGED <<ctl, shard, providerVars, api, upsets>>

\* the saga position that calls for a shard command
ActionDue(c, k) ==
    CASE k = "issue_tickets" -> InSaga(c, "issuing_tickets", "issue_tickets")
      [] k = "mark_refund_pending" -> InSaga(c, "compensating", "refund")
      [] k = "cancel_voided_reservation" ->
           InSaga(c, "compensating", "compensate")
      [] k = "apply_refund_compensation" -> InSaga(c, "refunding", "compensate")

\* the provider operation whose success the command is built from
\* (buildActionClaim, loadRepairEvidence)
ProofOf == [issue_tickets |-> "capture", mark_refund_pending |-> "capture",
            cancel_voided_reservation |-> "void",
            apply_refund_compensation |-> "refund"]

\* ClaimActions; without the proof the whole claim is rolled back
ClaimAction(w, k) ==
    /\ job[w] = Idle
    /\ ~ctl.saga.lease.live /\ ActionDue(ctl, k)
    /\ Succeeded(ctl, ProofOf[k])
    /\ ctl' = [ctl EXCEPT !.saga.lease = Lease(w), !.saga.attempts = Bump(@)]
    /\ job' = [job EXCEPT ![w] =
                 [Idle EXCEPT !.kind = "action", !.what = k, !.at = "claimed",
                              !.last = Bump(ctl.saga.attempts) = MaxAttempts]]
    /\ UNCHANGED <<inbox, shard, providerVars, api, upsets>>

----------------------------------------------------------------------------
(* Provider operations.                                                    *)

Done(w) == job' = [job EXCEPT ![w] = Idle]

\* BeginOperation commits before the request leaves
BeginOperation(w) ==
    LET t == job[w].what
        begun == [ctl EXCEPT !.ops[t].state = "in_flight"]
    IN  /\ job[w].kind = "send" /\ job[w].at = "claimed"
        /\ \/ /\ ctl.ops[t].state = "claimed" /\ ctl.ops[t].lease = Lease(w)
              /\ \/ t # "capture" /\ ctl' = begun
                 \/ /\ t = "capture" /\ ctl.intent = "authorized"
                    /\ ctl.saga.state = "authorized"
                    /\ ctl.saga.lease.owner = None
                    /\ ctl' = MoveSaga([begun EXCEPT
                                          !.intent = "capture_pending"],
                                       "capturing", "capture")
              /\ job' = [job EXCEPT ![w].at = "sent"]
           \/ /\ \/ ctl.ops[t].state # "claimed" \/ ctl.ops[t].lease # Lease(w)
                 \/ t = "capture" /\ (\/ ctl.intent # "authorized"
                                      \/ ctl.saga.state # "authorized"
                                      \/ ctl.saga.lease.owner # None)
              /\ Done(w) /\ UNCHANGED ctl
        /\ UNCHANGED <<inbox, shard, providerVars, api, upsets>>

\* queryUncertain reads the status; a checkout whose payment id is unknown is
\* replayed with its own key instead
QueryUncertain(w) ==
    LET t == job[w].what IN
    /\ job[w].kind = "query" /\ job[w].at = "claimed"
    /\ IF t = "create_checkout"
         THEN job' = [job EXCEPT ![w].at = "sent"]
         ELSE \E a \in {prov, "retryable", "rejected"} :
                job' = [job EXCEPT ![w].at = "read", ![w].answer = a]
    /\ UNCHANGED <<ctl, inbox, shard, providerVars, api, upsets>>

\* how a failed request is classified: refused before it acted, or unknown
TransportErrors(t) ==
    {"uncertain"} \cup (IF t \in keys THEN {} ELSE {"retryable", "rejected"})

\* how a request to the provider may end for its caller
Answers(t) ==
    TransportErrors(t) \cup (IF t \in keys THEN {"applied"} ELSE {})

\* mutant: an authorized payment counts as the capture that was asked for
Outcome_AuthorizedIsEnough(t, a) ==
    CASE a \in {"applied", "retryable", "rejected", "uncertain"} -> a
      [] a = StatusAfter[t] \/ (t = "capture" /\ a = "authorized") -> "applied"
      [] t = "void" /\ a = "captured" -> "captured"
      [] a # StatusAfter[t] /\ validateTransition(t, a) -> "retryable"
      [] OTHER -> "rejected"

\* uncertainDisposition of a status that was read, and the outcome of a call
Outcome(t, a) ==
    CASE a \in {"applied", "retryable", "rejected", "uncertain"} -> a
      [] a = StatusAfter[t] -> "applied"
      [] t = "void" /\ a = "captured" -> "captured"
      [] a # StatusAfter[t] /\ validateTransition(t, a) -> "retryable"
      [] OTHER -> "rejected"

\* the lease under which a claimed operation may be finalized
OwnsOperation(c, w, t, kind) ==
    IF kind = "send"
      THEN c.ops[t].state = "in_flight" /\ c.ops[t].lease = Lease(w)
      ELSE c.ops[t].state = "uncertain" /\ c.saga.lease = Lease(w)

ManualReview(c, category) ==
    [c EXCEPT
       !.intent = IF @ \in IntentTerminal THEN @ ELSE "manual_review",
       !.saga = IF @.state \in SagaTerminal \cup {"manual_review"} THEN @
                ELSE [@ EXCEPT !.state = "manual_review", !.lease = NoLease,
                               !.category = category]]

CloseOperation(c, t, state) == [c EXCEPT !.ops[t] = Closed(state)]

ReopenOperation(c, t, state) ==
    [c EXCEPT !.ops[t].state = state, !.ops[t].lease = NoLease]

\* FailOperation: reviewed for good, unknown, or to be tried again
FailOperation(c, t, kind, outcome, review) ==
    IF review THEN ManualReview(CloseOperation(c, t, "failed_permanent"), "other")
    ELSE LET next == ReopenOperation(c, t, IF outcome = "uncertain"
                                            THEN "uncertain"
                                            ELSE "failed_retryable")
         IN  IF kind = "query" THEN ReleaseSagaLease(next) ELSE next

\* applyOperationSuccess commits only from these states
SuccessFits(c, t) ==
    CASE t = "create_checkout" -> /\ c.intent = "checkout_pending"
                                  /\ c.saga.state = "reservation_secured"
      [] t = "capture" -> /\ c.intent = "capture_pending"
                          /\ c.saga.state = "capturing"
      [] t = "void" -> /\ c.intent = "void_pending"
                       /\ c.saga.state = "compensating"
      [] t = "refund" -> c.intent = "refund_pending"

applyOperationSuccess(c, t) ==
    CASE t = "create_checkout" ->
           MoveSaga([c EXCEPT !.intent = "awaiting_customer"],
                    "awaiting_provider", "await_provider")
      [] t = "capture" ->
           MoveSaga([c EXCEPT !.intent = "ticket_issue_pending"],
                    "issuing_tickets", "issue_tickets")
      [] t = "void" ->
           ReleaseSagaLease(
             [c EXCEPT !.intent = "voided", !.saga.step = "compensate",
                       !.saga.category = "none"])
      [] t = "refund" ->
           [c EXCEPT !.intent = "refunded",
                     !.saga.step = IF c.saga.state = "refunding"
                                     THEN "compensate" ELSE @]

CompleteOperation(c, t, kind) ==
    LET done == CloseOperation(c, t, "succeeded")
    IN  applyOperationSuccess(
            IF kind = "query" THEN ReleaseSagaLease(done) ELSE done, t)

\* confirmOperation refuses an operation that ended otherwise
Confirmable(c, t) == c.ops[t].state \notin {"failed_permanent", "cancelled"}

confirmOperation(c, t) == CloseOperation(c, t, "succeeded")

\* a capture found while the void was pending: the capture is recorded and
\* the saga turns to the refund
ConvergeFits(c) ==
    /\ c.intent = "void_pending" /\ InSaga(c, "compensating", "void")
    /\ Confirmable(c, "capture")

convergeCapturedCancellation(c) ==
    InsertOperation(
        ReleaseSagaLease(
            MoveSaga([confirmOperation(c, "capture") EXCEPT
                        !.intent = "refund_pending", !.saga.category = "none"],
                     "refunding", "refund")),
        "refund")

SupersedeVoidWithRefund(c) ==
    convergeCapturedCancellation(CloseOperation(c, "void", "failed_permanent"))

\* a refusal, or the last attempt, is for an operator; an unknown outcome is
\* asked about for as long as it takes
failOperation(w, outcome) ==
    FailOperation(ctl, job[w].what, job[w].kind, outcome,
                  \/ outcome = "rejected"
                  \/ outcome = "retryable" /\ job[w].last)

\* processOperation once the call has ended: lost leases, and states the
\* finalization does not expect, change nothing
FinalizeOperation(w, outcome) ==
    LET t == job[w].what IN
    ctl' = IF ~OwnsOperation(ctl, w, t, job[w].kind) THEN ctl
           ELSE IF outcome = "applied"
             THEN IF SuccessFits(ctl, t)
                    THEN CompleteOperation(ctl, t, job[w].kind) ELSE ctl
           ELSE IF outcome = "captured"
             THEN IF ConvergeFits(ctl) THEN SupersedeVoidWithRefund(ctl) ELSE ctl
           ELSE failOperation(w, outcome)

\* the call to the provider ends; a request whose outcome is unknown may
\* still be under way
EndRequest(w) ==
    LET t == job[w].what IN
    /\ job[w].kind \in {"send", "query"} /\ job[w].at = "sent"
    /\ \E a \in Answers(t) :
         /\ FinalizeOperation(w, a)
         /\ late' = IF a = "uncertain" /\ t \notin keys
                      THEN late \cup {t} ELSE late
    /\ Done(w)
    /\ UNCHANGED <<inbox, shard, prov, keys, api, upsets>>

EndQuery(w) ==
    /\ job[w].kind = "query" /\ job[w].at = "read"
    /\ FinalizeOperation(w, Outcome(job[w].what, job[w].answer))
    /\ Done(w)
    /\ UNCHANGED <<inbox, shard, providerVars, api, upsets>>

\* the operation has been unknown for longer than MaxUncertain
UncertaintyWindowExceeded(w) ==
    /\ job[w].kind = "query" /\ job[w].at = "claimed"
    /\ FinalizeOperation(w, "rejected")
    /\ Done(w)
    /\ UNCHANGED <<inbox, shard, providerVars, api, upsets>>

----------------------------------------------------------------------------
(* Webhooks.                                                               *)

advanceAuthorization(c) ==
    [c EXCEPT !.intent = IF @ = "awaiting_customer" THEN "authorized" ELSE @,
              !.saga = IF @.state = "awaiting_provider"
                         THEN [@ EXCEPT !.state = "authorized",
                                        !.step = "capture"]
                         ELSE @]

advanceCapture(c) ==
    [c EXCEPT !.intent = IF @ \in {"authorized", "capture_pending"}
                           THEN "ticket_issue_pending" ELSE @,
              !.saga = IF @.state \in {"authorized", "capturing"}
                         THEN [@ EXCEPT !.state = "issuing_tickets",
                                        !.step = "issue_tickets"]
                         ELSE @]

VoidOpen(c) ==
    c.ops["void"].state \in
        {"pending", "claimed", "in_flight", "failed_retryable", "uncertain"}

\* when CompleteWebhook accepts a status read from the provider
ConfirmationFits(c, status) ==
    CASE status \in {"created", "authorized"} -> TRUE
      [] status = "captured" ->
           IF c.intent = "void_pending" THEN VoidOpen(c) /\ ConvergeFits(c)
           ELSE Confirmable(c, "capture")
      [] status = "refunded" ->
           /\ c.intent \in {"refund_pending", "refunded", "cancelled"}
           /\ Confirmable(c, "refund")
      [] status = "voided" ->
           /\ c.intent \in {"void_pending", "voided", "cancelled"}
           /\ Confirmable(c, "void")

\* the void given up for the capture
SupersedeVoid(c) ==
    CloseOperation(c, "void",
        IF c.ops["void"].state \in {"pending", "claimed", "failed_retryable"}
          THEN "cancelled" ELSE "failed_permanent")

\* mutant: a capture reported by the provider moves the saga on and is not
\* recorded in its operation
applyProviderConfirmation_Unrecorded(c, status) ==
    CASE status = "created" -> c
      [] status = "authorized" ->
           InsertOperation(advanceAuthorization(c), "capture")
      [] OTHER -> advanceCapture(advanceAuthorization(c))

applyProviderConfirmation(c, status) ==
    CASE status = "created" -> c
      [] status = "authorized" ->
           InsertOperation(advanceAuthorization(c), "capture")
      [] status = "captured" ->
           IF c.intent = "void_pending"
             THEN convergeCapturedCancellation(SupersedeVoid(c))
             ELSE advanceCapture(
                      confirmOperation(advanceAuthorization(c), "capture"))
      [] status = "refunded" ->
           LET d == confirmOperation(c, "refund") IN
           [d EXCEPT !.intent = IF @ = "refund_pending" THEN "refunded" ELSE @,
                     !.saga = IF @.state = "compensating"
                                THEN [@ EXCEPT !.state = "refunding",
                                               !.step = "compensate"]
                                ELSE @]
      [] status = "voided" ->
           LET d == confirmOperation(c, "void") IN
           [d EXCEPT !.intent = IF @ = "void_pending" THEN "voided" ELSE @,
                     !.saga = IF @.state = "compensating"
                                THEN [@ EXCEPT !.step = "compensate",
                                               !.category = "none",
                                               !.lease = NoLease]
                                ELSE @]

FailWebhook(e, permanent) ==
    inbox' = [inbox EXCEPT ![e] =
                IF permanent THEN Closed("failed_permanent")
                ELSE [@ EXCEPT !.state = "failed_retryable",
                               !.lease = NoLease]]

\* the confirmation and the row commit together
CompleteWebhook(e, status) ==
    /\ ConfirmationFits(ctl, status)
    /\ ctl' = applyProviderConfirmation(ctl, status)
    /\ inbox' = [inbox EXCEPT ![e] = Closed("processed")]

\* processWebhook after the read: applied with the row, or failed; a row
\* whose lease is lost is left to its next claim
EndWebhook(w) ==
    LET e == job[w].what
        a == job[w].answer
    IN  /\ job[w].kind = "webhook" /\ job[w].at = "read"
        /\ IF inbox[e].state # "processing" \/ inbox[e].lease # Lease(w)
             THEN UNCHANGED <<ctl, inbox>>
           ELSE IF a \in {"retryable", "rejected"}
             THEN FailWebhook(e, a = "rejected" \/ job[w].last) /\ UNCHANGED ctl
           ELSE \/ CompleteWebhook(e, a)
                \/ FailWebhook(e, job[w].last) /\ UNCHANGED ctl
        /\ Done(w)
        /\ UNCHANGED <<shard, providerVars, api, upsets>>

----------------------------------------------------------------------------
(* Shard commands, run by a worker or replayed by the operator.            *)

ReceiptFound(s, k) == k \in s.receipts

\* a command that finds its receipt answers from it; an issuance only while
\* the order is still issued
Replays(s, k) ==
    ReceiptFound(s, k) /\ (k = "issue_tickets" => s.order = "issued")

CommandFits(s, k) ==
    /\ ~ReceiptFound(s, k)
    /\ CASE k = "issue_tickets" ->
              s.resv = "payment_pending" /\ s.order = "payment_pending"
         [] k = "mark_refund_pending" ->
              s.resv \in {"payment_pending", "confirmed"}
         [] k = "cancel_voided_reservation" ->
              s.resv = "payment_pending" /\ s.order = "payment_pending"
         [] k = "apply_refund_compensation" ->
              s.resv = "refund_pending" /\ s.order = "refund_pending"

Withdraw(tickets, to) == IF tickets = "none" THEN "none" ELSE to

IssueTickets(s) ==
    [s EXCEPT !.resv = "confirmed", !.order = "issued", !.tickets = "active"]

MarkRefundPending(s) ==
    [s EXCEPT !.resv = "refund_pending", !.order = "refund_pending",
              !.tickets = Withdraw(@, "refund_pending")]

CancelVoidedReservation(s) ==
    [s EXCEPT !.resv = "cancelled", !.order = "cancelled", !.releases = @ + 1]

ApplyRefundCompensation(s) ==
    [s EXCEPT !.resv = "cancelled", !.order = "refunded",
              !.tickets = Withdraw(@, "cancelled"), !.releases = @ + 1]

\* the command and its receipt commit together
ShardAfter(s, k) ==
    LET r == [s EXCEPT !.receipts = @ \cup {k}] IN
    CASE k = "issue_tickets" -> IssueTickets(r)
      [] k = "mark_refund_pending" -> MarkRefundPending(r)
      [] k = "cancel_voided_reservation" -> CancelVoidedReservation(r)
      [] k = "apply_refund_compensation" -> ApplyRefundCompensation(r)

\* the seats of an issuance are planned from a reservation that still awaits
\* its payment, a replayed issuance included
PlanTicketIssue(s) == s.resv = "payment_pending"

\* the ticket codes are claimed before the issuance leaves for the shard
ClaimTicketCodes(w) ==
    LET authorized == /\ ctl.intent = "ticket_issue_pending"
                      /\ ctl.saga.state = "issuing_tickets"
        Answered(a) == job' = [job EXCEPT ![w].at = "called", ![w].answer = a]
    IN  /\ job[w].kind \in {"action", "repair"} /\ job[w].at = "claimed"
        /\ job[w].what = "issue_tickets"
        /\ \/ ~PlanTicketIssue(shard) /\ Answered("refused")
           \/ PlanTicketIssue(shard) /\ ~authorized /\ Answered("lost")
           \/ /\ PlanTicketIssue(shard) /\ authorized
              /\ job' = [job EXCEPT ![w].at = "coded"]
        /\ UNCHANGED <<ctl, inbox, shard, providerVars, api, upsets>>

\* the command commits, replays or is refused; its answer may be lost, and
\* it may never reach the shard
CallShard(w) ==
    LET k == job[w].what
        Answered(a) == job' = [job EXCEPT ![w].at = "called", ![w].answer = a]
    IN  /\ job[w].kind \in {"action", "repair"}
        /\ job[w].at = IF k = "issue_tickets" THEN "coded" ELSE "claimed"
        /\ \/ /\ Replays(shard, k) \/ CommandFits(shard, k)
              /\ shard' = IF Replays(shard, k) THEN shard
                          ELSE ShardAfter(shard, k)
              /\ Answered("ok") \/ Answered("lost")
           \/ /\ ~Replays(shard, k) /\ ~CommandFits(shard, k)
              /\ Answered("refused") /\ UNCHANGED shard
           \/ Answered("lost") /\ UNCHANGED shard
        /\ UNCHANGED <<ctl, inbox, providerVars, api, upsets>>

----------------------------------------------------------------------------
(* The control side of a shard command.                                    *)

ExpectedIntent == [issue_tickets |-> "ticket_issue_pending",
                   mark_refund_pending |-> "refund_pending",
                   cancel_voided_reservation |-> "voided",
                   apply_refund_compensation |-> "refunded"]

\* what CompleteAction finds and writes; the order's locator must be there
\* exactly when tickets were cancelled
ActionFits(c, s, w, k) ==
    /\ c.saga.lease = Lease(w) /\ ActionDue(c, k)
    /\ k # "mark_refund_pending" => c.intent = ExpectedIntent[k]
    /\ k = "apply_refund_compensation" =>
         ((s.tickets = "cancelled") = (c.locator # "none"))

writeTicketLocators(c) == [c EXCEPT !.locator = "confirmed"]

CompleteAction(c, k) ==
    LET r == [c EXCEPT !.saga.lease = NoLease, !.saga.category = "none"] IN
    CASE k = "issue_tickets" ->
           MoveSaga(writeTicketLocators([r EXCEPT !.intent = "completed"]),
                    "completed", "complete")
      [] k = "mark_refund_pending" -> MoveSaga(r, "refunding", "refund")
      [] k = "cancel_voided_reservation" ->
           MoveSaga([r EXCEPT !.intent = "cancelled"],
                    "compensated", "complete")
      [] k = "apply_refund_compensation" ->
           MoveSaga([r EXCEPT !.intent = "cancelled",
                              !.locator = IF @ = "none" THEN @ ELSE "cancelled"],
                    "compensated", "complete")

\* mutant: an issuance given up asks for its refund and does not queue it
FailAction_NoRefund(c, w, k, category, review) ==
    IF c.saga.lease # Lease(w) THEN c
    ELSE IF ~review THEN ReleaseSagaLease(c)
    ELSE IF /\ k = "issue_tickets" /\ category # "database_finalize_failed"
            /\ c.intent = "ticket_issue_pending"
            /\ c.saga.state = "issuing_tickets"
      THEN ReleaseSagaLease(MoveSaga([c EXCEPT !.intent = "refund_pending"],
                                     "compensating", "refund"))
    ELSE c

\* failAction and FailAction: an issuance given up is refunded, unless the
\* shard had committed it; other commands go to review
FailAction(c, w, k, category, review) ==
    IF c.saga.lease # Lease(w) THEN c
    ELSE IF ~review THEN ReleaseSagaLease(c)
    ELSE IF k = "issue_tickets" /\ category # "database_finalize_failed"
      THEN IF c.intent = "ticket_issue_pending"
                /\ c.saga.state = "issuing_tickets"
             THEN InsertOperation(
                    ReleaseSagaLease(
                      MoveSaga([c EXCEPT !.intent = "refund_pending"],
                               "compensating", "refund")),
                    "refund")
             ELSE c
    ELSE IF c.saga.state \in SagaTerminal THEN c
    ELSE [c EXCEPT !.saga.state = "manual_review", !.saga.lease = NoLease,
                   !.saga.category = category,
                   !.intent = IF @ \in IntentTerminal THEN @
                              ELSE "manual_review"]

\* the last attempt, and a permanent refusal, end the retries
failAction(w, category, permanent) ==
    FailAction(ctl, w, job[w].what, category, permanent \/ job[w].last)


\* processAction after the shard answered; the control transaction may fail
EndAction(w) ==
    LET k == job[w].what
        a == job[w].answer
    IN  /\ job[w].kind = "action" /\ job[w].at = "called"
        /\ \/ /\ a = "ok" /\ ActionFits(ctl, shard, w, k)
              /\ ctl' = CompleteAction(ctl, k)
           \/ /\ a = "ok"
              /\ ctl' = failAction(w, "database_finalize_failed", FALSE)
           \/ /\ a # "ok"
              /\ ctl' = failAction(w, "shard_command_failed", a = "refused")
        /\ Done(w)
        /\ UNCHANGED <<inbox, shard, providerVars, api, upsets>>

----------------------------------------------------------------------------
(* payment-admin and the reconciler: repairs an operator asks for.         *)

Upset == upsets < MaxUpsets /\ upsets' = upsets + 1

\* finalizeReservationBegin, against the shard's own receipt
FinalizeReservationBegin ==
    /\ "begin" \in shard.receipts
    /\ ctl.intent = "reservation_securing"
    /\ InSaga(ctl, "created", "secure_reservation")
    /\ ctl' = Secured(ctl)
    /\ Upset
    /\ UNCHANGED <<inbox, shard, providerVars, job, api>>

\* mutant: a saga that was set aside is not taken back
RepairAccepts_WaitingOnly(c, k) ==
    /\ Succeeded(c, ProofOf[k])
    /\ ActionDue(c, k) /\ c.intent = ExpectedIntent[k]

\* the saga waits for the command, or was set aside after the shard had
\* committed it, and the proof is there
RepairAccepts(c, k) ==
    LET step == CASE k = "issue_tickets" -> "issue_tickets"
                  [] k = "mark_refund_pending" -> "refund"
                  [] OTHER -> "compensate"
        aside == IF k \in {"issue_tickets", "mark_refund_pending"}
                   THEN "manual_review" ELSE ExpectedIntent[k]
    IN  /\ Succeeded(c, ProofOf[k])
        /\ \/ ActionDue(c, k) /\ c.intent = ExpectedIntent[k]
           \/ /\ InSaga(c, "manual_review", step)
              /\ c.saga.category = "database_finalize_failed"
              /\ c.intent = aside

\* claimRepairSaga
ClaimRepair(k) ==
    LET state == CASE k = "issue_tickets" -> "issuing_tickets"
                   [] k = "apply_refund_compensation" -> "refunding"
                   [] OTHER -> "compensating"
    IN  /\ job[Admin] = Idle
        /\ ~ctl.saga.lease.live /\ RepairAccepts(ctl, k)
        /\ ctl' = [ctl EXCEPT !.intent = ExpectedIntent[k],
                              !.saga.state = state,
                              !.saga.category = "none",
                              !.saga.lease = Lease(Admin)]
        /\ job' = [job EXCEPT ![Admin] =
                     [Idle EXCEPT !.kind = "repair", !.what = k,
                                  !.at = "claimed"]]
        /\ Upset
        /\ UNCHANGED <<inbox, shard, providerVars, api>>

\* ReplayRecordedCommand after the shard answered: finalized, or its lease
\* given back
EndRepair ==
    LET k == job[Admin].what
        void == k = "cancel_voided_reservation"
    IN  /\ job[Admin].kind = "repair" /\ job[Admin].at = "called"
        /\ \/ /\ job[Admin].answer = "ok"
              /\ ActionFits(ctl, shard, Admin, k)
              /\ ctl.intent = ExpectedIntent[k]
              /\ void => ctl.locator = "none"
              /\ ctl' = CompleteAction(ctl, k)
           \/ ctl' = IF ctl.saga.lease.owner = Admin
                       THEN ReleaseSagaLease(ctl) ELSE ctl
        /\ Done(Admin)
        /\ UNCHANGED <<inbox, shard, providerVars, api, upsets>>

\* ResumeTicketIssuance: a proven capture set aside at its issuance goes back
\* to it
ResumeTicketIssuance ==
    /\ Succeeded(ctl, "capture") /\ ~ctl.saga.lease.live
    /\ ctl.intent = "manual_review"
    /\ InSaga(ctl, "manual_review", "issue_tickets")
    /\ ctl.saga.category \in {"shard_command_failed",
                              "database_finalize_failed"}
    /\ ctl' = ReleaseSagaLease(
                MoveSaga([ctl EXCEPT !.intent = "ticket_issue_pending",
                                     !.saga.category = "none"],
                         "issuing_tickets", "issue_tickets"))
    /\ Upset
    /\ UNCHANGED <<inbox, shard, providerVars, job, api>>

\* RetryProviderOperation only makes an operation due that a worker may
\* claim, and clears a saga lease that has run out (an upset by itself when
\* a job was left behind, so this command is not counted again)
RetryProviderOperation(t) ==
    /\ ctl.ops[t].state \in {"pending", "failed_retryable", "uncertain"}
    /\ ClaimGate(ctl, t)
    /\ ~ctl.saga.lease.live /\ ctl.saga.lease # NoLease
    /\ ctl' = ReleaseSagaLease(ctl)
    /\ UNCHANGED <<inbox, shard, providerVars, job, api, upsets>>

MarkManualReview ==
    /\ ctl.intent \notin IntentTerminal \cup {"none", "manual_review"}
    /\ ctl.saga.state \notin SagaTerminal \cup {"manual_review"}
    /\ ~ctl.saga.lease.live
    /\ ctl' = ManualReview(ctl, "other")
    /\ Upset
    /\ UNCHANGED <<inbox, shard, providerVars, job, api>>

----------------------------------------------------------------------------
(* Faults: processes die and stall.                                        *)

\* a process dies between two steps; what it had sent may still arrive
Crash(w) ==
    /\ job[w] # Idle /\ Upset
    /\ late' = IF job[w].at = "sent" /\ job[w].what \notin keys
                 THEN late \cup {job[w].what} ELSE late
    /\ Done(w)
    /\ UNCHANGED <<ctl, inbox, shard, prov, keys, api>>

HandlerDies ==
    /\ api # "idle" /\ api' = "idle" /\ Upset
    /\ UNCHANGED <<ctl, inbox, shard, providerVars, job>>

\* a live lease runs out: of a job that is over, or under a job that stalls
ExpireLease(inUse) == IF inUse THEN Upset ELSE UNCHANGED upsets

OperationLeaseExpires(t) ==
    LET l == ctl.ops[t].lease IN
    /\ l.live
    /\ ExpireLease(job[l.owner].kind = "send" /\ job[l.owner].what = t)
    /\ ctl' = [ctl EXCEPT !.ops[t].lease.live = FALSE]
    /\ UNCHANGED <<inbox, shard, providerVars, job, api>>

SagaLeaseExpires ==
    LET l == ctl.saga.lease IN
    /\ l.live
    /\ ExpireLease(job[l.owner].kind \in {"query", "action", "repair"})
    /\ ctl' = [ctl EXCEPT !.saga.lease.live = FALSE]
    /\ UNCHANGED <<inbox, shard, providerVars, job, api>>

WebhookLeaseExpires(e) ==
    LET l == inbox[e].lease IN
    /\ l.live
    /\ ExpireLease(job[l.owner].kind = "webhook" /\ job[l.owner].what = e)
    /\ inbox' = [inbox EXCEPT ![e].lease.live = FALSE]
    /\ UNCHANGED <<ctl, shard, providerVars, job, api>>

----------------------------------------------------------------------------

Customer ==
    \/ CreateIntent \/ SecureReservation \/ MarkReservationSecured
    \/ FailReservationSecuring \/ HoldExpires \/ CancelIntent

Provider ==
    \/ CreateCheckout \/ \E t \in OpTypes : Transition(t)
    \/ CompleteHostedCheckout \/ MerchantCaptures
    \/ \E e \in Events : IngestPaymentWebhook(e)

Claim(w) ==
    \/ \E t \in OpTypes : ClaimOperation(w, t) \/ ClaimUncertain(w, t)
    \/ ReapOnly(w)
    \/ \E e \in Events : ClaimWebhook(w, e)
    \/ \E k \in Commands : ClaimAction(w, k)

Work(w) ==
    \/ BeginOperation(w) \/ QueryUncertain(w) \/ EndRequest(w) \/ EndQuery(w)
    \/ UncertaintyWindowExceeded(w)
    \/ EndWebhook(w)
    \/ ClaimTicketCodes(w) \/ CallShard(w) \/ EndAction(w)

Operator ==
    \/ FinalizeReservationBegin \/ ResumeTicketIssuance \/ MarkManualReview
    \/ \E t \in OpTypes : RetryProviderOperation(t)
    \/ \E k \in Commands : ClaimRepair(k)

Replay == ClaimTicketCodes(Admin) \/ CallShard(Admin) \/ EndRepair

Expiry ==
    \/ \E t \in OpTypes : OperationLeaseExpires(t)
    \/ SagaLeaseExpires
    \/ \E e \in Events : WebhookLeaseExpires(e)

Next ==
    \/ Customer \/ Provider
    \/ \E w \in Workers : Claim(w) \/ Work(w)
    \/ Operator \/ Replay
    \/ Expiry \/ HandlerDies \/ \E w \in Owners : Crash(w)

Spec == Init /\ [][Next]_vars

----------------------------------------------------------------------------

LeaseType == [owner : Owners \cup {None}, live : BOOLEAN]

\* The values each part of the payment may take.
TypeOK ==
    /\ ctl.intent \in {"none", "reservation_securing", "checkout_pending",
                       "awaiting_customer", "authorized", "capture_pending",
                       "ticket_issue_pending", "completed", "void_pending",
                       "voided", "refund_pending", "refunded", "cancelled",
                       "failed", "manual_review"}
    /\ ctl.saga \in [state : {"none", "created", "reservation_secured",
                              "awaiting_provider", "authorized", "capturing",
                              "issuing_tickets", "completed", "compensating",
                              "refunding", "compensated", "failed",
                              "manual_review"},
                     step : {"none", "secure_reservation", "create_checkout",
                             "await_provider", "capture", "issue_tickets",
                             "void", "refund", "compensate", "complete"},
                     lease : LeaseType, attempts : 0..MaxAttempts,
                     category : {"none", "shard_command_failed",
                                 "database_finalize_failed", "other"}]
    /\ ctl.ops \in [OpTypes -> [state : {"none", "pending", "claimed",
                                         "in_flight", "succeeded", "uncertain",
                                         "failed_retryable", "cancelled",
                                         "failed_permanent"},
                                lease : LeaseType, attempts : 0..MaxAttempts]]
    /\ ctl.locator \in {"none", "confirmed", "cancelled"}
    /\ inbox \in [Events -> [state : {"none", "received", "processing",
                                      "processed", "failed_retryable",
                                      "failed_permanent"},
                             lease : LeaseType, attempts : 0..MaxAttempts]]
    /\ shard \in [resv : {"held", "expired", "payment_pending", "confirmed",
                          "refund_pending", "cancelled"},
                  order : {"none", "payment_pending", "issued",
                           "refund_pending", "refunded", "cancelled"},
                  tickets : {"none", "active", "refund_pending", "cancelled"},
                  receipts : SUBSET (Commands \cup {"begin"}),
                  releases : 0..1]
    /\ prov \in {"absent", "created", "authorized", "captured", "voided",
                 "refunded"}
    /\ keys \subseteq OpTypes /\ late \subseteq OpTypes
    /\ api \in {"idle", "secured", "not_payable"}
    /\ upsets \in 0..MaxUpsets

\* What the control database records is well formed and has happened: an operation succeeded
\* only if the provider did it, the states an intent ends in only if the
\* shard agrees, and securing failed only if the shard never began the
\* payment (CompleteOperation, confirmOperation, CompleteAction,
\* FailReservationSecuring).
RecordsAreTrue ==
    /\ TypeOK
    /\ Succeeded(ctl, "create_checkout") => prov # "absent"
    /\ Succeeded(ctl, "capture") => prov \in {"captured", "refunded"}
    /\ Succeeded(ctl, "void") => prov = "voided"
    /\ Succeeded(ctl, "refund") => prov = "refunded"
    /\ ctl.intent = "completed" =>
         shard.tickets = "active" /\ ctl.locator = "confirmed"
    /\ ctl.intent = "cancelled" =>
         shard.resv = "cancelled" /\ ctl.locator # "confirmed"
    /\ ctl.intent = "failed" => "begin" \notin shard.receipts
    /\ ctl.ops["create_checkout"].state # "none" => "begin" \in shard.receipts

\* A saga that waits for a shard command has the provider's proof the command
\* is built from.  Without it ClaimActions fails as a whole, for every saga
\* it had selected.
WaitingSagasHaveProof ==
    \A k \in Commands : ActionDue(ctl, k) => Succeeded(ctl, ProofOf[k])

\* The payment keeps its promise: tickets only for captured money, refunds
\* only after the tickets are withdrawn, seats free only once the money is
\* back (BeginOperation, IssueTickets, MarkRefundPending,
\* ApplyRefundCompensation, CancelVoidedReservation).
Promise == INSTANCE PaymentPromise WITH
    money <- IF prov \in {"absent", "created"} THEN "none" ELSE prov,
    seats <- IF shard.resv \in {"expired", "cancelled"}
               THEN "free" ELSE "kept",
    ticket <- CASE shard.tickets = "none" -> "none"
                [] shard.tickets = "active" -> "valid"
                [] OTHER -> "withdrawn"

KeepsPromise == Promise!PromiseSpec

\* A capture the platform has recorded is never parked: there are tickets, or
\* the money is back, or an operator has the case, or the saga stands where a
\* worker will claim the next step (advanceCapture, FailAction,
\* convergeCapturedCancellation, FailOperation).
CapturesNotParked ==
    Succeeded(ctl, "capture") =>
        \/ shard.tickets = "active" \/ prov = "refunded"
        \/ ctl.saga.state = "manual_review"
        \/ ActionDue(ctl, "issue_tickets") \/ ActionDue(ctl, "mark_refund_pending")
        \/ /\ ClaimGate(ctl, "refund")
           /\ \/ ctl.ops["refund"].state \in {"pending", "claimed", "in_flight",
                                              "uncertain"}
              \/ /\ ctl.ops["refund"].state = "failed_retryable"
                 /\ ctl.ops["refund"].attempts < MaxAttempts
============================================================================
