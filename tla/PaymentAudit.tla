---------------------------- MODULE PaymentAudit ----------------------------
(***************************************************************************)
(* The payment reconciler: what its read-only audit of one payment reports, *)
(* and which of its findings it can repair by replaying a recorded command. *)
(*                                                                         *)
(* Findings that compare amounts, fingerprints or ticket codes, and those   *)
(* that count rows a unique index keeps at one, never arise here: the data  *)
(* they look at is not part of PaymentSaga.                                 *)
(***************************************************************************)
EXTENDS PaymentSaga

\* the codes whose condition holds
Found(checks) == {code \in DOMAIN checks : checks[code]}

checkControl(c) ==
    Found([refund_exceeds_capture |->
             Succeeded(c, "refund") /\ ~Succeeded(c, "capture"),
           completed_saga_without_full_capture |->
             c.saga.state = "completed" /\ ~Succeeded(c, "capture")])

capturedRequiresIssuedTickets(c, s) ==
    /\ ~Succeeded(c, "refund") /\ ~Succeeded(c, "void")
    /\ c.intent \notin {"refund_pending", "refunded", "voided", "cancelled"}
    /\ ~(/\ c.intent = "manual_review"
         /\ InSaga(c, "manual_review", "refund")
         /\ c.saga.category = "database_finalize_failed"
         /\ "mark_refund_pending" \in s.receipts)

controlFinalizeIncomplete(c, intent, state, step, mayBeManual) ==
    \/ c.intent = intent /\ InSaga(c, state, step)
    \/ /\ c.intent = intent \/ (mayBeManual /\ c.intent = "manual_review")
       /\ InSaga(c, "manual_review", step)
       /\ c.saga.category = "database_finalize_failed"

\* a command committed on the shard that the control database has not taken in
ReceiptNotFinalized(c, s) ==
    LET Incomplete(k, intent, state, step, mayBeManual) ==
          /\ k \in s.receipts
          /\ controlFinalizeIncomplete(c, intent, state, step, mayBeManual)
    IN  Found([issue_tickets |->
                 Incomplete("issue_tickets", "ticket_issue_pending",
                            "issuing_tickets", "issue_tickets", TRUE),
               mark_refund_pending |->
                 Incomplete("mark_refund_pending", "refund_pending",
                            "compensating", "refund", TRUE),
               apply_refund_compensation |->
                 /\ Succeeded(c, "refund")
                 /\ Incomplete("apply_refund_compensation", "refunded",
                               "refunding", "compensate", FALSE),
               cancel_voided_reservation |->
                 /\ Succeeded(c, "void")
                 /\ "apply_refund_compensation" \notin s.receipts
                 /\ Incomplete("cancel_voided_reservation", "voided",
                               "compensating", "compensate", FALSE)])

checkShard(c, s) ==
    ReceiptNotFinalized(c, s) \cup
    Found([begin_payment_shard_committed_control_incomplete |->
             c.intent = "reservation_securing" /\ "begin" \in s.receipts,
           captured_payment_reservation_state_mismatch |->
             /\ Succeeded(c, "capture")
             /\ s.resv \notin {"payment_pending", "confirmed",
                               "refund_pending", "cancelled"},
           completed_payment_without_issued_ticket_order |->
             c.intent = "completed" /\ s.order # "issued",
           captured_payment_without_ticket |->
             /\ Succeeded(c, "capture")
             /\ capturedRequiresIssuedTickets(c, s) /\ s.order # "issued",
           ticket_without_captured_payment |->
             /\ ~Succeeded(c, "capture")
             /\ s.order = "issued" \/ s.tickets = "active",
           issued_ticket_order_without_receipt |->
             s.order = "issued" /\ "issue_tickets" \notin s.receipts,
           confirmed_reservation_without_active_ticket |->
             s.resv = "confirmed" /\ s.tickets # "active",
           fully_refunded_payment_with_active_ticket |->
             Succeeded(c, "refund") /\ s.tickets = "active",
           voided_payment_with_live_reservation |->
             Succeeded(c, "void") /\ s.resv # "cancelled",
           cancelled_ticket_without_required_refund |->
             /\ s.tickets = "cancelled" /\ Succeeded(c, "capture")
             /\ ~Succeeded(c, "refund") /\ c.intent # "refund_pending"])

\* the provider's captured and refunded amounts follow its status
checkProvider(c, p) ==
    Found([provider_capture_mismatch |->
             Succeeded(c, "capture") # (p \in {"captured", "refunded"}),
           provider_refund_mismatch |->
             Succeeded(c, "refund") # (p = "refunded")])

inspect == checkControl(ctl) \cup checkShard(ctl, shard) \cup checkProvider(ctl, prov)

\* the findings reconcileIDs repairs when it is asked to
Repairable == inspect \cap Commands

----------------------------------------------------------------------------


\* What the audit calls repairable is repaired by the replay: the repair is
\* accepted once no lease is live, and the shard answers from its receipt
\* instead of running the command a second time (matchingRecordedCommand,
\* claimRepairSaga).  An issuance is not among them: it is planned anew before
\* its receipt is read, and its own tickets refuse the plan.
RepairableMeansReplayable ==
    /\ \A k \in Repairable :
         RepairAccepts(ctl, k) /\ (k # "issue_tickets" => Replays(shard, k))
    /\ "begin_payment_shard_committed_control_incomplete" \in inspect =>
         InSaga(ctl, "created", "secure_reservation")
============================================================================
