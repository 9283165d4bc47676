-------------------------- MODULE PaymentPromise --------------------------
(***************************************************************************)
(* What a payment promises, whatever the workers, the provider and the     *)
(* operator do to get there: money is only taken for seats that are kept,  *)
(* a ticket is only valid for money that was captured, a refund waits      *)
(* until the tickets are withdrawn, and the seats are given back only once *)
(* the money is.                                                           *)
(***************************************************************************)

VARIABLES money, seats, ticket

promiseVars == <<money, seats, ticket>>

PromiseInit == money = "none" /\ seats = "kept" /\ ticket = "none"

Authorize ==
    /\ money = "none" /\ seats = "kept"
    /\ money' = "authorized" /\ UNCHANGED <<seats, ticket>>

Capture ==
    /\ money = "authorized" /\ seats = "kept"
    /\ money' = "captured" /\ UNCHANGED <<seats, ticket>>

Void ==
    /\ money \in {"none", "authorized"} /\ seats = "kept" /\ ticket = "none"
    /\ money' = "voided" /\ UNCHANGED <<seats, ticket>>

Issue ==
    /\ money = "captured" /\ seats = "kept" /\ ticket = "none"
    /\ ticket' = "valid" /\ UNCHANGED <<money, seats>>

Withdraw ==
    /\ money = "captured" /\ ticket = "valid"
    /\ ticket' = "withdrawn" /\ UNCHANGED <<money, seats>>

Refund ==
    /\ money = "captured" /\ seats = "kept" /\ ticket # "valid"
    /\ money' = "refunded" /\ UNCHANGED <<seats, ticket>>

Release ==
    /\ money \in {"voided", "refunded"} /\ seats = "kept" /\ ticket # "valid"
    /\ seats' = "free" /\ UNCHANGED <<money, ticket>>

\* a hold that ran out before its payment began
Lapse ==
    /\ money = "none" /\ seats = "kept" /\ ticket = "none"
    /\ seats' = "free" /\ UNCHANGED <<money, ticket>>

PromiseNext ==
    \/ Authorize \/ Capture \/ Void \/ Issue
    \/ Withdraw \/ Refund \/ Release \/ Lapse

PromiseSpec == PromiseInit /\ [][PromiseNext]_promiseVars
============================================================================
