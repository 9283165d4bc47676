--------------------------- MODULE MCPaymentSaga ---------------------------
(***************************************************************************)
(* Small instances of PaymentSaga.                                         *)
(***************************************************************************)
EXTENDS PaymentAudit, TLC

CONSTANTS w1, w2

MCWorkers == {w1, w2}

MCEvents == {"authorized", "captured"}

WorkerSymmetry == Permutations(MCWorkers)
============================================================================
