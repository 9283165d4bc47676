--------------------------- MODULE MCBookingCommand ---------------------------
(* Small instances of BookingCommand for TLC. *)
EXTENDS BookingCommand, TLC

CONSTANTS a, b, alice, h1, h2, w1, w2

OneOwner == [r \in Creates |-> alice]
ConfirmA == [op |-> "confirm", rsv |-> a, key |-> 1]
CancelA == [op |-> "cancel", rsv |-> a, key |-> 1]
ConfirmAndCancel == {ConfirmA, CancelA}
OnlyConfirm == {ConfirmA}
OnlyCancel == {CancelA}

Symmetry == Permutations({h1, h2}) \cup Permutations({w1, w2})
=============================================================================
