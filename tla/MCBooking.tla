------------------------------ MODULE MCBooking ------------------------------
(* Small instances of Booking for TLC. *)
EXTENDS Booking, TLC

CONSTANTS c1, c2, alice, bob, r1, k1, k2, standard, i1, i2, pa, pb, pc, pd

OneClassSeats == [s \in Seats |-> standard]
OwnersTwo == pa :> alice @@ pb :> alice
Owners == pa :> alice @@ pb :> alice @@ pd :> alice @@ pc :> bob

Req(u, run, from, to, ps, k) ==
    [user |-> u, run |-> run, class |-> standard, from |-> from, to |-> to,
     passengers |-> ps, key |-> k]

\* Two users on one run: retries and conflicts of a key, overlapping and
\* adjacent journeys, one request for two passengers.
RaceRequests == {
    Req(alice, r1, 0, 1, {pa}, k1), Req(alice, r1, 1, 2, {pb, pd}, k2),
    Req(alice, r1, 0, 1, {pb}, k1), Req(bob, r1, 1, 2, {pc}, k1)}

\* One user sends one key again and again, with the same request, with one that
\* shares the seat but no segment, and with one past the last stop.
RetryRequests == {
    Req(alice, r1, 0, 1, {pa}, k1), Req(alice, r1, 1, 2, {pb}, k1),
    Req(alice, r1, 1, 3, {pb}, k1)}

\* Bound: the hot-train policy changes, or two requests race, or time passes and
\* holds and idempotency records run out, while one request is served.
OneComplication ==
    now = 0 \/ /\ \A scope \in Scopes : policy[scope].version = 0
               /\ Cardinality({c \in Clients : tx[c] # Idle}) <= 1

Symmetry == Permutations({c1, c2}) \cup Permutations(ResIds)
=============================================================================
