SPECIFICATION Spec
CONSTANTS
    c1 = c1
    c2 = c2
    alice = alice
    bob = bob
    r1 = r1
    k1 = k1
    k2 = k2
    standard = standard
    i1 = i1
    i2 = i2
    pa = pa
    pb = pb
    pc = pc
    pd = pd
    Clients = {c1, c2}
    Users = {alice, bob}
    Runs = {r1}
    Classes = {standard}
    Seats = {1, 2}
    Passengers = {pa, pb, pc, pd}
    Keys = {k1, k2}
    CommandKeys = {k1}
    ResIds = {i1, i2}
    SegmentCount = 2
    SeatClass <- OneClassSeats
    PassengerOwner <- Owners
    Requests <- RaceRequests
    MaxHoldsPerUser = 2
    MaxHoldsPerUserPerRun = 1
    MaxPassengersPerUser = 3
    HoldTTL = 1
    IdempotencyTTL = 1
    MaxTime = 1
    MaxPolicyVersion = 2
SYMMETRY Symmetry
CONSTRAINT OneComplication
INVARIANTS
    TypeOK
    SeatExclusive
    InventoryExact
    PassengerBookedOnce
    OrdersFollowReservations
    ChecksStayTrue
    QuotaRespected
    KeyCreatesOnce
PROPERTIES
    ReservationsOnlyMoveForward
    HoldsCommitUnderCheckedState
