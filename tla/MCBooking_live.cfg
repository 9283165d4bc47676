SPECIFICATION FairSpec
CONSTANTS
    c1 = c1
    c2 = c2
    alice = alice
    bob = bob
    r1 = r1
    k1 = k1
    k2 = k2
    standard = standard
    i1 = i1
    i2 = i2
    pa = pa
    pb = pb
    pc = pc
    pd = pd
    Clients = {c1}
    Users = {alice}
    Runs = {r1}
    Classes = {standard}
    Seats = {1}
    Passengers = {pa, pb}
    Keys = {k1}
    CommandKeys = {k1}
    ResIds = {i1, i2}
    SegmentCount = 2
    SeatClass <- OneClassSeats
    PassengerOwner <- OwnersTwo
    Requests <- RetryRequests
    MaxHoldsPerUser = 2
    MaxHoldsPerUserPerRun = 2
    MaxPassengersPerUser = 3
    HoldTTL = 1
    IdempotencyTTL = 1
    MaxTime = 2
    MaxPolicyVersion = 0
INVARIANTS
    CommandReplaysSucceed
PROPERTIES
    HoldsEnd
