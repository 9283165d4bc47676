SPECIFICATION Spec
CHECK_DEADLOCK FALSE
CONSTANTS
    a = a
    b = b
    alice = alice
    h1 = h1
    h2 = h2
    w1 = w1
    w2 = w2
    Creates = {a, b}
    Owner <- OneOwner
    Lifecycle <- ConfirmAndCancel
    Handlers = {h1, h2}
    Workers = {w1}
    MaxHolds = 1
    Capacity = 1
    HoldTTL = 1
    MaxTime = 1
SYMMETRY Symmetry
INVARIANTS
    TypeOK
    HoldsAreCounted
    LiveHoldsWithinQuota
    OutcomesAgree
    LedgerFollowsShard
    SeatsExact
PROPERTIES
    DecisionsAreFinal
