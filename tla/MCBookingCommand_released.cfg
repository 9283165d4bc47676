SPECIFICATION Spec
CHECK_DEADLOCK FALSE
CONSTANTS
    a = a
    b = b
    alice = alice
    h1 = h1
    h2 = h2
    w1 = w1
    w2 = w2
    Creates = {a}
    Owner <- OneOwner
    Lifecycle <- OnlyConfirm
    Handlers = {h1}
    Workers = {w1}
    MaxHolds = 1
    Capacity = 1
    HoldTTL = 1
    MaxTime = 1
PROPERTIES
    ReleasedStaysReleased
