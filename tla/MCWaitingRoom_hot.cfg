SPECIFICATION Spec
CONSTANTS
    o1 = o1
    o2 = o2
    w1 = w1
    w2 = w2
    Owners = {o1, o2}
    Keys = {k1, k2}
    Attempts = {a1, a2}
    Workers = {w1, w2}
    None = None
    EntryIds = {e1, e2}
    TokenIds = {t1, t2}
    MaxQueue = 2
    MaxInflight = 1
    MaxVersions = 2
    MaxLosses = 1
    MaxHeld = 1
    Batch = 2
    MaxRate = 2
SYMMETRY Interchangeable
CONSTRAINT OneComplication
INVARIANTS
    RoomAccountsAgree
    SpendableTokensLocated
    TokensBuyOneBooking
    
PROPERTY LeasesAreFenced
