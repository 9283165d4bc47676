SPECIFICATION Spec
CONSTANTS
    w1 = w1
    w2 = w2
    None = None
    Admin = Admin
    Workers <- MCWorkers
    Events <- MCEvents
    MaxAttempts = 2
    MaxUpsets = 1
SYMMETRY WorkerSymmetry
INVARIANTS
    RecordsAreTrue
    WaitingSagasHaveProof
    CapturesNotParked
    
    RepairableMeansReplayable
PROPERTY KeepsPromise
CHECK_DEADLOCK FALSE
