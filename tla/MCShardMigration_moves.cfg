SPECIFICATION Spec
CONSTANTS
    ControlShards = {"legacy", "shard-0"}
    PhysicalShards = {"booking-0", "booking-1"}
    Homes = {"legacy", "booking-0"}
    NumTables = 2
    JournalBatch = 2
    MaxWrites = 2
    MaxPlans = 2
INVARIANTS
    OnlyAssignedRouteAdmitted
    
PROPERTY
    KeepsOwnership
CHECK_DEADLOCK FALSE
