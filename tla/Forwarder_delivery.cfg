SPECIFICATION Spec
CONSTANTS
    Rules = {r1, r2}
    MaxDeliveries = 2
    MaxTime = 2
    MaxCrashes = 1
    MaxFails = 1
INVARIANTS
    TypeOK
    InOrder
    CheckpointFollowsPost
PROPERTIES
    NothingOld
    LatestArrives
