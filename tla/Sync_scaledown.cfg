SPECIFICATION Safety
CONSTANTS
    StatefulSets = FALSE
    MaxOwners = 2
    MaxReplicas = 2
    Templates = 2
    MaxChanges = 1
    MaxJobs = 2
    MaxFails = 0
INVARIANTS TypeOK SyncedIsSeen
PROPERTY ScaleDownSparesJobs
CHECK_DEADLOCK FALSE
