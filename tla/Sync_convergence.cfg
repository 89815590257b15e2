SPECIFICATION Spec
CONSTANTS
    StatefulSets = FALSE
    MaxOwners = 2
    MaxReplicas = 1
    Templates = 1
    MaxChanges = 1
    MaxJobs = 1
    MaxFails = 1
INVARIANT RequestReachesPod
PROPERTY Converges
CHECK_DEADLOCK FALSE
