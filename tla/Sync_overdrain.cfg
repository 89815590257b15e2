SPECIFICATION Safety
CONSTANTS
    StatefulSets = FALSE
    MaxOwners = 3
    MaxReplicas = 2
    Templates = 1
    MaxChanges = 1
    MaxJobs = 0
    MaxFails = 0
PROPERTY ScaleDownKeepsDesired
CHECK_DEADLOCK FALSE
