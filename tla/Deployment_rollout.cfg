SPECIFICATION Spec
CONSTANTS
    Templates = {1, 2}
    Selectors = {1, 2}
    Replicas <- MCReplicas
    Rollbacks = FALSE
    MaxEdits = 1
    MaxDuplicates = 0
    MaxJobs = 1
INVARIANTS
    TypeOK
PROPERTIES
    NewestIsKept
    RolloutConverges
