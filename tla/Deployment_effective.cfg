SPECIFICATION Spec
CONSTANTS
    Templates = {1}
    Selectors = {1}
    Replicas <- MCReplicas
    Rollbacks = FALSE
    MaxEdits = 1
    MaxDuplicates = 0
    MaxJobs = 0
PROPERTY
    EffectiveTimeArrives
