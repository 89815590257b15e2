SPECIFICATION Spec
CONSTANTS
    Runs <- MCRuns
    JobsOf <- MCJobsOf
    JobLabels <- MCJobLabels
    RepoOf <- MCRepoOf
    Target <- MCTarget
    InitialReplicas <- MCInitialReplicas
    Scenarios <- PassScenarios
    Duration = 1
    Horizon = 1
    MaxTime = 4
    MaxFails = 1
INVARIANTS
    TypeOK
    NoPhantomCapacity
    ReplicasWithinBounds
    NoRunMissed
PROPERTIES
    EveryJobRuns
    CapacityReleased
