SPECIFICATION Spec
CONSTANTS
    Runs <- MCRuns
    JobsOf <- MCJobsOf
    JobLabels <- MCJobLabels
    RepoOf <- MCRepoOf
    Target <- MCTarget
    InitialReplicas <- MCInitialReplicas
    Scenarios <- WebhookOnly
    Duration = 1
    Horizon = 0
    MaxTime = 3
    MaxFails = 0
PROPERTY
    EveryJobRuns
