SPECIFICATION DeletionSpec
CONSTANTS
    Ephemeral = FALSE
    Faults = {"delete", "crash", "forbidden", "noregister"}
    MaxPods = 1
    MaxFails = 1
PROPERTIES ReleasedOnlyWhenComplete DeletionCompletes
CHECK_DEADLOCK FALSE
