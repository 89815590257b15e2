SPECIFICATION Spec
CONSTANTS
    Ephemeral = TRUE
    Faults = {"delete"}
    MaxPods = 2
    MaxFails = 0
INVARIANT RegistrationFirst
CHECK_DEADLOCK FALSE
