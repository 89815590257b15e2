SPECIFICATION Spec
CONSTANTS
    Ephemeral = TRUE
    Faults = {}
    MaxPods = 2
    MaxFails = 2
INVARIANTS TypeOK MarkedPodStaysUnregistered RegistrationFirst CompleteFollowsStart NoLeakedRegistration
PROPERTIES NoJobInterrupted StopCompletes RefinesContract
CHECK_DEADLOCK FALSE
