SPECIFICATION Spec
CONSTANTS
    h1 = h1
    h2 = h2
    Hras <- MCHras
    Scenarios <- MCScenarios
    Shapes <- MCShapes
    MaxEdits = 2
INVARIANTS
    TypeOK
    SameGroupAsActions
    ExactlyOneTrigger
    OnlyMatchingNames
PROPERTY
    NoTargetOverlooked
CHECK_DEADLOCK FALSE
