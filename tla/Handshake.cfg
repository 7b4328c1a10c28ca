CONSTANTS
    NumSteps = 3
    MaxAttempts = 3
    MaxTries = 2
    MaxResets = 2
SPECIFICATION FairSpec
INVARIANTS
    TypeOK
    AcksAreForTheCommand
    OneRunPerReset
PROPERTIES
    StepsEnd
CHECK_DEADLOCK FALSE
