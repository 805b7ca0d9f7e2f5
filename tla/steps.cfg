SPECIFICATION Spec
CONSTANTS
    Definitions <- MCDefinitions
    Inputs <- MCInputs
    MaxSteps = 3
    MaxAttempts = 3
    BaseSeconds = 1
    Digests = {0, 65535}
    MaxRetries = 1
INVARIANTS OutputIsStraightRun OnlyConfigFails DelaysGrow
\* An execution ends.
CHECK_DEADLOCK FALSE
