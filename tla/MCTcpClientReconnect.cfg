SPECIFICATION Spec
CONSTANTS
    MaxAttempts = 2
    MaxInput = 2
    MaxDepth = 3
    AppUse = "any"
CHECK_DEADLOCK FALSE
INVARIANTS
    AttemptReported
