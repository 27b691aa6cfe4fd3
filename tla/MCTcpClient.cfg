SPECIFICATION FairSpec
CONSTANTS
    MaxAttempts = 2
    MaxInput = 2
    MaxDepth = 3
    AppUse = "careful"
CHECK_DEADLOCK FALSE
INVARIANTS
    DescriptorsMatchState
    AttemptReported
    BoundWhileConnected
PROPERTIES
    NothingAfterTheEnd
    AttemptConcludes
