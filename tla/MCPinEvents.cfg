SPECIFICATION FairSpec
CONSTANTS
    Kinds = {"interrupt", "rising", "falling", "change", "high", "low", "memory", "gpiod"}
    Lines <- MCLines
    CountMax = 3
    Wrap = 2
    MaxTime = 4
    MaxEvents = 3
    Kernel = 2
    Capacity = 2
    Blank = 0
CHECK_DEADLOCK FALSE
INVARIANTS
    InterruptsCounted
    ConditionsReported
    ClockTracks
    NothingLeaks
PROPERTIES
    DrainEnds
