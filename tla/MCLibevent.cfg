SPECIFICATION FairSpec
CONSTANTS
    Callables = {c1, c2}
    NoCallable = NoCallable
    MaxCallbacks = 2
    GenMod = 4
    NoTask = NoTask
    NotPending = NotPending
    Periods = {0, 1}
    Delays = {2}
    ClockMax = 3
    MaxTime = 3
    SlowCallbacks = FALSE
    DisableDelays = FALSE
    MayExit = TRUE
INVARIANTS
    TypeOK
    NoDanglingItem
    ItemsMatchRegistrations
    TimersArmed
PROPERTIES
    ImplementsTimerService
    DelayCompletes
    DataServed
