SPECIFICATION FairSpec
CONSTANTS
    Callables = {c1, c2}
    NoCallable = NoCallable
    MaxCallbacks = 2
    GenMod = 4
    MaxTasks = 2
    RawTasks = {r1}
    NoTask = NoTask
    Periods = {2}
    Delays = {0, 2}
    ClockMax = 2
    MaxTime = 2
    InCallback = "no_holes"
    DisableDelays = FALSE
    MayExit = FALSE
    Driver = "tick"
INVARIANTS
    RemovableWhileLive
    EntriesMatchRegistrations
PROPERTIES
    ImplementsTimerService
    DelayCompletes
    RepeatRuns
