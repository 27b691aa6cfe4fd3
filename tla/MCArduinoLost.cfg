SPECIFICATION Spec
CONSTANTS
    Callables = {c1, c2, c3}
    NoCallable = NoCallable
    MaxCallbacks = 2
    GenMod = 4
    MaxTasks = 2
    RawTasks = {}
    NoTask = NoTask
    Periods = {}
    Delays = {0}
    ClockMax = 1
    MaxTime = 1
    InCallback = "anything"
    DisableDelays = FALSE
    MayExit = FALSE
    Driver = "tick"
SYMMETRY Symmetry
INVARIANT RemovableWhileLive
