SPECIFICATION Spec
CONSTANTS
    Callables = {c1, c2}
    NoCallable = NoCallable
    MaxCallbacks = 2
    GenMod = 4
    NoTask = NoTask
    NotPending = NotPending
    Periods = {}
    Delays = {1}
    ClockMax = 2
    MaxTime = 2
    SlowCallbacks = TRUE
    DisableDelays = FALSE
    MayExit = FALSE
SYMMETRY Symmetry
PROPERTY NeverEarly
