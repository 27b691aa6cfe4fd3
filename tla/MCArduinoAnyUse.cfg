SPECIFICATION Spec
CONSTANTS
    Callables = {c1, c2, c3}
    NoCallable = NoCallable
    MaxCallbacks = 2
    GenMod = 2
    MaxTasks = 2
    RawTasks = {r1}
    NoTask = NoTask
    Periods = {0, 1}
    Delays = {1}
    ClockMax = 1
    MaxTime = 1
    InCallback = "anything"
    DisableDelays = TRUE
    MayExit = TRUE
    Driver = "run_forever"
SYMMETRY Symmetry
CHECK_DEADLOCK FALSE
INVARIANTS
    ELTypeOK
    LiveHandleValid
    StaleHandleRejected
    ExecutingCallableAlive
    DestroyedOnce
PROPERTIES
    RunsOnlyLive
