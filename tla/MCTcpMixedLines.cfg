SPECIFICATION Spec
CONSTANTS
    HighWater = 1
    LowWater = 0
    MaxOverHighPolls = 2
    PollsMax = 2
    Clients = {p1, p2}
    Addrs = {a1}
    NoConn = NoConn
    NoClient = NoClient
    MaxSlots = 1
    Options <- One
    MaxOutput = 2
    MaxChunk = 2
    AppUse = "careful"
SYMMETRY Symmetry
CHECK_DEADLOCK FALSE
INVARIANT LineOfOneClient
