SPECIFICATION Spec
CONSTANTS
    HighWater = 1
    LowWater = 0
    MaxOverHighPolls = 2
    PollsMax = 2
    Clients = {p1, p2, p3}
    Addrs = {a1, a2, a3}
    NoConn = NoConn
    NoClient = NoClient
    MaxSlots = 2
    Options <- Closing
    MaxOutput = 2
    MaxChunk = 2
    AppUse = "careful"
SYMMETRY Symmetry
CHECK_DEADLOCK FALSE
INVARIANTS
    TypeOK
    SlotsMirrorConnections
    EndToldOnce
    ObjectsBounded
    ReportedOncePerOverrun
