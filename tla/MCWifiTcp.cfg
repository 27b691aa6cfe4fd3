SPECIFICATION FairSpec
CONSTANTS
    Roles = {"server", "client"}
    MaxConnections = 2
    RegistrySize = 2
    MaxPeers = 3
    MaxInput = 1
    MaxBytes = 3
    Capacity = 2
    Blank = 0
    AppUse = "careful"
CHECK_DEADLOCK FALSE
INVARIANTS
    StreamsKept
    RegistryTracks
    EndToldOnce
PROPERTIES
    EndHeard
