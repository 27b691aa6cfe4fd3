SPECIFICATION Spec
CONSTANTS
    Capacity = 2
    Blank = "blank"
    Setups <- MCSetups
    FrameSize = 3
    HeaderSize = 2
    MaxPayload = 2
    payload_size_from_header <- MCPayloadSize
    Literals <- MCLiterals
    MaxChunk = 2
CHECK_DEADLOCK FALSE
INVARIANTS
    StreamInOrder
    MessagesAsFramed
    EmittedIsValue
