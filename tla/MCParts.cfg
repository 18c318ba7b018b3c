SPECIFICATION PSpec
CONSTANTS
    BT_CHUNK_SIZE = 18
    PAYLOAD = 2
    RECV_WINDOW_SIZE = 4
    MAX_TIMEOUT_CNT = 5
    DEFAULT_TIMEOUT = 5000
    Delays <- SomeDelays
    Waits <- SomeWaits
    FLIGHT = 2
    USERBUF_SIZE = 5
    MAX_INPUT = 6
INVARIANTS
    DlTypeOK
    BufferMatchesWindow
    FinishedIsWhole
    RtoCoversDelay
    GivesUpSlowly
    LinesAsTyped
PROPERTIES
    ImplementsReassembly
