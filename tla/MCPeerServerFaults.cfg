SPECIFICATION PsSpec
CONSTANTS
    NPEERS = 2
    max_conn = 1
    Hashes = {"a", "b"}
    HasHashes = {"a"}
    ChunkFiles <- OneFile
    GetFiles = {"ab", "unreadable"}
    OutFiles = {"out"}
    MAX_CHUNK_NUM = 2
    QLEN = 1
    OVERLAP = TRUE
    UL_NUM_MIN = 0
    MMAP_FAILS = TRUE
INVARIANTS
    BusyIsAlive
    DlNumExact
    NoSlotLeak
CHECK_DEADLOCK FALSE
