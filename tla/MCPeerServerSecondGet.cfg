SPECIFICATION PsSpec
CONSTANTS
    NPEERS = 2
    max_conn = 2
    Hashes = {"a", "b"}
    HasHashes = {"a"}
    ChunkFiles <- OneFile
    GetFiles = {"ab"}
    OutFiles = {"out"}
    MAX_CHUNK_NUM = 2
    QLEN = 2
    OVERLAP = TRUE
    UL_NUM_MIN = 0
    MMAP_FAILS = FALSE
INVARIANTS
    UnfetchedIsCounted
