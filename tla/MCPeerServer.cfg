SPECIFICATION PsFairSpec
CONSTANTS
    NPEERS = 2
    max_conn = 2
    Hashes = {"a", "b"}
    HasHashes = {"a"}
    ChunkFiles <- OneFile
    GetFiles = {"ab"}
    OutFiles = {"out"}
    MAX_CHUNK_NUM = 2
    QLEN = 2
    OVERLAP = FALSE
    UL_NUM_MIN = 0
    MMAP_FAILS = FALSE
INVARIANTS
    PsTypeOK
    UlNumExact
    FetchingIsOwned
    RemainExact
    FetchedIsWritten
PROPERTIES
    FetchedStays
    AsksAgain
