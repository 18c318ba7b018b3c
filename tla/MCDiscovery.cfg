SPECIFICATION DsFairSpec
CONSTANTS
    SHA1_HASH_SIZE = 2
    CNT_SIZE = 1
    HEADER_SIZE = 4
    PACKET_SIZE = 11
    NODES = 3
    Files <- SomeFiles
    Holdings <- SomeHoldings
    UPPER = FALSE
    MAX_LOSS = 1
    MAX_FAIL = 1
INVARIANTS
    QueueWellFormed
    WhohasNamesAll
    OffersAreReal
    ValidOnTheWire
PROPERTIES
    HeldIsFetched
CHECK_DEADLOCK FALSE
