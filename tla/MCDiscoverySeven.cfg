SPECIFICATION DsFairSpec
CONSTANTS
    SHA1_HASH_SIZE = 2
    CNT_SIZE = 1
    HEADER_SIZE = 4
    PACKET_SIZE = 11
    NODES = 3
    Files <- SevenChunks
    Holdings <- AllSeven
    UPPER = FALSE
    MAX_LOSS = 0
    MAX_FAIL = 0
PROPERTIES
    HeldIsFetched
CHECK_DEADLOCK FALSE
