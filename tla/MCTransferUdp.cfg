SPECIFICATION TfSpec
CONSTANTS
    NPKT = 4
    BT_CHUNK_SIZE = 4
    PAYLOAD = 1
    RECV_WINDOW_SIZE = 4
    SS_THRESH = 2
    MAX_DUP_ACK = 1
    LOSS_ACK_NUM = 1
    MAX_TIMEOUT_CNT = 1
    WINDOW_CAP = 3
    NET = "udp"
    NET_CAP = 2
    GET_COPIES = 2
    MAX_LOSS = 1
INVARIANTS
    AckedWasReceived
    FinishedUploadDelivered
PROPERTIES
    ImplementsChunkCopy
CHECK_DEADLOCK FALSE
