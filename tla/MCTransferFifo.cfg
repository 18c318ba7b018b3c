SPECIFICATION TfFairSpec
CONSTANTS
    NPKT = 3
    BT_CHUNK_SIZE = 3
    PAYLOAD = 1
    RECV_WINDOW_SIZE = 3
    SS_THRESH = 2
    MAX_DUP_ACK = 1
    LOSS_ACK_NUM = 1
    MAX_TIMEOUT_CNT = 1
    WINDOW_CAP = 3
    NET = "fifo"
    NET_CAP = 3
    GET_COPIES = 2
    MAX_LOSS = 2
PROPERTIES
    BothEnd
CHECK_DEADLOCK FALSE
