SPECIFICATION TfSpec
CONSTANTS
    NPKT = 5
    BT_CHUNK_SIZE = 5
    PAYLOAD = 1
    RECV_WINDOW_SIZE = 5
    SS_THRESH = 4
    MAX_DUP_ACK = 3
    LOSS_ACK_NUM = 3
    MAX_TIMEOUT_CNT = 2
    WINDOW_CAP = 5
    NET = "fifo"
    NET_CAP = 4
    GET_COPIES = 1
    MAX_LOSS = 2
PROPERTIES
    NoAmbiguousSample
CHECK_DEADLOCK FALSE
