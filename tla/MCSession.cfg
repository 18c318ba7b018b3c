SPECIFICATION SsFairSpec
CONSTANTS
    NCHUNKS = 2
    MAX_CONN = 2
    NPKT = 3
    RECV_WINDOW_SIZE = 4
    SS_THRESH = 2
    MAX_DUP_ACK = 1
    LOSS_ACK_NUM = 2
    MAX_TIMEOUT_CNT = 1
    WINDOW_CAP = 3
    MAX_LOSS = 3
    MAX_RESTARTS = 1
    LOSE_ANY_GET = FALSE
INVARIANTS
    AcksAreOwn
PROPERTIES
    FinishedWasReceived
    SenderIsUpload
    AllFetched
    SlotReleased
CHECK_DEADLOCK FALSE
