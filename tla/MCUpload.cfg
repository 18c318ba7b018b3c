SPECIFICATION UlFairSpec
CONSTANTS
    NPKT = 7
    SS_THRESH = 3
    MAX_DUP_ACK = 3
    MAX_TIMEOUT_CNT = 2
    WINDOW_CAP = 6
INVARIANTS
    UlTypeOK
    SeqsOrdered
    TimerArmed
    WindowRespected
    RecoveryComplete
PROPERTIES
    DupAcksCutOnce
    ProgressKept
    UploadEnds
