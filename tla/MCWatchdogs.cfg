SPECIFICATION WatchdogSpec
CONSTANTS
    Period = 1
    OrphanTimeout = 6
    TouchDelay = 1
    SenderDelay = 1
    ReaderDelay = 2
    OrphanCap = 16
    Eager = FALSE
    MaxCreated = 2
    heartbeat_usec = 5
    max_missed_hb = 2
    Slack = 9
    FillDelay = 1
    INITIAL_MC_HB_USEC = 26
    SendDelay = 1
    NetDelay = 1
    RecvDelay = 1
    Cap = 30
INVARIANTS
    NoFalseOrphan
    WriterLossNoticed
    NoFalseTimeout
    SilenceNoticed
CHECK_DEADLOCK FALSE
