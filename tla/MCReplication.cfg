SPECIFICATION FairSpec
CONSTANTS
    Receivers = {r1}
    N = 2
    MaxWrites = 2
    TcpCap = 1
    MTU = 1
    SEQUENCE_MAX = 4
    QCap = 2
    MaxSessions = 2
    MaxQuits = 1
CHECK_DEADLOCK FALSE
INVARIANTS
    MinSeqBound
    NothingForgotten
PROPERTIES
    NoRegress
    Converges
