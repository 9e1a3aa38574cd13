SPECIFICATION Spec
CONSTANTS
    Receivers = {r1}
    N = 1
    MaxWrites = 2
    TcpCap = 2
    MTU = 1
    SEQUENCE_MAX = 6
    QCap = 2
    MaxSessions = 2
    MaxQuits = 0
INVARIANTS
    ReliableDelivery
