SPECIFICATION Spec
CONSTANTS
    Clients = {c1, c2, c3}
    Listen = listen
    Mcast = mcast
INVARIANTS PollerMatchesClients ServedOnce EveryoneTold
PROPERTIES StopEnds Accepted
CHECK_DEADLOCK FALSE
