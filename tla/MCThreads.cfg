SPECIFICATION ThreadsSpec
CONSTANTS
    MaxSent = 4
    Stores = {s1, s2, s3}
    Senders = {p1, p2}
    Nobody = nobody
    Commands = {c1}
    MaxLaunch = 3
    Updaters = {u1, u2}
    Lookers = {l}
    Types = {"Index", "MultiStoreIndex"}
    NStores = 2
    Slots = 2
    Path = path
    Other = other
    Sub = sub
    EventLimit = 2
INVARIANTS
    EachCountedOnce
    NoUseAfterFree
    SendsTheCurrent
    StopIsFinal
PROPERTIES
    SignalEnds
    ServedAgain
    StopReturns
    LookupReturns
CHECK_DEADLOCK FALSE
