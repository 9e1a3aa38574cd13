SPECIFICATION FairSpec
CONSTANTS
    Ids = {0, 1}
    Cap = 2
    Senders = {s, sqr}
    Readers = {r, rqr}
    Batches = {b}
    Ignoring = {sqr, rqr}
    Heedless = {sqr, rqr}
    Count = 1
    MaxWrites = 4
    MaxCreated = 3
    MaxBefore = 2
    MaxConsumers = 1
CHECK_DEADLOCK FALSE
INVARIANTS
    LossOnlyByLap
    ScanBounded
PROPERTIES
    EntryLeadsToItsWrite
    CatchesUp
