SPECIFICATION Spec
CONSTANTS
    Ids = {0, 1}
    Cap = 2
    Senders = {}
    Readers = {r}
    Batches = {}
    Ignoring = {}
    Heedless = {}
    Count = 1
    MaxWrites = 5
    MaxCreated = 1
    MaxBefore = 0
    MaxConsumers = 1
CHECK_DEADLOCK FALSE
INVARIANTS
    OverrunIsReported
