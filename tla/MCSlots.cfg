SPECIFICATION FairSpec
CONSTANTS
    N = 4
    Used <- FirstThree
    c1 = c1
    c2 = c2
    Copiers = {c1, c2}
    Inputs <- Mixes
    SourceRevs <- SomeSources
    NewN = 3
    Nobody = Nobody
    Eraser = Eraser
INVARIANTS
    RecordsKept
    HolesEliminatedInOrder
    NoLockLeft
    GrownWhole
PROPERTY AllEnd
CHECK_DEADLOCK FALSE
