SPECIFICATION FairSpec
CONSTANTS
    n1 = n1
    n2 = n2
    Names = {n1, n2}
    RangeSizes = {1, 2}
    AddressCount = 2
    restartOnExit = TRUE
    MaxLaunch <- OneOfThemTwice
    None = None
    Wanted = {n1}
    resubscribe = TRUE
    MaxFailures = 1
INVARIANTS NothingShared NoPortLeaks
PROPERTIES NeverTwoSubscribers Subscribed
CHECK_DEADLOCK FALSE
