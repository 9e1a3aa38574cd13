SPECIFICATION Spec
CONSTANTS
    Updaters = {u1, u2}
    Lookers = {l}
    Free = free
    Types = {"Index"}
    NStores = 1
    Slots = 3
INVARIANT IndexTwiceIsOk
CHECK_DEADLOCK FALSE
