SPECIFICATION Spec
CONSTANTS
    Writers = {w1, w2}
    Erasers = {w2}
    Readers = {r1}
    Words = {x, y}
    SPIN_MAX = 7
    MaxWrites = 4
    MaxCrashes = 1
SYMMETRY Symmetry
INVARIANTS
    NoTornRead
    MutualExclusion
