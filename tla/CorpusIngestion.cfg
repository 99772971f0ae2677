SPECIFICATION Spec
CONSTANTS
    Calls = {c1, c2, c3}
    Docs = {d1, d2}
    Keys = {k1, k2}
    AdoptionKey <- MCAdoptionKey
    NoCall = NoCall
SYMMETRY CallSymmetry
CHECK_DEADLOCK FALSE
INVARIANTS
    SavedHasItsOriginal
    OrphansAreExplained
