SPECIFICATION Spec
CONSTANTS
    Ids = {d1, d2}
    Terms = {t1, t2}
    Admins = {a1, a2}
    None = none
INVARIANTS
    UpToDateWhenAlone
PROPERTIES
    OwnChangeIsInForce
    OnlyALostDeletionRevives
SYMMETRY Symmetry
