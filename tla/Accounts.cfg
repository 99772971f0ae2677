SPECIFICATION Spec
CONSTANTS
    Users = {root, ann}
    Root = root
    Requests = {r1, r2, r3}
    Threshold = 2
    Window = 2
    Granted = {ann}
    Nobody = nobody
SYMMETRY Symmetry
INVARIANTS
    NeverOpenAtThreshold
    OneRoleUnlessOverlapped
    AuditTellsTheTruth
    LockoutIsMutual
PROPERTIES
    DisabledMeansRefused
    BootstrapIsTheFirst
CHECK_DEADLOCK FALSE
