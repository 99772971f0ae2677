SPECIFICATION Spec
CONSTANTS
    Configs = {pub, priv}
    PrivateConfigs = {priv}
    Requests = {r1}
    Levels = {sensitive, classified}
    Hardened = {classified}
    None = none
INVARIANTS
    TypeOK
    RawLeavesOnlyByASwitch
    HardenedIsNeverSanitizedOut
    AuditedBeforeSent
PROPERTY DisabledGetsEarlierCallsOnly
CHECK_DEADLOCK FALSE
