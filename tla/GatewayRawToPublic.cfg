SPECIFICATION Spec
CONSTANTS
    Configs = {pub, priv}
    PrivateConfigs = {priv}
    Requests = {r1}
    Levels = {sensitive, classified}
    Hardened = {classified}
    None = none
INVARIANT NoRawToPublic
CHECK_DEADLOCK FALSE
