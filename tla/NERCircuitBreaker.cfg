SPECIFICATION LiveSpec
CONSTANTS
    Callers = {c1, c2, c3}
    FailureThreshold = 2
    OpenInterval = 3
    CallTimeout = 2
INVARIANTS
    NeverStuckHalfOpen
    SingleProbe
PROPERTIES
    LateFailuresDoNotProlong
    Recovers
