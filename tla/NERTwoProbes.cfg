SPECIFICATION Spec
CONSTANTS
    Callers = {c1, c2, c3}
    FailureThreshold = 1
    OpenInterval = 1
    CallTimeout = 3
INVARIANT OnlyOneHalfOpenProbe
