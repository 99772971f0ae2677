SPECIFICATION LiveSpec
CONSTANTS
    Chunks = {k1}
    Classes = {open, secret}
    Workers = {w1, w2}
    Absent = Absent
    Deleted = Deleted
    MaxChanges = 3
    MaxFaults = 1
PROPERTIES
    DriftNeedsAStaleWrite
    IndexConverges
