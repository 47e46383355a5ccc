SPECIFICATION MCSpec
CONSTANTS
    w1 = w1
    w2 = w2
    Workers = {w1, w2}
    v1 = v1
    v2 = v2
    Loops = {v1, v2}
    MaxResets = 1
    MaxEdits = 2
    MaxLapses = 1
    Lease = 60
    Latency = 33
    Provider = 24
    Save = 1
    Cleanup = 1
    MaxTime = 130
INVARIANTS NoDoubleWork ReportsInTime
PROPERTIES SingleEditIsKept BlankFieldsAreFilled
SYMMETRY Symmetry
CHECK_DEADLOCK FALSE
