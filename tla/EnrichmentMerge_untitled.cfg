SPECIFICATION Spec
CONSTANTS
    w1 = w1
    w2 = w2
    Workers = {w1, w2}
    MaxResets = 0
    MaxEdits = 0
    MaxLapses = 0
INVARIANTS NothingToSummarizeIsSkipped
SYMMETRY Symmetry
CHECK_DEADLOCK FALSE
