SPECIFICATION Spec
CONSTANTS
    e1 = e1
    e2 = e2
    u1 = u1
    u2 = u2
    w1 = w1
    w2 = w2
    q1 = q1
    q2 = q2
    Entries = {e1, e2}
    Urls = {u1, u2}
    Workers = {w1, w2}
    Users = {q1, q2}
    Resets = 2
    Edits = 1
    Losses = 1
    Moves = 1
    Budget = 3
    Scenarios <- MCScenarios
INVARIANTS RefreshShowsFreshText UserTextWaitsForRefresh NoLockCycle
PROPERTIES FlagClearedByFreshText CacheFollowsEntry
SYMMETRY Symmetry
CHECK_DEADLOCK FALSE
