SPECIFICATION Spec
CONSTANTS
    r1 = r1
    r2 = r2
    Replicas = {r1, r2}
    Summarizing = {r1, r2}
    MaxEntries = 1
    Preloaded = 1
    Faults = 1
    Crashes = 1
    Stops = 1
    Lapses = 1
    Resets = 1
    Edits = 1
    Deletes = 1
    Budget = 3
    Scenarios <- MCScenarios
INVARIANTS AtMostOneOwner LeasedJobIsHeld MetricAgrees
PROPERTIES StaleClaimNeverWrites SettledWaitsForUser KeepsContract
SYMMETRY ReplicaSymmetry
CHECK_DEADLOCK FALSE
