SPECIFICATION Spec
CONSTANTS
    r1 = r1
    r2 = r2
    Replicas = {r1, r2}
    Summarizing = {r1, r2}
    MaxEntries = 2
    Preloaded = 1
    Faults = 0
    Crashes = 0
    Stops = 0
    Lapses = 0
    Resets = 1
    Edits = 1
    Deletes = 1
    Budget = 3
    Scenarios <- MCScenarios
PROPERTIES ResultsLandInClaimOrder
SYMMETRY ReplicaSymmetry
CHECK_DEADLOCK FALSE
