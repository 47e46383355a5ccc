SPECIFICATION Spec
CONSTANTS
    r1 = r1
    r2 = r2
    Replicas = {r1, r2}
    Summarizing = {r1, r2}
    MaxEntries = 1
    Preloaded = 1
    Faults = 0
    Crashes = 0
    Stops = 0
    Lapses = 0
    Resets = 1
    Edits = 0
    Deletes = 0
    Budget = 1
    Scenarios <- MCScenarios
PROPERTIES QuietRowStays
SYMMETRY ReplicaSymmetry
CHECK_DEADLOCK FALSE
