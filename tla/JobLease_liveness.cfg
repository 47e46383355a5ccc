SPECIFICATION FairSpec
CONSTANTS
    r1 = r1
    r2 = r2
    Replicas = {r1, r2}
    Summarizing = {r2}
    MaxEntries = 1
    Preloaded = 1
    Faults = 1
    Crashes = 1
    Stops = 1
    Lapses = 0
    Resets = 0
    Edits = 0
    Deletes = 0
    Budget = 3
    Scenarios <- MCScenarios
PROPERTIES EnrichmentSettles SummarySettles
CHECK_DEADLOCK FALSE
