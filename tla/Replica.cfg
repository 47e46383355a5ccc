SPECIFICATION MCSpec
CONSTANTS
    p1 = p1
    p2 = p2
    p3 = p3
    Probes = {p1, p2, p3}
    Timeout = 4
    TTL = 2
    MaxTime = 8
    r1 = r1
    r2 = r2
    Replicas = {r1, r2}
    Versions = 2
    Connect = 1
    Total = 6
    LockWait = 3
    Unlock = 1
    StartPeriod = 9
    MaxStarts = 5
INVARIANTS MigratedOnceInOrder SchemaBeforeWork BootIsBounded PoolOutlivesUsers
PROPERTIES ReadyIsRecent NotReadyIsReal
SYMMETRY Symmetry
CHECK_DEADLOCK FALSE
