CONSTANTS
    t1 = t1
    t2 = t2
    j1 = j1
    j2 = j2
    j3 = j3
    s1 = s1
    s2 = s2
    Tenants = {t1, t2}
    Jobs = {j1, j3}
    TenantOf <- OneEachOf
    Slots = {s1}
    BatchSize = 2
    CommitSize = 2
    MaxNights = 3
    MaxFaults = 1
SPECIFICATION Spec
VIEW TonightOnly
CHECK_DEADLOCK FALSE

INVARIANT CleanStaysClean
INVARIANT SeenStaysOpen
PROPERTY ClosureAuthorised
