CONSTANTS
    t1 = t1
    t2 = t2
    j1 = j1
    j2 = j2
    j3 = j3
    s1 = s1
    s2 = s2
    Tenants = {t1, t2}
    Jobs = {j1, j2, j3}
    TenantOf <- BoardOf
    Slots = {s1}
    BatchSize = 1
    CommitSize = 2
    MaxNights = 1
    MaxFaults = 1
SPECIFICATION FairSpec
CHECK_DEADLOCK FALSE
PROPERTY NightEnds
INVARIANT EveryTenantAccounted
