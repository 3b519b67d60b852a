CONSTANTS
    s1 = s1
    s2 = s2
    c1 = c1
    c2 = c2
    k = k
    w1 = w1
    w2 = w2
    Subs = {s1, s2}
    CustomerOf <- OneCustomer
    KeyOf <- OneKey
    Workers = {w1, w2}
    OpenDuringCancel = FALSE
    MaxEvents = 4
    MaxCancels = 1
    MaxFaults = 1
SPECIFICATION FairSpec

INVARIANT Settled
PROPERTY NoStaleCommit
PROPERTY Converges
CHECK_DEADLOCK FALSE
