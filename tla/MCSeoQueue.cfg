CONSTANTS
    Urls = {1, 2}
    Limit = 2
    IndexNowLimit = 1
    MaxTries = 1
    CommitAtFetch = FALSE
    MaxPublications = 2
    MaxFaults = 1
SPECIFICATION FairSpec
CHECK_DEADLOCK FALSE

INVARIANT GoogleInformed
INVARIANT IndexNowInformed
INVARIANT WithinQuota
PROPERTY Delivered
