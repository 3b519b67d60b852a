SPECIFICATION FairSpec
CONSTANTS
    Postings = {1, 2, 3}
    Original <- MCOriginal
    Lines <- MCLines
    Structured = {2}
    Offers <- MCOffers
    Replies <- MCReplies
    Recurring = {1}
    Obvious = {}
    Verdicts = {}
    Blocked = {}
    Cap = 4
    Permits = 3
    CommitInterval = 2
    MaxCrawls = 1
    MaxRuns = 1
    MaxFaults = 1
CHECK_DEADLOCK FALSE
INVARIANTS OneReading BreakerStops
PROPERTY CallsEnd
