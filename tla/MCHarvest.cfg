SPECIFICATION Spec
CONSTANTS
    Tenants = {"board", "global-search"}
    Counts <- MCCounts
    MaxReports = 6
    MaxPages = 3
    MaxTerms = 2
    Window = 2
INVARIANTS CleanMeansWhole ListedIsKept HealthyIsClean OrderInsensitive
PROPERTY FailureSticks
