SPECIFICATION MCSpec
CONSTANTS
    Tenants = {1, 2}
    Workday = {1}
    Mined = {1}
    Foreign = {b2}
    Eightfold = {}
    Oracle = {}
    Unsupported = {}
    Greenhouse = {2}
    Lever = {}
    Ashby = {}
    Edgar = {"co"}
    Fortune1000 = {}
    Russell3000 = {"co"}
    YCombinator = {}
    TenantSlugs <- MCSlugs
    Boards = {b1, b2}
    Common = {b1}
    Barren = {b1}
    External = b1
    Whole = whole
    NoServer = none
    HostOnly = host
    Lanes = {"daily", "hosts"}
    Limit <- MCLimit
    StaleDays = 1
    MaxChanges = 1
    MaxCrashes = 1
INVARIANTS HarvestedWasValidated
PROPERTIES BoardsRemembered FoundIsHarvested
