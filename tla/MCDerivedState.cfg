SPECIFICATION Spec
CONSTANTS
    Postings = {1, 2}
    Career = {2}
    MaxText = 2
    MaxUrl = 2
    Links <- MCLinks
    Levelled = {1}
    ScopeNamed = {1}
    Classifiable = {1, 2}
    NullBlocked = {2}
    Skilled = {1, 2}
    Paid = {1}
    Limit = 1
INVARIANTS NeverStale VerdictOfThisUrl
PROPERTIES OneListing ClassifiedLevels NothingStranded
