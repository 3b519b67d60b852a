SPECIFICATION Spec
CONSTANTS
    h1 = h1  p1 = p1  p2 = p2  c1 = c1
    Hosts = {h1}
    Postings = {p1, p2}
    HostOf <- MCHostOf
    Crawlers = {c1}
    DefaultDays = 2
    FastDays = 1
    RetryDays = 1
INVARIANTS PublishedAfterMaturation ActiveHostPublishes BlockedStaysHidden
PROPERTIES ClosesNothingAcceptable CleanHostsMature
