CONSTANTS
    a = a
    b = b
    c = c
    oa = oa
    ob = ob
    oc = oc
    p1 = p1
    p2 = p2
    Jobs = {a, b, c}
    Opportunities = {oa, ob, oc}
    Ranks = {0, 1}
    Order <- JobIds
    Minimum = 1
    FloorPercent = 70
    Publishers = {p1, p2}
    MaxPublications = 3
    Concurrent = {b}
    MaxChanges = 2
SPECIFICATION PublicationSpec
SYMMETRY Symmetry
INVARIANT OneRepresentative
INVARIANT NewestNoticeTrue
INVARIANT LogBalances
PROPERTY KeepsPromise
CHECK_DEADLOCK FALSE
