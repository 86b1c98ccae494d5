SPECIFICATION TreeSpec
CONSTANTS
    t1 = t1  t2 = t2  k1 = k1  k2 = k2  m1 = m1  m2 = m2  r1 = r1
    Threads = {t1, t2}
    UserKeys = {k1, k2}
    N = 2
    Capacity = 1
    MaxInserts = 3
    MaxMounts = 1
    MayCrash = FALSE
    Roles <- InsertAndRead
INVARIANTS
    ViewIsLatest
    LookupFresh
    IterStable
    AssertionsHold
    ViewIsMerge
    TasksFindWork
    NodesLiveAsNeeded
    MovesAreAdjacent
