SPECIFICATION PfSpec
CONSTANTS
    t1 = t1  t2 = t2  t3 = t3
    e1 = e1  e2 = e2
    b1 = b1  b2 = b2  b3 = b3
    s1 = s1  s2 = s2 
    a1 = a1  a2 = a2
    branch = branch
    Threads = {t1, t2, t3}
    Prefetchers = {t2}
    Entries = {e1, e2}
    Addrs = {a1, a2}
    Types = {branch}
    PinnedTypes = {}
    Batches = {b1, b2}
    BatchOf <- OneEach
    Slots = {s1}
    SlotOf <- OneSlot
    Roles <- ThreeThreads
    NoEntry = NoEntry
    NoAddr = NoAddr
    NoType = NoType
    NoBatch = NoBatch
    Disk = Disk
SYMMETRY TwoSymmetry
INVARIANT HandleIsCurrent
CHECK_DEADLOCK FALSE
