SPECIFICATION Spec
CONSTANTS
    t1 = t1  t2 = t2  t3 = t3
    e1 = e1  e2 = e2
    b1 = b1  b2 = b2  b3 = b3
    s1 = s1  s2 = s2
    a1 = a1  a2 = a2
    branch = branch  memtable = memtable
    Threads = {t1, t2}
    Entries = {e1}
    Addrs = {a1, a2}
    Types = {branch, memtable}
    PinnedTypes = {memtable}
    Batches = {b1, b2}
    BatchOf <- OneEntry
    Slots = {s1, s2}
    SlotOf <- TwoSlots
    Roles <- TwoThreads
    NoEntry = NoEntry
    NoAddr = NoAddr
    NoType = NoType
    NoBatch = NoBatch
    Disk = Disk
SYMMETRY TypesSymmetry
INVARIANT PinnedUntilDiscarded
