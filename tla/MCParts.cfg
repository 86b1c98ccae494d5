SPECIFICATION PartsSpec
CONSTANTS
    HeapThreads = {x1, x2}
    Sizes = {1, 2, 3}
    SHM_LARGE_FRAG_SIZE = 2
    SHM_NUM_LARGE_FRAGS = 1
    SegmentSize = 4
    MaxHeld = 2
    None = None
    AllocThreads = {x1, x2}
    extent_capacity = 4
    RootIds = {r1}
    MAX_ROOT_IDS = 1
    MaxRefs = 2
    MaxMounts = 1
    HandThreads = {x1, x2}
    batch_capacity = 2
    EntriesPerBatch = 1
    cleaner_gap = 1
    HandClockMax = 1
    Uses = {}
    MaxPasses = 1
    NumBatchCounts = 5
    NoHand = NoHand
    IoThreads = {x1, x2}
    Cleaner = w1
    Requests = {1, 2}
    kernel_queue_size = 1
    Nil = Nil
    Gets = {x1, x2}
    Reapers = {w1, w2}
    GetAddrs = {a1, a2}
    GetEntries = {f1, f2}
    kernel_reads = 1
    Absent = Absent
    u1 = u1  u2 = u2  q1 = q1  q2 = q2  f1 = f1  f2 = f2  c1 = c1  c2 = c2
    a1 = a1  a2 = a2  branch = branch  memtable = memtable
    w1 = w1  w2 = w2  x1 = x1  x2 = x2  r1 = r1
    NoEntry = NoEntry  NoAddr = NoAddr  NoType = NoType  NoBatch = NoBatch
    Disk = Disk
INVARIANTS
    MergeIsExact
    FilterIsExact
    AllocationsAreExact
    ExtentsAccounted
    
    ReuseIsSafe
    PackIsExact
    ClosedIsQuiet
    FragmentsDisjoint
    AsyncGetsReturn
    OutstandingIsExact
    BatchesAreExclusive
    
PROPERTY ClockKeepsFlags
