SPECIFICATION LiveSpec
CONSTANTS
    MaxThreads = 2
    p1 = p1  p2 = p2  s1 = s1  s2 = s2  e1 = e1  e2 = e2  b1 = b1  b2 = b2
    a1 = a1  node = node  NoEntry = NoEntry  NoAddr = NoAddr  NoType = NoType
    NoBatch = NoBatch  Disk = Disk
    t1 = t1  t2 = t2  k1 = k1
    c1 = c1  c2 = c2
    Clients = {c1, c2}
    Workers <- OneWorkerEach
    MAX_THREADS = 4
    MaxTasks = 2
    MaxTids = 2
INVARIANTS
    WriterAlone
    QuiescentIsTrue
    TidsAreExclusive
PROPERTIES
    LockReturns
    LockGranted
    FinalizedIsIncorporated
    TasksRun
