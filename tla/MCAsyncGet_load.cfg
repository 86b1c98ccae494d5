SPECIFICATION GetSpec
CONSTANTS
    Gets = {g1, g2, g3}
    Reapers = {r1}
    GetAddrs = {a1, a2}
    GetEntries = {e1, e2}
    kernel_reads = 1
    Absent = Absent
CHECK_DEADLOCK FALSE
INVARIANT GivenIsLoaded
