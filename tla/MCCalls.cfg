SPECIFICATION MCSpec
CONSTANTS
    lead = lead
    th1 = th1
    th2 = th2
    child = child
    d = d
    c1 = c1
    c2 = c2
    None = none
    Threads <- MCThreads
    Proc <- MCProc
    Ctid <- MCCtid
    Joiner <- MCJoiner
    Addrs = {d, c1, c2}
    Vals = {0, 1}
    MaxHandle = 5
    MaxCreated = 3
    MaxCalls = 3
    Ports = {80}
    Capacity = 1
    Names = {x, y}
    MaxIno = 4
SYMMETRY AnyNames
\* Every thread may wait or exit; handles and inodes are bounded.
CHECK_DEADLOCK FALSE

INVARIANTS
    NoLostWakeup
    HandlesAccounted
    PairPrivate
    TreeSound
