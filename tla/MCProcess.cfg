CONSTANTS
    None = None
    UserEnd = 6
    BrkStart = 1
    MaxHeap = 2
    MmapMin = 3
    MmapBase = 6
    MaxLen = 3
    MaxPid = 3
    MaxTid = 2
    Statuses = {0, 1}
    Killed = 137
    Procs = {1, 2}
    Root = 1
    MaxPipe = 1
    MaxFd = 4
    Std = 1
    FdMax = 4
    MaxMade = 3
    Slots = 6
    HalfRange = 8
    MaxId = 3

SPECIFICATION MCSpec

\* Counters are bounded, and every process may have ended.
CHECK_DEADLOCK FALSE

INVARIANTS
    AreasSound
    TableFaithful
    
    AllocFresh
    DescriptorsFaithful
