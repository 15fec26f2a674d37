\* Up to three processes that fork and write, with memory that runs out.
SPECIFICATION Spec
CONSTANTS
    p1 = p1  p2 = p2  p3 = p3
    Procs = {p1, p2, p3}
    Pages = {1, 2}
    Regions = {1, 2}
    RegionOf <- TwoRegions
    HighRegions = {}
    FrameCount = 8
    KernelFrames = {}
    Vals = {0, 1}
    Zero = 0
    Stale = 1
    Image <- TextAndStack
    Calls = {}
    SharedCalls = FALSE
    None = None
SYMMETRY AnyProcs
CHECK_DEADLOCK FALSE

INVARIANTS
    SharingExact
PROPERTIES
    PrivateSpec
    CowFaultInvisible
