\* A process unmaps a page it shares copy-on-write.
SPECIFICATION Spec
CONSTANTS
    p1 = p1  p2 = p2  p3 = p3
    Procs = {p1, p2}
    Pages = {1, 2}
    Regions = {1, 2}
    RegionOf <- TwoRegions
    HighRegions = {}
    FrameCount = 8
    KernelFrames = {}
    Vals = {0, 1}
    Zero = 0
    Stale = 1
    Image <- TextAndStack
    Calls = {"munmap"}
    SharedCalls = TRUE
    None = None
INVARIANT FreeUnused

CHECK_DEADLOCK FALSE
