\* Two processes, every system call that changes an address space, and frames
\* that are recycled; munmap, mprotect and execve meet no shared page.
SPECIFICATION Spec
CONSTANTS
    p1 = p1  p2 = p2  p3 = p3
    Procs = {p1, p2}
    Pages = {1, 2}
    Regions = {1, 2}
    RegionOf <- TwoRegions
    HighRegions = {}
    FrameCount = 6
    KernelFrames = {20}
    Vals = {0, 1}
    Zero = 0
    Stale = 1
    Image <- TextAndStack
    Calls = {"munmap", "mprotect", "execve", "destroy"}
    SharedCalls = FALSE
    None = None
SYMMETRY AnyProcs
CHECK_DEADLOCK FALSE

INVARIANTS
    FreeUnused
PROPERTIES
    PrivateSpec
