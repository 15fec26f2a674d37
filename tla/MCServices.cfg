CONSTANTS
    None = None
    Bytes = {0, 1}
    Zero = 0
    Capacity = 3
    MaxLen = 4
    Client = A
    Server = B
    SeqMod = 16
    Iss <- MCIss
    MaxSend = 3
    Names = {x, y}
    Pids = {1, 2}
    MaxPriority = 1
    MaxMessages = 2
    MaxQueues = 2
    MaxStamp = 4
    MaxId = 3
    Sizes = {1, 2}
    MaxTotal = 3
    MaxRegions = 2
    MaxMaps = 2
    CacheSlots = 2
    Blocks = {1, 2, 3}
    DeviceOf <- MCDevice
    Values = {0, 1}
    MaxRefs = 1
    WordSize = 3
    MaxOrder = 3
    RegionOrder = 2
    BuddySlots = 16
    MaxAttempts = 3
    MaxCount = 5
    NumContexts = 2
    RingSize = 2
    IndexSize = 4
    MaxData = 5
    Addresses = {1, 2}
    Static = 0
    MaxRuns = 2
    MaxQueue = 2
    Apps = {p, q}
    MaxInstances = 2
    MaxRestarts = 1
    MaxCrashes = 3
    MaxInstanceId = 3
    QueueSize = 3
    QueueIndexSize = 6
    MaxAdds = 7
    Sectors = {1, 2}
    MaxRequests = 4
    N = 2
    MaxFrames = 5

SPECIFICATION MCSpec

\* Ids, stamps and descriptor slots are bounded, and connections end.
CHECK_DEADLOCK FALSE

INVARIANTS
    
    RegionsCounted
    CacheFaithful
    PagesAccounted
    CompletionsExact
    AddressAcknowledged
    EndedStaysDown
    DescriptorsKept
    OkIsDone
    FramesInOrder
PROPERTIES
    FifoSpec
    HighestThenOldest
    FailsOver
