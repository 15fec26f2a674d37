SPECIFICATION Spec
CONSTANTS
    Boot = Boot
    Idle = Idle
    a = a
    b = b
    c = c
    Tasks <- MCTasks
    Prio <- MCPrio
    MaxLevel = 2
    TimeSlice = 2
    MaxWindowTicks = 1
    MaxSleep = 2
    MaxNesting = 1

INVARIANTS
    Placement
    ContextIntegrity
    NeverHalts
    ExecutingIsRunning
    PendingHasOwner
PROPERTIES
    TerminatedIsFinal
