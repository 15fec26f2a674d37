SPECIFICATION FairSpec
CONSTANTS
    Boot = Boot
    Idle = Idle
    a = a
    b = b
    c = c
    Tasks <- MCFewTasks
    Prio <- MCFlatPrio
    MaxLevel = 1
    TimeSlice = 2
    MaxWindowTicks = 1
    MaxSleep = 1
    MaxNesting = 1
PROPERTIES
    TopLevelRuns
    SleepersWake
