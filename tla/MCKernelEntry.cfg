SPECIFICATION Spec
CONSTANTS
    u1 = u1
    u2 = u2
    k1 = k1
    Users <- MCUsers
    Kernels <- MCKernels
    Boot = boot
    First = u1
    None = none
    GeneralFaults = TRUE
    LeaveInterrupts = TRUE
\* A task that reaches gs:[..] with the user's GS faults in the kernel.
CHECK_DEADLOCK FALSE

INVARIANTS
    GsKept
    TimerCanPreempt
    SyscallStateIsOwn
