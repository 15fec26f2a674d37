SPECIFICATION Spec
CONSTANTS
    u1 = u1
    u2 = u2
    k1 = k1
    Users <- MCUsers
    Kernels <- MCKernels
    Boot = boot
    First = u1
    None = none
    GeneralFaults = FALSE
    LeaveInterrupts = FALSE
INVARIANT ReturnsOnOwnStack
