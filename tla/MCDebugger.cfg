CONSTANTS
    UserText = {0, 1}
    KernelText = {8, 9}
    Vector = 8
    Modes <- AllModes
    Masks <- AllMasks
    Interval = 2
    Latency = 1
    Forever = 9
    SlotFaults = FALSE
    BreakAddrs = {0}
    StepCounts = {1}
    Aborts = {}
SPECIFICATION Spec
INVARIANTS TypeOK RequestsMatchDevices BreakpointsKept
PROPERTIES ImplementsMips InterruptsTaken TransmitterFrees
CHECK_DEADLOCK FALSE
