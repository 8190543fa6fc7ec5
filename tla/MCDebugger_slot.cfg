CONSTANTS
    UserText = {0, 1}
    KernelText = {8, 9}
    Vector = 8
    Modes <- Delayed
    Masks <- AllMasks
    Interval = 2
    Latency = 1
    Forever = 9
    SlotFaults = TRUE
    BreakAddrs = {0}
    StepCounts = {1}
    Aborts = {}
SPECIFICATION Spec
PROPERTIES ImplementsMips
CHECK_DEADLOCK FALSE
