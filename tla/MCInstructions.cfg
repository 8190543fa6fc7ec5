CONSTANTS
    Half = 2
    Accumulators <- SomeAccumulators
    BigEndian <- BothOrders
    Flags = {0}
    MovedFlags = {0, 1, 7}
    ClearsFirst = FALSE
    Samples = {0, 5, 18}
    CodedTypes <- ReadBack
    TextBot = 4
    TextWords = 2
    DataBot = 16
    DataSize = 4
    DataLimit = 12
    StackTop = 52
    StackSize = 4
    StackLimit = 20
    Below = 18
    MaxStores = 2
    Breaks <- SomeBreaks
SPECIFICATION Spec
INVARIANTS ArithmeticExact UnalignedWhole FlagsLinked ComparisonsHold CodesInvert MemoryKept
VIEW BesidesFault
CHECK_DEADLOCK FALSE
