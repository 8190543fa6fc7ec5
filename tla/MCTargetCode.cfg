CONSTANTS
    Functions = {"main", "g"}
    Main = "main"
    ParamCount <- MCParamCount
    LocalSizes <- MCLocalSizes
    SavedRegs <- MCSavedRegs
    StackTop = 15

    x = x
    y = y
    z = z
    s0 = s0
    s1 = s1
    t0 = t0
    NoVar = NoVar
    Vars = {x, y, z}
    Val <- OneBit
    CalleePool <- TwoCallee
    CallerPool <- OneCaller
    MaxDepth = 1
    MaxOpen = 2
    Allowed = {}

    Names = {lab1, lab2}
    lab1 = lab1
    lab2 = lab2
    Radix = 16
    TextStart = 128
    DataStart = 45
    Delays = {FALSE, TRUE}
    Operands <- SomeOperands
    BaseValue = 200
    MaxRefs = 2
    MaxDefs = 2
    MaxText = 4
    MaxData = 1
    Files = 2
    Redefines = FALSE
    LateGlobals = FALSE
VIEW LiveState
SYMMETRY SameNames
SPECIFICATION TargetSpec
INVARIANTS FramesApart JoinsCoherent ReferencesResolved NamesScoped
PROPERTIES ImplementsCallStack
CHECK_DEADLOCK FALSE
