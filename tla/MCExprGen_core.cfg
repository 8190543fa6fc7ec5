SPECIFICATION Spec
CONSTANTS
    g = g
    x = x
    y = y
    z = z
    s0 = s0
    s1 = s1
    s2 = s2
    t0 = t0
    t1 = t1
    t2 = t2
    t3 = t3
    NoVar = NoVar
    Val <- MCVal
    BinOp <- MCBinOp
    NegOp <- MCNegOp
    Vars = {g, x}
    Globals = {g}
    CalleePool <- Pool2Callee
    CallerPool <- Pool3Caller
    MaxDepth = 2
    Forms = {"const", "init", "unary", "flush", "block"}
VIEW LiveView
INVARIANTS
    TypeOK
    Coherent
    OperandsIntact
    UniqueCache
    RegisterAvailable
PROPERTIES
    ImplementsSource
