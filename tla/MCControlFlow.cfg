CONSTANTS
    x = x
    y = y
    s0 = s0
    s1 = s1
    t0 = t0
    NoVar = NoVar
    Vars = {x, y}
    Val <- OneBit
    CalleePool <- TwoCallee
    CallerPool <- OneCaller
    MaxDepth = 1
    MaxOpen = 1
    Allowed = {"else", "init"}
SPECIFICATION WholeSpec
INVARIANTS JoinsCoherent
CHECK_DEADLOCK FALSE
