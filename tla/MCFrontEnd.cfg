CONSTANTS
    MaxNodes = 7
    Names = {"t", "a"}
    DimNodes <- MCDims
    MaxDimension = 3
    Garbage <- MCGarbage
    Rows = 3
    Symbols <- MCSymbols
    VarNames = {"i", "f", "a", "int", "u"}
    CallNames = {"g", "i"}
    Constants <- MCConstants
    BinOps = {"ADD", "SUB", "MUL", "DIV", "EQ", "GE", "LE", "NE", "GT", "LT", "AND", "OR"}
    UnOps = {"NEG", "NOT"}
    Returns = {"INT", "VOID"}
    MaxStack = 3
    MaxValue = 3
SPECIFICATION Spec
INVARIANTS TypeOK WellLinked MessagesExact TypesFollowRules FoldedExactly ElementsDisjoint PartsAreObjects
PROPERTIES BuildsTrees
CONSTRAINT Checked
CHECK_DEADLOCK FALSE
