SPECIFICATION Spec
CONSTANTS
    a = a
    b = b
    p = p
    NoEntry = NoEntry
    Names = {a, b, p}
    Predefined = {p}
    Buckets = {0, 1}
    Hash <- MCHash
    InitialCapacity = 2
    MaxLevel = 2
INVARIANTS
    TypeOK
    Innermost
    ClosingLinked
    HidesNearest
PROPERTIES
    ImplementsScopeStack
