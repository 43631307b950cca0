CONSTANTS
    Base = 10
    Width = 20
    Zeros <- MCZeros
    Multiplier <- MCMultiplier
    Now <- MCNow
    LowerCase <- MCLowerCase
    DBList <- MCDBList
    HashKeyMeasureOnly = FALSE
SPECIFICATION Spec
INVARIANTS
    EveryLineEnds
    PointIsWritten
    BodyIsItsLines
    StatementIsRouted
    RoutesAgree
    ShowIsWhole
    OperationsKeepData
