SPECIFICATION PoolSpec
CONSTANTS
    f1 = f1
    f2 = f2
    w1 = w1
    w2 = w2
    a = a
    b = b
    Huge = Huge
    Nil = Nil
    Torn = Torn
    Files <- TwoFiles
    Workers <- TwoWorkers
    Texts <- AllTexts
    Walk <- Overlap
    JobsCap = 1
    ResultsCap = 1
    MaxTime = 2
INVARIANTS
    SkipIsSafe
PROPERTIES
    ImplementsReindex
    RefreshEnds
