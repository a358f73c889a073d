SPECIFICATION Spec
CONSTANTS
    o1 = o1
    o2 = o2
    i1 = i1
    i2 = i2
    NoId = NoId
    Operators = {o1, o2}
    Ids = {i1, i2}
    Instants = {1, 2}
    HashOf <- MCHashOf
    MaxAttempts = 2
INVARIANTS
    TypeOK
    RunningAgainCreatesOnce
    ReceiptTellsWhatRuns
PROPERTY EveryCommandEnds
