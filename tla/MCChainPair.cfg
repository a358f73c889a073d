SPECIFICATION MCOneAfterTheOther
CONSTANTS
    r1 = r1
    r2 = r2
    t1 = t1
    t2 = t2
    t3 = t3
    Runs = {r1, r2}
    Strict = {r1, r2}
    Links <- MCPair
    TaskOf <- MCSecondShared
    Tasks = {t1, t2, t3}
    SharedTasks = {}
    StallReasons = {}
    MaxReceipts = 1
    NewestFirst = FALSE
INVARIANTS
    TypeOK
    LinksWaitForEarlierLinks
    OkIsEarned
    EndsWithItsOwnInputs
    NoTaskIsLost
