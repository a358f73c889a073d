SPECIFICATION SafetySpec
CONSTANTS
    r1 = r1
    r2 = r2
    t1 = t1
    t2 = t2
    t3 = t3
    Runs = {r1, r2}
    Strict = {}
    Links <- MCHandoff
    TaskOf <- MCSecondShared
    Tasks = {t1, t2, t3}
    SharedTasks = {}
    StallReasons = {}
    MaxReceipts = 0
    NewestFirst = FALSE
INVARIANT SendsOnlyCopies
PROPERTY SignsUnlessShared
