SPECIFICATION VerdictsSpec
CONSTANTS
    w1 = w1
    m1 = m1
    t1 = t1
    Waiters = {w1}
    Strict = {w1}
    TaskOf <- MCTaskOf
    Maps = {m1}
    StrictMaps = {}
    Jobs <- MCJobs
    Tasks = {t1}
    SharedTasks = {t1}
    StallReasons = {"proof_missing"}
    MaxReceipts = 2
    NewestFirst = TRUE
INVARIANTS
    OppositeVerdictsNeedBothReceipts
    MapReportsEachTask
