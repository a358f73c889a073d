SPECIFICATION Spec
CONSTANTS
    m1 = m1
    t1 = t1
    t2 = t2
    Maps = {m1}
    Strict = {m1}
    Tasks = {t1, t2}
    Jobs <- MCJobs
    SharedTasks = {}
    StallReasons = {}
    MaxReceipts = 1
    NewestFirst = FALSE
PROPERTY TimeoutReportsLastRead
