SPECIFICATION Spec
CONSTANTS
    m1 = m1
    t1 = t1
    t2 = t2
    Maps = {m1}
    Strict = {m1}
    Tasks = {t1, t2}
    Jobs <- MCJobs
    SharedTasks = {t2}
    StallReasons = {"queued_sla_exceeded"}
    MaxReceipts = 1
    NewestFirst = FALSE
INVARIANTS
    TypeOK
    OkIsEarned
    OkReportsEachTask
    TimeoutReportsEveryTask
    NoTaskIsLost
PROPERTIES
    CulpritIsLast
    KeepsContract
