SPECIFICATION Spec
CONSTANTS
    r1 = r1
    r2 = r2
    t1 = t1
    t2 = t2
    t3 = t3
    Runs = {r1}
    Strict = {}
    Links <- MCDetached
    TaskOf <- MCOwnTasks
    Tasks = {t1, t2, t3}
    SharedTasks = {}
    StallReasons = {"queued_sla_exceeded"}
    MaxReceipts = 1
    NewestFirst = FALSE
INVARIANTS
    LinksWaitForEarlierLinks
    OkIsEarned
PROPERTY KeepsContract
