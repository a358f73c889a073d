SPECIFICATION PipelineSpec
CONSTANTS
    p1 = p1
    p2 = p2
    t1 = t1
    Waiters = {p1, p2}
    Strict = {p1, p2}
    Tasks = {t1}
    TaskOf <- MCSameId
    SharedTasks = {}
    StallReasons = {"queued_sla_exceeded"}
    MaxReceipts = 2
    NewestFirst = FALSE
INVARIANTS
    WaitsForAcceptedTask
    StrictWaitersAgree
PROPERTY KeepsPipelineContract
