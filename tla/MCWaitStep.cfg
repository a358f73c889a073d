SPECIFICATION Spec
CONSTANTS
    w1 = w1
    w2 = w2
    t1 = t1
    Waiters = {w1, w2}
    Strict = {w1}
    Tasks = {t1}
    TaskOf <- MCTaskOf
    SharedTasks = {t1}
    StallReasons = {"queued_sla_exceeded", "proof_missing"}
    MaxReceipts = 2
    NewestFirst = FALSE
INVARIANTS
    TypeOK
    OkIsEarned
    OutageCannotMaskFailure
    TimesOutUndecided
    IInv
PROPERTY KeepsContract
