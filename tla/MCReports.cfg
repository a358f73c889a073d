SPECIFICATION Spec
CONSTANTS
    a1 = a1
    a2 = a2
    t1 = t1
    t2 = t2
    Agents = {a1, a2}
    Tasks = {t1, t2}
    PoolOf <- MCPoolOf
    Accounts = {a1, a2}
    MaxReceipts = 3
    MaxContributions = 2
    MaxStatuses = 2
INVARIANTS
    TypeOK
    CountsLieInBetween
    AuditIsOfOneMoment
    RewardsAreNoOlder
