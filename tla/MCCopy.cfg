CONSTANTS
    d1 = d1
    Times = 4
    Present = {1, 2, 3}
    Tick = 2
    Dst = {d1}
    Limits = {1, 3}
    Batch = 2
    RetryCount = 1
    ChanCap = 1
    PoolSize = 2
    MaxChanges = 2
SPECIFICATION Spec
CHECK_DEADLOCK FALSE
INVARIANTS
    TypeOK
    LossIsLogged
    NothingInvented
PROPERTIES
    TransferEnds
