\* One slot in the channel, one pool worker, batches of two: every wait happens.
CONSTANTS
    p1 = p1
    p2 = p2
    p3 = p3
    p4 = p4
    k1 = k1
    k2 = k2
    Point <- MCPoint
    Key <- MCKey
    KeyOf <- MCKeyOf
    ChanCap = 1
    FlushSize = 2
    PoolSize = 1
    MayClose = TRUE
SPECIFICATION Spec
\* All points are written once, and the worker ends after Close.
CHECK_DEADLOCK FALSE
INVARIANTS
    PointsInOrder
    TimerArmed
    DrainedIsEmpty
PROPERTIES
    EveryPointSubmitted
    CloseEnds
