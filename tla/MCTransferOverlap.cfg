\* A rebalance of c1 and a rebalance of c2, both accepted by one proxy.
CONSTANTS
    p1 = p1
    p2 = p2
    c1 = c1
    c2 = c2
    o1 = o1
    o2 = o2
    m1 = m1
    Proxy <- MCProxy
    Circle <- MCCircle
    Op <- MCOp
    Job <- MCRebalances
    Mover <- MCMover
    Worker = 1
    MaxTasks = 2
    Lossy = FALSE
SPECIFICATION TwoCirclesSpec
PROPERTIES
    EveryOperationEnds
CHECK_DEADLOCK FALSE
