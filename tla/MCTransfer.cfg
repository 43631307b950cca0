\* Two operations of any kind, on one proxy or on two, broadcasts that are lost.
CONSTANTS
    p1 = p1
    p2 = p2
    c1 = c1
    c2 = c2
    o1 = o1
    o2 = o2
    m1 = m1
    Proxy <- MCProxy
    Circle <- MCCircle
    Op <- MCOp
    Job <- MCJob
    Mover <- MCMover
    Worker = 1
    MaxTasks = 2
    Lossy = TRUE
SPECIFICATION FairSpec
INVARIANTS
    TypeOK
    GroupCounts
    WaitedForAll
    FlagUpWhileMoving
    FlagsDownAfter
PROPERTIES
    KeepsOut
    EndsUnlessOverlapped
CHECK_DEADLOCK FALSE
