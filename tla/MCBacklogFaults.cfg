\* Disk errors and torn frames as well.
CONSTANTS
    b1 = b1
    b2 = b2
    b3 = b3
    Batch <- MCBatch
    Size <- MCSize
    Fresh = FALSE
    PoolSize = 2
    MaxCrashes = 1
    Faults = {"idle","torn","length","payload","sync","meta"}
SPECIFICATION Spec
SYMMETRY MCSymmetry
INVARIANTS
    IInv
    NoLoss
    ReplayInOrder
    FlagUpWhilePending
