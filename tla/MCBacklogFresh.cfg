\* A new data directory: .rec is empty until the first replay succeeds.
CONSTANTS
    b1 = b1
    b2 = b2
    b3 = b3
    Batch <- MCTwoBatches
    Size <- MCSize
    Fresh = TRUE
    PoolSize = 2
    MaxCrashes = 0
    Faults = {}
SPECIFICATION Spec
INVARIANT NoLoss
