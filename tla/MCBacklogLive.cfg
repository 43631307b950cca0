\* Two batches, one crash: what must eventually happen.
CONSTANTS
    b1 = b1
    b2 = b2
    b3 = b3
    Batch <- MCTwoBatches
    Size <- MCSize
    Fresh = FALSE
    PoolSize = 2
    MaxCrashes = 1
    Faults = {"idle", "meta"}
SPECIFICATION FairSpec
PROPERTIES
    BacklogDrains
    RewritingEnds
