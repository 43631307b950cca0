\* A crash between CleanUp and the write of .rec.
CONSTANTS
    b1 = b1
    b2 = b2
    b3 = b3
    Batch <- MCBatch
    Size <- MCSize
    Fresh = FALSE
    PoolSize = 2
    MaxCrashes = 1
    Faults = {"truncated"}
SPECIFICATION Spec
INVARIANT NoLoss
