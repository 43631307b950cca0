\* A store that has been used before; crashes outside the two unsafe windows.
CONSTANTS
    b1 = b1
    b2 = b2
    b3 = b3
    Batch <- MCBatch
    Size <- MCSize
    Fresh = FALSE
    PoolSize = 2
    MaxCrashes = 1
    Faults = {"idle", "meta"}
SPECIFICATION Spec
INVARIANTS
    ReaderBehindWriter
    NoReplayAfterConfirm
PROPERTY ImplementsQueue
