\* Batches of 0 to 4 candidates and 2 workers: an empty batch, fewer
\* candidates than workers, as many, and workers that take a second one.
SPECIFICATION FairSpec
CONSTANTS
    MaxTotal = 4
    WorkerCount = 2
INVARIANTS
    TypeOK
    CompleteUnlessCancelled
    CheckedOnce
    NoSendAfterClose
    SendNeverBlocks
    NothingLost
PROPERTIES
    Returns
    NoLeak
    ImplementsBatch
