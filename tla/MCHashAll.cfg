\* Up to 3 batches, the last one partial or not, on 3 handlers; the connection
\* may break under a buffer of 2 hashes.
SPECIFICATION Spec
CONSTANTS
    Handlers = {h1, h2, h3}
    BatchSize = 2
    MaxIds = 6
    BufSize = 2
    CanBreak = TRUE
INVARIANTS
    WgCountsSenders
    NoSendOnClosed
    ClosedMeansAll
    NilMissesAtMostABuffer
PROPERTIES
    StageReturns
CHECK_DEADLOCK FALSE
