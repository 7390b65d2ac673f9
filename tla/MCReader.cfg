\* Up to 4 batches, the last one short, on 3 workers; any read may fail and the
\* consumer may walk away at any moment.
SPECIFICATION Spec
CONSTANTS
    Workers = {w1, w2, w3}
    BatchSize = 2
    MaxPoints = 7
    CanFail = TRUE
    CanAbandon = TRUE
INVARIANTS
    PanicNeedsFailure
    InOrder
PROPERTIES
    PoolReturned
    ImplementsOrderedReader
CHECK_DEADLOCK FALSE
