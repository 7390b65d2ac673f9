\* A read of the stream may fail: no goroutine may panic over it.
SPECIFICATION Spec
CONSTANTS
    Workers = {w1, w2, w3}
    BatchSize = 2
    MaxPoints = 7
    CanFail = TRUE
    CanAbandon = FALSE
INVARIANTS
    NoPanic
CHECK_DEADLOCK FALSE
