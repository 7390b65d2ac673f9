\* Up to 2 identifiers on each side, repeats included, and a connection and
\* writers that buffer a single message; an announced length may be wrong either
\* way, the connection may break and either context may end at any point.
SPECIFICATION SpecPSI
CONSTANTS
    Ids = {a, b, empty}
    Empty = empty
    Inputs <- MCInputs
    Hashes <- MCHashes
    BitsOf <- MCBitsOf
    Columns = 2
    Cap = 1
    BufSize = 1
    Protocols = {"kkrtpsi", "npsi", "bpsi", "unsupported"}
    CanCancel = TRUE
    CanDrop = TRUE
INVARIANTS
    NilIsComplete
    FilterMissesNothing
    PartIsSound
    KeysForAllBuckets
PROPERTIES
    BothReturnPSI
CHECK_DEADLOCK FALSE
