\* The table: 4 identifiers for a table of 3 (4 buckets), every order, repeats,
\* one call too many.
\* Stage 3: up to 12 inputs in batches of 2 for 2 workers and the extra one, with
\* a channel of 4: every remainder of both divisions occurs and the channel fills
\* up.  The connection may break and the caller may cancel at any time.
SPECIFICATION SpecParts
CONSTANTS
    Nil = Nil
    Items = {a, b, c, d}
    Size = 3
    ReInsertLimit = 4
    MaxCalls = 4
    Hashes <- MCHashes
    MaxInputs = 12
    BatchSize = 2
    NWorkers = 2
    BufSize = 1
    CanFail = TRUE
    CanCancel = TRUE
INVARIANTS
    TypeOK
    Placement
    NoDuplicates
    ExistsIffInserted
    OnlyOneHomeless
    EncodedOnce
    NoSendOnClosed
    NilMeansAllSent
PROPERTIES
    PipelineReturns
    EncodersReturn
CHECK_DEADLOCK FALSE
