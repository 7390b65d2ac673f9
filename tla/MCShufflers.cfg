\* Encoders: up to 5 identifiers in every order and one call too many; batches
\* of 2, the last one short; writes may fail.  Permutation: words of 5 bits,
\* every length that is one and the first that is not, with every seed.
SPECIFICATION SpecAll
CONSTANTS
    Workers = {w1, w2}
    BatchSize = 2
    MaxN = 5
    MaxCalls = 6
    CanFail = TRUE
    MinL = 0
    MaxL = 32
    WordBits = 5
    Factors <- MCFactors
INVARIANTS
    FollowsPermutation
    NilMeansAllSent
    WaitedForAll
    InjectiveWithinWord
PROPERTIES
    ImplementsShuffledWriter
    ShuffleReturns
CHECK_DEADLOCK FALSE
