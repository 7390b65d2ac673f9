\* The permutation alone, with words of 4 bits: every length that is one, with
\* every seed.
SPECIFICATION SpecAll
CONSTANTS
    Workers = {w1}
    BatchSize = 1
    MaxN = 0
    MaxCalls = 0
    CanFail = FALSE
    MinL = 0
    MaxL = 15
    WordBits = 4
    Factors <- MCFactors
INVARIANTS
    Injective
CHECK_DEADLOCK FALSE
