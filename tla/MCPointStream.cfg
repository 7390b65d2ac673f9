\* Points of two bytes on a connection that may return one byte at a time.
SPECIFICATION Spec
CONSTANTS
    EncodedLen = 2
    MaxN = 2
    Multiplies = FALSE
INVARIANTS
    ReadsAPoint
CHECK_DEADLOCK FALSE
