\* Two senders and their handlers, with files of one or two lines; or one sender,
\* with files that have blank lines and an unterminated last line, of which any
\* number of bytes may be read.  The receiver's file may be replaced while it
\* runs, and everything else may fail.
SPECIFICATION Spec
CONSTANTS
    Senders = {c1, c2}
    Inputs <- MCInputs
    Replaces <- MCReplaces
    CutAt <- MCCutAt
    Protocols = {"bpsi", "npsi", "dhpsi", "kkrt", "unsupported"}
    CanFail = TRUE
INVARIANTS
    OutIsTheIntersection
PROPERTIES
    HandledUnlessShort
CHECK_DEADLOCK FALSE
