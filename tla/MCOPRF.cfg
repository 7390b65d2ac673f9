\* The OPRF and its base OT over symbolic bits. Every width the code fixes is
\* shrunk in proportion: 2 bits to a byte, 4 to a word, 2 words to a row, so a
\* row of 8 bits is one base OT per column. The table sizes include one that is
\* no multiple of a block, so padding, remainder and excess blocks all occur.
SPECIFICATION Spec
CONSTANTS
    ByteBits = 2
    WordBits = 4
    WordsPerRow = 2
    MinShare = 1
    Sizes <- MCSizes
    Columns = 8
    Ids <- MCIds
    Nil = Nil
    Tables <- MCTables
    Secrets <- MCSecrets
    Procs <- MCProcs
    CanDrop = TRUE
INVARIANTS
    ChosenSeed
    EncodingsAgree
PROPERTIES
    CallsReturn
CHECK_DEADLOCK FALSE
