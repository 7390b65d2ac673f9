\* Two identifiers, repeats included, over a connection that buffers a single
\* message.  Either context may be cancelled, the connection may break, and
\* each party may have one identifier more or fewer than it announced.
SPECIFICATION Spec
CONSTANTS
    NoId = NoId
    NoPoint = NoPoint
    kS = kS
    kR = kR
    Keys = {kS, kR}
    Ids = {a, b}
    MaxS = 2
    MaxR = 3
    Cap = 1
    SenderHas = {"exact", "more", "fewer"}
    ReceiverHas = {"exact", "more", "fewer"}
    CanCancel = TRUE
    CanDrop = TRUE
INVARIANTS
    ExactIntersection
    PartialIsSound
    ShortIsNeverNil
PROPERTIES
    BothReturn
    SenderNilSuffices
CHECK_DEADLOCK FALSE
