\* Two identifiers; a key may serve for both.
SPECIFICATION Spec
CONSTANTS
    Keys = {"pub", "adv"}
    Ids = {a, b}
PROPERTIES
    EveryMatchActivated
CHECK_DEADLOCK FALSE
