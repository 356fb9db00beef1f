SPECIFICATION Spec
CONSTANTS
    Imsis = {u1, u2}
    Cells = {c1, c2, c3}
    Lte = lte
    NoCell = none
    NoUe = noUe
    MaxRnti = 4
    MaxCommands = 3
    MaxOutages = 0
    Faults = {"reject", "noPreamble", "raFailure", "timeout"}
    StaleCommands = TRUE
    LateStatus = TRUE
SYMMETRY Symmetry
INVARIANTS
    HandoversAreSerial
    LateMessagesMeetNoStranger
PROPERTIES
    AnchorFollowsUe
CHECK_DEADLOCK FALSE
