SPECIFICATION FairSpec
CONSTANTS
    Imsis = {u1}
    Cells = {c1, c2, c3}
    Lte = lte
    NoCell = none
    NoUe = noUe
    MaxRnti = 4
    MaxCommands = 3
    MaxOutages = 1
    Faults = {}
    StaleCommands = FALSE
    LateStatus = FALSE
PROPERTIES
    HandoversComplete
    ImplementsHandoverService
CHECK_DEADLOCK FALSE
