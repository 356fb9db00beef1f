SPECIFICATION Spec
CONSTANTS
    Imsis = {u1, u2}
    Cells = {c1, c2, c3}
    Lte = lte
    NoCell = none
    NoUe = noUe
    MaxRnti = 4
    MaxCommands = 1
    MaxOutages = 1
    Faults = {}
    StaleCommands = FALSE
    LateStatus = TRUE
PROPERTIES
    BuffersGoToTarget
CHECK_DEADLOCK FALSE
