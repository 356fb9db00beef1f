SPECIFICATION Spec
CONSTANTS
    Imsis = {u1, u2}
    Cells = {c1, c2, c3}
    Lte = lte
    NoCell = none
    NoUe = noUe
    MaxRnti = 4
    MaxCommands = 2
    MaxOutages = 1
    Faults = {}
    StaleCommands = FALSE
    LateStatus = FALSE
SYMMETRY Symmetry
INVARIANTS
    TypeOK
    NoFatalError
    HandoversAreSerial
    NoLostHandover
    AnchorKnowsServingManager
    NoOrphanedManager
    ForwardsWhileLeaving
    BarredCellsAreClaimed
    UplinkLeavesMmWaveInOutage
PROPERTIES
    AnchorFollowsUe
CHECK_DEADLOCK FALSE
