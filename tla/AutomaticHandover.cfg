SPECIFICATION Spec
CONSTANTS
    Imsis = {u1, u2}
    Cells = {c1, c2, c3}
    NoCell = none
    Unknown = unknown
    NoEvent = noEvent
    Modes = {"NO_AUTOMATIC_HANDOVER", "GREEDY",
             "THRESHOLD", "FIXED_TTT", "DYNAMIC_TTT",
             "THRESHOLD_SEAMLESS", "FIXED_TTT_SEAMLESS", "DYNAMIC_TTT_SEAMLESS"}
    Levels = {0, 3, 5, 9}
    OutageThreshold = 2
    SinrThresholdDifference = 3
    FixedTtt = 2
    MinDynTtt = 0
    MaxDynTtt = 2
    MinDiff = 3
    MaxDiff = 5
    Rounding = 2
    AvailablePreambles = 1
    EvictionOffset = 1
    MaxActions = 1
SYMMETRY Symmetry
INVARIANTS
    TypeOK
    ScheduledHandoversAreLive
    BarredCellsAreClaimed
PROPERTIES
    HandoversToAllowedCells
    UpdatesNeverPostpone
    EvictionSparesOthers
    ImplementsHandoverService
CHECK_DEADLOCK FALSE
