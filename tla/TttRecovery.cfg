SPECIFICATION Spec
CONSTANTS
    Imsis = {u1}
    Cells = {c1, c2}
    NoCell = none
    Unknown = unknown
    NoEvent = noEvent
    Modes = {"FIXED_TTT"}
    Levels = {0, 3, 5, 9}
    OutageThreshold = 2
    SinrThresholdDifference = 3
    FixedTtt = 2
    MinDynTtt = 0
    MaxDynTtt = 2
    MinDiff = 3
    MaxDiff = 5
    Rounding = 2
    AvailablePreambles = 1
    EvictionOffset = 1
    MaxActions = 0
INVARIANTS
    RecoveryCancelsHandover
CHECK_DEADLOCK FALSE
