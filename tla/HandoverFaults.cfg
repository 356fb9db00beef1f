SPECIFICATION Spec
CONSTANTS
    Imsis = {u1, u2}
    Cells = {c1, c2, c3}
    Lte = lte
    NoCell = none
    NoUe = noUe
    MaxRnti = 4
    MaxCommands = 2
    MaxOutages = 1
    Faults = {"reject", "noPreamble", "raFailure"}
    StaleCommands = TRUE
    LateStatus = TRUE
SYMMETRY Symmetry
INVARIANTS
    AnchorKnowsServingManager
    NoOrphanedManager
    FailuresAreSurvived
CHECK_DEADLOCK FALSE
