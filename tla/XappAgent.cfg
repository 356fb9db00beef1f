SPECIFICATION Spec
CONSTANTS
    u1 = u1
    u2 = u2
    Imsis = {u1, u2}
    Cells = {2, 3, 4}
    ReportTypes = {"CuCp"}
    Vehicles <- ChainOfVehicles
    NoVehicle = noVehicle
    Nothing = nothing
    ReportsNameUe = TRUE
    MayClose = TRUE
    MaxInFlight = 1
    MaxSnapshots = 1
    MaxQueued = 2
    MaxReports = 6
INVARIANTS
    TypeOK
    FlushLeavesFewOldReports
PROPERTIES
    SnapshotsAreComplete
    OnlyCirclesAreDropped
CHECK_DEADLOCK FALSE
