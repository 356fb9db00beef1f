SPECIFICATION FairSpec
CONSTANTS
    u1 = u1
    u2 = u2
    Imsis = {u1, u2}
    Cells = {2, 3}
    ReportTypes = {"CuCp"}
    Vehicles <- SometimesTwo
    NoVehicle = noVehicle
    Nothing = nothing
    ReportsNameUe = TRUE
    MayClose = FALSE
    MaxReports = 0
    MaxInFlight = 1
    MaxSnapshots = 1
    MaxQueued = 1
PROPERTIES
    DecisionsGoOn
    CommandsAreSent
CHECK_DEADLOCK FALSE
