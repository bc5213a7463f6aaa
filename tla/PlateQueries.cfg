CONSTANTS
    Hours = 3
    Minutes = 2
    NULL = NULL
    wanted = wanted
    p = p
    q = q
    here = here
    there = there
    Plates <- ThreePlates
    Tollgates <- TwoTollgates
    Near = 2
    CorrelationThresold = 1
    TrajectoryThresold = 1
    Requests <- AllRequests
    Tables <- AllTables
SPECIFICATION Spec
INVARIANTS
    TypeOK
    TopPlatesReported
    NightsReported
    NoHiddenVehicleMissed
    DiesOfUnread
CHECK_DEADLOCK FALSE
