CONSTANTS
    Sites <- Positions
    distance <- Road
    longitude <- Degrees
    Times <- FiveTimes
    Threshold = 2
    MaxSightings = 4
SPECIFICATION Spec
INVARIANT
    AccusedForSpeed
CHECK_DEADLOCK FALSE
