CONSTANTS
    Plates <- ThreePlates
    Times <- FiveTimes
    lasttime = 2
    MaxRows = 5
    Word = 64
SPECIFICATION Spec
INVARIANT
    FootholdsOfTheirPlate
CHECK_DEADLOCK FALSE
