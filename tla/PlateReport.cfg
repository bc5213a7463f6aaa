CONSTANTS
    MaxPlate = 2
    MaxId = 5
    STEP = 2
    TOTAL = 4
SPECIFICATION Spec
INVARIANTS
    TypeOK
    EveryPlateRead
    LatestRangeKept
    TracesAreOfReported
    NamelessOnlyWhenUnjoined
CHECK_DEADLOCK FALSE
