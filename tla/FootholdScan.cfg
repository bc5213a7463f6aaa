CONSTANTS
    Plates <- ThreePlates
    Times <- FiveTimes
    lasttime = 2
    MaxRows = 5
    Word = 64
SPECIFICATION Spec
INVARIANTS
    TypeOK
    EveryFootholdOnce
    OneEntryPerPlate
    MisfiledOnlyWhenClose
CHECK_DEADLOCK FALSE
