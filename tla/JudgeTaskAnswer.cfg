CONSTANTS
    Requests <- AllRequests
    Chunks = 2
    MaxRequests = 2
SPECIFICATION Spec
PROPERTY
    EveryTaskIsAnswered
CHECK_DEADLOCK FALSE
