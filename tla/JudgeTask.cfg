CONSTANTS
    Requests <- AllRequests
    Chunks = 2
    MaxRequests = 2
SPECIFICATION Spec
INVARIANTS
    TypeOK
    FaultsAreReported
    AnswersAreFinal
    AtMostOneLeak
    DiesOnlyWhenProvoked
    OneAnswerEach
    OnlyTwoReturnsHang
PROPERTIES
    Settles
    KeepsPromise
CHECK_DEADLOCK FALSE
