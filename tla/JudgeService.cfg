CONSTANTS
    Modes <- SampleMode
    Answers <- NoAnswer
    MaxMessages = 3
    MaxFaults = 2
SPECIFICATION ServiceSpec
INVARIANTS
    ServiceTypeOK
    AnswersFollow
PROPERTIES
    ServesInOrder
    BrokerKeeps
    EveryRequestIsOver
CHECK_DEADLOCK FALSE
