CONSTANTS
    Modes <- AllModes
    Answers <- AllAnswers
    MaxMessages = 1
    MaxFaults = 1
SPECIFICATION Safe
INVARIANTS
    ErrorsAreSurvived
CHECK_DEADLOCK FALSE
