CONSTANTS
    Modes <- AllModes
    Answers <- AllAnswers
    MaxMessages = 4
    MaxFaults = 3
SPECIFICATION Safe
INVARIANTS
    TypeOK
    AtLeastOnce
    AtMostOnce
    InOrder
    HeadOfLine
    TeardownIsSafe
PROPERTIES
    SettledNeverAgain
CHECK_DEADLOCK FALSE
