CONSTANTS
    Modes <- AllModes
    Answers <- Settling
    MaxMessages = 2
    MaxFaults = 2
SPECIFICATION Spec
PROPERTIES
    EveryMessageIsTaken
    EndsWhenAsked
CHECK_DEADLOCK FALSE
