SPECIFICATION DetectorSpec
CONSTANTS
    Horizon = 8
    Threshold = 2
    MaxFrozen = 2
    Late = 1
    Doings = 3
    Jumps <- MCJumps
PROPERTIES NothingIsMadeUp SeekIsSeen PressIsHeard
CHECK_DEADLOCK FALSE
