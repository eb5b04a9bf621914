CONSTANTS
    Keys <- MCKeys
    Strings <- MCStrings
    Environment <- MCEnvironment
    Assignments <- MCAssignments
    MaxAssignments = 4
    MaxNesting = 2
    MaxConfigs = 3
SPECIFICATION ConfigSpec
INVARIANT
    PiecesMergeInPlace
CHECK_DEADLOCK FALSE
