SPECIFICATION Spec
CONSTANTS
    Dict = Dict
    MaxSegments = 3
    MaxEntries = 3
    Paths <- MCPaths
    Values <- MCValues
    Inputs <- MCInputs
INVARIANTS
    MountIsComplete
    FailsForACause
PROPERTIES
    InsertsAreMounts
CHECK_DEADLOCK FALSE
