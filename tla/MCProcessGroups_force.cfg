CONSTANTS
    MaxPid = 3
    MaxBirths = 3
SPECIFICATION GroupsSpec
PROPERTY ForcedStopEndsTree
CHECK_DEADLOCK FALSE
