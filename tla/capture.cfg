SPECIFICATION Spec
CONSTANTS
    TrimRows = 1
    MayShutdown = TRUE
    MaxSessions = 2
    MaxRows = 4
INVARIANTS
    TrimmedOnce
PROPERTIES
    ClosedIsFinal
CHECK_DEADLOCK FALSE
