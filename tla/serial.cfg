SPECIFICATION Spec
CONSTANTS
    Limit = 5
    Poses = {"p", "q"}
    MaxFrames = 4
    MaxRequests = 2
    MaxStream = 8
INVARIANTS
    TypeOK
    Recovers
    AnswerMatches
    CommandStands
CHECK_DEADLOCK FALSE
