SPECIFICATION FairSpec
CONSTANTS
    Programs = {"classify", "fixed", "once"}
    Colors = {"red", "blue"}
    Frames = 1
INVARIANTS
    CancelStopsSoon
    PutFollowsGrasp
    SeenWhileLooking
PROPERTIES
    GoalsEnd
CHECK_DEADLOCK FALSE
