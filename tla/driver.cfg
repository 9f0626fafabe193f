SPECIFICATION FairSpec
CONSTANTS
    Players = {"joints", "servo", "gripper"}
    Sizes = {1, 2, 3, 5}
    Byte = 4
    MaxGoals = 2
INVARIANTS
    SuccessComplete
    StraysNeedPreempt
PROPERTIES
    ImplementsActionServer
    GoalsAnswered
CHECK_DEADLOCK FALSE
