SPECIFICATION FairSpec
CONSTANTS
    Programs = {"classify"}
    Colors = {"red"}
    Frames = 1
INVARIANTS
    SuccessIsGrasp
CHECK_DEADLOCK FALSE
