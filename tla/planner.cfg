SPECIFICATION FairSpec
CONSTANTS
    Joints = {"j1", "j2"}
    Angles = {"a"}
    MaxPosts = 3
INVARIANTS
    CarriesCandy
    StopEndsCycle
    SlidersAddUp
PROPERTIES
    RequestsHandled
CHECK_DEADLOCK FALSE
