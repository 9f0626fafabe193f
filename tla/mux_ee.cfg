SPECIFICATION FairSpec
CONSTANTS
    s1 = s1
    s2 = s2
    Slots <- TwoSlots
    NoSlot = NoSlot
    NoProc = NoProc
    NoRec = NoRec
    PlaybackMode = "ee"
    MayShutdown = FALSE
    MaxCmds = 3
    MaxPending = 2
INVARIANTS
    RecordsLiveOnly
PROPERTIES
    FairlyImplementsArmMux
