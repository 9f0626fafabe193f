SPECIFICATION Spec
CONSTANTS
    s1 = s1
    s2 = s2
    Slots <- TwoSlots
    NoSlot = NoSlot
    NoProc = NoProc
    NoRec = NoRec
    PlaybackMode = "joints"
    MayShutdown = TRUE
    MaxCmds = 3
    MaxPending = 1
INVARIANTS
    OneChild
    StatusTellsChild
    TeleopBlocked
    PlayNewest
    CaptureOfPlayback
PROPERTIES
    NoUnlinkInUse
    ImplementsArmMux
    QuietShutdownReaps
CHECK_DEADLOCK FALSE
