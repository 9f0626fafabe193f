SPECIFICATION FairSysSpec
CONSTANTS
    s1 = s1
    h1 = h1
    h2 = h2
    Slots <- OneSlot
    Handlers <- TwoHandlers
    NoSlot = NoSlot
    NoProc = NoProc
    NoRec = NoRec
    PlaybackMode = "joints"
    MayShutdown = TRUE
    MaxCmds = 2
    MaxPending = 0
    MaxRequests = 2
    MaxWire = 2
INVARIANTS
    FinishedOnceAndOver
PROPERTIES
    StopConfirmedIsStopped
    MirrorConverges
    RequestsAnswered
    CommandsServed
CHECK_DEADLOCK FALSE
