SPECIFICATION FairSpec
CONSTANTS
    MaxConns = 2
    MaxServices = 2
INVARIANTS
    QueueOfLastSender
    ResponsesMatch
PROPERTIES
    BothThreadsEnd
    CallsEnd
CHECK_DEADLOCK FALSE
