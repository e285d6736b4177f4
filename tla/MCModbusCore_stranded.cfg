\* A waiter whose request was left in the queue sleeps for ever.
CONSTANTS
    Requests = {r1, r2}
    NoReq = NoReq
    Cap = 1
    Kinds <- OneKind
    BusReplies <- ThreeFates
    ReconnectMax = 1
SPECIFICATION FairSpec
PROPERTIES ShutdownWakesWaiters
CHECK_DEADLOCK FALSE
