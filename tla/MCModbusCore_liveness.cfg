\* Two callers, a queue of one, every kind of request: statuses, and who gets out.
CONSTANTS
    Requests = {r1, r2}
    NoReq = NoReq
    Cap = 1
    Kinds <- ThreeKinds
    BusReplies <- FourFates
    ReconnectMax = 2
SPECIFICATION FairSpec
INVARIANTS StatusIsEarned
PROPERTIES NoExchangeAfterAnswer WaiterIsAnswered ShutdownReturns BlockedCallerReleased
CHECK_DEADLOCK FALSE
