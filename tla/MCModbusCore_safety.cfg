\* Three callers compete for a queue of two, requests without retries.
CONSTANTS
    Requests = {r1, r2, r3}
    NoReq = NoReq
    Cap = 2
    Kinds <- OneShot
    BusReplies <- TwoFates
    ReconnectMax = 1
SPECIFICATION Spec
SYMMETRY RequestSymmetry
INVARIANTS TypeOK Custody
PROPERTIES ImplementsService QuietAfterShutdown
CHECK_DEADLOCK FALSE
