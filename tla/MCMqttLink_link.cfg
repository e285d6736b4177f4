\* Two publishers with up to two messages a round, backoff of 1, 2 and 4 units.
CONSTANTS
    tailer = tailer
    telemetry = telemetry
    Publishers = {tailer, telemetry}
    NoThread = NoThread
    RoundMax = 2
    BackoffMin = 1
    BackoffMax = 3
SPECIFICATION FairSpec
INVARIANTS
    TypeOK
    FlagFollowsSession
PROPERTIES
    LossForgottenOnlyAtSubscribe
    ShownLossIsRepaired
    SignalEndsThreads
CHECK_DEADLOCK FALSE
