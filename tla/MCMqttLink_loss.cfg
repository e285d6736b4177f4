\* The same instance: what the keep-alive is for.
CONSTANTS
    tailer = tailer
    telemetry = telemetry
    Publishers = {tailer, telemetry}
    NoThread = NoThread
    RoundMax = 2
    BackoffMin = 1
    BackoffMax = 3
SPECIFICATION FairSpec
PROPERTY
    LossIsRepaired
CHECK_DEADLOCK FALSE
