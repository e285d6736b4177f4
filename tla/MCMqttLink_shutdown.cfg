\* The same instance: what the end of main is for.
CONSTANTS
    tailer = tailer
    telemetry = telemetry
    Publishers = {tailer, telemetry}
    NoThread = NoThread
    RoundMax = 2
    BackoffMin = 1
    BackoffMax = 3
SPECIFICATION FairSpec
PROPERTY
    SignalEndsProcess
CHECK_DEADLOCK FALSE
