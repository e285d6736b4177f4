\* Two messages, in one second or in two, and one failure or crash.
CONSTANTS
    NoObject = NoObject
    Messages <- MCMessages
    LongTexts <- MCLongTexts
    MaxMessages = 2
    MaxTime = 3
    MaxFaults = 1
    Interval = 5000
    Records = 100
SPECIFICATION FairSpec
INVARIANTS
    TypeOK
    NoEffectWithoutOk
    OkIsTrue
    TelemetryRunsAsAsked
PROPERTIES
    FileIsReplacedWhole
    CollectorCatchesUp
    TelemetryCatchesUp
CHECK_DEADLOCK FALSE
