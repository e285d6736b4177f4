\* The same with a file and a line more: a file is taken for complete too early.
CONSTANTS
    MaxTime = 2
    MaxSeq = 1
    MaxStarts = 2
    MaxFiles = 3
    MaxFaults = 2
    MaxLines = 3
    RecordsPerFile = 1
    CtrlRecords <- MCCtrlRecords
    MaxFileBytes = 0
    Idle = 1
    NoFile = NoFile
SPECIFICATION Spec
INVARIANTS
    SentFileIsSent
CHECK_DEADLOCK FALSE
