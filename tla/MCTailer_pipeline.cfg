\* Two files in three seconds, by at most two processes; two failures or crashes.
CONSTANTS
    MaxTime = 2
    MaxSeq = 1
    MaxStarts = 2
    MaxFiles = 2
    MaxFaults = 2
    MaxLines = 2
    RecordsPerFile = 1
    CtrlRecords <- MCCtrlRecords
    MaxFileBytes = 0
    Idle = 1
    NoFile = NoFile
SPECIFICATION FairSpec
INVARIANTS
    TypeOK
    FilesStayShort
    OffsetIsEarned
    DoneIsEarned
PROPERTIES
    DoneIsNotRepublished
    NoCollectingWithoutFile
    BacklogSettles
CHECK_DEADLOCK FALSE
