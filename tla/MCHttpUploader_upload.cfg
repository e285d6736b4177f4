\* Three files and five lines in all; a file of three lines is too large, and
\* four lines in the directory are over the total; one retry for a line.
CONSTANTS
    FileCount = 3
    LineCount = 5
    MaxFile = 2
    MaxTotal = 3
    Retries = 1
    NoFile = 0
    Nano = 2
SPECIFICATION FairSpec
INVARIANTS
    TypeOK
    RecordIsEarned
    LinesInOrder
PROPERTIES
    RecordIsRespected
    LastCompleteFileSettles
CHECK_DEADLOCK FALSE
