\* Three files, three lines in all, and no limit that bites: a file
\* whose upload failed is never tried again.
CONSTANTS
    FileCount = 3
    LineCount = 3
    MaxFile = 3
    MaxTotal = 9
    Retries = 0
    NoFile = 0
    Nano = 2
SPECIFICATION FairSpec
PROPERTIES
    FailedFileIsRetried
CHECK_DEADLOCK FALSE
