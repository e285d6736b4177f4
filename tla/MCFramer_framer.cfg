SPECIFICATION Spec
CONSTANTS
    Programs <- MCPrograms
    Lines <- MCLines
    Texts <- MCTexts
    Given <- MCGiven
    CommandLines <- MCCommandLines
    MaxWords <- MCMaxWords
    MaxBefore = 1
    MaxRounds = 2
INVARIANTS TypeOK LastWordWins NoUngivenWrite ZeroMeansDone EveryLoopIsCounted ScanAsksAll SnapshotIsRight
CHECK_DEADLOCK FALSE
