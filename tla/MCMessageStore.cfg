SPECIFICATION Spec
CONSTANTS
    Texts <- MCTexts
    Decodes <- MCDecodes
    Erased = 0
    f1 = f1
    f2 = f2
    Freqs <- MCFreqs
    Files <- MCFiles
    NoText = NoText
    MaxRecords = 2
    ClusterWindow = 1
    DuplicateWindow = 1
    ReplayMax = 1
    Parts = 12
    MaxWall = 2
    MaxHeard = 3
    MaxSetBacks = 1
    MaxEnds = 1
SYMMETRY Symmetry
INVARIANTS EveryReceptionCounts FileLoads ShownIsEarned VerifiedIsShown
CHECK_DEADLOCK FALSE
