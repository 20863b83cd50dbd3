CONSTANTS
    f1 = f1
    f2 = f2
    f3 = f3
    f4 = f4
    NoFreq = NoFreq
    Freqs <- FourFreqs
    Saved0 <- ThreeSaved
    Live0 <- OneLive
    Rows = 2
    LibraryMax = 4
    MaxSends = 3
    MaxCrashes = 1
SPECIFICATION Spec
INVARIANTS
    TypeOK
    ActsOnWhatWasShown
    ViewsAgree
PROPERTY LoadingEnds
CHECK_DEADLOCK FALSE
