CONSTANTS
    Freqs = {f1}
    RowsMax = 1
    MessagesMax = 1
    BlocksMax = 1
    Switch = {TRUE}
    MaxLives = 2
    MaxOverruns = 1
SPECIFICATION FairSpec
PROPERTIES Served CloseEndsThreads
CHECK_DEADLOCK FALSE
