CONSTANTS
    Freqs = {f1, f2}
    RowsMax = 2
    MessagesMax = 2
    BlocksMax = 1
    Switch = {TRUE, FALSE}
    MaxLives = 2
    MaxOverruns = 0
SPECIFICATION Spec
INVARIANTS TypeOK OfThisTuning DeviceOwned QuietWhenOff
CHECK_DEADLOCK FALSE
