SPECIFICATION Spec
CONSTANTS
    Last = 3
    Attempts = 3
    Modes = {"deploy"}
    MaxRuns = 1
    MaxFaults = 1
    MaxOutages = 0
INVARIANT RestoresTheOld
CHECK_DEADLOCK FALSE
