SPECIFICATION Spec
CONSTANTS
    Last = 3
    Attempts = 3
    Modes = {"deploy", "stage_only", "verify_only"}
    MaxRuns = 3
    MaxFaults = 2
    MaxOutages = 1
INVARIANTS NeverHalfWritten OneVersion
PROPERTY ChangesWhileStopped
CHECK_DEADLOCK FALSE
