CONSTANTS
    SeqMod = 3
    MaxPress = 2
    Kinds = {"quiet"}
    Faults = {"reload"}
SPECIFICATION Spec
INVARIANT ReloadKeepsPresses
CHECK_DEADLOCK FALSE
