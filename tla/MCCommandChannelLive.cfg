\* One kind of command is enough: whether a press settles does not depend on
\* its payload.  Main does not reset here (see the README).
CONSTANTS
    SeqMod = 3
    MaxPress = 2
    Kinds = {"quiet"}
    Faults = {"lost_write", "ack_failed", "crash", "reload", "unread"}
SPECIFICATION FairSpec
PROPERTY PressesSettle
CHECK_DEADLOCK FALSE
