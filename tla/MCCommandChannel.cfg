CONSTANTS
    SeqMod = 3
    MaxPress = 2
    Kinds = {"quiet", "view", "threshold", "add"}
    Faults = {"lost_write", "ack_failed", "crash", "reload", "unread", "main_reset"}
SPECIFICATION Spec
INVARIANTS TypeOK AtMostOnce ConfirmedWasTaken PayloadNeverStale
PROPERTY RunsInOrder
CHECK_DEADLOCK FALSE
