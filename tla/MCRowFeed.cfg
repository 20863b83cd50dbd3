CONSTANTS
    f1 = f1
    f2 = f2
    t1 = t1
    t2 = t2
    Freqs = {f1, f2}
    Texts = {t1, t2}
    Messages <- OnePerFrequency
    Length <- SameLength
    Words = 1
    RowMod = 4
    MaxFrames = 3
    HistoryMax = 2
    MaxEvents = 3
SPECIFICATION Spec
INVARIANTS TypeOK CaughtUp HistoryGenuine AllArrive
CHECK_DEADLOCK FALSE
