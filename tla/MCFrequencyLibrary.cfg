CONSTANTS
    Freqs = {f1, f2, f3, f4}
    Spans = {s1, s2}
    LiveMax = 3
    SavedMax = 3
    Page = 2
SPECIFICATION Spec
INVARIANTS TypeOK LiveUsable ReceiverOnSelected LiveIsSaved OneSpan Durable ShownIsCurrent
PROPERTY ToggleKeepsSelection
SYMMETRY Symmetry
