SPECIFICATION ProbeFairSpec
CONSTANTS
    t1 = t1
    Powers = 2
    Rough = 25
    Stoppers = {t1}
    Lates = {9, 16}
    MaxWakes = 2
    MaxNotes = 1
INVARIANTS OneWait SinceNeverWraps ActivityNoticed HistogramBounds
PROPERTY StopEnds
CHECK_DEADLOCK FALSE
