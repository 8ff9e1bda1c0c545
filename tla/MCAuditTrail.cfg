SPECIFICATION Spec
CONSTANTS
    a1 = a1
    a2 = a2
    b1 = b1
    Entries = {a1, a2, b1}
    Wanted = {a1, a2}
    MaxTime = 1
    PerSecond = 2
    MaxAttempts = 2
    Limit = 2
    PageSize = 2
    MAX_PAGES = 2
SYMMETRY Symmetry
CHECK_DEADLOCK FALSE
INVARIANTS
    RecordedIsKept
    AnswerIsComplete
