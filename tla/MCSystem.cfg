\* A runbook's row put up to twice, by a retry or by the SDK, while two
\* requests decide on it; tasks may fail at any call.
SPECIFICATION SystemSpec
CONSTANTS
    e1 = e1
    r1 = r1
    r2 = r2
    Execs <- MCExecs
    Watched = {}
    MarksFail = FALSE
    MaxOrphans = 0
    NoDiagnosis = NoDiagnosis
    Requests <- MCRequests
    Callers <- MCCallers
    MaxIssues = 2
    Nobody = Nobody
    Faulty <- MCFaulty
SYMMETRY MCSymmetry
INVARIANTS
    ExecutedIsDiagnosed
    ExecutedTwiceIsPutTwice
PROPERTIES
    DecisionIsFinal
CHECK_DEADLOCK FALSE
