\* A runbook whose row is put again after an approval.
SPECIFICATION SystemSpec
CONSTANTS
    e1 = e1
    r1 = r1
    r2 = r2
    Execs <- MCExecs
    Watched = {}
    MarksFail = FALSE
    MaxOrphans = 0
    NoDiagnosis = NoDiagnosis
    Requests <- MCRequests
    Callers <- MCCallers
    MaxIssues = 2
    Nobody = Nobody
    Faulty <- MCFaulty
SYMMETRY MCSymmetry
INVARIANTS
    ExactlyOnce
CHECK_DEADLOCK FALSE
