\* One execution with every error, timeout, retry and lost mark; an attempt it
\* has given up on may be running.
SPECIFICATION FairSpec
CONSTANTS
    e1 = e1
    Execs <- MCExecs
    Watched <- TimelineStages
    MarksFail = TRUE
    MaxOrphans = 1
    NoDiagnosis = NoDiagnosis
INVARIANTS
    RunbookIsWhole
    DiagnosisMatchesRunbook
    TimelineIsTrue
    ReportedIsRedrivable
    StatusIsEarned
PROPERTIES
    ExecutionEnds
    FailureGivesWay
    ImplementsDiagnosis
CHECK_DEADLOCK FALSE
