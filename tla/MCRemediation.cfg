\* Every interleaving of three requests about one runbook, whose row
\* may be put twice.
SPECIFICATION FairSpec
CONSTANTS
    r1 = r1
    r2 = r2
    r3 = r3
    b1 = b1
    Requests <- MCRequests
    Runbooks <- MCRunbooks
    Callers <- MCCallers
    MaxIssues = 2
    Nobody = Nobody
INVARIANTS
    OneExecutionPerIssue
    ExecutionIsApproved
    OutcomeIsEarned
    ConflictHasAWinner
    TrailIsTrue
    DecisionIsAudited
PROPERTIES
    InProgressEnds
    ImplementsDecision
CHECK_DEADLOCK FALSE
