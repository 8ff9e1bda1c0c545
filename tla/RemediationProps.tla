-------------------------- MODULE RemediationProps --------------------------
(***************************************************************************)
(* What is claimed of Remediation, apart from the model itself.            *)
(***************************************************************************)
EXTENDS Remediation

\* r made the decision on issue i of its runbook, whether it knows or not.
Decided(r, i) ==
    \/ claim[r] = i
    \/ [request |-> r, issue |-> i] \in unanswered

HasDecided(r) == \E i \in 1..MaxIssues : Decided(r, i)

\* Two invocations never carry out the same issue of a runbook: the claim in
\* _claim_for_approval lets one through, whatever double-clicks, retries and
\* dying handlers surround it.
OneExecutionPerIssue ==
    \A r, s \in acted :
        Book(r) = Book(s) /\ claim[r] = claim[s] => r = s

\* "Exactly once" as the docstring has it: a runbook's remediation is carried
\* out at most once, ever (trigger_remediation.py:9-13).
ExactlyOnce == \A r, s \in acted : Book(r) = Book(s) => r = s

\* An execution never happens with no trace of it: the attempt was handed to
\* record_audit before the platform was called, even if the handler died.
ExecutionIsRecorded ==
    \A r \in acted : [request |-> r, result |-> "attempted"] \in audit

\* While the row still shows the issue an execution was approved for, it names
\* the invocation that executed it, which came from a Tenant Admin; so what a
\* Tenant Admin has declined or not yet decided has not been executed.
ExecutionIsApproved ==
    \A r \in acted :
        /\ ask[r].caller = TENANT_ADMIN
        /\ claim[r] = issue[Book(r)] =>
              approval[Book(r)] = "approved" /\ approvedBy[Book(r)] = r

\* execution_status is no invention: a row that reports success was executed,
\* a row still claiming not_started is not an approved one, and an approved
\* row that reports no execution is one whose invocation has not written yet or
\* has not been told that it was the one to decide.
OutcomeIsEarned ==
    \A b \in Runbooks :
        /\ execution[b] = "succeeded" => \E r \in acted : Book(r) = b
        /\ approval[b] = "approved" => execution[b] # "not_started"
        /\ execution[b] = "in_progress" =>
              /\ approval[b] = "approved"
              /\ \/ pc[approvedBy[b]] \in {"claimed", "attempted", "called", "dead"}
                 \/ [request |-> approvedBy[b], issue |-> issue[b]] \in unanswered

\* 409 is answered only to someone who was beaten to it by another invocation
\* deciding on the same runbook, or whose own decision was taken and the answer
\* lost (trigger_remediation.py:87-113).
ConflictHasAWinner ==
    \A r \in Requests :
        pc[r] = "conflict" =>
            \E s \in Requests :
                /\ Book(s) = Book(r)
                /\ HasDecided(s)
                /\ s = r => \E u \in unanswered : u.request = r

\* The trail tells no tale and misses no execution: who is refused in it never
\* decided, who declines in it declined, who has an outcome in it was approved and
\* attempted first, success was carried out and a skipped call was not; what was
\* carried out is in it even if the handler died, and whoever was answered 200
\* has its whole story in it (trigger_remediation.py:172-180, 199-260).
TrailIsTrue ==
    /\ ExecutionIsRecorded
    /\ \A a \in audit :
          LET r == a.request IN
          /\ a.result = "refused_not_admin" => ~ HasDecided(r) /\ r \notin acted
          /\ a.result = "declined" => ask[r].kind = "decline" /\ claim[r] > 0
          /\ a.result \in {"attempted"} \cup Outcomes =>
                /\ ask[r].kind = "approve" /\ claim[r] > 0
                /\ [request |-> r, result |-> "attempted"] \in audit
          /\ a.result = "succeeded" => r \in acted
          /\ a.result = "skipped" => r \notin acted
    /\ \A r \in Requests :
          pc[r] = "ok" =>
              \E a \in audit :
                 /\ a.request = r
                 /\ a.result \in IF ask[r].kind = "approve" THEN {result[r]} ELSE {"declined"}

\* A decision the row shows is in the trail, unless the invocation that made it
\* has yet to hand the entry over, stopped before it did, or was never told that
\* the decision was its own (trigger_remediation.py:191-206, 218-229).
DecisionIsAudited ==
    \A b \in Runbooks :
        approval[b] \in {"approved", "declined"} =>
            \E r \in Requests :
                /\ Book(r) = b
                /\ Decided(r, issue[b])
                /\ \/ [request |-> r, result |-> "attempted"] \in audit
                   \/ [request |-> r, result |-> "declined"] \in audit
                   \/ pc[r] \in {"claimed", "declined", "dead"}
                   \/ [request |-> r, issue |-> issue[b]] \in unanswered

\* Liveness: in_progress does not last, unless the invocation that claimed the
\* runbook died between the claim and the outcome, or was told that somebody
\* else claimed it (nothing in the code ever picks such a runbook up again).
InProgressEnds ==
    \A b \in Runbooks :
        execution[b] = "in_progress" ~>
            \/ execution[b] # "in_progress"
            \/ pc[approvedBy[b]] \in {"dead", "conflict"}

-----------------------------------------------------------------------------
\* The refinement: the invocations' claims and calls are the decisions and
\* executions of RunbookDecision.
ApprovedIssues(b) ==
    {i \in 1..MaxIssues :
        \E r \in Requests : Book(r) = b /\ ask[r].kind = "approve" /\ Decided(r, i)}

ExecutedIssues(b) == {claim[r] : r \in {q \in acted : Book(q) = b}}

Decision == INSTANCE RunbookDecision WITH
    issued <- issue,
    decision <- approval,
    approved <- [b \in Runbooks |-> ApprovedIssues(b)],
    executed <- [b \in Runbooks |-> ExecutedIssues(b)]

\* Every step of the handlers is a decision, an execution or invisible.
ImplementsDecision == Decision!DecisionSpec

=============================================================================
