-------------------------- MODULE RunbookDecision --------------------------
(***************************************************************************)
(* What reviewing a runbook promises, without handlers, requests or races: *)
(* each issue of a runbook is decided at most once, while it is the current*)
(* one; only an approved issue is executed, and at most once.  The promise *)
(* is made to the tenant by the docstring of trigger_remediation.py; that  *)
(* the module's code keeps it per issue and not per runbook is what the    *)
(* word "issue" records.                                                   *)
(***************************************************************************)
EXTENDS Naturals

CONSTANTS Runbooks, MaxIssues

VARIABLES
    issued,     \* how many issues of each runbook there have been
    decision,   \* the decision on the current issue
    approved,   \* the issues of each runbook that were approved
    executed    \* the issues of each runbook whose remediation was carried out

decisionVars == <<issued, decision, approved, executed>>

DecisionInit ==
    /\ issued = [b \in Runbooks |-> 0]
    /\ decision = [b \in Runbooks |-> "absent"]
    /\ approved = [b \in Runbooks |-> {}]
    /\ executed = [b \in Runbooks |-> {}]

NewIssue(b) ==
    /\ issued[b] < MaxIssues
    /\ issued' = [issued EXCEPT ![b] = @ + 1]
    /\ decision' = [decision EXCEPT ![b] = "pending"]
    /\ UNCHANGED <<approved, executed>>

Approve(b) ==
    /\ decision[b] = "pending"
    /\ decision' = [decision EXCEPT ![b] = "approved"]
    /\ approved' = [approved EXCEPT ![b] = @ \cup {issued[b]}]
    /\ UNCHANGED <<issued, executed>>

Decline(b) ==
    /\ decision[b] = "pending"
    /\ decision' = [decision EXCEPT ![b] = "declined"]
    /\ UNCHANGED <<issued, approved, executed>>

\* The execution may come after a later issue has replaced the approved one.
Execute(b) ==
    /\ \E i \in approved[b] \ executed[b] :
          executed' = [executed EXCEPT ![b] = @ \cup {i}]
    /\ UNCHANGED <<issued, decision, approved>>

DecisionNext ==
    \E b \in Runbooks : NewIssue(b) \/ Approve(b) \/ Decline(b) \/ Execute(b)

DecisionSpec == DecisionInit /\ [][DecisionNext]_decisionVars

=============================================================================
