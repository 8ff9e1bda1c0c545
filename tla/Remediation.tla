---------------------------- MODULE Remediation ----------------------------
(***************************************************************************)
(* fn-trigger-remediation (handlers/trigger_remediation.py): approving or  *)
(* declining a runbook.  Several invocations run at once, each makes one   *)
(* remote call per action, and any of them may die between two calls.  The *)
(* pipeline's generate_runbook puts the row it works on (Issue).  The SDK  *)
(* repeats an update whose answer was lost, so an invocation may meet its  *)
(* own decision.                                                           *)
(*                                                                         *)
(* One tenant: the row's key starts with the caller's tenant, so a request *)
(* never names another tenant's row.  An invocation stands for the actor   *)
(* it runs for: approved_by holds the invocation that made the decision.   *)
(***************************************************************************)
EXTENDS Naturals, Rbac

CONSTANTS
    Requests,   \* handler invocations, each with its own request
    Runbooks,   \* runbook ids
    Callers,    \* the identities requests come from
    MaxIssues,  \* bound: how often generate_runbook puts one runbook's row
    Nobody      \* approved_by of a row nobody has approved

ASSUME CallersAreIdentities == Callers \subseteq Identities
ASSUME MaxIssuesIsNat == MaxIssues \in Nat
ASSUME NobodyIsNoRequest == Nobody \notin Requests

VARIABLES
    approval,    \* approval_status of each row, "absent" when there is none
    execution,   \* execution_status of each row
    approvedBy,  \* approved_by of each row
    issue,       \* history: how many times the row has been put
    ask,         \* what each invocation asks for
    pc,          \* where each invocation is, or how it was answered
    claim,       \* history: the issue each invocation decided on, 0 if none
    result,      \* the platform's result each invocation holds in memory
    unanswered,  \* history: decisions the row took while their answer was lost
    acted,       \* history: invocations whose call the platform carried out
    audit,       \* history: entries handed to record_audit, which enqueues each
                 \* one for fn-audit-write or, failing that, logs it whole
    notified     \* history: invocations that invoked fn-notify-ims

rowVars == <<approval, execution, approvedBy, issue>>
historyVars == <<unanswered, acted, audit, notified>>
vars == <<approval, execution, approvedBy, issue, ask, pc, claim, result,
          unanswered, acted, audit, notified>>

CAPABILITY == "approve_remediation"

Ask == [kind: {"approve", "decline"}, caller: Callers, runbook: Runbooks]

Outcomes == {"skipped", "failed", "succeeded"}
ApprovalStatus == {"absent", "pending", "approved", "declined"}
ExecutionStatus == {"none", "not_started", "in_progress"} \cup Outcomes
AuditResults == {"refused_not_admin", "declined", "attempted"} \cup Outcomes

\* Between two remote calls ...
Running == {"authorised", "loaded", "claimed", "declined", "attempted",
            "called", "settled", "notifying"}
\* ... and answered: 403, 404, 409, 200; "dead" never answered or answered 500.
Answered == {"forbidden", "not_found", "conflict", "ok", "dead"}

TypeOK ==
    /\ approval \in [Runbooks -> ApprovalStatus]
    /\ execution \in [Runbooks -> ExecutionStatus]
    /\ approvedBy \in [Runbooks -> Requests \cup {Nobody}]
    /\ issue \in [Runbooks -> 0..MaxIssues]
    /\ ask \in [Requests -> Ask]
    /\ pc \in [Requests -> {"received"} \cup Running \cup Answered]
    /\ claim \in [Requests -> 0..MaxIssues]
    /\ result \in [Requests -> Outcomes \cup {"none"}]
    /\ unanswered \subseteq [request: Requests, issue: 1..MaxIssues]
    /\ acted \subseteq Requests
    /\ audit \subseteq [request: Requests, result: AuditResults]
    /\ notified \subseteq Requests

Init ==
    /\ approval = [b \in Runbooks |-> "absent"]
    /\ execution = [b \in Runbooks |-> "none"]
    /\ approvedBy = [b \in Runbooks |-> Nobody]
    /\ issue = [b \in Runbooks |-> 0]
    /\ ask \in [Requests -> Ask]
    /\ pc = [r \in Requests |-> "received"]
    /\ claim = [r \in Requests |-> 0]
    /\ result = [r \in Requests |-> "none"]
    /\ unanswered = {}
    /\ acted = {}
    /\ audit = {}
    /\ notified = {}

Goto(r, from, to) ==
    /\ pc[r] = from
    /\ pc' = [pc EXCEPT ![r] = to]

Book(r) == ask[r].runbook

Record(r, what) == audit' = audit \cup {[request |-> r, result |-> what]}

-----------------------------------------------------------------------------
(***************************************************************************)
(* generate_runbook's put_item: unconditional, so a second put of the same *)
(* runbook id (a Step Functions retry, an attempt that outlived its task   *)
(* timeout) takes the row back to pending whatever was decided on it.      *)
(***************************************************************************)
Issue(b) ==
    /\ issue[b] < MaxIssues
    /\ issue' = [issue EXCEPT ![b] = @ + 1]
    /\ approval' = [approval EXCEPT ![b] = "pending"]
    /\ execution' = [execution EXCEPT ![b] = "not_started"]
    /\ approvedBy' = [approvedBy EXCEPT ![b] = Nobody]
    /\ UNCHANGED <<ask, pc, claim, result, historyVars>>

-----------------------------------------------------------------------------
(* The handler, one action per remote call.                                *)

\* The context carries no tenant: refused before anything else, unaudited.  The
\* authorizer lets no such request through; the handler does not rely on that.
RefuseTenantless(r) ==
    /\ ask[r].caller = NoTenant
    /\ Goto(r, "received", "forbidden")
    /\ UNCHANGED <<rowVars, ask, claim, result, historyVars>>

\* The group lacks the capability: audited, then refused.
RefuseNotAdmin(r) ==
    /\ ask[r].caller # NoTenant
    /\ ~ Can(ask[r].caller, CAPABILITY)
    /\ Goto(r, "received", "forbidden")
    /\ Record(r, "refused_not_admin")
    /\ UNCHANGED <<rowVars, ask, claim, result, unanswered, acted, notified>>

Authorise(r) ==
    /\ ask[r].caller # NoTenant
    /\ Can(ask[r].caller, CAPABILITY)
    /\ Goto(r, "received", "authorised")
    /\ UNCHANGED <<rowVars, ask, claim, result, historyVars>>

\* get_item: 404 when there is no row.
LoadRunbook(r) ==
    /\ IF approval[Book(r)] = "absent"
         THEN Goto(r, "authorised", "not_found")
         ELSE Goto(r, "authorised", "loaded")
    /\ UNCHANGED <<rowVars, ask, claim, result, historyVars>>

\* Mutant of Conflict: any error of the conditional update is answered 409.
ConflictOnAnyError(r) ==
    /\ Goto(r, "loaded", "conflict")
    /\ UNCHANGED <<rowVars, ask, claim, result, historyVars>>

\* Mutant of Conflict: the decline is audited before its result is looked at.
ConflictAudited(r) ==
    /\ approval[Book(r)] # "pending"
    /\ Goto(r, "loaded", "conflict")
    /\ Record(r, "declined")
    /\ UNCHANGED <<rowVars, ask, claim, result, unanswered, acted, notified>>

\* The conditional update found the row no longer pending: 409, even if it was
\* the invocation's own first try that decided it.
Conflict(r) ==
    /\ approval[Book(r)] # "pending"
    /\ Goto(r, "loaded", "conflict")
    /\ UNCHANGED <<rowVars, ask, claim, result, historyVars>>

\* Mutant of DeclineRunbook: the update without its condition.
DeclineUnconditionally(r) ==
    /\ ask[r].kind = "decline"
    /\ Goto(r, "loaded", "declined")
    /\ approval' = [approval EXCEPT ![Book(r)] = "declined"]
    /\ claim' = [claim EXCEPT ![r] = issue[Book(r)]]
    /\ UNCHANGED <<execution, approvedBy, issue, ask, result, historyVars>>

\* _decline: the conditional update from pending.
DeclineRunbook(r) ==
    /\ ask[r].kind = "decline"
    /\ approval[Book(r)] = "pending"
    /\ Goto(r, "loaded", "declined")
    /\ approval' = [approval EXCEPT ![Book(r)] = "declined"]
    /\ claim' = [claim EXCEPT ![r] = issue[Book(r)]]
    /\ UNCHANGED <<execution, approvedBy, issue, ask, result, historyVars>>

\* The row has taken r's decision, but r does not know: its update is repeated.
Unheard(r) ==
    /\ pc[r] = "loaded"
    /\ unanswered' = unanswered \cup {[request |-> r, issue |-> issue[Book(r)]]}
    /\ UNCHANGED <<issue, ask, pc, claim, result, acted, audit, notified>>

DeclineUnanswered(r) ==
    /\ ask[r].kind = "decline"
    /\ approval[Book(r)] = "pending"
    /\ Unheard(r)
    /\ approval' = [approval EXCEPT ![Book(r)] = "declined"]
    /\ UNCHANGED <<execution, approvedBy>>

\* Mutant of AuditDecline: only approvals are audited.
DeclineUnaudited(r) ==
    /\ Goto(r, "declined", "ok")
    /\ UNCHANGED <<rowVars, ask, claim, result, historyVars>>

AuditDecline(r) ==
    /\ Goto(r, "declined", "ok")
    /\ Record(r, "declined")
    /\ UNCHANGED <<rowVars, ask, claim, result, unanswered, acted, notified>>

\* Mutant of ClaimForApproval: the update without its condition.
ClaimUnconditionally(r) ==
    /\ ask[r].kind = "approve"
    /\ Goto(r, "loaded", "claimed")
    /\ approval' = [approval EXCEPT ![Book(r)] = "approved"]
    /\ execution' = [execution EXCEPT ![Book(r)] = "in_progress"]
    /\ approvedBy' = [approvedBy EXCEPT ![Book(r)] = r]
    /\ claim' = [claim EXCEPT ![r] = issue[Book(r)]]
    /\ UNCHANGED <<issue, ask, result, historyVars>>

\* _claim_for_approval: the conditional update from pending.
ClaimForApproval(r) ==
    /\ ask[r].kind = "approve"
    /\ approval[Book(r)] = "pending"
    /\ Goto(r, "loaded", "claimed")
    /\ approval' = [approval EXCEPT ![Book(r)] = "approved"]
    /\ execution' = [execution EXCEPT ![Book(r)] = "in_progress"]
    /\ approvedBy' = [approvedBy EXCEPT ![Book(r)] = r]
    /\ claim' = [claim EXCEPT ![r] = issue[Book(r)]]
    /\ UNCHANGED <<issue, ask, result, historyVars>>

ClaimUnanswered(r) ==
    /\ ask[r].kind = "approve"
    /\ approval[Book(r)] = "pending"
    /\ Unheard(r)
    /\ approval' = [approval EXCEPT ![Book(r)] = "approved"]
    /\ execution' = [execution EXCEPT ![Book(r)] = "in_progress"]
    /\ approvedBy' = [approvedBy EXCEPT ![Book(r)] = r]

\* Mutant of AuditAttempt: only the outcome is audited.
AttemptUnaudited(r) ==
    /\ Goto(r, "claimed", "attempted")
    /\ UNCHANGED <<rowVars, ask, claim, result, historyVars>>

AuditAttempt(r) ==
    /\ Goto(r, "claimed", "attempted")
    /\ Record(r, "attempted")
    /\ UNCHANGED <<rowVars, ask, claim, result, unanswered, acted, notified>>

\* _call_remediation_platform: skipped when no endpoint is configured; a call
\* reported failed may still have been carried out (timeout, oversize answer).
CallPlatform(r) ==
    /\ Goto(r, "attempted", "called")
    /\ \E outcome \in Outcomes :
          /\ result' = [result EXCEPT ![r] = outcome]
          /\ \/ outcome # "skipped" /\ acted' = acted \cup {r}
             \/ outcome # "succeeded" /\ acted' = acted
    /\ UNCHANGED <<rowVars, ask, claim, unanswered, audit, notified>>

\* Mutants of WriteOutcome: success in any case, and success only.
WriteSuccessAnyway(r) ==
    /\ Goto(r, "called", "settled")
    /\ execution' = [execution EXCEPT ![Book(r)] = "succeeded"]
    /\ UNCHANGED <<approval, approvedBy, issue, ask, claim, result, historyVars>>

WriteSuccessOnly(r) ==
    /\ Goto(r, "called", "settled")
    /\ execution' = [execution EXCEPT ![Book(r)] =
                        IF result[r] = "succeeded" THEN "succeeded" ELSE @]
    /\ UNCHANGED <<approval, approvedBy, issue, ask, claim, result, historyVars>>

\* The outcome is written whatever the row holds by now.
WriteOutcome(r) ==
    /\ Goto(r, "called", "settled")
    /\ execution' = [execution EXCEPT ![Book(r)] = result[r]]
    /\ UNCHANGED <<approval, approvedBy, issue, ask, claim, result, historyVars>>

AuditOutcome(r) ==
    /\ Goto(r, "settled", "notifying")
    /\ Record(r, result[r])
    /\ UNCHANGED <<rowVars, ask, claim, result, unanswered, acted, notified>>

NotifyIms(r) ==
    /\ Goto(r, "notifying", "ok")
    /\ notified' = notified \cup {r}
    /\ UNCHANGED <<rowVars, ask, claim, result, unanswered, acted, audit>>

\* The invocation is killed, times out, or a call raises: it answers 500 or
\* nothing, and no code of it runs again.
Die(r) ==
    /\ pc[r] \in Running
    /\ pc' = [pc EXCEPT ![r] = "dead"]
    /\ UNCHANGED <<rowVars, ask, claim, result, historyVars>>

Step(r) ==
    \/ RefuseTenantless(r) \/ RefuseNotAdmin(r) \/ Authorise(r)
    \/ LoadRunbook(r) \/ Conflict(r)
    \/ DeclineRunbook(r) \/ DeclineUnanswered(r) \/ AuditDecline(r)
    \/ ClaimForApproval(r) \/ ClaimUnanswered(r) \/ AuditAttempt(r) \/ CallPlatform(r)
    \/ WriteOutcome(r) \/ AuditOutcome(r) \/ NotifyIms(r)

Next ==
    \/ \E b \in Runbooks : Issue(b)
    \/ \E r \in Requests : Step(r) \/ Die(r)

Spec == Init /\ [][Next]_vars

\* Lambda runs a started invocation until it answers or dies.
FairSpec == Spec /\ \A r \in Requests : WF_vars(Step(r))

=============================================================================
