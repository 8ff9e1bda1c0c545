-------------------------- MODULE RemediationProofs --------------------------
(***************************************************************************)
(* Proofs about Remediation, for any sets of requests and runbooks and any *)
(* number of issues.                                                       *)
(***************************************************************************)
EXTENDS RemediationProps, TLAPS

-----------------------------------------------------------------------------
(* The inductive invariant.                                                *)

Deciding == {"claimed", "attempted", "called", "settled", "notifying"}
Undecided == {"received", "forbidden", "authorised", "loaded", "not_found",
              "conflict"}

\* Only a Tenant Admin's invocation gets past authorisation.
AdminsOnly ==
    \A r \in Requests :
        pc[r] \notin {"received", "forbidden"} => ask[r].caller = TENANT_ADMIN

\* An invocation holds a claim from its conditional write on, never before.
ClaimsFollowThePc ==
    \A r \in Requests :
        /\ pc[r] \in Undecided => claim[r] = 0
        /\ pc[r] \in Deciding => ask[r].kind = "approve" /\ claim[r] > 0
        /\ pc[r] \in {"called", "settled"} => result[r] \in Outcomes
        /\ result[r] = "succeeded" => r \in acted
        /\ r \in acted => ask[r].kind = "approve" /\ claim[r] > 0
        /\ r \in acted => pc[r] \notin Undecided \cup {"claimed", "attempted"}

\* No two invocations hold the same issue of a runbook.
ClaimsAreUnique ==
    \A r, s \in Requests :
        Book(r) = Book(s) /\ claim[r] = claim[s] /\ claim[r] > 0 => r = s

\* The row shows the decision of whoever holds its current issue.
RowShowsTheClaim ==
    \A r \in Requests :
        /\ claim[r] <= issue[Book(r)]
        /\ claim[r] > 0 /\ claim[r] = issue[Book(r)] =>
              IF ask[r].kind = "approve"
                THEN approval[Book(r)] = "approved" /\ approvedBy[Book(r)] = r
                ELSE approval[Book(r)] = "declined"

\* A decided row was decided by somebody.
DecisionsHaveAnAuthor ==
    \A b \in Runbooks :
        /\ approval[b] = "absent" <=> issue[b] = 0
        /\ approval[b] = "absent" => execution[b] = "none"
        /\ approval[b] = "approved" =>
              /\ approvedBy[b] \in Requests
              /\ Book(approvedBy[b]) = b
              /\ Decided(approvedBy[b], issue[b])
        /\ approval[b] = "declined" =>
              \E s \in Requests : Book(s) = b /\ Decided(s, issue[b])

LoadedRowsExist ==
    \A r \in Requests : pc[r] = "loaded" => approval[Book(r)] # "absent"

AttemptsAreRecorded ==
    \A r \in Requests :
        pc[r] \in Deciding \ {"claimed"} \/ r \in acted =>
            [request |-> r, result |-> "attempted"] \in audit

IInv ==
    /\ TypeOK
    /\ AdminsOnly
    /\ ClaimsFollowThePc
    /\ ClaimsAreUnique
    /\ RowShowsTheClaim
    /\ DecisionsHaveAnAuthor
    /\ LoadedRowsExist
    /\ AttemptsAreRecorded
    /\ OutcomeIsEarned
    /\ ConflictHasAWinner

-----------------------------------------------------------------------------
\* Only the Tenant Admin role may approve remediation (rbac.py:45).
LEMMA OnlyAdminsApprove ==
    \A g : Can(g, CAPABILITY) <=> g = TENANT_ADMIN
BY DEF Can, CAPABILITY, CAPABILITIES, Capability, READ_CAPABILITIES,
       REVIEW_CAPABILITIES, ADMIN_CAPABILITIES

\* Types are preserved; AuditOutcome needs to know that a settled invocation
\* holds an outcome, and a decision that a pending row is issued.
LEMMA TypeStep ==
  ASSUME TypeOK, ClaimsFollowThePc, DecisionsHaveAnAuthor, [Next]_vars
  PROVE  TypeOK'
<1> USE MaxIssuesIsNat DEF TypeOK, Ask, Outcomes, ApprovalStatus,
        ExecutionStatus, AuditResults, Running, Answered, Goto, Record,
        rowVars, historyVars
<1>0. \A q \in Requests : Book(q) \in Runbooks /\ claim[q] \in 0..MaxIssues
  BY DEF Book
<1>1. ASSUME NEW b \in Runbooks, Issue(b) PROVE TypeOK'
  BY <1>1 DEF Issue
<1>2. ASSUME NEW r \in Requests, RefuseTenantless(r) PROVE TypeOK'
  BY <1>2 DEF RefuseTenantless
<1>3. ASSUME NEW r \in Requests, RefuseNotAdmin(r) PROVE TypeOK'
  BY <1>3 DEF RefuseNotAdmin
<1>4. ASSUME NEW r \in Requests, Authorise(r) PROVE TypeOK'
  BY <1>4 DEF Authorise
<1>5. ASSUME NEW r \in Requests, LoadRunbook(r) PROVE TypeOK'
  BY <1>5 DEF LoadRunbook
<1>6. ASSUME NEW r \in Requests, Conflict(r) PROVE TypeOK'
  BY <1>6 DEF Conflict
<1>7. ASSUME NEW r \in Requests, DeclineRunbook(r) PROVE TypeOK'
  BY <1>0, <1>7 DEF DeclineRunbook
<1>8. ASSUME NEW r \in Requests, AuditDecline(r) PROVE TypeOK'
  BY <1>8 DEF AuditDecline
<1>9. ASSUME NEW r \in Requests, ClaimForApproval(r) PROVE TypeOK'
  BY <1>0, <1>9 DEF ClaimForApproval
<1>10. ASSUME NEW r \in Requests, AuditAttempt(r) PROVE TypeOK'
  BY <1>10 DEF AuditAttempt
<1>11. ASSUME NEW r \in Requests, CallPlatform(r) PROVE TypeOK'
  BY <1>11 DEF CallPlatform
<1>12. ASSUME NEW r \in Requests, WriteOutcome(r) PROVE TypeOK'
  BY <1>0, <1>12 DEF WriteOutcome
<1>13. ASSUME NEW r \in Requests, AuditOutcome(r) PROVE TypeOK'
  BY <1>13 DEF AuditOutcome, ClaimsFollowThePc
<1>14. ASSUME NEW r \in Requests, NotifyIms(r) PROVE TypeOK'
  BY <1>14 DEF NotifyIms
<1>15. ASSUME NEW r \in Requests, Die(r) PROVE TypeOK'
  BY <1>15 DEF Die
<1>16. ASSUME NEW r \in Requests, DeclineUnanswered(r) PROVE TypeOK'
  <2>1. issue[Book(r)] \in 1..MaxIssues
    BY <1>0, <1>16 DEF DeclineUnanswered, DecisionsHaveAnAuthor
  <2> QED
    BY <1>0, <1>16, <2>1 DEF DeclineUnanswered, Unheard
<1>17. ASSUME NEW r \in Requests, ClaimUnanswered(r) PROVE TypeOK'
  <2>1. issue[Book(r)] \in 1..MaxIssues
    BY <1>0, <1>17 DEF ClaimUnanswered, DecisionsHaveAnAuthor
  <2> QED
    BY <1>0, <1>17, <2>1 DEF ClaimUnanswered, Unheard
<1>18. CASE UNCHANGED vars
  BY <1>18 DEF vars
<1> QED
  BY <1>1, <1>2, <1>3, <1>4, <1>5, <1>6, <1>7, <1>8, <1>9, <1>10, <1>11, <1>12, <1>13, <1>14,
     <1>15, <1>16, <1>17, <1>18 DEF Next, Step

\* The strengthened invariant is preserved by every step.
LEMMA Inductive ==
  ASSUME IInv, [Next]_vars
  PROVE  IInv'
<1> USE MaxIssuesIsNat, NobodyIsNoRequest DEF IInv, Goto, Record, rowVars, historyVars, Deciding,
        Undecided, Running, Answered, Outcomes
<1>0. TypeOK'
  BY TypeStep
<1>t. /\ \A q \in Requests : Book(q) \in Runbooks /\ claim[q] \in Nat
      /\ \A c \in Runbooks : issue[c] \in Nat
      /\ pc \in [Requests -> {"received"} \cup Running \cup Answered]
      /\ acted \subseteq Requests
  BY DEF TypeOK, Ask, Book
<1>1. ASSUME NEW b \in Runbooks, Issue(b) PROVE IInv'
  <2>0. /\ ask' = ask /\ \A q \in Requests : Book(q)' = Book(q)
        /\ \A q, i : Decided(q, i)' <=> Decided(q, i)
        /\ \A q : HasDecided(q)' <=> HasDecided(q)
    BY <1>1 DEF Issue, Book, Decided, HasDecided
  <2>1. AdminsOnly'
    BY <1>0, <1>t, <1>1, <2>0 DEF Issue, AdminsOnly, TypeOK
  <2>2. ClaimsFollowThePc'
    BY <1>0, <1>t, <1>1, <2>0 DEF Issue, ClaimsFollowThePc, TypeOK
  <2>3. ClaimsAreUnique'
    BY <1>0, <1>t, <1>1, <2>0 DEF Issue, ClaimsAreUnique, TypeOK
  <2>4. RowShowsTheClaim'
    BY <1>0, <1>t, <1>1, <2>0 DEF Issue, RowShowsTheClaim, TypeOK
  <2>5. DecisionsHaveAnAuthor'
    BY <1>0, <1>t, <1>1, <2>0 DEF Issue, DecisionsHaveAnAuthor, TypeOK
  <2>6. LoadedRowsExist'
    BY <1>0, <1>t, <1>1, <2>0 DEF Issue, LoadedRowsExist, TypeOK
  <2>7. AttemptsAreRecorded'
    BY <1>0, <1>t, <1>1, <2>0 DEF Issue, AttemptsAreRecorded, TypeOK
  <2>8. OutcomeIsEarned'
    BY <1>0, <1>t, <1>1, <2>0 DEF Issue, OutcomeIsEarned, TypeOK
  <2>9. ConflictHasAWinner'
    BY <1>0, <1>t, <1>1, <2>0 DEF Issue, ConflictHasAWinner, TypeOK
  <2> QED
    BY <1>0, <2>1, <2>2, <2>3, <2>4, <2>5, <2>6, <2>7, <2>8, <2>9
<1>2. ASSUME NEW r \in Requests, RefuseTenantless(r) PROVE IInv'
  <2>0. /\ ask' = ask /\ \A q \in Requests : Book(q)' = Book(q)
        /\ \A q, i : Decided(q, i)' <=> Decided(q, i)
        /\ \A q : HasDecided(q)' <=> HasDecided(q)
    BY <1>2 DEF RefuseTenantless, Book, Decided, HasDecided
  <2>1. AdminsOnly'
    BY <1>0, <1>t, <1>2, <2>0 DEF RefuseTenantless, AdminsOnly, TypeOK
  <2>2. ClaimsFollowThePc'
    BY <1>0, <1>t, <1>2, <2>0 DEF RefuseTenantless, ClaimsFollowThePc, TypeOK
  <2>3. ClaimsAreUnique'
    BY <1>0, <1>t, <1>2, <2>0 DEF RefuseTenantless, ClaimsAreUnique, TypeOK
  <2>4. RowShowsTheClaim'
    BY <1>0, <1>t, <1>2, <2>0 DEF RefuseTenantless, RowShowsTheClaim, TypeOK
  <2>5. DecisionsHaveAnAuthor'
    BY <1>0, <1>t, <1>2, <2>0 DEF RefuseTenantless, DecisionsHaveAnAuthor, TypeOK
  <2>6. LoadedRowsExist'
    BY <1>0, <1>t, <1>2, <2>0 DEF RefuseTenantless, LoadedRowsExist, TypeOK
  <2>7. AttemptsAreRecorded'
    BY <1>0, <1>t, <1>2, <2>0 DEF RefuseTenantless, AttemptsAreRecorded, TypeOK
  <2>8. OutcomeIsEarned'
    BY <1>0, <1>t, <1>2, <2>0 DEF RefuseTenantless, OutcomeIsEarned, TypeOK
  <2>9. ConflictHasAWinner'
    BY <1>0, <1>t, <1>2, <2>0 DEF RefuseTenantless, ConflictHasAWinner, TypeOK
  <2> QED
    BY <1>0, <2>1, <2>2, <2>3, <2>4, <2>5, <2>6, <2>7, <2>8, <2>9
<1>3. ASSUME NEW r \in Requests, RefuseNotAdmin(r) PROVE IInv'
  <2>0. /\ ask' = ask /\ \A q \in Requests : Book(q)' = Book(q)
        /\ \A q, i : Decided(q, i)' <=> Decided(q, i)
        /\ \A q : HasDecided(q)' <=> HasDecided(q)
    BY <1>3 DEF RefuseNotAdmin, Book, Decided, HasDecided
  <2>1. AdminsOnly'
    BY <1>0, <1>t, <1>3, <2>0 DEF RefuseNotAdmin, AdminsOnly, TypeOK
  <2>2. ClaimsFollowThePc'
    BY <1>0, <1>t, <1>3, <2>0 DEF RefuseNotAdmin, ClaimsFollowThePc, TypeOK
  <2>3. ClaimsAreUnique'
    BY <1>0, <1>t, <1>3, <2>0 DEF RefuseNotAdmin, ClaimsAreUnique, TypeOK
  <2>4. RowShowsTheClaim'
    BY <1>0, <1>t, <1>3, <2>0 DEF RefuseNotAdmin, RowShowsTheClaim, TypeOK
  <2>5. DecisionsHaveAnAuthor'
    BY <1>0, <1>t, <1>3, <2>0 DEF RefuseNotAdmin, DecisionsHaveAnAuthor, TypeOK
  <2>6. LoadedRowsExist'
    BY <1>0, <1>t, <1>3, <2>0 DEF RefuseNotAdmin, LoadedRowsExist, TypeOK
  <2>7. AttemptsAreRecorded'
    BY <1>0, <1>t, <1>3, <2>0 DEF RefuseNotAdmin, AttemptsAreRecorded, TypeOK
  <2>8. OutcomeIsEarned'
    BY <1>0, <1>t, <1>3, <2>0 DEF RefuseNotAdmin, OutcomeIsEarned, TypeOK
  <2>9. ConflictHasAWinner'
    BY <1>0, <1>t, <1>3, <2>0 DEF RefuseNotAdmin, ConflictHasAWinner, TypeOK
  <2> QED
    BY <1>0, <2>1, <2>2, <2>3, <2>4, <2>5, <2>6, <2>7, <2>8, <2>9
<1>4. ASSUME NEW r \in Requests, Authorise(r) PROVE IInv'
  <2>0. /\ ask' = ask /\ \A q \in Requests : Book(q)' = Book(q)
        /\ \A q, i : Decided(q, i)' <=> Decided(q, i)
        /\ \A q : HasDecided(q)' <=> HasDecided(q)
    BY <1>4 DEF Authorise, Book, Decided, HasDecided
  <2>1. AdminsOnly'
    BY OnlyAdminsApprove, <1>0, <1>t, <1>4, <2>0 DEF Authorise, AdminsOnly
  <2>2. ClaimsFollowThePc'
    BY <1>0, <1>t, <1>4, <2>0 DEF Authorise, ClaimsFollowThePc, TypeOK
  <2>3. ClaimsAreUnique'
    BY <1>0, <1>t, <1>4, <2>0 DEF Authorise, ClaimsAreUnique, TypeOK
  <2>4. RowShowsTheClaim'
    BY <1>0, <1>t, <1>4, <2>0 DEF Authorise, RowShowsTheClaim, TypeOK
  <2>5. DecisionsHaveAnAuthor'
    BY <1>0, <1>t, <1>4, <2>0 DEF Authorise, DecisionsHaveAnAuthor, TypeOK
  <2>6. LoadedRowsExist'
    BY <1>0, <1>t, <1>4, <2>0 DEF Authorise, LoadedRowsExist, TypeOK
  <2>7. AttemptsAreRecorded'
    BY <1>0, <1>t, <1>4, <2>0 DEF Authorise, AttemptsAreRecorded, TypeOK
  <2>8. OutcomeIsEarned'
    BY <1>0, <1>t, <1>4, <2>0 DEF Authorise, OutcomeIsEarned, TypeOK
  <2>9. ConflictHasAWinner'
    BY <1>0, <1>t, <1>4, <2>0 DEF Authorise, ConflictHasAWinner, TypeOK
  <2> QED
    BY <1>0, <2>1, <2>2, <2>3, <2>4, <2>5, <2>6, <2>7, <2>8, <2>9
<1>5. ASSUME NEW r \in Requests, LoadRunbook(r) PROVE IInv'
  <2>0. /\ ask' = ask /\ \A q \in Requests : Book(q)' = Book(q)
        /\ \A q, i : Decided(q, i)' <=> Decided(q, i)
        /\ \A q : HasDecided(q)' <=> HasDecided(q)
    BY <1>5 DEF LoadRunbook, Book, Decided, HasDecided
  <2>1. AdminsOnly'
    BY <1>0, <1>t, <1>5, <2>0 DEF LoadRunbook, AdminsOnly, TypeOK
  <2>2. ClaimsFollowThePc'
    BY <1>0, <1>t, <1>5, <2>0 DEF LoadRunbook, ClaimsFollowThePc, TypeOK
  <2>3. ClaimsAreUnique'
    BY <1>0, <1>t, <1>5, <2>0 DEF LoadRunbook, ClaimsAreUnique, TypeOK
  <2>4. RowShowsTheClaim'
    BY <1>0, <1>t, <1>5, <2>0 DEF LoadRunbook, RowShowsTheClaim, TypeOK
  <2>5. DecisionsHaveAnAuthor'
    BY <1>0, <1>t, <1>5, <2>0 DEF LoadRunbook, DecisionsHaveAnAuthor, TypeOK
  <2>6. LoadedRowsExist'
    BY <1>0, <1>t, <1>5, <2>0 DEF LoadRunbook, LoadedRowsExist, TypeOK
  <2>7. AttemptsAreRecorded'
    BY <1>0, <1>t, <1>5, <2>0 DEF LoadRunbook, AttemptsAreRecorded, TypeOK
  <2>8. OutcomeIsEarned'
    <3>1. /\ pc[r] = "authorised"
          /\ \A q \in Requests \ {r} : pc'[q] = pc[q]
          /\ UNCHANGED <<approval, execution, approvedBy, issue, unanswered, acted>>
      BY <1>t, <1>5 DEF LoadRunbook
    <3>2. ASSUME NEW b \in Runbooks, execution[b] = "in_progress"
          PROVE  \/ pc'[approvedBy[b]] = pc[approvedBy[b]]
                 \/ [request |-> approvedBy[b], issue |-> issue[b]] \in unanswered
      BY <3>1, <3>2 DEF OutcomeIsEarned, DecisionsHaveAnAuthor
    <3> QED
      BY <1>t, <3>1, <3>2, <2>0 DEF OutcomeIsEarned
  <2>9. ConflictHasAWinner'
    BY <1>0, <1>t, <1>5, <2>0 DEF LoadRunbook, ConflictHasAWinner, TypeOK
  <2> QED
    BY <1>0, <2>1, <2>2, <2>3, <2>4, <2>5, <2>6, <2>7, <2>8, <2>9
<1>6. ASSUME NEW r \in Requests, Conflict(r) PROVE IInv'
  <2>0. /\ ask' = ask /\ \A q \in Requests : Book(q)' = Book(q)
        /\ \A q, i : Decided(q, i)' <=> Decided(q, i)
        /\ \A q : HasDecided(q)' <=> HasDecided(q)
    BY <1>6 DEF Conflict, Book, Decided, HasDecided
  <2>1. AdminsOnly'
    BY <1>0, <1>t, <1>6, <2>0 DEF Conflict, AdminsOnly, TypeOK
  <2>2. ClaimsFollowThePc'
    BY <1>0, <1>t, <1>6, <2>0 DEF Conflict, ClaimsFollowThePc, TypeOK
  <2>3. ClaimsAreUnique'
    BY <1>0, <1>t, <1>6, <2>0 DEF Conflict, ClaimsAreUnique, TypeOK
  <2>4. RowShowsTheClaim'
    BY <1>0, <1>t, <1>6, <2>0 DEF Conflict, RowShowsTheClaim, TypeOK
  <2>5. DecisionsHaveAnAuthor'
    BY <1>0, <1>t, <1>6, <2>0 DEF Conflict, DecisionsHaveAnAuthor, TypeOK
  <2>6. LoadedRowsExist'
    BY <1>0, <1>t, <1>6, <2>0 DEF Conflict, LoadedRowsExist, TypeOK
  <2>7. AttemptsAreRecorded'
    BY <1>0, <1>t, <1>6, <2>0 DEF Conflict, AttemptsAreRecorded, TypeOK
  <2>8. OutcomeIsEarned'
    BY <1>0, <1>t, <1>6, <2>0 DEF Conflict, OutcomeIsEarned, TypeOK
  <2>9. ConflictHasAWinner'
    <3>1. PICK s \in Requests : Book(s) = Book(r) /\ Decided(s, issue[Book(r)])
      BY <1>t, <1>6 DEF Conflict, LoadedRowsExist, DecisionsHaveAnAuthor,
         TypeOK, ApprovalStatus
    <3>2. issue[Book(r)] \in 1..MaxIssues
      BY <1>t, <1>6 DEF Conflict, LoadedRowsExist, DecisionsHaveAnAuthor, TypeOK
    <3>3. HasDecided(s)
      BY <3>1, <3>2 DEF HasDecided
    <3>4. s = r => \E u \in unanswered : u.request = r
      BY <3>1, <3>2, <1>6 DEF Conflict, ClaimsFollowThePc, Decided
    <3>5. /\ \A q \in Requests \ {r} : pc'[q] = pc[q]
          /\ unanswered' = unanswered
      BY <1>t, <1>6 DEF Conflict
    <3> QED
      BY <2>0, <3>1, <3>3, <3>4, <3>5 DEF ConflictHasAWinner
  <2> QED
    BY <1>0, <2>1, <2>2, <2>3, <2>4, <2>5, <2>6, <2>7, <2>8, <2>9
<1>7. ASSUME NEW r \in Requests, DeclineRunbook(r) PROVE IInv'
  <2>0. ask' = ask /\ \A q \in Requests : Book(q)' = Book(q)
    BY <1>7 DEF DeclineRunbook, Book
  <2>d. /\ issue[Book(r)] \in 1..MaxIssues
        /\ issue' = issue
        /\ Decided(r, issue[Book(r)])'
        /\ \A q \in Requests, i \in 1..MaxIssues : Decided(q, i) => Decided(q, i)'
        /\ \A q \in Requests : HasDecided(q) => HasDecided(q)'
    <3>1. /\ issue[Book(r)] \in 1..MaxIssues
          /\ issue' = issue
          /\ claim[r] = 0
      BY <1>t, <1>7 DEF DeclineRunbook, DecisionsHaveAnAuthor, ClaimsFollowThePc, TypeOK
    <3>2. /\ Decided(r, issue[Book(r)])'
          /\ \A q \in Requests, i \in 1..MaxIssues : Decided(q, i) => Decided(q, i)'
      BY <1>t, <1>7, <2>0, <3>1 DEF DeclineRunbook, Decided, TypeOK
    <3> QED
      BY <3>1, <3>2 DEF HasDecided
  <2>1. AdminsOnly'
    BY <1>0, <1>t, <1>7, <2>0 DEF DeclineRunbook, AdminsOnly, TypeOK
  <2>2. ClaimsFollowThePc'
    BY <1>0, <1>t, <1>7, <2>0 DEF DeclineRunbook, ClaimsFollowThePc, TypeOK
  <2>3. ClaimsAreUnique'
    <3>1. \A q \in Requests : Book(q) = Book(r) => claim[q] # issue[Book(r)]
      BY <1>t, <1>7 DEF DeclineRunbook, RowShowsTheClaim, DecisionsHaveAnAuthor
    <3>2. claim' = [claim EXCEPT ![r] = issue[Book(r)]]
      BY <1>7 DEF DeclineRunbook
    <3> QED
      BY <1>t, <2>0, <3>1, <3>2 DEF ClaimsAreUnique, TypeOK
  <2>4. RowShowsTheClaim'
    BY <1>0, <1>t, <1>7, <2>0 DEF DeclineRunbook, RowShowsTheClaim, TypeOK
  <2>5. DecisionsHaveAnAuthor'
    BY <1>0, <1>t, <1>7, <2>0, <2>d DEF DeclineRunbook, DecisionsHaveAnAuthor, TypeOK
  <2>6. LoadedRowsExist'
    BY <1>0, <1>t, <1>7, <2>0 DEF DeclineRunbook, LoadedRowsExist, TypeOK
  <2>7. AttemptsAreRecorded'
    BY <1>0, <1>t, <1>7, <2>0 DEF DeclineRunbook, AttemptsAreRecorded, TypeOK
  <2>8. OutcomeIsEarned'
    BY <1>0, <1>t, <1>7, <2>0 DEF DeclineRunbook, OutcomeIsEarned, TypeOK
  <2>9. ConflictHasAWinner'
    <3>1. \A q \in Requests : pc'[q] = "conflict" => pc[q] = "conflict"
      BY <1>t, <1>7 DEF DeclineRunbook
    <3>2. unanswered \subseteq unanswered'
      BY <1>7 DEF DeclineRunbook
    <3> QED
      BY <2>0, <2>d, <3>1, <3>2 DEF ConflictHasAWinner
  <2> QED
    BY <1>0, <2>1, <2>2, <2>3, <2>4, <2>5, <2>6, <2>7, <2>8, <2>9
<1>8. ASSUME NEW r \in Requests, AuditDecline(r) PROVE IInv'
  <2>0. /\ ask' = ask /\ \A q \in Requests : Book(q)' = Book(q)
        /\ \A q, i : Decided(q, i)' <=> Decided(q, i)
        /\ \A q : HasDecided(q)' <=> HasDecided(q)
    BY <1>8 DEF AuditDecline, Book, Decided, HasDecided
  <2>1. AdminsOnly'
    BY <1>0, <1>t, <1>8, <2>0 DEF AuditDecline, AdminsOnly, TypeOK
  <2>2. ClaimsFollowThePc'
    BY <1>0, <1>t, <1>8, <2>0 DEF AuditDecline, ClaimsFollowThePc, TypeOK
  <2>3. ClaimsAreUnique'
    BY <1>0, <1>t, <1>8, <2>0 DEF AuditDecline, ClaimsAreUnique, TypeOK
  <2>4. RowShowsTheClaim'
    BY <1>0, <1>t, <1>8, <2>0 DEF AuditDecline, RowShowsTheClaim, TypeOK
  <2>5. DecisionsHaveAnAuthor'
    BY <1>0, <1>t, <1>8, <2>0 DEF AuditDecline, DecisionsHaveAnAuthor, TypeOK
  <2>6. LoadedRowsExist'
    BY <1>0, <1>t, <1>8, <2>0 DEF AuditDecline, LoadedRowsExist, TypeOK
  <2>7. AttemptsAreRecorded'
    BY <1>0, <1>t, <1>8, <2>0 DEF AuditDecline, AttemptsAreRecorded, TypeOK
  <2>8. OutcomeIsEarned'
    BY <1>0, <1>t, <1>8, <2>0 DEF AuditDecline, OutcomeIsEarned, TypeOK
  <2>9. ConflictHasAWinner'
    BY <1>0, <1>t, <1>8, <2>0 DEF AuditDecline, ConflictHasAWinner, TypeOK
  <2> QED
    BY <1>0, <2>1, <2>2, <2>3, <2>4, <2>5, <2>6, <2>7, <2>8, <2>9
<1>9. ASSUME NEW r \in Requests, ClaimForApproval(r) PROVE IInv'
  <2>0. ask' = ask /\ \A q \in Requests : Book(q)' = Book(q)
    BY <1>9 DEF ClaimForApproval, Book
  <2>d. /\ issue[Book(r)] \in 1..MaxIssues
        /\ issue' = issue
        /\ Decided(r, issue[Book(r)])'
        /\ \A q \in Requests, i \in 1..MaxIssues : Decided(q, i) => Decided(q, i)'
        /\ \A q \in Requests : HasDecided(q) => HasDecided(q)'
    <3>1. /\ issue[Book(r)] \in 1..MaxIssues
          /\ issue' = issue
          /\ claim[r] = 0
      BY <1>t, <1>9 DEF ClaimForApproval, DecisionsHaveAnAuthor, ClaimsFollowThePc, TypeOK
    <3>2. /\ Decided(r, issue[Book(r)])'
          /\ \A q \in Requests, i \in 1..MaxIssues : Decided(q, i) => Decided(q, i)'
      BY <1>t, <1>9, <2>0, <3>1 DEF ClaimForApproval, Decided, TypeOK
    <3> QED
      BY <3>1, <3>2 DEF HasDecided
  <2>1. AdminsOnly'
    BY <1>0, <1>t, <1>9, <2>0 DEF ClaimForApproval, AdminsOnly, TypeOK
  <2>2. ClaimsFollowThePc'
    <3>1. issue[Book(r)] > 0
      BY <1>t, <1>9 DEF ClaimForApproval, DecisionsHaveAnAuthor
    <3>2. claim' = [claim EXCEPT ![r] = issue[Book(r)]]
      BY <1>9 DEF ClaimForApproval
    <3> QED
      BY <1>t, <2>0, <3>1, <3>2, <1>9
      DEF ClaimForApproval, ClaimsFollowThePc, TypeOK
  <2>3. ClaimsAreUnique'
    <3>1. \A q \in Requests : Book(q) = Book(r) => claim[q] # issue[Book(r)]
      BY <1>t, <1>9 DEF ClaimForApproval, RowShowsTheClaim, DecisionsHaveAnAuthor
    <3>2. claim' = [claim EXCEPT ![r] = issue[Book(r)]]
      BY <1>9 DEF ClaimForApproval
    <3> QED
      BY <1>t, <2>0, <3>1, <3>2 DEF ClaimsAreUnique, TypeOK
  <2>4. RowShowsTheClaim'
    BY <1>0, <1>t, <1>9, <2>0 DEF ClaimForApproval, RowShowsTheClaim, TypeOK
  <2>5. DecisionsHaveAnAuthor'
    BY <1>0, <1>t, <1>9, <2>0, <2>d DEF ClaimForApproval, DecisionsHaveAnAuthor, TypeOK
  <2>6. LoadedRowsExist'
    BY <1>0, <1>t, <1>9, <2>0 DEF ClaimForApproval, LoadedRowsExist, TypeOK
  <2>7. AttemptsAreRecorded'
    BY <1>0, <1>t, <1>9, <2>0 DEF ClaimForApproval, AttemptsAreRecorded, TypeOK
  <2>8. OutcomeIsEarned'
    BY <1>0, <1>t, <1>9, <2>0 DEF ClaimForApproval, OutcomeIsEarned, TypeOK
  <2>9. ConflictHasAWinner'
    <3>1. \A q \in Requests : pc'[q] = "conflict" => pc[q] = "conflict"
      BY <1>t, <1>9 DEF ClaimForApproval
    <3>2. unanswered \subseteq unanswered'
      BY <1>9 DEF ClaimForApproval
    <3> QED
      BY <2>0, <2>d, <3>1, <3>2 DEF ConflictHasAWinner
  <2> QED
    BY <1>0, <2>1, <2>2, <2>3, <2>4, <2>5, <2>6, <2>7, <2>8, <2>9
<1>10. ASSUME NEW r \in Requests, AuditAttempt(r) PROVE IInv'
  <2>0. /\ ask' = ask /\ \A q \in Requests : Book(q)' = Book(q)
        /\ \A q, i : Decided(q, i)' <=> Decided(q, i)
        /\ \A q : HasDecided(q)' <=> HasDecided(q)
    BY <1>10 DEF AuditAttempt, Book, Decided, HasDecided
  <2>1. AdminsOnly'
    BY <1>0, <1>t, <1>10, <2>0 DEF AuditAttempt, AdminsOnly, TypeOK
  <2>2. ClaimsFollowThePc'
    BY <1>0, <1>t, <1>10, <2>0 DEF AuditAttempt, ClaimsFollowThePc, TypeOK
  <2>3. ClaimsAreUnique'
    BY <1>0, <1>t, <1>10, <2>0 DEF AuditAttempt, ClaimsAreUnique, TypeOK
  <2>4. RowShowsTheClaim'
    BY <1>0, <1>t, <1>10, <2>0 DEF AuditAttempt, RowShowsTheClaim, TypeOK
  <2>5. DecisionsHaveAnAuthor'
    BY <1>0, <1>t, <1>10, <2>0 DEF AuditAttempt, DecisionsHaveAnAuthor, TypeOK
  <2>6. LoadedRowsExist'
    BY <1>0, <1>t, <1>10, <2>0 DEF AuditAttempt, LoadedRowsExist, TypeOK
  <2>7. AttemptsAreRecorded'
    BY <1>0, <1>t, <1>10, <2>0 DEF AuditAttempt, AttemptsAreRecorded, TypeOK
  <2>8. OutcomeIsEarned'
    BY <1>0, <1>t, <1>10, <2>0 DEF AuditAttempt, OutcomeIsEarned, TypeOK
  <2>9. ConflictHasAWinner'
    BY <1>0, <1>t, <1>10, <2>0 DEF AuditAttempt, ConflictHasAWinner, TypeOK
  <2> QED
    BY <1>0, <2>1, <2>2, <2>3, <2>4, <2>5, <2>6, <2>7, <2>8, <2>9
<1>11. ASSUME NEW r \in Requests, CallPlatform(r) PROVE IInv'
  <2>0. /\ ask' = ask /\ \A q \in Requests : Book(q)' = Book(q)
        /\ \A q, i : Decided(q, i)' <=> Decided(q, i)
        /\ \A q : HasDecided(q)' <=> HasDecided(q)
    BY <1>11 DEF CallPlatform, Book, Decided, HasDecided
  <2>1. AdminsOnly'
    BY <1>0, <1>t, <1>11, <2>0 DEF CallPlatform, AdminsOnly, TypeOK
  <2>2. ClaimsFollowThePc'
    BY <1>0, <1>t, <1>11, <2>0 DEF CallPlatform, ClaimsFollowThePc, TypeOK
  <2>3. ClaimsAreUnique'
    BY <1>0, <1>t, <1>11, <2>0 DEF CallPlatform, ClaimsAreUnique, TypeOK
  <2>4. RowShowsTheClaim'
    BY <1>0, <1>t, <1>11, <2>0 DEF CallPlatform, RowShowsTheClaim, TypeOK
  <2>5. DecisionsHaveAnAuthor'
    BY <1>0, <1>t, <1>11, <2>0 DEF CallPlatform, DecisionsHaveAnAuthor, TypeOK
  <2>6. LoadedRowsExist'
    BY <1>0, <1>t, <1>11, <2>0 DEF CallPlatform, LoadedRowsExist, TypeOK
  <2>7. AttemptsAreRecorded'
    BY <1>0, <1>t, <1>11, <2>0 DEF CallPlatform, AttemptsAreRecorded, TypeOK
  <2>8. OutcomeIsEarned'
    BY <1>0, <1>t, <1>11, <2>0 DEF CallPlatform, OutcomeIsEarned, TypeOK
  <2>9. ConflictHasAWinner'
    BY <1>0, <1>t, <1>11, <2>0 DEF CallPlatform, ConflictHasAWinner, TypeOK
  <2> QED
    BY <1>0, <2>1, <2>2, <2>3, <2>4, <2>5, <2>6, <2>7, <2>8, <2>9
<1>12. ASSUME NEW r \in Requests, WriteOutcome(r) PROVE IInv'
  <2>0. /\ ask' = ask /\ \A q \in Requests : Book(q)' = Book(q)
        /\ \A q, i : Decided(q, i)' <=> Decided(q, i)
        /\ \A q : HasDecided(q)' <=> HasDecided(q)
    BY <1>12 DEF WriteOutcome, Book, Decided, HasDecided
  <2>1. AdminsOnly'
    BY <1>0, <1>t, <1>12, <2>0 DEF WriteOutcome, AdminsOnly, TypeOK
  <2>2. ClaimsFollowThePc'
    BY <1>0, <1>t, <1>12, <2>0 DEF WriteOutcome, ClaimsFollowThePc, TypeOK
  <2>3. ClaimsAreUnique'
    BY <1>0, <1>t, <1>12, <2>0 DEF WriteOutcome, ClaimsAreUnique, TypeOK
  <2>4. RowShowsTheClaim'
    BY <1>0, <1>t, <1>12, <2>0 DEF WriteOutcome, RowShowsTheClaim, TypeOK
  <2>5. DecisionsHaveAnAuthor'
    <3>1. approval[Book(r)] # "absent"
      BY <1>t, <1>12 DEF WriteOutcome, ClaimsFollowThePc, RowShowsTheClaim,
         DecisionsHaveAnAuthor
    <3> QED
      BY <1>t, <2>0, <3>1, <1>12 DEF WriteOutcome, DecisionsHaveAnAuthor, TypeOK
  <2>6. LoadedRowsExist'
    BY <1>0, <1>t, <1>12, <2>0 DEF WriteOutcome, LoadedRowsExist, TypeOK
  <2>7. AttemptsAreRecorded'
    BY <1>0, <1>t, <1>12, <2>0 DEF WriteOutcome, AttemptsAreRecorded, TypeOK
  <2>8. OutcomeIsEarned'
    <3>1. /\ result[r] \in Outcomes
          /\ result[r] = "succeeded" => r \in acted
      BY <1>12 DEF WriteOutcome, ClaimsFollowThePc
    <3>2. /\ execution' = [execution EXCEPT ![Book(r)] = result[r]]
          /\ pc' = [pc EXCEPT ![r] = "settled"]
          /\ pc[r] = "called"
          /\ UNCHANGED <<approval, approvedBy, claim, issue, unanswered, acted>>
      BY <1>12 DEF WriteOutcome
    <3>3. \A b \in Runbooks \ {Book(r)} :
            execution'[b] = "in_progress" => approvedBy[b] # r
      BY <1>t, <3>2 DEF DecisionsHaveAnAuthor, OutcomeIsEarned, TypeOK
    <3>4. ASSUME NEW b \in Runbooks \ {Book(r)}
          PROVE  /\ execution'[b] = execution[b]
                 /\ execution[b] = "in_progress" =>
                        pc'[approvedBy[b]] = pc[approvedBy[b]]
      BY <1>t, <3>2, <3>3 DEF TypeOK
    <3>5. execution'[Book(r)] = result[r]
      BY <1>t, <3>2 DEF TypeOK
    <3> QED
      BY <1>t, <2>0, <3>1, <3>2, <3>4, <3>5 DEF OutcomeIsEarned
  <2>9. ConflictHasAWinner'
    BY <1>0, <1>t, <1>12, <2>0 DEF WriteOutcome, ConflictHasAWinner, TypeOK
  <2> QED
    BY <1>0, <2>1, <2>2, <2>3, <2>4, <2>5, <2>6, <2>7, <2>8, <2>9
<1>13. ASSUME NEW r \in Requests, AuditOutcome(r) PROVE IInv'
  <2>0. /\ ask' = ask /\ \A q \in Requests : Book(q)' = Book(q)
        /\ \A q, i : Decided(q, i)' <=> Decided(q, i)
        /\ \A q : HasDecided(q)' <=> HasDecided(q)
    BY <1>13 DEF AuditOutcome, Book, Decided, HasDecided
  <2>1. AdminsOnly'
    BY <1>0, <1>t, <1>13, <2>0 DEF AuditOutcome, AdminsOnly, TypeOK
  <2>2. ClaimsFollowThePc'
    BY <1>0, <1>t, <1>13, <2>0 DEF AuditOutcome, ClaimsFollowThePc, TypeOK
  <2>3. ClaimsAreUnique'
    BY <1>0, <1>t, <1>13, <2>0 DEF AuditOutcome, ClaimsAreUnique, TypeOK
  <2>4. RowShowsTheClaim'
    BY <1>0, <1>t, <1>13, <2>0 DEF AuditOutcome, RowShowsTheClaim, TypeOK
  <2>5. DecisionsHaveAnAuthor'
    BY <1>0, <1>t, <1>13, <2>0 DEF AuditOutcome, DecisionsHaveAnAuthor, TypeOK
  <2>6. LoadedRowsExist'
    BY <1>0, <1>t, <1>13, <2>0 DEF AuditOutcome, LoadedRowsExist, TypeOK
  <2>7. AttemptsAreRecorded'
    BY <1>0, <1>t, <1>13, <2>0 DEF AuditOutcome, AttemptsAreRecorded, TypeOK
  <2>8. OutcomeIsEarned'
    BY <1>0, <1>t, <1>13, <2>0 DEF AuditOutcome, OutcomeIsEarned, TypeOK
  <2>9. ConflictHasAWinner'
    BY <1>0, <1>t, <1>13, <2>0 DEF AuditOutcome, ConflictHasAWinner, TypeOK
  <2> QED
    BY <1>0, <2>1, <2>2, <2>3, <2>4, <2>5, <2>6, <2>7, <2>8, <2>9
<1>14. ASSUME NEW r \in Requests, NotifyIms(r) PROVE IInv'
  <2>0. /\ ask' = ask /\ \A q \in Requests : Book(q)' = Book(q)
        /\ \A q, i : Decided(q, i)' <=> Decided(q, i)
        /\ \A q : HasDecided(q)' <=> HasDecided(q)
    BY <1>14 DEF NotifyIms, Book, Decided, HasDecided
  <2>1. AdminsOnly'
    BY <1>0, <1>t, <1>14, <2>0 DEF NotifyIms, AdminsOnly, TypeOK
  <2>2. ClaimsFollowThePc'
    BY <1>0, <1>t, <1>14, <2>0 DEF NotifyIms, ClaimsFollowThePc, TypeOK
  <2>3. ClaimsAreUnique'
    BY <1>0, <1>t, <1>14, <2>0 DEF NotifyIms, ClaimsAreUnique, TypeOK
  <2>4. RowShowsTheClaim'
    BY <1>0, <1>t, <1>14, <2>0 DEF NotifyIms, RowShowsTheClaim, TypeOK
  <2>5. DecisionsHaveAnAuthor'
    BY <1>0, <1>t, <1>14, <2>0 DEF NotifyIms, DecisionsHaveAnAuthor, TypeOK
  <2>6. LoadedRowsExist'
    BY <1>0, <1>t, <1>14, <2>0 DEF NotifyIms, LoadedRowsExist, TypeOK
  <2>7. AttemptsAreRecorded'
    BY <1>0, <1>t, <1>14, <2>0 DEF NotifyIms, AttemptsAreRecorded, TypeOK
  <2>8. OutcomeIsEarned'
    BY <1>0, <1>t, <1>14, <2>0 DEF NotifyIms, OutcomeIsEarned, TypeOK
  <2>9. ConflictHasAWinner'
    BY <1>0, <1>t, <1>14, <2>0 DEF NotifyIms, ConflictHasAWinner, TypeOK
  <2> QED
    BY <1>0, <2>1, <2>2, <2>3, <2>4, <2>5, <2>6, <2>7, <2>8, <2>9
<1>15. ASSUME NEW r \in Requests, Die(r) PROVE IInv'
  <2>0. /\ ask' = ask /\ \A q \in Requests : Book(q)' = Book(q)
        /\ \A q, i : Decided(q, i)' <=> Decided(q, i)
        /\ \A q : HasDecided(q)' <=> HasDecided(q)
    BY <1>15 DEF Die, Book, Decided, HasDecided
  <2>1. AdminsOnly'
    BY <1>0, <1>t, <1>15, <2>0 DEF Die, AdminsOnly, TypeOK
  <2>2. ClaimsFollowThePc'
    BY <1>0, <1>t, <1>15, <2>0 DEF Die, ClaimsFollowThePc, TypeOK
  <2>3. ClaimsAreUnique'
    BY <1>0, <1>t, <1>15, <2>0 DEF Die, ClaimsAreUnique, TypeOK
  <2>4. RowShowsTheClaim'
    BY <1>0, <1>t, <1>15, <2>0 DEF Die, RowShowsTheClaim, TypeOK
  <2>5. DecisionsHaveAnAuthor'
    BY <1>0, <1>t, <1>15, <2>0 DEF Die, DecisionsHaveAnAuthor, TypeOK
  <2>6. LoadedRowsExist'
    BY <1>0, <1>t, <1>15, <2>0 DEF Die, LoadedRowsExist, TypeOK
  <2>7. AttemptsAreRecorded'
    BY <1>0, <1>t, <1>15, <2>0 DEF Die, AttemptsAreRecorded, TypeOK
  <2>8. OutcomeIsEarned'
    BY <1>0, <1>t, <1>15, <2>0 DEF Die, OutcomeIsEarned, TypeOK
  <2>9. ConflictHasAWinner'
    BY <1>0, <1>t, <1>15, <2>0 DEF Die, ConflictHasAWinner, TypeOK
  <2> QED
    BY <1>0, <2>1, <2>2, <2>3, <2>4, <2>5, <2>6, <2>7, <2>8, <2>9
<1>16. ASSUME NEW r \in Requests, DeclineUnanswered(r) PROVE IInv'
  <2>0. ask' = ask /\ \A q \in Requests : Book(q)' = Book(q)
    BY <1>16 DEF DeclineUnanswered, Unheard, Book
  <2>d. /\ issue[Book(r)] \in 1..MaxIssues
        /\ issue' = issue
        /\ Decided(r, issue[Book(r)])'
        /\ \A q \in Requests, i \in 1..MaxIssues : Decided(q, i) => Decided(q, i)'
        /\ \A q \in Requests : HasDecided(q) => HasDecided(q)'
    <3>1. /\ issue[Book(r)] \in 1..MaxIssues
          /\ issue' = issue
          /\ claim[r] = 0
      BY <1>t, <1>16 DEF DeclineUnanswered, Unheard, DecisionsHaveAnAuthor, ClaimsFollowThePc, TypeOK
    <3>2. /\ Decided(r, issue[Book(r)])'
          /\ \A q \in Requests, i \in 1..MaxIssues : Decided(q, i) => Decided(q, i)'
      BY <1>t, <1>16, <2>0, <3>1 DEF DeclineUnanswered, Unheard, Decided, TypeOK
    <3> QED
      BY <3>1, <3>2 DEF HasDecided
  <2>1. AdminsOnly'
    BY <1>0, <1>t, <1>16, <2>0 DEF DeclineUnanswered, Unheard, AdminsOnly, TypeOK
  <2>2. ClaimsFollowThePc'
    BY <1>0, <1>t, <1>16, <2>0 DEF DeclineUnanswered, Unheard, ClaimsFollowThePc, TypeOK
  <2>3. ClaimsAreUnique'
    BY <1>0, <1>t, <1>16, <2>0 DEF DeclineUnanswered, Unheard, ClaimsAreUnique, TypeOK
  <2>4. RowShowsTheClaim'
    BY <1>0, <1>t, <1>16, <2>0 DEF DeclineUnanswered, Unheard, RowShowsTheClaim, TypeOK
  <2>5. DecisionsHaveAnAuthor'
    BY <1>0, <1>t, <1>16, <2>0, <2>d DEF DeclineUnanswered, Unheard, DecisionsHaveAnAuthor, TypeOK
  <2>6. LoadedRowsExist'
    BY <1>0, <1>t, <1>16, <2>0 DEF DeclineUnanswered, Unheard, LoadedRowsExist, TypeOK
  <2>7. AttemptsAreRecorded'
    BY <1>0, <1>t, <1>16, <2>0 DEF DeclineUnanswered, Unheard, AttemptsAreRecorded, TypeOK
  <2>8. OutcomeIsEarned'
    BY <1>0, <1>t, <1>16, <2>0 DEF DeclineUnanswered, Unheard, OutcomeIsEarned, TypeOK
  <2>9. ConflictHasAWinner'
    <3>1. \A q \in Requests : pc'[q] = "conflict" => pc[q] = "conflict"
      BY <1>t, <1>16 DEF DeclineUnanswered, Unheard
    <3>2. unanswered \subseteq unanswered'
      BY <1>16 DEF DeclineUnanswered, Unheard
    <3> QED
      BY <2>0, <2>d, <3>1, <3>2 DEF ConflictHasAWinner
  <2> QED
    BY <1>0, <2>1, <2>2, <2>3, <2>4, <2>5, <2>6, <2>7, <2>8, <2>9
<1>17. ASSUME NEW r \in Requests, ClaimUnanswered(r) PROVE IInv'
  <2>0. ask' = ask /\ \A q \in Requests : Book(q)' = Book(q)
    BY <1>17 DEF ClaimUnanswered, Unheard, Book
  <2>d. /\ issue[Book(r)] \in 1..MaxIssues
        /\ issue' = issue
        /\ Decided(r, issue[Book(r)])'
        /\ \A q \in Requests, i \in 1..MaxIssues : Decided(q, i) => Decided(q, i)'
        /\ \A q \in Requests : HasDecided(q) => HasDecided(q)'
    <3>1. /\ issue[Book(r)] \in 1..MaxIssues
          /\ issue' = issue
          /\ claim[r] = 0
      BY <1>t, <1>17 DEF ClaimUnanswered, Unheard, DecisionsHaveAnAuthor, ClaimsFollowThePc, TypeOK
    <3>2. /\ Decided(r, issue[Book(r)])'
          /\ \A q \in Requests, i \in 1..MaxIssues : Decided(q, i) => Decided(q, i)'
      BY <1>t, <1>17, <2>0, <3>1 DEF ClaimUnanswered, Unheard, Decided, TypeOK
    <3> QED
      BY <3>1, <3>2 DEF HasDecided
  <2>1. AdminsOnly'
    BY <1>0, <1>t, <1>17, <2>0 DEF ClaimUnanswered, Unheard, AdminsOnly, TypeOK
  <2>2. ClaimsFollowThePc'
    BY <1>0, <1>t, <1>17, <2>0 DEF ClaimUnanswered, Unheard, ClaimsFollowThePc, TypeOK
  <2>3. ClaimsAreUnique'
    BY <1>0, <1>t, <1>17, <2>0 DEF ClaimUnanswered, Unheard, ClaimsAreUnique, TypeOK
  <2>4. RowShowsTheClaim'
    BY <1>0, <1>t, <1>17, <2>0 DEF ClaimUnanswered, Unheard, RowShowsTheClaim, TypeOK
  <2>5. DecisionsHaveAnAuthor'
    BY <1>0, <1>t, <1>17, <2>0, <2>d DEF ClaimUnanswered, Unheard, DecisionsHaveAnAuthor, TypeOK
  <2>6. LoadedRowsExist'
    BY <1>0, <1>t, <1>17, <2>0 DEF ClaimUnanswered, Unheard, LoadedRowsExist, TypeOK
  <2>7. AttemptsAreRecorded'
    BY <1>0, <1>t, <1>17, <2>0 DEF ClaimUnanswered, Unheard, AttemptsAreRecorded, TypeOK
  <2>8. OutcomeIsEarned'
    BY <1>0, <1>t, <1>17, <2>0 DEF ClaimUnanswered, Unheard, OutcomeIsEarned, TypeOK
  <2>9. ConflictHasAWinner'
    <3>1. \A q \in Requests : pc'[q] = "conflict" => pc[q] = "conflict"
      BY <1>t, <1>17 DEF ClaimUnanswered, Unheard
    <3>2. unanswered \subseteq unanswered'
      BY <1>17 DEF ClaimUnanswered, Unheard
    <3> QED
      BY <2>0, <2>d, <3>1, <3>2 DEF ConflictHasAWinner
  <2> QED
    BY <1>0, <2>1, <2>2, <2>3, <2>4, <2>5, <2>6, <2>7, <2>8, <2>9
<1>18. CASE UNCHANGED vars
  <2>1. /\ \A q \in Requests : Book(q)' = Book(q)
        /\ \A q, i : Decided(q, i)' <=> Decided(q, i)
        /\ \A q : HasDecided(q)' <=> HasDecided(q)
    BY <1>18 DEF vars, Book, Decided, HasDecided
  <2> QED
    BY <1>0, <1>18, <2>1 DEF vars, TypeOK, AdminsOnly, ClaimsFollowThePc, ClaimsAreUnique,
       RowShowsTheClaim, DecisionsHaveAnAuthor, LoadedRowsExist, AttemptsAreRecorded,
       OutcomeIsEarned, ConflictHasAWinner
<1> QED
  BY <1>1, <1>2, <1>3, <1>4, <1>5, <1>6, <1>7, <1>8, <1>9, <1>10, <1>11, <1>12, <1>13, <1>14,
     <1>15, <1>16, <1>17, <1>18 DEF Next, Step

-----------------------------------------------------------------------------
LEMMA InvariantHolds == Spec => []IInv
<1>1. Init => IInv
  BY MaxIssuesIsNat
  DEF Init, IInv, TypeOK, ApprovalStatus, ExecutionStatus, AdminsOnly,
      ClaimsFollowThePc, Undecided, Deciding, ClaimsAreUnique, RowShowsTheClaim,
      DecisionsHaveAnAuthor, LoadedRowsExist, AttemptsAreRecorded,
      OutcomeIsEarned, ConflictHasAWinner, Ask, Book, Decided, HasDecided
<1>2. IInv /\ [Next]_vars => IInv'
  BY Inductive
<1> QED
  BY <1>1, <1>2, PTL DEF Spec

\* Every variable keeps its type, for any number of requests and runbooks.
THEOREM TypeCorrect == Spec => []TypeOK
<1>1. IInv => TypeOK
  BY DEF IInv
<1> QED
  BY <1>1, InvariantHolds, PTL

\* The conditional write in _claim_for_approval lets one invocation execute
\* each issue of a runbook, whatever the others do and wherever they die.
THEOREM OneExecution == Spec => []OneExecutionPerIssue
<1>1. IInv => OneExecutionPerIssue
  BY DEF IInv, TypeOK, ClaimsFollowThePc, ClaimsAreUnique, OneExecutionPerIssue
<1> QED
  BY <1>1, InvariantHolds, PTL

\* Where generate_runbook puts a runbook's row only once, the docstring's
\* "exactly once" holds as it stands.
THEOREM ExactlyOnceIfIssuedOnce ==
  ASSUME MaxIssues = 1
  PROVE  Spec => []ExactlyOnce
<1>1. IInv => ExactlyOnce
  BY MaxIssuesIsNat
  DEF IInv, TypeOK, ClaimsFollowThePc, ClaimsAreUnique, ExactlyOnce
<1> QED
  BY <1>1, InvariantHolds, PTL

\* No execution without the attempt in the audit path first.
THEOREM ExecutionRecorded == Spec => []ExecutionIsRecorded
<1>1. IInv => ExecutionIsRecorded
  BY DEF IInv, TypeOK, AttemptsAreRecorded, ExecutionIsRecorded
<1> QED
  BY <1>1, InvariantHolds, PTL

\* An execution of the issue a row shows was approved by the Tenant Admin's
\* invocation the row names.
THEOREM ExecutionApproved == Spec => []ExecutionIsApproved
<1>1. IInv => ExecutionIsApproved
  BY DEF IInv, TypeOK, AdminsOnly, ClaimsFollowThePc, Undecided,
         RowShowsTheClaim, ExecutionIsApproved
<1> QED
  BY <1>1, InvariantHolds, PTL

\* execution_status never claims what did not happen.
THEOREM OutcomeEarned == Spec => []OutcomeIsEarned
<1>1. IInv => OutcomeIsEarned
  BY DEF IInv
<1> QED
  BY <1>1, InvariantHolds, PTL

\* A 409 always has a decision behind it: another invocation's, or the caller's own
\* whose answer was lost.
THEOREM ConflictWon == Spec => []ConflictHasAWinner
<1>1. IInv => ConflictHasAWinner
  BY DEF IInv
<1> QED
  BY <1>1, InvariantHolds, PTL

-----------------------------------------------------------------------------
(* The audit trail.                                                        *)

\* What an entry says of where its invocation is, and what an invocation that
\* got so far has had recorded.
TrailInOrder ==
    /\ \A a \in audit :
          LET r == a.request IN
          /\ a.result = "refused_not_admin" => pc[r] = "forbidden"
          /\ a.result = "declined" => ask[r].kind = "decline" /\ claim[r] > 0
          /\ a.result \in {"attempted"} \cup Outcomes =>
                /\ ask[r].kind = "approve" /\ claim[r] > 0
                /\ [request |-> r, result |-> "attempted"] \in audit
          /\ a.result \in Outcomes =>
                /\ a.result = result[r]
                /\ pc[r] \in {"notifying", "ok", "dead"}
    /\ \A r \in Requests :
          /\ pc[r] = "declined" => ask[r].kind = "decline" /\ claim[r] > 0
          /\ pc[r] = "notifying" => [request |-> r, result |-> result[r]] \in audit
          /\ pc[r] = "ok" =>
                IF ask[r].kind = "approve"
                  THEN [request |-> r, result |-> result[r]] \in audit /\ result[r] \in Outcomes
                  ELSE [request |-> r, result |-> "declined"] \in audit
          /\ pc[r] = "notifying" => result[r] \in Outcomes
          /\ result[r] = "skipped" => r \notin acted
    /\ \A u \in unanswered :
          pc[u.request] \notin {"received", "forbidden", "authorised", "not_found"}

LEMMA TrailStep ==
  ASSUME IInv, TrailInOrder, [Next]_vars
  PROVE  TrailInOrder'
<1> USE DEF Goto, rowVars, historyVars, Outcomes
<1>t. /\ pc \in [Requests -> {"received"} \cup Running \cup Answered]
      /\ result \in [Requests -> Outcomes \cup {"none"}]
      /\ claim \in [Requests -> 0..MaxIssues]
      /\ \A a \in audit : a = [request |-> a.request, result |-> a.result]
      /\ \A a \in audit : a.request \in Requests
      /\ \A u \in unanswered : u.request \in Requests
  BY DEF IInv, TypeOK
\* A step that hands over no entry and moves one invocation.
<1>1. ASSUME NEW r \in Requests, NEW to, to \notin {"notifying", "ok"},
             pc' = [pc EXCEPT ![r] = to],
             pc[r] # "forbidden", to = "dead" \/ pc[r] \notin {"notifying", "ok", "dead"},
             UNCHANGED <<ask, claim, result, acted, audit, unanswered>>,
             to = "declined" => ask[r].kind = "decline" /\ claim[r] > 0,
             to \in {"received", "forbidden", "authorised", "not_found"} =>
                 pc[r] \in {"received", "authorised"}
      PROVE  TrailInOrder'
  BY <1>t, <1>1 DEF TrailInOrder
<1>2. ASSUME NEW b \in Runbooks, Issue(b) PROVE TrailInOrder'
  BY <1>2 DEF Issue, TrailInOrder
<1>3. ASSUME NEW r \in Requests,
             RefuseTenantless(r) \/ Authorise(r) \/ LoadRunbook(r) \/ Conflict(r)
      PROVE  TrailInOrder'
  <2>1. CASE RefuseTenantless(r)
    BY <1>1, <2>1 DEF RefuseTenantless
  <2>2. CASE Authorise(r)
    BY <1>1, <2>2 DEF Authorise
  <2>3. CASE LoadRunbook(r)
    BY <1>1, <2>3 DEF LoadRunbook
  <2>4. CASE Conflict(r)
    BY <1>1, <2>4 DEF Conflict
  <2> QED
    BY <1>3, <2>1, <2>2, <2>3, <2>4
<1>4. ASSUME NEW r \in Requests, RefuseNotAdmin(r) PROVE TrailInOrder'
  <2>1. /\ pc[r] = "received" /\ pc' = [pc EXCEPT ![r] = "forbidden"]
        /\ audit' = audit \cup {[request |-> r, result |-> "refused_not_admin"]}
        /\ UNCHANGED <<ask, claim, result, acted, unanswered>>
    BY <1>4 DEF RefuseNotAdmin, Record
  <2> QED
    BY <1>t, <2>1 DEF TrailInOrder
\* A decision: the invocation now holds a claim, and has no entry yet.
<1>5. ASSUME NEW r \in Requests, NEW to \in {"claimed", "declined"},
             pc[r] = "loaded", pc' = [pc EXCEPT ![r] = to],
             UNCHANGED <<ask, result, acted, audit, unanswered>>,
             claim' = [claim EXCEPT ![r] = issue[Book(r)]],
             issue[Book(r)] > 0, to = "declined" => ask[r].kind = "decline"
      PROVE  TrailInOrder'
  BY <1>t, <1>5 DEF TrailInOrder
<1>6. ASSUME NEW r \in Requests, DeclineRunbook(r) \/ ClaimForApproval(r)
      PROVE  TrailInOrder'
  <2>1. issue[Book(r)] > 0
    <3>1. approval[Book(r)] = "pending" /\ Book(r) \in Runbooks
      BY <1>6 DEF DeclineRunbook, ClaimForApproval, IInv, TypeOK, Ask, Book
    <3> QED
      BY <3>1, MaxIssuesIsNat DEF IInv, TypeOK, DecisionsHaveAnAuthor
  <2>2. CASE DeclineRunbook(r)
    BY <1>5, <2>1, <2>2 DEF DeclineRunbook
  <2>3. CASE ClaimForApproval(r)
    BY <1>5, <2>1, <2>3 DEF ClaimForApproval
  <2> QED
    BY <1>6, <2>2, <2>3
<1>7. ASSUME NEW r \in Requests, DeclineUnanswered(r) \/ ClaimUnanswered(r)
      PROVE  TrailInOrder'
  <2>1. /\ pc[r] = "loaded"
        /\ unanswered' = unanswered \cup {[request |-> r, issue |-> issue[Book(r)]]}
        /\ UNCHANGED <<ask, pc, claim, result, acted, audit>>
    BY <1>7 DEF DeclineUnanswered, ClaimUnanswered, Unheard
  <2> QED
    BY <1>t, <2>1 DEF TrailInOrder
<1>8. ASSUME NEW r \in Requests, AuditDecline(r) PROVE TrailInOrder'
  <2>1. /\ pc[r] = "declined" /\ pc' = [pc EXCEPT ![r] = "ok"]
        /\ audit' = audit \cup {[request |-> r, result |-> "declined"]}
        /\ UNCHANGED <<ask, claim, result, acted, unanswered>>
    BY <1>8 DEF AuditDecline, Record
  <2>2. ask[r].kind = "decline" /\ claim[r] > 0
    BY <2>1 DEF TrailInOrder
  <2>3. ASSUME NEW a \in audit'
        PROVE  LET q == a.request IN
               /\ a.result = "refused_not_admin" => pc'[q] = "forbidden"
               /\ a.result = "declined" => ask'[q].kind = "decline" /\ claim'[q] > 0
               /\ a.result \in {"attempted"} \cup Outcomes =>
                     /\ ask'[q].kind = "approve" /\ claim'[q] > 0
                     /\ [request |-> q, result |-> "attempted"] \in audit'
               /\ a.result \in Outcomes =>
                     /\ a.result = result'[q]
                     /\ pc'[q] \in {"notifying", "ok", "dead"}
    <3>1. CASE a \in audit
      <4>1. /\ a.request \in Requests
            /\ a.request = r => pc[a.request] = "declined"
            /\ a.request # r => pc'[a.request] = pc[a.request]
            /\ \A x : x \in audit => x \in audit'
        BY <1>t, <2>1, <3>1
      <4> QED
        BY <4>1, <2>1, <3>1 DEF TrailInOrder
    <3>2. CASE a = [request |-> r, result |-> "declined"]
      BY <2>1, <2>2, <3>2
    <3> QED
      BY <2>1, <3>1, <3>2
  <2>4. \A q \in Requests :
           /\ pc'[q] = "declined" => ask'[q].kind = "decline" /\ claim'[q] > 0
           /\ pc'[q] = "notifying" => [request |-> q, result |-> result'[q]] \in audit'
           /\ pc'[q] = "ok" =>
                 IF ask'[q].kind = "approve"
                   THEN [request |-> q, result |-> result'[q]] \in audit' /\ result'[q] \in Outcomes
                   ELSE [request |-> q, result |-> "declined"] \in audit'
           /\ pc'[q] = "notifying" => result'[q] \in Outcomes
           /\ result'[q] = "skipped" => q \notin acted'
    <3> SUFFICES ASSUME NEW q \in Requests
                 PROVE  /\ pc'[q] = "declined" => ask'[q].kind = "decline" /\ claim'[q] > 0
                        /\ pc'[q] = "notifying" => [request |-> q, result |-> result'[q]] \in audit'
                        /\ pc'[q] = "ok" =>
                              IF ask'[q].kind = "approve"
                                THEN [request |-> q, result |-> result'[q]] \in audit' /\ result'[q] \in Outcomes
                                ELSE [request |-> q, result |-> "declined"] \in audit'
                        /\ pc'[q] = "notifying" => result'[q] \in Outcomes
                        /\ result'[q] = "skipped" => q \notin acted'
      OBVIOUS
    <3>1. CASE q = r
      <4>1. pc'[q] = "ok" /\ ask'[q].kind = "decline" /\ [request |-> q, result |-> "declined"] \in audit'
        BY <1>t, <2>1, <2>2, <3>1
      <4> QED
        BY <4>1, <2>1 DEF TrailInOrder
    <3>2. CASE q # r
      <4>1. pc'[q] = pc[q] /\ \A x : x \in audit => x \in audit'
        BY <1>t, <2>1, <3>2
      <4> QED
        BY <4>1, <2>1 DEF TrailInOrder
    <3> QED
      BY <3>1, <3>2
  <2>5. \A u \in unanswered' :
           pc'[u.request] \notin {"received", "forbidden", "authorised", "not_found"}
    BY <1>t, <2>1 DEF TrailInOrder
  <2> QED
    BY <2>3, <2>4, <2>5 DEF TrailInOrder
<1>9. ASSUME NEW r \in Requests, AuditAttempt(r) PROVE TrailInOrder'
  <2>1. /\ pc[r] = "claimed" /\ pc' = [pc EXCEPT ![r] = "attempted"]
        /\ audit' = audit \cup {[request |-> r, result |-> "attempted"]}
        /\ UNCHANGED <<ask, claim, result, acted, unanswered>>
    BY <1>9 DEF AuditAttempt, Record
  <2>2. ask[r].kind = "approve" /\ claim[r] > 0
    BY <2>1 DEF IInv, ClaimsFollowThePc, Deciding
  <2> QED
    BY <1>t, <2>1, <2>2 DEF TrailInOrder
<1>10. ASSUME NEW r \in Requests, CallPlatform(r) PROVE TrailInOrder'
  <2>1. PICK outcome \in Outcomes :
           /\ pc[r] = "attempted" /\ pc' = [pc EXCEPT ![r] = "called"]
           /\ result' = [result EXCEPT ![r] = outcome]
           /\ \/ outcome # "skipped" /\ acted' = acted \cup {r}
              \/ acted' = acted
           /\ UNCHANGED <<ask, claim, audit, unanswered>>
    BY <1>10 DEF CallPlatform
  <2>2. r \notin acted
    BY <2>1 DEF IInv, ClaimsFollowThePc
  <2> QED
    BY <1>t, <2>1, <2>2 DEF TrailInOrder
<1>11. ASSUME NEW r \in Requests, WriteOutcome(r) PROVE TrailInOrder'
  BY <1>1, <1>11 DEF WriteOutcome
<1>12. ASSUME NEW r \in Requests, AuditOutcome(r) PROVE TrailInOrder'
  <2>1. /\ pc[r] = "settled" /\ pc' = [pc EXCEPT ![r] = "notifying"]
        /\ audit' = audit \cup {[request |-> r, result |-> result[r]]}
        /\ UNCHANGED <<ask, claim, result, acted, unanswered>>
    BY <1>12 DEF AuditOutcome, Record
  <2>2. /\ ask[r].kind = "approve" /\ claim[r] > 0
        /\ result[r] \in Outcomes
        /\ [request |-> r, result |-> "attempted"] \in audit
    BY <2>1 DEF IInv, ClaimsFollowThePc, AttemptsAreRecorded, Deciding
  <2> QED
    BY <1>t, <2>1, <2>2 DEF TrailInOrder
<1>13. ASSUME NEW r \in Requests, NotifyIms(r) PROVE TrailInOrder'
  <2>1. /\ pc[r] = "notifying" /\ pc' = [pc EXCEPT ![r] = "ok"]
        /\ UNCHANGED <<ask, claim, result, acted, audit, unanswered>>
    BY <1>13 DEF NotifyIms
  <2>2. ask[r].kind = "approve"
    BY <2>1 DEF IInv, ClaimsFollowThePc, Deciding
  <2> QED
    BY <1>t, <2>1, <2>2 DEF TrailInOrder
<1>14. ASSUME NEW r \in Requests, Die(r) PROVE TrailInOrder'
  BY <1>1, <1>14 DEF Die, Running
<1>15. CASE UNCHANGED vars
  BY <1>15 DEF vars, TrailInOrder
<1> QED
  BY <1>2, <1>3, <1>4, <1>6, <1>7, <1>8, <1>9, <1>10, <1>11, <1>12, <1>13, <1>14, <1>15
  DEF Next, Step

LEMMA TrailHolds == Spec => [](IInv /\ TrailInOrder)
<1>1. Init => TrailInOrder
  BY DEF Init, TrailInOrder, Outcomes
<1>2. IInv /\ TrailInOrder /\ [Next]_vars => TrailInOrder'
  BY TrailStep
<1> QED
  BY <1>1, <1>2, InvariantHolds, PTL DEF Spec

\* The trail says what happened, and all of it for whoever was answered 200
\* (trigger_remediation.handler audits a decision after its update took effect,
\* an execution before and after it).
THEOREM TrailTrue == Spec => []TrailIsTrue
<1>1. IInv /\ TrailInOrder => TrailIsTrue
  <2> SUFFICES ASSUME IInv, TrailInOrder PROVE TrailIsTrue
    OBVIOUS
  <2>1. ASSUME NEW a \in audit
        PROVE  LET r == a.request IN
               /\ a.result = "refused_not_admin" => ~ HasDecided(r) /\ r \notin acted
               /\ a.result = "declined" => ask[r].kind = "decline" /\ claim[r] > 0
               /\ a.result \in {"attempted"} \cup Outcomes =>
                     /\ ask[r].kind = "approve" /\ claim[r] > 0
                     /\ [request |-> r, result |-> "attempted"] \in audit
               /\ a.result = "succeeded" => r \in acted
               /\ a.result = "skipped" => r \notin acted
    <3> DEFINE r == a.request
    <3>1. r \in Requests
      BY DEF IInv, TypeOK
    <3>2. ASSUME pc[r] = "forbidden" PROVE ~ HasDecided(r) /\ r \notin acted
      <4>1. claim[r] = 0 /\ r \notin acted
        BY <3>1, <3>2 DEF IInv, ClaimsFollowThePc, Undecided
      <4>2. \A u \in unanswered : u.request # r
        BY <3>2 DEF TrailInOrder
      <4>3. ASSUME NEW i \in 1..MaxIssues PROVE ~ Decided(r, i)
        <5>1. i # 0
          BY <4>3, MaxIssuesIsNat
        <5>2. [request |-> r, issue |-> i] \notin unanswered
          BY <4>2
        <5> QED
          BY <4>1, <5>1, <5>2 DEF Decided
      <4> QED
        BY <4>1, <4>3 DEF HasDecided
    <3> QED
      BY <3>1, <3>2 DEF TrailInOrder, IInv, ClaimsFollowThePc, Outcomes
  <2>2. ASSUME NEW r \in Requests, pc[r] = "ok"
        PROVE  \E a \in audit :
                  /\ a.request = r
                  /\ a.result \in IF ask[r].kind = "approve" THEN {result[r]} ELSE {"declined"}
    <3>1. CASE ask[r].kind = "approve"
      BY <2>2, <3>1 DEF TrailInOrder
    <3>2. CASE ask[r].kind # "approve"
      BY <2>2, <3>2 DEF TrailInOrder
    <3> QED
      BY <3>1, <3>2
  <2>3. ExecutionIsRecorded
    BY DEF IInv, TypeOK, AttemptsAreRecorded, ExecutionIsRecorded
  <2> QED
    BY <2>1, <2>2, <2>3 DEF TrailIsTrue
<1> QED
  BY <1>1, TrailHolds, PTL

\* A decision the row shows is in the trail, but for invocations that stopped on
\* the way there or were never told (trigger_remediation.py:191-206, 218-229).
THEOREM DecisionAudited == Spec => []DecisionIsAudited
<1>1. IInv /\ TrailInOrder => DecisionIsAudited
  <2> SUFFICES ASSUME IInv, TrailInOrder, NEW b \in Runbooks,
                      approval[b] \in {"approved", "declined"}
               PROVE  \E r \in Requests :
                         /\ Book(r) = b
                         /\ Decided(r, issue[b])
                         /\ \/ [request |-> r, result |-> "attempted"] \in audit
                            \/ [request |-> r, result |-> "declined"] \in audit
                            \/ pc[r] \in {"claimed", "declined", "dead"}
                            \/ [request |-> r, issue |-> issue[b]] \in unanswered
    BY DEF DecisionIsAudited
  <2>1. PICK r \in Requests : Book(r) = b /\ Decided(r, issue[b])
    BY DEF IInv, DecisionsHaveAnAuthor
  <2>2. issue[b] > 0
    BY MaxIssuesIsNat DEF IInv, TypeOK, DecisionsHaveAnAuthor
  <2>3. ASSUME claim[r] = issue[b]
        PROVE  \/ [request |-> r, result |-> "attempted"] \in audit
               \/ [request |-> r, result |-> "declined"] \in audit
               \/ pc[r] \in {"claimed", "declined", "dead"}
    <3>1. pc[r] \in Deciding \cup {"declined", "ok", "dead"}
      BY <2>2, <2>3 DEF IInv, TypeOK, ClaimsFollowThePc, Undecided, Deciding, Running, Answered
    <3>2. CASE pc[r] = "ok"
      <4>1. ask[r].kind = "approve" =>
               /\ [request |-> r, result |-> result[r]] \in audit
               /\ result[r] \in Outcomes
        BY <3>2 DEF TrailInOrder
      <4>2. ask[r].kind # "approve" => [request |-> r, result |-> "declined"] \in audit
        BY <3>2 DEF TrailInOrder
      <4> QED
        BY <4>1, <4>2 DEF TrailInOrder
    <3> QED
      BY <3>1, <3>2 DEF IInv, AttemptsAreRecorded, Deciding
  <2> QED
    BY <2>1, <2>3 DEF Decided
<1> QED
  BY <1>1, TrailHolds, PTL

-----------------------------------------------------------------------------
(* The refinement.  Claiming is Approve, declining is Decline, the call the *)
(* platform carries out is Execute; every other step is invisible.          *)

LEMMA ApprovedIssuesKept ==
  ASSUME UNCHANGED <<claim, unanswered, ask>>, NEW b \in Runbooks
  PROVE  ApprovedIssues(b)' = ApprovedIssues(b)
BY DEF ApprovedIssues, Decided, Book

LEMMA ExecutedIssuesKept ==
  ASSUME IInv, NEW r \in Requests, r \notin acted,
         UNCHANGED <<acted, ask>>, \A q \in Requests \ {r} : claim'[q] = claim[q],
         NEW b \in Runbooks
  PROVE  ExecutedIssues(b)' = ExecutedIssues(b)
BY DEF IInv, TypeOK, ExecutedIssues, Book

LEMMA StepRefines ==
  ASSUME IInv, [Next]_vars
  PROVE  [Decision!DecisionNext]_(Decision!decisionVars)
<1> USE DEF rowVars, historyVars, Goto, Record
<1>t. /\ \A q \in Requests : Book(q) \in Runbooks /\ claim[q] \in Nat
      /\ \A c \in Runbooks : issue[c] \in Nat
      /\ acted \subseteq Requests
  BY MaxIssuesIsNat DEF IInv, TypeOK, Ask, Book
<1>1. ASSUME UNCHANGED <<approval, issue, claim, unanswered, ask, acted>>
      PROVE  UNCHANGED Decision!decisionVars
  BY <1>1 DEF Decision!decisionVars, ApprovedIssues, Decided, ExecutedIssues, Book
<1>2. ASSUME NEW b \in Runbooks, Issue(b)
      PROVE  Decision!NewIssue(b)
  BY <1>2 DEF Issue, Decision!NewIssue, ApprovedIssues, Decided, ExecutedIssues, Book
<1>d. ASSUME NEW r \in Requests, claim[r] = 0,
             \/ /\ claim' = [claim EXCEPT ![r] = issue[Book(r)]]
                /\ unanswered' = unanswered
             \/ /\ claim' = claim
                /\ unanswered' = unanswered \cup {[request |-> r, issue |-> issue[Book(r)]]}
      PROVE  \A q \in Requests, i \in 1..MaxIssues :
                Decided(q, i)' <=> Decided(q, i) \/ (q = r /\ i = issue[Book(r)])
  BY <1>d DEF IInv, TypeOK, Decided
<1>3. ASSUME NEW r \in Requests, DeclineRunbook(r) \/ DeclineUnanswered(r)
      PROVE  Decision!Decline(Book(r))
  <2>1. /\ r \notin acted
        /\ claim[r] = 0
        /\ ask[r].kind # "approve"
        /\ UNCHANGED <<acted, ask, issue>>
    BY <1>3 DEF DeclineRunbook, DeclineUnanswered, Unheard, IInv, ClaimsFollowThePc, Undecided
  <2>2. \A q \in Requests, i \in 1..MaxIssues :
           Decided(q, i)' <=> Decided(q, i) \/ (q = r /\ i = issue[Book(r)])
    BY <1>d, <1>3, <2>1 DEF DeclineRunbook, DeclineUnanswered, Unheard
  <2>3. \A b \in Runbooks : ApprovedIssues(b)' = ApprovedIssues(b)
    BY <2>1, <2>2 DEF ApprovedIssues, Book
  <2>4. \A q \in Requests \ {r} : claim'[q] = claim[q]
    BY <1>3 DEF DeclineRunbook, DeclineUnanswered, Unheard, IInv, TypeOK
  <2>5. \A b \in Runbooks : ExecutedIssues(b)' = ExecutedIssues(b)
    BY <2>1, <2>4, ExecutedIssuesKept
  <2> QED
    BY <1>3, <2>1, <2>3, <2>5
    DEF DeclineRunbook, DeclineUnanswered, Unheard, Decision!Decline
<1>4. ASSUME NEW r \in Requests, ClaimForApproval(r) \/ ClaimUnanswered(r)
      PROVE  Decision!Approve(Book(r))
  <2>1. /\ r \notin acted
        /\ claim[r] = 0
        /\ ask[r].kind = "approve"
        /\ UNCHANGED <<acted, ask, issue>>
        /\ issue[Book(r)] \in 1..MaxIssues
    BY <1>t, <1>4 DEF ClaimForApproval, ClaimUnanswered, Unheard, IInv, ClaimsFollowThePc,
       Undecided, DecisionsHaveAnAuthor, TypeOK
  <2>2. \A q \in Requests, i \in 1..MaxIssues :
           Decided(q, i)' <=> Decided(q, i) \/ (q = r /\ i = issue[Book(r)])
    BY <1>d, <1>4, <2>1 DEF ClaimForApproval, ClaimUnanswered, Unheard
  <2>3. ASSUME NEW b \in Runbooks
        PROVE  ApprovedIssues(b)' =
                 IF b = Book(r) THEN ApprovedIssues(b) \cup {issue[b]}
                                ELSE ApprovedIssues(b)
    BY <1>t, <2>1, <2>2 DEF ApprovedIssues, Book
  <2>4. \A q \in Requests \ {r} : claim'[q] = claim[q]
    BY <1>4 DEF ClaimForApproval, ClaimUnanswered, Unheard, IInv, TypeOK
  <2>5. \A b \in Runbooks : ExecutedIssues(b)' = ExecutedIssues(b)
    BY <2>1, <2>4, ExecutedIssuesKept
  <2>6. [b \in Runbooks |-> ApprovedIssues(b)]' =
          [[b \in Runbooks |-> ApprovedIssues(b)] EXCEPT
             ![Book(r)] = @ \cup {issue[Book(r)]}]
    BY <1>t, <2>3
  <2> QED
    BY <1>4, <2>1, <2>6, <2>5
    DEF ClaimForApproval, ClaimUnanswered, Unheard, Decision!Approve
<1>5. ASSUME NEW r \in Requests, CallPlatform(r), acted' # acted
      PROVE  Decision!Execute(Book(r))
  <2>1. /\ acted' = acted \cup {r}
        /\ r \notin acted
        /\ UNCHANGED <<approval, issue, claim, unanswered, ask>>
    BY <1>5 DEF CallPlatform
  <2>2. claim[r] \in ApprovedIssues(Book(r))
    BY <1>t, <1>5 DEF CallPlatform, IInv, TypeOK, ClaimsFollowThePc, Deciding, ApprovedIssues, Decided
  <2>3. claim[r] \notin ExecutedIssues(Book(r))
    BY <1>t, <1>5, <2>1
    DEF CallPlatform, IInv, ClaimsFollowThePc, ClaimsAreUnique, Deciding,
        ExecutedIssues
  <2>4. ASSUME NEW b \in Runbooks
        PROVE  ExecutedIssues(b)' =
                 IF b = Book(r) THEN ExecutedIssues(b) \cup {claim[r]}
                                ELSE ExecutedIssues(b)
    BY <2>1 DEF ExecutedIssues, Book
  <2>5. [b \in Runbooks |-> ExecutedIssues(b)]' =
          [[b \in Runbooks |-> ExecutedIssues(b)] EXCEPT
             ![Book(r)] = @ \cup {claim[r]}]
    BY <1>t, <2>4
  <2>6. \A b \in Runbooks : ApprovedIssues(b)' = ApprovedIssues(b)
    BY <2>1, ApprovedIssuesKept
  <2> QED
    BY <1>t, <2>1, <2>2, <2>3, <2>5, <2>6 DEF Decision!Execute
<1> QED
  <2>1. CASE \E b \in Runbooks : Issue(b)
    BY <1>2, <2>1 DEF Decision!DecisionNext
  <2>2. ASSUME NEW r \in Requests, Step(r) \/ Die(r)
        PROVE  [Decision!DecisionNext]_(Decision!decisionVars)
    <3>1. CASE DeclineRunbook(r) \/ DeclineUnanswered(r)
      BY <1>t, <1>3, <3>1 DEF Decision!DecisionNext
    <3>2. CASE ClaimForApproval(r) \/ ClaimUnanswered(r)
      BY <1>t, <1>4, <3>2 DEF Decision!DecisionNext
    <3>3. CASE CallPlatform(r) /\ acted' # acted
      BY <1>t, <1>5, <3>3 DEF Decision!DecisionNext
    <3>4. CASE /\ ~ (DeclineRunbook(r) \/ DeclineUnanswered(r))
               /\ ~ (ClaimForApproval(r) \/ ClaimUnanswered(r))
               /\ ~ (CallPlatform(r) /\ acted' # acted)
      <4>1. UNCHANGED <<approval, issue, claim, unanswered, ask, acted>>
        BY <2>2, <3>4
        DEF Step, Die, RefuseTenantless, RefuseNotAdmin, Authorise,
            LoadRunbook, Conflict, AuditDecline, AuditAttempt, CallPlatform,
            WriteOutcome, AuditOutcome, NotifyIms
      <4> QED
        BY <1>1, <4>1
    <3> QED
      BY <3>1, <3>2, <3>3, <3>4
  <2>3. CASE UNCHANGED vars
    BY <1>1, <2>3 DEF vars
  <2> QED
    BY <2>1, <2>2, <2>3 DEF Next

\* The handlers implement the promise: each issue is decided once, and executed
\* at most once and only when approved.
THEOREM Refinement == Spec => ImplementsDecision
<1>1. Init => Decision!DecisionInit
  BY DEF Init, Decision!DecisionInit, ApprovedIssues, Decided, ExecutedIssues
<1>2. IInv /\ [Next]_vars => [Decision!DecisionNext]_(Decision!decisionVars)
  BY StepRefines
<1> QED
  BY <1>1, <1>2, InvariantHolds, PTL
  DEF Spec, ImplementsDecision, Decision!DecisionSpec

=============================================================================
