--------------------------- MODULE PipelineProps ---------------------------
(***************************************************************************)
(* What is claimed of Pipeline.                                            *)
(***************************************************************************)
EXTENDS Pipeline

Runbook(e) == [exec |-> e, attempt |-> diagnostic[e]]

\* A runbook anyone can approve has its document in S3 and was rendered from a
\* diagnosis that had been saved, whichever attempt got how far.
RunbookIsWhole == runbooks \subseteq objects \cap diagnosed

\* Retries and attempts that outlive their timeout leave neither an orphaned S3
\* object nor a second Runbooks row (generate_runbook.py:7-9).
OneRunbookPerExecution ==
    \A b, c \in objects \cup runbooks : b.exec = c.exec => b = c

\* The diagnosis shown beside a runbook is the one it restates, if no other
\* execution got to generate_rca and no attempt of it outlived its timeout.
DiagnosisMatchesRunbook ==
    \A b \in runbooks :
        \/ diagnosis = b
        \/ b.exec \in outlived
        \/ \E d \in diagnosed : d.exec # b.exec

\* Nobody is told a runbook is ready, and no execution succeeds, before that
\* execution's own runbook can be approved.
AnnouncedIsReady ==
    \A e \in Execs : e \in announced \/ state[e] = "succeeded" => Runbook(e) \in runbooks

\* The timeline never shows a stage whose predecessors' results are not there:
\* what a stage's mark promises of earlier stages is in the rows.
TimelineIsTrue ==
    /\ RUNBOOK \in seen => diagnosed # {}
    /\ NOTIFY \in seen => runbooks # {}

\* What the ops topic says failed can be redriven from the queue, and the alert's
\* failure mark has been attempted before either: fn-mark-pipeline-failed was
\* invoked, whether Lambda ran it or not (its errors are caught,
\* diagnosis_pipeline.asl.json:236).
ReportedIsRedrivable ==
    /\ ops \subseteq dlq
    /\ \A e \in dlq :
          /\ state[e] # "succeeded"
          /\ \/ e \in handled
             \/ at[[exec |-> e, stage |-> FAILED, attempt |-> 1]] # "none"

\* Liveness: every execution ends, and for one that does not succeed, timed out
\* or not, the failure mark is attempted: fn-mark-pipeline-failed runs, or is not
\* run by Lambda in spite of the invocation.
ExecutionEnds ==
    \A e \in Execs :
        <>(state[e] = "succeeded" \/ (state[e] \in Ended /\ e \in handled))

\* A failure recorded on the alert is what the console shows from then on
\* (progress.py:42-45, query_diagnostics.py:198), unless a stage is marked later
\* by an invocation nobody waits for any more or by another execution: none that
\* the failed machine itself still waits for can do it.
FailureGivesWay ==
    [][stage = FAILED /\ stage' # FAILED =>
          \E i \in Invocations :
             /\ i.stage = stage' /\ at[i] = "read" /\ at'[i] = "marked"
             /\ i.exec \in recorded => ~ IsAwaited(i)]_vars

\* The console's status says what happened, whenever each of its reads is made and
\* however far they get.  An alert is shown as failed only once the failure of an
\* execution that did fail was recorded.  Once an execution has succeeded, a
\* query that reaches its runbook shows it unless such a failure was read, and
\* with the query cut short or the index behind, a current read of the
\* diagnostic still does not let the alert fall back before it
\* (query_diagnostics.py:166-207, progress.py:42-45).
StatusIsEarned ==
    \A mark \in MarksRead, dispatched, current, reached \in BOOLEAN :
        LET shown == AlertStatus(mark, dispatched, current, reached) IN
        /\ shown = "failed" =>
              \E e \in recorded : state[e] \notin {"due", "succeeded"} \cup Diagnosing
        /\ (\E e \in Execs : state[e] = "succeeded") =>
              /\ reached => shown \in {"failed", "runbook_ready"}
              /\ current => shown \notin {"received", "diagnosing"}

-----------------------------------------------------------------------------
\* The refinement.  An execution that has left the diagnosing states for any
\* but success has failed, whatever is still to be done about it.
Phase(q) ==
    CASE q = "due" -> "due"
      [] q \in Diagnosing -> "open"
      [] q = "succeeded" -> "complete"
      [] OTHER -> "failed"

Diagnosis == INSTANCE AlertDiagnosis WITH
    Attempts <- 1..3,
    phase <- [e \in Execs |-> Phase(state[e])],
    saved <- diagnosed,
    settled <- diagnostic,
    offered <- runbooks,
    flagged <- stage = FAILED,
    redrivable <- dlq,
    escalated <- ops

\* Every step of the machine, of the tasks and of what is left of them is a step
\* of the diagnosis, or invisible (diagnosis_pipeline.asl.json, generate_rca.py,
\* generate_runbook.py:7-9, notify.py).
ImplementsDiagnosis == Diagnosis!DiagnosisSpec

=============================================================================
