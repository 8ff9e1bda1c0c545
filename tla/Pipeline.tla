------------------------------ MODULE Pipeline ------------------------------
(***************************************************************************)
(* The diagnosis of one alert: the state machine                           *)
(* (statemachine/diagnosis_pipeline.asl.json) and the Lambda tasks it      *)
(* invokes.  Every execution runs its own machine; EventBridge may have    *)
(* started several for the alert.  A task attempt is a Lambda invocation   *)
(* of its own, and Step Functions giving up on it (a timeout, a failed     *)
(* parallel branch, the execution's end) does not stop it: it goes on      *)
(* writing to the rows all attempts and executions of the alert share.     *)
(***************************************************************************)
EXTENDS Naturals, FiniteSets

CONSTANTS
    Execs,       \* executions started for the alert
    Watched,     \* the stages followed in stages_seen; the others' entries neither
                 \* influence these nor anything else, and are left out
    MarksFail,   \* whether recording progress may fail
    MaxOrphans,  \* bound: invocations still running that nobody waits for
    NoDiagnosis  \* the alert has no Diagnostics row

\* common/progress.py's stages, and the terminal marker, whose invocations are
\* fn-mark-pipeline-failed's.
CORRELATE_LOGS == "correlate_logs"
CORRELATE_CONFIG == "correlate_config"
RAG == "rag_context"
RCA == "generate_rca"
RUNBOOK == "generate_runbook"
NOTIFY == "notify"
FAILED == "failed"

Stages == {CORRELATE_LOGS, CORRELATE_CONFIG, RAG, RCA, RUNBOOK, NOTIFY, FAILED}

ASSUME WatchedAreStages == Watched \subseteq Stages
ASSUME MarksFailIsBoolean == MarksFail \in BOOLEAN
ASSUME MaxOrphansIsNat == MaxOrphans \in Nat
ASSUME ExecsIsFinite == IsFiniteSet(Execs)

Invocations == [exec: Execs, stage: Stages, attempt: 1..3]

\* A diagnostic id is fresh for every attempt of generate_rca, and a runbook's
\* id is derived from its diagnostic's (_runbook_id): one name stands for both.
Diagnoses == [exec: Execs, attempt: 1..3]

ASSUME NoDiagnosisIsNone == NoDiagnosis \notin Diagnoses

\* How an invocation ends: an answer, an error of Lambda itself or throttling,
\* an answer of the model that is refused, any other exception or crash.
Fates == {"ok", "transient", "model", "error"}
Running == {"invoked", "read", "marked", "stored"}

\* What may follow the last call that took effect.
Returns == Fates \ {"model"}

VARIABLES
    state,      \* where each execution is
    used,       \* the retriers each task of an execution has used up
    diagnostic, \* $.diagnostic: the attempt whose answer the execution carries
    at,         \* where each invocation is, or the end its machine has not seen
    read,       \* the stages each invocation read from the row (_merged_history)
    stage,      \* pipeline_stage of the alert's row
    seen,       \* stages_seen of the alert's row
    diagnosis,  \* the Diagnostics row, one per alert
    objects,    \* the runbook documents in S3
    runbooks,   \* the Runbooks rows
    announced,  \* executions whose runbook-ready notification SNS accepted
    dlq,        \* executions whose state is in the pipeline's failure DLQ
    ops,        \* executions reported to the ops topic
    diagnosed,  \* history: every diagnosis that has been in the row
    outlived,   \* history: executions that gave up on a running generate_rca
    recorded,   \* history: executions whose failure mark reached the row
    handled     \* history: executions for which the failure mark was attempted: Lambda
                \* ran fn-mark-pipeline-failed, or would not

machineVars == <<state, used, diagnostic, outlived>>
markVars == <<read, stage, seen, recorded, handled>>
resultVars == <<diagnosis, objects, runbooks, announced, diagnosed>>
failureVars == <<dlq, ops>>
vars == <<state, used, diagnostic, at, read, stage, seen, diagnosis, objects, runbooks,
          announced, dlq, ops, diagnosed, outlived, recorded, handled>>

\* "expired": over its 300 seconds, and EventBridge has not said so yet.
Ended == {"succeeded", "failed", "expired", "timed_out"}
Handling == {"mark_failed", "send_dlq", "notify_ops"}
Diagnosing == {"correlate", RAG, RCA, RUNBOOK, NOTIFY}

\* The retriers of a task: for Lambda's own errors, throttling and the task's
\* timeout, and for the model's refused answers.
Retriers == {"platform", "model"}
Retrier(cause) == IF cause = "model" THEN "model" ELSE "platform"

TypeOK ==
    /\ state \in [Execs -> {"due"} \cup Diagnosing \cup Handling \cup Ended]
    /\ used \in [Execs -> [Stages -> SUBSET Retriers]]
    /\ diagnostic \in [Execs -> 0..3]
    /\ at \in [Invocations -> {"none"} \cup Running \cup Fates]
    /\ read \in [Invocations -> SUBSET Watched]
    /\ stage \in Stages \cup {"none"}
    /\ seen \subseteq Watched
    /\ diagnosis \in Diagnoses \cup {NoDiagnosis}
    /\ objects \subseteq Diagnoses
    /\ runbooks \subseteq Diagnoses
    /\ announced \subseteq Execs
    /\ dlq \subseteq Execs
    /\ ops \subseteq Execs
    /\ diagnosed \subseteq Diagnoses
    /\ outlived \subseteq Execs
    /\ recorded \subseteq Execs
    /\ handled \subseteq Execs

Init ==
    /\ state = [e \in Execs |-> "due"]
    /\ used = [e \in Execs |-> [s \in Stages |-> {}]]
    /\ diagnostic = [e \in Execs |-> 0]
    /\ at = [i \in Invocations |-> "none"]
    /\ read = [i \in Invocations |-> {}]
    /\ stage = "none"
    /\ seen = {}
    /\ diagnosis = NoDiagnosis
    /\ objects = {}
    /\ runbooks = {}
    /\ announced = {}
    /\ dlq = {}
    /\ ops = {}
    /\ diagnosed = {}
    /\ outlived = {}
    /\ recorded = {}
    /\ handled = {}

-----------------------------------------------------------------------------
(* The state machine's table.                                              *)

\* The tasks a state waits for; CorrelateContext runs its two in parallel.
Tasks(q) ==
    CASE q = "correlate" -> {CORRELATE_LOGS, CORRELATE_CONFIG}
      [] q \in {RAG, RCA, RUNBOOK, NOTIFY} -> {q}
      [] q = "mark_failed" -> {FAILED}
      [] OTHER -> {}

After(q) ==
    CASE q = "correlate" -> RAG
      [] q = RAG -> RCA
      [] q = RCA -> RUNBOOK
      [] q = RUNBOOK -> NOTIFY
      [] q = NOTIFY -> "succeeded"

\* MaxAttempts is 1 for every retrier; only the model's tasks have the second.
Retriable(e, s, cause) ==
    /\ cause # "error"
    /\ Retrier(cause) \notin used[e][s]
    /\ cause = "model" => s \in {RCA, RUNBOOK}

\* The attempt the machine waits for.
Current(e, s) == [exec |-> e, stage |-> s, attempt |-> Cardinality(used[e][s]) + 1]

IsAwaited(i) == i.stage \in Tasks(state[i.exec]) /\ i = Current(i.exec, i.stage)

\* No more than MaxOrphans run at once; abandoning another waits till one ends.
Orphans == {i \in Invocations : at[i] \in Running /\ ~ IsAwaited(i)}

Unfinished(e) == {i \in {Current(e, s) : s \in Tasks(state[e])} : at[i] \in Running}

MayAbandon(n) == Cardinality(Orphans) + n <= MaxOrphans

\* Why the task's attempt is over, if it is: it failed, or runs too long.
CausesOf(i) == IF at[i] \in Running THEN {"timeout"} ELSE {at[i]} \ {"ok", "none"}

\* Entering a state invokes its tasks and forgets how the last state's ended;
\* those that have not ended run on.
Goto(e, q) ==
    /\ state' = [state EXCEPT ![e] = q]
    /\ used' = [used EXCEPT ![e] = [s \in Stages |-> {}]]
    /\ at' = [i \in Invocations |->
                 IF i.exec = e /\ i.stage \in Tasks(q) /\ i.attempt = 1 THEN "invoked"
                 ELSE IF i.exec = e /\ at[i] \in Fates THEN "none"
                 ELSE at[i]]

-----------------------------------------------------------------------------
(* The state machine's steps.                                              *)

Start(e) ==
    /\ state[e] = "due"
    /\ Goto(e, "correlate")
    /\ UNCHANGED <<diagnostic, outlived, markVars, resultVars, failureVars>>

\* Every task of the state answered.
Advance(e) ==
    /\ state[e] \in Diagnosing
    /\ \A s \in Tasks(state[e]) : at[Current(e, s)] = "ok"
    /\ Goto(e, After(state[e]))
    /\ diagnostic' = IF state[e] = RCA
                       THEN [diagnostic EXCEPT ![e] = Current(e, RCA).attempt]
                       ELSE diagnostic
    /\ UNCHANGED <<outlived, markVars, resultVars, failureVars>>

\* Retry: a new attempt, whatever has become of the old one.
Retry(e, s) ==
    LET old == Current(e, s)
        new == [old EXCEPT !.attempt = @ + 1] IN
    /\ state[e] \in Diagnosing
    /\ s \in Tasks(state[e])
    /\ \E cause \in CausesOf(old) :
          /\ Retriable(e, s, cause)
          /\ cause = "timeout" => MayAbandon(1)
          /\ used' = [used EXCEPT ![e][s] = @ \cup {Retrier(cause)}]
          /\ at' = [at EXCEPT ![old] = IF @ \in Running THEN @ ELSE "none",
                              ![new] = "invoked"]
          /\ outlived' = IF s = RCA /\ cause = "timeout" THEN outlived \cup {e} ELSE outlived
    /\ UNCHANGED <<state, diagnostic, markVars, resultVars, failureVars>>

\* Catch States.ALL: what the state's tasks have running is left running.
Catch(e) ==
    /\ state[e] \in Diagnosing
    /\ \E s \in Tasks(state[e]) :
          \E cause \in CausesOf(Current(e, s)) : ~ Retriable(e, s, cause)
    /\ MayAbandon(Cardinality(Unfinished(e)))
    /\ Goto(e, "mark_failed")
    /\ UNCHANGED <<diagnostic, outlived, markVars, resultVars, failureVars>>

\* MarkAlertFailed goes on to the DLQ whether it answered, failed or timed out.
LeaveMarkFailed(e) ==
    /\ state[e] = "mark_failed"
    /\ MayAbandon(Cardinality(Unfinished(e)))
    /\ Goto(e, "send_dlq")
    /\ UNCHANGED <<diagnostic, outlived, markVars, resultVars, failureVars>>

\* Mutant of SendToFailureDlq: a Catch leads on to NotifyOpsFailure.
SendOrCarryOn(e) ==
    /\ state[e] = "send_dlq"
    /\ Goto(e, "notify_ops")
    /\ dlq' \in {dlq, dlq \cup {e}}
    /\ UNCHANGED <<diagnostic, outlived, markVars, resultVars, ops>>

\* Neither of the next two states has a Retry or a Catch: an error of SQS or
\* SNS is the end of the execution.
SendToFailureDlq(e) ==
    /\ state[e] = "send_dlq"
    /\ \/ Goto(e, "notify_ops") /\ dlq' = dlq \cup {e}
       \/ Goto(e, "failed") /\ UNCHANGED dlq
    /\ UNCHANGED <<diagnostic, outlived, markVars, resultVars, ops>>

NotifyOpsFailure(e) ==
    /\ state[e] = "notify_ops"
    /\ Goto(e, "failed")
    /\ ops' \in {ops, ops \cup {e}}
    /\ UNCHANGED <<diagnostic, outlived, markVars, resultVars, dlq>>

\* The execution's own 300 seconds are over (or someone aborts it).
TimeOut(e) ==
    /\ state[e] \in Diagnosing \cup Handling
    /\ MayAbandon(Cardinality(Unfinished(e)))
    /\ Goto(e, "expired")
    /\ UNCHANGED <<diagnostic, outlived, markVars, resultVars, failureVars>>

\* Mutants of TimedOutRule: it fires for executions in any state; there is no
\* such rule.
RuleOnAnyStatus(e) ==
    /\ state[e] \in {"expired"} \cup Diagnosing
    /\ at[[exec |-> e, stage |-> FAILED, attempt |-> 2]] = "none"
    /\ state' = [state EXCEPT ![e] = IF @ = "expired" THEN "timed_out" ELSE @]
    /\ at' = [at EXCEPT ![[exec |-> e, stage |-> FAILED, attempt |-> 2]] = "invoked"]
    /\ UNCHANGED <<used, diagnostic, outlived, markVars, resultVars, failureVars>>

NoTimedOutRule(e) ==
    /\ state[e] = "expired"
    /\ state' = [state EXCEPT ![e] = "timed_out"]
    /\ UNCHANGED <<used, at, diagnostic, outlived, markVars, resultVars, failureVars>>

\* ExecutionTimedOutRule: fn-mark-pipeline-failed runs for a timed-out execution,
\* even if the machine has had it run before (attempt 1).
TimedOutRule(e) ==
    /\ state[e] = "expired"
    /\ state' = [state EXCEPT ![e] = "timed_out"]
    /\ at' = [at EXCEPT ![[exec |-> e, stage |-> FAILED, attempt |-> 2]] = "invoked"]
    /\ UNCHANGED <<used, diagnostic, outlived, markVars, resultVars, failureVars>>

-----------------------------------------------------------------------------
(* An invocation: progress.mark_stage first, then the task's own calls.    *)

Step(i, from, to) ==
    /\ at[i] = from
    /\ at' = [at EXCEPT ![i] = to]

\* The end of an invocation nobody waits for is not noticed.
End(i, from, fate) == Step(i, from, IF IsAwaited(i) THEN fate ELSE "none")

\* _merged_read's read, which may fail and then counts as empty.
ReadHistory(i) ==
    /\ Step(i, "invoked", "read")
    /\ \/ read' = [read EXCEPT ![i] = ({i.stage} \cap Watched) \cup seen]
       \/ MarksFail /\ read' = [read EXCEPT ![i] = {i.stage} \cap Watched]
    /\ UNCHANGED <<machineVars, stage, seen, recorded, handled, resultVars, failureVars>>

\* mark_stage's write; a failure is swallowed.
Mark(i) ==
    /\ \/ /\ stage' = i.stage
          /\ seen' = read[i]
          /\ recorded' = IF i.stage = FAILED THEN recorded \cup {i.exec} ELSE recorded
       \/ MarksFail /\ UNCHANGED <<stage, seen, recorded>>
    /\ read' = [read EXCEPT ![i] = {}]

MarkStage(i) ==
    /\ i.stage # FAILED
    /\ Step(i, "read", "marked")
    /\ Mark(i)
    /\ UNCHANGED <<machineVars, handled, resultVars, failureVars>>

\* failure_handler marks, and does nothing else.
MarkFailed(i) ==
    /\ i.stage = FAILED
    /\ End(i, "read", "ok")
    /\ Mark(i)
    /\ handled' = handled \cup {i.exec}
    /\ UNCHANGED <<machineVars, resultVars, failureVars>>

\* correlate.py and rag_context.py degrade rather than fail, and leave nothing
\* that this model tells apart from nothing.
GatherContext(i) ==
    /\ i.stage \in {CORRELATE_LOGS, CORRELATE_CONFIG, RAG}
    /\ End(i, "marked", "ok")
    /\ UNCHANGED <<machineVars, markVars, resultVars, failureVars>>

\* Mutant of WriteDiagnosis: the put is conditional on there being no row.
WriteFirstDiagnosis(i) ==
    /\ i.stage = RCA
    /\ \E fate \in Returns : End(i, "marked", fate)
    /\ diagnosis' = IF diagnosis = NoDiagnosis
                      THEN [exec |-> i.exec, attempt |-> i.attempt] ELSE diagnosis
    /\ diagnosed' = diagnosed \cup {[exec |-> i.exec, attempt |-> i.attempt]}
    /\ UNCHANGED <<machineVars, markVars, objects, runbooks, announced, failureVars>>

\* generate_rca: the Diagnostics row of the alert is replaced.
WriteDiagnosis(i) ==
    /\ i.stage = RCA
    /\ \E fate \in Returns : End(i, "marked", fate)
    /\ diagnosis' = [exec |-> i.exec, attempt |-> i.attempt]
    /\ diagnosed' = diagnosed \cup {diagnosis'}
    /\ UNCHANGED <<machineVars, markVars, objects, runbooks, announced, failureVars>>

\* Mutant of RunbookOf: the runbook's id is fresh for every attempt.
FreshRunbook(i) == [exec |-> i.exec, attempt |-> i.attempt]

\* The runbook an invocation of generate_runbook renders: its input is the
\* execution's state, whatever the Diagnostics row holds by now.
RunbookOf(i) == [exec |-> i.exec, attempt |-> diagnostic[i.exec]]

\* Mutant of WriteObject: an error of S3 is swallowed.
SkipObject(i) ==
    /\ i.stage = RUNBOOK
    /\ Step(i, "marked", "stored")
    /\ objects' \in {objects, objects \cup {RunbookOf(i)}}
    /\ UNCHANGED <<machineVars, markVars, diagnosis, runbooks, announced, diagnosed, failureVars>>

WriteObject(i) ==
    /\ i.stage = RUNBOOK
    /\ Step(i, "marked", "stored")
    /\ objects' = objects \cup {RunbookOf(i)}
    /\ UNCHANGED <<machineVars, markVars, diagnosis, runbooks, announced, diagnosed, failureVars>>

\* Mutant of WriteRunbook: an error of the put is swallowed.
SkipRunbook(i) ==
    /\ i.stage = RUNBOOK
    /\ End(i, "stored", "ok")
    /\ runbooks' \in {runbooks, runbooks \cup {RunbookOf(i)}}
    /\ UNCHANGED <<machineVars, markVars, diagnosis, objects, announced, diagnosed, failureVars>>

\* The row.  If it lands and its answer is lost the SDK puts it again, which only
\* a reviewer could tell: the other rows' repeated puts are left out.
WriteRunbook(i) ==
    /\ i.stage = RUNBOOK
    /\ Step(i, "stored", "stored") \/ \E fate \in Returns : End(i, "stored", fate)
    /\ runbooks' = runbooks \cup {RunbookOf(i)}
    /\ UNCHANGED <<machineVars, markVars, diagnosis, objects, announced, diagnosed, failureVars>>

\* fn-notify: SNS accepts, or refuses with a ClientError, which is swallowed.
PublishReady(i) ==
    /\ i.stage = NOTIFY
    /\ \E fate \in Returns : End(i, "marked", fate)
    /\ announced' \in {announced, announced \cup {i.exec}}
    /\ UNCHANGED <<machineVars, markVars, diagnosis, objects, runbooks, diagnosed, failureVars>>

\* Mutant of RefuseAnswer: a refused answer is returned for what it is, unsaved.
ReturnRawAnswer(i) ==
    /\ i.stage \in {RCA, RUNBOOK}
    /\ End(i, "marked", "ok")
    /\ UNCHANGED <<machineVars, markVars, resultVars, failureVars>>

\* The model's answer is refused: no JSON object, no summary, or cut off.
RefuseAnswer(i) ==
    /\ i.stage \in {RCA, RUNBOOK}
    /\ End(i, "marked", "model")
    /\ UNCHANGED <<machineVars, markVars, resultVars, failureVars>>

\* Any other exception, a crash, Lambda's own timeout or its refusal to run the
\* function at all; nothing of it is undone.
Die(i) ==
    /\ at[i] \in Running
    /\ \E fate \in {"transient", "error"} : End(i, at[i], fate)
    /\ read' = [read EXCEPT ![i] = {}]
    /\ handled' = IF i.stage = FAILED THEN handled \cup {i.exec} ELSE handled
    /\ UNCHANGED <<machineVars, stage, seen, recorded, resultVars, failureVars>>

-----------------------------------------------------------------------------
(* query_diagnostics._alert_status: what the console shows of the alert.   *)

\* The request reads the alert's row first: by its last read, the mark it found is
\* that of now or of before.  Only a recorded failure has ever shown FAILED.
MarksRead == {stage, "none"} \cup {s \in {FAILED} : recorded # {}}

\* Of the other reads: whether the row had dispatched_at, which is AlertIntake's;
\* whether the eventually consistent get_item of the diagnostic was current; and
\* whether the query of the tenant's ready runbooks reached this alert's.  It
\* filters MAX_PAGES pages of PAGE_SIZE rows of an index that lags, and ends.
AlertStatus(mark, dispatched, current, reached) ==
    LET runbook == reached /\ runbooks # {}
        saved == current /\ diagnosis # NoDiagnosis
    IN  CASE mark = FAILED -> "failed"
          [] mark # FAILED /\ runbook -> "runbook_ready"
          [] mark # FAILED /\ ~ runbook /\ saved -> "diagnosed"
          [] mark # FAILED /\ ~ runbook /\ ~ saved /\ dispatched -> "diagnosing"
          [] OTHER -> "received"

-----------------------------------------------------------------------------
Machine(e) ==
    \/ Start(e) \/ Advance(e) \/ (\E s \in Stages : Retry(e, s)) \/ Catch(e)
    \/ LeaveMarkFailed(e) \/ SendToFailureDlq(e) \/ NotifyOpsFailure(e)
    \/ TimedOutRule(e)

Lambda(i) ==
    \/ ReadHistory(i) \/ MarkStage(i) \/ MarkFailed(i) \/ GatherContext(i) \/ WriteDiagnosis(i)
    \/ WriteObject(i) \/ WriteRunbook(i) \/ PublishReady(i) \/ RefuseAnswer(i)
    \/ Die(i)

Next ==
    \/ \E e \in Execs : Machine(e) \/ TimeOut(e)
    \/ \E i \in Invocations : Lambda(i)

Spec == Init /\ [][Next]_vars

\* Step Functions takes the steps it can, EventBridge delivers its rule's
\* events, and Lambda lets no invocation run past its timeout, which also ends
\* the repetition of a put that is never answered.
FairSpec ==
    /\ Spec
    /\ \A e \in Execs : WF_vars(Machine(e))
    /\ WF_vars(\E i \in Invocations : Lambda(i) /\ at' # at)

=============================================================================
