--------------------------- MODULE PipelineProofs ---------------------------
(***************************************************************************)
(* Proofs about Pipeline, for any number of executions of the alert and of *)
(* invocations that outlive their task.                                    *)
(***************************************************************************)
EXTENDS System, FiniteSetTheorems, TLAPS

-----------------------------------------------------------------------------
(* The inductive invariant.                                                *)

\* The states before an execution has a diagnosis.
Early == {"due", "correlate", RAG, RCA}

\* The row holds diagnosis d, or another execution got to generate_rca.
IsLast(d) == diagnosis = d \/ \E c \in diagnosed : c.exec # d.exec

\* An end is kept only for the machine that waits for it.
FatesAreAwaited ==
    \A i \in Invocations : at[i] \in Fates => IsAwaited(i)

\* generate_rca runs for executions that have got to it, one attempt at a time
\* unless one was outlived, and never for one that carries its answer.
RcaInOrder ==
    \A i \in Invocations : i.stage = RCA /\ at[i] # "none" =>
        /\ state[i.exec] \notin {"due", "correlate", RAG}
        /\ i.exec \in outlived \/ diagnostic[i.exec] = 0
        /\ i.exec \in outlived \/ state[i.exec] # RCA \/ i = Current(i.exec, RCA)
        /\ at[i] = "ok" =>
              LET d == [exec |-> i.exec, attempt |-> i.attempt] IN
              /\ d \in diagnosed
              /\ i.exec \in outlived \/ IsLast(d)

\* The answer an execution carries was saved.
DiagnosticInOrder ==
    \A e \in Execs :
        /\ state[e] \in Early => diagnostic[e] = 0
        /\ state[e] \in {RUNBOOK, NOTIFY, "succeeded"} => diagnostic[e] # 0
        /\ diagnostic[e] # 0 =>
              /\ Runbook(e) \in diagnosed
              /\ e \in outlived \/ IsLast(Runbook(e))

\* Only that answer is rendered, and its document comes first.
RunbooksInOrder ==
    /\ \A b \in objects \cup runbooks : diagnostic[b.exec] # 0 /\ b = Runbook(b.exec)
    /\ runbooks \subseteq objects
    /\ \A i \in Invocations : i.stage \in {RUNBOOK, NOTIFY} /\ at[i] # "none" =>
          /\ diagnostic[i.exec] # 0
          /\ i.stage = RUNBOOK /\ at[i] = "stored" => Runbook(i.exec) \in objects
          /\ i.stage = RUNBOOK /\ at[i] = "ok" => Runbook(i.exec) \in runbooks

\* fn-notify runs, and an execution succeeds, once its runbook is there.
ReadyInOrder ==
    /\ \A i \in Invocations :
          i.stage = NOTIFY /\ at[i] # "none" => Runbook(i.exec) \in runbooks
    /\ \A e \in Execs :
          state[e] \in {NOTIFY, "succeeded"} \/ e \in announced => Runbook(e) \in runbooks

\* What an invocation read of the timeline is as true as the timeline.
MarksInOrder ==
    \A i \in Invocations :
        /\ RUNBOOK \in read[i] => diagnosed # {}
        /\ NOTIFY \in read[i] => runbooks # {}

\* fn-mark-pipeline-failed has run for e, or has been invoked.
Attempted(e) ==
    \/ e \in handled
    \/ at[[exec |-> e, stage |-> FAILED, attempt |-> 1]] # "none"

\* The failure path, in the order of the machine's table.
FailureInOrder ==
    /\ ops \subseteq dlq
    /\ \A e \in Execs :
          /\ e \in dlq => state[e] \in {"notify_ops", "failed", "expired", "timed_out"}
          /\ state[e] = "notify_ops" => e \in dlq
          /\ state[e] \in Handling \cup {"failed"} \/ e \in dlq => Attempted(e)
    /\ \A i \in Invocations : i.stage = FAILED /\ at[i] \in Fates => i.exec \in handled

IInv ==
    /\ TypeOK
    /\ FatesAreAwaited
    /\ RcaInOrder
    /\ DiagnosticInOrder
    /\ RunbooksInOrder
    /\ ReadyInOrder
    /\ TimelineIsTrue
    /\ MarksInOrder
    /\ FailureInOrder

-----------------------------------------------------------------------------
(* The machine's table, and attempts.                                      *)

\* How many retriers a task can have used, and what using one more does.
LEMMA RetriersCardinality ==
  ASSUME NEW U \in SUBSET Retriers
  PROVE  /\ Cardinality(U) \in 0..2
         /\ \A r \in Retriers \ U :
               Cardinality(U) \in 0..1 /\ Cardinality(U \cup {r}) = Cardinality(U) + 1
<1>1. IsFiniteSet({}) /\ Cardinality({}) = 0
  BY FS_EmptySet
<1>2. IsFiniteSet({"platform"}) /\ Cardinality({"platform"}) = 1
  BY FS_Singleton
<1>3. IsFiniteSet({"model"}) /\ Cardinality({"model"}) = 1
  BY FS_Singleton
<1>4. Cardinality({"platform"} \cup {"model"}) = 2
  BY <1>2, FS_AddElement
<1>5. /\ {"platform"} \cup {"model"} = Retriers
      /\ {"model"} \cup {"platform"} = Retriers
      /\ {} \cup {"platform"} = {"platform"}
      /\ {} \cup {"model"} = {"model"}
  BY DEF Retriers
<1>6. U \in {{}, {"platform"}, {"model"}, Retriers}
  BY DEF Retriers
<1>7. CASE U = {}
  BY <1>1, <1>2, <1>3, <1>5, <1>7 DEF Retriers
<1>8. CASE U = {"platform"}
  BY <1>2, <1>4, <1>5, <1>8 DEF Retriers
<1>9. CASE U = {"model"}
  BY <1>3, <1>4, <1>5, <1>9 DEF Retriers
<1>10. CASE U = Retriers
  BY <1>4, <1>5, <1>10 DEF Retriers
<1> QED
  BY <1>6, <1>7, <1>8, <1>9, <1>10

\* The attempt the machine waits for is an invocation.
LEMMA CurrentIsInvocation ==
  ASSUME TypeOK, NEW e \in Execs, NEW s \in Stages
  PROVE  /\ Current(e, s) \in Invocations
         /\ Current(e, s).exec = e /\ Current(e, s).stage = s
         /\ Current(e, s).attempt \in 1..3
<1>1. used[e][s] \in SUBSET Retriers
  BY DEF TypeOK
<1> QED
  BY <1>1, RetriersCardinality DEF Current, Invocations

\* What each state waits for.
LEMMA TasksOfStates ==
  /\ Tasks("correlate") = {CORRELATE_LOGS, CORRELATE_CONFIG}
  /\ \A q \in {RAG, RCA, RUNBOOK, NOTIFY} : Tasks(q) = {q}
  /\ Tasks("mark_failed") = {FAILED}
  /\ \A q \in Ended \cup {"due", "send_dlq", "notify_ops"} : Tasks(q) = {}
  /\ \A q : Tasks(q) \subseteq Stages
BY DEF Tasks, Stages, Ended, CORRELATE_LOGS, CORRELATE_CONFIG, RAG, RCA, RUNBOOK, NOTIFY, FAILED

\* A retry starts the next attempt, which the machine then waits for; the one
\* it replaces goes on if it is running, and any other task is left alone.
LEMMA RetryStep ==
  ASSUME TypeOK, NEW e \in Execs, NEW s \in Stages, Retry(e, s)
  PROVE  \E old \in Invocations, new \in Invocations, cause \in CausesOf(Current(e, s)) :
            /\ Retriable(e, s, cause)
            /\ old = Current(e, s)
            /\ new.exec = e /\ new.stage = s /\ new # old
            /\ new.attempt = old.attempt + 1
            /\ used' = [used EXCEPT ![e][s] = @ \cup {Retrier(cause)}]
            /\ Current(e, s)' = new
            /\ \A f \in Execs, t \in Stages : f # e \/ t # s => Current(f, t)' = Current(f, t)
            /\ at' \in [Invocations -> {"none"} \cup Running \cup Fates]
            /\ at'[old] = IF at[old] \in Running THEN at[old] ELSE "none"
            /\ at'[new] = "invoked"
            /\ \A i \in Invocations \ {old, new} : at'[i] = at[i]
            /\ outlived' = IF s = RCA /\ cause = "timeout" THEN outlived \cup {e} ELSE outlived
<1> DEFINE old == Current(e, s)
           new == [exec |-> e, stage |-> s, attempt |-> Cardinality(used[e][s]) + 2]
<1>1. PICK cause \in CausesOf(old) :
           /\ Retriable(e, s, cause)
           /\ used' = [used EXCEPT ![e][s] = @ \cup {Retrier(cause)}]
           /\ at' = [at EXCEPT ![old] = IF @ \in Running THEN @ ELSE "none",
                               ![[old EXCEPT !.attempt = @ + 1]] = "invoked"]
           /\ outlived' = IF s = RCA /\ cause = "timeout" THEN outlived \cup {e} ELSE outlived
  BY DEF Retry
<1>2. Retrier(cause) \in Retriers \ used[e][s]
  BY <1>1 DEF Retriable, Retrier, Retriers
<1>3. /\ used[e][s] \in SUBSET Retriers
      /\ Cardinality(used[e][s]) \in 0..1
      /\ Cardinality(used[e][s] \cup {Retrier(cause)}) = Cardinality(used[e][s]) + 1
  <2>1. used[e][s] \in SUBSET Retriers
    BY DEF TypeOK
  <2> QED
    BY <1>2, <2>1, RetriersCardinality
<1>4. /\ old \in Invocations /\ new \in Invocations /\ new # old
      /\ old.exec = e /\ old.stage = s /\ old.attempt = Cardinality(used[e][s]) + 1
      /\ new.exec = e /\ new.stage = s /\ new.attempt = old.attempt + 1
  BY <1>3 DEF Current, Invocations
<1>5. [old EXCEPT !.attempt = @ + 1] = new
  <2>1. [old EXCEPT !.attempt = @ + 1] =
           [exec |-> old.exec, stage |-> old.stage, attempt |-> old.attempt + 1]
    BY DEF Current
  <2> QED
    BY <1>3, <1>4, <2>1
<1>6. at' = [at EXCEPT ![old] = IF @ \in Running THEN @ ELSE "none", ![new] = "invoked"]
  BY <1>1, <1>5
<1> HIDE DEF new
<1>7. /\ at' \in [Invocations -> {"none"} \cup Running \cup Fates]
      /\ at'[old] = IF at[old] \in Running THEN at[old] ELSE "none"
      /\ at'[new] = "invoked"
      /\ \A i \in Invocations \ {old, new} : at'[i] = at[i]
  BY <1>4, <1>6 DEF TypeOK, Running
<1>8. /\ used'[e][s] = used[e][s] \cup {Retrier(cause)}
      /\ \A f \in Execs, t \in Stages : f # e \/ t # s => used'[f][t] = used[f][t]
  BY <1>1 DEF TypeOK
<1>9. Current(e, s)' = new
  BY <1>3, <1>8 DEF Current, new
<1>10. \A f \in Execs, t \in Stages : f # e \/ t # s => Current(f, t)' = Current(f, t)
  BY <1>8 DEF Current
<1> QED
  BY <1>1, <1>4, <1>7, <1>9, <1>10

-----------------------------------------------------------------------------
(* Types.                                                                  *)

LEMMA TypeStep ==
  ASSUME IInv, [Next]_vars
  PROVE  TypeOK'
<1> USE DEF TypeOK, machineVars, markVars, resultVars, failureVars
<1> DEFINE States == {"due"} \cup Diagnosing \cup Handling \cup Ended
           Places == {"none"} \cup Running \cup Fates
<1>0. TypeOK
  BY DEF IInv
<1>1. ASSUME NEW e \in Execs, NEW q \in States, Goto(e, q)
      PROVE  /\ state' \in [Execs -> States]
             /\ used' \in [Execs -> [Stages -> SUBSET Retriers]]
             /\ at' \in [Invocations -> Places]
  BY <1>0, <1>1 DEF Goto, Running, Fates
<1>2. ASSUME NEW i \in Invocations, NEW from, NEW fate \in Fates, End(i, from, fate)
      PROVE  at' \in [Invocations -> Places]
  BY <1>0, <1>2 DEF End, Step, Running, Fates
<1>3. ASSUME NEW i \in Invocations, NEW from, NEW to \in Running, Step(i, from, to)
      PROVE  at' \in [Invocations -> Places]
  BY <1>0, <1>3 DEF Step, Running, Fates
<1>4. \A i \in Invocations : i.exec \in Execs /\ i.stage \in Stages /\ i.attempt \in 1..3
  BY DEF Invocations
<1>5. ASSUME NEW e \in Execs, Start(e) PROVE TypeOK'
  BY <1>0, <1>1, <1>5 DEF Start, Diagnosing
<1>6. ASSUME NEW e \in Execs, Advance(e) PROVE TypeOK'
  <2>1. After(state[e]) \in States
    BY <1>0, <1>6 DEF Advance, After, Diagnosing, Ended, RAG, RCA, RUNBOOK, NOTIFY
  <2>2. Current(e, RCA).attempt \in 0..3
    <3>1. RCA \in Stages
      BY DEF Stages
    <3> QED
      BY <1>0, <3>1, CurrentIsInvocation
  <2> QED
    BY <1>0, <1>1, <1>6, <2>1, <2>2 DEF Advance
<1>7. ASSUME NEW e \in Execs, NEW s \in Stages, Retry(e, s) PROVE TypeOK'
  <2>1. PICK cause \in CausesOf(Current(e, s)) :
           /\ Retriable(e, s, cause)
           /\ used' = [used EXCEPT ![e][s] = @ \cup {Retrier(cause)}]
           /\ at' \in [Invocations -> {"none"} \cup Running \cup Fates]
           /\ outlived' \in {outlived, outlived \cup {e}}
    BY <1>0, <1>7, RetryStep
  <2>2. Retrier(cause) \in Retriers \ used[e][s]
    BY <2>1 DEF Retriable, Retrier, Retriers
  <2>3. used' \in [Execs -> [Stages -> SUBSET Retriers]]
    BY <1>0, <2>1, <2>2
  <2> QED
    BY <1>0, <1>7, <2>1, <2>3 DEF Retry
<1>8. ASSUME NEW e \in Execs, Catch(e) PROVE TypeOK'
  BY <1>0, <1>1, <1>8 DEF Catch, Handling
<1>9. ASSUME NEW e \in Execs, LeaveMarkFailed(e) PROVE TypeOK'
  BY <1>0, <1>1, <1>9 DEF LeaveMarkFailed, Handling
<1>10. ASSUME NEW e \in Execs, SendToFailureDlq(e) PROVE TypeOK'
  BY <1>0, <1>1, <1>10 DEF SendToFailureDlq, Handling, Ended
<1>11. ASSUME NEW e \in Execs, NotifyOpsFailure(e) PROVE TypeOK'
  BY <1>0, <1>1, <1>11 DEF NotifyOpsFailure, Ended
<1>12. ASSUME NEW e \in Execs, TimeOut(e) PROVE TypeOK'
  BY <1>0, <1>1, <1>12 DEF TimeOut, Ended
<1>13. ASSUME NEW e \in Execs, TimedOutRule(e) PROVE TypeOK'
  BY <1>0, <1>13 DEF TimedOutRule, Ended, Running
<1>14. ASSUME NEW i \in Invocations, ReadHistory(i) PROVE TypeOK'
  BY <1>0, <1>3, <1>14 DEF ReadHistory, Running
<1>15. ASSUME NEW i \in Invocations, MarkStage(i) PROVE TypeOK'
  BY <1>0, <1>3, <1>4, <1>15 DEF MarkStage, Mark, Running
<1>16. ASSUME NEW i \in Invocations, MarkFailed(i) PROVE TypeOK'
  BY <1>0, <1>2, <1>4, <1>16 DEF MarkFailed, Mark, Fates
<1>17. ASSUME NEW i \in Invocations, GatherContext(i) PROVE TypeOK'
  BY <1>0, <1>2, <1>17 DEF GatherContext, Fates
<1>18. ASSUME NEW i \in Invocations, WriteDiagnosis(i) PROVE TypeOK'
  BY <1>0, <1>2, <1>4, <1>18 DEF WriteDiagnosis, Fates, Returns, Diagnoses
<1>19. ASSUME NEW i \in Invocations, i.stage = RUNBOOK, at[i] # "none"
       PROVE  RunbookOf(i) \in Diagnoses
  BY <1>0, <1>4, <1>19 DEF IInv, RunbooksInOrder, RunbookOf, Diagnoses
<1>20. ASSUME NEW i \in Invocations, WriteObject(i) PROVE TypeOK'
  BY <1>0, <1>3, <1>19, <1>20 DEF WriteObject, Step, Running
<1>21. ASSUME NEW i \in Invocations, WriteRunbook(i) PROVE TypeOK'
  <2>1. RunbookOf(i) \in Diagnoses
    BY <1>19, <1>21 DEF WriteRunbook, End, Step
  <2> QED
    BY <1>0, <1>2, <1>3, <1>21, <2>1 DEF WriteRunbook, Fates, Running, Returns
<1>22. ASSUME NEW i \in Invocations, PublishReady(i) PROVE TypeOK'
  BY <1>0, <1>2, <1>4, <1>22 DEF PublishReady, Fates, Returns
<1>23. ASSUME NEW i \in Invocations, RefuseAnswer(i) PROVE TypeOK'
  BY <1>0, <1>2, <1>23 DEF RefuseAnswer, Fates
<1>24. ASSUME NEW i \in Invocations, Die(i) PROVE TypeOK'
  BY <1>0, <1>2, <1>4, <1>24 DEF Die, Fates
<1>25. ASSUME UNCHANGED vars PROVE TypeOK'
  BY <1>0, <1>25 DEF vars
<1> QED
  BY <1>5, <1>6, <1>7, <1>8, <1>9, <1>10, <1>11, <1>12, <1>13, <1>14, <1>15, <1>16,
     <1>17, <1>18, <1>20, <1>21, <1>22, <1>23, <1>24, <1>25
  DEF Next, Machine, Lambda

-----------------------------------------------------------------------------
(* What kinds of step there are.                                           *)

\* Entering a state changes nothing of other executions.
LEMMA GotoStep ==
  ASSUME TypeOK, NEW e \in Execs, NEW q, Goto(e, q)
  PROVE  /\ state'[e] = q
         /\ \A f \in Execs \ {e} : state'[f] = state[f]
         /\ \A s \in Stages : Current(e, s)' = [exec |-> e, stage |-> s, attempt |-> 1]
         /\ \A f \in Execs \ {e}, s \in Stages : Current(f, s)' = Current(f, s)
         /\ \A i \in Invocations :
               at'[i] = IF i.exec = e /\ i.stage \in Tasks(q) /\ i.attempt = 1 THEN "invoked"
                        ELSE IF i.exec = e /\ at[i] \in Fates THEN "none"
                        ELSE at[i]
<1>1. /\ state' = [state EXCEPT ![e] = q]
      /\ used' = [used EXCEPT ![e] = [s \in Stages |-> {}]]
      /\ at' = [i \in Invocations |->
                   IF i.exec = e /\ i.stage \in Tasks(q) /\ i.attempt = 1 THEN "invoked"
                   ELSE IF i.exec = e /\ at[i] \in Fates THEN "none"
                   ELSE at[i]]
  BY DEF Goto
<1>2. /\ \A s \in Stages : used'[e][s] = {}
      /\ \A f \in Execs \ {e} : used'[f] = used[f]
  BY <1>1 DEF TypeOK
<1>3. Cardinality({}) = 0
  BY FS_EmptySet
<1>4. \A s \in Stages : Current(e, s)' = [exec |-> e, stage |-> s, attempt |-> 1]
  BY <1>2, <1>3 DEF Current
<1>5. \A f \in Execs \ {e}, s \in Stages : Current(f, s)' = Current(f, s)
  BY <1>2 DEF Current
<1> QED
  BY <1>1, <1>4, <1>5 DEF TypeOK

\* The ways down: an execution that gives up, or goes on giving up.
Fall(e, q) ==
    /\ state[e] \in Diagnosing \cup Handling
    /\ q \in Handling \cup {"failed", "expired"}
    /\ Goto(e, q)
    /\ UNCHANGED <<diagnostic, outlived, markVars, resultVars>>

LEMMA MachineStep ==
  ASSUME NEW e \in Execs, Machine(e) \/ TimeOut(e)
  PROVE  \/ Start(e) \/ Advance(e) \/ (\E s \in Stages : Retry(e, s))
         \/ (\E q : Fall(e, q)) \/ TimedOutRule(e)
BY DEF Machine, Catch, LeaveMarkFailed, SendToFailureDlq, NotifyOpsFailure, TimeOut, Fall,
       Diagnosing, Handling

\* An invocation changes its own place only, and is left with an end only if
\* the machine waits for it.
LEMMA LambdaStep ==
  ASSUME TypeOK, NEW i \in Invocations, Lambda(i)
  PROVE  /\ UNCHANGED <<state, used, diagnostic, outlived, dlq, ops>>
         /\ at[i] \in Running
         /\ at'[i] \in Fates => IsAwaited(i)
         /\ \A j \in Invocations \ {i} : at'[j] = at[j]
         /\ \A e \in Execs, s \in Stages : Current(e, s)' = Current(e, s)
<1> DEFINE P == /\ at[i] \in Running
                /\ at'[i] \in Fates => IsAwaited(i)
                /\ \A j \in Invocations \ {i} : at'[j] = at[j]
<1>1. ASSUME NEW from \in Running, NEW to \in Running, Step(i, from, to) PROVE P
  BY <1>1 DEF Step, TypeOK, Running, Fates
<1>2. ASSUME NEW from \in Running, NEW fate \in Fates, End(i, from, fate) PROVE P
  <2> DEFINE to == IF IsAwaited(i) THEN fate ELSE "none"
  <2>1. at[i] = from /\ at' = [at EXCEPT ![i] = to]
    BY <1>2 DEF End, Step
  <2>2. to \in Fates => IsAwaited(i)
    BY DEF Fates
  <2> HIDE DEF to
  <2> QED
    BY <1>2, <2>1, <2>2 DEF TypeOK
<1> USE DEF machineVars, failureVars
<1>3. UNCHANGED <<state, used, diagnostic, outlived, dlq, ops>>
  BY DEF Lambda, ReadHistory, MarkStage, MarkFailed, GatherContext, WriteDiagnosis, WriteObject,
         WriteRunbook, PublishReady, RefuseAnswer, Die
<1>4. \A e \in Execs, s \in Stages : Current(e, s)' = Current(e, s)
  BY <1>3 DEF Current
<1>5. P
  <2>1. CASE ReadHistory(i)
    BY <1>1, <2>1 DEF ReadHistory, Running
  <2>2. CASE MarkStage(i)
    BY <1>1, <2>2 DEF MarkStage, Running
  <2>3. CASE MarkFailed(i)
    BY <1>2, <2>3 DEF MarkFailed, Running, Fates
  <2>4. CASE GatherContext(i)
    BY <1>2, <2>4 DEF GatherContext, Running, Fates
  <2>5. CASE WriteDiagnosis(i)
    BY <1>2, <2>5 DEF WriteDiagnosis, Returns, Running, Fates
  <2>6. CASE WriteObject(i)
    BY <1>1, <2>6 DEF WriteObject, Running
  <2>7. CASE WriteRunbook(i)
    BY <1>1, <1>2, <2>7 DEF WriteRunbook, Returns, Running, Fates
  <2>8. CASE PublishReady(i)
    BY <1>2, <2>8 DEF PublishReady, Returns, Running, Fates
  <2>9. CASE RefuseAnswer(i)
    BY <1>2, <2>9 DEF RefuseAnswer, Running, Fates
  <2>10. CASE Die(i)
    BY <1>2, <2>10 DEF Die, Fates
  <2> QED
    BY <2>1, <2>2, <2>3, <2>4, <2>5, <2>6, <2>7, <2>8, <2>9, <2>10 DEF Lambda
<1> QED
  BY <1>3, <1>4, <1>5

-----------------------------------------------------------------------------
(* Only ends somebody waits for are kept.                                  *)

LEMMA FatesStep ==
  ASSUME IInv, [Next]_vars
  PROVE  FatesAreAwaited'
<1> USE DEF FatesAreAwaited, IsAwaited
<1>0. TypeOK /\ FatesAreAwaited
  BY DEF IInv
<1>1. \A i \in Invocations : i.exec \in Execs /\ i.stage \in Stages
  BY DEF Invocations
<1>2. ASSUME NEW e \in Execs, NEW q, Goto(e, q) PROVE FatesAreAwaited'
  BY <1>0, <1>1, <1>2, GotoStep DEF Fates
<1>3. ASSUME NEW e \in Execs, NEW s \in Stages, Retry(e, s) PROVE FatesAreAwaited'
  <2>1. state' = state
    BY <1>3 DEF Retry
  <2> QED
    BY <1>0, <1>1, <1>3, <2>1, RetryStep, CurrentIsInvocation DEF Fates, Running
<1>4. ASSUME NEW e \in Execs, TimedOutRule(e) PROVE FatesAreAwaited'
  <2>1. Tasks(state[e]) = {}
    BY <1>4, TasksOfStates DEF TimedOutRule, Ended
  <2>2. \A f \in Execs, s \in Stages : Current(f, s)' = Current(f, s)
    BY <1>4 DEF TimedOutRule, Current
  <2>3. \A i \in Invocations : at'[i] \in Fates => at[i] \in Fates
    BY <1>0, <1>4 DEF TimedOutRule, TypeOK, Fates
  <2>4. \A f \in Execs \ {e} : state'[f] = state[f]
    BY <1>0, <1>4 DEF TimedOutRule, TypeOK
  <2> QED
    BY <1>0, <1>1, <2>1, <2>2, <2>3, <2>4
<1>5. ASSUME NEW i \in Invocations, Lambda(i) PROVE FatesAreAwaited'
  BY <1>0, <1>1, <1>5, LambdaStep
<1>6. ASSUME UNCHANGED vars PROVE FatesAreAwaited'
  BY <1>0, <1>1, <1>6 DEF vars, Current
<1>7. \A e \in Execs : Start(e) \/ Advance(e) => \E q : Goto(e, q)
  BY DEF Start, Advance
<1>8. \A e \in Execs : \A q : Fall(e, q) => Goto(e, q)
  BY DEF Fall
<1> QED
  BY <1>2, <1>3, <1>4, <1>5, <1>6, <1>7, <1>8, MachineStep DEF Next

-----------------------------------------------------------------------------
(* The attempts of generate_rca.                                           *)

\* Of an execution that succeeds in its state, the machine has every answer.
LEMMA AdvanceStep ==
  ASSUME TypeOK, NEW e \in Execs, Advance(e)
  PROVE  /\ Goto(e, After(state[e]))
         /\ \/ state[e] = "correlate" /\ After(state[e]) = RAG
            \/ state[e] = RAG /\ After(state[e]) = RCA
            \/ state[e] = RCA /\ After(state[e]) = RUNBOOK
            \/ state[e] = RUNBOOK /\ After(state[e]) = NOTIFY
            \/ state[e] = NOTIFY /\ After(state[e]) = "succeeded"
         /\ state[e] \in {RAG, RCA, RUNBOOK, NOTIFY} => at[Current(e, state[e])] = "ok"
         /\ state[e] # RCA => diagnostic' = diagnostic
         /\ state[e] = RCA =>
               diagnostic' = [diagnostic EXCEPT ![e] = Current(e, RCA).attempt]
         /\ UNCHANGED <<outlived, diagnosis, diagnosed, objects, runbooks, announced>>
<1>1. state[e] \in Diagnosing
  BY DEF Advance
<1>2. \/ state[e] = "correlate" /\ After(state[e]) = RAG
      \/ state[e] = RAG /\ After(state[e]) = RCA
      \/ state[e] = RCA /\ After(state[e]) = RUNBOOK
      \/ state[e] = RUNBOOK /\ After(state[e]) = NOTIFY
      \/ state[e] = NOTIFY /\ After(state[e]) = "succeeded"
  BY <1>1 DEF After, Diagnosing, RAG, RCA, RUNBOOK, NOTIFY
<1>3. state[e] \in {RAG, RCA, RUNBOOK, NOTIFY} => at[Current(e, state[e])] = "ok"
  BY TasksOfStates DEF Advance
<1> QED
  BY <1>2, <1>3 DEF Advance, resultVars

LEMMA RcaStep ==
  ASSUME IInv, [Next]_vars
  PROVE  RcaInOrder'
<1> USE DEF RcaInOrder, IsLast
<1>0. TypeOK /\ RcaInOrder /\ DiagnosticInOrder
  BY DEF IInv
<1>1. \A i \in Invocations : i.exec \in Execs /\ i.stage \in Stages
  BY DEF Invocations
<1>2. ASSUME NEW e \in Execs, Start(e) PROVE RcaInOrder'
  <2>1. state[e] = "due" /\ Goto(e, "correlate")
        /\ UNCHANGED <<diagnostic, outlived, diagnosis, diagnosed>>
    BY <1>2 DEF Start, resultVars
  <2>2. RCA \notin Tasks("correlate")
    BY TasksOfStates DEF RCA, CORRELATE_LOGS, CORRELATE_CONFIG
  <2> QED
    BY <1>0, <1>1, <2>1, <2>2, GotoStep DEF Fates
<1>3. ASSUME NEW e \in Execs, Advance(e) PROVE RcaInOrder'
  <2>1. CASE state[e] \in {"correlate", RAG}
    <3>1. \A i \in Invocations : i.exec = e /\ i.stage = RCA => at[i] = "none"
      BY <1>0, <2>1
    <3>2. diagnostic' = diagnostic /\ diagnostic[e] = 0
      BY <1>0, <1>3, <2>1, AdvanceStep DEF DiagnosticInOrder, Early, RAG, RCA
    <3>3. After(state[e]) \in {RAG, RCA}
      BY <1>0, <1>3, <2>1, AdvanceStep DEF RAG, RCA, RUNBOOK, NOTIFY
    <3>4. RCA \in Tasks(After(state[e])) => After(state[e]) = RCA
      BY <3>3, TasksOfStates
    <3>5. \A i \in Invocations : i.exec = e /\ i.stage = RCA /\ at'[i] # "none" =>
             at'[i] = "invoked" /\ After(state[e]) = RCA /\ i.attempt = 1
      BY <1>0, <1>3, <3>1, <3>4, AdvanceStep, GotoStep DEF Fates
    <3>6. \A i \in Invocations : i.exec = e /\ i.stage = RCA /\ i.attempt = 1 =>
             i = Current(e, RCA)'
      BY <1>0, <1>3, <1>1, AdvanceStep, GotoStep DEF Invocations
    <3>7. state'[e] = After(state[e])
      BY <1>0, <1>3, AdvanceStep, GotoStep
    <3>8. RCA \notin {"due", "correlate", RAG} /\ "ok" # "invoked"
      BY DEF RCA, RAG
    <3>9. \A i \in Invocations : i.exec # e =>
             at'[i] = at[i] /\ state'[i.exec] = state[i.exec]
             /\ Current(i.exec, RCA)' = Current(i.exec, RCA)
      BY <1>0, <1>1, <1>3, AdvanceStep, GotoStep DEF Stages
    <3>10. UNCHANGED <<outlived, diagnosis, diagnosed>>
      BY <1>0, <1>3, AdvanceStep
    <3> QED
      BY <1>0, <1>1, <3>2, <3>5, <3>6, <3>7, <3>8, <3>9, <3>10
  <2>2. CASE state[e] \in {RCA, RUNBOOK, NOTIFY}
    <3>1. After(state[e]) \notin {"due", "correlate", RAG, RCA}
      BY <1>0, <1>3, <2>2, AdvanceStep DEF RAG, RCA, RUNBOOK, NOTIFY
    <3>2. RCA \notin Tasks(After(state[e]))
      BY <1>0, <1>3, <2>2, AdvanceStep, TasksOfStates DEF RAG, RCA, RUNBOOK, NOTIFY, Ended
    <3>3. \A i \in Invocations : i.stage = RCA /\ at'[i] # "none" =>
             /\ at'[i] = at[i]
             /\ i.exec = e => at[i] \notin Fates
      BY <1>0, <1>3, <3>2, AdvanceStep, GotoStep
    <3>4. state'[e] = After(state[e])
      BY <1>0, <1>3, AdvanceStep, GotoStep
    <3>5. \A i \in Invocations : i.exec # e =>
             /\ state'[i.exec] = state[i.exec]
             /\ diagnostic'[i.exec] = diagnostic[i.exec]
             /\ Current(i.exec, RCA)' = Current(i.exec, RCA)
      <4>1. \A f \in Execs \ {e} : diagnostic'[f] = diagnostic[f]
        BY <1>0, <1>3, AdvanceStep DEF TypeOK
      <4>2. \A f \in Execs \ {e} :
               state'[f] = state[f] /\ Current(f, RCA)' = Current(f, RCA)
        BY <1>0, <1>3, AdvanceStep, GotoStep DEF Stages
      <4> QED
        BY <1>1, <4>1, <4>2
    <3>6. UNCHANGED <<outlived, diagnosis, diagnosed>>
      BY <1>0, <1>3, AdvanceStep
    <3>7. \A i \in Invocations : i.exec = e /\ i.stage = RCA /\ at'[i] # "none" =>
             e \in outlived \/ diagnostic' = diagnostic
      <4>1. \A i \in Invocations : i.exec = e /\ i.stage = RCA /\ at[i] \notin Fates =>
               at[i] = "none" \/ e \in outlived \/ state[e] # RCA
        <5>1. state[e] = RCA => at[Current(e, RCA)] = "ok"
          BY <1>0, <1>3, AdvanceStep
        <5> QED
          BY <1>0, <5>1 DEF Fates
      <4> QED
        BY <1>0, <1>3, <3>3, <4>1, AdvanceStep
    <3> QED
      BY <1>0, <1>1, <3>1, <3>3, <3>4, <3>5, <3>6, <3>7 DEF Fates
  <2> QED
    BY <1>0, <1>3, <2>1, <2>2, AdvanceStep
<1>4. ASSUME NEW e \in Execs, NEW s \in Stages, Retry(e, s) PROVE RcaInOrder'
  <2>1. UNCHANGED <<state, diagnostic, diagnosis, diagnosed>> /\ s \in Tasks(state[e])
        /\ state[e] \in Diagnosing
    BY <1>4 DEF Retry, resultVars
  <2>2. PICK old \in Invocations, new \in Invocations, cause \in CausesOf(Current(e, s)) :
            /\ old = Current(e, s)
            /\ new.exec = e /\ new.stage = s /\ new # old
            /\ Current(e, s)' = new
            /\ \A f \in Execs, t \in Stages : f # e \/ t # s => Current(f, t)' = Current(f, t)
            /\ at'[old] = IF at[old] \in Running THEN at[old] ELSE "none"
            /\ at'[new] = "invoked"
            /\ \A i \in Invocations \ {old, new} : at'[i] = at[i]
            /\ outlived' = IF s = RCA /\ cause = "timeout" THEN outlived \cup {e} ELSE outlived
    BY <1>0, <1>4, RetryStep
  <2>3. CASE s # RCA
    <3>1. \A i \in Invocations : i.stage = RCA => at'[i] = at[i]
      BY <1>0, <2>2, <2>3, CurrentIsInvocation
    <3> QED
      BY <1>0, <1>1, <2>1, <2>2, <2>3, <3>1 DEF Stages
  <2>4. CASE s = RCA
    <3>1. state[e] = RCA
      BY <2>1, <2>4, TasksOfStates
        DEF Diagnosing, CORRELATE_LOGS, CORRELATE_CONFIG, RAG, RCA, RUNBOOK, NOTIFY
    <3>2. diagnostic[e] = 0
      BY <1>0, <3>1 DEF DiagnosticInOrder, Early
    <3>3. cause = "timeout" \/ at[old] \notin Running
      BY <2>2 DEF CausesOf
    <3>4. e \in outlived' \/ \A i \in Invocations : i.exec = e /\ i.stage = RCA /\ i # new => at'[i] = "none"
      BY <1>0, <2>2, <2>4, <3>1, <3>3
    <3>5. \A i \in Invocations : i # new => at'[i] \in {at[i], "none"}
      BY <2>2
    <3>6. RCA \notin {"due", "correlate", RAG} /\ "invoked" # "ok"
      BY DEF RCA, RAG
    <3>7. outlived \subseteq outlived'
      BY <2>2
    <3> QED
      BY <1>0, <1>1, <2>1, <2>2, <2>4, <3>1, <3>2, <3>4, <3>5, <3>6, <3>7
  <2> QED
    BY <2>3, <2>4
<1>5. ASSUME NEW e \in Execs, NEW q, Fall(e, q) PROVE RcaInOrder'
  <2>1. Goto(e, q) /\ UNCHANGED <<diagnostic, outlived, diagnosis, diagnosed>>
    BY <1>5 DEF Fall, resultVars
  <2>2. RCA \notin Tasks(q) /\ q \notin {"due", "correlate", RAG, RCA}
    BY <1>5, TasksOfStates DEF Fall, Handling, Ended, FAILED, RAG, RCA
  <2> QED
    BY <1>0, <1>1, <2>1, <2>2, GotoStep DEF Stages
<1>6. ASSUME NEW e \in Execs, TimedOutRule(e) PROVE RcaInOrder'
  <2>1. UNCHANGED <<diagnostic, outlived, diagnosis, diagnosed, used>>
    BY <1>6 DEF TimedOutRule, resultVars
  <2>2. \A f \in Execs, s \in Stages : Current(f, s)' = Current(f, s)
    BY <2>1 DEF Current
  <2>3. \A i \in Invocations : i.stage = RCA => at'[i] = at[i]
    BY <1>0, <1>6 DEF TimedOutRule, TypeOK, RCA, FAILED
  <2>4. \A f \in Execs : state'[f] = state[f] \/ (state[f] = "expired" /\ state'[f] = "timed_out")
    BY <1>0, <1>6 DEF TimedOutRule, TypeOK
  <2>5. "timed_out" \notin {"due", "correlate", RAG, RCA}
    BY DEF RAG, RCA
  <2> QED
    BY <1>0, <1>1, <2>1, <2>2, <2>3, <2>4, <2>5 DEF Stages
<1>7. ASSUME NEW i \in Invocations, Lambda(i) PROVE RcaInOrder'
  <2>1. CASE WriteDiagnosis(i)
    <3>1. /\ i.stage = RCA
          /\ diagnosis' = [exec |-> i.exec, attempt |-> i.attempt]
          /\ diagnosed' = diagnosed \cup {[exec |-> i.exec, attempt |-> i.attempt]}
      BY <2>1 DEF WriteDiagnosis
    <3>2. \A j \in Invocations \ {i} :
             j.stage = RCA /\ at[j] = "ok" =>
                \/ j.exec \in outlived
                \/ j.exec # i.exec
      <4>1. \A j \in Invocations : at[j] = "ok" => j = Current(j.exec, j.stage) /\ j.stage \in Tasks(state[j.exec])
        BY DEF IInv, FatesAreAwaited, IsAwaited, Fates
      <4>2. \A j \in Invocations : at[j] = "ok" /\ j.stage = RCA => state[j.exec] = RCA
        <5>1. \A q \in {"due"} \cup Diagnosing \cup Handling \cup Ended : RCA \in Tasks(q) => q = RCA
          BY TasksOfStates
            DEF Diagnosing, Handling, Ended, CORRELATE_LOGS, CORRELATE_CONFIG, RAG, RCA, RUNBOOK, NOTIFY, FAILED
        <5> QED
          BY <1>0, <1>1, <4>1, <5>1 DEF TypeOK
      <4>3. at[i] # "none"
        BY <1>0, <1>7, LambdaStep DEF Running
      <4> QED
        BY <1>0, <3>1, <4>1, <4>2, <4>3
    <3>3. \A j \in Invocations \ {i} : at'[j] = at[j]
      BY <1>0, <1>7, LambdaStep
    <3>4. UNCHANGED <<state, diagnostic, outlived>> /\ at[i] # "none"
          /\ \A e \in Execs, s \in Stages : Current(e, s)' = Current(e, s)
      BY <1>0, <1>7, LambdaStep DEF Running
    <3> QED
      BY <1>0, <1>1, <3>1, <3>2, <3>3, <3>4 DEF Stages
  <2>2. CASE ~ WriteDiagnosis(i)
    <3>1. UNCHANGED <<diagnosis, diagnosed>>
      BY <1>7, <2>2 DEF Lambda, ReadHistory, MarkStage, MarkFailed, GatherContext, WriteObject,
           WriteRunbook, PublishReady, RefuseAnswer, Die, resultVars
    <3>2. i.stage = RCA => at'[i] # "ok"
      <4>1. i.stage = RCA => \/ ReadHistory(i) \/ MarkStage(i) \/ RefuseAnswer(i) \/ Die(i)
        BY <1>7, <2>2 DEF Lambda, MarkFailed, GatherContext, WriteObject, WriteRunbook,
             PublishReady, RCA, CORRELATE_LOGS, CORRELATE_CONFIG, RAG, RUNBOOK, NOTIFY, FAILED
      <4> QED
        BY <1>0, <4>1 DEF ReadHistory, MarkStage, RefuseAnswer, Die, Step, End, TypeOK
    <3>3. \A j \in Invocations \ {i} : at'[j] = at[j]
      BY <1>0, <1>7, LambdaStep
    <3>4. UNCHANGED <<state, diagnostic, outlived>> /\ at[i] # "none"
          /\ \A e \in Execs, s \in Stages : Current(e, s)' = Current(e, s)
      BY <1>0, <1>7, LambdaStep DEF Running
    <3> QED
      BY <1>0, <1>1, <3>1, <3>2, <3>3, <3>4 DEF Stages
  <2> QED
    BY <2>1, <2>2
<1>8. ASSUME UNCHANGED vars PROVE RcaInOrder'
  BY <1>0, <1>1, <1>8 DEF vars, Current
<1> QED
  BY <1>2, <1>3, <1>4, <1>5, <1>6, <1>7, <1>8, MachineStep DEF Next

-----------------------------------------------------------------------------
(* The answer an execution carries.                                        *)

\* Only Advance out of generate_rca changes $.diagnostic.
LEMMA DiagnosticKept ==
  ASSUME IInv, [Next]_vars, NEW e \in Execs, diagnostic[e] # 0
  PROVE  diagnostic'[e] = diagnostic[e]
<1>0. TypeOK /\ state[e] # RCA
  BY DEF IInv, DiagnosticInOrder, Early
<1>1. ASSUME NEW f \in Execs, Advance(f) PROVE diagnostic'[e] = diagnostic[e]
  BY <1>0, <1>1, AdvanceStep DEF TypeOK
<1>2. ASSUME NEW f \in Execs,
             Start(f) \/ (\E s \in Stages : Retry(f, s)) \/ (\E q : Fall(f, q)) \/ TimedOutRule(f)
      PROVE  diagnostic' = diagnostic
  BY <1>2 DEF Start, Retry, Fall, TimedOutRule
<1>3. ASSUME NEW i \in Invocations, Lambda(i) PROVE diagnostic' = diagnostic
  BY <1>0, <1>3, LambdaStep
<1>4. ASSUME UNCHANGED vars PROVE diagnostic' = diagnostic
  BY <1>4 DEF vars
<1> QED
  BY <1>1, <1>2, <1>3, <1>4, MachineStep DEF Next

\* The rows only grow, except that the diagnosis is replaced.
LEMMA ResultsGrow ==
  ASSUME [Next]_vars
  PROVE  /\ diagnosed \subseteq diagnosed'
         /\ objects \subseteq objects'
         /\ runbooks \subseteq runbooks'
         /\ \/ diagnosis' = diagnosis
            \/ \E i \in Invocations : WriteDiagnosis(i)
<1>1. ASSUME NEW e \in Execs, Machine(e) \/ TimeOut(e)
      PROVE  UNCHANGED <<diagnosed, objects, runbooks, diagnosis>>
  BY <1>1, MachineStep DEF Start, Advance, Retry, Fall, TimedOutRule, resultVars
<1>2. ASSUME NEW i \in Invocations, Lambda(i)
      PROVE  /\ diagnosed \subseteq diagnosed'
             /\ objects \subseteq objects'
             /\ runbooks \subseteq runbooks'
             /\ diagnosis' = diagnosis \/ WriteDiagnosis(i)
  <2>1. CASE WriteDiagnosis(i)
    BY <2>1 DEF WriteDiagnosis
  <2>2. CASE WriteObject(i)
    BY <2>2 DEF WriteObject
  <2>3. CASE WriteRunbook(i)
    BY <2>3 DEF WriteRunbook
  <2>4. CASE PublishReady(i)
    BY <2>4 DEF PublishReady
  <2> QED
    BY <1>2, <2>1, <2>2, <2>3, <2>4 DEF Lambda, ReadHistory, MarkStage, MarkFailed,
       GatherContext, RefuseAnswer, Die, resultVars
<1>3. ASSUME UNCHANGED vars
      PROVE  UNCHANGED <<diagnosed, objects, runbooks, diagnosis>>
  BY <1>3 DEF vars
<1> QED
  BY <1>1, <1>2, <1>3 DEF Next

\* Where an execution can go, as far as its results are concerned.
LEMMA StateStep ==
  ASSUME TypeOK, [Next]_vars, NEW e \in Execs
  PROVE  \/ state'[e] = state[e] /\ diagnostic'[e] = diagnostic[e]
         \/ state[e] = "due" /\ state'[e] = "correlate" /\ diagnostic'[e] = diagnostic[e]
         \/ Advance(e) /\ state'[e] = After(state[e])
         \/ state'[e] \in Handling \cup {"failed", "expired", "timed_out"}
              /\ diagnostic'[e] = diagnostic[e]
<1>1. ASSUME NEW f \in Execs, Start(f)
      PROVE  /\ diagnostic' = diagnostic
             /\ state'[e] = state[e] \/ (state[e] = "due" /\ state'[e] = "correlate")
  BY <1>1, GotoStep DEF Start
<1>2. ASSUME NEW f \in Execs, Advance(f)
      PROVE  IF e = f THEN state'[e] = After(state[e])
             ELSE state'[e] = state[e] /\ diagnostic'[e] = diagnostic[e]
  BY <1>2, AdvanceStep, GotoStep DEF TypeOK
<1>3. ASSUME NEW f \in Execs, NEW s \in Stages, Retry(f, s)
      PROVE  state'[e] = state[e] /\ diagnostic' = diagnostic
  BY <1>3 DEF Retry
<1>4. ASSUME NEW f \in Execs, NEW q, Fall(f, q)
      PROVE  /\ diagnostic' = diagnostic
             /\ state'[e] = state[e] \/ state'[e] \in Handling \cup {"failed", "expired"}
  BY <1>4, GotoStep DEF Fall
<1>5. ASSUME NEW f \in Execs, TimedOutRule(f)
      PROVE  /\ diagnostic' = diagnostic
             /\ state'[e] = state[e] \/ state'[e] = "timed_out"
  BY <1>5 DEF TimedOutRule, TypeOK
<1>6. ASSUME NEW i \in Invocations, Lambda(i)
      PROVE  state' = state /\ diagnostic' = diagnostic
  BY <1>6, LambdaStep
<1>7. ASSUME UNCHANGED vars PROVE state' = state /\ diagnostic' = diagnostic
  BY <1>7 DEF vars
<1> QED
  BY <1>1, <1>2, <1>3, <1>4, <1>5, <1>6, <1>7, MachineStep DEF Next

LEMMA DiagnosticStep ==
  ASSUME IInv, [Next]_vars
  PROVE  DiagnosticInOrder'
<1> SUFFICES ASSUME NEW e \in Execs
             PROVE  /\ state'[e] \in Early => diagnostic'[e] = 0
                    /\ state'[e] \in {RUNBOOK, NOTIFY, "succeeded"} => diagnostic'[e] # 0
                    /\ diagnostic'[e] # 0 =>
                          /\ Runbook(e)' \in diagnosed'
                          /\ e \in outlived' \/ IsLast(Runbook(e))'
  BY DEF DiagnosticInOrder
<1>0. /\ TypeOK
      /\ state[e] \in Early => diagnostic[e] = 0
      /\ state[e] \in {RUNBOOK, NOTIFY, "succeeded"} => diagnostic[e] # 0
      /\ diagnostic[e] # 0 =>
            /\ Runbook(e) \in diagnosed
            /\ e \in outlived \/ IsLast(Runbook(e))
  BY DEF IInv, DiagnosticInOrder
<1>1. CASE Advance(e) /\ state[e] = RCA
  <2> DEFINE i == Current(e, RCA)
  <2>1. /\ i \in Invocations /\ i.exec = e /\ i.stage = RCA /\ i.attempt \in 1..3
        /\ at[i] = "ok"
    BY <1>0, <1>1, AdvanceStep, CurrentIsInvocation DEF Stages
  <2>2. LET d == [exec |-> i.exec, attempt |-> i.attempt] IN
        /\ d \in diagnosed
        /\ e \in outlived \/ IsLast(d)
    BY <2>1 DEF IInv, RcaInOrder
  <2>3. /\ diagnostic'[e] = i.attempt
        /\ UNCHANGED <<outlived, diagnosis, diagnosed>>
        /\ state'[e] = RUNBOOK
    BY <1>0, <1>1, AdvanceStep, GotoStep DEF TypeOK, RCA, RAG, RUNBOOK, NOTIFY
  <2>4. Runbook(e)' = [exec |-> i.exec, attempt |-> i.attempt]
    BY <2>1, <2>3 DEF Runbook
  <2>5. RUNBOOK \notin Early
    BY DEF Early, RUNBOOK, RAG, RCA
  <2> QED
    BY <2>1, <2>2, <2>3, <2>4, <2>5 DEF IsLast
<1>2. CASE ~ (Advance(e) /\ state[e] = RCA)
  <2>1. diagnostic'[e] = diagnostic[e]
    BY <1>0, <1>2, StateStep, AdvanceStep
  <2>2. /\ state'[e] \in Early => state[e] \in Early
        /\ state'[e] \in {RUNBOOK, NOTIFY, "succeeded"} =>
              state[e] \in {RUNBOOK, NOTIFY, "succeeded"}
    BY <1>0, <1>2, StateStep, AdvanceStep DEF Early, Handling, RAG, RCA, RUNBOOK, NOTIFY
  <2>3. Runbook(e)' = Runbook(e)
    BY <2>1 DEF Runbook
  <2>4. ASSUME diagnostic[e] # 0, NEW i \in Invocations, WriteDiagnosis(i)
        PROVE  e \in outlived' \/ IsLast(Runbook(e))'
    <3>1. /\ outlived' = outlived /\ at[i] = "marked" /\ i.stage = RCA
          /\ diagnosis' = [exec |-> i.exec, attempt |-> i.attempt]
          /\ diagnosed' = diagnosed \cup {diagnosis'}
      BY <2>4 DEF WriteDiagnosis, machineVars, End, Step
    <3>2. CASE i.exec = e
      BY <2>4, <3>1, <3>2 DEF IInv, RcaInOrder
    <3>3. CASE i.exec # e
      BY <2>3, <3>1, <3>3 DEF IsLast, Runbook
    <3> QED
      BY <3>2, <3>3
  <2>5. outlived \subseteq outlived'
    <3>1. ASSUME NEW f \in Execs, NEW s \in Stages, Retry(f, s) PROVE outlived \subseteq outlived'
      BY <1>0, <3>1, RetryStep
    <3>2. ASSUME NEW f \in Execs,
                 Start(f) \/ Advance(f) \/ (\E q : Fall(f, q)) \/ TimedOutRule(f)
          PROVE  outlived' = outlived
      BY <3>2 DEF Start, Advance, Fall, TimedOutRule
    <3>3. ASSUME NEW i \in Invocations, Lambda(i) PROVE outlived' = outlived
      BY <1>0, <3>3, LambdaStep
    <3> QED
      BY <3>1, <3>2, <3>3, MachineStep DEF Next, vars
  <2>6. ASSUME diagnostic[e] # 0, diagnosis' = diagnosis
        PROVE  e \in outlived' \/ IsLast(Runbook(e))'
    BY <1>0, <2>3, <2>5, <2>6, ResultsGrow DEF IsLast
  <2> QED
    BY <1>0, <2>1, <2>2, <2>3, <2>4, <2>6, ResultsGrow
<1> QED
  BY <1>1, <1>2

-----------------------------------------------------------------------------
(* Runbooks and their announcement.                                        *)

\* The machine invokes a late task only as it enters, or waits in, its state.
LEMMA LateInvocation ==
  ASSUME TypeOK, NEW e \in Execs, Machine(e) \/ TimeOut(e),
         NEW i \in Invocations, i.stage \in {RUNBOOK, NOTIFY}, at'[i] \notin {at[i], "none"}
  PROVE  at'[i] = "invoked" /\ i.exec = e /\ state'[e] = i.stage
<1>0. \A q \in {"due"} \cup Diagnosing \cup Handling \cup Ended :
         i.stage \in Tasks(q) => q = i.stage
  BY TasksOfStates
    DEF Diagnosing, Handling, Ended, CORRELATE_LOGS, CORRELATE_CONFIG, RAG, RCA, RUNBOOK, NOTIFY, FAILED
<1>1. ASSUME NEW q \in {"due"} \cup Diagnosing \cup Handling \cup Ended, Goto(e, q)
      PROVE  at'[i] = "invoked" /\ i.exec = e /\ state'[e] = i.stage
  BY <1>0, <1>1, GotoStep
<1>2. ASSUME NEW s \in Stages, Retry(e, s)
      PROVE  at'[i] = "invoked" /\ i.exec = e /\ state'[e] = i.stage
  <2>1. at'[i] = "invoked" /\ i.exec = e /\ i.stage = s
    BY <1>2, RetryStep
  <2>2. state' = state /\ s \in Tasks(state[e])
    BY <1>2 DEF Retry
  <2> QED
    BY <1>0, <2>1, <2>2 DEF TypeOK
<1>3. ~ TimedOutRule(e)
  BY DEF TimedOutRule, TypeOK, RUNBOOK, NOTIFY, FAILED
<1>4. Start(e) => Goto(e, "correlate")
  BY DEF Start
<1>5. Advance(e) => \E q \in {"due"} \cup Diagnosing \cup Handling \cup Ended : Goto(e, q)
  BY AdvanceStep DEF Diagnosing, Ended
<1>6. \A q : Fall(e, q) => q \in {"due"} \cup Diagnosing \cup Handling \cup Ended /\ Goto(e, q)
  BY DEF Fall, Ended
<1> QED
  BY <1>1, <1>2, <1>3, <1>4, <1>5, <1>6, MachineStep DEF Diagnosing

\* Of the invocations, only those of generate_runbook write runbooks, in the
\* order document, row, answer.
LEMMA RunbookWrites ==
  ASSUME TypeOK, NEW i \in Invocations, Lambda(i)
  PROVE  /\ objects' \cup runbooks' # objects \cup runbooks => i.stage = RUNBOOK
         /\ objects' \subseteq objects \cup {RunbookOf(i)}
         /\ runbooks' \subseteq runbooks \cup {RunbookOf(i)}
         /\ runbooks' # runbooks => i.stage = RUNBOOK /\ at[i] = "stored"
         /\ i.stage = RUNBOOK /\ at'[i] = "stored" =>
               at[i] = "stored" \/ RunbookOf(i) \in objects'
         /\ i.stage = RUNBOOK /\ at'[i] = "ok" => RunbookOf(i) \in runbooks'
<1>1. CASE WriteObject(i)
  BY <1>1 DEF WriteObject, Step, TypeOK
<1>2. CASE WriteRunbook(i)
  <2>1. /\ i.stage = RUNBOOK /\ at[i] = "stored"
        /\ runbooks' = runbooks \cup {RunbookOf(i)} /\ objects' = objects
    BY <1>2 DEF WriteRunbook, End, Step
  <2> QED
    BY <2>1
<1>3. CASE ~ WriteObject(i) /\ ~ WriteRunbook(i)
  <2>1. UNCHANGED <<objects, runbooks>>
    BY <1>3 DEF Lambda, ReadHistory, MarkStage, MarkFailed, GatherContext, WriteDiagnosis,
       PublishReady, RefuseAnswer, Die, resultVars
  <2>2. i.stage = RUNBOOK => ReadHistory(i) \/ MarkStage(i) \/ RefuseAnswer(i) \/ Die(i)
    BY <1>3 DEF Lambda, MarkFailed, GatherContext, WriteDiagnosis, PublishReady,
       CORRELATE_LOGS, CORRELATE_CONFIG, RAG, RCA, RUNBOOK, NOTIFY, FAILED
  <2>3. i.stage = RUNBOOK => at'[i] \notin {"stored", "ok"}
    BY <2>2 DEF ReadHistory, MarkStage, RefuseAnswer, Die, Step, End, TypeOK
  <2> QED
    BY <2>1, <2>3
<1> QED
  BY <1>1, <1>2, <1>3

LEMMA RunbooksStep ==
  ASSUME IInv, [Next]_vars
  PROVE  RunbooksInOrder'
<1>0. TypeOK /\ RunbooksInOrder /\ DiagnosticInOrder'
  BY DiagnosticStep DEF IInv
<1>1. \A i \in Invocations : i.exec \in Execs
  BY DEF Invocations
<1>2. \A e \in Execs : diagnostic[e] # 0 => diagnostic'[e] = diagnostic[e] /\ Runbook(e)' = Runbook(e)
  BY DiagnosticKept DEF Runbook
<1>3. \A b \in objects \cup runbooks : b.exec \in Execs
  BY <1>0 DEF TypeOK, Diagnoses
<1>4. ASSUME NEW e \in Execs, Machine(e) \/ TimeOut(e) PROVE RunbooksInOrder'
  <2>1. UNCHANGED <<objects, runbooks>>
    BY <1>4, MachineStep DEF Start, Advance, Retry, Fall, TimedOutRule, resultVars
  <2>2. \A i \in Invocations : i.stage \in {RUNBOOK, NOTIFY} /\ at'[i] \notin {at[i], "none"} =>
           at'[i] = "invoked" /\ diagnostic'[i.exec] # 0
    BY <1>0, <1>1, <1>4, LateInvocation DEF DiagnosticInOrder
  <2> QED
    BY <1>0, <1>1, <1>2, <1>3, <2>1, <2>2 DEF RunbooksInOrder
<1>5. ASSUME NEW i \in Invocations, Lambda(i) PROVE RunbooksInOrder'
  <2>1. at[i] # "none" /\ \A j \in Invocations \ {i} : at'[j] = at[j]
    BY <1>0, <1>5, LambdaStep DEF Running
  <2>2. RunbookOf(i) = Runbook(i.exec) /\ RunbookOf(i).exec = i.exec
    BY DEF RunbookOf, Runbook
  <2>3. i.stage = RUNBOOK => diagnostic[i.exec] # 0
    BY <1>0, <2>1 DEF RunbooksInOrder
  <2>4. \A b \in objects' \cup runbooks' : diagnostic'[b.exec] # 0 /\ b = Runbook(b.exec)'
    BY <1>0, <1>1, <1>2, <1>3, <1>5, <2>2, <2>3, RunbookWrites DEF RunbooksInOrder
  <2>5. runbooks' \subseteq objects'
    BY <1>0, <1>5, <2>2, RunbookWrites, ResultsGrow DEF RunbooksInOrder
  <2>6. ASSUME NEW j \in Invocations, j.stage \in {RUNBOOK, NOTIFY}, at'[j] # "none"
        PROVE  /\ diagnostic'[j.exec] # 0
               /\ j.stage = RUNBOOK /\ at'[j] = "stored" => Runbook(j.exec)' \in objects'
               /\ j.stage = RUNBOOK /\ at'[j] = "ok" => Runbook(j.exec)' \in runbooks'
    <3>1. diagnostic[j.exec] # 0
      BY <1>0, <2>1, <2>6 DEF RunbooksInOrder
    <3>2. CASE j = i
      <4>1. at[j] = "stored" /\ j.stage = RUNBOOK => Runbook(j.exec) \in objects'
        BY <1>0, <1>5, ResultsGrow DEF RunbooksInOrder
      <4> QED
        BY <1>0, <1>1, <1>2, <1>5, <2>2, <2>6, <3>1, <3>2, <4>1, RunbookWrites
    <3>3. CASE j # i
      BY <1>0, <1>1, <1>2, <2>1, <2>6, <3>1, <3>3, ResultsGrow DEF RunbooksInOrder
    <3> QED
      BY <3>2, <3>3
  <2> QED
    BY <2>4, <2>5, <2>6 DEF RunbooksInOrder
<1>6. ASSUME UNCHANGED vars PROVE RunbooksInOrder'
  BY <1>0, <1>6 DEF vars, RunbooksInOrder, Runbook
<1> QED
  BY <1>4, <1>5, <1>6 DEF Next

LEMMA ReadyStep ==
  ASSUME IInv, [Next]_vars
  PROVE  ReadyInOrder'
<1>0. TypeOK /\ ReadyInOrder /\ RunbooksInOrder
  BY DEF IInv
<1>1. \A i \in Invocations : i.exec \in Execs
  BY DEF Invocations
<1>2. \A e \in Execs : Runbook(e) \in runbooks => Runbook(e)' \in runbooks'
  <2>1. \A e \in Execs : Runbook(e) \in runbooks => diagnostic[e] # 0
    BY <1>0 DEF RunbooksInOrder, Runbook
  <2>2. \A e \in Execs : diagnostic[e] # 0 => Runbook(e)' = Runbook(e)
    BY DiagnosticKept DEF Runbook
  <2> QED
    BY <2>1, <2>2, ResultsGrow
<1>3. ASSUME NEW e \in Execs, state'[e] \in {NOTIFY, "succeeded"} PROVE Runbook(e)' \in runbooks'
  <2>1. CASE state[e] \in {NOTIFY, "succeeded"}
    BY <1>0, <1>2, <2>1 DEF ReadyInOrder
  <2>2. CASE state[e] \notin {NOTIFY, "succeeded"}
    <3>1. Advance(e) /\ state[e] = RUNBOOK
      BY <1>0, <1>3, <2>2, StateStep, AdvanceStep DEF Handling, RAG, RCA, RUNBOOK, NOTIFY
    <3>2. Current(e, RUNBOOK) \in Invocations /\ Current(e, RUNBOOK).exec = e
          /\ Current(e, RUNBOOK).stage = RUNBOOK
      BY <1>0, CurrentIsInvocation DEF Stages
    <3>3. at[Current(e, RUNBOOK)] = "ok"
      BY <1>0, <3>1, AdvanceStep
    <3> QED
      BY <1>0, <1>2, <3>2, <3>3 DEF RunbooksInOrder
  <2> QED
    BY <2>1, <2>2
<1>4. ASSUME NEW i \in Invocations, i.stage = NOTIFY, at'[i] # "none"
      PROVE  Runbook(i.exec)' \in runbooks'
  <2>1. CASE at[i] # "none"
    BY <1>0, <1>1, <1>2, <1>4, <2>1 DEF ReadyInOrder
  <2>2. CASE at[i] = "none"
    <3>1. PICK e \in Execs : Machine(e) \/ TimeOut(e)
      <4>1. \A j \in Invocations : ~ Lambda(j)
        BY <1>0, <1>4, <2>2, LambdaStep DEF Running
      <4>2. ~ UNCHANGED vars
        BY <1>4, <2>2 DEF vars
      <4> QED
        BY <4>1, <4>2 DEF Next
    <3> QED
      BY <1>0, <1>3, <1>4, <2>2, <3>1, LateInvocation
  <2> QED
    BY <2>1, <2>2
<1>5. ASSUME NEW e \in announced' PROVE e \in Execs => Runbook(e)' \in runbooks'
  <2>1. CASE e \in announced
    BY <1>0, <1>2, <2>1 DEF ReadyInOrder
  <2>2. CASE e \notin announced
    <3>1. PICK i \in Invocations : PublishReady(i)
      <4>1. ~ UNCHANGED announced
        BY <1>5, <2>2
      <4>2. ASSUME NEW f \in Execs, Machine(f) \/ TimeOut(f) PROVE FALSE
        BY <4>1, <4>2, MachineStep DEF Start, Advance, Retry, Fall, TimedOutRule, resultVars
      <4>3. ASSUME NEW i \in Invocations, Lambda(i) PROVE PublishReady(i)
        BY <4>1, <4>3 DEF Lambda, ReadHistory, MarkStage, MarkFailed, GatherContext, WriteObject,
           WriteRunbook, WriteDiagnosis, RefuseAnswer, Die, resultVars
      <4> QED
        BY <4>1, <4>2, <4>3 DEF Next, vars
    <3>2. i.exec = e /\ i.stage = NOTIFY /\ at[i] = "marked"
      BY <1>5, <2>2, <3>1 DEF PublishReady, End, Step
    <3> QED
      BY <1>0, <1>2, <3>2 DEF ReadyInOrder
  <2> QED
    BY <2>1, <2>2
<1> QED
  BY <1>3, <1>4, <1>5 DEF ReadyInOrder

-----------------------------------------------------------------------------
(* The timeline.                                                           *)

LEMMA MarksStep ==
  ASSUME IInv, [Next]_vars
  PROVE  TimelineIsTrue' /\ MarksInOrder'
<1>0. TypeOK /\ TimelineIsTrue /\ MarksInOrder
  BY DEF IInv
<1>1. diagnosed \subseteq diagnosed' /\ runbooks \subseteq runbooks'
  BY ResultsGrow
<1>2. ASSUME UNCHANGED <<read, seen>> PROVE TimelineIsTrue' /\ MarksInOrder'
  BY <1>0, <1>1, <1>2 DEF TimelineIsTrue, MarksInOrder
<1>3. ASSUME NEW i \in Invocations, ReadHistory(i) PROVE TimelineIsTrue' /\ MarksInOrder'
  <2>1. /\ UNCHANGED seen
        /\ at[i] # "none"
        /\ \/ read' = [read EXCEPT ![i] = ({i.stage} \cap Watched) \cup seen]
           \/ read' = [read EXCEPT ![i] = {i.stage} \cap Watched]
    BY <1>3 DEF ReadHistory, Step
  <2>2. i.exec \in Execs
    BY DEF Invocations
  <2>3. i.stage = RUNBOOK => diagnosed # {}
    BY <2>1, <2>2 DEF IInv, RunbooksInOrder, DiagnosticInOrder
  <2>4. i.stage = NOTIFY => runbooks # {}
    BY <2>1 DEF IInv, ReadyInOrder
  <2>5. \A j \in Invocations :
           read'[j] \subseteq read[j] \cup seen \cup (IF j = i THEN {i.stage} ELSE {})
    BY <1>0, <2>1 DEF TypeOK
  <2> QED
    BY <1>0, <1>1, <2>1, <2>3, <2>4, <2>5 DEF TimelineIsTrue, MarksInOrder
<1>4. ASSUME NEW i \in Invocations, Mark(i) PROVE TimelineIsTrue' /\ MarksInOrder'
  <2>1. seen' \in {seen, read[i]} /\ read' = [read EXCEPT ![i] = {}]
    BY <1>4 DEF Mark
  <2>2. \A j \in Invocations : read'[j] \in {read[j], {}}
    BY <1>0, <2>1 DEF TypeOK
  <2> QED
    BY <1>0, <1>1, <2>1, <2>2 DEF TimelineIsTrue, MarksInOrder
<1>5. ASSUME NEW i \in Invocations, Die(i) PROVE TimelineIsTrue' /\ MarksInOrder'
  <2>1. UNCHANGED seen /\ read' = [read EXCEPT ![i] = {}]
    BY <1>5 DEF Die
  <2>2. \A j \in Invocations : read'[j] \in {read[j], {}}
    BY <1>0, <2>1 DEF TypeOK
  <2> QED
    BY <1>0, <1>1, <2>1, <2>2 DEF TimelineIsTrue, MarksInOrder
<1>6. ASSUME NEW i \in Invocations, Lambda(i)
      PROVE  ReadHistory(i) \/ Mark(i) \/ Die(i) \/ UNCHANGED <<read, seen>>
  BY <1>6 DEF Lambda, MarkStage, MarkFailed, GatherContext, WriteDiagnosis, WriteObject,
     WriteRunbook, PublishReady, RefuseAnswer, markVars
<1>7. ASSUME NEW e \in Execs, Machine(e) \/ TimeOut(e) PROVE UNCHANGED <<read, seen>>
  BY <1>7, MachineStep DEF Start, Advance, Retry, Fall, TimedOutRule, markVars
<1>8. ASSUME UNCHANGED vars PROVE UNCHANGED <<read, seen>>
  BY <1>8 DEF vars
<1> QED
  BY <1>2, <1>3, <1>4, <1>5, <1>6, <1>7, <1>8 DEF Next

-----------------------------------------------------------------------------
(* The failure path.                                                       *)

\* Once fn-mark-pipeline-failed has been invoked for an execution, that is not
\* forgotten before it has run.
LEMMA AttemptedKept ==
  ASSUME IInv, [Next]_vars, NEW e \in Execs, Attempted(e)
  PROVE  Attempted(e)'
<1> DEFINE i == [exec |-> e, stage |-> FAILED, attempt |-> 1]
<1>0. TypeOK /\ i \in Invocations /\ (at[i] \in Fates => e \in handled)
  BY DEF IInv, FailureInOrder, Invocations, Stages
<1> HIDE DEF i
<1>1. handled \subseteq handled'
  <2>1. ASSUME NEW f \in Execs, Machine(f) \/ TimeOut(f) PROVE handled' = handled
    BY <2>1, MachineStep DEF Start, Advance, Retry, Fall, TimedOutRule, markVars
  <2>2. ASSUME NEW j \in Invocations, Lambda(j) PROVE handled \subseteq handled'
    BY <2>2 DEF Lambda, ReadHistory, MarkStage, MarkFailed, GatherContext, WriteDiagnosis,
       WriteObject, WriteRunbook, PublishReady, RefuseAnswer, Die, markVars
  <2> QED
    BY <2>1, <2>2 DEF Next, vars
<1>2. CASE e \in handled
  BY <1>1, <1>2 DEF Attempted
<1>3. CASE e \notin handled
  <2>1. at[i] \notin Fates \cup {"none"}
    BY <1>0, <1>3 DEF Attempted, i
  <2>2. i.stage = FAILED /\ i.exec = e
    BY DEF i
  <2>3. ASSUME NEW f \in Execs, NEW q, Goto(f, q) PROVE at'[i] # "none"
    BY <1>0, <2>1, <2>3, GotoStep
  <2>4. ASSUME NEW f \in Execs, NEW s \in Stages, Retry(f, s) PROVE at'[i] # "none"
    <3>1. at[i] \in Running
      BY <1>0, <2>1 DEF TypeOK, Running, Fates
    <3> QED
      BY <1>0, <2>1, <2>4, <3>1, RetryStep
  <2>5. ASSUME NEW f \in Execs, TimedOutRule(f) PROVE at'[i] # "none"
    BY <1>0, <2>1, <2>5 DEF TimedOutRule, TypeOK
  <2>6. ASSUME NEW j \in Invocations, Lambda(j) PROVE at'[i] # "none" \/ e \in handled'
    <3>1. CASE j # i
      BY <1>0, <2>1, <2>6, <3>1, LambdaStep
    <3>2. CASE j = i
      <4>1. ReadHistory(i) \/ MarkFailed(i) \/ Die(i)
        BY <2>2, <2>6, <3>2 DEF Lambda, MarkStage, GatherContext, WriteDiagnosis, WriteObject,
           WriteRunbook, PublishReady, RefuseAnswer,
           CORRELATE_LOGS, CORRELATE_CONFIG, RAG, RCA, RUNBOOK, NOTIFY, FAILED
      <4> QED
        BY <1>0, <2>2, <4>1 DEF ReadHistory, Step, MarkFailed, Die, TypeOK
    <3> QED
      BY <3>1, <3>2
  <2>7. Start(e) \/ Advance(e) => \E q : Goto(e, q)
    BY DEF Start, Advance
  <2>8. at'[i] # "none" \/ e \in handled'
    <3>1. ASSUME NEW f \in Execs, Machine(f) \/ TimeOut(f) PROVE at'[i] # "none"
      <4>1. Start(f) \/ Advance(f) \/ (\E q : Fall(f, q)) => \E q : Goto(f, q)
        BY DEF Start, Advance, Fall
      <4> QED
        BY <2>3, <2>4, <2>5, <3>1, <4>1, MachineStep
    <3>2. UNCHANGED vars => at' = at
      BY DEF vars
    <3> QED
      BY <2>1, <2>6, <3>1, <3>2 DEF Next
  <2> QED
    BY <2>8 DEF Attempted, i
<1> QED
  BY <1>2, <1>3

LEMMA FailureStep ==
  ASSUME IInv, [Next]_vars
  PROVE  FailureInOrder'
<1> DEFINE Reported(e) ==
             /\ e \in dlq => state[e] \in {"notify_ops", "failed", "expired", "timed_out"}
             /\ state[e] = "notify_ops" => e \in dlq
             /\ state[e] \in Handling \cup {"failed"} \/ e \in dlq => Attempted(e)
           Heard == \A i \in Invocations : i.stage = FAILED /\ at[i] \in Fates => i.exec \in handled
<1>0. TypeOK /\ ops \subseteq dlq /\ (\A e \in Execs : Reported(e)) /\ Heard
  BY DEF IInv, FailureInOrder
<1>1. \A e \in Execs : Attempted(e) => Attempted(e)'
  BY AttemptedKept
<1>2. ASSUME NEW i \in Invocations, Lambda(i) PROVE FailureInOrder'
  <2>1. UNCHANGED <<state, dlq, ops>> /\ \A j \in Invocations \ {i} : at'[j] = at[j]
    BY <1>0, <1>2, LambdaStep
  <2>2. handled \subseteq handled'
        /\ (i.stage = FAILED /\ at'[i] \in Fates => i.exec \in handled')
    <3>1. CASE MarkFailed(i) \/ Die(i)
      BY <3>1 DEF MarkFailed, Die
    <3>2. CASE ~ (MarkFailed(i) \/ Die(i))
      <4>1. handled' = handled
        BY <1>2, <3>2 DEF Lambda, ReadHistory, MarkStage, GatherContext, WriteDiagnosis,
           WriteObject, WriteRunbook, PublishReady, RefuseAnswer, markVars
      <4>2. i.stage = FAILED => ReadHistory(i)
        BY <1>2, <3>2 DEF Lambda, MarkStage, GatherContext, WriteDiagnosis, WriteObject,
           WriteRunbook, PublishReady, RefuseAnswer,
           CORRELATE_LOGS, CORRELATE_CONFIG, RAG, RCA, RUNBOOK, NOTIFY, FAILED
      <4> QED
        BY <1>0, <4>1, <4>2 DEF ReadHistory, Step, TypeOK, Fates
    <3> QED
      BY <3>1, <3>2
  <2> QED
    BY <1>0, <1>1, <2>1, <2>2 DEF FailureInOrder
<1>3. ASSUME NEW e \in Execs, Machine(e) \/ TimeOut(e) PROVE Heard'
  <2>1. handled' = handled
    BY <1>3, MachineStep DEF Start, Advance, Retry, Fall, TimedOutRule, markVars
  <2>2. ASSUME NEW q, Goto(e, q) PROVE \A i \in Invocations : at'[i] \in Fates => at[i] \in Fates
    BY <1>0, <2>2, GotoStep DEF Fates
  <2>3. ASSUME NEW s \in Stages, Retry(e, s)
        PROVE  \A i \in Invocations : at'[i] \in Fates => at[i] \in Fates
    BY <1>0, <2>3, RetryStep DEF Fates, Running
  <2>4. ASSUME TimedOutRule(e) PROVE \A i \in Invocations : at'[i] \in Fates => at[i] \in Fates
    BY <1>0, <2>4 DEF TimedOutRule, TypeOK, Fates
  <2>5. Start(e) \/ Advance(e) \/ (\E q : Fall(e, q)) => \E q : Goto(e, q)
    BY DEF Start, Advance, Fall
  <2> QED
    BY <1>0, <1>3, <2>1, <2>2, <2>3, <2>4, <2>5, MachineStep
<1>4. ASSUME NEW e \in Execs, NEW q, Goto(e, q), UNCHANGED handled,
             q \in Handling \cup {"failed"} => q = "mark_failed" \/ Attempted(e),
             q = "notify_ops" => e \in dlq',
             e \in dlq' => q \in {"notify_ops", "failed", "expired", "timed_out"} /\ Attempted(e),
             dlq \subseteq dlq', dlq' \subseteq dlq \cup {e}, ops' \subseteq dlq', Heard'
      PROVE  FailureInOrder'
  <2>1. q = "mark_failed" => Attempted(e)'
    <3> DEFINE i == [exec |-> e, stage |-> FAILED, attempt |-> 1]
    <3>1. i \in Invocations /\ i.exec = e /\ i.stage = FAILED /\ i.attempt = 1
      BY DEF Invocations, Stages
    <3> HIDE DEF i
    <3>2. q = "mark_failed" => at'[i] = "invoked"
      BY <1>0, <1>4, <3>1, GotoStep, TasksOfStates
    <3> QED
      BY <3>2 DEF Attempted, i
  <2>2. Reported(e)'
    <3>1. state'[e] = q
      BY <1>0, <1>4, GotoStep
    <3> QED
      BY <1>1, <1>4, <2>1, <3>1
  <2>3. \A f \in Execs \ {e} : Reported(f)'
    BY <1>0, <1>1, <1>4, GotoStep
  <2> QED
    BY <1>4, <2>2, <2>3 DEF FailureInOrder
<1> USE DEF Handling
<1>5. ASSUME NEW e \in Execs, Start(e) PROVE FailureInOrder'
  <2>1. Goto(e, "correlate") /\ UNCHANGED <<handled, dlq, ops>> /\ state[e] = "due"
    BY <1>5 DEF Start, markVars, failureVars
  <2>2. Heard'
    BY <1>3, <1>5 DEF Machine
  <2> QED
    BY <1>0, <1>4, <2>1, <2>2
<1>6. ASSUME NEW e \in Execs, Advance(e) PROVE FailureInOrder'
  <2>1. Goto(e, After(state[e])) /\ UNCHANGED <<handled, dlq, ops>> /\ state[e] \in Diagnosing
    BY <1>6 DEF Advance, markVars, failureVars
  <2>2. Heard'
    BY <1>3, <1>6 DEF Machine
  <2>3. After(state[e]) \in {RAG, RCA, RUNBOOK, NOTIFY, "succeeded"}
    BY <1>0, <1>6, AdvanceStep
  <2> QED
    BY <1>0, <1>4, <2>1, <2>2, <2>3 DEF Diagnosing, RAG, RCA, RUNBOOK, NOTIFY
<1>7. ASSUME NEW e \in Execs, NEW s \in Stages, Retry(e, s) PROVE FailureInOrder'
  <2>1. UNCHANGED <<state, dlq, ops>>
    BY <1>7 DEF Retry, failureVars
  <2>2. Heard'
    BY <1>3, <1>7 DEF Machine
  <2> QED
    BY <1>0, <1>1, <2>1, <2>2 DEF FailureInOrder
<1>8. ASSUME NEW e \in Execs, Catch(e) PROVE FailureInOrder'
  <2>1. Goto(e, "mark_failed") /\ UNCHANGED <<handled, dlq, ops>> /\ state[e] \in Diagnosing
    BY <1>8 DEF Catch, markVars, failureVars
  <2>2. Heard'
    BY <1>3, <1>8 DEF Machine
  <2> QED
    BY <1>0, <1>4, <2>1, <2>2 DEF Diagnosing, RAG, RCA, RUNBOOK, NOTIFY
<1>9. ASSUME NEW e \in Execs, LeaveMarkFailed(e) PROVE FailureInOrder'
  <2>1. Goto(e, "send_dlq") /\ UNCHANGED <<handled, dlq, ops>> /\ state[e] = "mark_failed"
    BY <1>9 DEF LeaveMarkFailed, markVars, failureVars
  <2>2. Heard'
    BY <1>3, <1>9 DEF Machine
  <2> QED
    BY <1>0, <1>4, <2>1, <2>2
<1>10. ASSUME NEW e \in Execs, SendToFailureDlq(e) PROVE FailureInOrder'
  <2>1. /\ UNCHANGED <<handled, ops>> /\ state[e] = "send_dlq"
        /\ \/ Goto(e, "notify_ops") /\ dlq' = dlq \cup {e}
           \/ Goto(e, "failed") /\ UNCHANGED dlq
    BY <1>10 DEF SendToFailureDlq, markVars
  <2>2. Heard'
    BY <1>3, <1>10 DEF Machine
  <2> QED
    BY <1>0, <1>4, <2>1, <2>2
<1>11. ASSUME NEW e \in Execs, NotifyOpsFailure(e) PROVE FailureInOrder'
  <2>1. /\ UNCHANGED <<handled, dlq>> /\ state[e] = "notify_ops"
        /\ Goto(e, "failed") /\ ops' \in {ops, ops \cup {e}}
    BY <1>11 DEF NotifyOpsFailure, markVars
  <2>2. Heard'
    BY <1>3, <1>11 DEF Machine
  <2> QED
    BY <1>0, <1>4, <2>1, <2>2
<1>12. ASSUME NEW e \in Execs, TimeOut(e) PROVE FailureInOrder'
  <2>1. Goto(e, "expired") /\ UNCHANGED <<handled, dlq, ops>>
    BY <1>12 DEF TimeOut, markVars, failureVars
  <2>2. Heard'
    BY <1>3, <1>12
  <2> QED
    BY <1>0, <1>4, <2>1, <2>2
<1>13. ASSUME NEW e \in Execs, TimedOutRule(e) PROVE FailureInOrder'
  <2>1. UNCHANGED <<dlq, ops>> /\ state[e] = "expired" /\ state' = [state EXCEPT ![e] = "timed_out"]
    BY <1>13 DEF TimedOutRule, failureVars
  <2>2. Heard'
    BY <1>3, <1>13 DEF Machine
  <2>3. \A f \in Execs : Reported(f)'
    BY <1>0, <1>1, <2>1 DEF TypeOK
  <2> QED
    BY <1>0, <2>1, <2>2, <2>3 DEF FailureInOrder
<1>14. ASSUME UNCHANGED vars PROVE FailureInOrder'
  BY <1>0, <1>1, <1>14 DEF vars, FailureInOrder
<1> QED
  BY <1>2, <1>5, <1>6, <1>7, <1>8, <1>9, <1>10, <1>11, <1>12, <1>13, <1>14 DEF Next, Machine

-----------------------------------------------------------------------------
(* The theorems.                                                           *)

LEMMA InvariantHolds == Spec => []IInv
<1>1. Init => IInv
  <2> SUFFICES ASSUME Init PROVE IInv
    OBVIOUS
  <2>1. TypeOK
    BY DEF Init, TypeOK
  <2>2. FatesAreAwaited
    BY DEF Init, FatesAreAwaited, Fates
  <2>3. RcaInOrder /\ DiagnosticInOrder
    BY DEF Init, RcaInOrder, DiagnosticInOrder, RUNBOOK, NOTIFY
  <2>4. RunbooksInOrder /\ ReadyInOrder
    BY DEF Init, RunbooksInOrder, ReadyInOrder, NOTIFY
  <2>5. TimelineIsTrue /\ MarksInOrder
    BY DEF Init, TimelineIsTrue, MarksInOrder
  <2>6. FailureInOrder
    BY DEF Init, FailureInOrder, Handling, Fates
  <2> QED
    BY <2>1, <2>2, <2>3, <2>4, <2>5, <2>6 DEF IInv
<1>2. IInv /\ [Next]_vars => IInv'
  BY TypeStep, FatesStep, RcaStep, DiagnosticStep, RunbooksStep, ReadyStep, MarksStep,
     FailureStep DEF IInv
<1> QED
  BY <1>1, <1>2, PTL DEF Spec

\* Every reachable state is well typed.
THEOREM TypeCorrect == Spec => []TypeOK
<1>1. IInv => TypeOK
  BY DEF IInv
<1> QED
  BY <1>1, InvariantHolds, PTL

\* A runbook that can be approved has its document and a saved diagnosis
\* (generate_runbook's put_object before put_item, its input what generate_rca
\* answered after its own put_item).
THEOREM RunbookWhole == Spec => []RunbookIsWhole
<1>1. IInv => RunbookIsWhole
  <2> SUFFICES ASSUME IInv, NEW b \in runbooks PROVE b \in objects /\ b \in diagnosed
    BY DEF RunbookIsWhole
  <2>1. b.exec \in Execs
    BY DEF IInv, TypeOK, Diagnoses
  <2> QED
    BY <2>1 DEF IInv, RunbooksInOrder, DiagnosticInOrder
<1> QED
  BY <1>1, InvariantHolds, PTL

\* However often generate_runbook is retried, an execution has one runbook
\* (generate_runbook._runbook_id).
THEOREM OneRunbook == Spec => []OneRunbookPerExecution
<1>1. IInv => OneRunbookPerExecution
  BY DEF IInv, RunbooksInOrder, OneRunbookPerExecution, Runbook
<1> QED
  BY <1>1, InvariantHolds, PTL

\* The diagnosis shown is the one the runbook restates, but for executions that
\* race and attempts of generate_rca that outlive their timeout.
THEOREM DiagnosisMatches == Spec => []DiagnosisMatchesRunbook
<1>1. IInv => DiagnosisMatchesRunbook
  <2> SUFFICES ASSUME IInv, NEW b \in runbooks, b.exec \notin outlived
               PROVE  diagnosis = b \/ \E d \in diagnosed : d.exec # b.exec
    BY DEF DiagnosisMatchesRunbook
  <2>1. b.exec \in Execs
    BY DEF IInv, TypeOK, Diagnoses
  <2>2. diagnostic[b.exec] # 0 /\ b = Runbook(b.exec)
    BY DEF IInv, RunbooksInOrder
  <2>3. IsLast(Runbook(b.exec))
    BY <2>1, <2>2 DEF IInv, DiagnosticInOrder
  <2> QED
    BY <2>2, <2>3 DEF IsLast
<1> QED
  BY <1>1, InvariantHolds, PTL

\* Nobody is told of a runbook, and no execution succeeds, before it is there
\* (NotifyRunbookReady comes after GenerateRunbook answered).
THEOREM AnnouncedReady == Spec => []AnnouncedIsReady
<1>1. IInv => AnnouncedIsReady
  BY DEF IInv, ReadyInOrder, AnnouncedIsReady
<1> QED
  BY <1>1, InvariantHolds, PTL

\* Lost updates of stages_seen may hide a stage and never invent one.
THEOREM TimelineTrue == Spec => []TimelineIsTrue
<1>1. IInv => TimelineIsTrue
  BY DEF IInv
<1> QED
  BY <1>1, InvariantHolds, PTL

\* What ops hears of is in the failure DLQ, and the alert's mark was attempted.
THEOREM ReportedRedrivable == Spec => []ReportedIsRedrivable
<1>1. IInv => ReportedIsRedrivable
  BY DEF IInv, FailureInOrder, ReportedIsRedrivable, Attempted, TypeOK
<1> QED
  BY <1>1, InvariantHolds, PTL


-----------------------------------------------------------------------------
(* A failed execution marks nothing more.                                  *)

\* Where an execution is once its failure is being seen to, and for good.
Stopped == Handling \cup {"failed", "expired", "timed_out"}

FailedHaveStopped ==
    /\ \A e \in recorded : state[e] \in Stopped
    /\ \A i \in Invocations :
          i.stage = FAILED /\ at[i] # "none" => state[i.exec] \in Stopped

LEMMA StoppedStays ==
  ASSUME TypeOK, [Next]_vars, NEW e \in Execs, state[e] \in Stopped
  PROVE  state'[e] \in Stopped
<1>1. state[e] # "due" /\ ~ Advance(e)
  BY DEF Advance, Stopped, Handling, Diagnosing, RAG, RCA, RUNBOOK, NOTIFY
<1> QED
  BY <1>1, StateStep DEF Stopped

LEMMA StoppedStep ==
  ASSUME TypeOK, FailedHaveStopped, [Next]_vars
  PROVE  FailedHaveStopped'
<1>1. \A i \in Invocations : i.exec \in Execs /\ i.stage \in Stages
  BY DEF Invocations
<1>2. \A e \in recorded' : e \in Execs /\ state[e] \in Stopped
  <2>1. ASSUME NEW i \in Invocations, Lambda(i)
        PROVE  \A e \in recorded' : e \in Execs /\ state[e] \in Stopped
    <3>1. CASE recorded' = recorded
      BY <3>1 DEF TypeOK, FailedHaveStopped
    <3>2. CASE recorded' # recorded
      <4>1. Mark(i) /\ at[i] = "read"
        BY <2>1, <3>2 DEF Lambda, ReadHistory, MarkStage, MarkFailed, GatherContext,
           WriteDiagnosis, WriteObject, WriteRunbook, PublishReady, RefuseAnswer, Die,
           markVars, Step, End
      <4>2. recorded' = recorded \cup {i.exec} /\ i.stage = FAILED
        BY <3>2, <4>1 DEF Mark
      <4> QED
        BY <1>1, <4>1, <4>2 DEF TypeOK, FailedHaveStopped
    <3> QED
      BY <3>1, <3>2
  <2>2. ASSUME NEW e \in Execs, Machine(e) \/ TimeOut(e) PROVE recorded' = recorded
    BY <2>2, MachineStep DEF Start, Advance, Retry, Fall, TimedOutRule, markVars
  <2>3. UNCHANGED vars => recorded' = recorded
    BY DEF vars
  <2>4. \A e \in recorded : e \in Execs /\ state[e] \in Stopped
    BY DEF TypeOK, FailedHaveStopped
  <2>5. recorded' = recorded \/ \E i \in Invocations : Lambda(i)
    BY <2>2, <2>3 DEF Next
  <2>6. CASE recorded' = recorded
    BY <2>4, <2>6
  <2>7. CASE \E i \in Invocations : Lambda(i)
    BY <2>1, <2>7
  <2> QED
    BY <2>5, <2>6, <2>7
<1>3. ASSUME NEW i \in Invocations, i.stage = FAILED, at'[i] # "none"
      PROVE  state[i.exec] \in Stopped \/ state'[i.exec] \in Stopped
  <2> SUFFICES ASSUME at[i] = "none" PROVE state'[i.exec] \in Stopped
    BY <1>3 DEF FailedHaveStopped
  <2>1. ASSUME NEW e \in Execs, NEW q, Goto(e, q) PROVE state'[i.exec] \in Stopped
    <3>1. i.exec = e /\ FAILED \in Tasks(q) /\ state'[e] = q
      BY <1>3, <2>1, GotoStep DEF Fates
    <3>2. q = "mark_failed"
      BY <3>1 DEF Tasks, FAILED, CORRELATE_LOGS, CORRELATE_CONFIG, RAG, RCA, RUNBOOK, NOTIFY
    <3> QED
      BY <3>1, <3>2 DEF Stopped, Handling
  <2>2. ASSUME NEW e \in Execs, NEW s \in Stages, Retry(e, s) PROVE FALSE
    <3>1. s \in Tasks(state[e]) /\ state[e] \in Diagnosing /\ s # FAILED
      BY <2>2 DEF Retry, Tasks, Diagnosing, FAILED, CORRELATE_LOGS, CORRELATE_CONFIG, RAG,
         RCA, RUNBOOK, NOTIFY
    <3>2. Current(e, s).stage = s
      BY CurrentIsInvocation
    <3> QED
      BY <1>3, <2>2, <3>1, <3>2, RetryStep
  <2>3. ASSUME NEW e \in Execs, TimedOutRule(e) PROVE state'[i.exec] \in Stopped
    BY <1>3, <2>3 DEF TimedOutRule, TypeOK, Stopped
  <2>4. ASSUME NEW j \in Invocations, Lambda(j) PROVE FALSE
    <3>1. at[j] # "none"
      BY <2>4, LambdaStep DEF Running
    <3> QED
      BY <1>3, <2>4, <3>1, LambdaStep
  <2>5. \A e \in Execs : Start(e) \/ Advance(e) \/ (\E q : Fall(e, q)) => \E q : Goto(e, q)
    BY DEF Start, Advance, Fall
  <2>6. UNCHANGED vars => at' = at
    BY DEF vars
  <2> QED
    BY <1>3, <2>1, <2>2, <2>3, <2>4, <2>5, <2>6, MachineStep DEF Next
<1> QED
  BY <1>1, <1>2, <1>3, StoppedStays DEF FailedHaveStopped

\* A failure recorded on the alert stays what is shown, but for marks of
\* abandoned invocations and of other executions (progress.mark_stage writes
\* pipeline_stage unconditionally).
THEOREM FailureOnlyGivesWay == Spec => FailureGivesWay
<1> DEFINE Late == stage = FAILED /\ stage' # FAILED =>
                      \E i \in Invocations :
                         /\ i.stage = stage' /\ at[i] = "read" /\ at'[i] = "marked"
                         /\ i.exec \in recorded => ~ IsAwaited(i)
<1>1. Init => FailedHaveStopped
  BY DEF Init, FailedHaveStopped
<1>2. TypeOK /\ FailedHaveStopped /\ [Next]_vars => FailedHaveStopped'
  BY StoppedStep
<1>3. TypeOK /\ FailedHaveStopped /\ [Next]_vars => [Late]_vars
  <2> SUFFICES ASSUME TypeOK, FailedHaveStopped, [Next]_vars, stage = FAILED, stage' # FAILED
               PROVE  Late
    OBVIOUS
  <2>1. ASSUME NEW e \in Execs, Machine(e) \/ TimeOut(e) PROVE stage' = stage
    BY <2>1, MachineStep DEF Start, Advance, Retry, Fall, TimedOutRule, markVars
  <2>2. PICK i \in Invocations : Lambda(i)
    BY <2>1 DEF Next, vars
  <2>3. MarkStage(i) \/ MarkFailed(i)
    BY <2>2 DEF Lambda, ReadHistory, GatherContext, WriteDiagnosis, WriteObject, WriteRunbook,
       PublishReady, RefuseAnswer, Die, markVars
  <2>4. stage' = i.stage
    BY <2>3 DEF MarkStage, MarkFailed, Mark
  <2>5. MarkStage(i)
    BY <2>3, <2>4 DEF MarkFailed
  <2>6. at[i] = "read" /\ at'[i] = "marked"
    BY <2>5 DEF MarkStage, Step, TypeOK
  <2>7. ASSUME i.exec \in recorded PROVE i.stage \notin Tasks(state[i.exec])
    <3>1. state[i.exec] \in Stopped
      BY <2>7 DEF FailedHaveStopped
    <3>2. Tasks(state[i.exec]) \subseteq {FAILED}
      BY <3>1, TasksOfStates DEF Stopped, Handling, Ended
    <3> QED
      BY <2>4, <3>2
  <2> QED
    BY <2>4, <2>6, <2>7 DEF IsAwaited
<1>4. Spec => []TypeOK
  BY TypeCorrect
<1> QED
  BY <1>1, <1>2, <1>3, <1>4, PTL DEF Spec, FailureGivesWay

-----------------------------------------------------------------------------
(* What the console shows.                                                 *)

\* A failure shown was recorded by somebody, and only executions that were
\* started have invocations.
AlertInOrder ==
    /\ stage = FAILED => recorded # {}
    /\ \A i \in Invocations : at[i] # "none" => state[i.exec] # "due"

LEMMA StartedStays ==
  ASSUME TypeOK, [Next]_vars, NEW e \in Execs, state[e] # "due"
  PROVE  state'[e] # "due"
<1>1. CASE Advance(e) /\ state'[e] = After(state[e])
  BY <1>1, AdvanceStep DEF RAG, RCA, RUNBOOK, NOTIFY
<1> QED
  BY <1>1, StateStep DEF Handling

LEMMA AlertStep ==
  ASSUME TypeOK, AlertInOrder, [Next]_vars
  PROVE  AlertInOrder'
<1>1. \A i \in Invocations : i.exec \in Execs /\ i.stage \in Stages
  BY DEF Invocations
<1>2. stage' = FAILED => recorded' # {}
  <2>1. ASSUME NEW i \in Invocations, Mark(i) PROVE stage' = FAILED => recorded' # {}
    BY <2>1 DEF Mark, AlertInOrder
  <2>2. ASSUME NEW i \in Invocations, Lambda(i)
        PROVE  Mark(i) \/ UNCHANGED <<stage, recorded>>
    BY <2>2 DEF Lambda, ReadHistory, MarkStage, MarkFailed, GatherContext, WriteDiagnosis,
       WriteObject, WriteRunbook, PublishReady, RefuseAnswer, Die, markVars
  <2>3. ASSUME NEW e \in Execs, Machine(e) \/ TimeOut(e) PROVE UNCHANGED <<stage, recorded>>
    BY <2>3, MachineStep DEF Start, Advance, Retry, Fall, TimedOutRule, markVars
  <2>4. UNCHANGED vars => UNCHANGED <<stage, recorded>>
    BY DEF vars
  <2> QED
    BY <2>1, <2>2, <2>3, <2>4 DEF Next, AlertInOrder
<1>3. ASSUME NEW i \in Invocations, at'[i] # "none" PROVE state'[i.exec] # "due"
  <2> SUFFICES ASSUME at[i] = "none" PROVE state'[i.exec] # "due"
    BY <1>1, <1>3, StartedStays DEF AlertInOrder
  <2>1. ASSUME NEW e \in Execs, NEW q, Goto(e, q), q # "due" PROVE state'[i.exec] # "due"
    BY <1>3, <2>1, GotoStep DEF Fates
  <2>2. ASSUME NEW e \in Execs, NEW s \in Stages, Retry(e, s) PROVE state'[i.exec] # "due"
    <3>1. state' = state /\ state[e] # "due"
      BY <2>2 DEF Retry, Diagnosing, RAG, RCA, RUNBOOK, NOTIFY
    <3>2. i.exec = e
      BY <1>3, <2>2, RetryStep, CurrentIsInvocation
    <3> QED
      BY <3>1, <3>2
  <2>3. ASSUME NEW e \in Execs, TimedOutRule(e) PROVE state'[i.exec] # "due"
    BY <1>3, <2>3 DEF TimedOutRule, TypeOK
  <2>4. ASSUME NEW j \in Invocations, Lambda(j) PROVE FALSE
    BY <1>3, <2>4, LambdaStep DEF Running
  <2>5. ASSUME NEW e \in Execs, Start(e) \/ Advance(e) \/ (\E q : Fall(e, q))
        PROVE  \E q : Goto(e, q) /\ q # "due"
    BY <2>5, AdvanceStep DEF Start, Fall, Handling, RAG, RCA, RUNBOOK, NOTIFY
  <2>6. UNCHANGED vars => at' = at
    BY DEF vars
  <2> QED
    BY <1>3, <2>1, <2>2, <2>3, <2>4, <2>5, <2>6, MachineStep DEF Next
<1> QED
  BY <1>2, <1>3 DEF AlertInOrder

\* The row holds one of the diagnoses that have been in it, if there have been any.
SavedIsThere == diagnosed # {} => diagnosis \in diagnosed

LEMMA SavedStep ==
  ASSUME SavedIsThere, [Next]_vars
  PROVE  SavedIsThere'
<1>1. ASSUME NEW i \in Invocations, WriteDiagnosis(i) PROVE diagnosis' \in diagnosed'
  BY <1>1 DEF WriteDiagnosis
<1>2. ASSUME NEW i \in Invocations, Lambda(i)
      PROVE  WriteDiagnosis(i) \/ UNCHANGED <<diagnosis, diagnosed>>
  BY <1>2 DEF Lambda, ReadHistory, MarkStage, MarkFailed, GatherContext,
     WriteObject, WriteRunbook, PublishReady, RefuseAnswer, Die, resultVars
<1>3. ASSUME NEW e \in Execs, Machine(e) \/ TimeOut(e) PROVE UNCHANGED <<diagnosis, diagnosed>>
  BY <1>3, MachineStep DEF Start, Advance, Retry, Fall, TimedOutRule, resultVars
<1>4. UNCHANGED vars => UNCHANGED <<diagnosis, diagnosed>>
  BY DEF vars
<1> QED
  BY <1>1, <1>2, <1>3, <1>4 DEF Next, SavedIsThere

LEMMA AlertHolds == Spec => [](IInv /\ FailedHaveStopped /\ AlertInOrder /\ SavedIsThere)
<1>1. Init => FailedHaveStopped /\ AlertInOrder /\ SavedIsThere
  BY DEF Init, FailedHaveStopped, AlertInOrder, SavedIsThere, FAILED
<1>2. IInv /\ FailedHaveStopped /\ AlertInOrder /\ SavedIsThere /\ [Next]_vars
        => (FailedHaveStopped /\ AlertInOrder /\ SavedIsThere)'
  BY StoppedStep, AlertStep, SavedStep DEF IInv
<1> QED
  BY <1>1, <1>2, InvariantHolds, PTL DEF Spec

\* Whenever its reads are made and however far they get, the console says failed
\* only of an alert one of whose executions failed and got that recorded; of an
\* execution that succeeded it shows the runbook if the query reaches it and no
\* such failure was read, and at least the diagnosis if that read is current
\* (query_diagnostics._alert_status).
THEOREM StatusEarned == Spec => []StatusIsEarned
<1>1. IInv /\ FailedHaveStopped /\ AlertInOrder /\ SavedIsThere => StatusIsEarned
  <2> SUFFICES ASSUME IInv, FailedHaveStopped, AlertInOrder, SavedIsThere,
                      NEW mark \in MarksRead,
                      NEW dispatched \in BOOLEAN, NEW current \in BOOLEAN,
                      NEW reached \in BOOLEAN
               PROVE  LET shown == AlertStatus(mark, dispatched, current, reached) IN
                      /\ shown = "failed" =>
                            \E e \in recorded :
                               state[e] \notin {"due", "succeeded"} \cup Diagnosing
                      /\ (\E e \in Execs : state[e] = "succeeded") =>
                            /\ reached => shown \in {"failed", "runbook_ready"}
                            /\ current => shown \notin {"received", "diagnosing"}
    BY DEF StatusIsEarned
  <2> DEFINE shown == AlertStatus(mark, dispatched, current, reached)
  <2>1. shown = "failed" => mark = FAILED
    BY DEF AlertStatus
  <2>2. mark = FAILED => recorded # {}
    BY DEF MarksRead, AlertInOrder, FAILED
  <2>3. \A e \in recorded : state[e] \notin {"due", "succeeded"} \cup Diagnosing
    BY DEF FailedHaveStopped, Stopped, Handling, Diagnosing, RAG, RCA, RUNBOOK, NOTIFY
  <2>4. ASSUME NEW e \in Execs, state[e] = "succeeded"
        PROVE  runbooks # {} /\ diagnosis # NoDiagnosis
    <3>1. Runbook(e) \in runbooks
      BY <2>4 DEF IInv, ReadyInOrder
    <3>2. Runbook(e) \in diagnosed
      BY <2>4 DEF IInv, DiagnosticInOrder
    <3>3. diagnosis \in Diagnoses
      BY <3>2 DEF IInv, TypeOK, SavedIsThere
    <3> QED
      BY <3>1, <3>3, NoDiagnosisIsNone
  <2>5. runbooks # {} /\ reached => shown \in {"failed", "runbook_ready"}
    BY DEF AlertStatus
  <2>6. diagnosis # NoDiagnosis /\ current => shown \notin {"received", "diagnosing"}
    BY DEF AlertStatus
  <2> QED
    BY <2>1, <2>2, <2>3, <2>4, <2>5, <2>6
<1> QED
  BY <1>1, AlertHolds, PTL

-----------------------------------------------------------------------------
(* The diagnosis pipeline implements the diagnosis of an alert.            *)

LEMMA PhaseOfStates ==
  /\ Phase("due") = "due"
  /\ \A q \in Diagnosing : Phase(q) = "open"
  /\ Phase("succeeded") = "complete"
  /\ \A q \in Stopped : Phase(q) = "failed"
BY DEF Phase, Diagnosing, Stopped, Handling, RAG, RCA, RUNBOOK, NOTIFY

\* One execution moves at a time.
LEMMA PhaseMoves ==
  ASSUME TypeOK, NEW e \in Execs, NEW q,
         state'[e] = q, \A f \in Execs \ {e} : state'[f] = state[f]
  PROVE  /\ [f \in Execs |-> Phase(state[f])]' =
               [[f \in Execs |-> Phase(state[f])] EXCEPT ![e] = Phase(q)]
         /\ Phase(q) = Phase(state[e]) =>
               [f \in Execs |-> Phase(state[f])]' = [f \in Execs |-> Phase(state[f])]
<1>1. \A f \in Execs : Phase(state'[f]) = IF f = e THEN Phase(q) ELSE Phase(state[f])
  OBVIOUS
<1> QED
  BY <1>1

LEMMA DiagnosisStepRefines ==
  ASSUME IInv, FailedHaveStopped, AlertInOrder, [Next]_vars
  PROVE  [Diagnosis!DiagnosisNext]_(Diagnosis!diagnosisVars)
<1> DEFINE Ph == [f \in Execs |-> Phase(state[f])]
           Shown == (stage = FAILED)
<1>t. TypeOK /\ \A i \in Invocations : i.exec \in Execs /\ i.stage \in Stages /\ i.attempt \in 1..3
  BY DEF IInv, Invocations
<1>p. \A f \in Execs : Ph[f] = Phase(state[f])
  OBVIOUS
<1>s. ASSUME UNCHANGED <<Ph, diagnosed, diagnostic, runbooks, announced, Shown, dlq, ops>>
      PROVE  UNCHANGED Diagnosis!diagnosisVars
  BY <1>s DEF Diagnosis!diagnosisVars
<1>m. ASSUME UNCHANGED <<stage, diagnosed, runbooks, announced>>
      PROVE  UNCHANGED <<diagnosed, runbooks, announced, Shown>>
  BY <1>m
<1>1. ASSUME NEW e \in Execs, Start(e) PROVE Diagnosis!Open(e)
  <2>1. state[e] = "due" /\ Goto(e, "correlate") /\ "correlate" \in Diagnosing
        /\ UNCHANGED <<diagnostic, dlq, ops, stage, diagnosed, runbooks, announced>>
    BY <1>1 DEF Start, Diagnosing, markVars, resultVars, failureVars
  <2>2. Ph' = [Ph EXCEPT ![e] = "open"] /\ Ph[e] = "due"
    BY <1>t, <2>1, GotoStep, PhaseMoves, PhaseOfStates
  <2> QED
    BY <2>1, <2>2 DEF Diagnosis!Open
<1>2. ASSUME NEW e \in Execs, Advance(e), state[e] # RCA, state[e] # NOTIFY
      PROVE  UNCHANGED Diagnosis!diagnosisVars
  <2>1. /\ Goto(e, After(state[e])) /\ state[e] \in Diagnosing
        /\ UNCHANGED <<diagnostic, dlq, ops, stage, diagnosed, runbooks, announced>>
    BY <1>2 DEF Advance, markVars, resultVars, failureVars
  <2>2. After(state[e]) \in Diagnosing
    BY <1>2, <1>t, AdvanceStep DEF Diagnosing
  <2>3. Ph' = Ph
    BY <1>t, <2>1, <2>2, GotoStep, PhaseMoves, PhaseOfStates
  <2> QED
    BY <1>s, <1>m, <2>1, <2>3
<1>3. ASSUME NEW e \in Execs, Advance(e), state[e] = RCA PROVE Diagnosis!Settle(e)
  <2> DEFINE i == Current(e, RCA)
  <2>1. /\ i \in Invocations /\ i.exec = e /\ i.stage = RCA /\ i.attempt \in 1..3
        /\ at[i] = "ok"
    BY <1>t, <1>3, AdvanceStep, CurrentIsInvocation DEF Stages
  <2>2. [exec |-> e, attempt |-> i.attempt] \in diagnosed
    BY <2>1 DEF IInv, RcaInOrder
  <2>3. diagnostic[e] = 0
    BY <1>3 DEF IInv, DiagnosticInOrder, Early
  <2>4. /\ Goto(e, RUNBOOK)
        /\ diagnostic' = [diagnostic EXCEPT ![e] = i.attempt]
        /\ UNCHANGED <<dlq, ops, stage, diagnosed, runbooks, announced>>
    BY <1>3 DEF Advance, After, markVars, resultVars, failureVars, RAG, RCA, RUNBOOK, NOTIFY
  <2>5. Ph' = Ph /\ Ph[e] = "open"
    <3>1. RUNBOOK \in Diagnosing /\ RCA \in Diagnosing
      BY DEF Diagnosing
    <3> QED
      BY <1>t, <1>3, <2>4, <3>1, GotoStep, PhaseMoves, PhaseOfStates
  <2> HIDE DEF i
  <2> QED
    BY <2>1, <2>2, <2>3, <2>4, <2>5 DEF Diagnosis!Settle, Diagnosis!Of
<1>4. ASSUME NEW e \in Execs, Advance(e), state[e] = NOTIFY PROVE Diagnosis!Complete(e)
  <2>1. /\ Goto(e, "succeeded")
        /\ UNCHANGED <<diagnostic, dlq, ops, stage, diagnosed, runbooks, announced>>
    BY <1>4 DEF Advance, After, markVars, resultVars, failureVars, RAG, RCA, RUNBOOK, NOTIFY
  <2>2. Runbook(e) \in runbooks
    BY <1>4 DEF IInv, ReadyInOrder
  <2>3. Ph' = [Ph EXCEPT ![e] = "complete"] /\ Ph[e] = "open"
    <3>1. NOTIFY \in Diagnosing
      BY DEF Diagnosing
    <3> QED
      BY <1>t, <1>4, <2>1, <3>1, GotoStep, PhaseMoves, PhaseOfStates
  <2> QED
    BY <2>1, <2>2, <2>3 DEF Diagnosis!Complete, Diagnosis!Of, Runbook
<1>5. ASSUME NEW e \in Execs, NEW s \in Stages, Retry(e, s)
      PROVE  UNCHANGED Diagnosis!diagnosisVars
  BY <1>s, <1>m, <1>5 DEF Retry, markVars, resultVars, failureVars
<1>6. ASSUME NEW e \in Execs, NEW q, Fall(e, q)
      PROVE  /\ UNCHANGED <<diagnostic, stage, diagnosed, runbooks, announced>>
             /\ state[e] \in Diagnosing => Ph[e] = "open" /\ Ph' = [Ph EXCEPT ![e] = "failed"]
             /\ state[e] \in Handling => Ph[e] = "failed" /\ Ph' = Ph
  <2>1. Goto(e, q) /\ q \in Stopped /\ state[e] \in Diagnosing \cup Handling
        /\ UNCHANGED <<diagnostic, stage, diagnosed, runbooks, announced>>
    BY <1>6 DEF Fall, Stopped, markVars, resultVars
  <2>2. Handling \subseteq Stopped
    BY DEF Stopped
  <2> QED
    BY <1>t, <2>1, <2>2, GotoStep, PhaseMoves, PhaseOfStates
<1>7. ASSUME NEW e \in Execs, Catch(e) \/ LeaveMarkFailed(e) \/ TimeOut(e)
      PROVE  Diagnosis!Fail(e) \/ UNCHANGED Diagnosis!diagnosisVars
  <2>1. (\E q : Fall(e, q)) /\ UNCHANGED <<dlq, ops>>
    BY <1>7 DEF Catch, LeaveMarkFailed, TimeOut, Fall, Diagnosing, Handling, failureVars
  <2>2. state[e] \in Diagnosing \cup Handling
    BY <2>1 DEF Fall
  <2>3. CASE state[e] \in Diagnosing
    BY <1>6, <1>m, <2>1, <2>3 DEF Diagnosis!Fail
  <2>4. CASE state[e] \in Handling
    BY <1>6, <1>m, <1>s, <2>1, <2>4
  <2> QED
    BY <2>2, <2>3, <2>4
<1>8. ASSUME NEW e \in Execs, SendToFailureDlq(e)
      PROVE  Diagnosis!KeepForRedrive(e) \/ UNCHANGED Diagnosis!diagnosisVars
  <2>1. /\ \E q : Fall(e, q)
        /\ state[e] \in Handling
        /\ ops' = ops
        /\ dlq' = dlq \/ dlq' = dlq \cup {e}
    BY <1>8 DEF SendToFailureDlq, Fall, Handling
  <2>2. CASE dlq' = dlq
    BY <1>6, <1>m, <1>s, <2>1, <2>2
  <2>3. CASE dlq' = dlq \cup {e}
    BY <1>6, <1>m, <2>1, <2>3 DEF Diagnosis!KeepForRedrive
  <2> QED
    BY <2>1, <2>2, <2>3
<1>9. ASSUME NEW e \in Execs, NotifyOpsFailure(e)
      PROVE  Diagnosis!Escalate(e) \/ UNCHANGED Diagnosis!diagnosisVars
  <2>1. /\ \E q : Fall(e, q)
        /\ state[e] \in Handling
        /\ dlq' = dlq
        /\ ops' = ops \/ ops' = ops \cup {e}
        /\ e \in dlq
    BY <1>9 DEF NotifyOpsFailure, Fall, Handling, IInv, FailureInOrder
  <2>2. CASE ops' = ops
    BY <1>6, <1>m, <1>s, <2>1, <2>2
  <2>3. CASE ops' = ops \cup {e}
    BY <1>6, <1>m, <2>1, <2>3 DEF Diagnosis!Escalate
  <2> QED
    BY <2>1, <2>2, <2>3
<1>10. ASSUME NEW e \in Execs, TimedOutRule(e) PROVE UNCHANGED Diagnosis!diagnosisVars
  <2>1. /\ state[e] = "expired" /\ state'[e] = "timed_out"
        /\ \A f \in Execs \ {e} : state'[f] = state[f]
        /\ UNCHANGED <<diagnostic, dlq, ops, stage, diagnosed, runbooks, announced>>
    BY <1>t, <1>10 DEF TimedOutRule, TypeOK, markVars, resultVars, failureVars
  <2>2. Ph' = Ph
    BY <1>t, <2>1, PhaseMoves, PhaseOfStates DEF Stopped
  <2> QED
    BY <1>s, <1>m, <2>1, <2>2
<1>l. ASSUME NEW i \in Invocations, Lambda(i)
      PROVE  /\ at[i] # "none"
             /\ Ph[i.exec] # "due"
             /\ UNCHANGED <<Ph, diagnostic, dlq, ops>>
  <2>1. at[i] # "none" /\ UNCHANGED <<state, diagnostic, dlq, ops>>
    BY <1>t, <1>l, LambdaStep DEF Running
  <2>2. state[i.exec] # "due" /\ i.exec \in Execs
    BY <1>t, <2>1 DEF AlertInOrder
  <2>3. Phase(state[i.exec]) # "due"
    BY <2>2 DEF Phase
  <2> QED
    BY <2>1, <2>2, <2>3
<1>11. ASSUME NEW i \in Invocations, Lambda(i), MarkStage(i) \/ MarkFailed(i)
       PROVE  \/ Diagnosis!Flag(i.exec) \/ Diagnosis!Progress(i.exec)
              \/ UNCHANGED Diagnosis!diagnosisVars
  <2>1. UNCHANGED <<diagnosed, runbooks, announced>> /\ (stage' = stage \/ stage' = i.stage)
    BY <1>11 DEF MarkStage, MarkFailed, Mark, resultVars
  <2>2. CASE stage' = stage
    BY <1>l, <1>11, <1>s, <1>m, <2>1, <2>2
  <2>3. CASE stage' = i.stage /\ i.stage # FAILED
    <3>1. Shown' = FALSE
      BY <2>3
    <3> QED
      BY <1>l, <1>11, <2>1, <3>1 DEF Diagnosis!Progress
  <2>4. CASE stage' = i.stage /\ i.stage = FAILED
    <3>1. Shown' = TRUE
      BY <2>4
    <3>2. Ph[i.exec] = "failed"
      BY <1>t, <1>l, <1>11, <2>4, PhaseOfStates DEF FailedHaveStopped
    <3> QED
      BY <1>l, <1>11, <2>1, <3>1, <3>2 DEF Diagnosis!Flag
  <2> QED
    BY <2>1, <2>2, <2>3, <2>4
<1>12. ASSUME NEW i \in Invocations, Lambda(i), WriteDiagnosis(i) PROVE Diagnosis!Save(i.exec)
  <2>1. /\ diagnosed' = diagnosed \cup {[exec |-> i.exec, attempt |-> i.attempt]}
        /\ UNCHANGED <<stage, runbooks, announced>>
    BY <1>12 DEF WriteDiagnosis, markVars
  <2> QED
    BY <1>t, <1>l, <1>12, <2>1 DEF Diagnosis!Save, Diagnosis!Of
<1>13. ASSUME NEW i \in Invocations, Lambda(i), WriteRunbook(i) PROVE Diagnosis!Offer(i.exec)
  <2>1. /\ runbooks' = runbooks \cup {[exec |-> i.exec, attempt |-> diagnostic[i.exec]]}
        /\ UNCHANGED <<stage, diagnosed, announced>>
        /\ i.stage = RUNBOOK
    BY <1>13 DEF WriteRunbook, RunbookOf, markVars
  <2>2. diagnostic[i.exec] # 0
    BY <1>l, <1>13, <2>1 DEF IInv, RunbooksInOrder
  <2> QED
    BY <1>t, <1>l, <1>13, <2>1, <2>2 DEF Diagnosis!Offer, Diagnosis!Of
<1>14. ASSUME NEW i \in Invocations, Lambda(i), PublishReady(i)
       PROVE  Diagnosis!Announce(i.exec) \/ UNCHANGED Diagnosis!diagnosisVars
  <2>1. /\ announced' = announced \/ announced' = announced \cup {i.exec}
        /\ UNCHANGED <<stage, diagnosed, runbooks>>
        /\ i.stage = NOTIFY
    BY <1>14 DEF PublishReady, markVars
  <2>2. Runbook(i.exec) \in runbooks
    BY <1>l, <1>14, <2>1 DEF IInv, ReadyInOrder
  <2>3. CASE announced' = announced
    BY <1>l, <1>14, <1>s, <1>m, <2>1, <2>3
  <2>4. CASE announced' = announced \cup {i.exec}
    BY <1>t, <1>l, <1>14, <2>1, <2>2, <2>4 DEF Diagnosis!Announce, Diagnosis!Of, Runbook
  <2> QED
    BY <2>1, <2>3, <2>4
<1>15. ASSUME NEW i \in Invocations, Lambda(i),
              ReadHistory(i) \/ GatherContext(i) \/ WriteObject(i) \/ RefuseAnswer(i) \/ Die(i)
       PROVE  UNCHANGED Diagnosis!diagnosisVars
  <2>1. UNCHANGED <<stage, diagnosed, runbooks, announced>>
    BY <1>15 DEF ReadHistory, GatherContext, WriteObject, RefuseAnswer, Die, markVars, resultVars
  <2> QED
    BY <1>l, <1>15, <1>s, <1>m, <2>1
<1>16. ASSUME UNCHANGED vars PROVE UNCHANGED Diagnosis!diagnosisVars
  BY <1>16, <1>s DEF vars
<1>17. ASSUME NEW i \in Invocations, Lambda(i)
       PROVE  [Diagnosis!DiagnosisNext]_(Diagnosis!diagnosisVars)
  BY <1>t, <1>11, <1>12, <1>13, <1>14, <1>15, <1>17 DEF Lambda, Diagnosis!DiagnosisNext
<1>18. ASSUME NEW e \in Execs, Machine(e) \/ TimeOut(e)
       PROVE  [Diagnosis!DiagnosisNext]_(Diagnosis!diagnosisVars)
  BY <1>1, <1>2, <1>3, <1>4, <1>5, <1>7, <1>8, <1>9, <1>10, <1>18
  DEF Machine, Diagnosis!DiagnosisNext
<1> QED
  BY <1>16, <1>17, <1>18 DEF Next

\* Tasks, retries, timeouts and what outlives them implement the diagnosis of an
\* alert as AlertDiagnosis states it: nothing a retry or an abandoned invocation
\* does shows but as a step of an execution that settles on one saved diagnosis
\* and offers that one's runbook (diagnosis_pipeline.asl.json, generate_rca.py,
\* generate_runbook.py, notify.py).
THEOREM DiagnosisRefinement == Spec => ImplementsDiagnosis
<1>1. Init => Diagnosis!DiagnosisInit
  <2> SUFFICES ASSUME Init PROVE Diagnosis!DiagnosisInit
    OBVIOUS
  <2>1. [f \in Execs |-> Phase(state[f])] = [f \in Execs |-> "due"]
    BY PhaseOfStates DEF Init
  <2>2. (stage = FAILED) = FALSE
    BY DEF Init, FAILED
  <2> QED
    BY <2>1, <2>2 DEF Init, Diagnosis!DiagnosisInit
<1>2. IInv /\ FailedHaveStopped /\ AlertInOrder /\ [Next]_vars
        => [Diagnosis!DiagnosisNext]_(Diagnosis!diagnosisVars)
  BY DiagnosisStepRefines
<1> QED
  BY <1>1, <1>2, AlertHolds, PTL
  DEF Spec, ImplementsDiagnosis, Diagnosis!DiagnosisSpec


-----------------------------------------------------------------------------
(* The system: Pipeline and Remediation on the same rows.                  *)

\* What a row's puts were made by: an attempt of generate_runbook that was invoked
\* is one the machine has got to ...
Reached(i) ==
    /\ state[i.exec] \notin Early
    /\ state[i.exec] = RUNBOOK => i.attempt <= Current(i.exec, RUNBOOK).attempt

BegunIsReached ==
    \A i \in Invocations : i.stage = RUNBOOK /\ at[i] # "none" => Reached(i)

\* ... and one that has ended will not run again.
Spent(i) == at[i] \notin Running /\ Reached(i)

PutsInOrder ==
    /\ puts \subseteq Puts
    /\ \A p \in puts :
          /\ p.by.stage = RUNBOOK
          /\ p.runbook \in runbooks
          /\ p.issue <= issue[p.runbook]
          /\ p.by \in unheard \/ Spent(p.by)
    /\ \A b \in Diagnoses : \A n \in 1..issue[b] :
          \E p \in puts : p.runbook = b /\ p.issue = n
    /\ \A p, q \in puts : p.by = q.by /\ p.issue # q.issue => p.by \in unheard

LEMMA RunbookInvoked ==
  ASSUME TypeOK, NEW e \in Execs, Machine(e) \/ TimeOut(e),
         NEW i \in Invocations, i.stage = RUNBOOK, at'[i] \notin {at[i], "none"}
  PROVE  ~ Reached(i) /\ Reached(i)'
<1>1. at'[i] = "invoked" /\ i.exec = e /\ state'[e] = RUNBOOK
  BY LateInvocation
<1>2. \A q \in {"due"} \cup Diagnosing \cup Handling \cup Ended : RUNBOOK \in Tasks(q) => q = RUNBOOK
  BY TasksOfStates
    DEF Diagnosing, Handling, Ended, CORRELATE_LOGS, CORRELATE_CONFIG, RAG, RCA, RUNBOOK, NOTIFY, FAILED
<1>3. RUNBOOK \notin Early \cup Handling \cup {"failed", "expired", "timed_out", "succeeded"}
  BY DEF Early, Handling, RUNBOOK, RAG, RCA
<1>4. CASE Advance(e)
  <2>1. Goto(e, After(state[e])) /\ After(state[e]) = RUNBOOK
    BY <1>1, <1>4, AdvanceStep, GotoStep
  <2>2. state[e] = RCA
    BY <1>4, <2>1, AdvanceStep DEF RUNBOOK, RAG, RCA, NOTIFY
  <2>3. i.attempt = 1
    BY <1>1, <2>1, GotoStep
  <2>4. Current(e, RUNBOOK)'.attempt = 1
    BY <2>1, GotoStep DEF Stages
  <2> QED
    BY <1>1, <1>3, <2>2, <2>3, <2>4 DEF Reached, Early
<1>5. ASSUME NEW s \in Stages, Retry(e, s) PROVE ~ Reached(i) /\ Reached(i)'
  <2>1. i = Current(e, s)' /\ i.stage = s /\ i.attempt = Current(e, s).attempt + 1
    BY <1>1, <1>5, RetryStep
  <2>2. state'[e] = state[e] /\ Current(e, s).attempt \in 1..3
    BY <1>5, CurrentIsInvocation DEF Retry
  <2> QED
    BY <1>1, <1>3, <2>1, <2>2 DEF Reached
<1>6. ~ Start(e) /\ ~ TimedOutRule(e) /\ \A q : ~ Fall(e, q)
  BY <1>1, <1>3, GotoStep DEF Start, TimedOutRule, Fall, TypeOK, RUNBOOK
<1> QED
  BY <1>4, <1>5, <1>6, MachineStep

LEMMA ReachedStays ==
  ASSUME TypeOK, [Next]_vars, NEW i \in Invocations, Reached(i)
  PROVE  Reached(i)'
<1> DEFINE e == i.exec
<1>0. e \in Execs /\ i.attempt \in 1..3
  BY DEF Invocations
<1>1. /\ state'[e] \notin Early
      /\ state'[e] = RUNBOOK => state[e] = RUNBOOK
  BY <1>0, StateStep, AdvanceStep DEF Reached, Early, Handling, RAG, RCA, RUNBOOK, NOTIFY
<1>2. ASSUME state[e] = RUNBOOK, state'[e] = RUNBOOK
      PROVE  i.attempt <= Current(e, RUNBOOK)'.attempt
  <2>0. /\ i.attempt <= Current(e, RUNBOOK).attempt
        /\ Current(e, RUNBOOK).attempt \in 1..3 /\ RUNBOOK \in Stages
    BY <1>0, <1>2, CurrentIsInvocation DEF Reached, Stages
  <2>1. ASSUME NEW f \in Execs, NEW s \in Stages, Retry(f, s)
        PROVE  i.attempt <= Current(e, RUNBOOK)'.attempt
    BY <1>0, <2>0, <2>1, RetryStep
  <2>2. ASSUME NEW f \in Execs \ {e}, NEW q, Goto(f, q)
        PROVE  Current(e, RUNBOOK)' = Current(e, RUNBOOK)
    BY <1>0, <2>0, <2>2, GotoStep
  <2>3. /\ ~ Start(e) /\ ~ Advance(e) /\ \A q : ~ Fall(e, q)
    BY <1>0, <1>2, GotoStep, AdvanceStep
      DEF Start, Fall, Handling, RAG, RCA, RUNBOOK, NOTIFY
  <2>4. ASSUME NEW f \in Execs, TimedOutRule(f) PROVE Current(e, RUNBOOK)' = Current(e, RUNBOOK)
    BY <2>4 DEF TimedOutRule, Current
  <2>5. ASSUME NEW j \in Invocations, Lambda(j) PROVE Current(e, RUNBOOK)' = Current(e, RUNBOOK)
    BY <1>0, <2>0, <2>5, LambdaStep
  <2>6. ASSUME UNCHANGED vars PROVE Current(e, RUNBOOK)' = Current(e, RUNBOOK)
    BY <2>6 DEF vars, Current
  <2>7. ASSUME NEW f \in Execs, Start(f) \/ Advance(f) \/ (\E q : Fall(f, q))
        PROVE  Current(e, RUNBOOK)' = Current(e, RUNBOOK)
    BY <2>2, <2>3, <2>7, AdvanceStep DEF Start, Fall
  <2> QED
    BY <2>0, <2>1, <2>4, <2>5, <2>6, <2>7, MachineStep DEF Next
<1> QED
  BY <1>1, <1>2 DEF Reached

LEMMA BegunStep ==
  ASSUME TypeOK, BegunIsReached, [Next]_vars
  PROVE  BegunIsReached'
<1> SUFFICES ASSUME NEW i \in Invocations, i.stage = RUNBOOK, at'[i] # "none"
             PROVE  Reached(i)'
  BY DEF BegunIsReached
<1>1. CASE at[i] # "none"
  BY <1>1, ReachedStays DEF BegunIsReached
<1>2. CASE at[i] = "none"
  <2>1. ASSUME NEW j \in Invocations, Lambda(j) PROVE FALSE
    BY <1>2, <2>1, LambdaStep DEF Running
  <2>2. ~ UNCHANGED vars
    BY <1>2 DEF vars
  <2> QED
    BY <1>2, <2>1, <2>2, RunbookInvoked DEF Next
<1> QED
  BY <1>1, <1>2

LEMMA SpentStays ==
  ASSUME TypeOK, [Next]_vars, NEW i \in Invocations, i.stage = RUNBOOK, Spent(i)
  PROVE  Spent(i)'
<1>1. Reached(i)'
  BY ReachedStays DEF Spent
<1>2. ASSUME at'[i] \in Running PROVE FALSE
  <2>1. at'[i] \notin {at[i], "none"}
    BY <1>2 DEF Spent, Running
  <2>2. ASSUME NEW j \in Invocations, Lambda(j) PROVE FALSE
    BY <2>1, <2>2, LambdaStep DEF Spent
  <2>3. ~ UNCHANGED vars
    BY <2>1 DEF vars
  <2> QED
    BY <2>1, <2>2, <2>3, RunbookInvoked DEF Next, Spent
<1> QED
  BY <1>1, <1>2 DEF Spent

\* Composed, the pipeline is still the pipeline ...
THEOREM SystemIsPipeline == SystemSpec => Spec
<1>1. SystemInit => Init
  BY DEF SystemInit
<1>2. [SystemNext]_systemVars => [Next]_vars
  BY DEF SystemNext, Diagnose, PutRunbook, Review, Next, Lambda, systemVars
<1> QED
  BY <1>1, <1>2, PTL DEF SystemSpec, Spec

LEMMA PipelineHolds == SystemSpec => [](IInv /\ BegunIsReached)
<1>1. Init => BegunIsReached
  BY DEF Init, BegunIsReached
<1>2. IInv /\ BegunIsReached /\ [Next]_vars => BegunIsReached'
  BY BegunStep DEF IInv
<1> QED
  BY <1>1, <1>2, InvariantHolds, SystemIsPipeline, PTL DEF Spec

\* A put that lands: what both see of it.
LEMMA PutStep ==
  ASSUME IInv, NEW i \in Invocations, PutRunbook(i)
  PROVE  /\ i.stage = RUNBOOK /\ at[i] = "stored"
         /\ RunbookOf(i) \in Diagnoses /\ RunbookOf(i).exec = i.exec
         /\ runbooks' = runbooks \cup {RunbookOf(i)}
         /\ puts' = puts \cup {[runbook |-> RunbookOf(i), issue |-> issue[RunbookOf(i)] + 1, by |-> i]}
         /\ issue[RunbookOf(i)] < MaxIssues
         /\ issue' = [issue EXCEPT ![RunbookOf(i)] = @ + 1]
         /\ (at' = at /\ unheard' = unheard \cup {i}) \/ (at'[i] \notin Running /\ unheard' = unheard)
         /\ R!Issue(RunbookOf(i)) /\ WriteRunbook(i)
<1>1. /\ i.stage = RUNBOOK /\ at[i] = "stored"
      /\ runbooks' = runbooks \cup {RunbookOf(i)}
      /\ at' = at \/ \E fate \in Fates \cup {"none"} : at' = [at EXCEPT ![i] = fate]
  BY DEF PutRunbook, WriteRunbook, Step, End, Returns, IInv, TypeOK
<1>2. at' = at \/ at'[i] \notin Running
  BY <1>1 DEF IInv, TypeOK, Fates, Running
<1>3. diagnostic[i.exec] \in 1..3 /\ i.exec \in Execs
  BY <1>1 DEF IInv, TypeOK, RunbooksInOrder, Invocations
<1>4. RunbookOf(i) \in Diagnoses /\ RunbookOf(i).exec = i.exec
  BY <1>3 DEF RunbookOf, Diagnoses
<1>5. WriteRunbook(i) /\ R!Issue(RunbookOf(i))
  BY DEF PutRunbook
<1>6. /\ issue[RunbookOf(i)] < MaxIssues
      /\ issue' = [issue EXCEPT ![RunbookOf(i)] = @ + 1]
  BY <1>5 DEF R!Issue
<1>7. /\ puts' = puts \cup {[runbook |-> RunbookOf(i), issue |-> issue[RunbookOf(i)] + 1, by |-> i]}
      /\ unheard' = IF at' = at THEN unheard \cup {i} ELSE unheard
  BY DEF PutRunbook
<1>8. (at' = at /\ unheard' = unheard \cup {i}) \/ (at'[i] \notin Running /\ unheard' = unheard)
  BY <1>2, <1>7
<1> QED
  BY <1>1, <1>4, <1>5, <1>6, <1>7, <1>8

\* ... and the review is still the review, so every theorem about either holds
\* of the two together.
THEOREM SystemIsRemediation == SystemSpec => R!Spec
<1>1. SystemInit => R!Init
  BY DEF SystemInit
<1>2. IInv /\ [SystemNext]_systemVars => [R!Next]_(R!vars)
  <2> SUFFICES ASSUME IInv, [SystemNext]_systemVars PROVE [R!Next]_(R!vars)
    OBVIOUS
  <2>1. ASSUME Diagnose PROVE UNCHANGED R!vars
    BY <2>1 DEF Diagnose, reviewVars, R!vars
  <2>2. ASSUME NEW i \in Invocations, PutRunbook(i) PROVE R!Next
    BY <2>2, PutStep DEF R!Next
  <2>3. ASSUME Review PROVE R!Next
    BY <2>3 DEF Review, R!Next
  <2>4. ASSUME UNCHANGED systemVars PROVE UNCHANGED R!vars
    BY <2>4 DEF systemVars, reviewVars, R!vars
  <2> QED
    BY <2>1, <2>2, <2>3, <2>4 DEF SystemNext
<1> QED
  BY <1>1, <1>2, PipelineHolds, PTL DEF SystemSpec, R!Spec

LEMMA ReviewHolds == SystemSpec => []R!IInv
<1>1. R!Spec => []R!IInv
  BY R!InvariantHolds, CallersAreIdentities, MaxIssuesIsNat, NobodyIsNoRequest
<1> QED
  BY <1>1, SystemIsRemediation, PTL

\* The handlers put no row, and decide only on what is pending.
LEMMA ReviewStep ==
  ASSUME R!IInv, Review
  PROVE  /\ UNCHANGED <<vars, puts, unheard, issue>>
         /\ \A b \in Diagnoses : approval[b] # "pending" =>
               approval'[b] = approval[b] /\ approvedBy'[b] = approvedBy[b]
<1>0. approval \in [Diagnoses -> R!ApprovalStatus] /\ approvedBy \in [Diagnoses -> Requests \cup {Nobody}]
  BY DEF R!IInv, R!TypeOK
<1>1. PICK r \in Requests : R!Step(r) \/ R!Die(r)
  BY DEF Review
<1>2. CASE R!DeclineRunbook(r) \/ R!DeclineUnanswered(r)
  BY <1>0, <1>2 DEF Review, R!DeclineRunbook, R!DeclineUnanswered, R!Unheard
<1>3. CASE R!ClaimForApproval(r) \/ R!ClaimUnanswered(r)
  BY <1>0, <1>3 DEF Review, R!ClaimForApproval, R!ClaimUnanswered, R!Unheard
<1>4. CASE R!WriteOutcome(r)
  BY <1>4 DEF Review, R!WriteOutcome
<1>5. CASE UNCHANGED R!rowVars
  BY <1>5 DEF Review, R!rowVars
<1> QED
  BY <1>1, <1>2, <1>3, <1>4, <1>5
  DEF R!Step, R!Die, R!RefuseTenantless, R!RefuseNotAdmin, R!Authorise, R!LoadRunbook,
      R!Conflict, R!AuditDecline, R!AuditAttempt, R!CallPlatform, R!AuditOutcome, R!NotifyIms

LEMMA PutsStep ==
  ASSUME IInv, BegunIsReached, R!IInv, PutsInOrder, [SystemNext]_systemVars
  PROVE  PutsInOrder'
<1>0. /\ TypeOK /\ [Next]_vars
      /\ issue \in [Diagnoses -> 0..MaxIssues]
      /\ \A p \in puts : /\ p.runbook \in Diagnoses /\ p.issue \in 1..MaxIssues
                        /\ p.by \in Invocations
  BY DEF IInv, R!IInv, R!TypeOK, PutsInOrder, Puts, SystemNext, Diagnose, PutRunbook, Review,
         Next, Lambda, systemVars
<1>1. /\ \A p \in puts : Spent(p.by) => Spent(p.by)'
      /\ runbooks \subseteq runbooks'
  BY <1>0, SpentStays, ResultsGrow DEF PutsInOrder
<1>2. ASSUME UNCHANGED <<puts, unheard, issue>> PROVE PutsInOrder'
  BY <1>0, <1>1, <1>2 DEF PutsInOrder, Puts
<1>3. ASSUME NEW i \in Invocations, PutRunbook(i) PROVE PutsInOrder'
  <2> DEFINE b == RunbookOf(i)
             new == [runbook |-> b, issue |-> issue[b] + 1, by |-> i]
  <2>1. /\ i.stage = RUNBOOK /\ at[i] = "stored"
        /\ b \in Diagnoses
        /\ runbooks' = runbooks \cup {b}
        /\ puts' = puts \cup {new}
        /\ issue[b] \in 0..MaxIssues /\ issue[b] < MaxIssues
        /\ issue' = [issue EXCEPT ![b] = @ + 1]
        /\ unheard' = unheard \cup {i} \/ (at'[i] \notin Running /\ unheard' = unheard)
    BY <1>0, <1>3, PutStep
  <2> HIDE DEF b
  <2>2. Reached(i)'
    BY <1>0, <2>1, ReachedStays DEF BegunIsReached
  <2>3. i \in unheard' \/ Spent(i)'
    BY <2>1, <2>2 DEF Spent
  <2>4. \A p \in puts : p.by = i => p.by \in unheard
    BY <2>1 DEF PutsInOrder, Spent, Running
  <2>5. puts' \subseteq Puts'
    <3>1. new \in Puts
      BY <2>1, MaxIssuesIsNat DEF Puts
    <3> QED
      BY <2>1, <3>1 DEF PutsInOrder, Puts
  <2>6. ASSUME NEW p \in puts'
        PROVE  /\ p.by.stage = RUNBOOK
               /\ p.runbook \in runbooks'
               /\ p.issue <= issue'[p.runbook]
               /\ p.by \in unheard' \/ Spent(p.by)'
    <3>1. CASE p \in puts
      BY <1>0, <1>1, <2>1, <3>1 DEF PutsInOrder
    <3>2. CASE p = new
      BY <1>0, <2>1, <2>3, <3>2
    <3> QED
      BY <2>1, <3>1, <3>2
  <2>7. ASSUME NEW c \in Diagnoses, NEW n \in 1..issue'[c]
        PROVE  \E p \in puts' : p.runbook = c /\ p.issue = n
    <3>1. CASE n \in 1..issue[c]
      BY <2>1, <3>1 DEF PutsInOrder
    <3>2. CASE n \notin 1..issue[c]
      <4>1. c = b
        BY <1>0, <2>1, <2>7, <3>2
      <4>2. issue'[b] = issue[b] + 1 /\ n \in 1..issue'[b] /\ n \notin 1..issue[b]
        BY <1>0, <2>1, <2>7, <3>2, <4>1
      <4>3. n = issue[b] + 1
        BY <2>1, <4>2, MaxIssuesIsNat
      <4>4. new \in puts' /\ new.runbook = b /\ new.issue = issue[b] + 1
        BY <2>1
      <4> QED
        BY <4>1, <4>3, <4>4
    <3> QED
      BY <3>1, <3>2
  <2>8. ASSUME NEW p \in puts', NEW q \in puts', p.by = q.by, p.issue # q.issue
        PROVE  p.by \in unheard'
    BY <2>1, <2>4, <2>8 DEF PutsInOrder
  <2> QED
    BY <2>5, <2>6, <2>7, <2>8 DEF PutsInOrder
<1>4. CASE Diagnose
  BY <1>2, <1>4 DEF Diagnose, reviewVars
<1>5. CASE Review
  BY <1>2, <1>5, ReviewStep
<1>6. CASE UNCHANGED systemVars
  BY <1>2, <1>6 DEF systemVars, reviewVars
<1> QED
  BY <1>3, <1>4, <1>5, <1>6 DEF SystemNext

LEMMA SystemHolds == SystemSpec => [](IInv /\ BegunIsReached /\ R!IInv /\ PutsInOrder)
<1>1. SystemInit => PutsInOrder
  BY DEF SystemInit, PutsInOrder, R!Init
<1>2. IInv /\ BegunIsReached /\ R!IInv /\ PutsInOrder /\ [SystemNext]_systemVars => PutsInOrder'
  BY PutsStep
<1> QED
  BY <1>1, <1>2, PipelineHolds, ReviewHolds, PTL DEF SystemSpec

\* Who carried something out claimed an issue of it that was put.
LEMMA ClaimedIsPut ==
  ASSUME R!IInv, PutsInOrder, NEW r \in acted
  PROVE  /\ r \in Requests /\ R!Book(r) \in Diagnoses
         /\ \E p \in puts : p.runbook = R!Book(r) /\ p.issue = claim[r]
<1>1. r \in Requests /\ ask[r] \in R!Ask
  BY DEF R!IInv, R!TypeOK
<1>2. R!Book(r) \in Diagnoses
  BY <1>1 DEF R!Book, R!Ask
<1>3. claim[r] \in 1..issue[R!Book(r)]
  BY <1>1, <1>2, MaxIssuesIsNat
  DEF R!IInv, R!TypeOK, R!ClaimsFollowThePc, R!RowShowsTheClaim
<1> QED
  BY <1>1, <1>2, <1>3 DEF PutsInOrder

\* Only what was diagnosed and written down is carried out, and one runbook per
\* execution of the pipeline (generate_runbook.py:77-99, trigger_remediation.py:181-229).
THEOREM ExecutedDiagnosed == SystemSpec => []ExecutedIsDiagnosed
<1>1. IInv /\ R!IInv /\ PutsInOrder => ExecutedIsDiagnosed
  <2> SUFFICES ASSUME IInv, R!IInv, PutsInOrder, NEW r \in acted
               PROVE  /\ R!Book(r) \in objects \cap diagnosed
                      /\ \A s \in acted : R!Book(s).exec = R!Book(r).exec => R!Book(s) = R!Book(r)
    BY DEF ExecutedIsDiagnosed
  <2>1. \A s \in acted :
           /\ R!Book(s) \in runbooks
           /\ R!Book(s).exec \in Execs
           /\ diagnostic[R!Book(s).exec] # 0 /\ R!Book(s) = Runbook(R!Book(s).exec)
    BY ClaimedIsPut DEF PutsInOrder, IInv, RunbooksInOrder, Diagnoses
  <2>2. R!Book(r) \in objects \cap diagnosed
    BY <2>1 DEF IInv, RunbooksInOrder, DiagnosticInOrder
  <2> QED
    BY <2>1, <2>2
<1> QED
  BY <1>1, SystemHolds, PTL

\* Carried out twice means put twice, by two attempts or by one the SDK repeated
\* (generate_runbook.py:85, trigger_remediation.py:94-108).
THEOREM ExecutedTwicePutTwice == SystemSpec => []ExecutedTwiceIsPutTwice
<1>1. R!IInv /\ PutsInOrder => ExecutedTwiceIsPutTwice
  <2> SUFFICES ASSUME R!IInv, PutsInOrder, NEW r \in acted, NEW s \in acted,
                      r # s, R!Book(r) = R!Book(s)
               PROVE  \E p, q \in puts :
                         /\ p.runbook = R!Book(r) /\ p.issue = claim[r]
                         /\ q.runbook = R!Book(s) /\ q.issue = claim[s]
                         /\ p.issue # q.issue
                         /\ p.by = q.by => p.by \in unheard
    BY DEF ExecutedTwiceIsPutTwice
  <2>1. claim[r] # claim[s]
    BY ClaimedIsPut DEF R!IInv, R!ClaimsFollowThePc, R!ClaimsAreUnique
  <2> QED
    BY <2>1, ClaimedIsPut DEF PutsInOrder
<1> QED
  BY <1>1, SystemHolds, PTL

\* Once generate_runbook is over for an execution, decisions on its runbook last
\* (generate_runbook.py:85, trigger_remediation.py:87-135).
THEOREM DecisionFinal == SystemSpec => DecisionIsFinal
<1>1. ASSUME IInv, R!IInv, [SystemNext]_systemVars, NEW b \in Diagnoses, Written(b.exec)
      PROVE  /\ Written(b.exec)'
             /\ issue'[b] = issue[b]
             /\ approval[b] \in {"absent", "approved", "declined"} =>
                   approval'[b] = approval[b] /\ approvedBy'[b] = approvedBy[b]
  <2>0. b.exec \in Execs /\ TypeOK /\ [Next]_vars
    BY <1>1 DEF Diagnoses, IInv, SystemNext, Diagnose, PutRunbook, Review, Next, Lambda, systemVars
  <2>1. state'[b.exec] \notin {"due", "correlate", RAG, RCA, RUNBOOK}
    BY <1>1, <2>0, StateStep, AdvanceStep DEF Written, Handling, RAG, RCA, RUNBOOK, NOTIFY
  <2>2. ASSUME NEW i \in Invocations, i.exec = b.exec, i.stage = RUNBOOK, at'[i] \in Running
        PROVE  FALSE
    <3>1. at[i] \notin Running /\ at'[i] \notin {at[i], "none"}
      BY <1>1, <2>2 DEF Written, Running
    <3>2. ASSUME NEW j \in Invocations, Lambda(j) PROVE FALSE
      BY <2>0, <3>1, <3>2, LambdaStep
    <3>3. ~ UNCHANGED vars
      BY <3>1 DEF vars
    <3>4. ASSUME NEW e \in Execs, Machine(e) \/ TimeOut(e) PROVE FALSE
      BY <2>0, <2>1, <2>2, <3>1, <3>4, LateInvocation
    <3> QED
      BY <2>0, <3>2, <3>3, <3>4 DEF Next
  <2>3. Written(b.exec)'
    BY <2>1, <2>2 DEF Written
  <2>4. ASSUME NEW i \in Invocations, PutRunbook(i)
        PROVE  UNCHANGED <<issue[b], approval[b], approvedBy[b]>>
    <3>1. RunbookOf(i) # b
      BY <1>1, <2>4, PutStep DEF Written, Running
    <3> QED
      BY <1>1, <2>4, <3>1, PutStep DEF R!Issue, R!IInv, R!TypeOK
  <2>5. CASE Diagnose
    BY <2>3, <2>5 DEF Diagnose, reviewVars
  <2>6. CASE Review
    BY <1>1, <2>3, <2>6, ReviewStep
  <2>7. CASE UNCHANGED systemVars
    BY <2>3, <2>7 DEF systemVars, reviewVars
  <2> QED
    BY <1>1, <2>3, <2>4, <2>5, <2>6, <2>7 DEF SystemNext
<1>2. IInv /\ R!IInv /\ [SystemNext]_systemVars =>
         \A b \in Diagnoses :
            Written(b.exec) =>
              /\ Written(b.exec)'
              /\ issue'[b] = issue[b]
              /\ approval[b] \in {"absent", "approved", "declined"} =>
                    approval'[b] = approval[b] /\ approvedBy'[b] = approvedBy[b]
  BY <1>1
<1> QED
  BY <1>2, SystemHolds, PTL DEF SystemSpec, DecisionIsFinal

=============================================================================
