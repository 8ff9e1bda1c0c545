------------------------------- MODULE System -------------------------------
(***************************************************************************)
(* Diagnosis and review of one alert, composed: Pipeline and Remediation   *)
(* share the Runbooks rows.  generate_runbook puts a row as pending        *)
(* whatever it holds; reviewers decide on any row there is by then, also   *)
(* while attempts of generate_runbook are still running.  Pipeline sees of *)
(* a row that it is there (runbooks), Remediation what it says (approval,  *)
(* execution, approvedBy).                                                 *)
(***************************************************************************)
EXTENDS PipelineProps

CONSTANTS
    Requests, Callers, MaxIssues, Nobody,       \* as in Remediation
    Faulty  \* bound: the invocations that may be noticed to end without an answer

VARIABLES
    approval, execution, approvedBy, issue, ask, pc, claim, result,
    unanswered, acted, audit, notified,         \* as in Remediation
    puts,    \* history: the issues of each runbook and whose put made them
    unheard  \* history: invocations one of whose puts was not answered

\* With its proofs, so that what they establish is at hand for the two together.
R == INSTANCE RemediationProofs WITH Runbooks <- Diagnoses

ASSUME CallersAreIdentities == Callers \subseteq R!Identities
ASSUME MaxIssuesIsNat == MaxIssues \in Nat
ASSUME NobodyIsNoRequest == Nobody \notin Requests

reviewVars == <<approval, execution, approvedBy, issue, ask, pc, claim, result,
                unanswered, acted, audit, notified>>
systemVars == <<vars, reviewVars, puts, unheard>>

Puts == [runbook: Diagnoses, issue: 1..MaxIssues, by: Invocations]

SystemInit ==
    /\ Init
    /\ R!Init
    /\ puts = {}
    /\ unheard = {}

MayEnd(i) == at'[i] \in Fates \ {"ok"} => i \in Faulty

\* The machine and every call of the tasks but one.
Diagnose ==
    /\ \/ \E e \in Execs : Machine(e) \/ TimeOut(e)
       \/ \E i \in Invocations :
             /\ \/ ReadHistory(i) \/ MarkStage(i) \/ MarkFailed(i) \/ GatherContext(i)
                \/ WriteDiagnosis(i) \/ WriteObject(i) \/ PublishReady(i)
                \/ RefuseAnswer(i) \/ Die(i)
             /\ MayEnd(i)
    /\ UNCHANGED <<reviewVars, puts, unheard>>

\* generate_runbook's put_item, as both see it.
PutRunbook(i) ==
    LET b == RunbookOf(i) IN
    /\ WriteRunbook(i)
    /\ MayEnd(i)
    /\ R!Issue(b)
    /\ puts' = puts \cup {[runbook |-> b, issue |-> issue[b] + 1, by |-> i]}
    /\ unheard' = IF at' = at THEN unheard \cup {i} ELSE unheard

\* fn-trigger-remediation.
Review ==
    /\ \E r \in Requests : R!Step(r) \/ R!Die(r)
    /\ UNCHANGED <<vars, puts, unheard>>

SystemNext == Diagnose \/ (\E i \in Invocations : PutRunbook(i)) \/ Review

SystemSpec == SystemInit /\ [][SystemNext]_systemVars

-----------------------------------------------------------------------------
(* What is claimed of the two together.                                    *)

\* What the automation platform carries out has its document in S3 and restates a
\* diagnosis that was saved; and one execution of the pipeline never leads to
\* two different runbooks being carried out, however often its tasks are retried
\* or outlive their timeout (generate_runbook.py:7-9, trigger_remediation.py:181-186).
ExecutedIsDiagnosed ==
    \A r \in acted :
        LET b == R!Book(r) IN
        /\ b \in objects \cap diagnosed
        /\ \A s \in acted : R!Book(s).exec = b.exec => R!Book(s) = b

\* "Exactly once" as trigger_remediation.py:9-13 has it.
ExactlyOnce == R!ExactlyOnce

\* A runbook is carried out twice only if generate_runbook put its row twice: two
\* of its attempts did, or one whose put was not answered and was sent again
\* (generate_runbook.py:85, trigger_remediation.py:10-13).
ExecutedTwiceIsPutTwice ==
    \A r, s \in acted :
        r # s /\ R!Book(r) = R!Book(s) =>
            \E p, q \in puts :
                /\ p.runbook = R!Book(r) /\ p.issue = claim[r]
                /\ q.runbook = R!Book(s) /\ q.issue = claim[s]
                /\ p.issue # q.issue
                /\ p.by = q.by => p.by \in unheard

\* The machine is past generate_runbook and no attempt of it is running.
Written(e) ==
    /\ state[e] \notin {"due", "correlate", RAG, RCA, RUNBOOK}
    /\ \A i \in Invocations : i.exec = e /\ i.stage = RUNBOOK => at[i] \notin Running

\* From then on a decision is final, and so is an execution's outcome: nobody
\* decides the runbook again and nothing is written that could make anyone
\* (generate_runbook.py:85, trigger_remediation.py:87-135).
DecisionIsFinal ==
    [][\A b \in Diagnoses :
          Written(b.exec) =>
              /\ Written(b.exec)'
              /\ issue'[b] = issue[b]
              /\ approval[b] \in {"absent", "approved", "declined"} =>
                    approval'[b] = approval[b] /\ approvedBy'[b] = approvedBy[b]]_systemVars

=============================================================================
