--------------------------- MODULE AlertDiagnosis ---------------------------
(***************************************************************************)
(* What diagnosing an alert promises, without tasks, retries, timeouts or  *)
(* invocations that outlive them: an execution settles on one saved        *)
(* diagnosis, offers that one's runbook, and completes only once it can be *)
(* approved; one that fails stays failed, and what is said of the failure  *)
(* is said in order -- on the alert at any time after it, to operations    *)
(* only of what can be redriven (statemachine/diagnosis_pipeline.asl.json).*)
(***************************************************************************)
EXTENDS Naturals

CONSTANTS Execs, Attempts

VARIABLES
    phase,      \* how each execution stands
    saved,      \* diagnoses that have been in the alert's row
    settled,    \* the diagnosis each execution settled on, 0 before it does
    offered,    \* runbooks that can be approved, named after their diagnosis
    announced,  \* executions whose runbook was announced
    flagged,    \* the alert is shown as failed
    redrivable, \* failed executions kept for a redrive
    escalated   \* failed executions operations were told of

diagnosisVars ==
    <<phase, saved, settled, offered, announced, flagged, redrivable, escalated>>

Of(e, n) == [exec |-> e, attempt |-> n]

DiagnosisInit ==
    /\ phase = [e \in Execs |-> "due"]
    /\ saved = {}
    /\ settled = [e \in Execs |-> 0]
    /\ offered = {}
    /\ announced = {}
    /\ flagged = FALSE
    /\ redrivable = {}
    /\ escalated = {}

Open(e) ==
    /\ phase[e] = "due"
    /\ phase' = [phase EXCEPT ![e] = "open"]
    /\ UNCHANGED <<saved, settled, offered, announced, flagged, redrivable, escalated>>

\* Also by work the execution has given up on, whatever has become of it.
Save(e) ==
    /\ phase[e] # "due"
    /\ \E n \in Attempts : saved' = saved \cup {Of(e, n)}
    /\ UNCHANGED <<phase, settled, offered, announced, flagged, redrivable, escalated>>

Settle(e) ==
    /\ phase[e] = "open"
    /\ settled[e] = 0
    /\ \E n \in Attempts :
          Of(e, n) \in saved /\ settled' = [settled EXCEPT ![e] = n]
    /\ UNCHANGED <<phase, saved, offered, announced, flagged, redrivable, escalated>>

Offer(e) ==
    /\ settled[e] # 0
    /\ offered' = offered \cup {Of(e, settled[e])}
    /\ UNCHANGED <<phase, saved, settled, announced, flagged, redrivable, escalated>>

Announce(e) ==
    /\ Of(e, settled[e]) \in offered
    /\ announced' = announced \cup {e}
    /\ UNCHANGED <<phase, saved, settled, offered, flagged, redrivable, escalated>>

Complete(e) ==
    /\ phase[e] = "open"
    /\ Of(e, settled[e]) \in offered
    /\ phase' = [phase EXCEPT ![e] = "complete"]
    /\ UNCHANGED <<saved, settled, offered, announced, flagged, redrivable, escalated>>

Fail(e) ==
    /\ phase[e] = "open"
    /\ phase' = [phase EXCEPT ![e] = "failed"]
    /\ UNCHANGED <<saved, settled, offered, announced, flagged, redrivable, escalated>>

Flag(e) ==
    /\ phase[e] = "failed"
    /\ flagged' = TRUE
    /\ UNCHANGED <<phase, saved, settled, offered, announced, redrivable, escalated>>

\* Progress, of another execution or of abandoned work, hides a failure.
Progress(e) ==
    /\ phase[e] # "due"
    /\ flagged' = FALSE
    /\ UNCHANGED <<phase, saved, settled, offered, announced, redrivable, escalated>>

KeepForRedrive(e) ==
    /\ phase[e] = "failed"
    /\ redrivable' = redrivable \cup {e}
    /\ UNCHANGED <<phase, saved, settled, offered, announced, flagged, escalated>>

Escalate(e) ==
    /\ e \in redrivable
    /\ escalated' = escalated \cup {e}
    /\ UNCHANGED <<phase, saved, settled, offered, announced, flagged, redrivable>>

DiagnosisNext ==
    \E e \in Execs :
        \/ Open(e) \/ Save(e) \/ Settle(e) \/ Offer(e) \/ Announce(e) \/ Complete(e)
        \/ Fail(e) \/ Flag(e) \/ Progress(e) \/ KeepForRedrive(e) \/ Escalate(e)

DiagnosisSpec == DiagnosisInit /\ [][DiagnosisNext]_diagnosisVars

=============================================================================
