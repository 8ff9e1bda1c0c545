-------------------------- MODULE AlertIntakeProps --------------------------
(***************************************************************************)
(* What is claimed of AlertIntake.                                         *)
(***************************************************************************)
EXTENDS AlertIntake

\* Nobody is told an alert is taken care of -- a 202, the console's "is being
\* diagnosed", or the audit trail's "created" -- unless EventBridge accepted
\* an event for it; dispatched_at says the same.
AcknowledgedIsPublished ==
    \A a \in Alerts :
        \/ a \in acked
        \/ a \in dispatched
        \/ [alert |-> a, result |-> "created"] \in audit
        => published[a] # {}

\* An accepted event is never lost: it started an execution, is due, or is in
\* the dead-letter queue.
PublishedIsAccountedFor ==
    \A a \in Alerts :
        published[a] # {} => started[a] > 0 \/ bus[a] > 0 \/ a \in dlq

\* Unless reads lag, every diagnosis is of the content in the alert's row, even
\* when the delivery that publishes is not the one that stored.
PublishedIsStored ==
    ~ lag => \A a \in Alerts : published[a] \subseteq {stored[a]}

\* Unless reads lag, a delivery that arrives once dispatched_at is set does
\* not publish the alert again: it collides (alerts.py:10-13).
LateDeliveryIsADuplicate ==
    ~ lag => \A d \in late : pc[d] \notin {"publishing", "marking", "accepted"}

\* The first delivery stored wins; later ones never change an alert's row.
FirstDeliveryWins ==
    [][\A a \in Alerts : stored[a] # Nothing => stored'[a] = stored[a]]_vars

\* Liveness: an alert stored by a delivery that then died or failed to publish
\* is published by a later delivery, as long as the sender retries.
StoredIsPublished == \A a \in Alerts : stored[a] # Nothing ~> published[a] # {}

\* Liveness: what EventBridge accepted starts a diagnosis or is dead-lettered.
PublishedIsHandled ==
    \A a \in Alerts : published[a] # {} ~> started[a] > 0 \/ a \in dlq

-----------------------------------------------------------------------------
\* The refinement.  A request for diagnosis is an event on the bus; a sender is
\* reassured by an answer or by the audit trail's "created".
Delivery == INSTANCE AlertDelivery WITH
    stale <- lag,
    row <- stored,
    asked <- published,
    due <- {a \in Alerts : bus[a] > 0},
    started <- {a \in Alerts : started[a] > 0},
    kept <- dlq,
    settled <- dispatched,
    reassured <- acked \cup
        {a \in Alerts : [alert |-> a, result |-> "created"] \in audit}

\* Every step of the handlers and of EventBridge is a step of the delivery, or
\* invisible: first content wins, nobody is reassured too early, and no request
\* for diagnosis is lost on the way (alerts.py:10-24, template.yaml:1284-1306).
ImplementsDelivery == Delivery!DeliverySpec

=============================================================================
