-------------------------- MODULE AlertIntakeProofs --------------------------
(***************************************************************************)
(* Proofs about AlertIntake, for any sets of alerts, contents, slots and   *)
(* senders, with lagging and with consistent reads.                        *)
(***************************************************************************)
EXTENDS AlertIntakeProps, TLAPS

-----------------------------------------------------------------------------
(* The inductive invariant.                                                *)

\* A busy slot works on a delivery; past the put, the alert has a row; past
\* the publish, or once the alert was seen dispatched, EventBridge has it.
SlotsKnowTheirAlert ==
    \A d \in Slots :
        /\ pc[d] # "idle" => job[d] \in Job
        /\ pc[d] \in {"received", "existing", "publishing"} =>
              payload[d] \in Contents
        /\ pc[d] \notin {"idle", "received"} => stored[AlertOf(d)] # Nothing
        /\ pc[d] \in {"marking", "accepted", "duplicate"} =>
              published[AlertOf(d)] # {}

\* dispatched_at is set on stored and published alerts only.
DispatchedIsStored ==
    \A a \in dispatched : stored[a] # Nothing /\ published[a] # {}

\* What a slot is about to publish is what is stored.
PayloadIsStored ==
    ~ lag => \A d \in Slots :
        pc[d] = "publishing" => payload[d] = stored[AlertOf(d)]

\* A late delivery's alert stays dispatched, so it ends as a duplicate.
LateIsLate ==
    \A d \in late :
        /\ ~ lag
        /\ AlertOf(d) \in dispatched
        /\ pc[d] \in {"received", "existing", "duplicate"}

IInv ==
    /\ TypeOK
    /\ SlotsKnowTheirAlert
    /\ DispatchedIsStored
    /\ PayloadIsStored
    /\ LateIsLate
    /\ AcknowledgedIsPublished
    /\ PublishedIsAccountedFor
    /\ PublishedIsStored

-----------------------------------------------------------------------------
LEMMA TypeStep ==
  ASSUME TypeOK, SlotsKnowTheirAlert, [Next]_vars
  PROVE  TypeOK'
<1> USE BoundsArePositive DEF TypeOK, SlotsKnowTheirAlert, Outcomes, Running,
        AuditEntries, Goto, Release, Forget, Record, Start, rowVars, slotVars, busVars
<1>0. \A d \in Slots : pc[d] # "idle" => AlertOf(d) \in Alerts
  BY DEF Job, AlertOf
<1>1. ASSUME NEW j \in Job, Reject(j) PROVE TypeOK'
  BY <1>0, <1>1 DEF Reject
<1>2. ASSUME NEW d \in Slots, NEW j \in Job, NEW c \in Contents, Receive(d, j, c) PROVE TypeOK'
  BY <1>0, <1>2 DEF Receive
<1>3. ASSUME NEW d \in Slots, StoreNew(d) PROVE TypeOK'
  BY <1>0, <1>3 DEF StoreNew
<1>4. ASSUME NEW d \in Slots, FindExisting(d) PROVE TypeOK'
  BY <1>0, <1>4 DEF FindExisting
<1>5. ASSUME NEW d \in Slots, SeeDispatched(d) PROVE TypeOK'
  BY <1>0, <1>5 DEF SeeDispatched
<1>6. ASSUME NEW d \in Slots, SeeUndispatched(d) PROVE TypeOK'
  BY <1>0, <1>6 DEF SeeUndispatched
<1>7. ASSUME NEW d \in Slots, PublishAccepted(d) PROVE TypeOK'
  BY <1>0, <1>7 DEF PublishAccepted
<1>8. ASSUME NEW d \in Slots, PublishRejected(d) PROVE TypeOK'
  BY <1>0, <1>8 DEF PublishRejected
<1>9. ASSUME NEW d \in Slots, MarkDispatched(d) PROVE TypeOK'
  BY <1>0, <1>9 DEF MarkDispatched
<1>10. ASSUME NEW d \in Slots, Answer(d) PROVE TypeOK'
  BY <1>0, <1>10 DEF Answer
<1>11. ASSUME NEW d \in Slots, Die(d) PROVE TypeOK'
  BY <1>0, <1>11 DEF Die
<1>12. ASSUME NEW a \in Alerts, StartExecution(a) PROVE TypeOK'
  BY <1>0, <1>12 DEF StartExecution
<1>13. ASSUME NEW a \in Alerts, StartAndRepeat(a) PROVE TypeOK'
  BY <1>0, <1>13 DEF StartAndRepeat
<1>14. ASSUME NEW a \in Alerts, GiveUp(a) PROVE TypeOK'
  BY <1>0, <1>14 DEF GiveUp
<1>15. CASE UNCHANGED vars
  BY <1>15 DEF vars
<1> QED
  BY <1>1, <1>2, <1>3, <1>4, <1>5, <1>6, <1>7, <1>8, <1>9, <1>10, <1>11, <1>12, <1>13, <1>14, <1>15 DEF Next, Work, Bus

LEMMA Inductive ==
  ASSUME IInv, [Next]_vars
  PROVE  IInv'
<1> USE BoundsArePositive, NothingIsNothing
    DEF IInv, Outcomes, Running, Goto, Release, Forget, Record, Start,
        rowVars, slotVars, busVars
<1>0. TypeOK'
  BY TypeStep
<1>t. /\ \A d \in Slots : pc[d] # "idle" => AlertOf(d) \in Alerts
      /\ pc \in [Slots -> {"idle"} \cup Running]
      /\ dispatched \subseteq Alerts
      /\ late \subseteq Slots
      /\ acked \subseteq Alerts
      /\ \A a \in Alerts : bus[a] \in Nat /\ started[a] \in Nat
  BY DEF TypeOK, SlotsKnowTheirAlert, Job, AlertOf
<1>1. ASSUME NEW j \in Job, Reject(j) PROVE IInv'
  <2>1. SlotsKnowTheirAlert'
    BY <1>0, <1>t, <1>1 DEF Reject, SlotsKnowTheirAlert, TypeOK, AlertOf
  <2>2. DispatchedIsStored'
    BY <1>0, <1>t, <1>1 DEF Reject, DispatchedIsStored, TypeOK, AlertOf
  <2>3. PayloadIsStored'
    BY <1>0, <1>t, <1>1 DEF Reject, PayloadIsStored, TypeOK, AlertOf
  <2>4. LateIsLate'
    BY <1>0, <1>t, <1>1 DEF Reject, LateIsLate, TypeOK, AlertOf
  <2>5. AcknowledgedIsPublished'
    BY <1>0, <1>t, <1>1 DEF Reject, AcknowledgedIsPublished, TypeOK, AlertOf
  <2>6. PublishedIsAccountedFor'
    BY <1>0, <1>t, <1>1 DEF Reject, PublishedIsAccountedFor, TypeOK, AlertOf
  <2>7. PublishedIsStored'
    BY <1>0, <1>t, <1>1 DEF Reject, PublishedIsStored, TypeOK, AlertOf
  <2> QED
    BY <1>0, <2>1, <2>2, <2>3, <2>4, <2>5, <2>6, <2>7
<1>2. ASSUME NEW d \in Slots, NEW j \in Job, NEW c \in Contents, Receive(d, j, c) PROVE IInv'
  <2>1. SlotsKnowTheirAlert'
    BY <1>0, <1>t, <1>2 DEF Receive, SlotsKnowTheirAlert, TypeOK, AlertOf
  <2>2. DispatchedIsStored'
    BY <1>0, <1>t, <1>2 DEF Receive, DispatchedIsStored, TypeOK, AlertOf
  <2>3. PayloadIsStored'
    BY <1>0, <1>t, <1>2 DEF Receive, PayloadIsStored, TypeOK, AlertOf
  <2>4. LateIsLate'
    BY <1>0, <1>t, <1>2 DEF Receive, LateIsLate, TypeOK, AlertOf
  <2>5. AcknowledgedIsPublished'
    BY <1>0, <1>t, <1>2 DEF Receive, AcknowledgedIsPublished, TypeOK, AlertOf
  <2>6. PublishedIsAccountedFor'
    BY <1>0, <1>t, <1>2 DEF Receive, PublishedIsAccountedFor, TypeOK, AlertOf
  <2>7. PublishedIsStored'
    BY <1>0, <1>t, <1>2 DEF Receive, PublishedIsStored, TypeOK, AlertOf
  <2> QED
    BY <1>0, <2>1, <2>2, <2>3, <2>4, <2>5, <2>6, <2>7
<1>3. ASSUME NEW d \in Slots, StoreNew(d) PROVE IInv'
  <2>1. SlotsKnowTheirAlert'
    BY <1>0, <1>t, <1>3 DEF StoreNew, SlotsKnowTheirAlert, TypeOK, AlertOf
  <2>2. DispatchedIsStored'
    BY <1>0, <1>t, <1>3 DEF StoreNew, DispatchedIsStored, TypeOK, AlertOf
  <2>3. PayloadIsStored'
    BY <1>0, <1>t, <1>3 DEF StoreNew, PayloadIsStored, SlotsKnowTheirAlert, TypeOK, AlertOf
  <2>4. LateIsLate'
    BY <1>0, <1>t, <1>3 DEF StoreNew, LateIsLate, DispatchedIsStored, TypeOK, AlertOf
  <2>5. AcknowledgedIsPublished'
    BY <1>0, <1>t, <1>3 DEF StoreNew, AcknowledgedIsPublished, TypeOK, AlertOf
  <2>6. PublishedIsAccountedFor'
    BY <1>0, <1>t, <1>3 DEF StoreNew, PublishedIsAccountedFor, TypeOK, AlertOf
  <2>7. PublishedIsStored'
    BY <1>0, <1>t, <1>3 DEF StoreNew, PublishedIsStored, TypeOK, AlertOf
  <2> QED
    BY <1>0, <2>1, <2>2, <2>3, <2>4, <2>5, <2>6, <2>7
<1>4. ASSUME NEW d \in Slots, FindExisting(d) PROVE IInv'
  <2>1. SlotsKnowTheirAlert'
    BY <1>0, <1>t, <1>4 DEF FindExisting, SlotsKnowTheirAlert, TypeOK, AlertOf
  <2>2. DispatchedIsStored'
    BY <1>0, <1>t, <1>4 DEF FindExisting, DispatchedIsStored, TypeOK, AlertOf
  <2>3. PayloadIsStored'
    BY <1>0, <1>t, <1>4 DEF FindExisting, PayloadIsStored, TypeOK, AlertOf
  <2>4. LateIsLate'
    BY <1>0, <1>t, <1>4 DEF FindExisting, LateIsLate, TypeOK, AlertOf
  <2>5. AcknowledgedIsPublished'
    BY <1>0, <1>t, <1>4 DEF FindExisting, AcknowledgedIsPublished, TypeOK, AlertOf
  <2>6. PublishedIsAccountedFor'
    BY <1>0, <1>t, <1>4 DEF FindExisting, PublishedIsAccountedFor, TypeOK, AlertOf
  <2>7. PublishedIsStored'
    BY <1>0, <1>t, <1>4 DEF FindExisting, PublishedIsStored, TypeOK, AlertOf
  <2> QED
    BY <1>0, <2>1, <2>2, <2>3, <2>4, <2>5, <2>6, <2>7
<1>5. ASSUME NEW d \in Slots, SeeDispatched(d) PROVE IInv'
  <2>1. SlotsKnowTheirAlert'
    BY <1>0, <1>t, <1>5 DEF SeeDispatched, SlotsKnowTheirAlert, DispatchedIsStored, TypeOK, AlertOf
  <2>2. DispatchedIsStored'
    BY <1>0, <1>t, <1>5 DEF SeeDispatched, DispatchedIsStored, TypeOK, AlertOf
  <2>3. PayloadIsStored'
    BY <1>0, <1>t, <1>5 DEF SeeDispatched, PayloadIsStored, TypeOK, AlertOf
  <2>4. LateIsLate'
    BY <1>0, <1>t, <1>5 DEF SeeDispatched, LateIsLate, TypeOK, AlertOf
  <2>5. AcknowledgedIsPublished'
    BY <1>0, <1>t, <1>5 DEF SeeDispatched, AcknowledgedIsPublished, TypeOK, AlertOf
  <2>6. PublishedIsAccountedFor'
    BY <1>0, <1>t, <1>5 DEF SeeDispatched, PublishedIsAccountedFor, TypeOK, AlertOf
  <2>7. PublishedIsStored'
    BY <1>0, <1>t, <1>5 DEF SeeDispatched, PublishedIsStored, TypeOK, AlertOf
  <2> QED
    BY <1>0, <2>1, <2>2, <2>3, <2>4, <2>5, <2>6, <2>7
<1>6. ASSUME NEW d \in Slots, SeeUndispatched(d) PROVE IInv'
  <2>1. SlotsKnowTheirAlert'
    <3>0. pc[d] = "existing"
      BY <1>6 DEF SeeUndispatched
    <3>1. stored[AlertOf(d)] \in Contents
      <4>1. stored[AlertOf(d)] # Nothing
        BY <3>0 DEF SlotsKnowTheirAlert
      <4>2. stored[AlertOf(d)] \in Contents \cup {Nothing}
        BY <1>t, <3>0 DEF TypeOK
      <4> QED
        BY <4>1, <4>2
    <3> QED
      BY <1>0, <1>t, <1>6, <3>1
      DEF SeeUndispatched, SlotsKnowTheirAlert, TypeOK, AlertOf
  <2>2. DispatchedIsStored'
    BY <1>0, <1>t, <1>6 DEF SeeUndispatched, DispatchedIsStored, TypeOK, AlertOf
  <2>3. PayloadIsStored'
    BY <1>0, <1>t, <1>6 DEF SeeUndispatched, PayloadIsStored, TypeOK, AlertOf
  <2>4. LateIsLate'
    BY <1>0, <1>t, <1>6 DEF SeeUndispatched, LateIsLate, TypeOK, AlertOf
  <2>5. AcknowledgedIsPublished'
    BY <1>0, <1>t, <1>6 DEF SeeUndispatched, AcknowledgedIsPublished, TypeOK, AlertOf
  <2>6. PublishedIsAccountedFor'
    BY <1>0, <1>t, <1>6 DEF SeeUndispatched, PublishedIsAccountedFor, TypeOK, AlertOf
  <2>7. PublishedIsStored'
    BY <1>0, <1>t, <1>6 DEF SeeUndispatched, PublishedIsStored, TypeOK, AlertOf
  <2> QED
    BY <1>0, <2>1, <2>2, <2>3, <2>4, <2>5, <2>6, <2>7
<1>7. ASSUME NEW d \in Slots, PublishAccepted(d) PROVE IInv'
  <2>1. SlotsKnowTheirAlert'
    BY <1>0, <1>t, <1>7 DEF PublishAccepted, SlotsKnowTheirAlert, TypeOK, AlertOf
  <2>2. DispatchedIsStored'
    BY <1>0, <1>t, <1>7 DEF PublishAccepted, DispatchedIsStored, TypeOK, AlertOf
  <2>3. PayloadIsStored'
    BY <1>0, <1>t, <1>7 DEF PublishAccepted, PayloadIsStored, TypeOK, AlertOf
  <2>4. LateIsLate'
    BY <1>0, <1>t, <1>7 DEF PublishAccepted, LateIsLate, TypeOK, AlertOf
  <2>5. AcknowledgedIsPublished'
    BY <1>0, <1>t, <1>7 DEF PublishAccepted, AcknowledgedIsPublished, TypeOK, AlertOf
  <2>6. PublishedIsAccountedFor'
    BY <1>0, <1>t, <1>7 DEF PublishAccepted, PublishedIsAccountedFor, TypeOK, AlertOf
  <2>7. PublishedIsStored'
    BY <1>0, <1>t, <1>7 DEF PublishAccepted, PublishedIsStored, PayloadIsStored, SlotsKnowTheirAlert, TypeOK, AlertOf
  <2> QED
    BY <1>0, <2>1, <2>2, <2>3, <2>4, <2>5, <2>6, <2>7
<1>8. ASSUME NEW d \in Slots, PublishRejected(d) PROVE IInv'
  <2>1. SlotsKnowTheirAlert'
    BY <1>0, <1>t, <1>8 DEF PublishRejected, SlotsKnowTheirAlert, TypeOK, AlertOf
  <2>2. DispatchedIsStored'
    BY <1>0, <1>t, <1>8 DEF PublishRejected, DispatchedIsStored, TypeOK, AlertOf
  <2>3. PayloadIsStored'
    BY <1>0, <1>t, <1>8 DEF PublishRejected, PayloadIsStored, TypeOK, AlertOf
  <2>4. LateIsLate'
    BY <1>0, <1>t, <1>8 DEF PublishRejected, LateIsLate, TypeOK, AlertOf
  <2>5. AcknowledgedIsPublished'
    BY <1>0, <1>t, <1>8 DEF PublishRejected, AcknowledgedIsPublished, TypeOK, AlertOf
  <2>6. PublishedIsAccountedFor'
    BY <1>0, <1>t, <1>8 DEF PublishRejected, PublishedIsAccountedFor, TypeOK, AlertOf
  <2>7. PublishedIsStored'
    BY <1>0, <1>t, <1>8 DEF PublishRejected, PublishedIsStored, TypeOK, AlertOf
  <2> QED
    BY <1>0, <2>1, <2>2, <2>3, <2>4, <2>5, <2>6, <2>7
<1>9. ASSUME NEW d \in Slots, MarkDispatched(d) PROVE IInv'
  <2>1. SlotsKnowTheirAlert'
    BY <1>0, <1>t, <1>9 DEF MarkDispatched, SlotsKnowTheirAlert, TypeOK, AlertOf
  <2>2. DispatchedIsStored'
    BY <1>0, <1>t, <1>9 DEF MarkDispatched, DispatchedIsStored, SlotsKnowTheirAlert, TypeOK, AlertOf
  <2>3. PayloadIsStored'
    BY <1>0, <1>t, <1>9 DEF MarkDispatched, PayloadIsStored, TypeOK, AlertOf
  <2>4. LateIsLate'
    BY <1>0, <1>t, <1>9 DEF MarkDispatched, LateIsLate, TypeOK, AlertOf
  <2>5. AcknowledgedIsPublished'
    BY <1>0, <1>t, <1>9 DEF MarkDispatched, AcknowledgedIsPublished, SlotsKnowTheirAlert, TypeOK, AlertOf
  <2>6. PublishedIsAccountedFor'
    BY <1>0, <1>t, <1>9 DEF MarkDispatched, PublishedIsAccountedFor, TypeOK, AlertOf
  <2>7. PublishedIsStored'
    BY <1>0, <1>t, <1>9 DEF MarkDispatched, PublishedIsStored, TypeOK, AlertOf
  <2> QED
    BY <1>0, <2>1, <2>2, <2>3, <2>4, <2>5, <2>6, <2>7
<1>10. ASSUME NEW d \in Slots, Answer(d) PROVE IInv'
  <2>1. SlotsKnowTheirAlert'
    BY <1>0, <1>t, <1>10 DEF Answer, SlotsKnowTheirAlert, TypeOK, AlertOf
  <2>2. DispatchedIsStored'
    BY <1>0, <1>t, <1>10 DEF Answer, DispatchedIsStored, TypeOK, AlertOf
  <2>3. PayloadIsStored'
    BY <1>0, <1>t, <1>10 DEF Answer, PayloadIsStored, TypeOK, AlertOf
  <2>4. LateIsLate'
    BY <1>0, <1>t, <1>10 DEF Answer, LateIsLate, TypeOK, AlertOf
  <2>5. AcknowledgedIsPublished'
    BY <1>0, <1>t, <1>10 DEF Answer, AcknowledgedIsPublished, SlotsKnowTheirAlert, AuditEntries, TypeOK, AlertOf
  <2>6. PublishedIsAccountedFor'
    BY <1>0, <1>t, <1>10 DEF Answer, PublishedIsAccountedFor, TypeOK, AlertOf
  <2>7. PublishedIsStored'
    BY <1>0, <1>t, <1>10 DEF Answer, PublishedIsStored, TypeOK, AlertOf
  <2> QED
    BY <1>0, <2>1, <2>2, <2>3, <2>4, <2>5, <2>6, <2>7
<1>11. ASSUME NEW d \in Slots, Die(d) PROVE IInv'
  <2>1. SlotsKnowTheirAlert'
    BY <1>0, <1>t, <1>11 DEF Die, SlotsKnowTheirAlert, TypeOK, AlertOf
  <2>2. DispatchedIsStored'
    BY <1>0, <1>t, <1>11 DEF Die, DispatchedIsStored, TypeOK, AlertOf
  <2>3. PayloadIsStored'
    BY <1>0, <1>t, <1>11 DEF Die, PayloadIsStored, TypeOK, AlertOf
  <2>4. LateIsLate'
    BY <1>0, <1>t, <1>11 DEF Die, LateIsLate, TypeOK, AlertOf
  <2>5. AcknowledgedIsPublished'
    BY <1>0, <1>t, <1>11 DEF Die, AcknowledgedIsPublished, TypeOK, AlertOf
  <2>6. PublishedIsAccountedFor'
    BY <1>0, <1>t, <1>11 DEF Die, PublishedIsAccountedFor, TypeOK, AlertOf
  <2>7. PublishedIsStored'
    BY <1>0, <1>t, <1>11 DEF Die, PublishedIsStored, TypeOK, AlertOf
  <2> QED
    BY <1>0, <2>1, <2>2, <2>3, <2>4, <2>5, <2>6, <2>7
<1>12. ASSUME NEW a \in Alerts, StartExecution(a) PROVE IInv'
  <2>1. SlotsKnowTheirAlert'
    BY <1>0, <1>t, <1>12 DEF StartExecution, SlotsKnowTheirAlert, TypeOK, AlertOf
  <2>2. DispatchedIsStored'
    BY <1>0, <1>t, <1>12 DEF StartExecution, DispatchedIsStored, TypeOK, AlertOf
  <2>3. PayloadIsStored'
    BY <1>0, <1>t, <1>12 DEF StartExecution, PayloadIsStored, TypeOK, AlertOf
  <2>4. LateIsLate'
    BY <1>0, <1>t, <1>12 DEF StartExecution, LateIsLate, TypeOK, AlertOf
  <2>5. AcknowledgedIsPublished'
    BY <1>0, <1>t, <1>12 DEF StartExecution, AcknowledgedIsPublished, TypeOK, AlertOf
  <2>6. PublishedIsAccountedFor'
    BY <1>0, <1>t, <1>12 DEF StartExecution, PublishedIsAccountedFor, TypeOK, AlertOf
  <2>7. PublishedIsStored'
    BY <1>0, <1>t, <1>12 DEF StartExecution, PublishedIsStored, TypeOK, AlertOf
  <2> QED
    BY <1>0, <2>1, <2>2, <2>3, <2>4, <2>5, <2>6, <2>7
<1>13. ASSUME NEW a \in Alerts, StartAndRepeat(a) PROVE IInv'
  <2>1. SlotsKnowTheirAlert'
    BY <1>0, <1>t, <1>13 DEF StartAndRepeat, SlotsKnowTheirAlert, TypeOK, AlertOf
  <2>2. DispatchedIsStored'
    BY <1>0, <1>t, <1>13 DEF StartAndRepeat, DispatchedIsStored, TypeOK, AlertOf
  <2>3. PayloadIsStored'
    BY <1>0, <1>t, <1>13 DEF StartAndRepeat, PayloadIsStored, TypeOK, AlertOf
  <2>4. LateIsLate'
    BY <1>0, <1>t, <1>13 DEF StartAndRepeat, LateIsLate, TypeOK, AlertOf
  <2>5. AcknowledgedIsPublished'
    BY <1>0, <1>t, <1>13 DEF StartAndRepeat, AcknowledgedIsPublished, TypeOK, AlertOf
  <2>6. PublishedIsAccountedFor'
    BY <1>0, <1>t, <1>13 DEF StartAndRepeat, PublishedIsAccountedFor, TypeOK, AlertOf
  <2>7. PublishedIsStored'
    BY <1>0, <1>t, <1>13 DEF StartAndRepeat, PublishedIsStored, TypeOK, AlertOf
  <2> QED
    BY <1>0, <2>1, <2>2, <2>3, <2>4, <2>5, <2>6, <2>7
<1>14. ASSUME NEW a \in Alerts, GiveUp(a) PROVE IInv'
  <2>1. SlotsKnowTheirAlert'
    BY <1>0, <1>t, <1>14 DEF GiveUp, SlotsKnowTheirAlert, TypeOK, AlertOf
  <2>2. DispatchedIsStored'
    BY <1>0, <1>t, <1>14 DEF GiveUp, DispatchedIsStored, TypeOK, AlertOf
  <2>3. PayloadIsStored'
    BY <1>0, <1>t, <1>14 DEF GiveUp, PayloadIsStored, TypeOK, AlertOf
  <2>4. LateIsLate'
    BY <1>0, <1>t, <1>14 DEF GiveUp, LateIsLate, TypeOK, AlertOf
  <2>5. AcknowledgedIsPublished'
    BY <1>0, <1>t, <1>14 DEF GiveUp, AcknowledgedIsPublished, TypeOK, AlertOf
  <2>6. PublishedIsAccountedFor'
    BY <1>0, <1>t, <1>14 DEF GiveUp, PublishedIsAccountedFor, TypeOK, AlertOf
  <2>7. PublishedIsStored'
    BY <1>0, <1>t, <1>14 DEF GiveUp, PublishedIsStored, TypeOK, AlertOf
  <2> QED
    BY <1>0, <2>1, <2>2, <2>3, <2>4, <2>5, <2>6, <2>7
<1>15. CASE UNCHANGED vars
  BY <1>0, <1>15 DEF vars, SlotsKnowTheirAlert, DispatchedIsStored, PayloadIsStored, LateIsLate, AcknowledgedIsPublished, PublishedIsAccountedFor, PublishedIsStored, AlertOf
<1> QED
  BY <1>1, <1>2, <1>3, <1>4, <1>5, <1>6, <1>7, <1>8, <1>9, <1>10, <1>11, <1>12, <1>13, <1>14, <1>15 DEF Next, Work, Bus

-----------------------------------------------------------------------------
LEMMA InvariantHolds == Spec => []IInv
<1>1. Init => IInv
  BY BoundsArePositive, LagModesAreBoolean
  DEF Init, IInv, TypeOK, SlotsKnowTheirAlert, DispatchedIsStored,
      PayloadIsStored, LateIsLate, AcknowledgedIsPublished,
      PublishedIsAccountedFor, PublishedIsStored
<1>2. IInv /\ [Next]_vars => IInv'
  BY Inductive
<1> QED
  BY <1>1, <1>2, PTL DEF Spec

\* Every variable keeps its type.
THEOREM TypeCorrect == Spec => []TypeOK
<1>1. IInv => TypeOK
  BY DEF IInv
<1> QED
  BY <1>1, InvariantHolds, PTL

\* Nobody is told an alert is taken care of that EventBridge never accepted.
THEOREM AcknowledgedPublished == Spec => []AcknowledgedIsPublished
<1>1. IInv => AcknowledgedIsPublished
  BY DEF IInv
<1> QED
  BY <1>1, InvariantHolds, PTL

\* No accepted event is lost between EventBridge and the pipeline.
THEOREM PublishedAccountedFor == Spec => []PublishedIsAccountedFor
<1>1. IInv => PublishedIsAccountedFor
  BY DEF IInv
<1> QED
  BY <1>1, InvariantHolds, PTL

\* With consistent reads, what is diagnosed is what is stored.
THEOREM PublishedStored == Spec => []PublishedIsStored
<1>1. IInv => PublishedIsStored
  BY DEF IInv
<1> QED
  BY <1>1, InvariantHolds, PTL

\* With consistent reads, a delivery after dispatched_at never publishes.
THEOREM LateIsDuplicate == Spec => []LateDeliveryIsADuplicate
<1>1. IInv => LateDeliveryIsADuplicate
  BY DEF IInv, LateIsLate, LateDeliveryIsADuplicate
<1> QED
  BY <1>1, InvariantHolds, PTL

\* Once an alert is stored no delivery changes its row.
THEOREM FirstWins == Spec => FirstDeliveryWins
<1>1. IInv /\ [Next]_vars =>
        [\A a \in Alerts : stored[a] # Nothing => stored'[a] = stored[a]]_vars
  <2> SUFFICES ASSUME IInv, [Next]_vars, NEW a \in Alerts, stored[a] # Nothing
               PROVE  stored'[a] = stored[a]
    OBVIOUS
  <2>1. CASE \E d \in Slots : StoreNew(d)
    BY <2>1 DEF StoreNew, IInv, TypeOK
  <2>2. CASE UNCHANGED stored
    BY <2>2
  <2> QED
    BY <2>1, <2>2
    DEF Next, Work, Bus, vars, rowVars, Reject, Receive, FindExisting,
        SeeDispatched, SeeUndispatched, PublishAccepted, PublishRejected,
        MarkDispatched, Answer, Die, StartExecution, StartAndRepeat, GiveUp
<1> QED
  BY <1>1, InvariantHolds, PTL DEF Spec, FirstDeliveryWins

-----------------------------------------------------------------------------
(* The refinement.                                                         *)

\* Each of the abstract actions is a step of the delivery.
LEMMA StepIsDelivery ==
  ASSUME NEW a \in Alerts,
         \/ Delivery!RecordContent(a) \/ Delivery!Ask(a) \/ Delivery!Settle(a)
         \/ Delivery!Reassure(a) \/ Delivery!StartDiagnosis(a)
         \/ Delivery!KeepUndelivered(a)
  PROVE  Delivery!DeliveryNext
  BY DEF Delivery!DeliveryNext

\* What a slot's invocation stores or asks for, and of which alert.
LEMMA DeliveryStep ==
  ASSUME IInv, NEW d \in Slots, Work(d)
  PROVE  [Delivery!DeliveryNext]_(Delivery!deliveryVars)
<1> USE DEF Goto, Release, Forget, rowVars, slotVars, busVars
<1>0. PICK b \in Alerts : b = AlertOf(d)
  BY DEF Work, StoreNew, FindExisting, SeeDispatched, SeeUndispatched, PublishAccepted,
     PublishRejected, MarkDispatched, Answer, IInv, SlotsKnowTheirAlert, Job, AlertOf,
     Outcomes
<1>1. CASE StoreNew(d)
  <2>1. Delivery!RecordContent(b)
    BY <1>0, <1>1 DEF StoreNew, IInv, SlotsKnowTheirAlert, Delivery!RecordContent
  <2> QED
    BY <1>0, <2>1, StepIsDelivery
<1>2. CASE PublishAccepted(d)
  <2>1. /\ payload[d] \in IF lag THEN Contents ELSE {stored[b]}
        /\ stored[b] # Nothing
    BY <1>0, <1>2 DEF PublishAccepted, IInv, SlotsKnowTheirAlert, PayloadIsStored
  <2>2. {a \in Alerts : bus'[a] > 0} = {a \in Alerts : bus[a] > 0} \cup {b}
    BY <1>0, <1>2 DEF PublishAccepted, IInv, TypeOK
  <2>3. Delivery!Ask(b)
    BY <1>0, <1>2, <2>1, <2>2 DEF PublishAccepted, Delivery!Ask
  <2> QED
    BY <1>0, <2>3, StepIsDelivery
<1>3. CASE MarkDispatched(d)
  <2>1. Delivery!Settle(b)
    BY <1>0, <1>3 DEF MarkDispatched, IInv, SlotsKnowTheirAlert, Delivery!Settle
  <2> QED
    BY <1>0, <2>1, StepIsDelivery
<1>4. CASE Answer(d)
  <2> DEFINE told == acked \cup
                 {a \in Alerts : [alert |-> a, result |-> "created"] \in audit}
  <2>1. CASE pc[d] = "dispatch_failed"
    <3>1. acked' = acked
      BY <1>4, <2>1 DEF Answer
    <3>2. \A a \in Alerts : [alert |-> a, result |-> "created"] \in audit' <=>
                            [alert |-> a, result |-> "created"] \in audit
      BY <1>4, <2>1 DEF Answer, Record
    <3> QED
      BY <1>4, <3>1, <3>2 DEF Answer, Delivery!deliveryVars
  <2>2. CASE pc[d] # "dispatch_failed"
    <3>1. published[b] # {}
      BY <1>0, <1>4, <2>2 DEF Answer, Outcomes, IInv, SlotsKnowTheirAlert
    <3>2. acked' = acked \cup {b}
      BY <1>0, <1>4, <2>2 DEF Answer
    <3>3. \/ audit' = audit
          \/ audit' = audit \cup {[alert |-> b, result |-> "created"]}
      BY <1>0, <1>4, <2>2 DEF Answer, Record, Outcomes
    <3>4. told' = told \cup {b}
      BY <1>0, <3>2, <3>3
    <3>5. Delivery!Reassure(b)
      BY <1>4, <3>1, <3>4 DEF Answer, Delivery!Reassure
    <3> QED
      BY <1>0, <3>5, StepIsDelivery
  <2> QED
    BY <2>1, <2>2
<1>5. CASE FindExisting(d) \/ SeeDispatched(d) \/ SeeUndispatched(d) \/ PublishRejected(d)
  BY <1>5 DEF FindExisting, SeeDispatched, SeeUndispatched, PublishRejected,
     Delivery!deliveryVars
<1> QED
  BY <1>1, <1>2, <1>3, <1>4, <1>5 DEF Work

\* ... and what EventBridge does with a request that is due.
LEMMA BusStep ==
  ASSUME IInv, NEW a \in Alerts, Bus(a)
  PROVE  [Delivery!DeliveryNext]_(Delivery!deliveryVars)
<1> DEFINE waiting == {b \in Alerts : bus[b] > 0}
           begun == {b \in Alerts : started[b] > 0}
<1> USE DEF rowVars, slotVars, Start
<1>1. a \in waiting
  BY DEF Bus, StartExecution, StartAndRepeat, GiveUp
<1>2. waiting' \in {waiting, waiting \ {a}}
  <2>1. bus' = bus \/ bus' = [bus EXCEPT ![a] = @ - 1]
    BY DEF Bus, StartExecution, StartAndRepeat, GiveUp
  <2>2. bus \in [Alerts -> Nat]
    BY BoundsArePositive DEF IInv, TypeOK
  <2>3. \A b \in Alerts \ {a} : bus'[b] = bus[b]
    BY <2>1, <2>2
  <2>4. CASE bus'[a] > 0
    BY <1>1, <2>3, <2>4
  <2>5. CASE ~ (bus'[a] > 0)
    BY <2>3, <2>5
  <2> QED
    BY <2>4, <2>5
<1>3. CASE StartExecution(a) \/ StartAndRepeat(a)
  <2>1. begun' = begun \cup {a}
    BY <1>3, BoundsArePositive DEF StartExecution, StartAndRepeat, IInv, TypeOK
  <2>2. Delivery!StartDiagnosis(a)
    BY <1>1, <1>2, <1>3, <2>1
    DEF StartExecution, StartAndRepeat, Delivery!StartDiagnosis
  <2> QED
    BY <2>2, StepIsDelivery
<1>4. CASE GiveUp(a)
  <2>1. Delivery!KeepUndelivered(a)
    BY <1>1, <1>2, <1>4 DEF GiveUp, Delivery!KeepUndelivered
  <2> QED
    BY <2>1, StepIsDelivery
<1> QED
  BY <1>3, <1>4 DEF Bus

\* Whatever deliveries overlap, die, come again and read stale rows, nothing shows
\* but the delivery of alerts: the first content stays and is what a diagnosis is
\* asked for, nobody is reassured before, and no request is lost (alerts.py:10-24).
THEOREM DeliveryRefinement == Spec => ImplementsDelivery
<1>1. Init => Delivery!DeliveryInit
  <2> SUFFICES ASSUME Init PROVE Delivery!DeliveryInit
    OBVIOUS
  <2>1. /\ {a \in Alerts : bus[a] > 0} = {}
        /\ {a \in Alerts : started[a] > 0} = {}
    BY DEF Init
  <2> QED
    BY <2>1, LagModesAreBoolean DEF Init, Delivery!DeliveryInit
<1>2. IInv /\ [Next]_vars => [Delivery!DeliveryNext]_(Delivery!deliveryVars)
  <2> SUFFICES ASSUME IInv, [Next]_vars
               PROVE  [Delivery!DeliveryNext]_(Delivery!deliveryVars)
    OBVIOUS
  <2>1. ASSUME NEW j \in Job, Reject(j)
        PROVE  UNCHANGED Delivery!deliveryVars
    BY <2>1 DEF Reject, Record, rowVars, busVars, Delivery!deliveryVars
  <2>2. ASSUME NEW d \in Slots, NEW j \in Job, NEW c \in Contents, Receive(d, j, c)
        PROVE  UNCHANGED Delivery!deliveryVars
    BY <2>2 DEF Receive, rowVars, busVars, Delivery!deliveryVars
  <2>3. ASSUME NEW d \in Slots, Die(d)
        PROVE  UNCHANGED Delivery!deliveryVars
    BY <2>3 DEF Die, rowVars, busVars, Delivery!deliveryVars
  <2>4. CASE UNCHANGED vars
    BY <2>4 DEF vars, Delivery!deliveryVars
  <2> QED
    BY <2>1, <2>2, <2>3, <2>4, DeliveryStep, BusStep DEF Next
<1> QED
  BY <1>1, <1>2, InvariantHolds, PTL
  DEF Spec, ImplementsDelivery, Delivery!DeliverySpec

=============================================================================
