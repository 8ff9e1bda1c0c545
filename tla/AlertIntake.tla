---------------------------- MODULE AlertIntake ----------------------------
(***************************************************************************)
(* How an alert gets in: the webhook (ingest_normalize.py), the console's  *)
(* form (create_incident.py), the deduplication both share                 *)
(* (alerts.store_and_dispatch), and EventBridge, which starts a diagnosis  *)
(* for every alert.received it accepted.                                   *)
(*                                                                         *)
(* Deliveries run in slots: each slot is one handler invocation at a time, *)
(* so several deliveries of one alert may interleave, die and come again,  *)
(* as often as the sender likes.  An alert here is an alert_id: a delivery *)
(* that brings none gets a fresh one and is simply another alert.          *)
(***************************************************************************)
EXTENDS Naturals, Rbac

CONSTANTS
    Alerts,      \* alert ids
    Contents,    \* what deliveries of an alert may say of it
    Slots,       \* how many handler invocations may run at once
    Senders,     \* where deliveries come from: the webhook or the console
    LagModes,    \* whether DynamoDB's default reads may return an old version
    BusRepeats,  \* whether EventBridge may invoke its target twice for an event
    MaxInFlight, \* bound: events of one alert waiting on the bus
    MaxStarts,   \* executions are counted up to here; more count as this many
    Nothing      \* no row, no job

\* A webhook delivery is signed or not; a console's comes from an identity.
\* "unsigned" stands for every delivery turned away with a 4xx and no trace:
\* oversized, malformed, unsigned, or a console body that does not validate.
Webhook == {"signed", "unsigned"}

ASSUME SendersAreKnown == Senders \subseteq Identities \cup Webhook
ASSUME LagModesAreBoolean == LagModes \subseteq BOOLEAN
ASSUME BusRepeatsIsBoolean == BusRepeats \in BOOLEAN
ASSUME BoundsArePositive == MaxInFlight \in Nat \ {0} /\ MaxStarts \in Nat \ {0}
ASSUME NothingIsNothing == Nothing \notin Contents

VARIABLES
    lag,         \* whether reads may lag in this behaviour
    stored,      \* the content of each alert's row, Nothing if there is none
    dispatched,  \* the alerts whose row has dispatched_at
    pc,          \* where each slot's invocation is
    job,         \* alert and sender of the delivery each slot handles
    payload,     \* the content each slot is to store or publish
    bus,         \* accepted events EventBridge has not got rid of yet
    started,     \* executions started per alert
    dlq,         \* alerts with an event in AlertDispatchDlq
    acked,       \* history: alerts some sender was told are taken care of
    published,   \* history: contents EventBridge accepted, per alert
    late,        \* history: slots whose delivery came after dispatched_at was set
    audit        \* history: entries handed to record_audit

rowVars == <<stored, dispatched>>
slotVars == <<pc, job, payload, late>>
busVars == <<bus, started, dlq>>
vars == <<lag, stored, dispatched, pc, job, payload, bus, started, dlq,
          acked, published, late, audit>>

CAPABILITY == "create_incident"

Job == [alert: Alerts, from: Senders]

\* store_and_dispatch's outcomes; both callers treat CREATED and REDISPATCHED
\* alike, so "accepted" stands for either.
Outcomes == {"accepted", "duplicate", "dispatch_failed"}
Running == {"received", "existing", "publishing", "marking"} \cup Outcomes

AuditEntries ==
    [alert: Alerts, result: {"created", "dispatch_failed"}]
        \cup [alert: {Nothing}, result: {"refused_not_permitted"}]

TypeOK ==
    /\ lag \in BOOLEAN
    /\ stored \in [Alerts -> Contents \cup {Nothing}]
    /\ dispatched \subseteq Alerts
    /\ pc \in [Slots -> {"idle"} \cup Running]
    /\ job \in [Slots -> Job \cup {Nothing}]
    /\ payload \in [Slots -> Contents \cup {Nothing}]
    /\ bus \in [Alerts -> 0..MaxInFlight]
    /\ started \in [Alerts -> 0..MaxStarts]
    /\ dlq \subseteq Alerts
    /\ acked \subseteq Alerts
    /\ published \in [Alerts -> SUBSET Contents]
    /\ late \subseteq Slots
    /\ audit \subseteq AuditEntries

Init ==
    /\ lag \in LagModes
    /\ stored = [a \in Alerts |-> Nothing]
    /\ dispatched = {}
    /\ pc = [d \in Slots |-> "idle"]
    /\ job = [d \in Slots |-> Nothing]
    /\ payload = [d \in Slots |-> Nothing]
    /\ bus = [a \in Alerts |-> 0]
    /\ started = [a \in Alerts |-> 0]
    /\ dlq = {}
    /\ acked = {}
    /\ published = [a \in Alerts |-> {}]
    /\ late = {}
    /\ audit = {}

-----------------------------------------------------------------------------
(* Slots.                                                                  *)

Goto(d, from, to) ==
    /\ pc[d] = from
    /\ pc' = [pc EXCEPT ![d] = to]

\* The alert's content is of no more use to this invocation.
Forget(d) == payload' = [payload EXCEPT ![d] = Nothing]

\* The invocation ends and its memory with it.
Release(d) ==
    /\ pc' = [pc EXCEPT ![d] = "idle"]
    /\ job' = [job EXCEPT ![d] = Nothing]
    /\ Forget(d)
    /\ late' = late \ {d}

AlertOf(d) == job[d].alert

Record(a, what) == audit' = audit \cup {[alert |-> a, result |-> what]}

-----------------------------------------------------------------------------
(* The handlers up to store_and_dispatch.                                  *)

MayCreate(j) == Can(j.from, CAPABILITY)

Admitted(j) == j.from = "signed" \/ MayCreate(j)

\* 400, 401, 403 and 413: nothing is stored.  Only the console's refusal of a
\* role is audited, before the body is looked at.
Reject(j) ==
    /\ ~ Admitted(j)
    /\ IF j.from \notin Webhook \cup {NoTenant}
         THEN Record(Nothing, "refused_not_permitted")
         ELSE UNCHANGED audit
    /\ UNCHANGED <<lag, rowVars, slotVars, busVars, acked, published>>

\* A delivery, first or repeated, passes every check and is normalized.
Receive(d, j, c) ==
    /\ Admitted(j)
    /\ Goto(d, "idle", "received")
    /\ job' = [job EXCEPT ![d] = j]
    /\ payload' = [payload EXCEPT ![d] = c]
    /\ late' = IF j.alert \in dispatched /\ ~ lag THEN late \cup {d} ELSE late
    /\ UNCHANGED <<lag, rowVars, busVars, acked, published, audit>>

-----------------------------------------------------------------------------
(* alerts.store_and_dispatch.                                              *)

\* Mutant of StoreNew: the put without its condition.
StoreAnyway(d) ==
    /\ Goto(d, "received", "publishing")
    /\ stored' = [stored EXCEPT ![AlertOf(d)] = payload[d]]
    /\ UNCHANGED <<lag, dispatched, job, payload, late, busVars, acked, published, audit>>

\* The conditional put succeeds: the delivery is the alert's first.
StoreNew(d) ==
    /\ Goto(d, "received", "publishing")
    /\ stored[AlertOf(d)] = Nothing
    /\ stored' = [stored EXCEPT ![AlertOf(d)] = payload[d]]
    /\ UNCHANGED <<lag, dispatched, job, payload, late, busVars, acked, published, audit>>

\* Mutant of FindExisting: whatever has a row is a duplicate.
CallExistingDuplicate(d) ==
    /\ Goto(d, "received", "duplicate")
    /\ stored[AlertOf(d)] # Nothing
    /\ Forget(d)
    /\ UNCHANGED <<lag, rowVars, job, late, busVars, acked, published, audit>>

\* The conditional put fails: the alert has a row already.
FindExisting(d) ==
    /\ Goto(d, "received", "existing")
    /\ stored[AlertOf(d)] # Nothing
    /\ UNCHANGED <<lag, rowVars, job, payload, late, busVars, acked, published, audit>>

\* get_item sees dispatched_at: a duplicate.
SeeDispatched(d) ==
    /\ Goto(d, "existing", "duplicate")
    /\ AlertOf(d) \in dispatched
    /\ Forget(d)
    /\ UNCHANGED <<lag, rowVars, job, late, busVars, acked, published, audit>>

\* Mutants of SeeUndispatched: dispatched_at is not looked at, and "alert or
\* existing" in place of "existing or alert".
IgnoreDispatched(d) ==
    /\ Goto(d, "existing", "publishing")
    /\ payload' = [payload EXCEPT ![d] = stored[AlertOf(d)]]
    /\ UNCHANGED <<lag, rowVars, job, late, busVars, acked, published, audit>>

PublishOwnContent(d) ==
    /\ Goto(d, "existing", "publishing")
    /\ AlertOf(d) \notin dispatched \/ lag
    /\ UNCHANGED <<lag, rowVars, job, payload, late, busVars, acked, published, audit>>

\* get_item sees no dispatched_at, because there is none or because the read
\* lags; a read that lags further sees no row, and the delivery's own content
\* is published in its place ("existing or alert").
SeeUndispatched(d) ==
    /\ Goto(d, "existing", "publishing")
    /\ AlertOf(d) \notin dispatched \/ lag
    /\ \/ payload' = [payload EXCEPT ![d] = stored[AlertOf(d)]]
       \/ lag /\ UNCHANGED payload
    /\ UNCHANGED <<lag, rowVars, job, late, busVars, acked, published, audit>>

\* publish_received: EventBridge accepts the entry ...
PublishAccepted(d) ==
    /\ Goto(d, "publishing", "marking")
    /\ bus[AlertOf(d)] < MaxInFlight
    /\ bus' = [bus EXCEPT ![AlertOf(d)] = @ + 1]
    /\ published' = [published EXCEPT ![AlertOf(d)] = @ \cup {payload[d]}]
    /\ Forget(d)
    /\ UNCHANGED <<lag, rowVars, job, late, started, dlq, acked, audit>>

\* ... or reports it failed.
PublishRejected(d) ==
    /\ Goto(d, "publishing", "dispatch_failed")
    /\ Forget(d)
    /\ UNCHANGED <<lag, rowVars, job, late, busVars, acked, published, audit>>

MarkDispatched(d) ==
    /\ Goto(d, "marking", "accepted")
    /\ dispatched' = dispatched \cup {AlertOf(d)}
    /\ UNCHANGED <<lag, stored, job, payload, late, busVars, acked, published, audit>>

-----------------------------------------------------------------------------
(* The handlers after store_and_dispatch.  "acked" is a 202, or the         *)
(* console's 409 that says the incident is being diagnosed; a 502 is        *)
(* neither.  The console audits a created and a failed incident.            *)

\* Mutant of Answer: dispatch_failed is answered like the other outcomes.
AnswerAllAlike(d) ==
    /\ pc[d] \in Outcomes
    /\ Release(d)
    /\ acked' = acked \cup {AlertOf(d)}
    /\ UNCHANGED <<lag, rowVars, busVars, published, audit>>

Answer(d) ==
    /\ pc[d] \in Outcomes
    /\ Release(d)
    /\ acked' = IF pc[d] = "dispatch_failed" THEN acked ELSE acked \cup {AlertOf(d)}
    /\ IF job[d].from \notin Webhook /\ pc[d] # "duplicate"
         THEN Record(AlertOf(d), IF pc[d] = "accepted" THEN "created" ELSE pc[d])
         ELSE UNCHANGED audit
    /\ UNCHANGED <<lag, rowVars, busVars, published>>

\* Killed, timed out, or a call raised: 500 or no answer at all.
Die(d) ==
    /\ pc[d] # "idle"
    /\ Release(d)
    /\ UNCHANGED <<lag, rowVars, busVars, acked, published, audit>>

-----------------------------------------------------------------------------
(* EventBridge: AlertReceivedRule.                                         *)

Start(a) == started' = [started EXCEPT ![a] = IF @ < MaxStarts THEN @ + 1 ELSE @]

StartExecution(a) ==
    /\ bus[a] > 0
    /\ bus' = [bus EXCEPT ![a] = @ - 1]
    /\ Start(a)
    /\ UNCHANGED <<lag, rowVars, slotVars, dlq, acked, published, audit>>

\* At-least-once: the target is invoked and the event stays due.
StartAndRepeat(a) ==
    /\ BusRepeats
    /\ bus[a] > 0
    /\ Start(a)
    /\ UNCHANGED <<lag, rowVars, slotVars, bus, dlq, acked, published, audit>>

\* Mutant of GiveUp: the rule's target has no dead-letter queue.
Drop(a) ==
    /\ bus[a] > 0
    /\ bus' = [bus EXCEPT ![a] = @ - 1]
    /\ UNCHANGED <<lag, rowVars, slotVars, started, dlq, acked, published, audit>>

\* The retries are used up: AlertDispatchDlq.
GiveUp(a) ==
    /\ bus[a] > 0
    /\ bus' = [bus EXCEPT ![a] = @ - 1]
    /\ dlq' = dlq \cup {a}
    /\ UNCHANGED <<lag, rowVars, slotVars, started, acked, published, audit>>

-----------------------------------------------------------------------------
Work(d) ==
    \/ StoreNew(d) \/ FindExisting(d) \/ SeeDispatched(d)
    \/ SeeUndispatched(d) \/ PublishAccepted(d) \/ PublishRejected(d)
    \/ MarkDispatched(d) \/ Answer(d)

Bus(a) == StartExecution(a) \/ StartAndRepeat(a) \/ GiveUp(a)

Next ==
    \/ \E j \in Job : Reject(j)
    \/ \E d \in Slots, j \in Job, c \in Contents : Receive(d, j, c)
    \/ \E d \in Slots : Work(d) \/ Die(d)
    \/ \E a \in Alerts : Bus(a)

Spec == Init /\ [][Next]_vars

\* The monitoring tool sends an alert again until it is told it was taken.
Redeliver(a) ==
    /\ a \notin acked
    /\ \E d \in Slots, c \in Contents : Receive(d, [alert |-> a, from |-> "signed"], c)

\* Lambda runs what it started; an invocation that is tried again and again
\* does not die every time, nor does EventBridge refuse every time; accepted
\* events are attempted until they start something or are given up.
Fairness ==
    /\ \A a \in Alerts : SF_vars(Redeliver(a))
    /\ WF_vars(\E d \in Slots : Work(d))
    /\ SF_vars(\E d \in Slots : StoreNew(d) \/ FindExisting(d))
    /\ SF_vars(\E d \in Slots : SeeDispatched(d) \/ SeeUndispatched(d))
    /\ SF_vars(\E d \in Slots : PublishAccepted(d))
    /\ \A a \in Alerts : WF_vars(StartExecution(a) \/ GiveUp(a))

FairSpec == Spec /\ Fairness

=============================================================================
