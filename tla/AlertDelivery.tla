--------------------------- MODULE AlertDelivery ---------------------------
(***************************************************************************)
(* What alert intake promises, without handlers, deliveries or retries: the*)
(* first content recorded of an alert stays; a diagnosis is asked for only *)
(* of a recorded alert and, unless reads are stale, only of its content;   *)
(* an alert is called settled, and its sender reassured, only once a       *)
(* diagnosis was asked for; and what was asked for stays due until an      *)
(* execution starts or the request is kept as undeliverable                *)
(* (common/alerts.py:1-24, template.yaml's AlertReceivedRule).             *)
(***************************************************************************)
CONSTANTS Alerts, Contents, Nothing

VARIABLES
    stale,      \* whether reads may be stale in this behaviour
    row,        \* the content recorded of each alert
    asked,      \* the contents a diagnosis of each alert was asked for
    due,        \* alerts with a request for diagnosis nobody has disposed of
    started,    \* alerts a diagnosis was started for
    kept,       \* alerts with a request kept as undeliverable
    settled,    \* alerts whose request for diagnosis is on record
    reassured   \* alerts somebody was told are taken care of

deliveryVars == <<stale, row, asked, due, started, kept, settled, reassured>>

DeliveryInit ==
    /\ stale \in BOOLEAN
    /\ row = [a \in Alerts |-> Nothing]
    /\ asked = [a \in Alerts |-> {}]
    /\ due = {}
    /\ started = {}
    /\ kept = {}
    /\ settled = {}
    /\ reassured = {}

RecordContent(a) ==
    /\ row[a] = Nothing
    /\ \E c \in Contents : row' = [row EXCEPT ![a] = c]
    /\ UNCHANGED <<stale, asked, due, started, kept, settled, reassured>>

\* At least once: nothing here keeps an alert from being asked for again.
Ask(a) ==
    /\ row[a] # Nothing
    /\ \E c \in IF stale THEN Contents ELSE {row[a]} :
          asked' = [asked EXCEPT ![a] = @ \cup {c}]
    /\ due' = due \cup {a}
    /\ UNCHANGED <<stale, row, started, kept, settled, reassured>>

Settle(a) ==
    /\ asked[a] # {}
    /\ settled' = settled \cup {a}
    /\ UNCHANGED <<stale, row, asked, due, started, kept, reassured>>

Reassure(a) ==
    /\ asked[a] # {}
    /\ reassured' = reassured \cup {a}
    /\ UNCHANGED <<stale, row, asked, due, started, kept, settled>>

\* Either way another request for the alert may still be due.
StartDiagnosis(a) ==
    /\ a \in due
    /\ due' \in {due, due \ {a}}
    /\ started' = started \cup {a}
    /\ UNCHANGED <<stale, row, asked, kept, settled, reassured>>

KeepUndelivered(a) ==
    /\ a \in due
    /\ due' \in {due, due \ {a}}
    /\ kept' = kept \cup {a}
    /\ UNCHANGED <<stale, row, asked, started, settled, reassured>>

DeliveryNext ==
    \E a \in Alerts :
        \/ RecordContent(a) \/ Ask(a) \/ Settle(a) \/ Reassure(a)
        \/ StartDiagnosis(a) \/ KeepUndelivered(a)

DeliverySpec == DeliveryInit /\ [][DeliveryNext]_deliveryVars

=============================================================================
