------------------------------ MODULE Settings ------------------------------
(***************************************************************************)
(* fn-tenant-settings (handlers/tenant_settings.py): one tenant's document *)
(* of integration settings, held whole in one SSM parameter.  An edit is a *)
(* handler invocation: it reads the document, changes one entry and writes *)
(* the document back, one remote call per action; invocations interleave,  *)
(* fail and die between two calls.                                         *)
(*                                                                         *)
(* Endpoints and API keys are named after the edit that brought them, so an*)
(* entry tells who set its endpoint and who set its key.                   *)
(***************************************************************************)
EXTENDS Rbac

CONSTANTS
    Integrations,  \* KNOWN_INTEGRATIONS
    Edits,         \* handler invocations, each with its own request
    Callers,       \* the identities requests come from
    None           \* the endpoint or key of an entry that has none

ASSUME EditorsAreIdentities == Callers \subseteq Identities
ASSUME NoneIsNoEdit == None \notin Edits
ASSUME RefusalIsNoIntegration == "refused_not_admin" \notin Integrations

VARIABLES
    document,   \* the parameter
    ask,        \* what each invocation asks for
    pc,         \* where each invocation is, or how it was answered
    held,       \* the changed document each invocation holds in memory
    audit,      \* history: entries handed to record_audit
    landed,     \* history: edits whose write SSM has carried out
    intended,   \* history: the document the landed edits make, applied to one
                \* another in the order of landing
    blind,      \* history: edits whose read failed
    stale,      \* history: edits since whose read another edit's write landed
    eroded      \* history: entries last written by an edit that may not have
                \* known them

historyVars == <<audit, landed, intended, blind, stale, eroded>>
vars == <<document, ask, pc, held, audit, landed, intended, blind, stale, eroded>>

CAPABILITY == "manage_integrations"

Ask == {a \in [method: {"GET", "PUT", "DELETE"}, integration: Integrations,
               withKey: BOOLEAN, caller: Callers] : a.withKey => a.method = "PUT"}

Entry == [endpoint: Edits \cup {None}, key: Edits \cup {None}]
Document == [Integrations -> Entry]

Unset == [endpoint |-> None, key |-> None]
Blank == [i \in Integrations |-> Unset]

\* Between two remote calls, and answered: 403, 400, 200, or 500 and nothing.
Running == {"holding", "written"}
Answered == {"forbidden", "rejected", "ok", "dead"}

TypeOK ==
    /\ document \in Document
    /\ ask \in [Edits -> Ask]
    /\ pc \in [Edits -> {"received"} \cup Running \cup Answered]
    /\ held \in [Edits -> Document]
    /\ audit \subseteq [edit: Edits, result: Integrations \cup {"refused_not_admin"}]
    /\ landed \subseteq Edits
    /\ intended \in Document
    /\ blind \subseteq Edits
    /\ stale \subseteq Edits
    /\ eroded \subseteq Integrations

Init ==
    /\ document = Blank
    /\ ask \in [Edits -> Ask]
    /\ pc = [e \in Edits |-> "received"]
    /\ held = [e \in Edits |-> Blank]
    /\ audit = {}
    /\ landed = {}
    /\ intended = Blank
    /\ blind = {}
    /\ stale = {}
    /\ eroded = {}

Goto(e, from, to) ==
    /\ pc[e] = from
    /\ pc' = [pc EXCEPT ![e] = to]

Place(e) == ask[e].integration

Record(e, what) == audit' = audit \cup {[edit |-> e, result |-> what]}

\* _put and _delete: the entry replaced, an omitted key taken over.
Edited(doc, e) ==
    [doc EXCEPT ![Place(e)] =
        IF ask[e].method = "DELETE" THEN Unset
        ELSE [endpoint |-> e, key |-> IF ask[e].withKey THEN e ELSE @.key]]

-----------------------------------------------------------------------------
RefuseTenantless(e) ==
    /\ ask[e].caller = NoTenant
    /\ Goto(e, "received", "forbidden")
    /\ UNCHANGED <<document, ask, held, historyVars>>

\* Audited when it was an attempt to change something.
RefuseNotAdmin(e) ==
    /\ ask[e].caller # NoTenant
    /\ ~ Can(ask[e].caller, CAPABILITY)
    /\ Goto(e, "received", "forbidden")
    /\ IF ask[e].method = "GET" THEN audit' = audit
                                ELSE Record(e, "refused_not_admin")
    /\ UNCHANGED <<document, ask, held, landed, intended, blind, stale, eroded>>

Admitted(e) == ask[e].caller # NoTenant /\ Can(ask[e].caller, CAPABILITY)

\* GET: the document, without its keys; whatever the read returned, 200.
Show(e) ==
    /\ Admitted(e)
    /\ ask[e].method = "GET"
    /\ Goto(e, "received", "ok")
    /\ UNCHANGED <<document, ask, held, historyVars>>

\* An unknown integration, a body that is no object, an endpoint or key that
\* is no good: 400, unaudited.
Reject(e) ==
    /\ Admitted(e)
    /\ ask[e].method # "GET"
    /\ Goto(e, "received", "rejected")
    /\ UNCHANGED <<document, ask, held, historyVars>>

\* Mutants of ReadDocument: an omitted key is not taken over; only the entry
\* itself is kept.
ReadForgettingKey(e) ==
    /\ Admitted(e)
    /\ ask[e].method # "GET"
    /\ Goto(e, "received", "holding")
    /\ held' = [held EXCEPT ![e] = Edited([document EXCEPT ![Place(e)] = Unset], e)]
    /\ UNCHANGED <<document, ask, historyVars>>

ReadEntryOnly(e) ==
    /\ Admitted(e)
    /\ ask[e].method # "GET"
    /\ Goto(e, "received", "holding")
    /\ held' = [held EXCEPT ![e] = Edited([Blank EXCEPT ![Place(e)] = document[Place(e)]], e)]
    /\ UNCHANGED <<document, ask, historyVars>>

\* _read, and the entry changed in memory.
ReadDocument(e) ==
    /\ Admitted(e)
    /\ ask[e].method # "GET"
    /\ Goto(e, "received", "holding")
    /\ held' = [held EXCEPT ![e] = Edited(document, e)]
    /\ UNCHANGED <<document, ask, historyVars>>

\* _read met a ClientError -- throttling as much as a parameter that is not
\* there -- and returned an empty document instead.
ReadNothing(e) ==
    /\ Admitted(e)
    /\ ask[e].method # "GET"
    /\ Goto(e, "received", "holding")
    /\ held' = [held EXCEPT ![e] = Edited(Blank, e)]
    /\ blind' = blind \cup {e}
    /\ UNCHANGED <<document, ask, audit, landed, intended, stale, eroded>>

\* The edit says all there is to say about its entry.
Replaces(e) == ask[e].method = "DELETE" \/ ask[e].withKey

\* _write reaches SSM: put_parameter with Overwrite, whatever is there.
Land(e) ==
    /\ document' = held[e]
    /\ landed' = landed \cup {e}
    /\ intended' = Edited(intended, e)
    /\ stale' = stale \cup {f \in Edits \ {e} : pc[f] = "holding"}
    /\ eroded' = (eroded \cup {i \in Integrations : e \in stale \cup blind})
                    \ {i \in Integrations : i = Place(e) /\ Replaces(e)}

WriteDocument(e) ==
    /\ Goto(e, "holding", "written")
    /\ Land(e)
    /\ UNCHANGED <<ask, held, audit, blind>>

\* The write landed and its answer was lost: the SDK will repeat it, or give
\* up and raise (Die).
WriteUnanswered(e) ==
    /\ pc[e] = "holding"
    /\ Land(e)
    /\ UNCHANGED <<ask, pc, held, audit, blind>>

\* Mutant of AuditUpdate: a deletion is not audited.
AuditPutOnly(e) ==
    /\ Goto(e, "written", "ok")
    /\ IF ask[e].method = "PUT" THEN Record(e, Place(e)) ELSE audit' = audit
    /\ UNCHANGED <<document, ask, held, landed, intended, blind, stale, eroded>>

AuditUpdate(e) ==
    /\ Goto(e, "written", "ok")
    /\ Record(e, Place(e))
    /\ UNCHANGED <<document, ask, held, landed, intended, blind, stale, eroded>>

\* Killed, timed out, or a call raised (a write refused as too large included).
Die(e) ==
    /\ pc[e] \in Running
    /\ pc' = [pc EXCEPT ![e] = "dead"]
    /\ UNCHANGED <<document, ask, held, historyVars>>

Step(e) ==
    \/ RefuseTenantless(e) \/ RefuseNotAdmin(e) \/ Show(e) \/ Reject(e)
    \/ ReadDocument(e) \/ ReadNothing(e)
    \/ WriteDocument(e) \/ WriteUnanswered(e) \/ AuditUpdate(e) \/ Die(e)

Next == \E e \in Edits : Step(e)

Spec == Init /\ [][Next]_vars

-----------------------------------------------------------------------------
\* Every entry is what the edits of it make, applied in the order in which they
\* landed, unless an edit that could not know the entry has written it since it
\* was last set as a whole (tenant_settings.py:121-130).
EditsAddUp == \A i \in Integrations \ eroded : document[i] = intended[i]

Landing(e) == pc[e] = "holding" /\ Land(e)

KeepsKey(e) ==
    Replaces(e) \/ document'[Place(e)].key = document[Place(e)].key

\* A write leaves the other integrations' endpoints and keys alone, and an
\* update that omits api_key keeps the stored one, unless its read failed or
\* another write has landed since its read.
EditTouchesItsEntryOnly ==
    [][\A e \in Edits \ (stale \cup blind) : Landing(e) =>
          /\ \A i \in Integrations \ {Place(e)} : document'[i] = document[i]
          /\ KeepsKey(e)]_vars

\* Which endpoint a tenant's credentials are sent to never changes untold
\* (tenant_settings.py:157-159): a write that landed was handed to record_audit
\* unless its invocation broke off, and nothing else was recorded as made.
ChangeIsAudited ==
    \A e \in Edits :
       /\ e \in landed /\ pc[e] \notin {"holding", "written", "dead"} =>
             [edit |-> e, result |-> Place(e)] \in audit
       /\ \A i \in Integrations :
             [edit |-> e, result |-> i] \in audit => e \in landed /\ i = Place(e)
       /\ pc[e] = "forbidden" => e \notin landed

=============================================================================
