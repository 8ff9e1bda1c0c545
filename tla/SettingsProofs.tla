--------------------------- MODULE SettingsProofs ---------------------------
(***************************************************************************)
(* Settings, proved for any number of edits and integrations.  The         *)
(* invariant: an edit that is not blind and has not been overtaken holds   *)
(* the current document with its own change made (HeldIsCurrent).          *)
(***************************************************************************)
EXTENDS Settings, TLAPS

\* An edit keeps a document a document.
LEMMA EditedType ==
    ASSUME TypeOK, NEW doc \in Document, NEW e \in Edits
    PROVE  Edited(doc, e) \in Document
  BY DEF TypeOK, Edited, Document, Entry, Unset, Place, Ask

\* Making an edit twice is making it once: an SDK may repeat a write.
LEMMA EditedTwice ==
    ASSUME TypeOK, NEW doc \in Document, NEW e \in Edits
    PROVE  Edited(Edited(doc, e), e) = Edited(doc, e)
  BY DEF TypeOK, Edited, Document, Entry, Unset, Place, Ask

LEMMA BlankType == Blank \in Document
  BY DEF Blank, Unset, Document, Entry

LEMMA LandType ==
    ASSUME TypeOK, NEW e \in Edits, Land(e)
    PROVE  /\ document' \in Document /\ intended' \in Document
           /\ landed' \subseteq Edits /\ stale' \subseteq Edits
           /\ eroded' \subseteq Integrations
  BY EditedType DEF TypeOK, Land

LEMMA TypeInit == Init => TypeOK
  BY BlankType DEF Init, TypeOK

LEMMA TypeStep == TypeOK /\ [Next]_vars => TypeOK'
  <1> SUFFICES ASSUME TypeOK, [Next]_vars PROVE TypeOK'
    OBVIOUS
  <1>1. CASE UNCHANGED vars
    BY <1>1 DEF vars, TypeOK
  <1>2. ASSUME NEW e \in Edits, Step(e) PROVE TypeOK'
    <2>1. CASE RefuseTenantless(e) \/ Show(e) \/ Reject(e) \/ Die(e)
      BY <2>1 DEF TypeOK, RefuseTenantless, Show, Reject, Die, Goto,
                  historyVars, Answered
    <2>2. CASE RefuseNotAdmin(e) \/ AuditUpdate(e)
      BY <2>2 DEF TypeOK, RefuseNotAdmin, AuditUpdate, Goto, Record, Answered,
                  Place, Ask
    <2>3. CASE ReadDocument(e) \/ ReadNothing(e)
      <3>1. /\ Edited(document, e) \in Document
            /\ Edited(Blank, e) \in Document
        BY EditedType, BlankType DEF TypeOK
      <3> QED
        BY <2>3, <3>1 DEF TypeOK, ReadDocument, ReadNothing, Goto, historyVars,
                          Running
    <2>4. CASE WriteDocument(e) \/ WriteUnanswered(e)
      <3>1. Land(e)
        BY <2>4 DEF WriteDocument, WriteUnanswered
      <3> QED
        BY <2>4, <3>1, LandType DEF TypeOK, WriteDocument, WriteUnanswered, Goto,
                                    Running
    <2> QED
      BY <1>2, <2>1, <2>2, <2>3, <2>4 DEF Step
  <1> QED
    BY <1>1, <1>2 DEF Next

\* Every value the model gives its variables is of the type TypeOK says.
THEOREM SettingsTypeCorrect == Spec => []TypeOK
  BY TypeInit, TypeStep, PTL DEF Spec

-----------------------------------------------------------------------------
\* The edits that hold the current document with their change made in it.
HeldIsCurrent ==
    \A e \in Edits \ (stale \cup blind) :
        pc[e] = "holding" => held[e] = Edited(document, e)

\* What an edit says of its entry does not depend on what it has read.
HeldSaysIt ==
    \A e \in Edits :
        pc[e] = "holding" /\ Replaces(e) =>
            held[e][Place(e)] = Edited(Blank, e)[Place(e)]

Inv == TypeOK /\ HeldIsCurrent /\ HeldSaysIt /\ EditsAddUp

LEMMA InvInit == Init => Inv
  BY TypeInit DEF Init, Inv, HeldIsCurrent, HeldSaysIt, EditsAddUp

\* What an edit makes of one entry depends on that entry only.
LEMMA EditedEntry ==
    ASSUME TypeOK, NEW a \in Document, NEW b \in Document, NEW e \in Edits,
           NEW i \in Integrations
    PROVE  /\ i # Place(e) => Edited(a, e)[i] = a[i]
           /\ a[i] = b[i] => Edited(a, e)[i] = Edited(b, e)[i]
           /\ i = Place(e) /\ Replaces(e) => Edited(a, e)[i] = Edited(b, e)[i]
  BY DEF TypeOK, Edited, Document, Entry, Unset, Place, Ask, Replaces

\* A write of a document that is current, or that replaces its entry whole,
\* leaves document and intended in step wherever eroded does not say otherwise.
LEMMA LandAddsUp ==
    ASSUME Inv, NEW e \in Edits, pc[e] = "holding", Land(e)
    PROVE  \A i \in Integrations \ eroded' : document'[i] = intended'[i]
  <1> SUFFICES ASSUME NEW i \in Integrations, i \notin eroded'
               PROVE  held[e][i] = Edited(intended, e)[i]
    BY DEF Land
  <1>1. TypeOK /\ document \in Document /\ intended \in Document
    BY DEF Inv, TypeOK
  <1>2. ASSUME e \notin stale \cup blind
        PROVE  held[e][i] = Edited(intended, e)[i]
    <2>1. held[e] = Edited(document, e)
      BY <1>2 DEF Inv, HeldIsCurrent
    <2>2. CASE i = Place(e) /\ Replaces(e)
      BY <2>1, <2>2, <1>1, EditedEntry
    <2>3. CASE ~ (i = Place(e) /\ Replaces(e))
      <3>1. i \notin eroded
        BY <2>3 DEF Land
      <3>2. document[i] = intended[i]
        BY <3>1 DEF Inv, EditsAddUp
      <3> QED
        BY <2>1, <3>2, <1>1, EditedEntry
    <2> QED
      BY <2>2, <2>3
  <1>3. ASSUME e \in stale \cup blind
        PROVE  held[e][i] = Edited(intended, e)[i]
    <2>1. i = Place(e) /\ Replaces(e)
      BY <1>3 DEF Land
    <2>2. held[e][i] = Edited(Blank, e)[i]
      BY <2>1 DEF Inv, HeldSaysIt
    <2> QED
      BY <2>1, <2>2, <1>1, BlankType, EditedEntry
  <1> QED
    BY <1>2, <1>3

\* Steps that write nothing keep document, intended and the staleness of edits.
LEMMA QuietStep ==
    ASSUME Inv, NEW e \in Edits,
           RefuseTenantless(e) \/ RefuseNotAdmin(e) \/ Show(e) \/ Reject(e)
             \/ AuditUpdate(e) \/ Die(e)
    PROVE  HeldIsCurrent' /\ HeldSaysIt' /\ EditsAddUp'
  <1>1. UNCHANGED <<document, ask, held, landed, intended, blind, stale, eroded>>
    BY DEF RefuseTenantless, RefuseNotAdmin, Show, Reject, AuditUpdate, Die,
           historyVars
  <1>2. \A f \in Edits : pc'[f] = "holding" => pc[f] = "holding"
    BY DEF Inv, TypeOK, RefuseTenantless, RefuseNotAdmin, Show, Reject,
           AuditUpdate, Die, Goto
  <1> QED
    BY <1>1, <1>2 DEF Inv, HeldIsCurrent, HeldSaysIt, EditsAddUp, Edited, Place,
                      Replaces

LEMMA ReadStep ==
    ASSUME Inv, NEW e \in Edits, ReadDocument(e) \/ ReadNothing(e)
    PROVE  HeldIsCurrent' /\ HeldSaysIt' /\ EditsAddUp'
  <1>1. UNCHANGED <<document, ask, intended, stale, eroded>>
    BY DEF ReadDocument, ReadNothing, historyVars
  <1>2. PICK doc \in Document :
           /\ held' = [held EXCEPT ![e] = Edited(doc, e)]
           /\ e \notin blind' => doc = document
    BY BlankType DEF Inv, TypeOK, ReadDocument, ReadNothing, historyVars
  <1>3. /\ pc' = [pc EXCEPT ![e] = "holding"]
        /\ blind \subseteq blind'
    BY DEF ReadDocument, ReadNothing, Goto, historyVars
  <1>4. Replaces(e) => Edited(doc, e)[Place(e)] = Edited(Blank, e)[Place(e)]
    <2>1. Place(e) \in Integrations
      BY DEF Inv, TypeOK, Place, Ask
    <2> QED
      BY <2>1, BlankType, EditedEntry DEF Inv
  <1>5. HeldIsCurrent'
    BY <1>1, <1>2, <1>3 DEF Inv, TypeOK, HeldIsCurrent, Edited, Place
  <1>6. HeldSaysIt'
    BY <1>1, <1>2, <1>3, <1>4 DEF Inv, TypeOK, HeldSaysIt, Edited, Place, Replaces, Blank
  <1> QED
    BY <1>1, <1>5, <1>6 DEF Inv, EditsAddUp

LEMMA WriteStep ==
    ASSUME Inv, NEW e \in Edits, WriteDocument(e) \/ WriteUnanswered(e)
    PROVE  HeldIsCurrent' /\ HeldSaysIt' /\ EditsAddUp'
  <1>1. /\ pc[e] = "holding" /\ Land(e)
        /\ UNCHANGED <<ask, held, blind>>
        /\ \A f \in Edits : pc'[f] = "holding" => pc[f] = "holding"
    BY DEF Inv, TypeOK, WriteDocument, WriteUnanswered, Goto
  <1>2. EditsAddUp'
    BY <1>1, LandAddsUp DEF EditsAddUp
  <1>3. HeldSaysIt'
    BY <1>1 DEF Inv, HeldSaysIt, Edited, Place, Replaces, Blank
  <1>4. ASSUME NEW f \in Edits, f \notin stale' \cup blind', pc'[f] = "holding"
        PROVE  held'[f] = Edited(document', f)
    <2>1. f = e /\ f \notin stale \cup blind
      BY <1>1, <1>4 DEF Land
    <2>2. held[e] = Edited(document, e) /\ document' = held[e]
      BY <1>1, <2>1 DEF Inv, HeldIsCurrent, Land
    <2> QED
      BY <1>1, <2>1, <2>2, EditedTwice DEF Inv, TypeOK
  <1>5. HeldIsCurrent'
    BY <1>1, <1>4 DEF HeldIsCurrent, Edited, Place
  <1> QED
    BY <1>2, <1>3, <1>5

LEMMA InvStep == Inv /\ [Next]_vars => Inv'
  <1> SUFFICES ASSUME Inv, [Next]_vars PROVE Inv'
    OBVIOUS
  <1>1. TypeOK'
    BY TypeStep DEF Inv
  <1>2. CASE UNCHANGED vars
    BY <1>1, <1>2 DEF vars, Inv, HeldIsCurrent, HeldSaysIt, EditsAddUp, Edited,
                      Place, Replaces, Blank
  <1>3. CASE Next
    <2> PICK e \in Edits : Step(e)
      BY <1>3 DEF Next
    <2> QED
      BY <1>1, QuietStep, ReadStep, WriteStep DEF Step, Inv
  <1> QED
    BY <1>2, <1>3

\* Whatever edits overlap, fail or are repeated: an entry not written by an
\* edit that could not know it is what the edits of it make.
THEOREM SettingsAddUp == Spec => []EditsAddUp
  BY InvInit, InvStep, PTL DEF Spec, Inv

\* A write neither overtaken nor blind touches its own entry only, and keeps a
\* key it was not given.
THEOREM SettingsTouchOnlyTheirEntry == Spec => EditTouchesItsEntryOnly
  <1>1. ASSUME Inv, NEW e \in Edits \ (stale \cup blind), Landing(e)
        PROVE  /\ \A i \in Integrations \ {Place(e)} : document'[i] = document[i]
               /\ KeepsKey(e)
    <2>1. document' = Edited(document, e) /\ TypeOK
      BY <1>1 DEF Inv, HeldIsCurrent, Landing, Land
    <2>2. \A i \in Integrations \ {Place(e)} : document'[i] = document[i]
      BY <2>1 DEF TypeOK, Edited, Document
    <2>3. KeepsKey(e)
      BY <2>1 DEF TypeOK, KeepsKey, Replaces, Edited, Document, Entry, Place, Ask
    <2> QED
      BY <2>2, <2>3
  <1>2. Inv => [\A e \in Edits \ (stale \cup blind) : Landing(e) =>
                  /\ \A i \in Integrations \ {Place(e)} : document'[i] = document[i]
                  /\ KeepsKey(e)]_vars
    BY <1>1
  <1> QED
    BY <1>2, InvInit, InvStep, PTL DEF Spec, EditTouchesItsEntryOnly

-----------------------------------------------------------------------------
\* Who has landed and who has not: an answer that refuses comes before any
\* write, an audited one after it.
LandedWhen ==
    \A e \in Edits :
       /\ pc[e] \in {"received", "forbidden", "rejected"} => e \notin landed
       /\ pc[e] = "written" => e \in landed

AuditInv == TypeOK /\ LandedWhen /\ ChangeIsAudited

LEMMA AuditInit == Init => AuditInv
  BY TypeInit DEF Init, AuditInv, LandedWhen, ChangeIsAudited

LEMMA AuditStep == AuditInv /\ [Next]_vars => AuditInv'
  <1> SUFFICES ASSUME AuditInv, [Next]_vars PROVE LandedWhen' /\ ChangeIsAudited'
    BY TypeStep DEF AuditInv
  <1> USE DEF AuditInv, LandedWhen, ChangeIsAudited, Place
  <1>1. CASE UNCHANGED vars
    BY <1>1 DEF vars
  <1>2. ASSUME NEW e \in Edits, Step(e) PROVE LandedWhen' /\ ChangeIsAudited'
    <2>1. CASE RefuseTenantless(e) \/ Show(e) \/ Reject(e) \/ Die(e)
      BY <2>1 DEF TypeOK, RefuseTenantless, Show, Reject, Die, Goto,
                  historyVars, Running
    <2>2. CASE RefuseNotAdmin(e)
      BY <2>2, RefusalIsNoIntegration DEF TypeOK, RefuseNotAdmin, Goto, Record
    <2>3. CASE ReadDocument(e) \/ ReadNothing(e)
      BY <2>3 DEF TypeOK, ReadDocument, ReadNothing, Goto, historyVars
    <2>4. CASE WriteDocument(e) \/ WriteUnanswered(e)
      BY <2>4 DEF TypeOK, WriteDocument, WriteUnanswered, Land, Goto
    <2>5. CASE AuditUpdate(e)
      BY <2>5 DEF TypeOK, AuditUpdate, Record, Goto, Ask
    <2> QED
      BY <1>2, <2>1, <2>2, <2>3, <2>4, <2>5 DEF Step
  <1> QED
    BY <1>1, <1>2 DEF Next

\* No change of where credentials go is answered 200 without an audit entry,
\* and no entry is for a change that was not made.
THEOREM SettingsAudited == Spec => []ChangeIsAudited
  BY AuditInit, AuditStep, PTL DEF Spec, AuditInv

=============================================================================
