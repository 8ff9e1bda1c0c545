-------------------------- MODULE AuditTrailProofs --------------------------
(***************************************************************************)
(* AuditTrail, proved for any number of entries, keys per second, retries, *)
(* and any sizes of pages and answers.                                     *)
(***************************************************************************)
EXTENDS AuditTrail, FiniteSetTheorems, TLAPS

LEMMA CountTypes ==
    /\ MaxTime \in Nat /\ PerSecond \in Nat \ {0} /\ MaxAttempts \in Nat \ {0}
    /\ Limit \in Nat \ {0} /\ PageSize \in Nat \ {0} /\ MAX_PAGES \in Nat \ {0}
  BY CountsArePositive, MaxTimeIsNat

LEMMA SecondsFit ==
    ASSUME NEW s \in 0..MaxTime
    PROVE  s * PerSecond .. (s + 1) * PerSecond - 1 \subseteq Keys
  <1>1. /\ s * PerSecond \in Nat /\ (s + 1) * PerSecond \in Nat
        /\ (s + 1) * PerSecond <= (MaxTime + 1) * PerSecond
        /\ (MaxTime + 1) * PerSecond \in Nat
    BY CountTypes, SMTT(30)
  <1> QED
    BY <1>1 DEF Keys

LEMMA TopIsNat == Top \in Nat /\ \A k \in Keys : k \in Nat /\ k < Top
  <1>1. (MaxTime + 1) * PerSecond \in Nat
    BY CountTypes
  <1> QED
    BY <1>1 DEF Top, Keys

\* Any set of keys can be counted.
LEMMA KeysAreFinite ==
    ASSUME NEW S \in SUBSET Keys
    PROVE  IsFiniteSet(S) /\ Cardinality(S) \in Nat
  <1>1. (MaxTime + 1) * PerSecond - 1 \in Int
    BY CountTypes
  <1>2. IsFiniteSet(Keys)
    BY <1>1, FS_Interval DEF Keys
  <1> QED
    BY <1>2, FS_Subset, FS_CardinalityType

-----------------------------------------------------------------------------
\* A new entry was never delivered.
NewIsNew == \A e \in Entries : entry[e] = "new" => attempts[e] = 0

\* What the query was to find and what it found are rows that match.
RowsMatch ==
    /\ due \subseteq settled /\ items \subseteq rows
    /\ \A k \in due \cup items : holds[k] \in Wanted

\* Everything due above the cursor is found, and nothing else.
CursorDivides ==
    /\ query = "none" => due = {} /\ items = {} /\ pages = 0 /\ cursor = Top
    /\ query = "reading" =>
          /\ pages < MAX_PAGES
          /\ \A k \in due : k \in items \/ k < cursor
          /\ \A k \in items : cursor <= k

\* What is due and was not found had no room or no request.
MissedForAReason ==
    query = "done" => \A k \in due \ items :
       \/ Cardinality(Newer(k)) >= Limit
       \/ pages = MAX_PAGES /\ k < cursor

Inv ==
    /\ TypeOK
    /\ NewIsNew
    /\ RecordedIsKept
    /\ RowsMatch
    /\ CursorDivides
    /\ MissedForAReason

LEMMA InvInit == Init => Inv
  <1> SUFFICES ASSUME Init PROVE Inv
    OBVIOUS
  <1>1. TypeOK
    BY CountTypes, TopIsNat DEF Init, TypeOK, Places
  <1> QED
    BY <1>1, CountTypes DEF Init, Inv, NewIsNew, RecordedIsKept, RowsMatch, CursorDivides,
                MissedForAReason

\* The steps that leave the query and the rows alone.
LEMMA ReadSideKept ==
    ASSUME Inv, UNCHANGED readVars,
           rows \subseteq rows', settled \subseteq settled',
           \A k \in rows : holds'[k] = holds[k]
    PROVE  RowsMatch' /\ CursorDivides' /\ MissedForAReason'
  <1>1. UNCHANGED <<query, cursor, pages, items, due>>
    BY DEF readVars
  <1>2. due \cup items \subseteq rows
    BY DEF Inv, TypeOK, RowsMatch
  <1>3. RowsMatch'
    BY <1>1, <1>2 DEF Inv, RowsMatch
  <1>4. CursorDivides' /\ MissedForAReason'
    BY <1>1 DEF Inv, CursorDivides, MissedForAReason, Newer
  <1> QED
    BY <1>3, <1>4

LEMMA TickInv == Inv /\ Tick => Inv'
  <1> SUFFICES ASSUME Inv, Tick PROVE Inv'
    OBVIOUS
  <1>1. UNCHANGED <<entry, attempts, rows, holds, settled, readVars>> /\ now < MaxTime
        /\ now' = now + 1
    BY DEF Tick, tableVars
  <1>2. UNCHANGED <<query, cursor, pages, items, due>>
    BY <1>1 DEF readVars
  <1>3. TypeOK'
    BY <1>1, <1>2, CountTypes DEF Inv, TypeOK
  <1>4. NewIsNew' /\ RecordedIsKept'
    BY <1>1 DEF Inv, NewIsNew, RecordedIsKept
  <1> QED
    BY <1>1, <1>3, <1>4, ReadSideKept DEF Inv

LEMMA RecordInv == ASSUME NEW e \in Entries PROVE Inv /\ RecordAudit(e) => Inv'
  <1> SUFFICES ASSUME Inv, RecordAudit(e) PROVE Inv'
    OBVIOUS
  <1>1. PICK to \in {"queued", "logged", "raised"} : entry' = [entry EXCEPT ![e] = to]
    BY DEF RecordAudit
  <1>2. /\ entry[e] = "new" /\ attempts[e] = 0
        /\ UNCHANGED <<now, attempts, rows, holds, settled, readVars>>
    BY DEF RecordAudit, Inv, NewIsNew
  <1>3. UNCHANGED <<query, cursor, pages, items, due>>
    BY <1>2 DEF readVars
  <1>4. TypeOK'
    BY <1>1, <1>2, <1>3 DEF Inv, TypeOK, Places
  <1>5. NewIsNew' /\ RecordedIsKept'
    BY <1>1, <1>2, CountTypes DEF Inv, TypeOK, NewIsNew, RecordedIsKept
  <1> QED
    BY <1>2, <1>4, <1>5, ReadSideKept DEF Inv

\* A delivery of e that puts a row, or none, and goes on as `to`.
LEMMA DeliveryInv ==
    ASSUME Inv, NEW e \in Entries, Attempt(e),
           NEW to \in {"written", "queued", "dlq"},
           entry' = [entry EXCEPT ![e] = to],
           to = "queued" => attempts[e] + 1 # MaxAttempts,
           Put(e) \/ (to # "written" /\ UNCHANGED <<rows, holds>>),
           UNCHANGED <<now, settled, readVars>>
    PROVE  Inv'
  <1>1. /\ entry[e] = "queued" /\ attempts[e] < MaxAttempts
        /\ attempts' = [attempts EXCEPT ![e] = @ + 1]
    BY DEF Attempt, Inv, RecordedIsKept
  <1>2. UNCHANGED <<query, cursor, pages, items, due>>
    BY DEF readVars
  <1>3. CASE Put(e)
    <2>1. PICK k \in now * PerSecond .. (now + 1) * PerSecond - 1 :
             /\ k \notin rows /\ rows' = rows \cup {k}
             /\ holds' = [holds EXCEPT ![k] = e]
      BY <1>3 DEF Put
    <2>2. k \in Keys
      BY <2>1, SecondsFit DEF Inv, TypeOK
    <2>3. TypeOK'
      BY <1>1, <1>2, <2>1, <2>2, CountTypes DEF Inv, TypeOK, Places
    <2>4. holds'[k] = e /\ \A j \in rows : holds'[j] = holds[j]
      BY <2>1, <2>2 DEF Inv, TypeOK
    <2>5. NewIsNew'
      BY <1>1 DEF Inv, TypeOK, NewIsNew
    <2>6. RecordedIsKept'
      BY <1>1, <2>1, <2>4, CountTypes DEF Inv, TypeOK, RecordedIsKept
    <2> QED
      BY <2>1, <2>3, <2>4, <2>5, <2>6, ReadSideKept DEF Inv
  <1>4. CASE to # "written" /\ UNCHANGED <<rows, holds>>
    <2>1. TypeOK'
      BY <1>1, <1>2, <1>4, CountTypes DEF Inv, TypeOK, Places
    <2>2. NewIsNew' /\ RecordedIsKept'
      BY <1>1, <1>4, CountTypes DEF Inv, TypeOK, NewIsNew, RecordedIsKept
    <2> QED
      BY <1>4, <2>1, <2>2, ReadSideKept DEF Inv
  <1> QED
    BY <1>3, <1>4

LEMMA WriteSideInv ==
    ASSUME NEW e \in Entries
    PROVE  Inv /\ (AuditWrite(e) \/ AuditWriteUnanswered(e) \/ AuditWriteFails(e)) => Inv'
  <1>1. ASSUME Inv, AuditWrite(e) PROVE Inv'
    BY <1>1, DeliveryInv DEF AuditWrite
  <1>2. ASSUME Inv, Again(e), Attempt(e), Put(e) \/ UNCHANGED <<rows, holds>>,
               UNCHANGED <<now, settled, readVars>>
        PROVE  Inv'
    <2> DEFINE to == IF attempts[e] + 1 = MaxAttempts THEN "dlq" ELSE "queued"
    <2>1. /\ to \in {"written", "queued", "dlq"} /\ to # "written"
          /\ to = "queued" => attempts[e] + 1 # MaxAttempts
          /\ entry' = [entry EXCEPT ![e] = to]
      BY <1>2 DEF Again
    <2> HIDE DEF to
    <2> QED
      BY <1>2, <2>1, DeliveryInv
  <1> QED
    BY <1>1, <1>2 DEF AuditWriteUnanswered, AuditWriteFails

LEMMA SettleInv == ASSUME NEW k \in Keys PROVE Inv /\ Settle(k) => Inv'
  <1> SUFFICES ASSUME Inv, Settle(k) PROVE Inv'
    OBVIOUS
  <1>1. /\ k \in rows /\ settled' = settled \cup {k}
        /\ UNCHANGED <<now, entry, attempts, rows, holds, readVars>>
    BY DEF Settle
  <1>2. TypeOK'
    BY <1>1 DEF Inv, TypeOK, readVars
  <1>3. NewIsNew' /\ RecordedIsKept'
    BY <1>1 DEF Inv, NewIsNew, RecordedIsKept
  <1> QED
    BY <1>1, <1>2, <1>3, ReadSideKept DEF Inv

LEMMA BeginInv == Inv /\ BeginQuery => Inv'
  <1> SUFFICES ASSUME Inv, BeginQuery PROVE Inv'
    OBVIOUS
  <1>1. /\ query = "none" /\ query' = "reading" /\ due' = Matching(settled)
        /\ UNCHANGED <<now, entry, attempts, rows, holds, settled, cursor, pages, items>>
    BY DEF BeginQuery, tableVars
  <1>2. TypeOK'
    BY <1>1 DEF Inv, TypeOK, Matching
  <1>3. NewIsNew' /\ RecordedIsKept'
    BY <1>1 DEF Inv, NewIsNew, RecordedIsKept
  <1>4. RowsMatch'
    BY <1>1 DEF Inv, RowsMatch, Matching
  <1>5. CursorDivides' /\ MissedForAReason'
    BY <1>1, TopIsNat, CountTypes
       DEF Inv, TypeOK, CursorDivides, MissedForAReason, Matching
  <1> QED
    BY <1>2, <1>3, <1>4, <1>5 DEF Inv

LEMMA ReadPageInv == Inv /\ ReadPage => Inv'
  <1> SUFFICES ASSUME Inv, ReadPage PROVE Inv'
    OBVIOUS
  <1>1. PICK fresh \in SUBSET (rows \ settled) :
           LET left == {k \in settled \cup fresh : k < cursor}
           IN  \E page \in Pages(left) :
                 LET more == page # left \/ Cardinality(page) = PageSize
                 IN  /\ pages' = pages + 1
                     /\ Collect(page, more)
                     /\ IF more
                          THEN \E k \in page : /\ \A j \in page : k <= j
                                               /\ cursor' = k
                          ELSE cursor' = cursor
    BY DEF ReadPage
  <1> DEFINE left == {k \in settled \cup fresh : k < cursor}
  <1>2. PICK page \in Pages(left) :
           LET more == page # left \/ Cardinality(page) = PageSize
           IN  /\ pages' = pages + 1
               /\ Collect(page, more)
               /\ IF more
                    THEN \E k \in page : /\ \A j \in page : k <= j
                                         /\ cursor' = k
                    ELSE cursor' = cursor
    BY <1>1
  <1> DEFINE more == page # left \/ Cardinality(page) = PageSize
  <1>3. /\ query = "reading" /\ pages' = pages + 1
        /\ items' = items \cup Matching(page)
        /\ query' = IF ~ more \/ Cardinality(items') >= Limit \/ pages' = MAX_PAGES
                    THEN "done" ELSE "reading"
        /\ UNCHANGED <<now, entry, attempts, rows, holds, settled, due>>
    BY <1>2 DEF ReadPage, Collect, tableVars
  <1>4. /\ page \subseteq left /\ \A j \in left \ page, k \in page : j < k
        /\ left \subseteq rows /\ rows \subseteq Keys
        /\ \A k \in left : k < cursor
    BY DEF Pages, Inv, TypeOK
  <1>5. /\ more => cursor' \in page /\ \A j \in page : cursor' <= j
        /\ ~ more => cursor' = cursor /\ page = left
    BY <1>2
  <1>6. \A k \in due : k \in items \/ k \in left
    BY <1>3 DEF Inv, RowsMatch, CursorDivides
  <1> HIDE DEF left, more
  <1>7. /\ cursor \in Nat /\ pages \in Nat /\ pages < MAX_PAGES /\ cursor \in 0..Top
        /\ items \subseteq Keys /\ \A k \in items : cursor <= k
        /\ \A k \in Keys : k \in Nat /\ k < Top
    BY <1>3, TopIsNat DEF Inv, TypeOK, CursorDivides
  <1>8. cursor' \in 0..Top /\ cursor' \in Nat
    BY <1>4, <1>5, <1>7, TopIsNat
  <1>9. Matching(page) \subseteq page /\ \A k \in page : holds[k] \in Wanted => k \in Matching(page)
    BY DEF Matching
  <1>10. TypeOK'
    BY <1>3, <1>4, <1>7, <1>8, <1>9, CountTypes DEF Inv, TypeOK
  <1>11. NewIsNew' /\ RecordedIsKept'
    BY <1>3 DEF Inv, NewIsNew, RecordedIsKept
  <1>12. RowsMatch'
    BY <1>3, <1>4 DEF Inv, RowsMatch, Matching
  <1>13. more => \A k \in items' : cursor' <= k
    <2> SUFFICES ASSUME more PROVE \A k \in items' : cursor' <= k
      OBVIOUS
    <2>1. cursor' <= cursor /\ \A k \in page : k \in Nat /\ cursor' <= k
      BY <1>4, <1>5, <1>7, <1>8
    <2>2. \A k \in items : cursor' <= k
      BY <1>7, <1>8, <2>1
    <2> QED
      BY <1>3, <1>9, <2>1, <2>2
  <1>14. \A k \in due \ items' : more /\ k < cursor' /\ k \in Keys
    <2>1. \A k \in due : holds[k] \in Wanted
      BY DEF Inv, RowsMatch
    <2> QED
      BY <1>3, <1>4, <1>5, <1>6, <1>9, <2>1
  <1>15. CursorDivides'
    <2>1. query' = "reading" => pages' # MAX_PAGES /\ more
      BY <1>3
    <2> QED
      BY <1>3, <1>7, <1>13, <1>14, <2>1, CountTypes DEF CursorDivides
  <1>16. MissedForAReason'
    <2> SUFFICES ASSUME query' = "done", NEW k \in due \ items'
                 PROVE  Cardinality(Newer(k)') >= Limit \/ (pages' = MAX_PAGES /\ k < cursor')
      BY <1>3 DEF MissedForAReason
    <2>1. more /\ k < cursor' /\ k \in Nat
      BY <1>7, <1>14
    <2>2. Newer(k)' = items'
      BY <1>7, <1>8, <1>10, <1>13, <2>1 DEF Newer, TypeOK
    <2> QED
      BY <1>3, <2>1, <2>2
  <1> QED
    BY <1>10, <1>11, <1>12, <1>15, <1>16 DEF Inv

LEMMA InvStep == Inv /\ [Next]_vars => Inv'
  <1> SUFFICES ASSUME Inv, [Next]_vars PROVE Inv'
    OBVIOUS
  <1>1. CASE UNCHANGED vars
    BY <1>1 DEF vars, Inv, TypeOK, NewIsNew, RecordedIsKept, RowsMatch, CursorDivides,
                MissedForAReason, Newer
  <1>2. CASE Next
    BY <1>2, TickInv, RecordInv, WriteSideInv, SettleInv, BeginInv, ReadPageInv DEF Next
  <1> QED
    BY <1>1, <1>2

LEMMA InvAlways == Spec => []Inv
  BY InvInit, InvStep, PTL DEF Spec

\* Every value the model gives its variables is of the type TypeOK says.
THEOREM AuditTypeCorrect == Spec => []TypeOK
  BY InvAlways, PTL DEF Inv

\* No audit entry vanishes between a record_audit that returned and the table,
\* and the table holds none that was not handed over.
THEOREM AuditKept == Spec => []RecordedIsKept
  BY InvAlways, PTL DEF Inv

\* However rows arrive while a query pages through them, and however small its
\* pages are, it misses no matching row it should have shown.
THEOREM AuditAnswerComplete == Spec => []AnswerIsComplete
  <1>1. Inv => AnswerIsComplete
    <2> SUFFICES ASSUME Inv, query = "done" PROVE AnswerIsComplete
      BY DEF AnswerIsComplete
    <2>1. Listed \subseteq Matching(rows)
      BY DEF Inv, RowsMatch, Listed, Matching
    <2>2. ASSUME NEW k \in due \ Listed
          PROVE  Cardinality(Newer(k)) >= Limit \/ (pages = MAX_PAGES /\ k < cursor)
      <3>1. CASE k \in items
        <4>1. Cardinality(Newer(k)) \in Nat
          BY KeysAreFinite DEF Inv, TypeOK, Newer
        <4> QED
          BY <2>2, <3>1, <4>1, CountTypes DEF Listed
      <3>2. CASE k \notin items
        BY <2>2, <3>2 DEF Inv, MissedForAReason
      <3> QED
        BY <3>1, <3>2
    <2> QED
      BY <2>1, <2>2 DEF AnswerIsComplete
  <1> QED
    BY <1>1, InvAlways, PTL

=============================================================================
