----------------------------- MODULE AuditTrail -----------------------------
(***************************************************************************)
(* The audit trail of one tenant: record_audit (common/audit.py) hands an  *)
(* entry to an asynchronous invocation, fn-audit-write                     *)
(* (handlers/audit_write.py) puts it, Lambda repeats what failed and dead- *)
(* letters what goes on failing -- and while rows arrive, the read API     *)
(* pages through them (query_diagnostics._list_audit, _paginated).         *)
(*                                                                         *)
(* A row's sort key, audit#{second}#{uuid}, is a number: second * PerSecond*)
(* and a random rest.  Rows outlive a query (they expire after six months).*)
(***************************************************************************)
EXTENDS Integers, FiniteSets

CONSTANTS
    Entries,      \* the calls of record_audit
    Wanted,       \* those the query's filter lets through
    MaxTime,      \* bound: the clock, in seconds
    PerSecond,    \* bound: keys of one second
    MaxAttempts,  \* deliveries of an entry: an invocation and its retries
    Limit,        \* the rows the query is asked for
    PageSize,     \* rows DynamoDB examines per request at most
    MAX_PAGES     \* requests per query

ASSUME WantedAreEntries == Wanted \subseteq Entries
ASSUME CountsArePositive ==
    {PerSecond, MaxAttempts, Limit, PageSize, MAX_PAGES} \subseteq Nat \ {0}
ASSUME MaxTimeIsNat == MaxTime \in Nat

VARIABLES
    now,       \* the clock
    entry,     \* where each entry is
    attempts,  \* how often it was delivered
    rows,      \* sort keys in the table
    holds,     \* the entry each of them holds
    settled,   \* rows that every read sees; reads are eventually consistent
    query,     \* where the query is
    cursor,    \* ExclusiveStartKey: rows below it are to be read
    pages,     \* requests made
    items,     \* rows collected
    due        \* history: rows of Wanted settled when the query began

tableVars == <<entry, attempts, rows, holds, settled>>
readVars == <<query, cursor, pages, items, due>>
vars == <<now, entry, attempts, rows, holds, settled, query, cursor, pages,
          items, due>>

Keys == 0..((MaxTime + 1) * PerSecond - 1)
Top == (MaxTime + 1) * PerSecond

\* "logged": it could not be enqueued and the log line is what remains of it;
\* "raised": it could not be enqueued and the caller has the exception instead.
Places == {"new", "queued", "written", "logged", "raised", "dlq"}

TypeOK ==
    /\ now \in 0..MaxTime
    /\ entry \in [Entries -> Places]
    /\ attempts \in [Entries -> 0..MaxAttempts]
    /\ rows \subseteq Keys
    /\ holds \in [Keys -> Entries]
    /\ settled \subseteq rows
    /\ query \in {"none", "reading", "done"}
    /\ cursor \in 0..Top
    /\ pages \in 0..MAX_PAGES
    /\ items \subseteq Keys
    /\ due \subseteq Keys

Init ==
    /\ now = 0
    /\ entry = [e \in Entries |-> "new"]
    /\ attempts = [e \in Entries |-> 0]
    /\ rows = {}
    /\ \E e \in Entries : holds = [k \in Keys |-> e]
    /\ settled = {}
    /\ query = "none"
    /\ cursor = Top
    /\ pages = 0
    /\ items = {}
    /\ due = {}

Tick ==
    /\ now < MaxTime
    /\ now' = now + 1
    /\ UNCHANGED <<tableVars, readVars>>

-----------------------------------------------------------------------------
(* The write side.                                                         *)

\* record_audit: the invocation is enqueued; or Lambda refuses it, a ClientError,
\* and the entry is logged whole; or Lambda cannot be reached, which is not a
\* ClientError and raised with nothing logged.  An invocation that was enqueued
\* unheard is "queued", whatever record_audit then does.
RecordAudit(e) ==
    /\ entry[e] = "new"
    /\ \E to \in {"queued", "logged", "raised"} : entry' = [entry EXCEPT ![e] = to]
    /\ UNCHANGED <<now, attempts, rows, holds, settled, readVars>>

\* A delivery of e.
Attempt(e) ==
    /\ entry[e] = "queued"
    /\ attempts' = [attempts EXCEPT ![e] = @ + 1]

\* put_item under a key of this second that is not taken: the uuid is new on
\* every attempt.
Put(e) ==
    \E k \in now * PerSecond .. (now + 1) * PerSecond - 1 :
       /\ k \notin rows
       /\ rows' = rows \cup {k}
       /\ holds' = [holds EXCEPT ![k] = e]

AuditWrite(e) ==
    /\ Attempt(e)
    /\ Put(e)
    /\ entry' = [entry EXCEPT ![e] = "written"]
    /\ UNCHANGED <<now, settled, readVars>>

\* What Lambda makes of an invocation that raised.
Again(e) ==
    entry' = [entry EXCEPT ![e] =
                 IF attempts[e] + 1 = MaxAttempts THEN "dlq" ELSE "queued"]

\* The row landed and the entry comes again: the answer was lost and the SDK's
\* repetition failed its condition and raised, or the invocation died, or Lambda
\* delivers twice, or the SDK enqueued twice because it did not hear of the first.
AuditWriteUnanswered(e) ==
    /\ Attempt(e)
    /\ Put(e)
    /\ Again(e)
    /\ UNCHANGED <<now, settled, readVars>>

\* Mutant of AuditWriteFails: the error is logged and not raised again.
AuditWriteSwallows(e) ==
    /\ Attempt(e)
    /\ entry' = [entry EXCEPT ![e] = "written"]
    /\ UNCHANGED <<now, rows, holds, settled, readVars>>

\* The session or the put failed; the error is raised.
AuditWriteFails(e) ==
    /\ Attempt(e)
    /\ Again(e)
    /\ UNCHANGED <<now, rows, holds, settled, readVars>>

\* A row reaches every replica.
Settle(k) ==
    /\ k \in rows \ settled
    /\ settled' = settled \cup {k}
    /\ UNCHANGED <<now, entry, attempts, rows, holds, readVars>>

-----------------------------------------------------------------------------
(* The read side: _list_audit, newest first.                               *)

Matching(S) == {k \in S : holds[k] \in Wanted}

BeginQuery ==
    /\ query = "none"
    /\ query' = "reading"
    /\ due' = Matching(settled)
    /\ UNCHANGED <<now, tableVars, cursor, pages, items>>

\* What one request may examine of the rows still to come: the newest of
\* them, PageSize or fewer (a page ends at 1 MB), and something if there is.
Pages(left) ==
    {page \in SUBSET left :
        /\ Cardinality(page) <= PageSize
        /\ page = {} => left = {}
        /\ \A j \in left \ page, k \in page : j < k}

\* Mutant of Collect: a page the filter has made short is taken for the last.
StopOnShortPage(page, more) ==
    /\ items' = items \cup Matching(page)
    /\ query' = IF Cardinality(Matching(page)) < PageSize \/ Cardinality(items') >= Limit
                   \/ pages' = MAX_PAGES THEN "done" ELSE "reading"

\* The rows that match are kept; enough of them, no more to come or MAX_PAGES
\* requests end the query.
Collect(page, more) ==
    /\ items' = items \cup Matching(page)
    /\ query' = IF ~ more \/ Cardinality(items') >= Limit \/ pages' = MAX_PAGES
                THEN "done" ELSE "reading"

\* One request of _paginated.  A read sees the settled rows and any others.
\* LastEvaluatedKey is there when rows are left or the page is full.
ReadPage ==
    /\ query = "reading"
    /\ \E fresh \in SUBSET (rows \ settled) :
         LET left == {k \in settled \cup fresh : k < cursor}
         IN  \E page \in Pages(left) :
               LET more == page # left \/ Cardinality(page) = PageSize
               IN  /\ pages' = pages + 1
                   /\ Collect(page, more)
                   /\ IF more
                        THEN \E k \in page : /\ \A j \in page : k <= j
                                             /\ cursor' = k
                        ELSE cursor' = cursor
    /\ UNCHANGED <<now, tableVars, due>>

\* items[:limit] of a list that is newest first.
Newer(k) == {j \in items : j > k}
Listed == {k \in items : Cardinality(Newer(k)) < Limit}

Next ==
    \/ Tick
    \/ \E e \in Entries :
          \/ RecordAudit(e) \/ AuditWrite(e)
          \/ AuditWriteUnanswered(e) \/ AuditWriteFails(e)
    \/ \E k \in Keys : Settle(k)
    \/ BeginQuery \/ ReadPage

Spec == Init /\ [][Next]_vars

-----------------------------------------------------------------------------
\* What record_audit returns from does not vanish: it is in the table, in the
\* log, in the dead-letter queue or has a delivery left.  An entry that is
\* nowhere is one whose caller got the exception; and no row is of an entry that
\* was never enqueued (audit_write.py:58-60, audit.py:3-8, :37-40).
RecordedIsKept ==
    \A e \in Entries :
       /\ entry[e] = "written" => \E k \in rows : holds[k] = e
       /\ entry[e] = "queued" => attempts[e] < MaxAttempts
       /\ entry[e] \in {"new", "logged", "raised"} => \A k \in rows : holds[k] # e

\* A query's answer holds every matching row that was there for all to read
\* when it began, unless Limit newer ones crowd it out or MAX_PAGES requests
\* were not enough, in which case everything down to the cursor is in it; and
\* it holds matching rows only (query_diagnostics.py:247-252).
AnswerIsComplete ==
    query = "done" =>
       /\ Listed \subseteq Matching(rows)
       /\ \A k \in due \ Listed :
             \/ Cardinality(Newer(k)) >= Limit
             \/ pages = MAX_PAGES /\ k < cursor

=============================================================================
