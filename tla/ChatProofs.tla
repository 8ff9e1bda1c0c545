----------------------------- MODULE ChatProofs -----------------------------
(***************************************************************************)
(* Proofs about Chat, for any role, any blocks the model may produce, any  *)
(* number of questions and any limits.                                     *)
(***************************************************************************)
EXTENDS Chat, FiniteSetTheorems, SequenceTheorems, TLAPS

CallReport == [tool: {b.tool : b \in Block}, refused: BOOLEAN]

Types ==
    /\ turns \in Seq([role: Roles, blank: BOOLEAN])
    /\ group \in Groups
    /\ pc \in {"idle", "received", "calling", "dispatching"} \cup Answered
    /\ conversation \in Seq(Turn)
    /\ iteration \in Nat
    /\ next \in Nat
    /\ results \in Seq(Result)
    /\ calls \in Seq(CallReport)
    /\ blank \in BOOLEAN
    /\ reads \subseteq DOMAIN TOOL_SPECS

\* The console keeps pairs: a question and its answer.
TurnsArePairs ==
    /\ \E n \in Nat : Len(turns) = 2 * n
    /\ \A k \in DOMAIN turns : (\E n \in Nat : k = 2 * n + 1) => turns[k].role = "user"

InLoop == {"calling", "dispatching"}

\* A message starts with nothing said, read or counted.
StartsAfresh ==
    pc \in {"idle", "received"} =>
        /\ conversation = <<>>
        /\ iteration = 0
        /\ results = <<>>
        /\ calls = <<>>
        /\ reads = {}

\* The loop stops counting at the limit, and calls the model below it.
CountsIterations ==
    /\ iteration <= MAX_TOOL_ITERATIONS
    /\ pc = "calling" => iteration < MAX_TOOL_ITERATIONS

Last == conversation[Len(conversation)]

\* Every turn but the last is answered by the next; the last is the user's when
\* it is the model's turn, and the model's when its tools are being run.
TurnsAreAnswered ==
    pc \in InLoop =>
        /\ Len(conversation) > 0
        /\ \A k \in 1..(Len(conversation) - 1) : Answers(conversation[k + 1], conversation[k])
        /\ pc = "calling" => Last.role = "user" /\ Last.blocks = <<>>
        /\ conversation[1].role = "user" \/ \E k \in DOMAIN turns : turns[k].blank

\* The results collected so far answer the blocks that were due, in order.
CollectsResults ==
    pc = "dispatching" =>
        /\ next \in 1..(Len(Due) + 1)
        /\ {results[j].use : j \in DOMAIN results} = {k \in Uses(Last) : k < next}
        /\ \A i, j \in DOMAIN results : i < j => results[i].use < results[j].use

\* A call of tool, refused or not, is among those reported.
Reported(report, tool, refused) ==
    \E i \in DOMAIN report : report[i] = [tool |-> tool, refused |-> refused]

ReadsAreReported ==
    /\ \A tool \in reads : Can(group, TOOL_SPECS[tool]) /\ Reported(calls, tool, FALSE)
    /\ \A i \in DOMAIN calls : calls[i].refused \/ calls[i].tool \in reads

\* What the model was told is reported: turn k's results are about the blocks of
\* the turn before.
ResultsAreReported ==
    /\ \A k \in DOMAIN conversation : \A j \in DOMAIN conversation[k].results :
          /\ k > 1
          /\ Reported(calls, conversation[k - 1].blocks[conversation[k].results[j].use].tool,
                      conversation[k].results[j].refused)
    /\ pc = "dispatching" =>
          \A j \in DOMAIN results : Reported(calls, Due[results[j].use].tool, results[j].refused)

IInv ==
    /\ Types
    /\ TurnsArePairs
    /\ StartsAfresh
    /\ CountsIterations
    /\ TurnsAreAnswered
    /\ CollectsResults
    /\ ReadsAreReported
    /\ ResultsAreReported

-----------------------------------------------------------------------------
(* Sequences, and the replayed history.                                    *)

\* Appending keeps what was there.
LEMMA Appended ==
  ASSUME NEW S, NEW s \in Seq(S), NEW e \in S
  PROVE  /\ Append(s, e) \in Seq(S)
         /\ Len(Append(s, e)) = Len(s) + 1
         /\ Len(s) \in Nat
         /\ DOMAIN s = 1..Len(s)
         /\ DOMAIN Append(s, e) = 1..(Len(s) + 1)
         /\ \A k \in 1..Len(s) : Append(s, e)[k] = s[k]
         /\ Append(s, e)[Len(s) + 1] = e
<1>1. /\ Append(s, e) \in Seq(S)
      /\ Len(Append(s, e)) = Len(s) + 1
      /\ \A k \in 1..Len(s) : Append(s, e)[k] = s[k]
      /\ Append(s, e)[Len(s) + 1] = e
  BY AppendProperties
<1>2. Len(s) \in Nat /\ DOMAIN s = 1..Len(s)
  BY LenProperties
<1>3. DOMAIN Append(s, e) = 1..Len(Append(s, e))
  BY <1>1, LenProperties
<1> QED
  BY <1>1, <1>2, <1>3

\* An increasing enumeration of all of 1..n lists k at k: the first k values do
\* not fit below k, nor the last ones above it.
LEMMA EnumerationIsIdentity ==
  ASSUME NEW n \in Nat, NEW f \in [1..n -> 1..n], InOrder(f), NEW k \in 1..n
  PROVE  f[k] = k
<1>1. \A i, j \in 1..n : f[i] = f[j] => i = j
  BY DEF InOrder
<1>2. \A i, j \in 1..n : i <= j => f[i] <= f[j]
  BY DEF InOrder
<1>3. k <= f[k]
  <2> DEFINE g == [i \in 1..k |-> f[i]]
  <2>1. g \in Injection(1..k, 1..f[k])
    BY <1>1, <1>2 DEF Injection, IsInjective
  <2>2. Cardinality(1..k) <= Cardinality(1..f[k])
    BY <2>1, FS_Injection, FS_Interval
  <2> QED
    BY <2>2, FS_Interval
<1>4. n - k + 1 <= n - f[k] + 1
  <2> DEFINE g == [i \in k..n |-> f[i]]
  <2>1. g \in Injection(k..n, f[k]..n)
    BY <1>1, <1>2 DEF Injection, IsInjective
  <2>2. Cardinality(k..n) <= Cardinality(f[k]..n)
    BY <2>1, FS_Injection, FS_Interval
  <2> QED
    BY <2>2, FS_Interval
<1>5. f[k] \in Nat /\ k \in Nat
  OBVIOUS
<1>6. \A a, b \in Nat : a <= b /\ n - a + 1 <= n - b + 1 => b = a
  OBVIOUS
<1> QED
  BY <1>3, <1>4, <1>5, <1>6, Zenon

\* What _history makes of the replayed turns: turns without results, the first
\* of them a question if no turn was dropped.
LEMMA HistoryOpens ==
  ASSUME Types, TurnsArePairs, NEW f \in [1..Cardinality(Spoken) -> Spoken], InOrder(f)
  PROVE  /\ History(f) \in Seq(Turn)
         /\ \A k \in DOMAIN History(f) :
               History(f)[k].blocks = <<>> /\ History(f)[k].results = <<>>
         /\ \/ History(f) = <<>>
            \/ History(f)[1].role = "user"
            \/ \E k \in DOMAIN turns : turns[k].blank
<1>1. /\ Len(turns) \in Nat
      /\ DOMAIN turns = 1..Len(turns)
      /\ \A k \in DOMAIN turns : turns[k].role \in Roles
  <2>1. turns \in Seq([role: Roles, blank: BOOLEAN])
    BY DEF Types
  <2>2. Len(turns) \in Nat /\ DOMAIN turns = 1..Len(turns)
    BY <2>1, LenProperties
  <2>3. \A k \in 1..Len(turns) : turns[k] \in [role: Roles, blank: BOOLEAN]
    BY <2>1, ElementOfSeq
  <2> QED
    BY <2>2, <2>3
<1>2. IsFiniteSet(Spoken) /\ Cardinality(Spoken) \in Nat
  <2>1. Spoken \subseteq 1..Len(turns)
    BY <1>1 DEF Spoken
  <2>2. IsFiniteSet(1..Len(turns))
    BY <1>1, FS_Interval
  <2>3. IsFiniteSet(Spoken)
    BY <2>1, <2>2, FS_Subset
  <2> QED
    BY <2>3, FS_CardinalityType
<1> DEFINE n == Cardinality(Spoken)
           over == IF n > MAX_HISTORY_TURNS THEN n - MAX_HISTORY_TURNS ELSE 0
<1>3. /\ Len(f) = n
      /\ over \in Nat /\ n - over \in Nat
  BY <1>2, HistoryIsEven
<1>4. History(f) = [k \in 1..(n - over) |-> Said(turns[f[over + k]].role)]
  BY <1>3 DEF History
<1>5. \A k \in 1..(n - over) : f[over + k] \in Spoken /\ Said(turns[f[over + k]].role) \in Turn
  <2> SUFFICES ASSUME NEW k \in 1..(n - over)
               PROVE  f[over + k] \in Spoken /\ Said(turns[f[over + k]].role) \in Turn
    OBVIOUS
  <2>1. over + k \in 1..n
    BY <1>2, <1>3
  <2>2. f[over + k] \in Spoken
    BY <2>1
  <2>3. turns[f[over + k]].role \in Roles
    BY <1>1, <2>2 DEF Spoken
  <2>4. <<>> \in Seq(Block) /\ <<>> \in Seq(Result)
    BY EmptySeq
  <2> QED
    BY <2>2, <2>3, <2>4 DEF Said, Turn
<1>6. History(f) \in Seq(Turn)
  BY <1>3, <1>4, <1>5
<1>7. \A k \in DOMAIN History(f) :
         History(f)[k].blocks = <<>> /\ History(f)[k].results = <<>>
  BY <1>4 DEF Said
<1>8. ASSUME History(f) # <<>>, \A k \in DOMAIN turns : ~ turns[k].blank
      PROVE  History(f)[1].role = "user"
  <2>1. Spoken = 1..Len(turns) /\ n = Len(turns)
    <3>1. Spoken = 1..Len(turns)
      BY <1>1, <1>8 DEF Spoken
    <3>2. Cardinality(1..Len(turns)) = Len(turns)
      BY <1>1, FS_Interval
    <3> QED
      BY <3>1, <3>2
  <2>2. n - over > 0
    BY <1>3, <1>4, <1>8
  <2>3. over + 1 \in 1..n
    BY <1>2, <1>3, <2>2
  <2>4. f[over + 1] = over + 1
    BY <1>1, <2>1, <2>3, EnumerationIsIdentity
  <2>5. \E m \in Nat : over + 1 = 2 * m + 1
    <3>1. PICK m \in Nat : Len(turns) = 2 * m
      BY DEF TurnsArePairs
    <3>2. PICK h \in Nat : MAX_HISTORY_TURNS = 2 * h
      BY HistoryIsEven
    <3>3. CASE n > MAX_HISTORY_TURNS
      <4>1. over + 1 = 2 * (m - h) + 1 /\ m - h \in Nat
        BY <2>1, <3>1, <3>2, <3>3
      <4> QED
        BY <4>1
    <3>4. CASE ~ (n > MAX_HISTORY_TURNS)
      BY <3>4
    <3> QED
      BY <3>3, <3>4
  <2>6. turns[over + 1].role = "user"
    BY <1>1, <2>1, <2>3, <2>5 DEF TurnsArePairs
  <2>7. History(f)[1] = Said(turns[over + 1].role)
    BY <1>3, <1>4, <2>2, <2>4
  <2> QED
    BY <2>6, <2>7 DEF Said
<1> QED
  BY <1>6, <1>7, <1>8

-----------------------------------------------------------------------------
(* The steps.                                                              *)

\* Reporting one more call keeps what was reported.
LEMMA ReportsStay ==
  ASSUME Types, NEW c \in CallReport, calls' = Append(calls, c)
  PROVE  /\ calls' \in Seq(CallReport)
         /\ \A tool, refused : Reported(calls, tool, refused) => Reported(calls', tool, refused)
         /\ Reported(calls', c.tool, c.refused)
         /\ \A i \in DOMAIN calls' :
               calls'[i] = c \/ \E h \in DOMAIN calls : calls'[i] = calls[h]
<1>1. /\ Append(calls, c) \in Seq(CallReport)
      /\ Len(calls) \in Nat
      /\ DOMAIN calls = 1..Len(calls)
      /\ DOMAIN Append(calls, c) = 1..(Len(calls) + 1)
      /\ \A k \in 1..Len(calls) : Append(calls, c)[k] = calls[k]
      /\ Append(calls, c)[Len(calls) + 1] = c
  BY Appended DEF Types
<1>2. c = [tool |-> c.tool, refused |-> c.refused]
  BY DEF CallReport
<1> QED
  BY <1>1, <1>2 DEF Reported

\* Nothing of a message is left when the console has taken its answer.
LEMMA ReceiveStep ==
  ASSUME IInv, Receive
  PROVE  IInv'
<1> DEFINE Kept == [role: Roles, blank: BOOLEAN]
<1>1. /\ pc' = "idle" /\ group' = group /\ next' = 0 /\ iteration' = 0
      /\ conversation' = <<>> /\ results' = <<>> /\ calls' = <<>>
      /\ blank' = FALSE /\ reads' = {}
      /\ turns' = turns \/ turns' = Told(blank)
  BY DEF Receive, Settled
<1>2. turns \in Seq(Kept) /\ Len(turns) \in Nat /\ DOMAIN turns = 1..Len(turns)
  BY LenProperties DEF IInv, Types
<1>3. /\ Told(blank) \in Seq(Kept)
      /\ Len(Told(blank)) = Len(turns) + 2
      /\ DOMAIN Told(blank) = 1..(Len(turns) + 2)
      /\ \A k \in 1..Len(turns) : Told(blank)[k] = turns[k]
      /\ Told(blank)[Len(turns) + 1].role = "user"
  <2> DEFINE two == << [role |-> "user", blank |-> FALSE], [role |-> "assistant", blank |-> blank] >>
  <2>1. two \in Seq(Kept) /\ Len(two) = 2 /\ two[1].role = "user"
    BY DEF IInv, Types, Roles
  <2>2. /\ turns \o two \in Seq(Kept)
        /\ Len(turns \o two) = Len(turns) + Len(two)
        /\ \A i \in 1..(Len(turns) + Len(two)) :
              (turns \o two)[i] = IF i <= Len(turns) THEN turns[i] ELSE two[i - Len(turns)]
    BY <1>2, <2>1, ConcatProperties
  <2>3. DOMAIN (turns \o two) = 1..Len(turns \o two)
    BY <2>2, LenProperties
  <2>4. Told(blank) = turns \o two
    BY DEF Told
  <2> HIDE DEF two
  <2> QED
    BY <1>2, <2>1, <2>2, <2>3, <2>4
<1>4. Types'
  <2>1. <<>> \in Seq(Turn) /\ <<>> \in Seq(Result) /\ <<>> \in Seq(CallReport)
    BY EmptySeq
  <2> QED
    BY <1>1, <1>2, <1>3, <2>1 DEF IInv, Types
<1>5. TurnsArePairs'
  <2>1. CASE turns' = turns
    BY <2>1 DEF IInv, TurnsArePairs
  <2>2. CASE turns' = Told(blank)
    <3>1. PICK m \in Nat : Len(turns) = 2 * m
      BY DEF IInv, TurnsArePairs
    <3>2. Len(turns') = 2 * (m + 1) /\ m + 1 \in Nat
      BY <1>2, <1>3, <2>2, <3>1
    <3>3. ASSUME NEW k \in DOMAIN turns', NEW h \in Nat, k = 2 * h + 1
          PROVE  turns'[k].role = "user"
      <4>1. k \in 1..Len(turns) \/ k = Len(turns) + 1
        BY <1>2, <1>3, <2>2, <3>1, <3>3
      <4>2. CASE k \in 1..Len(turns)
        <5>1. turns[k].role = "user"
          BY <1>2, <3>3, <4>2 DEF IInv, TurnsArePairs
        <5> QED
          BY <1>3, <2>2, <4>2, <5>1
      <4>3. CASE k = Len(turns) + 1
        BY <1>3, <2>2, <4>3
      <4> QED
        BY <4>1, <4>2, <4>3
    <3> QED
      BY <3>2, <3>3 DEF TurnsArePairs
  <2> QED
    BY <1>1, <2>1, <2>2
<1> QED
  BY <1>1, <1>4, <1>5, IterationsArePositive
  DEF IInv, StartsAfresh, CountsIterations, TurnsAreAnswered, CollectsResults,
      ReadsAreReported, ResultsAreReported, InLoop

LEMMA BeginStep ==
  ASSUME IInv, Begin
  PROVE  IInv'
<1>1. /\ pc = "received" /\ pc' = "calling"
      /\ UNCHANGED <<turns, group, iteration, next, results, calls, reads, blank>>
  BY DEF Begin, Goto, loopVars
<1>2. PICK f \in [1..Cardinality(Spoken) -> Spoken] :
         InOrder(f) /\ conversation' = Append(History(f), Said("user"))
  BY DEF Begin
<1>3. /\ History(f) \in Seq(Turn)
      /\ \A k \in DOMAIN History(f) :
            History(f)[k].blocks = <<>> /\ History(f)[k].results = <<>>
      /\ \/ History(f) = <<>>
         \/ History(f)[1].role = "user"
         \/ \E k \in DOMAIN turns : turns[k].blank
  BY <1>2, HistoryOpens DEF IInv
<1>4. Said("user") \in Turn
  BY EmptySeq DEF Said, Turn, Roles
<1> DEFINE n == Len(History(f)) + 1
<1>5. /\ conversation' \in Seq(Turn)
      /\ Len(conversation') = n
      /\ n \in Nat /\ n > 0
      /\ DOMAIN conversation' = 1..n
      /\ \A k \in 1..n : conversation'[k].blocks = <<>> /\ conversation'[k].results = <<>>
      /\ conversation'[n].role = "user"
      /\ n > 1 => conversation'[1] = History(f)[1]
  <2>1. /\ Len(History(f)) \in Nat
        /\ DOMAIN History(f) = 1..Len(History(f))
        /\ conversation' \in Seq(Turn)
        /\ Len(conversation') = n
        /\ DOMAIN conversation' = 1..n
        /\ \A k \in 1..Len(History(f)) : conversation'[k] = History(f)[k]
        /\ conversation'[n] = Said("user")
    BY <1>2, <1>3, <1>4, Appended
  <2> QED
    BY <1>3, <2>1 DEF Said
<1> HIDE DEF n
<1>6. History(f) = <<>> => n = 1
  BY <1>3, EmptySeq DEF n
<1>7. \A k \in 1..(n - 1) : Answers(conversation'[k + 1], conversation'[k])
  BY <1>5 DEF Answers, Uses
<1>8. TurnsAreAnswered'
  BY <1>1, <1>3, <1>5, <1>6, <1>7 DEF TurnsAreAnswered, Last
<1>9. ResultsAreReported'
  BY <1>1, <1>5 DEF ResultsAreReported
<1>10. ReadsAreReported'
  BY <1>1 DEF IInv, ReadsAreReported, Reported
<1>11. CountsIterations'
  BY <1>1, IterationsArePositive DEF IInv, StartsAfresh, CountsIterations
<1> QED
  BY <1>1, <1>5, <1>8, <1>9, <1>10, <1>11
  DEF IInv, Types, TurnsArePairs, StartsAfresh, CollectsResults

\* A step that touches neither the conversation nor the loop, and answers the
\* request or leaves the console waiting for it.
LEMMA QuietStep ==
  ASSUME IInv,
         UNCHANGED <<turns, group, conversation, iteration, next, results, calls, reads, blank>>,
         pc' \in {"idle", "received"} => pc \in {"idle", "received"},
         pc' \in InLoop => pc' = pc,
         pc' \in {"idle", "received", "calling", "dispatching"} \cup Answered
  PROVE  IInv'
<1>1. Types' /\ TurnsArePairs'
  BY DEF IInv, Types, TurnsArePairs
<1>2. StartsAfresh' /\ CountsIterations'
  BY DEF IInv, StartsAfresh, CountsIterations, InLoop
<1>3. TurnsAreAnswered'
  BY DEF IInv, TurnsAreAnswered, Last, InLoop
<1>4. CollectsResults'
  BY DEF IInv, CollectsResults, Due, Last, Uses, InLoop
<1>5. ReadsAreReported'
  BY DEF IInv, ReadsAreReported, Reported
<1>6. ResultsAreReported'
  BY DEF IInv, ResultsAreReported, Reported, Due, InLoop
<1> QED
  BY <1>1, <1>2, <1>3, <1>4, <1>5, <1>6 DEF IInv

\* The model's text is the reply.
LEMMA ModelRepliesStep ==
  ASSUME IInv, ModelReplies
  PROVE  IInv'
<1>1. /\ pc = "calling" /\ pc' = "ok" /\ iteration' = iteration + 1 /\ blank' \in BOOLEAN
      /\ UNCHANGED <<turns, group, conversation, next, results, calls, reads>>
  BY DEF ModelReplies, Goto
<1>2. Types' /\ TurnsArePairs'
  BY <1>1 DEF IInv, Types, TurnsArePairs, Answered
<1>3. StartsAfresh' /\ CountsIterations' /\ TurnsAreAnswered' /\ CollectsResults'
  <2>1. iteration < MAX_TOOL_ITERATIONS /\ iteration \in Nat
    BY <1>1 DEF IInv, Types, CountsIterations
  <2> QED
    BY <1>1, <2>1, IterationsArePositive
    DEF StartsAfresh, CountsIterations, TurnsAreAnswered, CollectsResults, InLoop
<1>4. ReadsAreReported'
  BY <1>1 DEF IInv, ReadsAreReported, Reported
<1>5. ResultsAreReported'
  BY <1>1 DEF IInv, ResultsAreReported, Reported
<1> QED
  BY <1>2, <1>3, <1>4, <1>5 DEF IInv

\* A turn without blocks asks for nothing, and a turn without results answers it.
LEMMA NothingToAnswer ==
  ASSUME NEW t \in Turn, NEW p \in Turn, p.blocks = <<>>, t.results = <<>>
  PROVE  Answers(t, p)
<1>1. Uses(p) = {}
  BY DEF Uses
<1>2. DOMAIN t.results = {}
  OBVIOUS
<1> QED
  BY <1>1, <1>2 DEF Answers

\* What is known of the conversation, for a step that appends a turn to it.
LEMMA TurnAppended ==
  ASSUME Types, NEW t \in Turn, conversation' = Append(conversation, t)
  PROVE  /\ conversation' \in Seq(Turn)
         /\ Len(conversation) \in Nat
         /\ Len(conversation') = Len(conversation) + 1
         /\ DOMAIN conversation = 1..Len(conversation)
         /\ DOMAIN conversation' = 1..(Len(conversation) + 1)
         /\ \A k \in 1..Len(conversation) :
               conversation'[k] = conversation[k] /\ conversation[k] \in Turn
         /\ conversation'[Len(conversation) + 1] = t
<1>1. conversation \in Seq(Turn)
  BY DEF Types
<1>2. \A k \in 1..Len(conversation) : conversation[k] \in Turn
  BY <1>1, ElementOfSeq
<1> QED
  BY <1>1, <1>2, Appended

\* The model's turn: nothing of it has been answered yet.
LEMMA ModelUsesToolsStep ==
  ASSUME IInv, ModelUsesTools
  PROVE  IInv'
<1>1. /\ pc = "calling" /\ pc' = "dispatching" /\ iteration' = iteration + 1
      /\ next' = 1 /\ results' = <<>>
      /\ UNCHANGED <<turns, group, calls, reads, blank>>
  BY DEF ModelUsesTools, Goto
<1>2. PICK n \in 0..MaxBlocks : \E bs \in [1..n -> Blocks] :
         conversation' = Append(conversation,
             [role |-> "assistant", blocks |-> bs, results |-> <<>>])
  BY DEF ModelUsesTools
<1>2a. PICK bs \in [1..n -> Blocks] :
         conversation' = Append(conversation,
             [role |-> "assistant", blocks |-> bs, results |-> <<>>])
  BY <1>2
<1> DEFINE t == [role |-> "assistant", blocks |-> bs, results |-> <<>>]
           c == Len(conversation)
<1>3. bs \in Seq(Block) /\ Len(bs) \in Nat
  <2>1. n \in Nat /\ \A k \in 1..n : bs[k] \in Block
    BY <1>2a, BoundsAreNat, BlocksAreBlocks
  <2> QED
    BY <1>2a, <2>1
<1>4. t \in Turn
  BY <1>3, EmptySeq DEF Turn, Roles
<1>5. /\ conversation' \in Seq(Turn)
      /\ c \in Nat /\ Len(conversation') = c + 1
      /\ DOMAIN conversation = 1..c
      /\ DOMAIN conversation' = 1..(c + 1)
      /\ \A k \in 1..c : conversation'[k] = conversation[k] /\ conversation[k] \in Turn
      /\ conversation'[c + 1] = t
  BY <1>2a, <1>4, TurnAppended DEF IInv
<1>6. /\ c > 0
      /\ \A k \in 1..(c - 1) : Answers(conversation[k + 1], conversation[k])
      /\ conversation[c].blocks = <<>>
      /\ conversation[1].role = "user" \/ \E k \in DOMAIN turns : turns[k].blank
  BY <1>1 DEF IInv, TurnsAreAnswered, InLoop, Last
<1>7. t.results = <<>> /\ t.blocks = bs
  OBVIOUS
<1> HIDE DEF t, c
<1>8. Types'
  BY <1>1, <1>5, EmptySeq DEF IInv, Types
<1>9. TurnsArePairs' /\ StartsAfresh'
  BY <1>1 DEF IInv, TurnsArePairs, StartsAfresh
<1>10. CountsIterations'
  BY <1>1, IterationsArePositive DEF IInv, Types, CountsIterations
<1>11. TurnsAreAnswered'
  <2>1. Answers(t, conversation[c])
    BY <1>4, <1>5, <1>6, <1>7, NothingToAnswer
  <2>2. \A k \in 1..c : Answers(conversation'[k + 1], conversation'[k])
    <3> SUFFICES ASSUME NEW k \in 1..c PROVE Answers(conversation'[k + 1], conversation'[k])
      OBVIOUS
    <3>1. CASE k = c
      BY <1>5, <2>1, <3>1
    <3>2. CASE k # c
      <4>1. k \in 1..(c - 1) /\ k + 1 \in 1..c
        BY <1>5, <3>2
      <4> QED
        BY <1>5, <1>6, <4>1
    <3> QED
      BY <3>1, <3>2
  <2>3. conversation'[1] = conversation[1]
    BY <1>5, <1>6
  <2>4. (c + 1) - 1 = c /\ c + 1 > 0
    BY <1>5
  <2> QED
    BY <1>1, <1>5, <1>6, <2>2, <2>3, <2>4 DEF TurnsAreAnswered
<1>12. CollectsResults'
  <2>1. Last' = t /\ Due' = bs
    BY <1>5, <1>7 DEF Last, Due
  <2>2. Uses(t) \subseteq DOMAIN bs /\ DOMAIN bs = 1..Len(bs)
    BY <1>3, <1>7, LenProperties DEF Uses
  <2>3. {k \in Uses(t) : k < 1} = {}
    BY <1>3, <2>2
  <2>4. 1 \in 1..(Len(bs) + 1)
    BY <1>3
  <2> QED
    BY <1>1, <2>1, <2>3, <2>4 DEF CollectsResults
<1>13. ReadsAreReported'
  BY <1>1 DEF IInv, ReadsAreReported, Reported
<1>14. ResultsAreReported'
  <2>1. \A tool, refused : Reported(calls', tool, refused) <=> Reported(calls, tool, refused)
    BY <1>1 DEF Reported
  <2>2. ASSUME NEW k \in DOMAIN conversation', NEW j \in DOMAIN conversation'[k].results
        PROVE  /\ k > 1
               /\ Reported(calls', conversation'[k - 1].blocks[conversation'[k].results[j].use].tool,
                           conversation'[k].results[j].refused)
    <3>1. k # c + 1
      BY <1>5, <1>7, <2>2
    <3>2. k \in 1..c /\ conversation'[k] = conversation[k]
      BY <1>5, <3>1
    <3>3. /\ k > 1
          /\ Reported(calls, conversation[k - 1].blocks[conversation[k].results[j].use].tool,
                      conversation[k].results[j].refused)
      BY <1>5, <2>2, <3>2 DEF IInv, ResultsAreReported
    <3>4. conversation'[k - 1] = conversation[k - 1]
      BY <1>5, <3>2, <3>3
    <3> QED
      BY <2>1, <3>2, <3>3, <3>4
  <2>3. DOMAIN results' = {}
    BY <1>1
  <2> QED
    BY <2>2, <2>3 DEF ResultsAreReported
<1> QED
  BY <1>8, <1>9, <1>10, <1>11, <1>12, <1>13, <1>14 DEF IInv

\* What is due, and what may be said of it, while tools are being run.
LEMMA DueIsLast ==
  ASSUME IInv, pc = "dispatching"
  PROVE  /\ Len(conversation) \in Nat /\ Len(conversation) > 0
         /\ Due \in Seq(Block) /\ Len(Due) \in Nat /\ DOMAIN Due = 1..Len(Due)
         /\ next \in Nat /\ next > 0 /\ next <= Len(Due) + 1
         /\ Uses(Last) = {k \in 1..Len(Due) : Due[k].tool # Text}
         /\ Last \in Turn /\ Due = Last.blocks
<1>1. conversation \in Seq(Turn) /\ next \in Nat
  BY DEF IInv, Types
<1>2. Len(conversation) \in Nat /\ Len(conversation) > 0
  BY <1>1, LenProperties DEF IInv, TurnsAreAnswered, InLoop
<1>3. Last \in Turn
  BY <1>1, <1>2, ElementOfSeq DEF Last
<1>4. Due = Last.blocks
  BY DEF Due, Last
<1>5. Due \in Seq(Block)
  BY <1>3, <1>4 DEF Turn
<1>6. Len(Due) \in Nat /\ DOMAIN Due = 1..Len(Due)
  BY <1>5, LenProperties
<1>7. next > 0 /\ next <= Len(Due) + 1
  BY <1>1, <1>6 DEF IInv, CollectsResults
<1>8. Uses(Last) = {k \in 1..Len(Due) : Due[k].tool # Text}
  BY <1>4, <1>6 DEF Uses
<1> QED
  BY <1>1, <1>2, <1>3, <1>4, <1>5, <1>6, <1>7, <1>8

\* A text block asks for nothing.
LEMMA SkipTextStep ==
  ASSUME IInv, SkipText
  PROVE  IInv'
<1>1. /\ pc = "dispatching" /\ pc' = pc /\ next <= Len(Due) /\ Due[next].tool = Text
      /\ next' = next + 1
      /\ UNCHANGED <<turns, group, conversation, iteration, results, calls, blank, reads>>
  BY DEF SkipText
<1>2. /\ Len(Due) \in Nat
      /\ next \in Nat /\ next > 0
      /\ Uses(Last) = {k \in 1..Len(Due) : Due[k].tool # Text}
  BY <1>1, DueIsLast
<1>3. Types'
  BY <1>1, <1>2 DEF IInv, Types
<1>3b. TurnsArePairs' /\ StartsAfresh' /\ CountsIterations'
  BY <1>1 DEF IInv, TurnsArePairs, StartsAfresh, CountsIterations
<1>4. TurnsAreAnswered'
  BY <1>1 DEF IInv, TurnsAreAnswered, Last
<1>5. Due' = Due /\ Last' = Last
  BY <1>1 DEF Due, Last
<1>6. CollectsResults'
  <2>1. {k \in Uses(Last) : k < next + 1} = {k \in Uses(Last) : k < next}
    BY <1>1, <1>2
  <2>2. next + 1 \in 1..(Len(Due) + 1)
    BY <1>1, <1>2
  <2>3. /\ {results[j].use : j \in DOMAIN results} = {k \in Uses(Last) : k < next}
        /\ \A i, j \in DOMAIN results : i < j => results[i].use < results[j].use
    BY <1>1 DEF IInv, CollectsResults
  <2> QED
    BY <1>1, <1>5, <2>1, <2>2, <2>3 DEF CollectsResults
<1>7. ReadsAreReported' /\ ResultsAreReported'
  BY <1>1, <1>5 DEF IInv, ReadsAreReported, ResultsAreReported
<1> QED
  BY <1>3, <1>3b, <1>4, <1>6, <1>7 DEF IInv

\* One tool_use: its result and its report go together.
LEMMA DispatchStep ==
  ASSUME IInv, Dispatch
  PROVE  IInv'
<1>1. /\ pc = "dispatching" /\ pc' = pc /\ next <= Len(Due) /\ Due[next].tool # Text
      /\ next' = next + 1
      /\ UNCHANGED <<turns, group, conversation, iteration, blank>>
  BY DEF Dispatch
<1>2. /\ Due \in Seq(Block) /\ Len(Due) \in Nat
      /\ next \in Nat /\ next > 0
      /\ Uses(Last) = {k \in 1..Len(Due) : Due[k].tool # Text}
  BY <1>1, DueIsLast
<1> DEFINE tool == Due[next].tool
<1>3. PICK refused \in BOOLEAN :
         /\ results' = Append(results, [use |-> next, refused |-> refused])
         /\ calls' = Append(calls, [tool |-> tool, refused |-> refused])
         /\ refused => reads' = reads
         /\ ~ refused => /\ reads' = reads \cup {tool}
                         /\ ~ Refused(Due[next])
  <2>1. CASE Refused(Due[next])
    <3>1. Refused(Due[next]) = TRUE
      BY <2>1
    <3>2. /\ results' = Append(results, [use |-> next, refused |-> TRUE])
          /\ calls' = Append(calls, [tool |-> tool, refused |-> TRUE])
          /\ reads' = reads
      BY <3>1 DEF Dispatch, Pair
    <3> QED
      BY <3>2
  <2>2. CASE ~ Refused(Due[next])
    <3>1. Refused(Due[next]) = FALSE
      BY <2>2 DEF Refused
    <3>2. /\ results' = Append(results, [use |-> next, refused |-> FALSE])
          /\ calls' = Append(calls, [tool |-> tool, refused |-> FALSE])
          /\ reads' = reads \cup {tool}
      BY <3>1 DEF Dispatch, Pair
    <3> QED
      BY <2>2, <3>2
  <2> QED
    BY <2>1, <2>2
<1> DEFINE r == [use |-> next, refused |-> refused]
           c == [tool |-> tool, refused |-> refused]
<1>4. Due[next] \in Block
  BY <1>1, <1>2, ElementOfSeq
<1>5. r \in Result /\ r.use = next /\ r.refused = refused
  BY <1>2 DEF Result
<1>6. c \in CallReport /\ c.tool = tool /\ c.refused = refused
  BY <1>4 DEF CallReport
<1>7. /\ results' \in Seq(Result)
      /\ Len(results) \in Nat
      /\ DOMAIN results = 1..Len(results)
      /\ DOMAIN results' = 1..(Len(results) + 1)
      /\ \A k \in 1..Len(results) : results'[k] = results[k]
      /\ results'[Len(results) + 1] = r
  BY <1>3, <1>5, Appended DEF IInv, Types
<1>8. /\ calls' \in Seq(CallReport)
      /\ \A t, f : Reported(calls, t, f) => Reported(calls', t, f)
      /\ Reported(calls', tool, refused)
      /\ \A i \in DOMAIN calls' :
            calls'[i] = c \/ \E h \in DOMAIN calls : calls'[i] = calls[h]
  BY <1>3, <1>6, ReportsStay DEF IInv
<1>9. ~ refused => tool \in DOMAIN TOOL_SPECS /\ Can(group, TOOL_SPECS[tool])
  BY <1>3 DEF Refused
<1> HIDE DEF r, c, tool
<1>10. Types'
  <2>1. reads' \subseteq DOMAIN TOOL_SPECS
    BY <1>3, <1>9 DEF IInv, Types
  <2> QED
    BY <1>1, <1>2, <1>7, <1>8, <2>1 DEF IInv, Types
<1>11. TurnsArePairs' /\ StartsAfresh' /\ CountsIterations' /\ TurnsAreAnswered'
  BY <1>1 DEF IInv, TurnsArePairs, StartsAfresh, CountsIterations, TurnsAreAnswered, Last
<1>12. Due' = Due /\ Last' = Last
  BY <1>1 DEF Due, Last
<1>13. CollectsResults'
  <2>1. /\ {results[j].use : j \in DOMAIN results} = {k \in Uses(Last) : k < next}
        /\ \A i, j \in DOMAIN results : i < j => results[i].use < results[j].use
    BY <1>1 DEF IInv, CollectsResults
  <2>2. \A j \in 1..Len(results) : results[j].use \in Nat /\ results[j].use < next
    <3> SUFFICES ASSUME NEW j \in 1..Len(results)
                 PROVE  results[j].use \in Nat /\ results[j].use < next
      OBVIOUS
    <3>1. results[j].use \in {results[i].use : i \in DOMAIN results}
      BY <1>7
    <3>2. results[j].use \in {k \in Uses(Last) : k < next}
      BY <2>1, <3>1
    <3>3. results[j].use \in 1..Len(Due) /\ results[j].use < next
      BY <1>2, <3>2
    <3> QED
      BY <1>2, <3>3
  <2>3. {k \in Uses(Last) : k < next + 1} = {k \in Uses(Last) : k < next} \cup {next}
    BY <1>1, <1>2
  <2>4. {results'[j].use : j \in DOMAIN results'}
          = {results[j].use : j \in DOMAIN results} \cup {next}
    BY <1>5, <1>7
  <2>5. \A i, j \in DOMAIN results' : i < j => results'[i].use < results'[j].use
    <3> SUFFICES ASSUME NEW i \in DOMAIN results', NEW j \in DOMAIN results', i < j
                 PROVE  results'[i].use < results'[j].use
      OBVIOUS
    <3>1. i \in 1..Len(results) /\ results'[i] = results[i]
      BY <1>7
    <3>2. CASE j \in 1..Len(results)
      BY <1>7, <2>1, <3>1, <3>2
    <3>3. CASE j = Len(results) + 1
      BY <1>5, <1>7, <2>2, <3>1, <3>3
    <3> QED
      BY <1>7, <3>2, <3>3
  <2>6. next + 1 \in 1..(Len(Due) + 1)
    BY <1>1, <1>2
  <2> QED
    BY <1>1, <1>12, <2>1, <2>3, <2>4, <2>5, <2>6 DEF CollectsResults
<1>14. ReadsAreReported'
  <2>1. \A t \in reads : Can(group, TOOL_SPECS[t]) /\ Reported(calls, t, FALSE)
    BY DEF IInv, ReadsAreReported
  <2>2. \A t \in reads' : Can(group, TOOL_SPECS[t]) /\ Reported(calls', t, FALSE)
    <3>1. CASE refused
      BY <1>3, <1>8, <2>1, <3>1
    <3>2. CASE ~ refused
      <4>1. refused = FALSE
        BY <3>2
      <4>2. reads' = reads \cup {tool} /\ Can(group, TOOL_SPECS[tool])
        BY <1>3, <1>9, <3>2
      <4> QED
        BY <1>8, <2>1, <4>1, <4>2
    <3> QED
      BY <3>1, <3>2
  <2>3. \A i \in DOMAIN calls' : calls'[i].refused \/ calls'[i].tool \in reads'
    <3> SUFFICES ASSUME NEW i \in DOMAIN calls'
                 PROVE  calls'[i].refused \/ calls'[i].tool \in reads'
      OBVIOUS
    <3>1. CASE calls'[i] = c
      <4>1. refused \/ tool \in reads'
        BY <1>3
      <4> QED
        BY <1>6, <3>1, <4>1 DEF c
    <3>2. CASE \E h \in DOMAIN calls : calls'[i] = calls[h]
      <4>1. PICK h \in DOMAIN calls : calls'[i] = calls[h]
        BY <3>2
      <4>2. calls[h].refused \/ calls[h].tool \in reads
        BY DEF IInv, ReadsAreReported
      <4>3. reads \subseteq reads'
        BY <1>3
      <4> QED
        BY <4>1, <4>2, <4>3
    <3> QED
      BY <1>8, <3>1, <3>2
  <2> QED
    BY <1>1, <2>2, <2>3 DEF ReadsAreReported
<1>15. ResultsAreReported'
  <2>1. \A j \in DOMAIN results' : Reported(calls', Due[results'[j].use].tool, results'[j].refused)
    <3> SUFFICES ASSUME NEW j \in DOMAIN results'
                 PROVE  Reported(calls', Due[results'[j].use].tool, results'[j].refused)
      OBVIOUS
    <3>1. CASE j \in 1..Len(results)
      <4>1. Reported(calls, Due[results[j].use].tool, results[j].refused)
        BY <1>1, <1>7, <3>1 DEF IInv, ResultsAreReported
      <4> QED
        BY <1>7, <1>8, <3>1, <4>1
    <3>2. CASE j = Len(results) + 1
      <4>1. results'[j] = r
        BY <1>7, <3>2
      <4> QED
        BY <1>5, <1>8, <4>1 DEF tool
    <3> QED
      BY <1>7, <3>1, <3>2
  <2>2. \A k \in DOMAIN conversation : \A j \in DOMAIN conversation[k].results :
           /\ k > 1
           /\ Reported(calls', conversation[k - 1].blocks[conversation[k].results[j].use].tool,
                       conversation[k].results[j].refused)
    BY <1>8 DEF IInv, ResultsAreReported
  <2> QED
    BY <1>1, <1>12, <2>1, <2>2 DEF ResultsAreReported
<1> QED
  BY <1>10, <1>11, <1>13, <1>14, <1>15 DEF IInv

\* The results answer the turn that asked for them.
LEMMA HandBackStep ==
  ASSUME IInv, HandBack
  PROVE  IInv'
<1>1. /\ pc = "dispatching" /\ next > Len(Due)
      /\ \/ pc' = "exhausted"
         \/ pc' = "calling" /\ iteration # MAX_TOOL_ITERATIONS
      /\ conversation' = Append(conversation,
            [role |-> "user", blocks |-> <<>>, results |-> results])
      /\ UNCHANGED <<turns, group, iteration, next, results, calls, reads, blank>>
  BY DEF HandBack, Goto, loopVars
<1> DEFINE t == [role |-> "user", blocks |-> <<>>, results |-> results]
           c == Len(conversation)
<1>2. /\ c \in Nat /\ c > 0
      /\ Len(Due) \in Nat
      /\ next \in Nat /\ next <= Len(Due) + 1
      /\ Uses(Last) = {k \in 1..Len(Due) : Due[k].tool # Text}
      /\ Due = Last.blocks
  BY <1>1, DueIsLast
<1>3. t \in Turn /\ t.blocks = <<>> /\ t.role = "user" /\ t.results = results
  BY EmptySeq DEF IInv, Types, Turn, Roles
<1>4. /\ conversation' \in Seq(Turn)
      /\ Len(conversation') = c + 1
      /\ DOMAIN conversation = 1..c
      /\ DOMAIN conversation' = 1..(c + 1)
      /\ \A k \in 1..c : conversation'[k] = conversation[k] /\ conversation[k] \in Turn
      /\ conversation'[c + 1] = t
  BY <1>1, <1>3, TurnAppended DEF IInv
<1>5. Last = conversation[c]
  BY DEF Last
<1> HIDE DEF t, c
<1>6. Types'
  BY <1>1, <1>4 DEF IInv, Types, Answered
<1>7. TurnsArePairs' /\ StartsAfresh' /\ CollectsResults'
  BY <1>1 DEF IInv, TurnsArePairs, StartsAfresh, CollectsResults
<1>8. CountsIterations'
  BY <1>1, IterationsArePositive DEF IInv, Types, CountsIterations
<1>9. TurnsAreAnswered'
  <2>1. Answers(t, conversation[c])
    <3>1. /\ {results[j].use : j \in DOMAIN results} = {k \in Uses(Last) : k < next}
          /\ \A i, j \in DOMAIN results : i < j => results[i].use < results[j].use
      BY <1>1 DEF IInv, CollectsResults
    <3>2. {k \in Uses(Last) : k < next} = Uses(Last)
      BY <1>1, <1>2
    <3> QED
      BY <1>3, <1>5, <3>1, <3>2 DEF Answers
  <2>2. /\ \A k \in 1..(c - 1) : Answers(conversation[k + 1], conversation[k])
        /\ conversation[1].role = "user" \/ \E k \in DOMAIN turns : turns[k].blank
    BY <1>1 DEF IInv, TurnsAreAnswered, InLoop, c
  <2>3. \A k \in 1..c : Answers(conversation'[k + 1], conversation'[k])
    <3> SUFFICES ASSUME NEW k \in 1..c PROVE Answers(conversation'[k + 1], conversation'[k])
      OBVIOUS
    <3>1. CASE k = c
      BY <1>2, <1>4, <2>1, <3>1
    <3>2. CASE k # c
      <4>1. k \in 1..(c - 1) /\ k + 1 \in 1..c
        BY <1>2, <3>2
      <4> QED
        BY <1>4, <2>2, <4>1
    <3> QED
      BY <3>1, <3>2
  <2>4. conversation'[1] = conversation[1]
    BY <1>2, <1>4
  <2>5. (c + 1) - 1 = c /\ c + 1 > 0
    BY <1>2
  <2>6. Last' = t
    BY <1>4 DEF Last
  <2> QED
    BY <1>1, <1>3, <1>4, <2>2, <2>3, <2>4, <2>5, <2>6 DEF TurnsAreAnswered
<1>10. ReadsAreReported'
  BY <1>1 DEF IInv, ReadsAreReported
<1>11. ResultsAreReported'
  <2>1. ASSUME NEW k \in DOMAIN conversation', NEW j \in DOMAIN conversation'[k].results
        PROVE  /\ k > 1
               /\ Reported(calls', conversation'[k - 1].blocks[conversation'[k].results[j].use].tool,
                           conversation'[k].results[j].refused)
    <3>1. CASE k = c + 1
      <4>1. conversation'[k].results = results /\ k > 1 /\ k - 1 = c
        BY <1>2, <1>3, <1>4, <3>1
      <4>2. conversation'[k - 1].blocks = Due
        BY <1>2, <1>4, <1>5, <4>1
      <4>3. Reported(calls, Due[results[j].use].tool, results[j].refused)
        BY <1>1, <2>1, <4>1 DEF IInv, ResultsAreReported
      <4> QED
        BY <1>1, <4>1, <4>2, <4>3
    <3>2. CASE k # c + 1
      <4>1. k \in 1..c /\ conversation'[k] = conversation[k]
        BY <1>2, <1>4, <2>1, <3>2
      <4>2. /\ k > 1
            /\ Reported(calls, conversation[k - 1].blocks[conversation[k].results[j].use].tool,
                        conversation[k].results[j].refused)
        BY <1>4, <2>1, <4>1 DEF IInv, ResultsAreReported
      <4>3. conversation'[k - 1] = conversation[k - 1]
        BY <1>2, <1>4, <4>1, <4>2
      <4> QED
        BY <1>1, <4>1, <4>2, <4>3
    <3> QED
      BY <3>1, <3>2
  <2> QED
    BY <1>1, <2>1 DEF ResultsAreReported
<1> QED
  BY <1>6, <1>7, <1>8, <1>9, <1>10, <1>11 DEF IInv

-----------------------------------------------------------------------------
(* The theorems.                                                           *)

LEMMA Initially == Init => IInv
<1> SUFFICES ASSUME Init PROVE IInv
  OBVIOUS
<1>1. Types
  BY EmptySeq DEF Init, Types
<1>2. TurnsArePairs
  <2>1. Len(turns) = 2 * 0 /\ DOMAIN turns = {}
    BY DEF Init
  <2> QED
    BY <2>1 DEF TurnsArePairs
<1>3. StartsAfresh /\ CountsIterations /\ TurnsAreAnswered /\ CollectsResults
  BY IterationsArePositive
  DEF Init, StartsAfresh, CountsIterations, TurnsAreAnswered, CollectsResults, InLoop
<1>4. ReadsAreReported /\ ResultsAreReported
  BY DEF Init, ReadsAreReported, ResultsAreReported
<1> QED
  BY <1>1, <1>2, <1>3, <1>4 DEF IInv

LEMMA Inductive == IInv /\ [Next]_vars => IInv'
<1> SUFFICES ASSUME IInv, [Next]_vars PROVE IInv'
  OBVIOUS
<1>1. CASE Ask
  BY <1>1, QuietStep DEF Ask, Goto, loopVars, InLoop
<1>2. CASE Receive
  BY <1>2, ReceiveStep
<1>3. CASE Reject \/ Forbid \/ Intercept \/ Fail
  BY <1>3, QuietStep
  DEF Reject, Forbid, Intercept, Fail, Goto, loopVars, InLoop, Answered
<1>4. CASE Begin
  BY <1>4, BeginStep
<1>5. CASE ModelReplies
  BY <1>5, ModelRepliesStep
<1>6. CASE ModelUsesTools
  BY <1>6, ModelUsesToolsStep
<1>7. CASE SkipText
  BY <1>7, SkipTextStep
<1>8. CASE Dispatch
  BY <1>8, DispatchStep
<1>9. CASE HandBack
  BY <1>9, HandBackStep
<1>10. CASE UNCHANGED vars
  <2>1. pc \in {"idle", "received", "calling", "dispatching"} \cup Answered
    BY DEF IInv, Types
  <2> QED
    BY <1>10, <2>1, QuietStep DEF vars
<1> QED
  BY <1>1, <1>2, <1>3, <1>4, <1>5, <1>6, <1>7, <1>8, <1>9, <1>10 DEF Next, Step

\* The strengthening of the properties below holds in every reachable state.
THEOREM InvariantHolds == Spec => []IInv
<1> QED
  BY Initially, Inductive, PTL DEF Spec

\* Whenever the model is called, every tool_use before has its one result, the
\* user has the last word, and the cut history opens with a question
\* (bedrock.py:154-207, chat.py:366-385).
THEOREM ChatPromptWellFormed == Spec => []PromptIsWellFormed
<1>1. IInv => PromptIsWellFormed
  BY DEF IInv, TurnsAreAnswered, InLoop, Last, PromptIsWellFormed
<1> QED
  BY InvariantHolds, <1>1, PTL

\* The report given with a reply is what was run, within the caller's role and
\* the limit on calls (chat.py:262-324, bedrock.py:139-205).
THEOREM ChatReportTrue == Spec => []ReportIsTrue
<1>1. IInv => ReportIsTrue
  <2> SUFFICES ASSUME IInv PROVE ReportIsTrue
    OBVIOUS
  <2>1. /\ iteration <= MAX_TOOL_ITERATIONS
        /\ \A tool \in reads : Can(group, TOOL_SPECS[tool]) /\ Reported(calls, tool, FALSE)
        /\ \A i \in DOMAIN calls : calls[i].refused \/ calls[i].tool \in reads
    BY DEF IInv, CountsIterations, ReadsAreReported
  <2>2. \A k \in DOMAIN conversation : \A j \in DOMAIN conversation[k].results :
           Reported(calls, conversation[k - 1].blocks[conversation[k].results[j].use].tool,
                    conversation[k].results[j].refused)
    BY DEF IInv, ResultsAreReported
  <2> QED
    BY <2>1, <2>2 DEF ReportIsTrue, Reported
<1> QED
  BY InvariantHolds, <1>1, PTL

=============================================================================
