-------------------------------- MODULE Chat --------------------------------
(***************************************************************************)
(* POST /v1/chat (handlers/chat.py) and the tool loop it runs              *)
(* (common/bedrock.py, run_tool_conversation), with the console's Ask view *)
(* (frontend/app.html), which asks one question at a time and replays the  *)
(* turns it has collected.  One action per remote call: of the console, of *)
(* the model, of a tool.  What a turn says is left out; its blocks, their  *)
(* order and who must answer them are kept.                                *)
(***************************************************************************)
EXTENDS Naturals, Sequences, FiniteSets, Rbac

CONSTANTS
    Groups,               \* the groups callers hold
    Blocks,               \* the content blocks the model may produce
    MaxBlocks,            \* bound: blocks in one turn of the model
    MaxQuestions,         \* bound: messages the console sends
    MAX_TOOL_ITERATIONS,  \* turns of the model before the loop gives up
    MAX_HISTORY_TURNS     \* replayed turns the server keeps

\* The tools and the capability each is gated on.
TOOL_SPECS ==
    [tool \in {"list_incidents", "get_incident_status", "get_diagnosis",
               "list_runbooks", "get_runbook", "search_audit"} |->
        CASE tool = "get_diagnosis" -> "view_diagnosis"
          [] tool \in {"list_runbooks", "get_runbook"} -> "view_runbooks"
          [] tool = "search_audit" -> "view_audit"
          [] OTHER -> "view_incidents"]

\* The tools that refuse a call without its id argument (_required).
ById == {"get_incident_status", "get_diagnosis", "get_runbook"}

\* A text block, or a tool_use of a known or an invented tool; argued: it
\* carries a usable id.
Text == "text"
Block == [tool: DOMAIN TOOL_SPECS \cup {Text, "invented"}, argued: BOOLEAN]

ASSUME GroupsAreIdentities == Groups \subseteq Identities
ASSUME BlocksAreBlocks == Blocks \subseteq Block
ASSUME BoundsAreNat == MaxBlocks \in Nat /\ MaxQuestions \in Nat
ASSUME IterationsArePositive == MAX_TOOL_ITERATIONS \in Nat \ {0}
ASSUME HistoryIsEven == MAX_HISTORY_TURNS \in Nat /\ MAX_HISTORY_TURNS % 2 = 0

VARIABLES
    turns,         \* the console's askTurns: who spoke, and whether blank
    asked,         \* how many messages the console has sent
    group,         \* the caller's group
    pc,            \* where the request is, or how it was answered
    conversation,  \* the turns sent to the model
    iteration,     \* calls of the model made for this message
    next,          \* the block of the model's last turn that is due
    results,       \* the tool_results collected for that turn
    calls,         \* the tool calls to report: name, refused
    blank,         \* whether the reply is blank
    reads          \* history: tools executed for this message

loopVars == <<iteration, next, results, calls, reads>>
vars == <<turns, asked, group, pc, conversation, iteration, next, results,
          calls, blank, reads>>

Roles == {"user", "assistant"}
Answered == {"ok", "invalid", "forbidden", "exhausted", "failed"}

Result == [use: Nat, refused: BOOLEAN]
Turn == [role: Roles, blocks: Seq(Block), results: Seq(Result)]

TypeOK ==
    /\ turns \in Seq([role: Roles, blank: BOOLEAN])
    /\ asked \in 0..MaxQuestions
    /\ group \in Groups
    /\ pc \in {"idle", "received", "calling", "dispatching"} \cup Answered
    /\ conversation \in Seq(Turn)
    /\ iteration \in 0..MAX_TOOL_ITERATIONS
    /\ next \in Nat
    /\ results \in Seq(Result)
    /\ calls \in Seq([tool: STRING, refused: BOOLEAN])
    /\ blank \in BOOLEAN
    /\ reads \subseteq DOMAIN TOOL_SPECS

Init ==
    /\ turns = <<>>
    /\ asked = 0
    /\ group \in Groups
    /\ pc = "idle"
    /\ conversation = <<>>
    /\ iteration = 0
    /\ next = 0
    /\ results = <<>>
    /\ calls = <<>>
    /\ blank = FALSE
    /\ reads = {}

Goto(from, to) == pc = from /\ pc' = to

-----------------------------------------------------------------------------
(***************************************************************************)
(* The console.  askBusy: nothing is sent while an answer is outstanding.  *)
(* A message that reads as a decision is answered by the console itself,   *)
(* with no request made (routeIntent).                                     *)
(***************************************************************************)
Ask ==
    /\ asked < MaxQuestions
    /\ Goto("idle", "received")
    /\ asked' = asked + 1
    /\ UNCHANGED <<turns, group, conversation, loopVars, blank>>

\* The turns are kept once they are a pair: the question and its 200.
Told(reply) ==
    turns \o << [role |-> "user", blank |-> FALSE],
                [role |-> "assistant", blank |-> reply] >>

Settled(kept) ==
    /\ pc' = "idle"
    /\ turns' = kept
    /\ conversation' = <<>>
    /\ iteration' = 0
    /\ next' = 0
    /\ results' = <<>>
    /\ calls' = <<>>
    /\ blank' = FALSE
    /\ reads' = {}
    /\ UNCHANGED <<asked, group>>

\* Mutant of Receive: a failure leaves the composer disabled.
ReceiveStayingBusy == pc = "ok" /\ Settled(Told(blank))

Receive ==
    /\ pc \in Answered
    /\ Settled(IF pc = "ok" THEN Told(blank) ELSE turns)

-----------------------------------------------------------------------------
(* The handler, up to the loop.                                            *)

\* An unusable body or message: 400.
Reject ==
    /\ group # NoTenant
    /\ Goto("received", "invalid")
    /\ UNCHANGED <<turns, asked, group, conversation, loopVars, blank>>

\* A context without tenant, or a group that may not view incidents: 403.
Forbid ==
    /\ ~ Can(group, "view_incidents")
    /\ Goto("received", "forbidden")
    /\ UNCHANGED <<turns, asked, group, conversation, loopVars, blank>>

\* A decision, from a client that skipped the console's own guard, is answered
\* before the model is asked anything, whatever the group.
Intercept ==
    /\ group # NoTenant
    /\ Goto("received", "ok")
    /\ UNCHANGED <<turns, asked, group, conversation, loopVars, blank>>

Said(role) == [role |-> role, blocks |-> <<>>, results |-> <<>>]

\* The turns that say something, each at its place.
Spoken == {k \in DOMAIN turns : ~ turns[k].blank}

InOrder(f) == \A i, j \in DOMAIN f : i < j => f[i] < f[j]

\* _history: blank turns dropped, then cut to the last MAX_HISTORY_TURNS.
History(f) ==
    LET over == IF Len(f) > MAX_HISTORY_TURNS THEN Len(f) - MAX_HISTORY_TURNS ELSE 0
    IN  [k \in 1..(Len(f) - over) |-> Said(turns[f[over + k]].role)]

Begin ==
    /\ Can(group, "view_incidents")
    /\ Goto("received", "calling")
    /\ \E f \in [1..Cardinality(Spoken) -> Spoken] :
          /\ InOrder(f)
          /\ conversation' = Append(History(f), Said("user"))
    /\ UNCHANGED <<turns, asked, group, loopVars, blank>>

-----------------------------------------------------------------------------
(* run_tool_conversation.                                                  *)

\* The model stops for any reason but tool_use: its text is the reply, cut off
\* at max_tokens or not.
ModelReplies ==
    /\ Goto("calling", "ok")
    /\ iteration' = iteration + 1
    /\ blank' \in BOOLEAN
    /\ UNCHANGED <<turns, asked, group, conversation, next, results, calls, reads>>

\* The model stops with tool_use: its turn goes back verbatim.
ModelUsesTools ==
    /\ Goto("calling", "dispatching")
    /\ iteration' = iteration + 1
    /\ \E n \in 0..MaxBlocks : \E bs \in [1..n -> Blocks] :
          conversation' = Append(conversation,
              [role |-> "assistant", blocks |-> bs, results |-> <<>>])
    /\ next' = 1
    /\ results' = <<>>
    /\ UNCHANGED <<turns, asked, group, calls, blank, reads>>

Due == conversation[Len(conversation)].blocks

\* dispatch's three refusals: no such tool, no capability, no id.
Refused(b) ==
    \/ b.tool \notin DOMAIN TOOL_SPECS
    \/ ~ Can(group, TOOL_SPECS[b.tool])
    \/ b.tool \in ById /\ ~ b.argued

SkipText ==
    /\ pc = "dispatching" /\ next <= Len(Due)
    /\ Due[next].tool = Text
    /\ next' = next + 1
    /\ UNCHANGED <<turns, asked, group, pc, conversation, iteration, results,
                   calls, blank, reads>>

Pair(b, refused) ==
    /\ results' = Append(results, [use |-> next, refused |-> refused])
    /\ calls' = Append(calls, [tool |-> b.tool, refused |-> refused])

\* Mutants of Dispatch: a refusal answers nothing; only what was offered and
\* argued is looked at, not the capability.
DispatchDroppingRefusals ==
    /\ pc = "dispatching" /\ next <= Len(Due)
    /\ Due[next].tool # Text
    /\ IF Refused(Due[next])
         THEN UNCHANGED <<results, calls, reads>>
         ELSE Pair(Due[next], FALSE) /\ reads' = reads \cup {Due[next].tool}
    /\ next' = next + 1
    /\ UNCHANGED <<turns, asked, group, pc, conversation, iteration, blank>>

DispatchAnything ==
    /\ pc = "dispatching" /\ next <= Len(Due)
    /\ Due[next].tool # Text
    /\ LET known == Due[next].tool \in DOMAIN TOOL_SPECS
       IN  /\ Pair(Due[next], ~ known)
           /\ reads' = IF known THEN reads \cup {Due[next].tool} ELSE reads
    /\ next' = next + 1
    /\ UNCHANGED <<turns, asked, group, pc, conversation, iteration, blank>>

\* One tool_use: read, or refused with the refusal handed back to the model.
Dispatch ==
    /\ pc = "dispatching" /\ next <= Len(Due)
    /\ Due[next].tool # Text
    /\ Pair(Due[next], Refused(Due[next]))
    /\ reads' = IF Refused(Due[next]) THEN reads
                ELSE reads \cup {Due[next].tool}
    /\ next' = next + 1
    /\ UNCHANGED <<turns, asked, group, pc, conversation, iteration, blank>>

\* The results go back as one turn; after max_iterations the loop raises, 504.
HandBack ==
    /\ Goto("dispatching",
            IF iteration = MAX_TOOL_ITERATIONS THEN "exhausted" ELSE "calling")
    /\ next > Len(Due)
    /\ conversation' = Append(conversation,
          [role |-> "user", blocks |-> <<>>, results |-> results])
    /\ UNCHANGED <<turns, asked, group, loopVars, blank>>

\* A remote call raises, the function is killed, or the gateway stops waiting.
Fail ==
    /\ pc \in {"received", "calling", "dispatching"}
    /\ pc' = "failed"
    /\ UNCHANGED <<turns, asked, group, conversation, loopVars, blank>>

Step ==
    \/ Receive
    \/ Reject \/ Forbid \/ Intercept \/ Begin
    \/ ModelReplies \/ ModelUsesTools \/ SkipText \/ Dispatch \/ HandBack
    \/ Fail

Next == Ask \/ Step

Spec == Init /\ [][Next]_vars

\* A started request goes on until it is answered, and the console takes the
\* answer; nobody has to ask.
FairSpec == Spec /\ WF_vars(Step)

-----------------------------------------------------------------------------
\* The tool_use blocks of a turn, in order.
Uses(turn) == {k \in DOMAIN turn.blocks : turn.blocks[k].tool # Text}

\* turn answers prior: one tool_result for each tool_use, in order.
Answers(turn, prior) ==
    /\ {turn.results[j].use : j \in DOMAIN turn.results} = Uses(prior)
    /\ \A i, j \in DOMAIN turn.results :
          i < j => turn.results[i].use < turn.results[j].use

\* What the API rejects the next call for: whenever the model is called, the
\* user has the last word, every tool_use turn is followed by exactly one
\* result for each tool_use, and no result is for anything else
\* (bedrock.py:154-158, :181-207); and a prompt the cut has shortened still
\* opens with a question, unless a blank reply was dropped from the history.
PromptIsWellFormed ==
    pc = "calling" =>
       /\ conversation[Len(conversation)].role = "user"
       /\ \A k \in 1..(Len(conversation) - 1) :
             Answers(conversation[k + 1], conversation[k])
       /\ conversation[1].role = "user" \/ \E k \in DOMAIN turns : turns[k].blank

\* What the caller is told was looked at and was refused is what the model was
\* told, call by call; nothing is read that the caller's role may not see,
\* whatever the model asks for; and no message costs more than
\* MAX_TOOL_ITERATIONS calls (chat.py:262-277, bedrock.py:139-145).
ReportIsTrue ==
    /\ iteration <= MAX_TOOL_ITERATIONS
    /\ \A tool \in reads : Can(group, TOOL_SPECS[tool])
    /\ pc = "ok" =>
          /\ \A tool \in reads : \E k \in DOMAIN calls :
                calls[k] = [tool |-> tool, refused |-> FALSE]
          /\ \A k \in DOMAIN conversation : \A j \in DOMAIN conversation[k].results :
                LET r == conversation[k].results[j]
                IN  \E i \in DOMAIN calls : calls[i] =
                       [tool |-> conversation[k - 1].blocks[r.use].tool,
                        refused |-> r.refused]
          /\ \A i \in DOMAIN calls : calls[i].refused \/ calls[i].tool \in reads

\* Liveness: every question is answered, with a refusal, a failure or a reply,
\* and the console accepts the next one.
QuestionIsAnswered == pc = "received" ~> pc = "idle"

=============================================================================
