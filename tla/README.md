# Incident triage assistant: a TLA+ verification development

TLA+ modules, TLC configurations and TLAPS proofs for the incident triage
assistant. The definitions translate the Python handlers (`src/src/handlers`),
the shared layer (`src/src/layer/python/common`), the Step Functions machine
(`src/statemachine/diagnosis_pipeline.asl.json`) and the EventBridge rules of
`src/template.yaml`; `PROJECT.json` maps every definition to its lines, and paths
below are relative to the repository's root.

The system is a set of short-lived Lambda functions that share DynamoDB rows and
an S3 bucket, and call one another through EventBridge, Step Functions and
asynchronous invocations. Nothing holds a lock. What makes it right or wrong is
which conditional write stands where, in which order a handler makes its calls,
and what happens when one of them dies, is retried, or goes on after its caller
has given up. That is what the models are about: **one action per remote call**,
every interleaving of invocations, and death between any two calls.

## The system

| Component | State | Operations | Interacts with |
|---|---|---|---|
| Alert intake (`ingest_normalize.py`, `create_incident.py`, `alerts.py`) | `Alerts` row, `dispatched_at` | store if absent, look at what is there, publish, mark dispatched | EventBridge, audit |
| EventBridge rules (`template.yaml`) | accepted events, `AlertDispatchDlq` | start an execution, retry, give up; run `fn-mark-pipeline-failed` for a timed-out execution | Step Functions, Lambda |
| Diagnosis pipeline (ASL machine, `correlate.py`, `rag_context.py`, `generate_rca.py`, `generate_runbook.py`, `notify.py`, `progress.py`) | execution state, `pipeline_stage`, `stages_seen`, `Diagnostics` and `Runbooks` rows, S3 runbooks, failure DLQ | invoke, retry, catch, time out; mark, gather, diagnose, render, announce | Bedrock, S3, SNS, SQS |
| Remediation approval (`trigger_remediation.py`) | `approval_status`, `execution_status`, `approved_by` | authorise, load, claim or decline, audit, call the platform, write the outcome, notify the IMS | the tenant's automation platform, audit, `notify_ims.py` |
| Read API (`query_diagnostics.py`) | none | status of an alert, listings page by page, presigned URLs | every row, the tenant-scoped sessions |
| Audit trail (`audit.py`, `audit_write.py`) | `Audit` rows, the audit DLQ | hand an entry over (or log it whole, or raise), write it, retry it, dead-letter it, list it | every handler that changes something |
| Role matrix (`rbac.py`) | none | `can` | every handler |
| Team administration (`team.py`) | Cognito groups, roster rows | list, change role | Cognito |
| Tenant provisioning (`tenant_provision.py`, `pre_signup.py`, `tenancy.py`, `backfill_tenants.py`) | tenant profile row, attributes, groups, roster | claim a domain, place a user, repair | Cognito |
| Integration settings (`tenant_settings.py`, `integrations.py`, `paramstore.py`) | one document per tenant | show, put, delete: read it whole, change an entry, write it whole | SSM, audit |
| Authorizer, tokens, scoped sessions (`authorizer.py`, `jwt.py`, `tenant_scope.py`) | API Gateway's cached policies, per-container caches of keys and sessions | verify, refresh, assume a role, sign a URL | Cognito, STS |
| Chat (`chat.py`, `bedrock.py`) and the console's Ask view (`frontend/app.html`) | the console's turns; the conversation in the request | ask, intercept decisions, run the bounded tool loop | Bedrock, the read API's rows |

What is hard about them, and the properties that make each right:

* **Intake.** Senders retry, two deliveries overlap, one dies between storing and
  publishing, EventBridge answers 200 for a refused entry, reads lag. Right: what
  was acknowledged was published, what was stored gets published, what was
  published starts a diagnosis or is in the DLQ, the first delivery's content is
  the one diagnosed, a delivery after `dispatched_at` collides.
* **Pipeline.** Step Functions abandons attempts that go on writing; retries of
  `generate_rca` replace the row; the two parallel tasks race on `stages_seen`;
  the failure path itself can fail; an execution over its 300 seconds runs no
  Catch. Right: a runbook that can be approved has its document and a saved
  diagnosis, an execution has one runbook, nobody hears of one that is not there,
  every execution ends with a result or with an attempt to mark its failure.
* **Approval.** Double-clicks and an approval racing a decline; death between claim,
  call and outcome; a platform that acts and reports failure; the pipeline putting
  the row a second time. Right: an issue of the runbook is executed at most once,
  by an admin who approved it, with an audited attempt; 409 means somebody else
  decided; `execution_status` claims nothing that did not happen.
* **Administration and provisioning.** Two signups racing to found a tenant; a placement
  that breaks off after the claim; the backfill script repairing by an old list; two
  admins demoting each other; role changes that stop half-way; tokens that outlive a
  demotion. Right: keys are never replaced, admin authority goes back to the founder
  and stays in its tenant, the roster the last-admin guard reads tells the truth, a
  tenant keeps an admin.
* **Settings.** One document holds every integration's endpoint and credential and is
  read, changed and written whole; a failed read counts as an empty document; the SDK
  repeats a write whose answer was lost, over whatever has landed since. Right: edits add
  up, an edit leaves the other integrations alone, an omitted key is kept, every
  change is audited.
* **Access.** Three caches on the way to a row (policy, keys, session), each outliving what
  it caches; signing keys rotate. Right: trust ends in bounded time, a new key opens at
  once, no presigned URL dies before its time and no credential in the hands of a function
  that ends within the session's margin.
* **Audit trail.** Entries are written by an asynchronous invocation that fails, is repeated and
  dead-letters; a filtered query pages through rows that arrive meanwhile. Right: no
  entry that was handed over vanishes, no page boundary hides a row.
* **Chat.** The model asks for whatever it likes, for ever. Right: each tool_use gets exactly
  one result before the next call, nothing outside the role is read, the report is what
  happened, and the question is answered.

`PROJECT.json` lists the hazards one by one, each at its line.

## The modules

| Module | What it is |
|---|---|
| `Rbac` | The capability matrix and `can()`. |
| `AlertIntake`, `AlertIntakeProps`, `AlertIntakeProofs` | Intake and the EventBridge rule; claims and refinement mapping; the proofs. |
| `AlertDelivery` | The abstract specification `AlertIntake` implements: the first content wins, nobody is reassured before a diagnosis was asked for, and no request for one is lost. |
| `Pipeline`, `PipelineProps`, `PipelineProofs` | One alert's executions and the Lambda invocations they leave behind; claims and refinement mapping; proofs, also `System`'s. |
| `AlertDiagnosis` | The abstract specification `Pipeline` implements: an execution settles on one saved diagnosis, offers that one's runbook before it announces it or succeeds, and says of a failure what is true, in order. |
| `Remediation`, `RemediationProps`, `RemediationProofs` | Approving and declining; claims and refinement mapping; proofs. |
| `System` | `Pipeline` and `Remediation` composed on the runbook rows; what is claimed of the two together. |
| `RunbookDecision` | The abstract specification `Remediation` implements: each issue of a runbook is decided at most once and executed at most once, if approved. |
| `Tenancy`, `TenancyProps`, `TenancyProofs` | Signups, the backfill script and role changes on keys, profile, attributes, groups and roster; claims; proofs. |
| `Settings`, `SettingsProofs` | One tenant's integration document under overlapping edits; the proofs. |
| `Access`, `AccessProofs` | Keys, policies, sessions and presigned URLs over time; the proofs. |
| `AuditTrail`, `AuditTrailProofs` | The asynchronous audit writer and the paged query; the proofs. |
| `Chat`, `ChatProofs` | The console's Ask view, `POST /v1/chat` and the tool loop; the proofs. |
| `MC*` | Instances for TLC: model values and small sets only. |

A `*Props` module holds claims only; the smaller models end with theirs. Operators
introduced as "Mutant of X" are X with a plausible slip in it; nothing uses them, they
are there to be put in X's place, and each claim a run checks is known to fail with one of them.

### How the models correspond to the code

**AlertIntake.** A slot is one handler invocation at a time. `Receive` is the
handler up to its first call (signature or role check, validation, normalisation),
`Reject` the 4xx that leave no trace but an audit entry. `StoreNew` and
`FindExisting` are the two results of `put_item(attribute_not_exists)`;
`SeeDispatched` and `SeeUndispatched` those of the `get_item` after a collision, which is
eventually consistent: if `lag`, it may miss `dispatched_at` or the whole row
("`existing or alert`"). `PublishAccepted`/`PublishRejected` are `put_events` and its
`FailedEntryCount`, `MarkDispatched` the update after, `Answer` the callers' response
and audit. `CREATED` and `REDISPATCHED` are one outcome, as both callers treat
them alike. `StartExecution`, `StartAndRepeat` and `GiveUp` are the rule with its retry
policy and DLQ. For `AlertDelivery`, a request for diagnosis is an event on the bus, and a
sender is reassured by an answer or by the trail's `created`. Reads that lag are modelled where
code decides by them: here, in the last-admin guard (`Tenancy`), in what the status and the audit
listing show (`Pipeline`, `AuditTrail`).

**Pipeline.** `state[e]` is where an execution is; `used` says which retriers a task has
used (every `MaxAttempts` is 1); `at[i]` where a task attempt, a Lambda invocation, is.
`Advance`, `Retry`, `Catch`, `LeaveMarkFailed`, `SendToFailureDlq`, `NotifyOpsFailure` are
the machine's transitions, `TimeOut` its own limit and `TimedOutRule` the EventBridge
rule for it. An attempt the machine stopped waiting for (a timeout, the other parallel
branch, the end) **stays running**: its later steps still happen and only its answer
is dropped (`End`). Invocations mark their stage first (`ReadHistory`, `MarkStage`,
where a failure is swallowed), then make their calls: `WriteDiagnosis`, `WriteObject`
and `WriteRunbook` (which may land unanswered and be sent again), `PublishReady`; `RefuseAnswer` is a model answer that is no JSON,
lacks its summary or is cut off; `Die` everything else. Diagnostic ids are
fresh per attempt of `generate_rca`, a runbook's id is derived from its diagnostic's,
so one name serves for both. `correlate.py` and `rag_context.py` degrade instead of
failing and write only a context cache nothing reads back (`rag_context.py:71-76` asks
log entries for a `sample` that `correlate.py` does not produce), so `GatherContext`
has no effect on the rows. `handled` remembers the executions for which a failure mark was
attempted: `fn-mark-pipeline-failed` ran, or Lambda would not run it in spite of its
invocation (`Die`). `AlertStatus` is what the console shows, as a function of what the request's
reads returned: they are three, one after the other, so the mark may be of before
(`MarksRead`), `dispatched_at` is `AlertIntake`'s and may be there or not, the
diagnostic's `get_item` may lag (`current`), and the query of the tenant's ready
runbooks, filtered, cut at `MAX_PAGES` pages and over an index that lags, may not get to this alert's
(`reached`).
Stages not in `Watched` have their `stages_seen` entries left out: no step depends on
any entry, so the projection is exact.

**System.** Every variable of both models, and one row seen by both: to `Pipeline` it is there,
to `Remediation` it says who decided what. `PutRunbook` is `generate_runbook`'s `put_item`,
at once `Pipeline`'s `WriteRunbook` and `Remediation`'s `Issue` of the runbook that
this attempt carries; `Diagnose` is every other step of the pipeline, `Review` every step of
`trigger_remediation`. `puts` remembers which attempt's put made which issue, `unheard` the attempts
one of whose puts was not answered: the SDK sends such a put again, however late.
`Faulty` bounds for TLC which invocations may end without an answer.

**Remediation.** `Issue` is `generate_runbook`'s `put_item`, seen from here: unconditional,
so it takes a decided row back to pending (`System` says when it happens). `RefuseTenantless`, `RefuseNotAdmin` and
`Authorise` are the checks; `LoadRunbook` the `get_item`; `ClaimForApproval`,
`DeclineRunbook` and `Conflict` the conditional update's results; `AuditAttempt`,
`CallPlatform`, `WriteOutcome`, `AuditOutcome`, `NotifyIms` the rest of an approval in the
code's order. `CallPlatform` may act and report failure (a timeout, an answer too long)
but not report success without acting. `Die` is a kill, a timeout or an exception
between any two calls. One tenant is modelled: every key starts with the
caller's tenant. `approved_by` holds the invocation, which stands for its actor.
Handing an entry to `record_audit` is one step: it is enqueued, or logged whole (`AuditTrail`
follows it from there). If `record_audit` raises, which it does when Lambda cannot be
reached, that is `Die` at this point.
`ClaimUnanswered` and `DeclineUnanswered` are an update that landed and whose answer was
lost: the SDK sends it again, finds its condition false, and the invocation that holds the
claim answers 409 and stops (`Conflict`). `unanswered` remembers them; it is why
`ConflictHasAWinner` counts the invocation's own unheard decision among the winners and
`InProgressEnds` allows an `in_progress` whose invocation answered 409. Here and in `AlertIntake` the
authorizer is trusted to pass no request without a tenant except where a handler
itself checks.

**Tenancy.** `at[k][u]` is where a run of `fn-tenant-provision` for user `u` is, as the pool's
trigger or inside the script (`k`), and `given[k][u]` the role it decided on at the
claim; `Following` is the handler's order of calls. `CreateKey` (three times), `ClaimTenant`,
`SetTenant`, `JoinGroup`, `RecordMember` are its calls, `BreakOff` a failed call, whose error
the handler swallows, or a kill. `ListUsers` and `Repair` are the script: `list_users` in
one snapshot (the code collects every page before it repairs anyone), then one listed user
after the other, whatever became of them since. A role change is a slot:
`AskForRole` is the handler up to the member row's `get_item` (requests refused before,
or by it, change nothing and are left out), `ReadGroup`/`HasRole` Cognito's answer,
`PassGuard`/`RefuseLastAdmin` the last-admin guard, which reads the roster,
`LeaveGroup`, `TakeGroup`, `UpdateRoster` its writes; the audit entry after them changes nothing
here. Tokens are reduced to `empowered`: the users who hold an unexpired one that
may manage roles, whatever their groups are by now. `Settled` are founders of tenants
from before the start, so that an instance need not spend its states on provisioning
them. The guard's read is `_members` as it is, a query without `ConsistentRead` and with `Limit`: for
any of the users (`late`) it may tell their row as `replica` has it, which `Replicate`
brings up to date one row at a time and at any time, and only the first `MAX_MEMBERS` rows in the order of
the subs are on the page (`Members`). That a row is there (`AskForRole`) is read as it is:
late or not, no row is ever removed, and a member whose row is not seen yet is answered 404.
`ClaimUnanswered` and `RecordUnanswered` are puts that landed, were not answered and are sent again by the
SDK: the first makes the founder a later user, the second may put a row back over a role change.
Repeating the other calls writes what they wrote, at a point where another change of the same member
is trouble already. `promoted` and `troubled` are history, which no
action reads: `troubled` holds the tenants where two role changes, or a placement and a change,
met on one member, two demotions overlapped, a role change stopped between its first and last write,
the guard let a demotion pass by admins none of whom was one any more in the roster (`Misled`), or the
script repaired a user who was scoped, or being placed, by then. They are the
exceptions of `RosterAgrees` and `AdminRemains`, and each is needed: without it TLC finds
a behaviour of the code that breaks the claim.

**Settings.** An edit is an invocation of `tenant_settings.py`. `RefuseTenantless`,
`RefuseNotAdmin`, `Show` and `Reject` are the answers that change nothing; `ReadDocument` is `_read`
with the entry changed in memory, `ReadNothing` the same after a `ClientError`, which the
code takes for an empty document; `WriteDocument` is `put_parameter` with `Overwrite`,
`WriteUnanswered` one that landed unheard and will be sent again; `AuditUpdate` the audit entry
after it. Endpoints and keys are named after the edit that brought them, so the
document shows who set what. `stale` (another write landed since the edit's read), `blind` (its
read failed) and `eroded` (entries such an edit wrote) are history, and the only
exceptions the claims make. Whether an endpoint or a key is acceptable is free
(`Reject`); parameter size limits are failed writes (`Die`).

**Access.** A clock that may advance at any point. `Issue`, `Rotate` and `Withdraw` are
Cognito's; `Authorize` is a cache miss of the gateway: `KeysFor` is `_public_keys` with its
one refresh for an unknown key id, `Verdict` the checks on expiry and tenant. The gateway's
policy may be used until `ReauthorizeEvery` has passed (`Cached`, `Enter`), whatever
became of token and key. A container runs one of the `Handlers`, serves one request at a time, and
a request is killed at that function's `TIMEOUT`. The gateway's functions are entered with a token;
`Tasks` (the pipeline's, and what queues and buses start) are invoked in the name of a tenant
(`Invoke`). `Expiry` is `_assumed_session`; `OpenSession` and `SignUrl` its two
users: a request may open several sessions and go on using each, so `expiry` is the first of
them to end. The correlators' 90 seconds are longer than the 60 a cached session is sure to
last, and `Overrun` is that difference. A JWKS fetch that fails leaves everything as it was and has no action.
Issuer, audience and signature are taken as verified.

**AuditTrail.** `RecordAudit` enqueues an entry, logs it whole (a `ClientError`) or raises with
nothing kept (a connection error or read timeout: `raised`); `AuditWrite`,
`AuditWriteUnanswered` (the row landed, the invocation failed all the same) and `AuditWriteFails` are a
delivery's outcomes, `Again` Lambda's retries and the DLQ. A row's key
`audit#second#uuid` is a number, the second times `PerSecond` plus a random rest, which keeps
the order of seconds and leaves that within one free. `ReadPage` is one turn of
`_paginated`: DynamoDB examines the newest rows below the cursor, `PageSize` or fewer,
filters them afterwards, and says whether there is more; rows not `settled` may or may not be
seen. `Listed` is `items[:limit]`.

**Chat.** A turn keeps who spoke, its blocks, its results and whether it is blank.
`Ask` and `Receive` are the Ask view; a question answered in the browser (`routeIntent`) makes no
request and has no action. `Reject`, `Forbid`, `Intercept` are the handler's early
answers, `Begin` the prompt with `_history`: turns that are blank are dropped and the rest
cut to `MAX_HISTORY_TURNS` (`f` enumerates what is left, in order). `ModelReplies` and
`ModelUsesTools` are the two ways a call of the model ends, `SkipText` and `Dispatch` the loop over
its blocks, `Refused` the three ways a tool call is refused, `HandBack` the turn of
results, or `ToolLoopExhausted`. `Fail` is a call that raises, Lambda's or the gateway's
timeout. What a tool returns is left out: it goes to the model only.

## The runs

| Run | Instance | Shows |
|---|---|---|
| `remediation` | 3 requests, 1 runbook, every identity's group, the row put up to twice, updates unanswered and repeated | one execution per issue and only if approved, outcomes and 409s earned, a trail that is true and misses no execution and no decision but the named, the refinement of `RunbookDecision`, and that `in_progress` ends unless its invocation died |
| `intake` | 1 alert, 2 contents, 2 slots, the signed webhook and console callers who may and may not create, lagging reads, a bus that refuses, repeats and gives up | the refinement of `AlertDelivery`, a late delivery is a duplicate, what is stored is published if the sender retries, what is published is handled |
| `pipeline` | 1 execution, every error, retry, timeout and lost mark, one attempt outliving its timeout | the refinement of `AlertDiagnosis`, results are whole and consistent, the timeline is true and the status earned whatever its reads return, a recorded failure gives way only to a mark nobody waits for, every execution ends with a result or an attempt to mark its failure |
| `system` | 1 execution whose first attempt of `generate_runbook` may end without an answer, no two attempts of a task at once, 2 admins' requests, up to 2 puts of the row | what is carried out was diagnosed, twice only if put twice, and a decision is final once no attempt of `generate_runbook` runs |
| `tenancy` | 2 tenants, 4 users (two colleagues, another tenant's founder, one no tenant derives for), script, promotions by 1 slot, anything may fail, puts repeated unheard | keys survive, nobody has anything before the tenant has everything, authority comes from the founder and stays in its tenant, the roster agrees |
| `team_roles` | 1 tenant with its founder and 2 users signing up, 2 slots that promote and demote, a guard that reads 2 rows, each of them late or not, anything may fail | an admin remains and the roster agrees, but for the named exceptions |
| `settings` | 3 edits by anyone of 2 integrations, reads that fail, writes unanswered | edits add up, touch their entry only and are audited, but for the named exceptions |
| `access` | 2 tokens, 2 keys, a container of a gateway handler or of a correlator, 7 instants, intervals in the code's order | trust ends, new keys open, URLs and credentials outlive their use, but for the correlator's time past the margin |
| `audit_trail` | 3 entries over 2 seconds, 2 deliveries each, pages of 2, 2 pages, limit 2, enqueuing that fails either way | nothing `record_audit` returned from vanishes, a query misses no settled match |
| `chat` | 3 questions, 4 roles, turns of up to 2 blocks of 5 kinds, 2 iterations, history of 2 | prompts the API accepts, a true report, every question answered |
| `remediation_twice` | as `system` | **fails**: a runbook is executed twice |
| `no_admin_ever` | 1 tenant, its founder and the script | **fails**: a claimed tenant never has an admin |

### Bounds and why they are enough

* `remediation`: with three requests a claim, a competing claim or decline, and a third
  request that comes after a second `Issue` all interleave. `MaxIssues = 2` is the
  smallest number with a decided row put again; Step Functions makes two attempts of
  `generate_runbook` per retrier.
* `intake`: two slots give every overlap of two deliveries, and slots are reused, so the
  number of deliveries is unlimited. `MaxInFlight = 1` holds a second publish back
  until the first event left the bus; `MaxStarts` only saturates a counter.
* `pipeline`: one execution has up to three attempts per task and two parallel tasks,
  the overlaps the comments are about. `MaxOrphans = 1` bounds how many abandoned
  attempts run **at once** (another is abandoned when one has ended), which keeps the
  parallel branch, the outlived `generate_rca` and the late `generate_runbook`. The
  clauses about another execution of the alert need two and are beyond TLC with
  every error enabled; the proofs are for any number of executions.
* `system`: `MaxOrphans = 0` and one faulty attempt leave one retry and any number of repeated
  puts, which is all it takes to put a row twice; two requests decide on the two issues, or
  compete for one. What the two models do on their own is their own runs' matter. Requests
  are interchangeable (symmetry; no liveness is checked there).
* `tenancy`: two colleagues are the smallest race for a profile row; a founder elsewhere
  makes the tenant boundary matter; script and trigger overlap on each user. One slot
  and promotions only, since the other run has the rest. `team_roles`: three members and
  two slots are the smallest case with a last admin, a competing demotion and a page
  (`MAX_MEMBERS = 2`) that does not show everyone; the founder is settled, so that the states go
  to role changes. Both claims except a tenant in trouble, which stays so, and states in trouble are
  not continued (`Untroubled`). Slots are interchangeable (symmetry; no liveness is checked there).
  In `tenancy` reads do not lag: promotions pass no guard.
* `settings`: two edits that overlap and a third that reads what they left; a second
  integration to lose. An edit is one invocation, so three edits of every kind cover every
  pair of overlaps and what a later one inherits.
* `access`: the intervals keep the order they have in the code (leeway < token life,
  a gateway handler's timeout <= margin < correlator's < default session = URL < signing session), and seven instants let a token, a key,
  a policy and a session each expire and be renewed once. Further authorizer containers share
  nothing.
* `audit_trail`: two rows that match and one that does not, split over pages of two, put
  the page boundary behind, before and between the matches; duplicates of unheard writes
  fill the key space. Two deliveries are a retry; the code has three.
* `chat`: two blocks give every order of text, refusal and read; two iterations a second
  prompt and the limit; three questions a history that is cut, with a blank reply in it.
* The proofs drop all these bounds except that counters are capped by the constants,
  whatever their values.

### Fairness

* `Remediation`: weak fairness of an invocation's `Step`: Lambda runs what it started
  until it answers or dies; dying is always possible, so no claim rests on survival.
* `AlertIntake`: the sender sends again until acknowledged (strong fairness of
  `Redeliver`, since slots may be busy); an invocation that is tried again and again does
  not die each time at the same call, and `put_events` is not refused each time (strong
  fairness of the store, the look and the accepted publish); EventBridge
  attempts an accepted event until it starts an execution or goes to the DLQ. `StoredIsPublished`
  needs the sender's retries: nothing else in the code republishes a stored alert.
* `Pipeline`: the machine takes the transitions it can, EventBridge delivers the timed-out
  event, Lambda lets no invocation run past its timeout: also a put that is sent again and again
  comes to an end (the fairness is of steps that move the invocation on). No invocation is
  assumed to succeed.
* `Chat`: weak fairness of a request's `Step`: it goes on, fails or is killed, and the
  console takes what came of it (`api()` resolves or rejects). Nobody has to ask.
* `Settings`, `Access`, `AuditTrail`: none; their claims are about safety, and whether a dead
  letter is ever looked at is not the code's.
* `Tenancy`: none, and no liveness is claimed: whether a broken placement is ever
  repaired depends on somebody running the script.

## What the runs found

1. **A runbook can be executed twice** (`remediation_twice`). `generate_runbook.py:85` puts the
   row unconditionally under an id its retry reuses. A second put that lands after an
   approval (of a second attempt, or of the same one, repeated because its first was not
   answered) takes the row back to `pending`; the claim then lets another approval
   through, while `trigger_remediation.py:10` promises exactly once. What does
   hold is once per issue (`OneExecutionPerIssue`, `ExactlyOnceIfIssuedOnce`); the composed
   system shows the only way to two (`ExecutedTwiceIsPutTwice`) and from when on it is
   ruled out (`DecisionIsFinal`).
2. **A tenant can be born without an admin** (`no_admin_ever`). The profile row is claimed
   before the founder gets attribute and group; every later run, the founder's own
   repair included, finds it claimed and gives `TenantEngineer`, and a founder
   whose attribute was written is skipped by the script altogether.

Also seen while modelling, without a run of their own; each is a named exception of a claim, or
is left out of the model where noted under "Not modelled":

* An alert can be diagnosed twice: a row without `dispatched_at` is taken for one whose
  publish failed, and the first delivery may just not have marked it yet
  (`alerts.py:148`, against `alerts.py:11`).
* A failed read erases stored credentials: `_read` answers an empty document for any `ClientError`
  (`tenant_settings.py:69`), and the edit writes back what it read, so one throttled read and the
  next save drops the key behind the endpoint, and every other integration's with it, while the
  comment at `:126` says an omitted key is kept. `EditsAddUp` names such edits (`blind`).
* A recorded failure can be hidden by the mark of an abandoned parallel task
  (`progress.py:76`); `FailureGivesWay` says that nothing else can hide it.
* An execution that fails after its runbook row was written shows `failed` although the runbook can
  be approved: the mark wins over the row (`query_diagnostics.py:198`), where the docstring says that the
  rows "win when they disagree" (`:169-171`). And behind `MAX_PAGES` pages of other ready
  runbooks the alert's own is not found and shows as `diagnosed` again, the
  regression that the comment at `:184-187` describes. `StatusIsEarned` says how far this goes: `failed`
  only if a failure was recorded, the runbook if the query reaches it, and otherwise, by a current read of the
  diagnostic, no further back than `diagnosed`.
* Two demotions leave a tenant without an admin (`team.py:138-168`, against
  `tests/test_team.py:11`) if they overlap, and also one after the other, if the second one's
  read of the roster (`team.py:53`, eventually consistent) misses what the first wrote:
  `AdminRemains` excepts both.
* A founder whose claim's answer is lost is made an engineer by the SDK's repetition of the put
  (`tenant_provision.py:86-89`), and the tenant has no admin.
* A correlator that runs for more than 60 seconds may write with credentials that expired up to 30
  seconds before (`template.yaml:610`, `correlate.py:90`), and fails there.
* A claim whose update's answer is lost is answered 409 and the runbook stays `in_progress`
  for good (`trigger_remediation.py:87-113`).
* `s3vectors_setup.py:110-124` calls `_ensure_bucket`, `_ensure_index` and `_delete` without the
  client their definitions take, and never calls `_client`: every invocation raises
  `TypeError` and the vector index is never made.
* The chat handler returns a reply the model cut off at `max_tokens` as complete
  (`bedrock.py:168` returns for every reason but `tool_use`); `_AUDIT_FIELDS` (`chat.py:225`) asks for `outcome`,
  `recorded_at` and `detail`, where rows have `result` and `timestamp`; a blank reply that
  `_history` drops can leave a cut history that opens with an assistant's turn; a `tool_use`
  stop without a tool_use block hands back an empty turn.
* `record_audit` catches `ClientError` only (`audit.py:37`): if Lambda cannot be reached, it raises into
  the handler with the entry neither enqueued nor logged, e.g. after a claim and before the
  platform's call. An audit row put unheard is put again under a new
  key, so the trail may show an action twice.
* A domain that slugs to nothing passes `pre_signup.py` and is never provisioned
  (`EveryMemberIsProvisioned`: it then has nothing anywhere); the
  last-admin guard sees the first 200 members only; the parallel correlation tasks lose each
  other's entry in `stages_seen`; `notify.py` swallows `ClientError` only, so a connection error of
  SNS fails a complete diagnosis; the 409 body repeats the `pending` read before the claim.

## What is proved

All of the following hold for every value of the constants, under the constants'
assumptions only (`System` restates those of `Remediation` for its own constants): callers are identities the authorizer can produce
(`CallersAreIdentities`, `SendersAreKnown`), bounds are naturals (`MaxIssuesIsNat`,
`BoundsArePositive`, `MaxOrphansIsNat`), switches are booleans (`LagModesAreBoolean`,
`BusRepeatsIsBoolean`, `MarksFailIsBoolean`), the values for "none" are no members of the
sets they are none of (`NobodyIsNoRequest`, `NothingIsNothing`, `NoDiagnosisIsNone`, `NoTenantIsNone`,
`NobodyIsNoUser`, `NoneIsNoEdit`, `NobodyIsNoToken`, `RefusalIsNoIntegration`), editors and
chat callers are identities (`EditorsAreIdentities`, `GroupsAreIdentities`), blocks are blocks and limits
naturals (`BlocksAreBlocks`, `BoundsAreNat`, `IterationsArePositive`, `DurationsAreNat`, `CountsArePositive`,
`MaxTimeIsNat`, `MaxMembersIsNat`), timeouts are naturals, however long (`TimeoutsAreNat`), the history limit is even, as its 10 is (`HistoryIsEven`), a fetched key is
used for a while (`KeysAreKept`), a new session is longer than the margin or URL it is asked for (`SessionsAreLongEnough`: 60 s of
15 minutes, 15 minutes of 30; it says nothing of timeouts), each token names a tenant or none
(`TenantsOfTokens`), no two users share a sub (`SubsDiffer`), the
filter picks from the entries (`WantedAreEntries`), `WatchedAreStages`, `NewRolesAreRoles`, every user is derived a tenant or
none (`EveryUserIsDerived`), and no two settled founders share one (`SettledFoundOneTenant`).

* **`RemediationProofs`**: type correctness and every safety claim of the run, and that
  the handlers implement `RunbookDecision`, for any number of requests, runbooks and
  puts. `OneExecutionPerIssue` is not inductive: the invariant adds that a claim is held
  by one invocation per issue (`ClaimsAreUnique`), that nobody holds a claim on an
  issue there has not been, and that the row shows the decision of whoever holds its
  current issue (`RowShowsTheClaim`), so that a pending row leaves room for one
  claim. `TrailInOrder` ties each audit entry to the place its invocation has reached, and a
  decision on the row to the one who made it: `TrailIsTrue` and `DecisionIsAudited`
  follow. `ExactlyOnceIfIssuedOnce` is the docstring's promise with its missing premise:
  an execution is exactly once for a runbook that is put once.
* **`AlertIntakeProofs`**: type correctness, all safety claims and `FirstDeliveryWins` (a step
  property), for any alerts, contents, senders and number of slots. The invariant
  relates each slot's place to what it must have seen (a slot past the collision knows
  a stored row, a slot marking has published), and `dispatched_at` to a published event. From
  it follows, action by action, that handlers and bus implement `AlertDelivery`
  (`DeliveryRefinement`), which says in one specification what `AcknowledgedIsPublished`,
  `PublishedIsStored`, `FirstDeliveryWins` and `PublishedIsAccountedFor` say apart; these
  are proved too.
* **`PipelineProofs`**: type correctness, all the safety claims and `FailureGivesWay`, for any number of
  executions racing on the alert and of invocations outliving their task; the run
  has one of each. The invariant follows the answer an execution carries
  (`$.diagnostic`): it is none until `generate_rca` answered (`DiagnosticInOrder`), it never changes
  after, so late or repeated attempts of `generate_runbook` all write the same
  runbook (`RunbooksInOrder`), and attempts of `generate_rca` are one at a time unless
  one was outlived (`RcaInOrder`), which is why the row still holds what was carried.
  `FatesAreAwaited` (an end is kept only for a machine that waits for it) is what makes a
  retry unable to pick up an abandoned attempt's answer. `AlertInOrder` follows
  the alert's marks from a failure that happened to one that is recorded; with
  `FailedHaveStopped`, the runbook of an execution that succeeded (`ReadyInOrder`) and the diagnosis
  that stays in the row once there is one (`SavedIsThere`) it gives `StatusIsEarned` for everything
  the three reads may return.
  `DiagnosisRefinement` maps every action to a step of `AlertDiagnosis` or to none, and
  implies `AnnouncedIsReady` and the runbooks' part of `OneRunbookPerExecution`, which
  are proved beside it.
* **`System`** (the last part of `PipelineProofs`): `SystemIsPipeline` and `SystemIsRemediation` show
  that each component behaves in the composition as specified alone, the rows being put only as
  `Issue` allows, so that all of the above holds of the two together. `PutsInOrder` accounts
  for every issue of a row by a put of an attempt of `generate_runbook`, and says that an
  attempt whose puts were all answered has ended: two puts are two attempts, or one unheard.
  With one claim per issue that is `ExecutedTwiceIsPutTwice`. `BegunIsReached` keeps attempts
  from starting once the machine has passed them (`ReachedStays`), hence `DecisionIsFinal`;
  `ExecutedIsDiagnosed` joins `RunbookIsWhole` and `OneRunbookPerExecution` to what was claimed.

* **`TenancyProofs`**: type correctness, all of the two runs' claims, `TenantKeepsItsKeys` and
  `AdminRemains` as step properties, for any users, tenants and concurrent role changes.
  `GivenByRight` ties a run that gives admin to the profile row it claimed, `KeysFirst` keeps
  keys ahead of the claim, `ClaimedFirst` the claim ahead of all that a user gets (together:
  `EveryMemberIsProvisioned`), and `OnlyMembers` keeps groups and roster rows to users of a
  tenant. For `AdminRemains` the guard's roster must be trusted: in a tenant without trouble
  a member is placed once (`LifeInOrder`, `PlacedOnce`), changed by one slot (`ChangedOnce`),
  and demoted by one (`DemotedOnce`), so the roster's other admin
  still has the group when the demotion removes its target's. The guard's lag and page
  make no difference to that argument: unless it was misled, an admin it saw is one in the
  roster (`Spare`).

* **`SettingsProofs`**: type correctness and the run's three claims, two as step properties
  or history facts, for any integrations, edits and callers. `EditsAddUp` rests on what an edit
  holds: unless it is stale or blind, its copy is the document with its own entry
  changed, so landing it is applying it; what a stale or blind edit writes is
  eroded until an edit that says all about the entry lands.
* **`AccessProofs`**: type correctness and the run's three claims for all durations under
  `SessionsAreLongEnough`, and for functions of any timeout. The invariant dates every cache: what is in `keys` was published at
  `fetchedAt`, what is in `policy` was decided no earlier than `REAUTHORIZE` before its end, and
  a served request began within its function's timeout and holds sessions that had more than
  `MIN_REMAINING` to run when it opened them.
* **`AuditTrailProofs`**: type correctness and both claims, the first for entries that `record_audit` returned
  from. The invariant of the query says
  that whatever is due and not collected lies below the cursor, however the pages
  were cut, while rows go on arriving above and below.
* **`ChatProofs`**: both safety claims, for any role, blocks, questions, history limit and
  number of iterations. `TurnsAreAnswered` keeps every turn answered but the last,
  `CollectsResults` says that the results so far answer the blocks so far, and
  `ResultsAreReported` ties them to the report; `HistoryOpens` shows that an even cut of a
  history of pairs opens with a question, for which an increasing enumeration of all turns
  must be the identity (`EnumerationIsIdentity`, by counting).

Not proved, only model-checked: liveness under fairness (`InProgressEnds`,
`StoredIsPublished`, `PublishedIsHandled`, `ExecutionEnds`, `QuestionIsAnswered`), which is beyond
the prover. `Chat`'s type invariant is proved as a part of its inductive invariant (`Types`).

## The plan

Done: `Rbac`, `Remediation` with `RunbookDecision`, `AlertIntake` with `AlertDelivery`, `Pipeline` with
`AlertDiagnosis`, `System`, `Tenancy`, `Settings`, `Access`, `AuditTrail`, `Chat`, their runs and
proofs. Next, in this order:

1. Abstract specifications for `Settings`, `AuditTrail` and `Chat` to implement.
2. `Settings`' readers (`integrations.py`): a remediation under way while the endpoint
   it is about to call is changed.
3. `Tenancy` with Cognito calling the trigger again after a lost answer.

## Not modelled

Prompts, model answers and rendered text (a value or a refusal), and the phrases that read as
a decision (free); normalisation of vendor payloads (a content is a model value); encryption,
HTTP and response formatting (no state); signatures (a delivery is signed or not, a token
verifies); the context cache and the vector store (nothing modelled reads them back); deployment;
the vector index set-up (it raises before its first call, see above); how a tenant is derived
from an address (a constant of `Tenancy`); listing the team and the listings other than the
audit trail (reads only, the same loop over other rows); the console but for its Ask view
(it renders what the read API returns); what `notify_ims.py` sends to the incident system.
