# Verification of AtlasFlow

AtlasFlow is a research agent: a LangGraph workflow plans a research, asks models and
tools, and writes a report; FastAPI services around it keep runs, conversations, knowledge
spaces and experiments in PostgreSQL and SQLite. This directory holds TLA+ models of the
parts of `src/backend/src/atlasflow` whose correctness depends on interleavings, crashes and
the agreement of two databases, the TLC configurations that check them, and TLAPS proofs.

Paths below are relative to `src/backend/src/atlasflow/` unless they start with `src/`.

## 1. Inventory

| Component | State it keeps | Operations | What makes it correct | Here |
|---|---|---|---|---|
| Execution runtime (`execution/runtime.py`) | per run, in PostgreSQL: control row (owner, fencing epoch, cancel/deleted flags, tool counters), commands, invocation ledger, outbox. In memory: `claims`, leases, delivery locks | bind, claim, release, recover_owner, cancel, begin/dispatch/confirm/fail, HTTP hooks, emit, flush | no call with an unknown outcome is repeated unless the user confirms it; the tool budget is exact; a fenced writer writes nothing | partly: Journal, RunLifecycle |
| Call journal wrappers (`execution/journal.py`) | – | durable_model_stage | every model stage is begun, sent, answered under one lease | modelled: Journal |
| Execution storage (`execution/postgres.py`, `storage.py`) | the bundle of a run, a process-wide advisory lock | mutate, checkpointer | one row-locked transaction per operation; one process per database | partly: RunLifecycle |
| Run service (`service.py`) | SQLite projection (status, report), `_tasks`, per-run locks | create, launch_reserved, approve, cancel, delete, resume, reconcile_startup, close; the task bodies | the projection follows the transition table, terminal states stay, every state a run rests in has a way out | partly: RunLifecycle, Conversations |
| Run store (`storage.py`) | SQLite: runs, events, receipts of the outbox | patch, apply_outbox, delete | an outbox event is applied once, together with its receipt | partly: RunLifecycle |
| Conversations (`conversations/`) | conversations, turns, proposals, their links to runs; the routing tasks | send, route, answer, confirm, launch, stop, poll, delete, startup | a turn and its run end together; a deletion removes what was shown to who confirmed it; no turn blocks its conversation | partly: Conversations |
| Research workflow (`agents/workflow.py`) | the graph state: plan, results, errors, drafts, verdicts, counters | plan, approve, waves, gate, critic, synthesis, quality gate, finalize | each loop is bounded; verdicts are earned; partial results are accounted for | partly: Workflow, ReportReview, ToolStage |
| Model gateway (`agents/gateway.py`) | the counters of one request | structured calls with repairs, text calls | bounded retries, validated values, safe fallbacks | partly: ModelGateway, ReportReview |
| Tool runtime (`agents/tool_runtime.py`, `tool_failures.py`, `tools/registry.py`) | the shared budget, failure circuits, the records of calls | decisions, batches, reuse, stops | the budget holds across researchers; every call is answered; what is complete is proven | partly: ToolStage, Journal |
| Report helpers (`agents/report_*.py`, `task_quality.py`, ...) | – | audit, coverage, freshness, calibration, limited publications | nothing disputed is asserted; support of findings is kept | partly: ReportReview, ToolStage |
| Tools (`tools/`) | registry | adapters of external services | – | not modelled |
| Knowledge platform (`knowledge/application/`, `.../infrastructure/`) | documents, versions, generations, jobs, builds, saved versions of a space; one worker task per process | submit, process, retry, cancel, archive, purge, start/publish/cancel build, activate/delete version | a reader sees one consistent snapshot; a build is published complete or not at all; no job is lost | partly: KnowledgeSpace |
| Knowledge ingestion, retrieval | – | parse, chunk, embed, rank | pure or I/O | not modelled |
| Providers (`providers/`) | – | HTTP attempts with retries | each attempt is in the ledger; retries are bounded | partly: ModelGateway, Journal |
| Evaluation (`evaluation/`) | experiments, rows of cells, budget ledger, tasks | run, judge, record, cancel, close, restart, delete | each cell is accounted for once; no request beyond the budget | partly: Evaluation |
| API and process (`api/`, `main.py`) | – | routes, lifespan, SSE | crash, restart and shutdown at any point | partly, in each module |
| Frontend, scripts, migrations, observability | – | – | presentation, operator tools | not modelled |

How they interact. A route calls `RunService`; the service claims the run in PostgreSQL, then
starts an asyncio task that drives the graph. Graph nodes write their outputs and outside calls
to the ledger under the claim of the run; researchers call tools through the tool runtime, every
node calls models through the gateway. The graph's outcome is emitted into the PostgreSQL
outbox and delivered to SQLite, which is what the user sees. A conversation turn reserves a run
and launches it later. The graph reads knowledge snapshots that ingestion workers publish. An
evaluation runs the same graph, or replays it, once for each cell of its matrix.

What is hard here, each with its line in `PROJECT.json` "hazards":

* interleavings: a fenced coroutine that wakes up late, parallel researchers at the last unit of
  a budget, a completion racing a cancel, a worker saving a stale copy of its job, a message that
  arrives while its conversation is being deleted;
* crashes between two commits in two databases: claim and projection, outbox event and receipt,
  tombstone and deletion, link of a turn and launch of its run, publication of a build and its jobs;
* transactions reported as failed although they committed;
* timeouts: a tool that is cut while its request is on the wire, an answer that was cut and is
  asked for again;
* bounds: waves, supplements, replans, revisions, attempts and budgets that several nodes, cells
  or researchers count;
* rewriting: several checks rewrite one verdict in turn, and a later one must not hide what an
  earlier one found.

## 2. The modules

| Module | Models | Checked by | Proved in |
|---|---|---|---|
| `Journal.tla` | the control row and invocation ledger of one run: `execution/runtime.py`, `execution/journal.py`, the journalled calls of `agents/tool_runtime.py` and `tools/registry.py`, the HTTP hooks of `providers/` | `MCJournal` | `JournalProofs` |
| `ExternalCall.tla` | abstract: what the journal promises of one external call; implemented by `Journal` for every slot and input, and by `RunLifecycle` for the call of its run | `MCRunLifecycle` (`CallPromised`) | `JournalProofs`, `LifecycleProofs` |
| `RunLifecycle.tla` | one run in `service.py`, its SQLite row (`storage.py`), outbox and receipts, startup and shutdown | `MCRunLifecycle` | `LifecycleProofs` |
| `Workflow.tla` | the research graph of one run: `agents/workflow.py` and the contracts of its nodes in `agents/contracts.py` and `schemas.py` | `MCWorkflow` | `WorkflowProofs` |
| `ResearchRun.tla` | abstract: what a run promises; implemented by `Workflow` | `MCWorkflow` (`RunPromised`) | `WorkflowProofs` |
| `ToolStage.tla` | the researchers of a wave: `agents/tool_runtime.py`, `tool_failures.py`, the attempts and the calibration of results of a researcher | `MCToolStage` | `ToolStageProofs` |
| `ModelGateway.tla` | one operation of `agents/gateway.py` over `providers/openrouter.py` | with `ReportReview` (`SupportKept`) | `ReviewProofs` |
| `ReportReview.tla` | critic, synthesizer, quality gate and finalizer with the checks of `agents/report_*.py` and `task_quality.py`; EXTENDS `ModelGateway` | `MCReportReview` | `ReviewProofs` |
| `Descent.tla` | the order in which bounds of loops within loops are used up; for proofs only | | `ReviewProofs`, `ToolStageProofs` |
| `Conversations.tla` | one conversation and the runs of its turns: `conversations/`, and `service.py` where it launches, cancels and deletes them | `MCConversations` | `ConversationProofs` |
| `Evaluation.tla` | one experiment of either edition: `evaluation/common/service.py`, `store.py`, `evaluation/runner.py`, `budget.py` | `MCEvaluation` | `EvaluationProofs` |
| `KnowledgeSpace.tla` | one space in `knowledge/application/platform.py`, `space_builds.py`, `knowledge/infrastructure/postgres_repository.py`, the checks of `knowledge/domain/build_validation.py`, the route `POST /documents` | `MCKnowledgeSpace` | `KnowledgeProofs` |

How they compose. ReportReview runs its nodes over the gateway's requests in one state machine.
Workflow implements ResearchRun by a refinement mapping; Journal and RunLifecycle implement the same
ExternalCall. Where two modules model two sides of one
thing, each keeps of the other only what it can observe: RunLifecycle keeps of the graph its
checkpoints and its outcome, Conversations of a run the status it shows, Workflow of a researcher
the outcome of its attempts (which ToolStage produces) and of a review its decision (which
ReportReview produces). Names are shared so that a reader can follow a value from one to the other.

### Journal

Every method of `ExecutionRuntime` is one row-locked transaction, hence one action. The rows of
different runs share nothing, so the module is about one run. `owner`, `epoch`,
`cancelRequested`, `deleted`, `toolReserved` are the control row; `claimEpoch` the accepted
commands; `invocations` the ledger in the order of creation. `claim` is `runtime.claims[run_id]`.
`leases` are the coroutines that hold a record: `begun` (reserved), `sent` (request on the wire),
`raising` (the node unwinds an exception). `confirmed`, `sent` and `answered` are history
variables and guard nothing.

A *slot* is a durable call site. It belongs to a graph node execution (`NodeOf`) and writes one
kind of record (`KindOf`). The digest of a call's input is an element of `Inputs`. Which
coroutine goes on is left free, so any interleaving of the nodes of a wave, of commands, of a
recovery and of a crash is a behaviour. `Settled`, `MayCreate` and `Matches` are the dedupe rules
of `begin_invocation`; `Recovered` and `Refunds` those of `recover_owner`.

### RunLifecycle

Three places hold a run, and the module keeps them apart: `pg` (PostgreSQL: binding, owner and
epoch, flags, outbox, number of the plan, the decision stored last with the plan it was given for,
one representative external call, graph checkpoint),
`status` and `receipts` (SQLite), and the memory of the process (`claim`, `task`, `handler`,
`delivery`). Three coroutines work on it: the creator, the operation that holds the run's lock
(`handler`), and the task. `pc` says where each of them is; `mode` is the process.

A step is what a coroutine does between two awaits of PostgreSQL; SQLite never suspends. Each
PostgreSQL step has a variant `Lost`, in which the transaction is reported as unavailable and may
or may not have been committed, followed by `GiveUp`, the code's handling of a control error.
`Finally` is the finally clause of the task, `Kill` a `task.cancel()`, `Interrupt` is
`_interrupt_execution`, and `Recover`/`Flush`/`Settle`/`Tombstone` is `reconcile_startup`.

Modelling decisions a reader should know:

* A PostgreSQL transaction and the Python code that runs when its result arrives are one step.
  The row lock orders the transactions; the next one needs several round trips before it can
  commit, while the continuation only has to be scheduled.
* A cancellation that finds no task ends the run in the step of its commit: nothing is awaited in
  between. With a task it waits for the task to unwind (`Await`).
* The graph is abstracted to its checkpoints `none → planning → approval → working → final` and
  to one external call, which is enough to tell a lost, an unknown and a confirmed call apart.
  The edges that leave out the approval are there: a planner that fails goes straight to the
  finalizer (`PlanFails`), and the revision of a report goes from the supervisor to the
  synthesizer, with no planner and no approval although such a run does not approve itself
  (`StartGraph` under `scenario.revision`). A gate may ask for another plan (`Replan`), which is
  put to the user again.
* `PendingApproval` looks a decision up by the checkpoint that waits for it, as
  `accepted_approval_command` does: the decision on an older plan is no decision on the new one.
  The approval node uses up the decision its task was given.
* `refused` records that `_track` turned a new task away because the old one was still waiting
  for the release of its fenced claim. The properties that would be broken by it
  (`NoDeadEnd`, `RunComesToRest`) exclude those behaviours by name, and the case is listed under
  the hazards.
* `Restore` puts an older SQLite file back while the process is down: the only way the code's
  branch "PostgreSQL knows a run that SQLite does not" is reached, other than by a deletion.

### ExternalCall: how a call of Journal shows in RunLifecycle

Journal follows the ledger in detail and leaves the commands free; RunLifecycle follows the commands
in detail and keeps one call, as `pg.call`. The two are not composed (their product is out of TLC's
reach), but they meet in one abstract specification, which both are shown to implement.
`ExternalCall` is the life of one call with its input: `free`, `dispatched`, `unknown`, `settled`, with
the numbers of requests that left, of answers, and of confirmed repetitions.

* In Journal the call is all records of a slot with one input (`Attempts`), the form in which
  `begin_invocation` looks for it. `Standing` is what one record leaves of its call (a confirmed or
  failed one, or an answer that may not be replayed, leaves it free), and the state of the call is
  the one that some record leaves, other than `free`. HTTP attempts use a slot once and are left out.
  The property `CallsPromised` says this of all calls at the same time.
* In RunLifecycle `none` and `acknowledged` are `free`, `answered` is `settled`; `pg.acks` and `sends`
  are the counters.

`pg.owner`/`pg.epoch` is the fence of Journal, an owner being identified with the epoch it was
granted, which `FencingTokensDistinct` justifies. `NoSilentResend` (no more requests than one and the confirmations)
is the counterpart of `RetryConfirmed` across both databases; as there is at most one answer, it
follows from `CallPromised`.

### Workflow and ResearchRun

`node` is the node that is due; a node execution is one step because LangGraph checkpoints its
output as a whole. The exception is the wave: `work` holds a researcher for each ready task, whose
attempts (`AttemptAccepted`, `AttemptPartial`, `AttemptFailed`) interleave until `WaveDone`. `tasks`
is the plan, in an order in which dependencies point backwards (the order `validate_task_dag`
computes); `results` and `failed` are the results and errors of the current version, `supplements`,
`replans`, `revisions` the counters of the loops, `requested`, `fallback`, `fatal` and `warnings`
what the nodes leave for the finalizer, `drafts` and `review` the manuscripts and the last verdict.
What a model decides (plans, supplements, verdicts) is an element of the option of the run or a
free choice; every check the node makes of it is a guard. `Interrupt` is the end of a process in
the middle of a wave: the join loses the results of the branches that were not finished, and the
continued run repeats them.

`ResearchRun` says of a run what the README of the repository says: plans, an approval that only a
user can refuse, work, and one end with one verdict. `RunPromised` in `Workflow` maps nodes to its
stages and versions to its plans.

### ToolStage

One researcher per task of the wave, each in one of: `begin` (gather starts), `loop` (head of the
tool loop), `asked` (the model answers), `batch` and `running` (tool calls, one after the other),
`analyze`, `done`. `reserved` and `log` are shared: the budget and the records of calls. A branch
sees the calls of earlier waves and its own (`Visible`), while the failure circuits see those of
every branch; the difference is the code's, and the budget has to hold in spite of it. `Take` is
every check of a call up to its reservation. Without a journal no await lies between them; with one
the reservation is a transaction, and a circuit that a sibling opens while it is awaited counts as
opened before `Execute`. `GatherFails`, `Leave` and
`AttemptFails` are the ways out of a stage, each with its next attempt or outcome. `Calibrate` is
`calibrate_task_result` with the percentages the thresholds compare.

### ModelGateway and ReportReview

`req` is the request in progress: chats, HTTP attempts of the chat, failures by bucket (reasoning,
truncation, validation) and what was seen of unused answers. `Dropped`, `Refused`, `Unreadable` are
outcomes of an HTTP attempt; `SpoiltAnswer`, `Candidate` and `Text` what an answer is worth;
`Failed` counts it and ends the request at the second failure of a bucket or the last chat.

In ReportReview a node asks, the request runs, and the node takes up its reply (`CriticDecides`,
`CriticFails`, `Written`, `QualityDecides`, ...). A draft has three paragraphs that the rules tell
apart: `S`, the summary and conclusion; `B`, the body; `L`, the declared limitations. An issue has
severity, code, scope, the paragraphs it names or quotes and the task it is about. `Calibrated`,
`Audited` and `Limited` rewrite a verdict in the order of the code (`Merged` drops every weaker issue of a code
where the code replaces the first one; the others that it keeps block nothing more); `WarningPublication`,
`DeliveryReport` and `Plain` are what the finalizer may publish. The requests of planner,
researchers, router and answers run in the same module (`Elsewhere`), because they use the same
gateway with other contracts; what becomes of their values is the matter of the other modules.

### Conversations

`data` are the tables of the conversation (state, active turn, current report, turns), `run` the
status each turn's run shows, `bound` and `recorded` what PostgreSQL knows of it, `live` the runs
with a task, `lock` those whose lock a direct command holds, `route` the routing task of each turn
and `holder` the operation that holds the conversation's lock while it waits. `seen` is what a
client was shown last, with the version it would confirm. The conversation's lock orders its
operations and SQLite never suspends, so an operation is split only where it waits: for the model,
for PostgreSQL, for a task to end.

### Evaluation

`task` is the driver of the experiment (`_execute` with its gathers), `cell` the task of each cell,
`struck` the cells that have a cancellation to take, `attempts` and `stop` the budget in memory,
`status`, `rows`, `ledger` the stored experiment. A step is what lies between two awaits.
Cancellations come from users (`Cancel`), the clock (`Elapse`), the shutdown (`Close`) and a store
that fails; `Unwind` is what the gather does with them and `Finish` the verdict. `option.v2` tells
the two editions apart where they differ.

### KnowledgeSpace

`docs` are the documents (status and current version), `items` the document versions, each with
its ingestion job (`job`, `none` when there is no row), whether its chunks are indexed and with
which configuration their vectors were `made`, `gens` the index generations, `snaps` the saved versions of the space, `builds` its staged builds, and
`space` the three pointers of the space's row. `pc` and `target` say what the worker's loop and
the handler of `POST /documents` are doing; `upload` is a `submit` between its version and its
job; `stale` an update that was computed from a row read earlier.

Transactions that change a document, a job, a build or the space take the row of the space first
(`_lock_space`, `_clear_active_space_version`), so each of them is one action. What lies between
them is not atomic, and the module keeps it apart: claim and processing (`Claim`, `Begin`), the
stages, the index and the completion (`Check`, `Index`, `CompleteJob`), the two writes of the
failure handler (`FailVersion`, `FailJob`), the read and the write of a retry or an archiving
(`ReadForRetry`/`Retry`, `ReadForArchive`/`Archive`), the two writes of a submit (`Upload`,
`AddJob`). `Stop` is the cancellation of the worker by `close`, `Requeue` its handler, `Kill` the
end of the process without one.

`_worker_loop` has no handler around `claim_job`, `process_job` none around its first queries, and
the failure handler none around its own. `QueryFails` is an error of the database in one of them
(in a scenario with `outages`): the worker is `lost` until the process is started again, or the
route answers with an error, and the write that was tried last may have been committed all the same
(`Unreported`). The write of `Requeue` may fail as well.

Modelling decisions:

* `Upload` joins the binding of the first generation, the creation of the document and of its
  version. Two submits at once are not modelled (a bound, listed under the hazards).
* A check that the platform makes and the transaction repeats under the lock appears once. The
  index of the documents of a saved version is checked before the transaction in the code and in
  it here; in between it could only be changed by jobs, of which the transaction finds none.
* The stages before the index write nothing but progress; whatever fails in them (parser,
  embedding, dimension of the vectors) is `Raise`, which may happen at any point of the try block.
* A build of a space without an active saved version saves one first: here that is `SaveVersion`
  followed by `StartBuild`.
* `failed_retryable` is read by the code and written nowhere, so it is left out; so is the job that
  is stored as completed for unchanged content. A purged `source_id` is not submitted again.
  `reindex_document`, notes of versions and the repair of jobs of the time before the index
  identities are not modelled.
* The bounds of an instance, with the commands its users give, are a value (`scenario`) chosen by
  `Init`, so that one run covers several instances.

## 3. The runs

| Run | Instance | Shows |
|---|---|---|
| `journal` | two nodes of a wave: a model stage, a tool decision, HTTP attempts, a tool each; 2 requests, 3 epochs, 4 records, `ToolLimit = 1` | a second attempt of a call only after a known outcome or a confirmation (`RetryConfirmed`); what was sent stays visible (`SentIsVisible`); the budget is exactly the number of charged records (`BudgetExact`) and a sent call is never refunded (`SentToolsCharged`); a cancelled run sends nothing (`CancelStopsSending`); `TypeOK` |
| `run` | four scenarios: approval wanted, 1 replan, 4 commands, 2 crashes or shutdowns; approval wanted, 3 commands, 1 crash, 2 transactions reported as unavailable, 1 failure or older copy of SQLite; no approval, 1 replan, 3 commands, 1 crash; the revision of a report, 3 commands, 1 crash | `ApprovalFirst`: work on a plan, and the end of a run that has one, only with a decision on that very plan; `StatusFollowsTable`: the only move off the transition table is the outcome of the finished graph; `StartupReconciles`: nothing a run leaves behind stops the service from starting; `CallPromised`: its call is one ExternalCall, so that no request is repeated silently; `NoDeadEnd`, `RunComesToRest` while the stores work |
| `workflow` | three configurations: reports first with an ordered supplement, strict with a plan to approve, the rewriting of a report; 2 initial tasks, 1 supplement, 1 replan, 1 revision, 2 attempts, quorum of 50 %, 1 interruption | `VerdictIsEarned`, `ContractsHold`; `EachNodeCounts`: every node uses up part of a bound of the loops, so the graph ends; `RunPromised`: the graph implements ResearchRun, liveness included |
| `tool_stage` | two researchers at the last units of the budget and at a failing page, one with batches of several calls, one whose answers are cut | `BudgetHeld` across branches; `AnsweredBeforeAsk`; `CircuitHolds`; `CompleteIsEarned`; `NotTriedAgain`; `BranchesEnd` |
| `report_review` | 1 HTTP retry, 1 supplement, 1 revision, threshold 60; critiques, drafts and verdicts of every kind that the rules tell apart, one or two varied at a time | `FallbackIsSafe`, `CoreIssueBlocks`, `PublishedAsReviewed`, `SupportKept`, `ReviewEnds` |
| `conversations` | 2 turns, 1 crash, 1 fault of PostgreSQL | `TurnsAgree`, `DeletionConfirmed`, `NoStuckTurn` |
| `evaluation` | 3 cells, 2 at once, 2 requests, 2 cancellations; both editions live, a judged replay, a store that fails once | `EndAccounts`, `BudgetKept`, `ExperimentEnds` |
| `knowledge_safety` | four kinds of scenario: one document with the ingest route, a shutdown or kill, a retry, a commit reported as failed, cancel, purge, save, build; one document with failing queries outside the try block, a shutdown or kill, a retry, the ingest route, purge, save, build; two documents and 4 versions with a build, retry, save, delete; one document, two contents and two specifications with a restart, save, build, activate, archive | `GenerationsAgree`, `JobsEnd`, `PublishedIsComplete`, `SavedStaysReadable`, `ActiveVersionIsLive`, `OldSpaceUntilPublished` |
| `knowledge_live` | one document, 3 versions, save, build, archive; a shutdown or kill, a retry, failing queries outside the try block; no purge, no ingest route | `QueuedIsServed`: a queued job is taken up, unless the worker is lost to such a query |
| `run_failed_completes`, `knowledge_twice`, `knowledge_stopped` | | expected violations, section 6 |

### Bounds, and why they are enough

Journal: two requests suffice for one claim to be fenced by another, three epochs for a claim, a
recovery or cancel, and a second claim; four records hold two nodes with a call each, or a node,
its call, an HTTP attempt and the second try of one of them. One budget unit makes two nodes
compete for the last one. `CallsPromised` is not run there but proved: it counts sets of records
for each call in every step, which TLC does too slowly on two nodes. `MaxInvocations` and
`MaxEpoch` only bound the exploration; the theorems hold for all values.

RunLifecycle: a run needs a creation, an approval, a resume and a cancel or delete to pass
through every status, hence 4 commands; the second crash is one during the startup that follows
the first. One replan makes a second plan, for which the decision on the first must not count. Two PostgreSQL faults allow one at a transaction and one in the handler of its failure
(a recovery that fails too). The numbers of a `scenario` are the only bounds, each a guard of the
action it limits.

Workflow: two tasks are a chain or two independent ones; with a supplement that repairs one of
them and depends on another there are three in the plan. One of each counter lets every loop be
taken once and be refused once, and every pair of loops meet. The theorems hold for all bounds.

ToolStage: two researchers race for a unit or a circuit; a third adds no new view. Each scenario
has one researcher with everything (batches of two, refused calls, every result), or two with
what they share. Two attempts and two turns reach every way out, three calls every stop.

ReportReview: three paragraphs and one task beside the disputed one are all that the rules tell
apart. The product of all answers is out of reach, so an option lets one operation answer
anything and the others a few things; operations affect each other only through the plan, the
last draft and the verdict, which every option varies.

Conversations: two turns are one that is under way and one that replaces, revises or follows it.
Evaluation: two of three cells at once leave one that waits; two requests make them race; a second
cancellation is one that finds the first under way.

KnowledgeSpace: two documents tell a complete manifest from a partial one, two contents a new
version from a repeated one; three versions are a published one, a failed one and its
replacement, four are two documents and their rebuild. Two saved versions are the baseline of a
build and its result, between which a rollback moves; two generations the old index and the new.
One shutdown, one retry and one lost commit are enough to reach every branch that handles them;
the order of three of a kind is not explored. Queries fail without a bound. Commands are split over scenarios because their
product is out of reach: archiving meets no purge, and a second document no restart. The safety
run uses the symmetry of the documents, contents and specifications, which no definition and no
set of scenarios tells apart; it has action properties but no liveness. The other runs use none.

Deadlock checking is off where the system may stop: users owe no command, and a run, a space, an
experiment or a conversation that is at rest, once the bounded commands are used up, really has
nothing more to do. That none stops too early is what the liveness properties and `NoDeadEnd` say.
ToolStage and ReportReview have an explicit end, and TLC checks that they stop nowhere else.

## 4. Fairness

Journal has none: only safety is asked of it. The others assume what their scheduling grants: the
event loop resumes every coroutine whose await is done; PostgreSQL statements, HTTP requests and
tools have timeouts, so an await is always done at some point; `asyncio.Lock` hands itself over in
the order of the waiters; and a supervisor restarts a dead process. Nothing is assumed about users,
crashes, faults, or which answer or result comes.

* `RunLifecycle`: weak fairness of `TaskStep`, `HandlerStep`, `CreatorStep` and `Restart`. Each of
  the three coroutines has its own condition, so one that loops cannot stand in for one that is
  starved.
* `KnowledgeSpace`: weak fairness of the worker (its loop and `process_job`), of the route's
  processing, of the end of a submit, and of the restart after a shutdown. `Raise` is one of the
  worker's steps, so a job may fail for ever but not stand still. `QueryFails` is none of them, no
  query has to fail, and once one has, nothing starts the worker again before the next start of the
  process, which nothing promises: this is the one exemption `QueuedIsServed` makes, by name
  (`lost`). Without it the property is false of the code, see the end of section 6. Retries, publications and
  cancellations are commands of users and owe nothing.
* `Workflow`: weak fairness of the graph's nodes and of the approval if it is automatic. A user may
  leave a plan unanswered for ever; `ResearchRun` promises nothing then.
* `ToolStage`: weak fairness of each researcher. `ReportReview`: of the one coroutine there is.
* `Evaluation`: weak fairness of the driver, of callers that wait for a cancelled task or a
  shutdown, of the restart, and of each cell. `Reserve` is left out of a cell's condition: what
  ends a cell is its result, its timeout or a cancellation, not another request.
* `Conversations`: weak fairness of routing tasks, of operations that hold the lock, of direct
  commands that hold a run's, of a deletion under way, polling and startup; *strong* fairness of
  `Stop` and `CancelDirectly`: `NoStuckTurn` says that a user who keeps trying to end a turn
  succeeds, and it is the one place where the user is assumed to do something.

## 5. What is proved

For every value of the constants; the last column names the property of the runs that the theorem
states.

| Module | Theorem | Property |
|---|---|---|
| `JournalProofs` | `Inductive` | the inductive invariant `IInv` |
| | `TypeCorrect`, `BudgetIsExact`, `SentToolsStayCharged`, `RetriesAreConfirmed`, `SentStaysVisible`, `CancelledRunsStaySilent` | `TypeOK`, `BudgetExact`, `SentToolsCharged`, `RetryConfirmed`, `SentIsVisible`, `CancelStopsSending` |
| | `CallsBehave` | proved only: `CallsPromised`, each call of the ledger is one ExternalCall |
| | `FencingTokensAreDistinct`, `AnswersAreFinal`, `CallsAreCovered` | proved only: no two requests share an epoch; a concluded record stays; of the requests of a call all but the one in flight or unknown were answered or confirmed |
| `LifecycleProofs` | `RequestsAreConfirmed` | proved only: `NoSilentResend`, no request is repeated without a confirmation |
| | `ApprovalsComeFirst` | `ApprovalFirst` |
| | `StatusMovesByTable` | `StatusFollowsTable` |
| | `StartupsReconcile` | `StartupReconciles` |
| | `NoRunIsStranded` | `NoDeadEnd` |
| | `RunImplementsCall` | `CallPromised` |
| `WorkflowProofs` | `VerdictsAreEarned` | `VerdictIsEarned` |
| | `ContractsAreKept` | `ContractsHold` |
| | `MetricsFit` | proved only: with at most 5 tasks of a plan, 2 of a supplement and one replan, the 12 tasks that `ExecutionMetrics` accepts are never exceeded |
| | `RunsAreBounded` | `EachNodeCounts` |
| | `ImplementsRun` | the step half of `RunPromised`: `Spec => Run!Init /\ [][Run!Next]_(Run!vars)` |
| `ToolStageProofs` | `WaveKeepsItsBudget` | `BudgetHeld` |
| | `CallsAreAnswered` | `AnsweredBeforeAsk` |
| | `CircuitsHold` | `CircuitHolds` |
| | `CompletionIsEarned` | `CompleteIsEarned` |
| | `FailedTargetsStayDead` | `NotTriedAgain` |
| | `BranchesAreBounded` | proved only: every step of a researcher uses up a bound of its own, the safety half of `BranchesEnd` |
| `ConversationProofs` | `TablesAndRunsAgree` | `TurnsAgree` |
| | `DeletionsAreConfirmed` | `DeletionConfirmed` |
| `EvaluationProofs` | `RequestsAreCounted`, `CellsAreAccounted` | the two inductive invariants |
| | `BudgetIsKept` | `BudgetKept` |
| | `EndsAreAccounted` | `EndAccounts` |
| `ReviewProofs` | `CompletionIsReviewed` | `CoreIssueBlocks` |
| | `LimitsAreKept` | `PublishedAsReviewed` |
| | `SkippingIsSafe` | `FallbackIsSafe` |
| | `SupportStays` | `SupportKept` |
| | `ReviewIsBounded` | proved only: every step uses up a bound, the safety half of `ReviewEnds` |
| | `DescentEnds` | proved only: of any bounds left, some have none below them, so what uses one up at every step ends |
| `KnowledgeProofs` | `GenerationsAlwaysAgree` | `GenerationsAgree` |
| | `EndedJobsStay` | `JobsEnd` |
| | `PublishedStaysComplete` | `PublishedIsComplete` |
| | `SavedVersionsStayReadable` | `SavedStaysReadable` |
| | `ActiveVersionStaysLive` | `ActiveVersionIsLive` |
| | `OldSpaceStays` | `OldSpaceUntilPublished` |

Assumptions. Each module states what it assumes of its constants, and TLC evaluates it in the runs:
`ToolLimitAssumption`, `BoundsAssumption`, `SlotsAssumption` and `NoRequestAssumption` of Journal;
`ScenarioAssumption` of RunLifecycle; `WorkflowAssumption` (the bounds are naturals, plans and
supplements fit the contracts, and there is at most one round of supplements, which is the range the
workflow's constructor admits); `ReviewAssumption` of ReportReview (answers and drafts are of the
declared form, each kind of request has answers of its own, the bounds of supplements and revisions
and the threshold are naturals, as `config.py` demands); `ToolStageAssumption` (a finite wave, limits above zero, the earlier
calls within the limit of the run); `ConversationsAssumption` (finitely many turns);
`EvaluationAssumption` (finitely many cells); `SpaceAssumption` of KnowledgeSpace (finitely many
documents; scenarios of the declared form). Nothing else is assumed.

The arguments, by module.

**Journal.** `IInv` is the conjunction of the type invariant, the safety invariants and three
strengthenings without which none of them is inductive:

* `LeaseFacts`: what a live coroutine may rely on. Its record exists, is held by nobody else and
  not answered, its claim is not from the future, and *as long as the claim is the current one*
  the record says what the holder wrote last. A fenced coroutine knows nothing of the kind, which
  is why its writes must be refused.
* `HistoryFacts`: ties the history variables to the ledger. A reserved record was never sent and,
  if a tool's, is charged; an acknowledged record was confirmed.
* `cancelRequested => owner = NoRequest`: no valid claim survives a cancellation.

The budget needs the cardinality of the charged records to follow the counter when records are
appended, rewritten and refunded (`BudgetCreate`, `BudgetKept`, `BudgetRecover`, from the
library's finite-set theorems). The actions of a coroutine are reduced to a few shapes first
(`StepShape`: what a step may change), then one lemma per invariant shows that each shape keeps
it. The action property follows from `IInv` and the shapes.

That a call behaves as ExternalCall says needs one more invariant, `CallInv`: of the records of a call
at most one stands for anything but `free`, so the state of the call is the standing of that record,
and what was answered had been sent (`OutcomeFacts`). A step of the journal then either touches no
record of the call (`CallStays`), adds a fresh one, or moves the one that stands (`CallMoves`); a
recovery moves many records at once, but one of each call. `CallsAreCovered` follows from the same
invariant by counting.

**RunLifecycle.** `Sendable`: a call that may be sent now was never sent, or its repetition was
confirmed. `Decided`: an approval brings its decision. Most steps neither move the graph nor
decide nor send; they are shown to be `Plain`, and one lemma shows that a plain step keeps the
invariant.

`StatusFollowsTable` and `StartupReconciles` need the `Story` of a run, in three layers. `Flat` says
where the coroutines can be together (`Operating`, `Placed`), what a run that is not bound cannot
have yet (`Young`), what the status is while somebody works on it (`Following`) and what the steps of
a startup have done so far (`Booting`). `Events` is about the outbox: the outcome of the graph is its
last event, an event of a resume that is still unseen finds a status that it may change, and nobody
who would be surprised by it is at work. That is why an event that is delivered late moves the
status by the table, or is the outcome of a finished graph. Most operations are shown to be `Idle`
for the outbox and to `Show` a status that fits it, and one lemma (`EventsStay`) does the rest.

`ApprovalFirst` alone is not inductive, because a task that was created with a decision starts to
work many steps later, and because a decision may be on another plan. `Informed` adds what closes
this. `Told`: the decision that a resume or a task carries is the stored one on the plan that waits
for it. `Numbered`: while a plan is made, the last decision is the one on the plan before. That no
task moves the graph between the look-up of a decision and the claim of the resume that carries it
is the `Story`: `ApprovalFirst` is proved on top of it.

`NoDeadEnd` needs two more. `Fenced`: no claim that anybody remembers passes the epoch of the row.
`Cared`, as long as the process is up, the stores answer and no task was refused: a task that works
owns the run (`Attended`) and has emitted an end before it delivers one (`Concluded`); where nobody
works somebody is to come (`Expected`); a run that waits or was interrupted has no owner once the
last task has released it, unless it is being resumed (`Answerable`). Answerable alone is not
inductive: it is the release of a *fenced* task, many steps after another claim was made, that must
not clear the owner of that claim.

`CallPromised` needs to know who waits. An answer is written by a task that sent its request many
steps earlier, and nothing but its claim says that the record is still in flight: `OnTheWire` says
that while the claim of a waiting task is valid, the call is dispatched. A recovery, which is what
would make the call unknown under the task's hands, fences it, and only a cancellation can run
beside a task that waits (`CallerAlone`). What the steps do to the call is read off from their
classification as `Plain`, which was sharpened for it.

**Workflow.** `Versions`: the version of a plan counts the replans, so that ResearchRun's plans do
not exceed its bound. `Requests` and `Handover`: what each node that leads to the finalizer has left
for it, which is what the verdict of the finalizer, one step later, is earned by. The refinement
and the invariant are proved together, one lemma per node.

`Fit` is the second invariant. `Shaped`: the plan is one that the validation accepts, and results
and failures are of its tasks. `Sized`: every version and every supplement use up a share of an
`Allowance` of tasks, and a plan that waits for approval leaves room for a full one in its place;
`ContractsHold` and `MetricsFit` follow from it. `Waved`: the gate is reached when no task is ready,
and a wave settles each of its tasks, all of which were pending. `RunsAreBounded` proves that
`Remaining` is a variant: the number of nodes the counters and the plan still allow decreases with
every node, whichever loops meet.

**ToolStage.** `BudgetHeld` is not inductive: a branch compares the budget with what it sees, and it
does not see the calls of its siblings. `Counts` is why that suffices: whoever may reserve sees all
calls in `reserved`, or nobody of this wave has called anything and its own view is the whole log
(a process that was restarted lost its count, not the records). `Balanced` is the bookkeeping of a
batch: as long as the stage does not stop, the calls that are left are exactly those without an
answer.

For the other three, `Knowing` says what a researcher has of the common log: what a stage counts as
proven is proven by calls of its own task in the log, every final failure of the task is among its
dead targets, the call it runs is none of those, and an outcome called complete met its task. A call of a sibling may fail in between, so the limit of a circuit is exceeded, and
`Circuits` says by how much: failures and calls under way together by one for each other researcher,
or nobody of the wave has called the target since it was opened. The proof showed that the property
itself needs the second case: when a wider wave left more failures than this one may add,
nothing of this wave is to blame, and `CircuitHolds` is about targets the wave has called.

That researchers end is a property under fairness, and what can be proved of it is that none goes on
for ever: `Left` lists what an attempt, its place on the way from the stage to the result, the turns,
the answer to a turn, the calls of the answer and the start of a call have left, and
`BranchesAreBounded` says that every step lessens it in the order of `Descent`, in which a bound that
is used up by one may start those inside it anew. A refused or stopped batch, a cut answer and an
empty one all need it: none of them is counted by `turns` again, they end the answer that was counted.
`Within` holds the counters within their limits, so that what is left is always six naturals, and
`DescentEnds` (with the proofs of the review) shows that those cannot descend for ever. What remains
for TLC is ENABLED: that a researcher who is not done can take a step.

**Conversations.** `Agree` relates the tables to the runs, `Working` the runs to their tasks,
`Asking` the requests shown as under way to the tasks that answer them, `Down` and `Gone` say what a
crash and a deletion leave, and `Shown` that the version a client holds is fresh only while the runs
it was shown are all there are. What `finish` and `_sync` do to the tables is stated once, as lemmas
about the operators (`Finished`, `Synced`).

**Evaluation.** `BudgetInv`: what a task sent is counted in its process, and an experiment that lost
its task sends nothing more, which is why the counter may be forgotten with the process. The second
invariant relates rows, cells, task, the reason to stop and who asked for it: who has a row has
ended, who was cancelled by nobody was cancelled by the clock, and a verdict is decided only when
every cell has its row or is given one.

**ReportReview.** What four rewritings in a row make of a verdict is followed through once
(`Accepted`): each keeps the score, coverage and audit can only take an acceptance back, and the one
way to gain one, for a revision that nothing blocking asks for, sees the issues that the others
raised. `Covered` and `Audit` mark what they find with codes that `Scaled` and `NonBlocking` never
waive, which is why no later rule hides it. The invariant is `Requested` (the request belongs to the
node that is due, and its value obeyed the contract against the draft that still is the last one),
`Counted` (each draft is judged before the next), `Closing` (what leads to the finalizer says what
the last verdict was) and `Skipped`; that publications are fair is then shown of each of the three
kinds by itself (`WarningIsFair`, `DeliveryIsFair`).

`SupportKept` is about data: the findings of an analysis without placeholders, and the numbers by
which its references name them. Any finite set of positions can be listed in its order
(`OrderedListing`, by their number: a smallest set for which that failed could not exist, which
`LeastNatural` takes from the well-foundedness of the naturals, so that no induction with an operator
parameter is needed). The findings that are retained are such a listing and a reference moves to the
place of its finding in it (`Moved`), so it names the finding it named (`NormalisedKeeps`). `Backed`
carries this from the request, the value of which is the clean-up of an answer that kept its
contract, to the node that takes it up.

`ReviewIsBounded` does for the review what `BranchesAreBounded` does for a researcher. Its `Left` goes
from supplements over revisions, the nodes up to the end, and the state of a request down to its chats
and HTTP attempts. The outermost needs an argument: a critic that orders a supplement goes back to the
research, and only the contract of its answer, checked a step before, says that one is left
(`Affordable`); between the two nothing may order another.

**KnowledgeSpace.** `Pointing` says that the space, its saved versions and its builds point to
generations that exist, without which a generation that is appended could be mistaken for one of
theirs. `Submitting`: nobody gives a job to a version whose submit is still under way, so the job
that is then created replaces none that ended. What a transaction may do to the versions is stated
once (`Evolves`), with a lemma per kind of update, and each transaction is shown to be one of them;
those that leave the generations alone share the lemma `Settles`.

What readers find is the invariant `Served /\ Working`. A version that is `ready` had its job
completed, is indexed, and its vectors are of its generation's specification (`Ready`); every
version belongs to a document and a generation that exist (`Placed`), and what the live space, the
saved versions and the open build name is among those (`Recorded`, `Prepared`). `Working` is what the
worker may rely on from the check of a job to its completion. `PublishedIsComplete` and
`SavedStaysReadable` are stated, and proved, without the two faults that section 6 and the hazards
show to break them (`Sound`); `ActiveVersionIsLive` and `OldSpaceUntilPublished` are proved with them.

Only model-checked: every liveness property (`RunComesToRest`, `ReviewEnds`, `BranchesEnd`,
`NoStuckTurn`, `ExperimentEnds`, `QueuedIsServed`) and ENABLED, which are out of the proof system's
reach, and with them the liveness half of `RunPromised`. Of three of them the safety half is proved:
`RunsAreBounded`, `ReviewIsBounded` and `BranchesAreBounded` say that no step of the graph, of a review
or of a researcher can be repeated for ever. Every invariant and every action property of
the passing runs is proved. `TypeOK` is a run's invariant in Journal only; the proofs of the other
modules establish the types they need as `Typed`.

## 6. Disagreements between the code and what it says of itself

1. `run_failed_completes` – when SQLite fails while the terminal event is applied, `_fail` marks the
   run failed with its event undelivered; the next startup delivers it and the failed run becomes
   completed, although the table gives a failed run no successor. `StatusFollowsTable`, which
   passes, shows that this and the same move of an interrupted run are the only ones off the table.
2. `knowledge_twice` – `POST /documents` processes the job that `submit` queued without claiming it,
   so the worker may process it at the same time; the import script says of the same situation
   that a job is never processed twice. The one that comes second may fail the version that the
   first one has published and then raise out of the worker's loop: `PublishedIsComplete` and
   `SavedStaysReadable` exclude such behaviours (`Sound`). `JobsEnd` shows that the job's own record
   stays final all the same.
3. `knowledge_stopped` – a shutdown that arrives between the claim and the try block of
   `process_job`, or in its failure handler, leaves the job running, against the comment that a
   normal shutdown must leave it runnable. Nothing takes such a job up again: claims look at
   queued jobs only, and retry, cancel, save, activate and the cancellation of its build refuse it.

Behaviours met on the way that a reader of the models should know, about which no document says
otherwise. Each shows in its module, or as soon as the bound or command in brackets is admitted to
the run that excludes it:

* A job that ran in a killed process stays running for ever, so its build can be neither published
  nor cancelled (`Kill`; `QueuedIsServed` speaks of queued jobs only).
* An error of the database in `claim_job`, in `process_job` before its try block or in its failure
  handler leaves `_worker_loop`, and no queued job is taken up before the process is started again
  (KnowledgeSpace: `QueryFails`; `knowledge_live` without the exemption for a lost worker).
* A purge deletes the job that is being processed; the failure handler then raises and ends the
  worker's loop, which nothing starts again before the next start of the process
  (`knowledge_live` with `purge`).
* When the commit of a completion is reported as failed although it took place, the failure
  handler fails the published version.
* After an older saved version is activated, documents it does not know are archived but stay
  outside its manifest, and every build is refused with "space changed while preparing its build;
  retry" until somebody saves a version.
* If PostgreSQL is unavailable at a dispatch and at the recovery in `_interrupt_execution`, and back
  when the finally clause releases the claim, a resume is granted before the call was reconciled.
  `CallPromised` passes all the same: the journal refuses to repeat a dispatched call, so the
  resumed run is interrupted again instead of paying twice.
* `_track` turns a new task away while the old one waits for the release of its fenced claim; the
  resumed run is then shown as running and nobody works on it (`refused` of RunLifecycle).
* The startup fails a reserved run that was never bound, where a comment in `cancel` speaks of
  marking it interrupted.
* A supplement that depends on a task nobody plans passes the contract of the critic and fails the
  run in `with_supplement` (ReportReview: `CriticDecides`).
* With reports first, an HTTP error of the provider leads to a limited report and a lost connection
  fails the run, because it is no provider error (ReportReview: `FatalUpdate`).
* An experiment of the first edition that was running when the process died stays active, or is
  cancelled with cells that have no row (Evaluation: `Recover`, `EndAccounts`).
* When the store fails in the record of one cell, the gather returns while others are at work;
  they may record rows that the end of the experiment has already filled in.
* A tool that failed as often as its cap stops the stage, but the calls left in the batch, to the
  same tool too, are executed first (ToolStage: `Complete`).

## 7. Not modelled

* **Tools, ingestion, retrieval** – adapters of external services and parsers are requests and text
  without state of their own; ranking and chunking are numeric functions. What they return is a
  free choice in the modules that call them.
* **Observability, frontend, scripts, migrations, data** – nothing in the behaviour of the service
  depends on them.
* **Event streams** – SSE pages over a table that only grows and keeps no state between requests.
* **Of the workflow** – prompts, evidence ranking and packing, wording of reports and warnings.
* **Of the gateway** – token limits, reasoning effort and the choice of models: they change what a
  provider is likely to answer, and it may answer anything here.
* **Of conversations** – the memory of requirements, titles, listings. Conversations share nothing
  but the stores, so one is modelled.
* **Of the knowledge platform** – `reindex_document`, notes, repairs of old rows, concurrent submits
  (listed under the hazards); the in-memory repository is a single-process double of the other.
* **Of evaluation** – datasets, metrics, scores, comparisons: functions of the rows.
* **Of the run service** – `rerun` is a creation; analytics, listings and traces are reads.

Not composed: a run's journal with its commands (the product is out of TLC's reach; the two meet in
ExternalCall and the epochs), and the researchers' tool stages with the graph (Workflow takes every
outcome that ToolStage can produce, and more).
