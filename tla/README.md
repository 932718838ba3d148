# Models and proofs for pms-ai-selection

This directory holds TLA+ models of the parts of the selection system where several processes
or requests share state, the TLC configurations that check them on small instances, and
proofs, checked by TLAPS, of their most important properties for every instance.

The models are written from the code under `src/src`; `PROJECT.json` says for every definition
which lines it stands for, for every property which change of the code would break it, and
lists the hazards the properties are for. Paths below are relative to `src/src` unless they
start with `scripts/` or `tests/`.

To check a module, `tlc -config SelectionTaskRaces.cfg MCSelectionTask.tla`; to prove one,
`tlapm OutboxProofs.tla`.

## 1. The system

A FastAPI service (`api/v1/endpoints`), a set of worker processes (`workers`), PostgreSQL,
Kafka and Redis. An operator creates a *selection task*; a worker executes it by running a
graph of agents over market data and language models; the result contains recommendations,
which people approve and an ERP system carries out, sending feedback over Kafka. Changes of
local data leave through an outbox to the same Kafka.

| Component | State | Operations | Shares with | What is hard |
|---|---|---|---|---|
| Selection task execution (`services/selection_service.py`, `repositories/selection_repository.py`, `workers/selection_worker.py`, `workers/celery_selection_tasks.py`, `workers/celery_tasks.py`) | table `selection_tasks`: status, JSONB config; identity map of every session; claimed batch of a worker; messages of two Celery applications | create, poll and claim, execute, retry, cancel, pause, resume, requeue, direct dispatch, submit | workers, Celery, the API and the approval write the same rows | overlapping claims, stale sessions, crashes after the claim's commit, retries, redelivery |
| Agents and orchestration graph (`agents/langgraph_compatible.py`, `agents/selection_master.py`) | snapshots and costs in dictionaries of the class | invoke, step, resume, terminate, pause, roll back | requests of one process; an execution runs a compiled graph | requests that wait for an agent on the same snapshot |
| Recommendation pool (`services/recommendation_pool_service.py`, `ads_optimization_service.py`, `fba_restock_service.py`, `models/enums.py`) | execution_state of a recommendation, status of its suggestion | create, approve, reject, push, advance, feedback | API requests and the ERP feedback worker | test and write without a version, events before the commit, row locks in two tables |
| ERP feedback (`workers/erp_feedback_worker.py`, `services/erp_feedback_consumer.py`) | consumer offsets, batch | consume, handle, dead-letter | advances the pool | lost batches, feedback out of order or twice |
| Data-sync outbox (`services/data_sync_service.py`, `repositories/data_sync_repository.py`, `api/v1/endpoints/integration.py`, `scripts/replay_dlq.py`) | table `data_sync_events`: status, retry_count; flushed and uncommitted marks; fallback list of `infrastructure/kafka.py` | publish, dispatch, replay | requests overlap on rows; messages leave before the commit | duplicates, lost marks, row-lock deadlocks, stale copies, broker away |
| Agent message bus (`agents/message_protocol.py`, `services/agent_platform_service.py`) | history, counter and inboxes of each process; one file | send, receive, register, query, replay | processes append to the same file | offsets given twice or supplied by a client, torn lines, restarts, paging |
| Configuration centre (`services/config_center_service.py`, `services/prompt_policy_service.py`) | current entry and history of a key; memory of each process | publish, roll back, bundle of a script | API requests of several processes | read-modify-write of the history, silent failures |
| Tenant quota (`repositories/tenant_quota_repository.py`, `api/v1/endpoints/llm.py`, `services/service_gateway.py`) | limit and used value of a tenant | check, create, upgrade, consume around a call of a model | every request to a model, in two instances | check before use, stale copy, a check that fails, fallback beside a late or lost answer |
| Suggestion lifecycle (`core/pms_governance.py`, `services/suggestion_service.py`) | a dictionary of lifecycles in the service object | create, score, submit, sync | nothing | the state ends with the request |
| Approval and adoption (`services/selection_service.py`) | JSONB config of the task | approve, reject, adopt | the execution writes the same column | updates that are not written |
| Workflow engine, human in the loop (`core/workflow.py`, `agents/human_in_loop.py`) | status of a run; pending requests | run, cancel; approve, reject, expire | constructed by tests only | - |
| LLM gateway (`infrastructure/llm_gateway.py`) | circuit breaker of a node | route, record | made anew by every request | - |

The properties that make these correct: no task is executed by two processes at once, every task
reaches an end, an operator's decision is not undone, a retry is bounded (selection task); the
results, log and costs of a workflow agree, its nodes run in order and its gates hold (graph); a
final state of a recommendation stays, an event that is not true has a cause, the ERP's states rest on
an approval (pool); feedback is applied once or its loss has a cause (feedback); an event that is marked sent has
left, nothing is sent twice without a cause, nothing is given up early, every request ends (outbox);
offsets and histories are complete over restarts (bus); versions count up and a publication that was
answered is kept (configuration); the quota's table is between what must and what can be in it, and a
refusal is justified (quota). `PROJECT.json` lists the remaining components, among them retrieval,
crawlers, reports, ERP clients, the frontend and deployment, with the reason why they have no model.

## 2. Modules

| Module | Models | Role |
|---|---|---|
| `SelectionTask` | the rows of `selection_tasks` and everything that writes their status | component |
| `TaskQueue` | what the workers promise: a task is taken by one process, and by nobody else until it is given up | abstract specification |
| `SelectionTaskProofs` | theorems about the first, and that it implements the second | proofs |
| `TaskQueueProofs` | a theorem about the second | proofs |
| `Outbox` | the rows of `data_sync_events`, the requests that send and mark them, the messages | component |
| `EventDelivery` | what the outbox promises: a message goes out once while its event is open, and a status says only what has happened | abstract specification |
| `OutboxProofs` | theorems about the outbox, and that it implements `EventDelivery` | proofs |
| `RecommendationPool` | recommendations, their suggestions and the sessions that change them | component |
| `ErpFeedback` | the worker and its topics, over the actions of `RecommendationPool` | composition |
| `RecommendationLifecycle` | what the pool promises: its state table, after an approval and a submission | abstract specification |
| `RecommendationPoolProofs` | theorems about the pool and about the worker over it, and that both implement `RecommendationLifecycle` | proofs |
| `MessageBus` | the buses of several processes over one file | component |
| `Mailbox` | what the inboxes promise: each message once, to whom it is for, those that the bus numbered in order | abstract specification |
| `MessageBusProofs` | theorems about the bus, and that it implements `Mailbox` | proofs |
| `ConfigCenter` | the row of a key, the memories and the sessions | component |
| `ConfigCenterProofs` | theorems about it | proofs |
| `LlmQuota` | the quota row and the handlers that call a model | component |
| `LlmQuotaProofs` | theorems about it | proofs |
| `AgentWorkflow` | snapshots and the requests that run them | component |
| `AgentWorkflowProofs` | theorems about it | proofs |
| `MC...` | symmetry, views and small values for TLC | instances |

The components share no state except as named: `ErpFeedback` extends the pool and runs its
sessions as actions of its own next-state relation. An execution of `SelectionTask` runs a compiled
graph of `AgentWorkflow` and sees only whether it returned, raised or was late; the time limit of
the execution is `Break` there. `SelectionTask` and `Outbox` share nothing: an execution publishes
no domain event.

### 2.1 SelectionTask

State. `status` is the committed column; `lock` the FOR UPDATE locks of an open poll. `pc`,
`scan`, `room`, `allowance`, `tenant` and `queue` are the local variables of
`poll_and_run_once`; `cur` and `snap` the task of an execution and the copy of its status in
the session. `req` holds open operator requests with the status they read, `inbox` the tasks
handed to Celery or a background task at creation, `submitted` the messages of the second Celery
application and `unacked` the one that a runner has not acknowledged. `forced` and `stranded` are
history: they record which tasks were requeued, dispatched or submitted past the claim, and which
a crash dropped or an operator resumed. No guard reads them.

Atomicity. One action is one stretch between two points where another process can see or
change the database: reading a row, one flush with its commit, one SELECT ... FOR UPDATE. A
request is two actions (read and check; write and commit). The workflow between
`Start` and `Complete` is where other processes interleave.

The session is modelled as the code configures it: `expire_on_commit=False`
(`infrastructure/database.py:408`), so the second `get_task` of an execution returns its own copy,
and an UPDATE names only columns that differ from that copy (`Write`). The JSONB `config` is
mutated in place and assigned back, which the unit of work does not see as a change, so
`StoredRetryCount` is 0. Which rows a claim picks is left open (priority and creation time decide
it in the code); results, prompts and the agents are an outcome: returned, raised or timed out.

| Action | Code |
|---|---|
| `CreateTask`, `Deliver` | `create_task`, `run_selection_task` of `infrastructure/celery_app.py`, or a background task |
| `Submit`, `DeliverLate`, `Retried`, `Redelivered` | `POST /celery/submit` and the hourly beat, `workers/celery_tasks.py` |
| `Poll`, `CountRunning`, `Claim`, `CommitClaims` | `poll_and_run_once` over `count_running_tasks_by_tenant` and `claim_pending_tasks` |
| `Load`, `Start`, `Complete`, `Fail`, `FailToStart`, `Die` | `execute_task` with its except branch |
| `OpenRequest`, `CommitRequest` | `cancel_task`, `pause_task`, `resume_task`, `requeue_dead_letter_task` |
| `Crash` | a killed process that is started again |

There are two Celery applications. The one of `infrastructure/celery_app.py` takes a task when it is
created and acknowledges before it runs, so a kill loses it. The one of
`workers/celery_app.py` takes any existing task, acknowledges late, has `reject_on_worker_lost`
and three retries when `execute_task` raises: a kill or an exception delivers the same task
again. The documented start (`--pool=solo`) does not enforce Celery's time limits, and the visibility
timeout of the broker is not modelled beyond the redelivery after a kill.

### 2.2 TaskQueue

Three variables: the tasks that are `waiting`, the `owner` of each task, and the tasks `outside`
the queue, of which it promises nothing any more. `SelectionTask` implements it under the mapping
*waiting = PENDING rows, owner = the process that holds the task, outside = `forced`*. A direct
dispatch, a submission that is delivered and a requeue of a task that a process has are a
`Bypass`: the code hands the task out without a claim or puts it back while it runs, so it can be executed twice. A
requeue of a task that nobody has is an `Enqueue` like a creation. A task can get outside only in these
steps; every other task has one owner at a time, whatever else happens.

### 2.3 Outbox

State. `row` is what is committed of an event; `lock` and `mine` the row locks and flushed
changes of open transactions; `seen` the session's copies. `todo`, `cur`, `ok` and `target` are the
locals of `dispatch_pending_events` and `replay_dead_letter`. `broker` and `memory` are where
messages are. `born` orders events by `created_at`. `refusals`, `sends` and `excused` are
history.

A request is one transaction: it lists open rows without locking them, sends a message, then
flushes the mark, which locks the row until the commit at the end (`Reset`, `List`, `Send`,
`Mark`, `Commit`). `Send` has all the outcomes of `send_message`: the broker has the message;
the process's fallback list has it, and the answer is True all the same; both, when the broker
answers after the timeout; or an exception. `Abort` is the database ending a deadlock,
`Crash` a kill of the API process, `CloseScript` the replay script, which closes its session
without a commit.

Payloads, CDC envelopes, catalogues and the tenant filter are not modelled. `Publish` is
enabled once per event key, because a second publication under the same key changes nothing.

`EventDelivery` is what the table and the topics show of this, without requests, sessions and
locks: the committed `status` of an event, how often its message has `left`, how often a send of it
has `failed`, and which events are `released`, that is, may go out again. The mapping takes the first from
`row`, the next two from the history `sends` and `refusals`, the last from `excused`. There
an event goes out once, while its status is open, a commit gives a status only if it was earned
(`Earned`: "sent" by a message that left, "dead_letter" by more than `MaxRetries` failures), and sent
and given up are final; released events are excepted from the first and the last, but from no
`Earned`.

### 2.4 RecommendationPool

State. `row` is the committed row of a recommendation, `status` that of its ADS or FBA
suggestion, `sess` what each session is doing: its copy of the row, what it has flushed, at which
await it is. `calls` counts what the ERP was sent, `told` is the last event on the topic, `adrift`
one whose send has timed out. `untrue`, `approved` and `raced` are history.

A request is a session: it reads with a plain SELECT (`Read`, `Call`, `Answer`), tests
the transition on its copy and flushes the changed columns, which takes the row lock and publishes
the event (`Write`, `Repeat`, `Unwritten`, `Ignore`), and commits or rolls back (`Commit`,
`Rollback`). A push calls the client first, then locks the suggestion (`Mark`), then
the recommendation; an answer takes the same order. A push does not test that anybody approved: the
state table refuses the move and nobody reads the answer.

An event may not reach its topic (`Publish`): `_publish_event` swallows what a send raises, and
`send_message` keeps in the memory of its process what it cannot send, also after its time limit,
when the producer may still deliver the event, after those of later requests (`Arrive`).
`ToldIsTrue` speaks of the rows whose last event reached the topic in time, was not followed by a
rollback and did not name a move that the state table refuses. The next event that arrives in time
resets `untrue`, so a failed send excuses its recommendation until then only.

A failure that is reported is put into the dictionary that was read, so its detail is stored only
if the column was empty (`Explained`). Payload, `erp_ref_id` and `submitted_at` are
abstract. `AdsDomainService.receive_ads_feedback` and its FBA twin have no caller; the
answers in the model are those of the services the endpoints use. The choice between primary and
replica (`RoutingSession`) is not modelled (section 6).

`RecommendationLifecycle` is what a reader of the table sees: the `state` of each
recommendation, whether the ERP was sent its suggestion (`submitted`), whether somebody
`approved` it, and whether a request wrote over a row newer than its copy (`contested`, which the
mapping takes from `raced`). `Move` is a commit: it follows the state table and leads behind an
approval or a submission only where there was one; a contested recommendation is excused from the
table, but from neither of the two, and can still not be a proposal again.

### 2.5 ErpFeedback

Extends the pool with the ERP (`Report`: it only reports what it was sent), its messages (`sent`) and
their topics, one per outcome (`topic`), and the worker, whose session is one of `Sessions`. The worker starts at the end of the
topics (`Start`), collects `BatchSize` messages (`Collect`), handles them one after the other
(`NextMessage`, `Handle` or `Refuse`, `Finish`, `Fail`), while a clock commits its offsets
(`AutoCommit`). A failing poll drops the collected batch (`PollFails`), `Kill` ends the
process. `Http` are the actions of the pool for all other sessions.

`fate` says what became of a message that moved nothing. One whose transition the table refuses is
answered "processed": it is neither repeated nor sent to the dead-letter topic (*refused*). Only an
exception other than ValueError sends a message there (*dead*). `_send_to_dlq` swallows a send that
fails, and `send_message` may keep the letter in the memory of the worker: then the message is nowhere
(*dropped*), a cause that `LossHasACause` names beside a kill and a failing poll.

### 2.6 MessageBus

Each process has a `history`, a counter `last` and inboxes, and appends what it accepts to
the one `file` of its tenant, which it reads only when it starts (`Load`). A line that broke
off ends the loading, and the next line is written to its end (`Appended`, `unended`); a file that
cannot be read is treated as an empty one. `send` counts on with every message, but an offset that
the client has put into the metadata is kept (`setdefault`), so that it may be the number of another
message or one below a client's cursor (`ClientOffsets`, `given`).
`Replay` answers the newest `limit` messages after the cursor and the largest of their offsets,
so that a client that pages on passes over the older ones; `PassedOverHasACause` says
that this, a full history, a supplied offset, a foreign process or a damaged or unread file are the
only ways to miss one. `SameOffsetHasACause` and the order of receipt in `Mailbox` are about the
messages that the bus numbered: what clients supply must not disturb those.
`send`, `receive` and `replay` have no await: one action each. An inbox is the set of its messages:
`receive` sorts by offset and then by time stamp and id, so which of two equal offsets comes
first is left open (`Firsts`, `Lasts`). `receive` and the registrations
are modelled though nothing in the repository calls them.

`Mailbox` is the bus without offsets, histories, the file and the processes, but for the name of
the one that accepted a message and whether it numbered it: what was `posted`, what is `waiting` for
each receiver, what it has `taken`, what was `lost`. The mapping collects what waits in the inboxes of
all processes. A step posts a message to its addressees, takes a batch that leaves no earlier message
of the same process and kind behind (of those that were numbered), or loses what waited.

### 2.7 ConfigCenter

A session loads the payload of a key (`Select`), changes it (`Change`: publish or roll back,
which also writes the memory of the process), reads the row again (`SelectAgain`), flushes
(`Flush`) and commits. Every failing statement is swallowed: a read is answered from
memory, a store rolls the session back and the request succeeds (`GiveUp`); `loud` says
which endpoints report a failed commit. A script publishes a bundle of keys in one
session. `prompt_policy_service.py` stores prompts, route policies and registries in the same way.

### 2.8 LlmQuota

A handler checks (`Check`, `Insert`, `Upgrade`), calls the model (`Call`), adds the cost to the
copy of the row that the check read (`Consume`), commits and answers (`Commit`, `Answer`). The first
request of a tenant holds the key lock of the row it inserts, and an upgrading one the row lock,
during the call. A check that fails lets the call through (`Unchecked`). What becomes of its cost
depends on the session: after a statement that failed on the server it is of no more use
(`poisoned`) and the cost is lost; when there was no connection for the statement it is as good as new, and
`consume_quota` reads the row itself and adds the cost, whatever the limit. `waved` sums up what was
committed in this way, and `UsedNearLimit` allows for it.

`route_llm` makes a second attempt in its process after any exception but ValueError
(`Again`), also after one that follows its own commit. The instances of the clients in `RemoteMode`
first ask another instance, and fall back at any exception: the remote handler may have failed or
refused, may be at work still, or may have charged the request and its answer be late, lost or
not understood (`RemoteGivenUp`). `lost` counts, for each client, the answers that were lost after a
commit and the remote instances that were given up without having failed or refused:
`ChargedTwiceHasACause` allows one more charge for each, and no others. Nothing applies
`reset_period`, and a row is never inactive.

### 2.9 AgentWorkflow

`snap` is SNAPSHOT_STORE with the entry of COST_STORE, `req` what a request is waiting for. The dictionaries
are of the class, in memory: all requests of a process change the same objects, a
restart forgets them. `Invoke` without breakpoints runs the graph *compiled*, with its gates: a low
score of the market aborts, a low score of the plan has it made again and ends the workflow the
second time. Every other run goes *from the snapshot* (`Step`, `Resume`): it takes `next_node`,
waits for the agent and then writes result, log, cost and `next_node` of its own node, whatever
became of the snapshot meanwhile. It has no gates, though `build_state_graph` publishes them as
edges, stops before a node that is a breakpoint, and pays no regard to the status: a completed
or terminated workflow runs again. `Rollback` takes any node, reached or not. A node is
its number in NODE_SEQUENCE, an agent's answer `passed` or `low`, and its cost one unit; an agent
that fails has no score and so passes its gate. `Break` is an exception or the time limit of
`execute_task`. `pause` has no caller in the repository.

## 3. What the runs check

| Run | Question | Bounds | Distinct states |
|---|---|---|---|
| `SelectionTaskRaces` | Can polls, failures, a crash, requests, direct dispatch and submissions put a task in two hands, leave a row RUNNING that nobody will write, or undo a cancellation the execution had seen, and do the workers implement `TaskQueue` for the tasks that kept to the claim? | 2 tasks, 2 workers, 1 runner, 1 request or submission, 1 failure, 1 crash, no retries | 2 508 390 |
| `SelectionTaskLiveness` | Is every waiting task completed, failed or cancelled in the end, and does each worker keep to its share of a tenant? | 3 tasks of 2 tenants, 2 workers, 1 cancellation, 1 failure | 441 378 |
| `OutboxRaces` | Overlapping requests, refused sends, deadlocks and a kill: is an event marked sent that never left, sent twice without a cause, or given up early, do the requests implement `EventDelivery`, and does each end? | 2 events, a request over HTTP beside the script, 3 requests, 2 refusals of each event, 1 kill | 186 690 |
| `RecommendationPoolRaces` | Do the columns, the suggestion, the events and the ERP agree on a recommendation, do its states follow `RecommendationLifecycle`, can requests wait for each other for ever? | 1 recommendation, 2 sessions, 4 reports of the ERP, 2 submissions, events of an approval that fail or come late | 1 686 061 |
| `ErpFeedback` | When is a message lost, when applied twice, and is a full batch worked off? | 1 recommendation, the worker and a request, 2 reports, 2 messages, batches of 2, 2 submissions | 404 623 |
| `MessageBus` | Which messages share an offset, which does a paging client miss, what does a restarted process remember, do the inboxes implement `Mailbox`? | 2 processes, 1 receiver, 3 messages, 1 of them with an offset of the client's, histories of 2, pages of 1, 2 failing appends or reads, 1 kill | 1 535 143 |
| `ConfigCenter` | Do versions count up, and is an answered publication kept? | 2 keys and a bundle of both, 2 processes, 2 sessions, history of 1, 3 publications, 4 requests, 1 failure, 1 kill | 3 383 227 |
| `LlmQuota` | How far can the table be from what the model has cost, when is a request charged twice or refused? | 2 clients, one of which asks a remote instance first, answers of cost 0 to 2, 2 failures | 4 082 282 |
| `AgentWorkflow` | Do results, log and costs agree, do the nodes run in order, do the gates hold? | 1 snapshot, 3 requests, 4 calls, the default breakpoints with and without one of the user | 734 263 |

These runs pass. The bounds are the smallest at which every case of the properties occurs. Two
processes, sessions or clients are needed for a race and the code treats them alike, so a third
only repeats what a second does; `AgentWorkflow` has three requests for a rollback of what two
others run. Two tasks let a worker hold a batch while another claims the rest, three
tasks of two tenants let a tenant fill a batch while the other waits. In `Outbox` two events are
the least that can be locked in opposite orders, and two refusals of an event exceed the one
retry of the run. In `ErpFeedback` a batch of two is the least that can be lost half-way. In
`MessageBus` a history of two forgets the first of three messages and a page of one passes over
one; the supplied offset 2 is one that the bus gives itself, before or after. In `ConfigCenter` a
history of one is full at the third publication. In `LlmQuota` the limit of one dollar is three
units, so that one or two answers exceed it, and a legacy row is told from a new one. Recommendations, suggestions, snapshots and tenants are rows of their own that no action
relates, hence one of each.

In `RecommendationPoolRaces` the events that can fail or come late are those of an approval, which
those of a push follow (`Unreliable`); the proofs are for any set of events.
Two runs have a VIEW, which merges states that differ only in what no action reads and no checked
property speaks of any more: what the last event named when nothing is claimed of it (`told` of the
pool), and what was received, lost or cut, and by whom, when that can change no verdict
(`MessageBus`). Each is justified beside its definition, and the theorems of section 4 do not depend
on it.

Every action of every module is taken in some passing run. Deadlock checking is on for
`RecommendationPoolRaces` and `ErpFeedback`; it is off where the system rests when all tasks are
settled or the bounds are used up.

Three runs show where the code does not do what a message, a setting or a docstring
of the repository says. Each checks one property and is expected to violate it:

| Run | The repository says | The code does |
|---|---|---|
| `SelectionTaskCancelLost` | a cancelled task is not written back as completed | the test for CANCELLED looks at the session's old copy, so COMPLETED (or PENDING) overwrites the cancellation |
| `SelectionTaskEndlessRetry` | `max_retries` bounds the attempts | the count is never stored, a failing task is retried for ever |
| `OutboxBrokerDown` | `published_at` is the time of the successful publication | a message in the fallback list counts as published |

The passing properties except what the code does allow. An exception is a way in which the code
falls short of what one would wish, and the property says that there is no other:

| Property | Excepted |
|---|---|
| `WorkerShare` | it holds for each worker, so the workers together may exceed `tenant_max_parallelism` |
| `RunningIsAccountedFor` | a task whose executor was killed, or that was resumed, is RUNNING and nobody executes it (`stranded`) |
| `ExclusiveExecution`, `ImplementsTaskQueue` | a task that was dispatched, submitted or requeued past the claim (`forced`) |
| `ResendHasACause` | requests that overlap, a lost mark, and a replay, which dispatches the oldest open event and so perhaps another one |
| `ToldIsTrue` | an event that was not sent or came late, one before a rollback, one that names a refused move (`untrue`) |
| `ColumnsAgree`, `ImplementsLifecycle` | a row that was written over from an older copy (`raced`) |
| `LossHasACause` | a kill, a failing poll, a dead letter that is not sent; a refused feedback is answered "processed" |
| `AppliedTwiceHasACause` | a restart or a failing poll after which the recommendation was submitted again or written over |
| `FullBatchIsHandled` | a batch that is not full |
| `SameOffsetHasACause`, `PassedOverHasACause`, `HistoryIsComplete` | offsets that clients supply, processes that number messages alike (`Unaware`), files that are damaged or were not read, full histories and pages |
| `VersionsCount` | it is about the chain in one payload: two overlapping publications may be answered with one number |
| `PublishedIsKept` | a publication is lost to an overlapping one or with a failing store (`excused`) |
| `UsedIsBetween`, `UsedNearLimit` | costs that overlapping sessions lose, calls whose check had failed (`waved`) |
| `ChargedTwiceHasACause` | answers that are late or lost (`lost`) |
| `ResultsInOrder`, `GatesHold` | snapshots that a rollback disturbed; steps and resumes heed no gate (`stepped`) |

### Fairness

`SelectionTask!FairSpec` assumes weak fairness of the poll loop (`run_forever` polls at an
interval as long as the process lives), of an execution (`asyncio.wait_for` ends every workflow;
`ExecutionStep` is one formula per process, since an execution whose workflow neither returns nor
fails cannot exist), of the delivery to an idle runner, and of an open request's commit. Crashes,
requests, submissions and the creation of tasks are never owed. The liveness run has no crash, pause or
resume, because after them a row does stay RUNNING or PAUSED (`stranded`). The bound on failures
matters there: with unbounded failures the endless retry is a counterexample of its own.

`Outbox!FairSpec` assumes weak fairness of an open request only: sends time out, a lock is
released when its transaction ends, the database detects deadlocks. Nothing in the repository
schedules a dispatch, so no dispatch is owed, and "every open event is sent in the end" is not
claimed.

`ErpFeedback!FairFeedbackSpec` assumes strong fairness of a step of the worker and of an open request, since each may wait for
a row lock that others take and leave (PostgreSQL queues the waiting). No message of
the ERP is owed, so nothing is claimed of a batch that is not full: the last messages before a
quiet period wait without a bound.

`SomeoneGoesOn` of the pool is an invariant: no fairness is needed to say that two requests do not
wait for each other. The other modules state safety only; their requests are straight-line code that
ends by itself.

## 4. What is proved

The theorems hold for any set of tasks, events, recommendations or snapshots, any tenants, workers,
runners, sessions, processes, requests and scripts, and any values of the settings and bounds that
satisfy the named assumptions of the module: the process sets are disjoint, the special values are
not members of them, numbers are numbers. The bounds on failures, requests and crashes are
parameters of the theorems, so the results are for every bound. Three assumptions say more:

- `QuotaAssumption` has the default limit within the bound by which an old row is told
  (`DefaultLimit <= LegacyMax`; 100 and 1000 in the code): with a larger one a row of before the
  scale would pass for a new one.
- `PoolAssumption` has the ERP report states of the ERP only: the values of STATE_MAPPING are such.
  (`receive_erp_feedback` over HTTP takes any name of the enumeration, also one of a PMS state.)
- `BusAssumption` has room for at least one message in a history and on a page (10 000 and 1 to
  500 in the code).

`SelectionTaskProofs`
- `TypeCorrect`: `Spec => []TypeOK`. Not only a matter of form: that `room` stays a natural number
  says a poll never claims more rows than its batch has room for, whatever happens between the
  count and the claim.
- `Exclusion`: `Spec => []ExclusiveExecution`. The property is not inductive by itself. The invariant
  `Hands` adds what it rests on: `WaitingIsFree`, a task that is absent or PENDING is in nobody's
  hands unless it is `forced`, so that a claim takes only what nobody holds; `LockedIsPending`, only
  an open poll locks rows, and the rows are PENDING until its commit; `PhaseInv`, the
  place of a process in its loop says what it can hold; `SnapInv`, the copy of an execution
  is what its own writes made it, so that it puts a task back only as it lets go of it.
- `Accounted`: `Spec => []RunningIsAccountedFor`, from the part `RunningIsKept` of the same invariant: a
  RUNNING row that is not `stranded` is held by a process whose copy will make it write the row,
  which is more than holding it, or a message that names it waits to be delivered again.
- `CancelUndone`: the action property `CancelUndoneOnlyByStaleSession`, action by action from the
  invariant.

- `ShareBounded`: `Spec => []WorkerShare`. The invariant adds to it what a poll knows of its own
  locks: it has nothing of a tenant it has not come to yet (`ScanInv`), nor of the one it is about to claim for,
  whose allowance is within the limit and which it will not come to again (`ClaimInv`). That an
  idle worker has nothing comes from `PhaseInv` and `LockedIsPending`. Every step but the three of
  a poll takes nothing and leaves the polls of the others alone (`Lessens`).
- `Refinement`: `Spec => ImplementsTaskQueue`, with no hypothesis on requests, runners or settings. The
  inductive invariant above puts every task that is not `forced` in at most one hand, and the owner the
  mapping chooses is that one (`OwnersOwn`). Each action is then a step of the queue or a
  stutter, by what it does to the hands and to the PENDING rows (`StepMoved`, one lemma for each
  kind of action): a commit of claims is a `Take` of what it claimed inside the queue, a failed
  execution a `GiveBack`, any other end and a crash a `LetGo`, a creation or a requeue of a task
  nobody has an `Enqueue` (`WaitingIsFree` says that the created one has no owner), a cancelled PENDING
  row a `Withdraw`. A delivery and a requeue of a held task are a `Bypass`
  (`BypassMoved`), and only they are: every other action leaves `outside` alone. The run
  `SelectionTaskRaces` checks it with a runner, a crash and every kind of request; there an execution is not
  retried, so that a `GiveBack` is covered by the theorem only.
- `NothingOutside`: where `Runners = {}` and `"requeue" \notin Operations`, `forced` stays empty, so that
  there `Refinement` speaks of every task. Cancel, pause, resume, failures and crashes alone never break the claim.

`TaskQueueProofs`
- `Handover`: in `TaskQueue` a task is nobody's between two owners; the invariant
  `WaitingHasNoOwner` carries it.

`OutboxProofs`
- `TypeCorrect`, `SentProof` (`SentHasLeft`, which the run checks as a part of the refinement below),
  `ResendProof` (`ResendHasACause`), `GivenUpProof` (`GivenUpAfterRetries`).
- The invariant has four named parts beside `TypeOK`. `Shape`: where a request is determines what
  its locals hold and that only its own rows have flushed marks. `Left`: every copy, flushed or
  committed, that says sent is of an event that has been sent. `Once`: an event that is not
  `excused` is in at most one request's hands, unsent while it is on a list, and once sent
  either committed as sent or about to be by the request that holds it. `Counted`: a
  retry_count in any copy is no larger than the number of sends of that event that have failed,
  and smaller while a failed send is not marked yet, which is what makes a count on a stale copy
  harmless: it can only be too small.
- `DeliveryRefined`: `Spec => ImplementsEventDelivery`. A publication is a `Publish`, a send a `Deliver` or
  a `Refuse`, a commit a `Settle`; a listing, a reset, a rollback and a crash change nothing but
  `excused`, and are a `Release`. The commit is the hard one: the status it writes was put together
  from a copy, one send and one mark, with others in between. Three facts beyond `IInv` carry it:
  `InTable`, what is in hand is published and no copy or mark says otherwise; `Earned`, every
  status in any copy or mark has been earned by what happened before, and a mark of "pending" is of
  a replayed event; `OutOfHand`, an event that is on no list and not `excused` is marked by nobody,
  so that the mark of an event that is not released is a mark of the one request that has it, made
  on a row that is still open.

`AgentWorkflowProofs`
- `TypeCorrect`, `OrderKept` (`ResultsInOrder`), `GatesKept` (`GatesHold`), `StoresKept`
  (`StoresAgree`). No part speaks of the requests by itself, and all but the last depend on them: a
  request writes the result of the node it read before it waited. The invariant `IInv` adds
  `Hands`: a snapshot exists as long as a request runs it, has at most one compiled run, and no other
  kind unless it is `stepped`. `Order`: a request runs node *n* only while the nodes before *n* have
  results, `next_node` is never beyond the first gap, and a compiled run that is overtaken by
  a completion finds every node filled; a rollback that could break this puts the snapshot
  into `disturbed`. `Gates`: in a snapshot that is not `stepped` the results are exactly what the one
  compiled run has passed, and its count of revisions is the number of plans in the log.
- An answer is first reduced to what it does to one record (`Answered`); each part is then shown
  for six kinds of step, and a frame lemma carries it over to all other snapshots.

`ConfigCenterProofs`
- `TypeCorrect`, `VersionsKept` (`VersionsCount`), `PublicationsKept` (`PublishedIsKept`).
- A payload is `Good` if its history is within the limit, its versions are no larger than the number of
  publications and count up by one; every row, every memory and every copy of a session
  is. What a session is about to store `Follows` from what it was made from: only the
  current entry (a rollback) or the oldest of a full history is missing, which makes the reasons of
  `Excused` complete. `Known`, of a publication, says that it is in the table or excused, and no
  step takes that back; `Carried` says that the publications of an open session are known, or in
  the payload it is making or has flushed. A session that finds its own payload in the row
  already, because another one was made from the shared memory, writes nothing: what it found was
  known when it was read.

`LlmQuotaProofs`
- `TypeCorrect`, `UsedBounded` (`UsedIsBetween`), `LimitHolds` (`UsedNearLimit`), `RefusedRightly`
  (`RefusedWhenSpent`), `ChargedOnce` (`ChargedTwiceHasACause`).
- The invariant says what a copy of the row can be. `RowInv`: the row is absent, of before the scale
  and unused or used up, or has the one limit. `Apart`: two open sessions both know that they
  overlap, and at most one has flushed what it has not committed. `Sound`, of each handler: where it
  is says what it has (`Shape`), what it may write fits the row that is there (`Fits`), and its copy
  lies between what is counted and what is spent, equals the row plus its own cost if nobody
  overlapped it, and passed the check before the call, so it is within the cost of one answer of the
  limit after it; the copy of a session whose check had failed is near the limit as the row is, and
  what it adds is waved through with its commit (`Money`).
- Who is charged is an invariant of its own (`Charged`): the charges of a client, and one for each of
  its handlers that may still make one, are at most one more than its lost answers.

`RecommendationPoolProofs`, of the pool
- `TypeCorrect`, `EventsAreTrue` (`ToldIsTrue`), `SubmittedProof` (`SubmittedIsKnown`),
  `ApprovalProof` (`ErpStateWasApproved`), `ColumnsProof` (`ColumnsAgree`), `FinalKept` (the action
  property `ReopenedOnlyByStaleRead`, which the run checks as a part of the refinement below), all
  from one invariant, `IInv`.
- No property speaks of what a session has in hand, and all depend on it. `Shape` says what the
  operation and the place of a session mean for its other fields; `Grounded`, that a state in the
  table or in a copy rests on an approval and on a submission (a copy may be old, but neither is
  ever taken back); `Flushed`, what an uncommitted write will make of the row: where nothing was
  `raced`, columns that agree and an allowed step from the committed state. `OneHolder`, one
  session at most has flushed a row, makes the event of that session the last one, which is why
  an event stays true while others read and wait, unless one that was `adrift` arrives.
- `SomeoneProceeds`: in every reachable state with an open session, one of them finds the guard of
  its next step true (`MayGoOn`, the guards of `Progress` written out). This is `SomeoneGoesOn`
  without ENABLED, for any number of sessions and recommendations. The invariant is `Places`: only a push or an
  answer locks the suggestion, and always before the recommendation.
- `LifecycleRefined`: `Spec => ImplementsLifecycle`. Every action is a stutter but creation
  (`Propose`), the call of the client (`Submit`), a write over a newer row (`Contest`) and the commit of
  a session that has flushed a row (`Move`). That a commit moves by the table where nothing was raced is
  `Flushed`, and that it finds approval and submission is `Grounded`. New is
  `Led`: the state that a session has flushed is one that the table leads to from some state,
  which is why even a raced recommendation is never a proposal again.
- `FeedbackKeepsLifecycle`: the same of `FeedbackSpec`, by `FeedbackRefinesPool`: no redelivered,
  reordered or lost message takes a recommendation out of its lifecycle.

`RecommendationPoolProofs`, of `ErpFeedback`
- `FeedbackRefinesPool`: `FeedbackSpec => Spec`. Every step of the worker, the ERP and the requests
  beside them is a step of the pool or leaves it alone, so the theorems above hold with the worker in it.
- `FeedbackTypeCorrect`, `LossProof` (`LossHasACause`), `AppliedTwiceProof` (`AppliedTwiceHasACause`).
  The invariant `FInv` says of the topics that they list each message once (`TopicsInv`), of the batch and the
  offsets what the place of the worker makes of them (`BatchInv`), of the worker's session
  that it is about the first message of the batch (`WorkerInv`), and of a worker that was never
  stopped that it takes a message once (`OnceInv`). After a restart twice is excluded by an order:
  `Rank` gives every state a number that each allowed transition but a submission raises, so a row
  whose message was applied stays at or above the rank of its target (`RankInv`) and the table
  refuses the message when it comes again.

`MessageBusProofs`
- `TypeCorrect`, `SameOffsetProof` (`SameOffsetHasACause`), `HistoryProof` (`HistoryIsComplete`),
  `PassedOverProof` (`PassedOverHasACause`), `WaitsProof` (`WaitsOrIsReceived`, which the run checks
  as a part of the refinement below).
- The offsets of two messages depend on what the process of the later one knew of the earlier one,
  perhaps several runs ago. `Knows(p, m)`: the process accepted *m* in this run, or started after
  it and could read it in an unharmed file. `ProcessInv`: the counter of a process is no smaller than any
  offset it knows that the bus gave, whatever clients supply beside it, and each message it knows is in
  its history, or older than all of a full one. `LogInv`: a message that the bus numbered has a larger
  offset than every such message that was known to its process when it was accepted (`KnewOf`). Since
  damage to the file is never undone, knowing can only be lost, and the order of
  the file and of a history (`FileInv`, `HistoryInv`) says which part of it a restart or a full
  history keeps.
- What a paging client misses follows from one more fact: the cursor is the offset of a message it
  has read (`ReadInv`). A message it has passed over was in no history it was shown from, and then
  `NotInHistory` shows that its process and that of a message read were unaware of each other.
- `MailboxRefined`: `Spec => ImplementsMailbox`. The abstract specification orders messages by when
  they were posted, the code by offsets, which two messages may share. The invariant `InboxInv`
  closes the gap: what waits at a process was accepted by it in this run, so that the offsets which the
  bus gave to the messages of one inbox grow with them (`InboxOrder`, from `LogInv`), and what `receive`
  leaves behind of those is later than what it takes; it also makes the inboxes of two processes disjoint.
- `ReceivedOnce`: what a receiver has received does not wait for it any more, at any process. The
  proof looks at the steps of `Mailbox` only.

Attempts at proofs have changed the models. `ToldIsTrue` spoke only of a recommendation no session
works on, which says little when there are two; it now asks only that no write be open.
That an event may fail or come late, that a dead letter may not be sent, that clients supply offsets,
that a check can fail and its cost still count, and that an answer can be lost after its commit came
into the models from the code's own error paths; each became a cause that the property names, and the
proof shows that with it the list is complete. `AppliedTwiceHasACause` did not name the stale write:
with three sessions, an approval that read the row
before another one was submitted writes PMS_APPROVED over EXECUTION_FAILED, and a
restarted worker applies the messages of the first execution again. The run has two sessions, as with three
the liveness property takes too long, and could not show this.

Only model-checked: `EveryTaskSettles`, `RequestsEnd` and `FullBatchIsHandled` (liveness under
fairness is outside the prover's reach) and `SomeoneGoesOn` in its form with ENABLED. The three
violated properties are shown by counterexamples of TLC. Every other property of the runs is a
theorem.

## 5. What is left

Every component whose operations wait on something shared is modelled, every safety property of
the models is proved, and four of the components are shown to implement an abstract specification.
The configuration centre, the quota and the agent workflow have none: their promises are about one
row or one record, and their invariants state them as directly as a specification would.

## 6. What is not modelled

Inside the modelled components: result payloads and the content of an agent, listing and
search, the order of claimed rows, tenant filters and permissions (a request is allowed or does
not exist), wall-clock time (a time-out is an outcome), the failure of the database itself except
where a component swallows it (`ConfigCenter`, `LlmQuota`). Sessions read the primary: a replica that
lags behind (`RoutingSession` of `infrastructure/database.py` with a read URL) would give a request an older
row than any the models let it read. Supplied offsets are integers: one that `int()` refuses makes
every later sort and load of that bus raise. The cost of an answer is a number, not a NaN or an
infinity, which the encoding refuses.

Components without a model, with the reason (`PROJECT.json` has the complete list):

- *Approval and adoption.* `approve`, `reject` and the execution change the JSONB `config` in place and
  assign the same object back. With `expire_on_commit=False` and a plain JSONB column SQLAlchemy
  writes nothing, so neither the approval chain nor the `execution_result` that an adoption
  asks for is in the table: adoption in a later session always refuses, and its saga over the ERP domains is
  unreachable on stored data. `StoredRetryCount` of `SelectionTask` is the same effect.
- *Suggestion lifecycle.* A dictionary of the service object, which each request makes anew.
- *Workflow engine* and *human in the loop* are constructed by tests only; the first is one
  coroutine over its steps, the second changes a dictionary with no wait inside.
- *LLM gateway.* Each request makes its own gateway and with it the circuit breakers, which one
  request cannot open.
- *Kafka consumers of data sync.* `POST /events/consume` drains the memory list of a topic in one pass:
  messages of another event type, and all after an exception, are lost, which a sequential
  test shows. The topics of a broker have no runner.
- *Execution tracking* reads the ERP domains into the memory of its service object and logs.
- *Data-sync dispatcher* is called nowhere; it would be a dispatch of `Outbox`.
- Content that is text, vectors, queries or HTTP calls (retrieval, crawlers, ETL, reports, ERP clients,
  the agents themselves), simulations (`infrastructure/high_availability.py`,
  `infrastructure/ws_gateway.py`), decisions on a single request (authentication, WAF, rate
  limit), the other tasks of the Celery catalogue, the frontend and deployment.
