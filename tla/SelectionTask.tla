--------------------------- MODULE SelectionTask ---------------------------
(***************************************************************************)
(* The life of the rows of table selection_tasks under everything that     *)
(* writes them at the same time: polling workers that claim PENDING rows   *)
(* (workers/selection_worker.py), the executions they start, the           *)
(* executions the API hands to Celery or to a background task when a task  *)
(* is created (workers/celery_selection_tasks.py) or later on request      *)
(* (workers/celery_tasks.py), and the operators' cancel, pause, resume and *)
(* requeue requests                                                        *)
(* (services/selection_service.py over repositories/selection_repository). *)
(*                                                                         *)
(* Every execution and every request has a database session of its own.    *)
(* Sessions are made with expire_on_commit=False                           *)
(* (infrastructure/database.py:408), so the row object a session has read  *)
(* is its identity-map copy: a later SELECT of the same row in the same    *)
(* session returns that copy unrefreshed.  snap and req[_].seen are those  *)
(* copies.  A flush updates the columns whose value differs from the copy, *)
(* by primary key and with no version check: Write is that update.         *)
(*                                                                         *)
(* config is a plain JSONB column.  Every writer mutates the dict it read  *)
(* and assigns the same object back, which the unit of work compares equal *)
(* to what it loaded, so no UPDATE carries it: the retry_count an          *)
(* execution reads is always the one the row was created with, none.       *)
(***************************************************************************)
EXTENDS Naturals, FiniteSets

CONSTANTS
    Tasks,                \* the rows that may be created
    Tenants,
    TenantOf,             \* the tenant_id of a row
    Workers,              \* SelectionTaskWorker processes
    Runners,              \* Celery or background executions started by the API
    Requests,             \* operator requests that may be open at once
    Operations,           \* the operations operators use
    DirectDispatch,       \* settings.mode = celery, or background dispatch enabled
    BatchSize,            \* settings.worker_batch_size
    TenantMaxParallelism, \* settings.tenant_max_parallelism
    TypeMaxParallelism,   \* settings.task_type_max_parallelism
    MaxRetries,           \* settings.max_retries
    CeleryRetries,        \* max_retries of the Celery task of a submission
    MaxFailures,          \* bound: executions that raise or time out
    MaxOperations,        \* bound: operator requests and submissions
    MaxCrashes,           \* bound: processes killed
    NoTask, Free          \* no row; a row nobody has locked

ASSUME ProcessesAssumption ==
    /\ IsFiniteSet(Tasks)
    /\ Tenants # {} /\ TenantOf \in [Tasks -> Tenants]
    /\ Workers \cap Runners = {}
    /\ NoTask \notin Tasks \cup Workers \cup Runners
    /\ Free \notin Workers

ASSUME SettingsAssumption ==
    /\ DirectDispatch \in BOOLEAN
    /\ Operations \subseteq {"cancel", "pause", "resume", "requeue"}
    /\ BatchSize \in Nat \ {0}
    /\ TenantMaxParallelism \in Nat \ {0}
    /\ TypeMaxParallelism \in Nat \ {0}
    /\ MaxRetries \in Nat /\ CeleryRetries \in Nat
    /\ MaxFailures \in Nat /\ MaxOperations \in Nat /\ MaxCrashes \in Nat

VARIABLES
    status,    \* the committed status column; "absent" before the INSERT
    lock,      \* who holds FOR UPDATE on the row
    pc,        \* where a process is in its loop
    scan,      \* tenants a poll has still to look at
    room,      \* the poll's remaining batch
    allowance, \* tenant_allowance of the tenant being claimed
    tenant,    \* that tenant
    queue,     \* claimed (or delivered) tasks not begun yet
    cur,       \* the task being executed
    snap,      \* the status its session has in the identity map
    req,       \* the open operator requests
    inbox,     \* tasks the API dispatched directly, not yet picked up
    submitted, \* messages of POST /celery/submit that wait in the broker
    unacked,   \* the one of them that a runner works on
    failures, operations, crashes,
    forced,    \* history: tasks put in play while a process held them
    stranded   \* history: tasks a crash dropped or an operator resumed

procVars == <<pc, scan, room, allowance, tenant, queue, cur, snap>>
deliveries == <<inbox, submitted, unacked>>
bounds == <<failures, operations, crashes>>
vars == <<status, lock, procVars, req, deliveries, bounds, forced, stranded>>

Processes == Workers \cup Runners
Status == {"absent", "pending", "running", "paused", "completed", "failed", "cancelled"}
Finished == {"completed", "failed", "cancelled"}

Delivery == [task : Tasks, retries : 0 .. CeleryRetries]
NoDelivery == [task |-> NoTask, retries |-> 0]
Waits(t) == \E d \in submitted : d.task = t

NoRequest == [op |-> "none", task |-> NoTask, seen |-> "absent"]

(* SelectionTaskRepository._is_transition_allowed *)
Allowed(from, to) ==
    \/ from = to
    \/ from = "pending" /\ to \in {"running", "failed", "cancelled"}
    \/ from = "running" /\ to \in {"paused", "completed", "failed", "cancelled"}
    \/ from = "paused"  /\ to \in {"running", "cancelled"}

Holds(p, t) == t \in queue[p] \/ cur[p] = t
Held(t) == \E p \in Processes : Holds(p, t)

Claimed(w) == {t \in Tasks : lock[t] = w}

(* Mutants of Pending: the query forgets that RUNNING rows, or CANCELLED   *)
(* rows, are not there to be claimed.                                      *)
PendingOrRunning(tn) == {t \in Tasks : TenantOf[t] = tn /\ status[t] \in {"pending", "running"}}
PendingOrCancelled(tn) == {t \in Tasks : TenantOf[t] = tn /\ status[t] \in {"pending", "cancelled"}}

Pending(tn) == {t \in Tasks : TenantOf[t] = tn /\ status[t] = "pending"}
RunningCount(tn) == Cardinality({t \in Tasks : TenantOf[t] = tn /\ status[t] = "running"})

Lesser(m, n) == IF m <= n THEN m ELSE n

(* One flush and commit of a session that has seen the row as `seen` and   *)
(* sets its status: the column is in the UPDATE only when it changed in    *)
(* the session, and the UPDATE waits for the row's lock.                   *)
Write(t, seen, new) ==
    /\ lock[t] = Free
    /\ status' = IF new = seen THEN status ELSE [status EXCEPT ![t] = new]

-----------------------------------------------------------------------------

Init ==
    /\ status = [t \in Tasks |-> "absent"]
    /\ lock = [t \in Tasks |-> Free]
    /\ pc = [p \in Processes |-> "idle"]
    /\ scan = [p \in Processes |-> {}]
    /\ room = [p \in Processes |-> 0]
    /\ allowance = [p \in Processes |-> 0]
    /\ tenant = [p \in Processes |-> CHOOSE tn \in Tenants : TRUE]
    /\ queue = [p \in Processes |-> {}]
    /\ cur = [p \in Processes |-> NoTask]
    /\ snap = [p \in Processes |-> "absent"]
    /\ req = [r \in Requests |-> NoRequest]
    /\ inbox = {} /\ submitted = {}
    /\ unacked = [p \in Processes |-> NoDelivery]
    /\ failures = 0 /\ operations = 0 /\ crashes = 0
    /\ forced = {} /\ stranded = {}

(* POST /tasks: create_task commits a PENDING row; with celery or          *)
(* background dispatch the same request also hands the task to a runner,   *)
(* and the row stays PENDING, so a polling worker may claim it too.        *)
CreateTask(t) ==
    /\ status[t] = "absent"
    /\ status' = [status EXCEPT ![t] = "pending"]
    /\ inbox' = IF DirectDispatch THEN inbox \cup {t} ELSE inbox
    /\ UNCHANGED <<lock, procVars, req, submitted, unacked, bounds, forced, stranded>>

(* A Celery worker (or the API's background task) starts _run: it executes *)
(* the task it was handed without claiming the row.                        *)
Deliver(p, t) ==
    /\ p \in Runners /\ pc[p] = "idle" /\ t \in inbox
    /\ inbox' = inbox \ {t}
    /\ queue' = [queue EXCEPT ![p] = {t}]
    /\ pc' = [pc EXCEPT ![p] = "run"]
    /\ forced' = forced \cup {t}
    /\ UNCHANGED <<status, lock, scan, room, allowance, tenant, cur, snap, req,
                   submitted, unacked, bounds, stranded>>

(* POST /celery/submit, or the hourly schedule: whatever its status, a     *)
(* task is handed to the second Celery application.                        *)
Submit(t) ==
    /\ operations < MaxOperations
    /\ status[t] # "absent"
    /\ submitted' = submitted \cup {[task |-> t, retries |-> 0]}
    /\ operations' = operations + 1
    /\ UNCHANGED <<status, lock, procVars, req, inbox, unacked, failures, crashes,
                   forced, stranded>>

(* A worker of that application starts execute_selection_task; it will     *)
(* acknowledge the message when that has ended (acks_late).                *)
DeliverLate(p, d) ==
    /\ p \in Runners /\ pc[p] = "idle" /\ d \in submitted
    /\ submitted' = submitted \ {d}
    /\ unacked' = [unacked EXCEPT ![p] = d]
    /\ queue' = [queue EXCEPT ![p] = {d.task}]
    /\ pc' = [pc EXCEPT ![p] = "run"]
    /\ forced' = forced \cup {d.task}
    /\ UNCHANGED <<status, lock, scan, room, allowance, tenant, cur, snap, req, inbox,
                   bounds, stranded>>

-----------------------------------------------------------------------------
(* SelectionTaskWorker.poll_and_run_once: one transaction that looks at    *)
(* each tenant with pending rows, counts its RUNNING rows and claims.      *)

Poll(w) ==
    /\ pc[w] = "idle"
    /\ scan' = [scan EXCEPT ![w] = {tn \in Tenants : Pending(tn) # {}}]
    /\ scan'[w] # {}
    /\ room' = [room EXCEPT ![w] = BatchSize]
    /\ pc' = [pc EXCEPT ![w] = "scan"]
    /\ UNCHANGED <<status, lock, allowance, tenant, queue, cur, snap, req, deliveries,
                   bounds, forced, stranded>>

(* Mutant of Allowance: the rows that run already are not subtracted, nor  *)
(* the limit applied that they count against.                              *)
AllowanceOfBatch(w, tn) == Lesser(TypeMaxParallelism, room[w])

(* tenant_allowance. *)
Allowance(w, tn) ==
    Lesser(TenantMaxParallelism - RunningCount(tn), Lesser(TypeMaxParallelism, room[w]))

(* count_running_tasks_by_tenant: a plain SELECT count, no lock. *)
CountRunning(w, tn) ==
    /\ pc[w] = "scan" /\ room[w] > 0
    /\ tn \in scan[w]
    /\ scan' = [scan EXCEPT ![w] = @ \ {tn}]
    /\ IF RunningCount(tn) >= TenantMaxParallelism
       THEN UNCHANGED <<pc, allowance, tenant>>
       ELSE /\ pc' = [pc EXCEPT ![w] = "claim"]
            /\ tenant' = [tenant EXCEPT ![w] = tn]
            /\ allowance' = [allowance EXCEPT ![w] = Allowance(w, tn)]
    /\ UNCHANGED <<status, lock, room, queue, cur, snap, req, deliveries, bounds, forced, stranded>>

(* claim_pending_tasks: SELECT ... LIMIT allowance FOR UPDATE SKIP LOCKED; *)
(* which rows come first (priority, creation time) is left open.           *)
Claim(w) ==
    /\ pc[w] = "claim"
    /\ LET open == {t \in Pending(tenant[w]) : lock[t] = Free}
       IN  \E S \in SUBSET open :
             /\ Cardinality(S) = Lesser(allowance[w], Cardinality(open))
             /\ lock' = [t \in Tasks |-> IF t \in S THEN w ELSE lock[t]]
             /\ room' = [room EXCEPT ![w] = @ - Cardinality(S)]
    /\ pc' = [pc EXCEPT ![w] = "scan"]
    /\ UNCHANGED <<status, scan, allowance, tenant, queue, cur, snap, req, deliveries,
                   bounds, forced, stranded>>

(* The commit of the poll: every claimed row becomes RUNNING at once. *)
CommitClaims(w) ==
    /\ pc[w] = "scan"
    /\ scan[w] = {} \/ room[w] = 0
    /\ status' = [t \in Tasks |-> IF lock[t] = w THEN "running" ELSE status[t]]
    /\ lock' = [t \in Tasks |-> IF lock[t] = w THEN Free ELSE lock[t]]
    /\ queue' = [queue EXCEPT ![w] = Claimed(w)]
    /\ scan' = [scan EXCEPT ![w] = {}]
    /\ pc' = [pc EXCEPT ![w] = IF Claimed(w) = {} THEN "idle" ELSE "run"]
    /\ stranded' = stranded \ Claimed(w)
    /\ UNCHANGED <<room, allowance, tenant, cur, snap, req, deliveries, bounds, forced>>

-----------------------------------------------------------------------------
(* SelectionTaskService.execute_task, one task of the batch after another, *)
(* each in a session of its own.                                           *)

(* Where a process goes once execute_task has returned; a submission is    *)
(* acknowledged.                                                           *)
AfterTask(p) ==
    /\ unacked' = [unacked EXCEPT ![p] = NoDelivery]
    /\ cur' = [cur EXCEPT ![p] = NoTask]
    /\ snap' = [snap EXCEPT ![p] = "absent"]
    /\ pc' = [pc EXCEPT ![p] = IF queue[p] = {} THEN "idle" ELSE "run"]

(* The first get_task of execute_task: a cancelled or paused task is       *)
(* skipped, any other one is what the session goes on with.  The mutant    *)
(* also skips what another worker is running.                              *)
SkippedIfRunning(s) == s \in {"cancelled", "paused", "running"}
Skipped(s) == s \in {"cancelled", "paused"}

Load(p, t) ==
    /\ pc[p] = "run" /\ cur[p] = NoTask /\ t \in queue[p]
    /\ queue' = [queue EXCEPT ![p] = @ \ {t}]
    /\ IF Skipped(status[t])
       THEN /\ pc' = [pc EXCEPT ![p] = IF queue'[p] = {} THEN "idle" ELSE "run"]
            /\ unacked' = [unacked EXCEPT ![p] = NoDelivery]
            /\ UNCHANGED <<cur, snap>>
       ELSE /\ cur' = [cur EXCEPT ![p] = t]
            /\ snap' = [snap EXCEPT ![p] = status[t]]
            /\ pc' = [pc EXCEPT ![p] = "loaded"]
            /\ UNCHANGED unacked
    /\ UNCHANGED <<status, lock, scan, room, allowance, tenant, req, inbox, submitted, bounds,
                   forced, stranded>>

(* update_task_status(RUNNING) and its commit. *)
Start(p) ==
    /\ pc[p] = "loaded"
    /\ Allowed(snap[p], "running")
    /\ Write(cur[p], snap[p], "running")
    /\ snap' = [snap EXCEPT ![p] = "running"]
    /\ pc' = [pc EXCEPT ![p] = "execute"]
    /\ UNCHANGED <<lock, scan, room, allowance, tenant, queue, cur, req, deliveries, bounds,
                   forced, stranded>>

(* The workflow returned.  The second get_task answers from the identity   *)
(* map, so the test for CANCELLED looks at snap, not at the row.           *)
Complete(p) ==
    /\ pc[p] = "execute"
    /\ IF snap[p] = "cancelled"
       THEN UNCHANGED status
       ELSE Write(cur[p], snap[p], "completed")
    /\ AfterTask(p)
    /\ UNCHANGED <<lock, scan, room, allowance, tenant, queue, req, inbox, submitted, bounds,
                   forced, stranded>>

(* retry_count = int(config.get("retry_count", 0)) + 1 over a config that  *)
(* no earlier execution could change.                                      *)
StoredRetryCount(t) == 0
RetryCount(t) == StoredRetryCount(t) + 1

(* The except branch: back to PENDING while retries remain, else FAILED.   *)
(* The mutant logs the error and writes nothing.                           *)
RecoverNothing(p) == UNCHANGED status
Recover(p) ==
    IF RetryCount(cur[p]) <= MaxRetries
    THEN Write(cur[p], snap[p], "pending")
    ELSE /\ Allowed(snap[p], "failed")
         /\ Write(cur[p], snap[p], "failed")

(* The workflow raised, or asyncio.wait_for timed it out. *)
Fail(p) ==
    /\ pc[p] = "execute"
    /\ failures < MaxFailures
    /\ failures' = failures + 1
    /\ Recover(p)
    /\ AfterTask(p)
    /\ UNCHANGED <<lock, scan, room, allowance, tenant, queue, req, inbox, submitted, operations,
                   crashes, forced, stranded>>

(* update_task_status(RUNNING) raises on a task another process finished,  *)
(* and the same except branch answers.                                     *)
FailToStart(p) ==
    /\ pc[p] = "loaded"
    /\ ~Allowed(snap[p], "running")
    /\ Recover(p)
    /\ AfterTask(p)
    /\ UNCHANGED <<lock, scan, room, allowance, tenant, queue, req, inbox, submitted, bounds,
                   forced, stranded>>

(* The message that Celery's retry sends, with its count.                  *)
Retried(p) ==
    {d \in Delivery : d.task = unacked[p].task /\ d.retries = unacked[p].retries + 1}

(* With no retries left the except branch itself raises on a COMPLETED     *)
(* task.  Nothing above it catches, and a worker ends with its queue; a    *)
(* runner goes on, and a submission is retried while Celery allows it.     *)
Die(p) ==
    /\ pc[p] = "loaded"
    /\ ~Allowed(snap[p], "running")
    /\ RetryCount(cur[p]) > MaxRetries /\ ~Allowed(snap[p], "failed")
    /\ pc' = [pc EXCEPT ![p] = IF p \in Workers THEN "dead" ELSE "idle"]
    /\ submitted' = submitted \cup Retried(p)
    /\ unacked' = [unacked EXCEPT ![p] = NoDelivery]
    /\ stranded' = stranded \cup {t \in Tasks : Holds(p, t) /\ \A d \in Retried(p) : d.task # t}
    /\ queue' = [queue EXCEPT ![p] = {}]
    /\ cur' = [cur EXCEPT ![p] = NoTask]
    /\ snap' = [snap EXCEPT ![p] = "absent"]
    /\ UNCHANGED <<status, lock, scan, room, allowance, tenant, req, inbox, bounds, forced>>

(* The mutant acknowledges a submission when it is delivered.              *)
RedeliveredNever(p) == {}
(* A submission that is not acknowledged comes again                       *)
(* (task_reject_on_worker_lost, or the broker's visibility timeout).       *)
Redelivered(p) == {unacked[p]} \ {NoDelivery}

(* The process is killed and started again: an open transaction rolls back *)
(* and nothing looks for the RUNNING rows it leaves behind.                *)
Crash(p) ==
    /\ crashes < MaxCrashes
    /\ pc[p] \notin {"idle", "dead"}
    /\ crashes' = crashes + 1
    /\ lock' = [t \in Tasks |-> IF lock[t] = p THEN Free ELSE lock[t]]
    /\ submitted' = submitted \cup Redelivered(p)
    /\ unacked' = [unacked EXCEPT ![p] = NoDelivery]
    /\ stranded' = stranded \cup {t \in Tasks : Holds(p, t) /\ t # unacked[p].task}
    /\ pc' = [pc EXCEPT ![p] = "idle"]
    /\ scan' = [scan EXCEPT ![p] = {}]
    /\ queue' = [queue EXCEPT ![p] = {}]
    /\ cur' = [cur EXCEPT ![p] = NoTask]
    /\ snap' = [snap EXCEPT ![p] = "absent"]
    /\ UNCHANGED <<status, room, allowance, tenant, req, inbox, failures, operations, forced>>

-----------------------------------------------------------------------------
(* Operator requests: read the row, check what was read, write, commit.    *)

Accepts(op, s) ==
    CASE op = "cancel"  -> s \notin Finished
      [] op = "pause"   -> s = "running"
      [] op = "resume"  -> s = "paused"
      [] op = "requeue" -> TRUE

(* The mutant requeues a task under a status no worker looks for. *)
TargetMisspelt(op) == IF op = "requeue" THEN "queued" ELSE "cancelled"
Target(op) ==
    CASE op = "cancel"  -> "cancelled"
      [] op = "pause"   -> "paused"
      [] op = "resume"  -> "running"
      [] op = "requeue" -> "pending"

OpenRequest(r, op, t) ==
    /\ operations < MaxOperations
    /\ req[r] = NoRequest
    /\ status[t] # "absent" /\ Accepts(op, status[t])
    /\ req' = [req EXCEPT ![r] = [op |-> op, task |-> t, seen |-> status[t]]]
    /\ operations' = operations + 1
    /\ UNCHANGED <<status, lock, procVars, deliveries, failures, crashes, forced, stranded>>

CommitRequest(r) ==
    /\ req[r] # NoRequest
    /\ LET op == req[r].op  t == req[r].task  seen == req[r].seen
       IN  /\ op = "requeue" \/ Allowed(seen, Target(op))
           /\ Write(t, seen, Target(op))
           /\ forced' = IF op = "requeue" /\ seen # "pending" /\ Held(t)
                        THEN forced \cup {t} ELSE forced
           /\ stranded' = IF op = "resume" THEN stranded \cup {t} ELSE stranded
    /\ req' = [req EXCEPT ![r] = NoRequest]
    /\ UNCHANGED <<lock, procVars, deliveries, bounds>>

-----------------------------------------------------------------------------

WorkerStep(w) ==
    \/ Poll(w)
    \/ \E tn \in Tenants : CountRunning(w, tn)
    \/ Claim(w)
    \/ CommitClaims(w)

ExecutionStep(p) ==
    \/ \E t \in Tasks : Load(p, t)
    \/ Start(p)
    \/ Complete(p)
    \/ Fail(p)
    \/ FailToStart(p)
    \/ Die(p)

RequestStep ==
    \/ \E r \in Requests, op \in Operations, t \in Tasks : OpenRequest(r, op, t)
    \/ \E r \in Requests : CommitRequest(r)

Next ==
    \/ \E t \in Tasks : CreateTask(t)
    \/ \E p \in Runners, t \in Tasks : Deliver(p, t)
    \/ \E t \in Tasks : Submit(t)
    \/ \E p \in Runners, d \in submitted : DeliverLate(p, d)
    \/ \E w \in Workers : WorkerStep(w)
    \/ \E p \in Processes : ExecutionStep(p)
    \/ \E p \in Processes : Crash(p)
    \/ RequestStep

Spec == Init /\ [][Next]_vars

(* The poll loop and asyncio go on while the process lives, wait_for ends  *)
(* every workflow, and an open request commits.  Crashes, operator         *)
(* requests and task creation are never owed.                              *)
Fairness ==
    /\ \A w \in Workers : WF_vars(WorkerStep(w))
    /\ \A p \in Processes : WF_vars(ExecutionStep(p))
    /\ \A p \in Runners : WF_vars(\/ \E t \in Tasks : Deliver(p, t)
                                 \/ \E d \in submitted : DeliverLate(p, d))
    /\ \A r \in Requests : WF_vars(CommitRequest(r))

FairSpec == Spec /\ Fairness

-----------------------------------------------------------------------------
(* Properties *)

TypeOK ==
    /\ status \in [Tasks -> Status]
    /\ lock \in [Tasks -> Workers \cup {Free}]
    /\ pc \in [Processes -> {"idle", "scan", "claim", "run", "loaded", "execute", "dead"}]
    /\ scan \in [Processes -> SUBSET Tenants]
    /\ room \in [Processes -> Nat]
    /\ allowance \in [Processes -> Nat]
    /\ tenant \in [Processes -> Tenants]
    /\ queue \in [Processes -> SUBSET Tasks]
    /\ cur \in [Processes -> Tasks \cup {NoTask}]
    /\ snap \in [Processes -> Status]
    /\ req \in [Requests -> {NoRequest} \cup [op : Operations, task : Tasks, seen : Status]]
    /\ inbox \in SUBSET Tasks /\ submitted \in SUBSET Delivery
    /\ unacked \in [Processes -> Delivery \cup {NoDelivery}]
    /\ failures \in Nat /\ operations \in Nat /\ crashes \in Nat
    /\ forced \in SUBSET Tasks /\ stranded \in SUBSET Tasks

(* A task is in the hands of at most one process, however polls, failures, *)
(* retries, crashes and operator requests interleave - unless an operator  *)
(* requeued it while a process had it, or the API handed it to a runner    *)
(* that does not claim (FOR UPDATE SKIP LOCKED in claim_pending_tasks).    *)
ExclusiveExecution ==
    \A t \in Tasks \ forced : \A p, q \in Processes :
        Holds(p, t) /\ Holds(q, t) => p = q

(* A RUNNING row has a process that will still write it, or a submission   *)
(* that comes again after the kill of its runner, unless a crash dropped   *)
(* the task or an operator resumed it since it was last claimed: nothing   *)
(* else leaves a row RUNNING for ever (the writes of execute_task,         *)
(* acks_late).                                                             *)
RunningIsAccountedFor ==
    \A t \in Tasks : status[t] = "running" => Held(t) \/ Waits(t) \/ t \in stranded

(* A cancelled row changes again only by a session that had read it before *)
(* the cancellation committed, or by an operator's requeue: no execution   *)
(* that sees CANCELLED goes on (execute_task's first check).               *)
CancelUndoneOnlyByStaleSession ==
    [][\A t \in Tasks : status[t] = "cancelled" /\ status'[t] # "cancelled" =>
          \/ \E p \in Processes : cur[p] = t /\ snap[p] # "cancelled"
          \/ \E r \in Requests : req[r].task = t
                /\ (req[r].seen # "cancelled" \/ req[r].op = "requeue")]_vars

(* What one worker has of a tenant, claimed or not yet executed, keeps to  *)
(* the tenant's limit, whatever was requeued or resumed meanwhile: the     *)
(* limit holds per worker, and only as many workers as count before the    *)
(* others commit exceed it together (count_running_tasks_by_tenant,        *)
(* settings.tenant_max_parallelism).                                       *)
WorkerShare ==
    \A w \in Workers, tn \in Tenants :
        Cardinality({t \in Tasks : TenantOf[t] = tn /\ (Holds(w, t) \/ lock[t] = w)})
            <= TenantMaxParallelism

(* Every task that waits is executed or cancelled in the end, whatever     *)
(* else fills the batches (poll_and_run_once under run_forever).           *)
EveryTaskSettles ==
    \A t \in Tasks : status[t] = "pending" ~> status[t] \in Finished

(* The workers implement the queue, from which the tasks are excepted that *)
(* were dispatched or requeued past the claim: see TaskQueue.              *)
Owner(t) ==
    IF t \notin forced /\ Held(t) THEN CHOOSE p \in Processes : Holds(p, t) ELSE NoTask
Queue == INSTANCE TaskQueue WITH
    Nobody  <- NoTask,
    waiting <- {t \in Tasks \ forced : status[t] = "pending"},
    owner   <- [t \in Tasks |-> Owner(t)],
    outside <- forced
ImplementsTaskQueue == Queue!Spec

-----------------------------------------------------------------------------
(* What the code's messages and settings say, and the code does not do.    *)

(* A cancelled task stays cancelled while no operator requeues it          *)
(* ("task cancelled, the completion is not written back").                 *)
CancelWins ==
    [][\A t \in Tasks : status[t] = "cancelled" /\ status'[t] # "cancelled" =>
          \E r \in Requests : req[r].task = t /\ req[r].op = "requeue"]_vars

(* An execution that fails for the last allowed time leaves the row FAILED *)
(* in the dead-letter list: no more than MaxRetries + 1 failures of a task *)
(* when there is only one task and nobody requeues it.                     *)
AttemptsBounded ==
    failures <= Cardinality(Tasks) * (MaxRetries + 1)
=============================================================================
