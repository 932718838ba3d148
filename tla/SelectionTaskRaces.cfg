\* Two workers and a direct dispatch, an operator's request of any kind, a crash, a failing execution,
\* no retries: a task can be executed twice, and an execution that finds its task finished has no way out.
\* The system stops when every task is settled and the bounds are used up.
CONSTANTS
    t1 = t1  t2 = t2  t3 = t3  tenantA = tenantA  tenantB = tenantB
    Tasks = {t1, t2}
    Tenants = {tenantA}
    TenantOf <- OneTenant
    Workers = {w1, w2}
    Runners = {c1}
    Requests = {r1}
    Operations = {"cancel", "pause", "resume", "requeue"}
    DirectDispatch = TRUE
    BatchSize = 2
    TenantMaxParallelism = 2
    TypeMaxParallelism = 4
    MaxRetries = 0
    CeleryRetries = 1
    MaxFailures = 1
    MaxOperations = 1
    MaxCrashes = 1
    NoTask = NoTask
    Free = Free
SPECIFICATION Spec
INVARIANTS TypeOK ExclusiveExecution RunningIsAccountedFor
PROPERTIES CancelUndoneOnlyByStaleSession ImplementsTaskQueue
SYMMETRY WorkerSymmetry
CHECK_DEADLOCK FALSE
