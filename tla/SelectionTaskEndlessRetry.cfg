\* A task that keeps failing.
CONSTANTS
    t1 = t1  t2 = t2  t3 = t3  tenantA = tenantA  tenantB = tenantB
    Tasks = {t1}
    Tenants = {tenantA}
    TenantOf <- OneTenant
    Workers = {w1}
    Runners = {}
    Requests = {r1}
    Operations = {}
    DirectDispatch = FALSE
    BatchSize = 2
    TenantMaxParallelism = 2
    TypeMaxParallelism = 4
    MaxRetries = 1
    CeleryRetries = 1
    MaxFailures = 4
    MaxOperations = 0
    MaxCrashes = 0
    NoTask = NoTask
    Free = Free
SPECIFICATION Spec
INVARIANTS AttemptsBounded
CHECK_DEADLOCK FALSE
