\* A cancellation while the workflow runs.
CONSTANTS
    t1 = t1  t2 = t2  t3 = t3  tenantA = tenantA  tenantB = tenantB
    Tasks = {t1}
    Tenants = {tenantA}
    TenantOf <- OneTenant
    Workers = {w1}
    Runners = {}
    Requests = {r1}
    Operations = {"cancel"}
    DirectDispatch = FALSE
    BatchSize = 2
    TenantMaxParallelism = 2
    TypeMaxParallelism = 4
    MaxRetries = 1
    CeleryRetries = 1
    MaxFailures = 1
    MaxOperations = 1
    MaxCrashes = 0
    NoTask = NoTask
    Free = Free
SPECIFICATION Spec
PROPERTIES CancelWins
CHECK_DEADLOCK FALSE
