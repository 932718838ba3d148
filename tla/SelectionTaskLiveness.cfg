\* Fair workers, two tenants, failures and cancellations but no crash and no pause:
\* every task settles, and each worker keeps to its share of a tenant.
CONSTANTS
    t1 = t1  t2 = t2  t3 = t3  tenantA = tenantA  tenantB = tenantB
    Tasks = {t1, t2, t3}
    Tenants = {tenantA, tenantB}
    TenantOf <- TwoTenants
    Workers = {w1, w2}
    Runners = {}
    Requests = {r1}
    Operations = {"cancel"}
    DirectDispatch = FALSE
    BatchSize = 2
    TenantMaxParallelism = 1
    TypeMaxParallelism = 4
    MaxRetries = 1
    CeleryRetries = 1
    MaxFailures = 1
    MaxOperations = 1
    MaxCrashes = 0
    NoTask = NoTask
    Free = Free
SPECIFICATION FairSpec
INVARIANT WorkerShare
PROPERTY EveryTaskSettles
CHECK_DEADLOCK FALSE
