SPECIFICATION EnvironmentSpec
CONSTANTS
    Parts = {"store"}
    Names = {n1}
    Tenants = {k1}
    NoTenant = NoTenant
    AnyTenant = AnyTenant
    Values = {v1}
    Prepared = v0
    LabelKeys = {l1}
    Threads = {t1, t2}
    NoThread = NoThread
    NoFile = NoFile
    Truncated = Truncated
    MaxCalls = 2
    MaxFaults = 1
    MaxRotations = 1
    MaxServers = 2
    MaxConcurrent = 1
    MaxChanges = 1
CHECK_DEADLOCK FALSE
SYMMETRY Symmetry
INVARIANT
    DeletedFileIsInitialized
