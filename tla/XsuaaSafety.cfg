SPECIFICATION Spec
CONSTANTS
    MaxVersion = 1
    NoMtime = NoMtime
    Mounted = TRUE
    Threads = {t1, t2}
    Tenants = {k1, k2}
    Provider = Provider
    BadTenants = {k2}
    Zoned = {0}
    Labelled = {0, 1}
    SessionIds = {s1, s2, s3, s4}
    MaxAttempts = 2
    NoTenant = NoTenant
    NoSession = NoSession
    NoVersion = NoVersion
SYMMETRY Symmetry
INVARIANTS
    TypeOK
    TenantIsolation
    CachedSessionsOpen
    RejectedOnlyUnderRace
