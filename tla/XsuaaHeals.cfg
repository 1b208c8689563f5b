SPECIFICATION FairSpec
CONSTANTS
    MaxVersion = 1
    NoMtime = NoMtime
    Mounted = FALSE
    Threads = {t1, t2}
    Tenants = {k1}
    Provider = Provider
    BadTenants = {}
    Zoned = {0, 1}
    Labelled = {0, 1}
    SessionIds = {s1, s2, s3}
    MaxAttempts = 2
    NoTenant = NoTenant
    NoSession = NoSession
    NoVersion = NoVersion

PROPERTIES
    RequestsEnd
    HealsAfterRotation
