SPECIFICATION FairSharedSpec
CONSTANTS
    MaxVersion = 1
    NoMtime = NoMtime
    Mounted = TRUE
    Threads = {t1, t2}
    Calls = {"service", "user"}
    NoToken = NoToken
    Roots = {r1}
    TokenIds = {n1, n2, n3}
    EmptyToken = EmptyToken
    NoCsrf = NoCsrf
    Callers = {c1, c2}
    Users = {j1, j2}
    Scopes = {s1}
    MaxTokens = 1
    Buffer = 1
    Fallback = 2
    MaxLife = 2
    Readers = {u1, u2}
    CacheKeys = {e1, e2}
    MaxEntries = 1
    Ttl = 2
    MaxPages = 2
    Pages = 3
    HookTimeout = 3
    RequestTime = 2
    Completions = {1}
    Rotations = 1
INVARIANTS
    TypesOK
    NoticedRotationIsApplied
    AllObserveTheSameToken
    UndisturbedWritesRecover
    OnlyRacesRaise
    CachedTokensAreFresh
    PairsBelongTogether
    AnswersAreComplete
    AnswersAreRecent
    CallsEndInTime
    LoneCompletionRecovers
PROPERTIES
    FreshTokenIsKept
    WritesEnd
