SPECIFICATION FairRenewalsSpec
CONSTANTS
    Parts = {"cbc", "store"}
    Threads = {t1, t2}
    NoThread = NoThread
    ClientIds = {c1, c2, c3}
    MaxCert = 2
    MaxRequests = 2
    HasSslFactory = TRUE
    NoClient = NoClient
    MaxVersion = 2
    NoMtime = NoMtime
    Mounted = TRUE
    NoOperation = NoOperation
INVARIANTS
    TypesOK
    CurrentClientOpen
    ReplacedClientsClosed
    LoneOperationRecovers
    RejectedOnlyUnderRace
PROPERTIES
    NeverOlder
    AllOperationsEnd
