SPECIFICATION RenewalsSpec
CONSTANTS
    Parts = {"cbc"}
    Threads = {t1, t2}
    NoThread = NoThread
    ClientIds = {c1, c2, c3, c4}
    MaxCert = 1
    MaxRequests = 2
    HasSslFactory = TRUE
    NoClient = NoClient
    MaxVersion = 0
    NoMtime = NoMtime
    Mounted = TRUE
    NoOperation = NoOperation
SYMMETRY Symmetry
INVARIANT
    NoThunderingHerd
