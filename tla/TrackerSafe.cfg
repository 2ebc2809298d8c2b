SPECIFICATION Spec
CONSTANTS
    h1 = h1
    h2 = h2
    m1 = m1
    m2 = m2
    m3 = m3
    m4 = m4
    Hashes = {h1, h2}
    Malformed = {h2}
    Messages = {m1, m2, m3, m4}
    HashOf <- TwoHashes
    MaxCacheCount = 2
    UploadCount = 1
    GroupSize = 2
    NoFile = NoFile
    NoUpload = NoUpload
    NoCache = NoCache
    NoMessage = NoMessage
    MaxCrashes = 1
    MaxFailures = 2
SYMMETRY Interchangeable
INVARIANTS
    TypeOK
    AcceptedIsKept
    TwiceOnlyAfterMishap
    OneCachePerFile
    ClearsWhatWasSent
    DeadlockNeedsCutStore
CHECK_DEADLOCK FALSE
