SPECIFICATION FairSpec
CONSTANTS
    Keys = {scan, benchmark}
    Benchmarks = {benchmark}
    Tokens = {t1, t2}
    Workers = {v1, v2}
    None = None
    Ttl = 2
    Lease = 2
    Evidence = 4
    RequestLimit = 1
    EventAge = 3
    JobTimeout = 2
INVARIANTS
    ClaimInv
    SkippedOnlyIfObsolete
PROPERTIES
    KeysComeFree
    KeepsLedger
