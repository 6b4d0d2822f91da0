\* Both jobs under fairness, with failures and a crash: everything past its time
\* goes in the end, but for an object the bucket refuses to delete, which takes up
\* one of the two places of the page.  Requests ask for nothing, for too much, for
\* a product that wraps into the accepted range and for one that wraps below zero.
\* No symmetry: liveness.
SPECIFICATION FairSpec
CONSTANTS
    DefaultTTL = 1
    MaxTTL = 2
    MaxShareCount = 3
    Hour = 1
    Word = 8
    Request = {r1}
    Key = {k1, k2}
    LegacyKey = {}
    User = {}
    Anon = anon
    Null = null
    AnonTTL = 1
    OwnedTTL = 2
    Replica = {w1}
    BatchSize = 2
    Faulty = {"uploads.Get", "uploads.Delete", "s3.Head", "s3.Delete", "shares.Delete", "audit.Record", "crash"}
    MaxTime = 2
    MaxFaults = 1
    TTL = {0, 3, 10, 5}
    UploadURLTTL = 0
    SessionTTL = 0
    StuckKey = {k2}
INVARIANTS
    LifeBounded
PROPERTIES
    FilesRetired
    SharesRetired
