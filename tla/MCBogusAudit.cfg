\* One abandoned upload: the row of a presigned URL whose client never uploads.
\* One deletion of that row fails.
SPECIFICATION Spec
CONSTANTS
    DefaultTTL = 2
    MaxTTL = 4
    MaxShareCount = 3
    Hour = 1
    Word = 64
    Request = {}
    Key = {k1}
    LegacyKey = {}
    User = {}
    Anon = anon
    Null = null
    AnonTTL = 1
    OwnedTTL = 4
    Replica = {w1}
    BatchSize = 2
    Faulty = {"uploads.Delete"}
    MaxTime = 2
    MaxFaults = 1
    TTL = {0}
    UploadURLTTL = 0
    SessionTTL = 0
    StuckKey = {}
INVARIANTS
    AuditTruthful
