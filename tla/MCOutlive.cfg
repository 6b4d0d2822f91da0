\* One request overtaken by the retention job, no failures.
SPECIFICATION Spec
CONSTANTS
    DefaultTTL = 2
    MaxTTL = 4
    MaxShareCount = 3
    Hour = 1
    Word = 64
    Request = {r1}
    Key = {k1}
    LegacyKey = {}
    User = {}
    Anon = anon
    Null = null
    AnonTTL = 2
    OwnedTTL = 4
    Replica = {w1}
    BatchSize = 2
    Faulty = {}
    MaxTime = 4
    MaxFaults = 0
    TTL = {0}
    UploadURLTTL = 1
    SessionTTL = 2
    StuckKey = {}
INVARIANTS
    LiveShareHasFile
