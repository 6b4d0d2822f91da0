\* One re-share while a purge sweep holds its page, no failures.
SPECIFICATION Spec
CONSTANTS
    DefaultTTL = 1
    MaxTTL = 4
    MaxShareCount = 3
    Hour = 1
    Word = 64
    Request = {r1, r2}
    Key = {k1}
    LegacyKey = {}
    User = {}
    Anon = anon
    Null = null
    AnonTTL = 4
    OwnedTTL = 4
    Replica = {w1}
    BatchSize = 2
    Faulty = {}
    MaxTime = 3
    MaxFaults = 0
    TTL = {0}
    UploadURLTTL = 1
    SessionTTL = 2
    StuckKey = {}
PROPERTIES
    PurgeOnlyExpired
