\* Four requests re-share one file at the real limit of three codes, no failures.
SPECIFICATION Spec
CONSTANTS
    DefaultTTL = 2
    MaxTTL = 4
    MaxShareCount = 3
    Hour = 1
    Word = 64
    Request = {r1, r2, r3, r4}
    Key = {k1}
    LegacyKey = {}
    User = {}
    Anon = anon
    Null = null
    AnonTTL = 2
    OwnedTTL = 4
    Replica = {}
    BatchSize = 2
    Faulty = {}
    MaxTime = 0
    MaxFaults = 0
    TTL = {0}
    UploadURLTTL = 0
    SessionTTL = 0
    StuckKey = {}
SYMMETRY Symmetry
INVARIANTS
    CodeLimit
CHECK_DEADLOCK FALSE
