\* Two replicas sweep two uploads (one per window, in either order) and leave a
\* legacy object alone, with up to two failures of any call or crashes.
SPECIFICATION Spec
CONSTANTS
    DefaultTTL = 2
    MaxTTL = 4
    MaxShareCount = 3
    Hour = 1
    Word = 64
    Request = {}
    Key = {k1, k2, old}
    LegacyKey = {old}
    User = {u1}
    Anon = anon
    Null = null
    AnonTTL = 1
    OwnedTTL = 2
    Replica = {w1, w2}
    BatchSize = 1
    Faulty = {"uploads.Create", "uploads.Delete", "uploads.Mark", "s3.Head", "s3.Delete", "audit.Record", "crash"}
    MaxTime = 3
    MaxFaults = 2
    TTL = {0}
    UploadURLTTL = 1
    SessionTTL = 1
    StuckKey = {}
SYMMETRY Symmetry
INVARIANTS
    ObjectTracked
    AuditedFileGone
PROPERTIES
    NoEarlyDeletion
