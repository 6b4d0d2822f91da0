\* Two requests and revokes against both jobs over one file and a moving clock,
\* with one failing share write, HEAD or object deletion, done or not done.
SPECIFICATION Spec
CONSTANTS
    DefaultTTL = 2
    MaxTTL = 4
    MaxShareCount = 3
    Hour = 1
    Word = 64
    Request = {r1, r2}
    Key = {k1}
    LegacyKey = {}
    User = {u1, u2}
    Anon = anon
    Null = null
    AnonTTL = 2
    OwnedTTL = 3
    Replica = {w1}
    BatchSize = 1
    Faulty = {"shares.Create", "shares.RotateCode", "shares.Delete", "s3.Head", "s3.Delete"}
    MaxTime = 4
    MaxFaults = 1
    TTL = {0}
    UploadURLTTL = 0
    SessionTTL = 1
    StuckKey = {}
SYMMETRY Symmetry
INVARIANTS
    TypeOK
    TrackedShareHasFile
    AuditedShareGone
    DeletionAudited
PROPERTIES
    LiveLinkKept
