\* Three requests on one file, with revokes and lost answers.  No job runs and
\* the clock stands still: every order of the handlers' calls is explored.  The
\* behaviour ends when all requests have answered.
SPECIFICATION Spec
CONSTANTS
    DefaultTTL = 2
    MaxTTL = 4
    MaxShareCount = 2
    Hour = 1
    Word = 64
    Request = {r1, r2, r3}
    Key = {k1}
    LegacyKey = {}
    User = {u1, u2}
    Anon = anon
    Null = null
    AnonTTL = 2
    OwnedTTL = 4
    Replica = {}
    BatchSize = 2
    Faulty = {"shares.Get", "shares.Create", "shares.RotateCode", "uploads.Get"}
    MaxTime = 0
    MaxFaults = 1
    TTL = {0}
    UploadURLTTL = 0
    SessionTTL = 0
    StuckKey = {}
SYMMETRY Symmetry
INVARIANTS
    OwnerMintsCode
PROPERTIES
    LinksKept
CHECK_DEADLOCK FALSE
