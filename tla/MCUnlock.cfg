\* Three requests on two slugs, a malformed one and two addresses, with maps of
\* two keys, limits of two and one, and one restart.
SPECIFICATION Spec
CONSTANTS
    Attempt = {a1, a2, a3}
    Slug = {s1, s2}
    BadSlug = {bad}
    IP = {i1, i2}
    Limit <- Limits
    Window = 2
    MaxKeys = 2
    MaxTime = 3
    MaxBoots = 1
SYMMETRY Symmetry
INVARIANTS
    TypeOK
    AttemptsBounded
    LockoutEnds
PROPERTIES
    RefusalJustified
CHECK_DEADLOCK FALSE
