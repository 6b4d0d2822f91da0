\* One Complete call on a session of two parts of two bytes, a cap of three bytes
\* and no failures.
SPECIFICATION Spec
CONSTANTS
    Call = {c1}
    Name <- ClientNames
    DeclaredSize = {3}
    Part = {1, 2}
    Size = {2}
    PartSize = 2
    MaxParts = 2
    MaxUploadBytes = 3
    PageSize = 1
    MaxFaults = 0
    MaxFilenameLength = 4
    MaxExtLength = 2
    MaxKeyLength = 8
    WideBytes = 2
INVARIANTS
    SizeCapped
CHECK_DEADLOCK FALSE
