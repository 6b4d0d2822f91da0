\* Two Complete or Abort calls on one session of up to two parts, a listing of
\* one part a page, a cap of three bytes and one failing bucket call.  The upload
\* ends when every call has answered.
SPECIFICATION Spec
CONSTANTS
    Call = {c1, c2}
    Name <- ClientNames
    DeclaredSize = {3, 4}
    Part = {1, 2}
    Size = {1, 2}
    PartSize = 2
    MaxParts = 2
    MaxUploadBytes = 3
    PageSize = 1
    MaxFaults = 1
    MaxFilenameLength = 4
    MaxExtLength = 2
    MaxKeyLength = 8
    WideBytes = 2
SYMMETRY Symmetry
INVARIANTS
    TypeOK
    ExcessIsLate
    WholeFile
    NameKept
PROPERTIES
    VerdictFinal
CHECK_DEADLOCK FALSE
