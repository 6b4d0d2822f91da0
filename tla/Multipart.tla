----------------------------- MODULE Multipart -----------------------------
(***************************************************************************)
(* One multipart upload (internal/handlers/multipart.go and its calls in   *)
(* internal/storage/s3.go): Init, PresignPart, Complete and Abort, the     *)
(* client's part PUTs and the bucket.  The client sends any number of      *)
(* Complete and Abort calls, at the same time or again after an answer it  *)
(* did not like; each bucket call is a step.                               *)
(*                                                                         *)
(* A part is its size: two PUTs of one part differ in ETag when they       *)
(* differ in size.  The session ends at any time; a URL that has expired   *)
(* is one the client does not use.  A bucket call that fails may have      *)
(* taken effect; the S3 client repeats such a call and may then see its    *)
(* own effect as NoSuchUpload.                                             *)
(***************************************************************************)
EXTENDS FileNames

CONSTANTS
    Call,           \* Complete and Abort calls
    Name,           \* names a client asks for
    DeclaredSize,   \* sizes a client declares
    Part,           \* part numbers in use
    Size,           \* sizes of the parts a client really sends
    PartSize,
    MaxParts,
    MaxUploadBytes,
    PageSize,       \* parts in one page of the bucket's listing
    MaxFaults

ASSUME MultipartAssumption ==
    /\ Name \subseteq Seq(Char)
    /\ DeclaredSize \subseteq Nat \ {0}
    /\ Part \subseteq Nat \ {0} /\ IsFiniteSet(Part)
    /\ Size \subseteq Nat /\ IsFiniteSet(Size) /\ Size # {}
    /\ PartSize \in Nat \ {0} /\ MaxParts \in Nat
    /\ MaxUploadBytes \in Nat /\ PageSize \in Nat \ {0}
    /\ MaxFaults \in Nat

VARIABLES
    session,    \* "none", "open" or "gone" in the bucket; "refused" by Init
    upload,     \* what Init answered: key, name, declared size, part count
    urls,       \* parts the client has been given a URL for
    held,       \* held[p]: size of part p in the bucket
    object,     \* the object of the key: its parts and the call behind it
    pc,         \* pc[c]: next step of call c, or its answer
    want,       \* want[c]: the parts list of call c
    marker,     \* marker[c]: last part call c has listed
    total,      \* total[c]: bytes call c has counted
    late,       \* late[c], history: parts that arrived during call c
    faults

vars == <<session, upload, urls, held, object, pc, want, marker, total,
          late, faults>>

sessionVars == <<session, upload, urls, held, object>>

-----------------------------------------------------------------------------

Parts == UNION {[P -> Size] : P \in SUBSET Part}
Bytes(parts) == MapThenSumSet(LAMBDA p : parts[p], DOMAIN parts)

TypeOK ==
    /\ session \in {"none", "open", "gone", "refused"}
    /\ session \in {"open", "gone"} =>
          upload.size \in DeclaredSize /\ upload.count \in 1 .. MaxParts
    /\ urls \subseteq Part
    /\ held \in Parts
    /\ object # <<>> => object.parts \in Parts /\ object.by \in Call
    /\ pc \in [Call -> {"idle", "list", "abort", "finish", "ok", "aborted",
                        "notfound", "toolarge", "badrequest", "error"}]
    /\ want \in [Call -> Parts]
    /\ marker \in [Call -> Nat]
    /\ total \in [Call -> 0 .. Cardinality(Part) * Max(Size)]
    /\ late \in [Call -> SUBSET Part]
    /\ faults \in 0 .. MaxFaults

Init ==
    /\ session = "none"
    /\ upload = <<>>
    /\ urls = {}
    /\ held = <<>>
    /\ object = <<>>
    /\ pc = [c \in Call |-> "idle"]
    /\ want = [c \in Call |-> <<>>]
    /\ marker = [c \in Call |-> 0]
    /\ total = [c \in Call |-> 0]
    /\ late = [c \in Call |-> {}]
    /\ faults = 0

-----------------------------------------------------------------------------

NoFault == faults' = faults
Fault == faults < MaxFaults /\ faults' = faults + 1

(* Mutant: the remainder forgotten.                                        *)
PartCountDown(size) == size \div PartSize

PartCount(size) == (size + PartSize - 1) \div PartSize

(* The handler Init.  If the session or the upload row cannot be made the  *)
(* client is given nothing to go on with.                                  *)
InitUpload(name, size) ==
    LET file == SanitizeFilename(name)
    IN  /\ session = "none"
        /\ \/ /\ size > MaxUploadBytes \/ PartCount(size) > MaxParts
              /\ NoFault
              /\ session' = "refused"
              /\ UNCHANGED upload
           \/ /\ size <= MaxUploadBytes /\ PartCount(size) <= MaxParts
              /\ NoFault
              /\ session' = "open"
              /\ upload' = [key |-> Build(<<"u">>, file), name |-> file,
                            size |-> size, count |-> PartCount(size)]
           \/ /\ Fault
              /\ session' = "refused"
              /\ UNCHANGED upload
        /\ UNCHANGED <<urls, held, object, pc, want, marker, total, late>>

(* Signing is local: the session is not looked at.                         *)
PresignPart(p) ==
    /\ session \in {"open", "gone"}
    /\ ValidKey(upload.key)
    /\ p <= MaxParts
    /\ urls' = urls \cup {p}
    /\ UNCHANGED <<session, upload, held, object, pc, want, marker, total,
                   late, faults>>

PutPart(p, size) ==
    /\ session = "open"
    /\ p \in urls
    /\ held' = [q \in DOMAIN held \cup {p} |-> IF q = p THEN size ELSE held[q]]
    /\ late' = [c \in Call |-> IF pc[c] \in {"list", "finish"}
                               THEN late[c] \cup {p} ELSE late[c]]
    /\ UNCHANGED <<session, upload, urls, object, pc, want, marker, total, faults>>

(* The lifecycle rule of the bucket aborts the session.                    *)
ExpireSession ==
    /\ session = "open"
    /\ session' = "gone"
    /\ UNCHANGED <<upload, urls, held, object, pc, want, marker, total,
                   late, faults>>

-----------------------------------------------------------------------------

Goto(c, label) == pc' = [pc EXCEPT ![c] = label]

(* Mutant: any error of the bucket reads as NoSuchUpload.                  *)
FailedAlways(c) == Goto(c, "notfound")

(* multipartError for an error that wrapNoSuchUpload passed on.            *)
Failed(c) == Goto(c, "error")

NoSuchUpload(c) ==
    /\ session = "gone"
    /\ Goto(c, "notfound")

Complete(c, parts) ==
    /\ pc[c] = "idle"
    /\ session \in {"open", "gone"}
    /\ want' = [want EXCEPT ![c] = parts]
    /\ Goto(c, IF ValidKey(upload.key) THEN "list" ELSE "badrequest")
    /\ UNCHANGED <<sessionVars, marker, total, late, faults>>

(* Mutant: the page starts with the marker.                                *)
PageAtMarker(m) ==
    {p \in DOMAIN held :
       /\ p >= m
       /\ Cardinality({q \in DOMAIN held : m <= q /\ q <= p}) <= PageSize}

(* The next page of the listing after m, and whether there are more.       *)
Page(m) == {p \in DOMAIN held :
              /\ p > m
              /\ Cardinality({q \in DOMAIN held : m < q /\ q <= p}) <= PageSize}

Truncated(m) == \E p \in DOMAIN held : p > m /\ p \notin Page(m)

(* Mutant: the marker is not followed.                                     *)
ListFirstPage(c) ==
    LET sum == Bytes([p \in Page(0) |-> held[p]])
    IN  /\ pc[c] = "list" /\ session = "open"
        /\ NoFault
        /\ total' = [total EXCEPT ![c] = sum]
        /\ Goto(c, IF sum > MaxUploadBytes THEN "abort" ELSE "finish")
        /\ UNCHANGED <<sessionVars, want, marker, late>>

(* One page of ListParts; the last one is followed by the size check.      *)
ListParts(c) ==
    LET page == Page(marker[c])
        sum  == total[c] + Bytes([p \in page |-> held[p]])
    IN  /\ pc[c] = "list"
        /\ \/ /\ NoFault /\ session = "open"
              /\ total' = [total EXCEPT ![c] = sum]
              /\ IF Truncated(marker[c])
                 THEN /\ marker' = [marker EXCEPT ![c] = Max(page)]
                      /\ UNCHANGED pc
                 ELSE /\ Goto(c, IF sum > MaxUploadBytes THEN "abort" ELSE "finish")
                      /\ UNCHANGED marker
           \/ /\ NoFault /\ NoSuchUpload(c)
              /\ UNCHANGED <<marker, total>>
           \/ /\ Fault /\ Failed(c)
              /\ UNCHANGED <<marker, total>>
        /\ UNCHANGED <<sessionVars, want, late>>

(* The abort of an oversized upload; its error is only logged.             *)
AbortOversized(c) ==
    /\ pc[c] = "abort"
    /\ \/ NoFault /\ session' = "gone"
       \/ Fault /\ session' \in {session, "gone"}
    /\ Goto(c, "toolarge")
    /\ UNCHANGED <<upload, urls, held, object, want, marker, total, late>>

(* The bucket builds the object from the parts listed, if it holds them.   *)
Match(c) == /\ session = "open"
            /\ \A p \in DOMAIN want[c] : p \in DOMAIN held /\ held[p] = want[c][p]

Assemble(c) ==
    /\ Match(c)
    /\ object' = [parts |-> want[c], by |-> c]
    /\ session' = "gone"

FinishUpload(c) ==
    /\ pc[c] = "finish"
    /\ \/ NoFault /\ Assemble(c) /\ Goto(c, "ok")
       \/ /\ NoFault /\ session = "open" /\ ~ Match(c) /\ Failed(c)
          /\ UNCHANGED <<session, object>>
       \/ /\ NoFault /\ NoSuchUpload(c)
          /\ UNCHANGED <<session, object>>
       \/ Fault /\ Assemble(c) /\ (Failed(c) \/ Goto(c, "notfound"))
       \/ /\ Fault /\ Failed(c)
          /\ UNCHANGED <<session, object>>
    /\ UNCHANGED <<upload, urls, held, want, marker, total, late>>

(* Mutant: every error of the bucket passes for NoSuchUpload.              *)
AbortCareless(c) ==
    /\ pc[c] = "idle"
    /\ session \in {"open", "gone"}
    /\ \/ NoFault /\ session' = "gone"
       \/ Fault /\ UNCHANGED session
    /\ Goto(c, "aborted")
    /\ UNCHANGED <<upload, urls, held, object, want, marker, total, late>>

(* The handler Abort; a session that is gone counts as aborted.            *)
Abort(c) ==
    /\ pc[c] = "idle"
    /\ session \in {"open", "gone"}
    /\ IF ValidKey(upload.key)
       THEN \/ NoFault /\ session' = "gone" /\ Goto(c, "aborted")
            \/ Fault /\ session' \in {session, "gone"} /\ Failed(c)
       ELSE NoFault /\ UNCHANGED session /\ Goto(c, "badrequest")
    /\ UNCHANGED <<upload, urls, held, object, want, marker, total, late>>

Next ==
    \/ \E name \in Name, size \in DeclaredSize : InitUpload(name, size)
    \/ \E p \in Part : PresignPart(p)
    \/ \E p \in Part, size \in Size : PutPart(p, size)
    \/ ExpireSession
    \/ \E c \in Call, parts \in Parts : parts # <<>> /\ Complete(c, parts)
    \/ \E c \in Call :
          ListParts(c) \/ AbortOversized(c) \/ FinishUpload(c) \/ Abort(c)

Spec == Init /\ [][Next]_vars

-----------------------------------------------------------------------------

(* What Complete assembles is within the cap, but for the parts that      *)
(* arrived while that very call was listing or completing: every page of   *)
(* the listing is counted, whatever parts the client lists and whatever    *)
(* other call, failure or replaced part comes in between.                  *)
ExcessIsLate ==
    object # <<>> =>
        Bytes(Restrict(object.parts, DOMAIN object.parts \ late[object.by]))
            <= MaxUploadBytes

(* A client told "start it again", or that its upload is cancelled, never  *)
(* sees the old session land afterwards, whatever calls are still under    *)
(* way and whichever answers were lost.                                    *)
VerdictFinal ==
    [][(\E c \in Call : pc[c] \in {"notfound", "aborted"})
         => object' = object]_vars

(* The p-th slice of the file at the part size Init tells the client.      *)
Slice(p) == IF upload.size - (p - 1) * PartSize < PartSize
            THEN upload.size - (p - 1) * PartSize ELSE PartSize

(* A client that sends the slices 1 .. part_count and lists them gets its  *)
(* whole file: the part count of Init covers the declared size exactly.    *)
WholeFile ==
    object # <<>> /\ DOMAIN object.parts = 1 .. upload.count
    /\ (\A p \in 1 .. upload.count : object.parts[p] = Slice(p))
        => Bytes(object.parts) = upload.size

(* The name Complete reads off the key is the one Init gave the file.      *)
NameKept == session \in {"open", "gone"} => Split(upload.key).name = upload.name

-----------------------------------------------------------------------------

(* What the repository says and the code does not keep.                    *)

(* "Part PUTs aren't size-limited, so cap the total here against what the  *)
(* bucket actually holds": no object of a multipart upload is above the    *)
(* cap.                                                                    *)
SizeCapped == object # <<>> => Bytes(object.parts) <= MaxUploadBytes
=============================================================================
