--------------------------- MODULE ArchiveProofs ---------------------------
(***************************************************************************)
(* Proofs about Archive for every choice of the constants: any number of   *)
(* requests, keys, users and replicas, any windows, any set of failing     *)
(* calls and no bound on time beyond MaxTime, which is arbitrary.          *)
(***************************************************************************)
EXTENDS Archive, TLAPS

-----------------------------------------------------------------------------
(* What the operators on shares and on the tables return.                  *)

(* The product of hours at the width of a Duration is an integer.          *)
LEMMA DurationInt ==
    ASSUME NEW hours \in TTL
    PROVE  Duration(hours) \in Int
<1> DEFINE low == (hours * Hour) % Word
<1>1. hours * Hour \in Int
  BY DomainAssumption, TTLAssumption
<1>2. low \in Int
  BY <1>1, DomainAssumption
<1> QED BY <1>2, DomainAssumption DEF Duration

(* The clamped life of a share is never negative and never above MaxTTL.   *)
LEMMA ClampNat ==
    ASSUME NEW ttl \in Int
    PROVE  ClampTTL(ttl) \in Nat /\ ClampTTL(ttl) <= MaxTTL
BY DomainAssumption DEF ClampTTL

(* NewShare builds a share.                                                *)
LEMMA NewShareType ==
    ASSUME NEW r \in Request, NEW key \in Key, NEW owner \in Owner,
           NEW ttl \in Int, NEW t \in Nat
    PROVE  NewShare(r, key, owner, <<r, 1>>, ttl, t) \in Share
<1>1. ClampTTL(ttl) \in Nat BY ClampNat
<1>2. <<r, 1>> \in Code BY DEF Code
<1> QED BY <1>1, <1>2 DEF NewShare, Share

(* Rotate leaves a share a share.                                          *)
LEMMA RotateType ==
    ASSUME NEW r \in Request, NEW x \in Share, NEW ttl \in Int, NEW t \in Nat
    PROVE  Rotate(x, <<r, 2>>, ttl, t) \in Share
<1>1. ClampTTL(ttl) \in Nat BY ClampNat
<1>2. <<r, 2>> \in Code BY DEF Code
<1>3. /\ x.count + 1 \in Nat
      /\ t + ClampTTL(ttl) \in Nat
      /\ DOMAIN x = {"slug", "key", "owner", "code", "count", "expires"}
    BY <1>1 DEF Share
<1> QED BY <1>1, <1>2, <1>3 DEF Rotate, Share

(* capToRetention leaves a share a share.                                  *)
LEMMA CappedType ==
    ASSUME NEW x \in Share, NEW u \in Upload
    PROVE  CappedBy(x, u) \in Share
<1>1. Window(u.owner) \in Int BY CatalogAssumption DEF Window
<1>2. u.created \in Nat BY DEF Upload
<1> QED BY <1>1, <1>2 DEF CappedBy, Share

(* RotateCode keeps a table of shares a table of shares.                   *)
LEMMA RotateCodeType ==
    ASSUME shares \subseteq Share, NEW x \in Share
    PROVE  RotateCode(x) \subseteq Share
BY DEF RotateCode, Share

(* MarkDeleteFailed keeps a table of uploads a table of uploads.           *)
LEMMA MarkType ==
    ASSUME uploads \subseteq Upload, NEW k
    PROVE  MarkDeleteFailed(k) \subseteq Upload
BY DEF MarkDeleteFailed, Upload

-----------------------------------------------------------------------------
(* Type correctness, one lemma per component.                              *)

(* A share request or a revoke keeps every variable in its type.           *)
LEMMA ShareStepType == TypeOK /\ ShareStep => TypeOK'
<1> SUFFICES ASSUME TypeOK, ShareStep PROVE TypeOK'
  OBVIOUS
<1> USE DEF TypeOK
<1>0. UploadTypeOK' /\ RetentionTypeOK' /\ PurgeTypeOK'
  BY DEF ShareStep, uploadVars, retentionVars, purgeVars, UploadTypeOK,
         RetentionTypeOK, PurgeTypeOK
<1>1. CASE \E r \in Request, key \in Key, user \in Owner, ttl \in TTL :
              CreateShare(r, key, user, ttl)
  <2> PICK r \in Request, key \in Key, user \in Owner, ttl \in TTL :
             CreateShare(r, key, user, ttl)
    BY <1>1
  <2>1. [key |-> key, user |-> user, ttl |-> ttl] \in Arg
    BY DEF Arg
  <2>2. SharesOf(key) \subseteq Share
    BY DEF SharesOf, CatalogTypeOK
  <2>3. CatalogTypeOK'
    BY DEF CreateShare, LookUp, CatalogTypeOK, NoFault, Fault
  <2>4. ApiTypeOK'
    BY <2>1, <2>2 DEF CreateShare, LookUp, Goto, ApiTypeOK, Pending, Answer
  <2> QED BY <1>0, <2>3, <2>4
<1>2. CASE \E r \in Request : ShareRequestStep(r)
  <2> PICK r \in Request : ShareRequestStep(r)
    BY <1>2
  <2>0. revoked' = revoked
    BY DEF ShareRequestStep
  <2>1. CASE HeadNew(r)
    <3>0. Duration(arg[r].ttl) \in Int
      BY <2>1, DurationInt DEF HeadNew, ApiTypeOK, Arg
    <3>1. NewShare(r, arg[r].key, arg[r].user, <<r, 1>>,
                   Duration(arg[r].ttl), now) \in Share
      BY <2>1, <3>0, NewShareType DEF HeadNew, ApiTypeOK, CatalogTypeOK, Arg
    <3>2. CatalogTypeOK'
      BY <2>1 DEF HeadNew, HeadObject, CatalogTypeOK, NoFault, Fault
    <3>3. ApiTypeOK'
      BY <2>0, <2>1, <3>1 DEF HeadNew, HeadObject, Goto, ApiTypeOK, Pending, Answer
    <3> QED BY <1>0, <3>2, <3>3
  <2>2. CASE HeadRotate(r)
    <3>0. Duration(arg[r].ttl) \in Int
      BY <2>2, DurationInt DEF HeadRotate, ApiTypeOK, Arg
    <3>1. Rotate(draft[r], <<r, 2>>, Duration(arg[r].ttl), now) \in Share
      BY <2>2, <3>0, RotateType DEF HeadRotate, ApiTypeOK, CatalogTypeOK, Arg
    <3>2. CatalogTypeOK'
      BY <2>2 DEF HeadRotate, HeadObject, CatalogTypeOK, NoFault, Fault
    <3>3. ApiTypeOK'
      BY <2>0, <2>2, <3>1
         DEF HeadRotate, HeadObject, Goto, ApiTypeOK, Pending, Answer
    <3> QED BY <1>0, <3>2, <3>3
  <2>3. CASE CapToRetention(r)
    <3>1. \A u \in uploads : CappedBy(draft[r], u) \in Share
      BY <2>3, CappedType DEF CapToRetention, ApiTypeOK, CatalogTypeOK
    <3>2. CatalogTypeOK'
      BY <2>3 DEF CapToRetention, CatalogTypeOK, NoFault, Fault
    <3>3. ApiTypeOK'
      BY <2>0, <2>3, <3>1 DEF CapToRetention, ApiTypeOK, Pending, Answer
    <3> QED BY <1>0, <3>2, <3>3
  <2>4. CASE InsertShare(r)
    <3>1. CatalogTypeOK'
      BY <2>4 DEF InsertShare, ApiTypeOK, CatalogTypeOK, NoFault, Fault
    <3>2. ApiTypeOK'
      BY <2>0, <2>4 DEF InsertShare, Goto, ApiTypeOK, Pending, Answer
    <3> QED BY <1>0, <3>1, <3>2
  <2>5. CASE RotateRacer(r)
    <3>1. SharesOf(arg[r].key) \subseteq Share
      BY DEF SharesOf, CatalogTypeOK
    <3>2. CatalogTypeOK'
      BY <2>5 DEF RotateRacer, LookUp, CatalogTypeOK, NoFault, Fault
    <3>3. ApiTypeOK'
      BY <2>0, <2>5, <3>1
         DEF RotateRacer, LookUp, Goto, ApiTypeOK, Pending, Answer
    <3> QED BY <1>0, <3>2, <3>3
  <2>6. CASE WriteRotation(r)
    <3>1. RotateCode(draft[r]) \subseteq Share
      BY <2>6, RotateCodeType DEF WriteRotation, ApiTypeOK, CatalogTypeOK
    <3>2. CatalogTypeOK'
      BY <2>6, <3>1 DEF WriteRotation, CatalogTypeOK, NoFault, Fault
    <3>3. ApiTypeOK'
      BY <2>0, <2>6 DEF WriteRotation, Goto, ApiTypeOK, Pending, Answer
    <3> QED BY <1>0, <3>2, <3>3
  <2> QED BY <2>1, <2>2, <2>3, <2>4, <2>5, <2>6 DEF ShareRequestStep
<1>3. CASE \E user \in User, slug \in Request : RevokeShare(user, slug)
  <2>1. CatalogTypeOK'
    BY <1>3 DEF RevokeShare, DeleteOwned, CatalogTypeOK
  <2>2. shares \subseteq Share
    BY DEF CatalogTypeOK
  <2>3. revoked' \subseteq [slug: Request, by: User]
    BY <1>3, <2>2 DEF RevokeShare, ApiTypeOK, Share
  <2>4. ApiTypeOK'
    BY <1>3, <2>3 DEF RevokeShare, ApiTypeOK
  <2> QED BY <1>0, <2>1, <2>4
<1> QED BY <1>1, <1>2, <1>3 DEF ShareStep

(* An upload keeps every variable in its type.                             *)
LEMMA ClientStepType == TypeOK /\ ClientStep => TypeOK'
<1> SUFFICES ASSUME TypeOK, ClientStep PROVE TypeOK'
  OBVIOUS
<1> USE DEF TypeOK
<1>0. ApiTypeOK' /\ RetentionTypeOK' /\ PurgeTypeOK'
  BY DEF ClientStep, apiVars, retentionVars, purgeVars, ApiTypeOK,
         RetentionTypeOK, PurgeTypeOK
<1> PICK key \in Key : UploadStep(key)
  BY DEF ClientStep
<1>1. ASSUME NEW user \in Owner, NEW kind \in {"put", "session"},
             RecordUploadFor(key, user, kind)
      PROVE  CatalogTypeOK' /\ UploadTypeOK'
  <2>1. UploadRow(key, user) \in Upload
    BY DEF UploadRow, Upload, CatalogTypeOK
  <2>2. \A k \in {"put", "session", "void"} :
           [kind |-> k, at |-> now, owner |-> user] \in Grant
    BY DEF Grant, CatalogTypeOK
  <2>3. CatalogTypeOK'
    BY <1>1, <2>1 DEF RecordUploadFor, CatalogTypeOK, NoFault, Fault
  <2>4. UploadTypeOK'
    BY <1>1, <2>2 DEF RecordUploadFor, UploadTypeOK
  <2> QED BY <2>3, <2>4
<1>2. CASE PutObject(key)
  BY <1>0, <1>2 DEF PutObject, Land, CatalogTypeOK, UploadTypeOK
<1>3. [grant EXCEPT ![key].kind = "void"] \in [Key -> Grant]
  BY DEF UploadTypeOK, Grant
<1>4. CASE CompleteMultipart(key)
  BY <1>0, <1>3, <1>4 DEF CompleteMultipart, Land, CatalogTypeOK, UploadTypeOK
<1>5. CASE AbortMultipart(key)
  BY <1>0, <1>3, <1>5 DEF AbortMultipart, CatalogTypeOK, UploadTypeOK
<1> QED BY <1>0, <1>1, <1>2, <1>4, <1>5
        DEF UploadStep, PresignUpload, MultipartInit

(* A step of the retention job keeps every variable in its type.           *)
LEMMA RetainType ==
    ASSUME NEW w \in Replica, TypeOK, Retain(w)
    PROVE  TypeOK'
<1> USE DEF TypeOK
<1>0. ApiTypeOK' /\ UploadTypeOK' /\ PurgeTypeOK'
  BY DEF Retain, apiVars, uploadVars, purgeVars, ApiTypeOK, UploadTypeOK,
         PurgeTypeOK
<1> SUFFICES CatalogTypeOK' /\ RetentionTypeOK'
  BY <1>0
<1> USE DEF RetentionLabel, NextCall, Done, NoFault, Fault
<1>1. CASE StartRetention(w)
  <2>1. \A P \in UploadPages : P \subseteq Upload
    BY DEF UploadPages, ExpiredUploads, CatalogTypeOK
  <2> QED BY <1>1, <2>1 DEF StartRetention, CatalogTypeOK, RetentionTypeOK
<1>2. CASE HeadUpload(w)
  <2>1. batch[w] \subseteq Upload
    BY DEF RetentionTypeOK
  <2>2. CatalogTypeOK'
    BY <1>2 DEF HeadUpload, CatalogTypeOK
  <2>3. RetentionTypeOK'
    BY <1>2, <2>1 DEF HeadUpload, RetentionTypeOK
  <2> QED BY <2>2, <2>3
<1>3. CASE DropOrphan(w)
  <2>1. CatalogTypeOK'
    BY <1>3 DEF DropOrphan, DeleteUpload, CatalogTypeOK
  <2>2. RetentionTypeOK'
    BY <1>3 DEF DropOrphan, RetentionTypeOK
  <2> QED BY <2>1, <2>2
<1>4. CASE DeleteObject(w)
  BY <1>4 DEF DeleteObject, CatalogTypeOK, RetentionTypeOK
<1>5. CASE DeleteShares(w)
  BY <1>5 DEF DeleteShares, DeleteByStorageKey, CatalogTypeOK, RetentionTypeOK
<1>6. CASE DeleteRow(w)
  BY <1>6 DEF DeleteRow, DeleteUpload, CatalogTypeOK, RetentionTypeOK
<1>7. CASE MarkFailed(w)
  <2>1. MarkDeleteFailed(cur[w].key) \subseteq Upload
    BY MarkType DEF CatalogTypeOK
  <2>2. CatalogTypeOK'
    BY <1>7, <2>1 DEF MarkFailed, CatalogTypeOK
  <2>3. RetentionTypeOK'
    BY <1>7 DEF MarkFailed, RetentionTypeOK
  <2> QED BY <2>2, <2>3
<1>8. CASE AuditUpload(w)
  <2>1. cur[w].key \in Key
    BY <1>8 DEF AuditUpload, RetentionTypeOK, Upload
  <2>2. \A a \in {"purge_upload", "purge_upload_failed"} :
           [action |-> a, subject |-> cur[w].key] \in AuditEntry
    BY <2>1 DEF AuditEntry
  <2>3. CatalogTypeOK'
    BY <1>8, <2>2 DEF AuditUpload, Record, CatalogTypeOK
  <2>4. RetentionTypeOK'
    BY <1>8 DEF AuditUpload, RetentionTypeOK
  <2> QED BY <2>3, <2>4
<1> QED BY <1>1, <1>2, <1>3, <1>4, <1>5, <1>6, <1>7, <1>8
        DEF Retain, RetentionStep

(* A step of the purge job keeps every variable in its type.               *)
LEMMA PurgeType ==
    ASSUME NEW w \in Replica, TypeOK, Purge(w)
    PROVE  TypeOK'
<1> USE DEF TypeOK
<1>0. ApiTypeOK' /\ UploadTypeOK' /\ RetentionTypeOK'
  BY DEF Purge, apiVars, uploadVars, retentionVars, ApiTypeOK, UploadTypeOK,
         RetentionTypeOK
<1> SUFFICES CatalogTypeOK' /\ PurgeTypeOK'
  BY <1>0
<1> USE DEF NoFault, Fault
<1>1. CASE StartPurge(w)
  <2>1. \A P \in SharePages : P \subseteq Share
    BY DEF SharePages, ExpiredShares, CatalogTypeOK
  <2> QED BY <1>1, <2>1 DEF StartPurge, CatalogTypeOK, PurgeTypeOK
<1>2. CASE DeleteExpired(w)
  <2>1. page[w] \subseteq Share
    BY DEF PurgeTypeOK
  <2>2. CatalogTypeOK'
    BY <1>2 DEF DeleteExpired, DeleteBySlug, CatalogTypeOK
  <2>3. PurgeTypeOK'
    BY <1>2, <2>1 DEF DeleteExpired, PurgeTypeOK
  <2> QED BY <2>2, <2>3
<1>3. CASE AuditShare(w)
  <2>1. purging[w].slug \in Request
    BY <1>3 DEF AuditShare, PurgeTypeOK, Share
  <2>2. [action |-> "purge_share", subject |-> purging[w].slug] \in AuditEntry
    BY <2>1 DEF AuditEntry
  <2>3. CatalogTypeOK'
    BY <1>3, <2>2 DEF AuditShare, Record, CatalogTypeOK
  <2>4. PurgeTypeOK'
    BY <1>3 DEF AuditShare, PurgeTypeOK
  <2> QED BY <2>3, <2>4
<1> QED BY <1>1, <1>2, <1>3 DEF Purge, PurgeStep

(* A crash of a replica keeps every variable in its type.                  *)
LEMMA CrashType ==
    ASSUME NEW w \in Replica, TypeOK, Crash(w)
    PROVE  TypeOK'
<1>1. CatalogTypeOK'
  BY DEF TypeOK, Crash, Fault, CatalogTypeOK
<1>2. ApiTypeOK' /\ UploadTypeOK'
  BY DEF TypeOK, Crash, apiVars, uploadVars, ApiTypeOK, UploadTypeOK
<1>3. RetentionTypeOK'
  BY DEF TypeOK, Crash, CrashRetention, Done, NextCall, RetentionTypeOK,
         RetentionLabel
<1>4. PurgeTypeOK'
  BY DEF TypeOK, Crash, CrashPurge, PurgeTypeOK
<1> QED BY <1>1, <1>2, <1>3, <1>4 DEF TypeOK

(* The clock keeps every variable in its type.                             *)
LEMMA ClockType == TypeOK /\ Clock => TypeOK'
BY DEF TypeOK, Clock, Tick, apiVars, uploadVars, retentionVars, purgeVars,
       CatalogTypeOK, ApiTypeOK, UploadTypeOK, RetentionTypeOK, PurgeTypeOK

(* Every variable stays in its type, whatever fails and in whatever order  *)
(* handlers and jobs run: no handler reaches a label without the record    *)
(* that label dereferences (a nil share or upload in the code).            *)
THEOREM TypeCorrect == Spec => []TypeOK
<1>1. Init => TypeOK
  <2> SUFFICES ASSUME Init PROVE TypeOK
    OBVIOUS
  <2>1. CatalogTypeOK
    BY CatalogAssumption DEF Init, CatalogInit, CatalogTypeOK
  <2>2. ApiTypeOK
    BY DEF Init, ApiInit, ApiTypeOK, Pending, Answer
  <2>3. UploadTypeOK
    BY CatalogAssumption DEF Init, UploadInit, UploadTypeOK, Grant, Owner
  <2>4. RetentionTypeOK
    BY DEF Init, RetentionInit, RetentionTypeOK, RetentionLabel
  <2>5. PurgeTypeOK
    BY DEF Init, PurgeInit, PurgeTypeOK
  <2> QED BY <2>1, <2>2, <2>3, <2>4, <2>5 DEF TypeOK
<1>2. TypeOK /\ [Next]_vars => TypeOK'
  <2> SUFFICES ASSUME TypeOK, [Next]_vars PROVE TypeOK'
    OBVIOUS
  <2>1. CASE ShareStep BY <2>1, ShareStepType
  <2>2. CASE ClientStep BY <2>2, ClientStepType
  <2>3. CASE \E w \in Replica : Retain(w) BY <2>3, RetainType
  <2>4. CASE \E w \in Replica : Purge(w) BY <2>4, PurgeType
  <2>5. CASE \E w \in Replica : Crash(w) BY <2>5, CrashType
  <2>6. CASE Clock BY <2>6, ClockType
  <2>7. CASE UNCHANGED vars
    BY <2>7 DEF vars, TypeOK, CatalogTypeOK, ApiTypeOK, UploadTypeOK,
                RetentionTypeOK, PurgeTypeOK
  <2> QED BY <2>1, <2>2, <2>3, <2>4, <2>5, <2>6, <2>7 DEF Next
<1> QED BY <1>1, <1>2, PTL DEF Spec

-----------------------------------------------------------------------------
(* What each component leaves alone.                                       *)

(* The share endpoints write to the table of shares only.                  *)
LEMMA ShareFrame ==
    ASSUME ShareStep
    PROVE  UNCHANGED <<now, uploads, objects, audit, grant, landed,
                       rpc, batch, cur, page, purging>>
<1>1. UNCHANGED <<grant, landed, rpc, batch, cur, page, purging>>
  BY DEF ShareStep, uploadVars, retentionVars, purgeVars
<1>2. ASSUME NEW r \in Request, NEW key \in Key, NEW user \in Owner,
             NEW ttl \in TTL, CreateShare(r, key, user, ttl)
      PROVE  UNCHANGED <<now, uploads, objects, audit>>
  BY <1>2 DEF CreateShare, LookUp
<1>3. ASSUME NEW r \in Request, ShareRequestStep(r)
      PROVE  UNCHANGED <<now, uploads, objects, audit>>
  <2>1. CASE HeadNew(r) BY <2>1 DEF HeadNew, HeadObject
  <2>2. CASE HeadRotate(r) BY <2>2 DEF HeadRotate, HeadObject
  <2>3. CASE CapToRetention(r) BY <2>3 DEF CapToRetention
  <2>4. CASE InsertShare(r) BY <2>4 DEF InsertShare
  <2>5. CASE RotateRacer(r) BY <2>5 DEF RotateRacer, LookUp
  <2>6. CASE WriteRotation(r) BY <2>6 DEF WriteRotation
  <2> QED BY <1>3, <2>1, <2>2, <2>3, <2>4, <2>5, <2>6 DEF ShareRequestStep
<1>4. ASSUME NEW user \in User, NEW slug \in Request, RevokeShare(user, slug)
      PROVE  UNCHANGED <<now, uploads, objects, audit>>
  BY <1>4 DEF RevokeShare
<1> QED BY <1>1, <1>2, <1>3, <1>4 DEF ShareStep

(* Uploads do not touch shares, the audit trail or the jobs.               *)
LEMMA ClientFrame ==
    ASSUME ClientStep
    PROVE  UNCHANGED <<now, shares, audit, pc, arg, draft,
                       rpc, batch, cur, page, purging>>
<1>1. UNCHANGED <<pc, arg, draft, rpc, batch, cur, page, purging>>
  BY DEF ClientStep, apiVars, retentionVars, purgeVars
<1>2. UNCHANGED <<now, shares, audit>>
  BY DEF ClientStep, UploadStep, PresignUpload, MultipartInit,
         RecordUploadFor, PutObject, CompleteMultipart, AbortMultipart, Land
<1> QED BY <1>1, <1>2

(* The retention job leaves requests, grants and the other job alone.      *)
LEMMA RetainFrame ==
    ASSUME NEW w \in Replica, Retain(w)
    PROVE  UNCHANGED <<now, pc, arg, draft, grant, landed, page, purging>>
BY DEF Retain, apiVars, uploadVars, purgeVars, RetentionStep, StartRetention,
       HeadUpload, DropOrphan, DeleteObject, DeleteShares, DeleteRow,
       MarkFailed, AuditUpload

(* The purge job leaves uploads and objects alone.                         *)
LEMMA PurgeFrame ==
    ASSUME NEW w \in Replica, Purge(w)
    PROVE  UNCHANGED <<now, uploads, objects, pc, arg, draft, grant, landed,
                       rpc, batch, cur>>
BY DEF Purge, apiVars, uploadVars, retentionVars, PurgeStep, StartPurge,
       DeleteExpired, AuditShare
=============================================================================
