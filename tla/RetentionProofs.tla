-------------------------- MODULE RetentionProofs --------------------------
(***************************************************************************)
(* What the retention job may do to the bucket, for every choice of the    *)
(* constants.                                                              *)
(*                                                                         *)
(* The job acts on snapshots that may be arbitrarily old, and several      *)
(* replicas act on the same ones.  WindowInv says why that is safe: an     *)
(* upload row, wherever a copy of it is held, tells the truth about when   *)
(* its key was granted and to whom, and a copy in the hands of the job was *)
(* past its window when it was read and therefore still is.                *)
(***************************************************************************)
EXTENDS ArchiveProofs

(* up describes the grant of its key.                                      *)
Faithful(up) ==
    /\ up.key \in Key \ LegacyKey
    /\ grant[up.key].kind # "none"
    /\ up.created = grant[up.key].at
    /\ up.owner = grant[up.key].owner

PastWindow(up) == up.created < now - Window(up.owner)

WindowInv ==
    /\ \A k \in LegacyKey : grant[k].kind = "void"
    /\ \A u \in uploads : Faithful(u)
    /\ \A w \in Replica : \A u \in batch[w] : Faithful(u) /\ PastWindow(u)
    /\ \A w \in Replica :
          rpc[w] # "loop" => Faithful(cur[w]) /\ PastWindow(cur[w])

(* Granted keys keep their date and owner, and time does not run back.     *)
LEMMA GrantStable ==
    ASSUME TypeOK, [Next]_vars
    PROVE  /\ now' >= now
           /\ \A k \in Key : grant[k].kind # "none" =>
                 /\ grant'[k].kind # "none"
                 /\ grant'[k].at = grant[k].at
                 /\ grant'[k].owner = grant[k].owner
           /\ \A k \in Key : grant[k].kind = "void" => grant'[k] = grant[k]
<1> USE DEF TypeOK, CatalogTypeOK, UploadTypeOK, Grant
<1>1. CASE ClientStep
  <2> PICK key \in Key : UploadStep(key)
    BY <1>1 DEF ClientStep
  <2>1. now' = now
    BY DEF UploadStep, PresignUpload, MultipartInit, RecordUploadFor,
           PutObject, CompleteMultipart, AbortMultipart, Land
  <2>2. ASSUME NEW user \in Owner, NEW kind \in {"put", "session"},
               RecordUploadFor(key, user, kind)
        PROVE  /\ grant[key].kind = "none"
               /\ \A k \in Key \ {key} : grant'[k] = grant[k]
    BY <2>2 DEF RecordUploadFor
  <2>3. CASE PutObject(key)
    BY <2>1, <2>3 DEF PutObject
  <2>4. CASE CompleteMultipart(key) \/ AbortMultipart(key)
    <3>1. /\ grant[key].kind = "session"
          /\ grant' = [grant EXCEPT ![key].kind = "void"]
      BY <2>4 DEF CompleteMultipart, AbortMultipart, SessionOpen
    <3> QED BY <2>1, <3>1
  <2> QED BY <2>1, <2>2, <2>3, <2>4 DEF UploadStep, PresignUpload, MultipartInit
<1>2. CASE UNCHANGED grant /\ now' >= now
  BY <1>2
<1>3. CASE ShareStep
  BY <1>2, <1>3, ShareFrame
<1>4. CASE \E w \in Replica : Retain(w) \/ Purge(w) \/ Crash(w)
  BY <1>2, <1>4, RetainFrame, PurgeFrame DEF Crash, uploadVars
<1>5. CASE Clock
  BY <1>2, <1>5 DEF Clock, Tick, uploadVars
<1>6. CASE UNCHANGED vars
  BY <1>2, <1>6 DEF vars
<1> QED BY <1>1, <1>3, <1>4, <1>5, <1>6 DEF Next

(* Time does not run back.                                                 *)
LEMMA TimeGoesOn ==
    ASSUME TypeOK, TypeOK', [Next]_vars
    PROVE  now \in Nat /\ now' \in Nat /\ now <= now'
BY GrantStable DEF TypeOK, CatalogTypeOK

(* Hence a faithful copy stays faithful and a copy past its window stays   *)
(* past it.                                                                *)
LEMMA CopyStable ==
    ASSUME TypeOK, [Next]_vars, TypeOK'
    PROVE  \A u \in Upload :
              /\ Faithful(u) => Faithful(u)'
              /\ PastWindow(u) => PastWindow(u)'
<1> TAKE u \in Upload
<1>1. Window(u.owner) \in Int
  BY CatalogAssumption DEF Window
<1>2. u.created \in Nat /\ now \in Nat /\ now' \in Nat
  BY DEF Upload, TypeOK, CatalogTypeOK
<1>3. PastWindow(u) => PastWindow(u)'
  BY <1>1, <1>2, GrantStable DEF PastWindow, Window
<1>4. Faithful(u) => Faithful(u)'
  BY GrantStable DEF Faithful
<1> QED BY <1>3, <1>4

(* Every row in the table and every copy the job takes or keeps comes from *)
(* a grant, an old row or an old copy.                                     *)
LEMMA RowOrigin ==
    ASSUME TypeOK, TypeOK', WindowInv, [Next]_vars
    PROVE  /\ \A u \in uploads' : Faithful(u)'
           /\ \A w \in Replica : \A u \in batch'[w] :
                 u \in batch[w] \/ (u \in uploads /\ PastWindow(u))
           /\ \A w \in Replica : rpc'[w] # "loop" =>
                 \/ rpc[w] # "loop" /\ cur'[w] = cur[w]
                 \/ cur'[w] \in batch[w]
<1> USE DEF TypeOK
<1>0. ASSUME UNCHANGED <<uploads, grant>> PROVE \A u \in uploads' : Faithful(u)'
  BY <1>0 DEF WindowInv, Faithful
<1>1. CASE ShareStep
  BY <1>0, <1>1, ShareFrame
<1>2. CASE ClientStep
  <2>1. UNCHANGED <<batch, rpc, cur>>
    BY <1>2, ClientFrame
  <2> PICK key \in Key : UploadStep(key)
    BY <1>2 DEF ClientStep
  <2>2. \A u \in uploads : Faithful(u)'
    BY CopyStable DEF WindowInv, CatalogTypeOK
  <2>3. ASSUME NEW user \in Owner, NEW kind \in {"put", "session"},
               RecordUploadFor(key, user, kind)
        PROVE  \A u \in uploads' : Faithful(u)'
    <3>1. key \notin LegacyKey
      BY <2>3 DEF RecordUploadFor, WindowInv
    <3>2. /\ grant'[key].kind # "none"
          /\ grant'[key].at = now
          /\ grant'[key].owner = user
      BY <2>3 DEF RecordUploadFor, UploadTypeOK
    <3>3. ASSUME NEW u, u = UploadRow(key, user) PROVE Faithful(u)'
      BY <3>1, <3>2, <3>3 DEF Faithful, UploadRow
    <3>4. \A u \in uploads' : u \in uploads \/ u = UploadRow(key, user)
      BY <2>3 DEF RecordUploadFor
    <3> QED BY <2>2, <3>3, <3>4
  <2>4. CASE UNCHANGED uploads
    BY <2>1, <2>2, <2>4
  <2> QED BY <2>1, <2>3, <2>4 DEF UploadStep, PresignUpload, MultipartInit,
      PutObject, CompleteMultipart, AbortMultipart, Land
<1>3. CASE \E w \in Replica : Retain(w)
  <2> PICK w \in Replica : Retain(w)
    BY <1>3
  <2> USE DEF Retain, uploadVars
  <2>1. CASE StartRetention(w)
    <3>1. \A P \in UploadPages : \A u \in P : u \in uploads /\ PastWindow(u)
      BY DEF UploadPages, ExpiredUploads, PastWindow
    <3> QED BY <1>0, <2>1, <3>1 DEF StartRetention, RetentionTypeOK
  <2>2. CASE HeadUpload(w)
    BY <1>0, <2>2 DEF HeadUpload, NextCall, RetentionTypeOK
  <2>3. CASE DropOrphan(w) \/ DeleteRow(w)
    BY <2>3 DEF DropOrphan, DeleteRow, DeleteUpload, NextCall, Done,
       RetentionTypeOK, WindowInv, Faithful
  <2>4. CASE DeleteObject(w) \/ DeleteShares(w) \/ AuditUpload(w)
    BY <1>0, <2>4 DEF DeleteObject, DeleteShares, AuditUpload, NextCall, Done,
       RetentionTypeOK
  <2>5. CASE MarkFailed(w)
    <3>1. \A u \in uploads' : \E v \in uploads :
             u.key = v.key /\ u.created = v.created /\ u.owner = v.owner
      BY <2>5 DEF MarkFailed, MarkDeleteFailed, CatalogTypeOK, Upload
    <3>2. \A u \in uploads' : Faithful(u)'
      BY <3>1 DEF WindowInv, Faithful
    <3> QED BY <2>5, <3>2 DEF MarkFailed, NextCall, Done, RetentionTypeOK
  <2> QED BY <2>1, <2>2, <2>3, <2>4, <2>5 DEF RetentionStep
<1>4. CASE \E w \in Replica : Purge(w)
  BY <1>0, <1>4, PurgeFrame
<1>5. CASE \E w \in Replica : Crash(w)
  BY <1>0, <1>5 DEF Crash, uploadVars, CrashRetention, Done, NextCall,
     RetentionTypeOK
<1>6. CASE Clock
  BY <1>0, <1>6 DEF Clock, Tick, uploadVars, retentionVars
<1>7. CASE UNCHANGED vars
  BY <1>0, <1>7 DEF vars
<1> QED BY <1>1, <1>2, <1>3, <1>4, <1>5, <1>6, <1>7 DEF Next

(* WindowInv is inductive relative to the types.                           *)
THEOREM WindowInvariance == Spec => []WindowInv
<1>1. Init => WindowInv
  BY CatalogAssumption
     DEF Init, CatalogInit, UploadInit, RetentionInit, WindowInv
<1>2. TypeOK /\ TypeOK' /\ WindowInv /\ [Next]_vars => WindowInv'
  <2> SUFFICES ASSUME TypeOK, TypeOK', WindowInv, [Next]_vars PROVE WindowInv'
    OBVIOUS
  <2>1. uploads \subseteq Upload
    BY DEF TypeOK, CatalogTypeOK
  <2>2. \A w \in Replica : batch[w] \subseteq Upload
    BY DEF TypeOK, RetentionTypeOK
  <2>3. \A k \in LegacyKey : grant'[k].kind = "void"
    BY GrantStable, CatalogAssumption DEF WindowInv
  <2>4. \A w \in Replica : \A u \in batch'[w] : Faithful(u)' /\ PastWindow(u)'
    BY <2>1, <2>2, RowOrigin, CopyStable DEF WindowInv
  <2>5. ASSUME NEW w \in Replica, rpc'[w] # "loop"
        PROVE  /\ cur'[w] \in Upload
               /\ Faithful(cur'[w])
               /\ PastWindow(cur'[w])
    BY <2>2, <2>5, RowOrigin DEF WindowInv, TypeOK, RetentionTypeOK
  <2>6. \A w \in Replica : rpc'[w] # "loop" =>
           \A u : u = cur'[w] => Faithful(u)' /\ PastWindow(u)'
    BY <2>5, CopyStable
  <2>7. \A w \in Replica : rpc'[w] # "loop" =>
           (Faithful(cur[w]) /\ PastWindow(cur[w]))'
    BY <2>6 DEF Faithful, PastWindow
  <2> QED BY <2>3, <2>4, <2>7, RowOrigin DEF WindowInv
<1> QED BY <1>1, <1>2, TypeCorrect, PTL DEF Spec

(* Only DeleteObject takes an object from the bucket.                      *)
LEMMA RemovalStep ==
    ASSUME [Next]_vars, NEW k \in objects, k \notin objects'
    PROVE  \E w \in Replica : Retain(w) /\ DeleteObject(w) /\ k = cur[w].key
<1>1. \E w \in Replica : Retain(w)
  <2>1. CASE ShareStep BY <2>1, ShareFrame
  <2>2. CASE ClientStep
    BY <2>2 DEF ClientStep, UploadStep, PresignUpload, MultipartInit,
       RecordUploadFor, PutObject, CompleteMultipart, AbortMultipart, Land
  <2>3. CASE \E w \in Replica : Purge(w) \/ Crash(w)
    BY <2>3, PurgeFrame DEF Crash
  <2>4. CASE Clock BY <2>4 DEF Clock, Tick
  <2>5. CASE UNCHANGED vars BY <2>5 DEF vars
  <2> QED BY <2>1, <2>2, <2>3, <2>4, <2>5 DEF Next
<1> QED BY <1>1 DEF Retain, RetentionStep, StartRetention, HeadUpload,
        DropOrphan, DeleteObject, DeleteShares, DeleteRow, MarkFailed, AuditUpload

(* The retention job takes objects only from keys past their window.       *)
LEMMA RemovalPastWindow ==
    ASSUME TypeOK, WindowInv, [Next]_vars,
           NEW k \in objects, k \notin objects'
    PROVE  ~ InWindow(k)
<1>1. PICK w \in Replica : DeleteObject(w) /\ k = cur[w].key
  BY RemovalStep
<1>2. cur[w] \in Upload /\ Faithful(cur[w]) /\ PastWindow(cur[w])
  BY <1>1 DEF DeleteObject, WindowInv, TypeOK, RetentionTypeOK
<1>3. Window(cur[w].owner) \in Int /\ cur[w].created \in Nat /\ now \in Nat
  BY <1>2, CatalogAssumption DEF Window, Upload, TypeOK, CatalogTypeOK
<1> QED BY <1>1, <1>2, <1>3 DEF InWindow, Deadline, Faithful, PastWindow

(* No object is removed before its window has passed and no legacy object  *)
(* ever, however old the page of upload rows a replica works from.         *)
THEOREM EarlyDeletionNever == Spec => NoEarlyDeletion
<1>1. TypeOK /\ WindowInv /\ [Next]_vars
        => [\A k \in objects \ objects' : ~ InWindow(k)]_vars
  BY RemovalPastWindow
<1> QED BY <1>1, TypeCorrect, WindowInvariance, PTL DEF Spec, NoEarlyDeletion

-----------------------------------------------------------------------------
(* Nothing lands behind the job's back as long as a client's permission to *)
(* upload ends within the window.  The presigned URL (15 minutes) always   *)
(* does with windows of an hour or more; a multipart session does because  *)
(* of the bucket's lifecycle rule.                                         *)
GrantsFitWindow ==
    \A o \in Owner : UploadURLTTL <= Window(o) /\ SessionTTL <= Window(o)

(* The object of key is gone and can not come back.                        *)
Gone(key) ==
    /\ key \in Key \ LegacyKey
    /\ grant[key].kind # "none"
    /\ now > Deadline(key)
    /\ key \notin objects

CanLand(key) ==
    grant[key].kind \in {"put", "session"} /\ now <= Deadline(key)

TrackInv ==
    /\ \A k \in Key \ LegacyKey : k \in objects \/ CanLand(k) => Tracked(k)
    /\ \A w \in Replica :
          rpc[w] \in {"orphan", "delshares", "delrow", "audit"}
             => Gone(cur[w].key)
    /\ \A k \in Key : Audited("purge_upload", k) => Gone(k)

(* A deadline is a number and does not move once the key is granted.       *)
LEMMA DeadlineFixed ==
    ASSUME TypeOK, [Next]_vars, NEW k \in Key, grant[k].kind # "none"
    PROVE  Deadline(k) \in Int /\ Deadline(k)' = Deadline(k)
<1>1. Window(grant[k].owner) \in Int /\ grant[k].at \in Nat
  BY CatalogAssumption DEF Window, TypeOK, UploadTypeOK, Grant
<1> QED BY <1>1, GrantStable DEF Deadline, Window

(* An object arrives only while its key can land.                          *)
LEMMA LandingInWindow ==
    ASSUME TypeOK, GrantsFitWindow, [Next]_vars,
           NEW k \in objects', k \notin objects
    PROVE  k \in Key /\ CanLand(k) /\ uploads' = uploads
<1>1. ClientStep
  <2>1. CASE ShareStep BY <2>1, ShareFrame
  <2>2. CASE \E w \in Replica : Retain(w)
    BY <2>2 DEF Retain, RetentionStep, StartRetention, HeadUpload, DropOrphan,
       DeleteObject, DeleteShares, DeleteRow, MarkFailed, AuditUpload
  <2>3. CASE \E w \in Replica : Purge(w) \/ Crash(w)
    BY <2>3, PurgeFrame DEF Crash
  <2>4. CASE Clock BY <2>4 DEF Clock, Tick
  <2>5. CASE UNCHANGED vars BY <2>5 DEF vars
  <2> QED BY <2>1, <2>2, <2>3, <2>4, <2>5 DEF Next
<1> PICK key \in Key : UploadStep(key)
  BY <1>1 DEF ClientStep
<1>2. k = key /\ (PutObject(key) \/ CompleteMultipart(key))
  BY DEF UploadStep, PresignUpload, MultipartInit, RecordUploadFor, PutObject,
         CompleteMultipart, AbortMultipart, Land
<1>3. /\ grant[key].at \in Nat
      /\ grant[key].owner \in Owner
      /\ now \in Nat
  BY DEF TypeOK, UploadTypeOK, CatalogTypeOK, Grant
<1>4. /\ Window(grant[key].owner) \in Int
      /\ UploadURLTTL <= Window(grant[key].owner)
      /\ SessionTTL <= Window(grant[key].owner)
  BY <1>3, CatalogAssumption DEF Window, GrantsFitWindow
<1>5. CanLand(key)
  BY <1>2, <1>3, <1>4, UploadAssumption
     DEF PutObject, CompleteMultipart, SessionOpen, CanLand, Deadline
<1>6. uploads' = uploads
  BY <1>2 DEF PutObject, CompleteMultipart, Land
<1> QED BY <1>2, <1>5, <1>6

(* What is gone stays gone: nothing can land after the deadline.           *)
LEMMA GoneStable ==
    ASSUME TypeOK, TypeOK', GrantsFitWindow, [Next]_vars, NEW k, Gone(k)
    PROVE  Gone(k)'
<1>1. k \in Key /\ grant[k].kind # "none" /\ now > Deadline(k)
  BY DEF Gone
<1>2. Deadline(k) \in Int /\ Deadline(k)' = Deadline(k)
  BY <1>1, DeadlineFixed
<1>3. now \in Nat /\ now' \in Nat /\ now' >= now
  BY GrantStable DEF TypeOK, CatalogTypeOK
<1>4. k \notin objects'
  BY <1>1, <1>2, <1>3, LandingInWindow DEF Gone, CanLand
<1> QED BY <1>1, <1>2, <1>3, <1>4, GrantStable DEF Gone

(* A copy of a row in the hands of the job, its object absent, is gone.    *)
LEMMA AbsentIsGone ==
    ASSUME TypeOK, NEW u \in Upload, Faithful(u), PastWindow(u),
           u.key \notin objects
    PROVE  Gone(u.key)
<1>1. Window(u.owner) \in Int /\ u.created \in Nat /\ now \in Nat
  BY CatalogAssumption DEF Window, Upload, TypeOK, CatalogTypeOK
<1> QED BY <1>1 DEF Gone, Faithful, PastWindow, Deadline

(* MarkDeleteFailed drops no row.                                          *)
LEMMA MarkKeepsKeys ==
    ASSUME uploads \subseteq Upload, NEW k, NEW u \in uploads
    PROVE  \E v \in MarkDeleteFailed(k) : v.key = u.key
<1> DEFINE v == IF u.key = k THEN [u EXCEPT !.attempts = 1] ELSE u
<1>1. v \in MarkDeleteFailed(k)
  BY DEF MarkDeleteFailed
<1>2. v.key = u.key
  BY DEF Upload
<1> QED BY <1>1, <1>2

(* A row leaves the table only after its object is gone for good.          *)
LEMMA UntrackedIsGone ==
    ASSUME TypeOK, TrackInv, [Next]_vars, NEW k, Tracked(k), ~ Tracked(k)'
    PROVE  Gone(k)
<1>1. CASE ShareStep BY <1>1, ShareFrame DEF Tracked
<1>2. CASE ClientStep
  BY <1>2 DEF ClientStep, UploadStep, PresignUpload, MultipartInit,
     RecordUploadFor, PutObject, CompleteMultipart, AbortMultipart, Land, Tracked
<1>3. CASE \E w \in Replica : Retain(w)
  <2> PICK w \in Replica : Retain(w)
    BY <1>3
  <2>1. CASE DropOrphan(w) \/ DeleteRow(w)
    <3>1. k = cur[w].key
      BY <2>1 DEF DropOrphan, DeleteRow, DeleteUpload, Tracked
    <3>2. rpc[w] \in {"orphan", "delrow"}
      BY <2>1 DEF DropOrphan, DeleteRow
    <3> QED BY <3>1, <3>2 DEF TrackInv
  <2>2. CASE MarkFailed(w)
    <3>1. \A u \in uploads : \E v \in uploads' : v.key = u.key
      BY <2>2, MarkKeepsKeys DEF MarkFailed, TypeOK, CatalogTypeOK
    <3> QED BY <3>1 DEF Tracked
  <2>3. CASE UNCHANGED uploads
    BY <2>3 DEF Tracked
  <2> QED BY <2>1, <2>2, <2>3 DEF Retain, RetentionStep, StartRetention,
      HeadUpload, DeleteObject, DeleteShares, AuditUpload
<1>4. CASE \E w \in Replica : Purge(w) \/ Crash(w)
  BY <1>4, PurgeFrame DEF Crash, Tracked
<1>5. CASE Clock BY <1>5 DEF Clock, Tick, Tracked
<1>6. CASE UNCHANGED vars BY <1>6 DEF vars, Tracked
<1> QED BY <1>1, <1>2, <1>3, <1>4, <1>5, <1>6 DEF Next

(* The row is in the table before the client may upload.                   *)
LEMMA GrantedIsTracked ==
    ASSUME TypeOK, [Next]_vars, NEW k \in Key, grant[k].kind = "none",
           grant'[k].kind \in {"put", "session"}
    PROVE  Tracked(k)'
<1>1. ClientStep
  BY ShareFrame, RetainFrame, PurgeFrame
     DEF Next, Crash, Clock, uploadVars, vars
<1> PICK key \in Key : UploadStep(key)
  BY <1>1 DEF ClientStep
<1>2. ASSUME NEW user \in Owner, NEW kind \in {"put", "session"},
             RecordUploadFor(key, user, kind)
      PROVE  Tracked(k)'
  <2>1. k = key
    BY <1>2 DEF RecordUploadFor, TypeOK, UploadTypeOK
  <2>2. UploadRow(key, user) \in uploads'
    BY <1>2, <2>1 DEF RecordUploadFor, TypeOK, UploadTypeOK
  <2> QED BY <2>1, <2>2 DEF Tracked, UploadRow
<1>3. CASE PutObject(key) \/ CompleteMultipart(key) \/ AbortMultipart(key)
  BY <1>3 DEF PutObject, CompleteMultipart, AbortMultipart, SessionOpen,
     TypeOK, UploadTypeOK, Grant
<1> QED BY <1>2, <1>3 DEF UploadStep, PresignUpload, MultipartInit

(* The labels that come after the object's absence was seen or caused.     *)
LEMMA AfterRemoval ==
    ASSUME TypeOK, TypeOK', WindowInv, GrantsFitWindow, TrackInv, [Next]_vars,
           NEW w \in Replica,
           rpc'[w] \in {"orphan", "delshares", "delrow", "audit"}
    PROVE  \A k : k = cur'[w].key => Gone(k)'
<1> USE DEF TypeOK
<1>1. CASE /\ rpc[w] \in {"orphan", "delshares", "delrow", "audit"}
           /\ cur'[w] = cur[w]
  BY <1>1, GoneStable DEF TrackInv
<1>2. CASE Retain(w)
  <2>1. CASE HeadUpload(w)
    <3> PICK u \in batch[w] :
          /\ cur' = [cur EXCEPT ![w] = u]
          /\ rpc'[w] = "orphan"
          /\ u.key \notin objects
      BY <2>1 DEF HeadUpload, NextCall, RetentionTypeOK
    <3>1. u \in Upload /\ Faithful(u) /\ PastWindow(u)
      BY DEF RetentionTypeOK, WindowInv
    <3>2. Gone(u.key)
      BY <3>1, AbsentIsGone
    <3>3. cur'[w] = u
      BY DEF RetentionTypeOK
    <3> QED BY <3>2, <3>3, GoneStable
  <2>2. CASE DeleteObject(w)
    <3>1. /\ cur'[w] = cur[w]
          /\ cur[w] \in Upload
          /\ Faithful(cur[w])
          /\ PastWindow(cur[w])
          /\ cur[w].key \notin objects'
          /\ now' = now /\ grant' = grant
      BY <2>2, <1>2, RetainFrame
         DEF DeleteObject, NextCall, RetentionTypeOK, WindowInv
    <3>2. /\ Window(cur[w].owner) \in Int
          /\ cur[w].created \in Nat
          /\ now \in Nat
      BY <3>1, CatalogAssumption DEF Window, Upload, CatalogTypeOK
    <3> QED BY <3>1, <3>2 DEF Gone, Deadline, Faithful, PastWindow
  <2>3. CASE DropOrphan(w) \/ DeleteShares(w) \/ DeleteRow(w)
    <3>1. /\ rpc[w] \in {"orphan", "delshares", "delrow"}
          /\ cur'[w] = cur[w]
      BY <2>3 DEF DropOrphan, DeleteShares, DeleteRow, NextCall, Done,
         RetentionTypeOK
    <3> QED BY <1>1, <3>1
  <2>4. CASE StartRetention(w)
    BY <1>1, <2>4 DEF StartRetention
  <2>5. CASE MarkFailed(w) \/ AuditUpload(w)
    BY <2>5 DEF MarkFailed, AuditUpload, NextCall, Done, RetentionTypeOK
  <2> QED BY <1>2, <2>1, <2>2, <2>3, <2>4, <2>5 DEF Retain, RetentionStep
<1>3. CASE rpc'[w] = rpc[w] /\ cur'[w] = cur[w]
  BY <1>1, <1>3
<1>4. ASSUME NEW v \in Replica \ {w}, Retain(v)
      PROVE  rpc'[w] = rpc[w] /\ cur'[w] = cur[w]
  BY <1>4 DEF Retain, RetentionStep, StartRetention, HeadUpload, DropOrphan,
     DeleteObject, DeleteShares, DeleteRow, MarkFailed, AuditUpload,
     NextCall, Done, RetentionTypeOK
<1>5. ASSUME NEW v \in Replica, Crash(v)
      PROVE  rpc'[w] = rpc[w] /\ cur'[w] = cur[w]
  BY <1>5 DEF Crash, CrashRetention, NextCall, Done, RetentionTypeOK
<1>6. CASE ShareStep \/ ClientStep \/ \E v \in Replica : Purge(v)
  BY <1>3, <1>6, ShareFrame, ClientFrame, PurgeFrame
<1>7. CASE Clock \/ UNCHANGED vars
  BY <1>3, <1>7 DEF Clock, retentionVars, vars
<1> QED BY <1>2, <1>3, <1>4, <1>5, <1>6, <1>7 DEF Next

(* A purge_upload entry is written by the run that has the key in hand.    *)
LEMMA PurgeEntry ==
    ASSUME [Next]_vars, NEW k, Audited("purge_upload", k)',
           ~ Audited("purge_upload", k)
    PROVE  \E w \in Replica : rpc[w] = "audit" /\ k = cur[w].key
<1>1. PICK w \in Replica : Retain(w) \/ Purge(w)
  BY ShareFrame, ClientFrame DEF Next, Crash, Clock, Tick, vars, Audited
<1>2. CASE Purge(w)
  <2>1. audit' \subseteq audit \cup
           {[action |-> "purge_share", subject |-> purging[w].slug]}
    BY <1>2 DEF Purge, PurgeStep, StartPurge, DeleteExpired, AuditShare, Record
  <2> QED BY <2>1 DEF Audited
<1>3. CASE Retain(w)
  BY <1>3 DEF Retain, RetentionStep, StartRetention, HeadUpload, DropOrphan,
     DeleteObject, DeleteShares, DeleteRow, MarkFailed, AuditUpload, Record,
     Audited
<1> QED BY <1>1, <1>2, <1>3

(* TrackInv is inductive relative to the types and WindowInv.              *)
LEMMA TrackInvariance ==
    ASSUME GrantsFitWindow
    PROVE  Spec => []TrackInv
<1>1. Init => TrackInv
  BY DEF Init, CatalogInit, UploadInit, RetentionInit, TrackInv, CanLand,
         Audited
<1>2. TypeOK /\ TypeOK' /\ WindowInv /\ TrackInv /\ [Next]_vars => TrackInv'
  <2> SUFFICES ASSUME TypeOK, TypeOK', WindowInv, TrackInv, [Next]_vars
               PROVE  TrackInv'
    OBVIOUS
  <2>1. ASSUME NEW k \in Key \ LegacyKey, k \in objects' PROVE Tracked(k)'
    <3>1. CASE k \in objects
      BY <3>1, UntrackedIsGone DEF TrackInv, Gone
    <3>2. CASE k \notin objects
      BY <2>1, <3>2, LandingInWindow DEF TrackInv, Tracked
    <3> QED BY <3>1, <3>2
  <2>2. ASSUME NEW k \in Key \ LegacyKey, CanLand(k)' PROVE Tracked(k)'
    <3>1. CASE grant[k].kind = "none"
      BY <2>2, <3>1, GrantedIsTracked DEF CanLand
    <3>2. CASE grant[k].kind # "none"
      <4>1. grant[k].kind \in {"put", "session"}
        BY <2>2, <3>2, GrantStable
           DEF CanLand, TypeOK, UploadTypeOK, Grant
      <4>2. now <= Deadline(k) /\ ~ (now > Deadline(k))
        BY <2>2, <3>2, GrantStable, DeadlineFixed
           DEF CanLand, TypeOK, CatalogTypeOK
      <4>3. Tracked(k)
        BY <4>1, <4>2 DEF TrackInv, CanLand
      <4> QED BY <4>2, <4>3, UntrackedIsGone DEF Gone
    <3> QED BY <3>1, <3>2
  <2>3. ASSUME NEW w \in Replica,
               rpc'[w] \in {"orphan", "delshares", "delrow", "audit"}
        PROVE  Gone(cur[w].key)'
    BY <2>3, AfterRemoval DEF Gone, Deadline
  <2>4. ASSUME NEW k \in Key, Audited("purge_upload", k)' PROVE Gone(k)'
    <3>1. CASE Audited("purge_upload", k)
      BY <3>1, GoneStable DEF TrackInv
    <3>2. CASE ~ Audited("purge_upload", k)
      <4>1. \E w \in Replica : rpc[w] = "audit" /\ k = cur[w].key
        BY <2>4, <3>2, PurgeEntry
      <4> QED BY <4>1, GoneStable DEF TrackInv
    <3> QED BY <3>1, <3>2
  <2> QED BY <2>1, <2>2, <2>3, <2>4 DEF TrackInv
<1> QED BY <1>1, <1>2, TypeCorrect, WindowInvariance, PTL DEF Spec

(* Every object the service let in has an upload row until it is gone, so  *)
(* the retention job can find it, provided that grants end within the      *)
(* window: whatever calls fail, whichever replicas crash or race.          *)
THEOREM ObjectsStayTracked ==
    ASSUME GrantsFitWindow
    PROVE  Spec => []ObjectTracked
<1>1. TypeOK /\ TrackInv => ObjectTracked
  BY DEF TypeOK, CatalogTypeOK, TrackInv, ObjectTracked
<1> QED BY <1>1, TypeCorrect, TrackInvariance, PTL

(* No purge_upload entry names a file that is in the bucket, under the     *)
(* same condition.                                                         *)
THEOREM AuditedFilesAreGone ==
    ASSUME GrantsFitWindow
    PROVE  Spec => []AuditedFileGone
<1>1. TrackInv => AuditedFileGone
  BY DEF TrackInv, Gone, AuditedFileGone
<1> QED BY <1>1, TrackInvariance, PTL

-----------------------------------------------------------------------------
(* What arrived and what became of it.                                     *)

(* An object that ever arrived belongs to a granted key and is there until *)
(* its window has passed.                                                  *)
LandInv ==
    /\ objects \subseteq landed
    /\ \A k \in landed :
          grant[k].kind # "none" /\ (InWindow(k) => k \in objects)

(* What arrives is recorded as landed.                                     *)
LEMMA LandedStep ==
    ASSUME [Next]_vars
    PROVE  \/ landed' = landed /\ objects' \subseteq objects
           \/ \E k \in Key : /\ landed' = landed \cup {k}
                             /\ objects' = objects \cup {k}
                             /\ grant[k].kind # "none"
<1>1. CASE ShareStep BY <1>1, ShareFrame
<1>2. CASE ClientStep
  <2> PICK key \in Key : UploadStep(key)
    BY <1>2 DEF ClientStep
  <2>1. CASE PutObject(key) \/ CompleteMultipart(key)
    BY <2>1 DEF PutObject, CompleteMultipart, SessionOpen, Land
  <2>2. CASE landed' = landed /\ objects' = objects
    BY <2>2
  <2> QED BY <2>1, <2>2 DEF UploadStep, PresignUpload, MultipartInit,
      RecordUploadFor, AbortMultipart
<1>3. CASE \E w \in Replica : Retain(w)
  <2>1. objects' \subseteq objects
    BY <1>3 DEF Retain, RetentionStep, StartRetention, HeadUpload, DropOrphan,
       DeleteObject, DeleteShares, DeleteRow, MarkFailed, AuditUpload
  <2> QED BY <1>3, <2>1, RetainFrame
<1>4. CASE \E w \in Replica : Purge(w) \/ Crash(w)
  BY <1>4, PurgeFrame DEF Crash, uploadVars
<1>5. CASE Clock BY <1>5 DEF Clock, Tick, uploadVars
<1>6. CASE UNCHANGED vars BY <1>6 DEF vars
<1> QED BY <1>1, <1>2, <1>3, <1>4, <1>5, <1>6 DEF Next

(* LandInv is inductive relative to the types and WindowInv.               *)
THEOREM LandInvariance == Spec => []LandInv
<1>1. Init => LandInv
  BY CatalogAssumption DEF Init, CatalogInit, UploadInit, LandInv
<1>2. TypeOK /\ TypeOK' /\ WindowInv /\ LandInv /\ [Next]_vars => LandInv'
  <2> SUFFICES ASSUME TypeOK, TypeOK', WindowInv, LandInv, [Next]_vars
               PROVE  LandInv'
    OBVIOUS
  <2>0. landed \subseteq Key
    BY DEF TypeOK, UploadTypeOK
  <2>1. objects' \subseteq landed'
    BY LandedStep DEF LandInv
  <2>2. ASSUME NEW k \in landed, InWindow(k)' PROVE k \in objects'
    <3>1. InWindow(k)
      <4>1. Deadline(k) \in Int /\ Deadline(k)' = Deadline(k)
        BY <2>0, DeadlineFixed DEF LandInv
      <4>2. now \in Nat /\ now' \in Nat /\ now <= now'
        BY TimeGoesOn
      <4> QED BY <2>2, <4>1, <4>2 DEF InWindow
    <3> QED BY <3>1, RemovalPastWindow DEF LandInv
  <2>3. ASSUME NEW k \in landed', k \notin landed
        PROVE  k \in Key /\ k \in objects' /\ grant[k].kind # "none"
    BY <2>3, LandedStep
  <2>4. \A k \in landed' : k \in Key /\ grant[k].kind # "none"
    BY <2>0, <2>3 DEF LandInv
  <2>5. \A k \in landed' : grant'[k].kind # "none"
    BY <2>4, GrantStable
  <2> QED BY <2>1, <2>2, <2>3, <2>5 DEF LandInv
<1> QED BY <1>1, <1>2, TypeCorrect, WindowInvariance, PTL DEF Spec

(* A key that was granted and lost its row never gets one again.           *)
LEMMA NoNewRow ==
    ASSUME TypeOK, [Next]_vars, NEW k \in Key, grant[k].kind # "none", Tracked(k)'
    PROVE  Tracked(k)
<1>1. CASE ShareStep BY <1>1, ShareFrame DEF Tracked
<1>2. CASE ClientStep
  <2> PICK key \in Key : UploadStep(key)
    BY <1>2 DEF ClientStep
  <2>1. ASSUME NEW user \in Owner, NEW kind, RecordUploadFor(key, user, kind)
        PROVE  Tracked(k)
    BY <2>1 DEF RecordUploadFor, UploadRow, Tracked
  <2> QED BY <2>1 DEF UploadStep, PresignUpload, MultipartInit, PutObject,
      CompleteMultipart, AbortMultipart, Land, Tracked
<1>3. CASE \E w \in Replica : Retain(w)
  <2> PICK w \in Replica : Retain(w)
    BY <1>3
  <2>1. CASE MarkFailed(w)
    BY <2>1 DEF MarkFailed, MarkDeleteFailed, Tracked, TypeOK, CatalogTypeOK, Upload
  <2>2. CASE uploads' \subseteq uploads
    BY <2>2 DEF Tracked
  <2> QED BY <2>1, <2>2 DEF Retain, RetentionStep, StartRetention, HeadUpload,
      DropOrphan, DeleteObject, DeleteShares, DeleteRow, AuditUpload, DeleteUpload
<1>4. CASE \E w \in Replica : Purge(w) \/ Crash(w)
  BY <1>4, PurgeFrame DEF Crash, Tracked
<1>5. CASE Clock BY <1>5 DEF Clock, Tick, Tracked
<1>6. CASE UNCHANGED vars BY <1>6 DEF vars, Tracked
<1> QED BY <1>1, <1>2, <1>3, <1>4, <1>5, <1>6 DEF Next
=============================================================================
