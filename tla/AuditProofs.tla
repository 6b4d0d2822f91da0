----------------------------- MODULE AuditProofs -----------------------------
(***************************************************************************)
(* What audit_log tells of the files, for every choice of the sets and the *)
(* windows, and the failures under which it tells of every removal.        *)
(***************************************************************************)
EXTENDS RetentionProofs

-----------------------------------------------------------------------------
(* What a step does to the rows and to a run.                              *)

(* A run moves on alone.                                                   *)
LEMMA RunsApart ==
    ASSUME TypeOK, NEW w \in Replica, Retain(w), NEW v \in Replica \ {w}
    PROVE  rpc'[v] = rpc[v] /\ cur'[v] = cur[v] /\ batch'[v] = batch[v]
BY DEF Retain, RetentionStep, StartRetention, HeadUpload, DropOrphan,
       DeleteObject, DeleteShares, DeleteRow, MarkFailed, AuditUpload,
       NextCall, Done, TypeOK, RetentionTypeOK

(* No run moves unless the retention job does or its replica dies.         *)
LEMMA RunsStill ==
    ASSUME [Next]_vars, ~ \E w \in Replica : Retain(w) \/ Crash(w)
    PROVE  UNCHANGED <<rpc, cur, batch>>
BY ShareFrame, ClientFrame, PurgeFrame
   DEF Next, Clock, retentionVars, vars

-----------------------------------------------------------------------------
(* Every removal is told.                                                  *)

(* A run that removed an object gets as far as the entry.                  *)
EntriesWritten == {"uploads.Delete", "audit.Record", "crash"} \cap Faulty = {}

(* A run has removed the object of k and is on its way to the entry.       *)
Underway(k) ==
    \E w \in Replica :
        rpc[w] \in {"delshares", "delrow", "audit"} /\ cur[w].key = k

Told(k) == Audited("purge_upload", k) \/ Underway(k)

(* A key that left the bucket landed and was there, or was missing before. *)
LEMMA MissingStep ==
    ASSUME [Next]_vars, LandInv, NEW k \in landed' \ objects'
    PROVE  k \in landed /\ (k \in objects \/ k \in landed \ objects)
BY LandedStep DEF LandInv

(* What is told or about to be told gets told.                             *)
LEMMA ToldStable ==
    ASSUME TypeOK, EntriesWritten, [Next]_vars, NEW k, Told(k)
    PROVE  Told(k)'
<1> USE DEF TypeOK, RetentionTypeOK
<1>1. CASE Audited("purge_upload", k)
  <2>1. audit \subseteq audit'
    <3>1. CASE \E w \in Replica : Retain(w)
      BY <3>1 DEF Retain, RetentionStep, StartRetention, HeadUpload, DropOrphan,
         DeleteObject, DeleteShares, DeleteRow, MarkFailed, AuditUpload, Record
    <3>2. CASE \E w \in Replica : Purge(w)
      BY <3>2 DEF Purge, PurgeStep, StartPurge, DeleteExpired, AuditShare, Record
    <3> QED BY <3>1, <3>2, ShareFrame, ClientFrame DEF Next, Crash, Clock, Tick, vars
  <2> QED BY <1>1, <2>1 DEF Told, Audited
<1>2. ASSUME NEW w \in Replica, rpc[w] \in {"delshares", "delrow", "audit"},
             cur[w].key = k
      PROVE  Told(k)'
  <2>1. CASE rpc'[w] = rpc[w] /\ cur'[w] = cur[w]
    BY <1>2, <2>1 DEF Told, Underway
  <2>2. CASE Retain(w)
    <3>1. CASE DeleteShares(w) \/ DeleteRow(w)
      <4>1. rpc'[w] \in {"delrow", "audit"} /\ cur'[w] = cur[w]
        BY <3>1 DEF DeleteShares, DeleteRow, NextCall, EntriesWritten, Fault
      <4> QED BY <1>2, <4>1 DEF Told, Underway
    <3>2. CASE AuditUpload(w) /\ rpc[w] = "audit"
      <4>1. Audited("purge_upload", k)'
        BY <1>2, <3>2 DEF AuditUpload, Record, Audited, EntriesWritten, Fault
      <4> QED BY <4>1 DEF Told
    <3> QED BY <1>2, <2>2, <3>1, <3>2 DEF Retain, RetentionStep, StartRetention,
        HeadUpload, DropOrphan, DeleteObject, MarkFailed, AuditUpload
  <2>3. CASE \E v \in Replica \ {w} : Retain(v)
    BY <2>1, <2>3, RunsApart
  <2>4. ~ \E v \in Replica : Crash(v)
    BY DEF Crash, Fault, EntriesWritten
  <2> QED BY <2>1, <2>2, <2>3, <2>4, RunsStill
<1> QED BY <1>1, <1>2 DEF Told, Underway

(* DeletionAudited follows when all that is missing is told.               *)
LEMMA ToldIsAudited ==
    ASSUME NEW k, Told(k)
    PROVE  \/ Audited("purge_upload", k)
           \/ \E w \in Replica : /\ rpc[w] \in {"delshares", "delrow", "audit"}
                                 /\ cur[w].key = k
BY DEF Told, Underway

(* Every removed object is in audit_log or about to be, on any number of   *)
(* replicas, when the bucket does not fail a deletion it has carried out   *)
(* and no run is cut short.                                                *)
THEOREM DeletionsAreAudited ==
    ASSUME EntriesWritten, "s3.Delete" \notin Faulty
    PROVE  Spec => []DeletionAudited
<1> DEFINE I == \A k \in landed \ objects : Told(k)
<1>1. Init => I
  BY DEF Init, CatalogInit, UploadInit
<1>2. TypeOK /\ LandInv /\ I /\ [Next]_vars => I'
  <2> SUFFICES ASSUME TypeOK, LandInv, I, [Next]_vars, NEW k \in landed' \ objects'
               PROVE  Told(k)'
    OBVIOUS
  <2>1. CASE k \in landed \ objects
    BY <2>1, ToldStable
  <2>2. CASE k \in objects
    <3>1. PICK w \in Replica : DeleteObject(w) /\ k = cur[w].key
      BY <2>2, RemovalStep
    <3>2. rpc'[w] = "delshares" /\ cur'[w] = cur[w]
      BY <2>2, <3>1 DEF DeleteObject, NextCall, Fault, TypeOK, RetentionTypeOK
    <3> QED BY <3>1, <3>2 DEF Told, Underway
  <2> QED BY <2>1, <2>2, MissingStep
<1>3. I => DeletionAudited
  BY ToldIsAudited DEF DeletionAudited
<1> HIDE DEF I
<1> QED BY <1>1, <1>2, <1>3, TypeCorrect, LandInvariance, PTL DEF Spec

-----------------------------------------------------------------------------
(* One replica survives a bucket that removes an object and reports a      *)
(* failure, because the mark on the row carries the news to the next run.  *)

Lone == \A v, w \in Replica : v = w

MarksWritten == "uploads.Mark" \notin Faulty

(* The run works on the row itself: nobody else touches it.                *)
RowsOwn(w) ==
    /\ batch[w] \subseteq uploads
    /\ rpc[w] \in {"orphan", "delobj", "delshares", "delrow", "mark", "markobj"} =>
          cur[w] \in uploads /\ \A u \in batch[w] : u.key # cur[w].key

(* The row of a missing object is marked, or is about to be.               *)
MarkPending(k) ==
    \E u \in uploads :
        /\ u.key = k
        /\ \/ u.attempts = 1
           \/ \E w \in Replica : rpc[w] = "markobj" /\ cur[w].key = k

LoneInv ==
    /\ \A u, v \in uploads : u.key = v.key => u = v
    /\ \A w \in Replica : RowsOwn(w)
    /\ \A k \in landed \ objects : Told(k) \/ MarkPending(k)

(* One row per key: a key is granted once, and its row rewritten in place. *)
LEMMA RowsUnique ==
    ASSUME TypeOK, WindowInv, [Next]_vars,
           \A u, v \in uploads : u.key = v.key => u = v
    PROVE  \A u, v \in uploads' : u.key = v.key => u = v
<1>1. CASE ClientStep
  <2> PICK key \in Key : UploadStep(key)
    BY <1>1 DEF ClientStep
  <2>1. ASSUME NEW user \in Owner, NEW kind, RecordUploadFor(key, user, kind)
        PROVE  \A u, v \in uploads' : u.key = v.key => u = v
    <3>1. \A u \in uploads : u.key # key
      BY <2>1 DEF RecordUploadFor, WindowInv, Faithful
    <3>2. \A u \in uploads' : u \in uploads \/ (u = UploadRow(key, user) /\ u.key = key)
      BY <2>1 DEF RecordUploadFor, UploadRow
    <3> QED BY <3>1, <3>2
  <2> QED BY <2>1 DEF UploadStep, PresignUpload, MultipartInit, PutObject,
      CompleteMultipart, AbortMultipart, Land
<1>2. CASE \E w \in Replica : Retain(w)
  <2> PICK w \in Replica : Retain(w)
    BY <1>2
  <2>1. CASE MarkFailed(w)
    <3> DEFINE M(x) == IF x.key = cur[w].key THEN [x EXCEPT !.attempts = 1] ELSE x
    <3>1. \A x \in uploads : M(x).key = x.key
      BY DEF TypeOK, CatalogTypeOK, Upload
    <3>2. uploads' = uploads \/ uploads' = {M(x) : x \in uploads}
      BY <2>1 DEF MarkFailed, MarkDeleteFailed
    <3> HIDE DEF M
    <3> QED BY <3>1, <3>2
  <2>2. CASE uploads' \subseteq uploads
    BY <2>2
  <2> QED BY <2>1, <2>2 DEF Retain, RetentionStep, StartRetention, HeadUpload,
      DropOrphan, DeleteObject, DeleteShares, DeleteRow, AuditUpload, DeleteUpload
<1>3. CASE uploads' = uploads
  BY <1>3
<1> QED BY <1>1, <1>2, <1>3, ShareFrame, PurgeFrame DEF Next, Crash, Clock, Tick, vars

(* Everything but the retention job leaves the rows it works on alone.     *)
LEMMA OthersKeepRows ==
    ASSUME [Next]_vars, ~ \E w \in Replica : Retain(w)
    PROVE  uploads \subseteq uploads'
<1>1. CASE ClientStep
  BY <1>1 DEF ClientStep, UploadStep, PresignUpload, MultipartInit,
     RecordUploadFor, PutObject, CompleteMultipart, AbortMultipart, Land
<1> QED BY <1>1, ShareFrame, PurgeFrame DEF Next, Crash, Clock, Tick, vars

(* A run of the only replica keeps its rows its own.                       *)
LEMMA RowsStayOwn ==
    ASSUME TypeOK, EntriesWritten, LoneInv, NEW w \in Replica, Retain(w)
    PROVE  RowsOwn(w)'
<1> USE DEF TypeOK, RetentionTypeOK
<1>0. RowsOwn(w) /\ \A u, v \in uploads : u.key = v.key => u = v
  BY DEF LoneInv
<1>1. CASE StartRetention(w)
  <2>1. \A P \in UploadPages : P \subseteq uploads
    BY DEF UploadPages, ExpiredUploads
  <2> QED BY <1>1, <2>1 DEF StartRetention, RowsOwn
<1>2. CASE HeadUpload(w)
  <2>1. PICK u \in batch[w] : /\ batch' = [batch EXCEPT ![w] = @ \ {u}]
                              /\ cur' = [cur EXCEPT ![w] = u]
                              /\ uploads' = uploads
    BY <1>2 DEF HeadUpload
  <2>2. batch'[w] = batch[w] \ {u} /\ cur'[w] = u
    BY <2>1
  <2> QED BY <1>0, <2>1, <2>2 DEF RowsOwn
<1>3. CASE DropOrphan(w) \/ DeleteRow(w)
  <2>1. /\ uploads' = DeleteUpload(cur[w].key) /\ batch' = batch
        /\ rpc'[w] \in {"loop", "audit"}
        /\ rpc[w] \in {"orphan", "delrow"}
    BY <1>3 DEF DropOrphan, DeleteRow, NextCall, Done, EntriesWritten, Fault
  <2> QED BY <1>0, <2>1 DEF RowsOwn, DeleteUpload
<1>4. CASE DeleteObject(w) \/ DeleteShares(w)
  <2>1. /\ UNCHANGED <<uploads, batch, cur>>
        /\ rpc[w] \in {"delobj", "delshares"}
    BY <1>4 DEF DeleteObject, DeleteShares
  <2> QED BY <1>0, <2>1 DEF RowsOwn
<1>5. CASE MarkFailed(w)
  <2>1. /\ uploads' \in {uploads, MarkDeleteFailed(cur[w].key)} /\ batch' = batch
        /\ rpc'[w] \in {"loop", "auditfail"}
        /\ rpc[w] \in {"mark", "markobj"}
    BY <1>5 DEF MarkFailed, NextCall, Done
  <2>2. \A u \in batch[w] : u \in uploads /\ u.key # cur[w].key
    BY <1>0, <2>1 DEF RowsOwn
  <2> QED BY <2>1, <2>2 DEF RowsOwn, MarkDeleteFailed
<1>6. CASE AuditUpload(w)
  <2>1. UNCHANGED <<uploads, batch>> /\ rpc'[w] = "loop"
    BY <1>6 DEF AuditUpload, NextCall, Done
  <2> QED BY <1>0, <2>1 DEF RowsOwn
<1> QED BY <1>1, <1>2, <1>3, <1>4, <1>5, <1>6 DEF Retain, RetentionStep

(* The mark on the row of a missing object lasts until the entry is under  *)
(* way.                                                                    *)
LEMMA PendingStep ==
    ASSUME TypeOK, EntriesWritten, MarksWritten, Lone, LoneInv, [Next]_vars,
           NEW k, MarkPending(k), ~ Told(k)
    PROVE  MarkPending(k)' \/ Told(k)'
<1> USE DEF TypeOK, RetentionTypeOK
<1>0. PICK u \in uploads :
         /\ u.key = k
         /\ \/ u.attempts = 1
            \/ \E w \in Replica : rpc[w] = "markobj" /\ cur[w].key = k
  BY DEF MarkPending
<1>1. CASE ~ \E w \in Replica : Retain(w)
  <2>1. ~ \E w \in Replica : Crash(w)
    BY DEF Crash, Fault, EntriesWritten
  <2>2. UNCHANGED <<rpc, cur>> /\ u \in uploads'
    BY <1>1, <2>1, RunsStill, OthersKeepRows
  <2> QED BY <1>0, <2>2 DEF MarkPending
<1>2. ASSUME NEW w \in Replica, Retain(w) PROVE MarkPending(k)' \/ Told(k)'
  <2>1. u.attempts = 1 \/ (rpc[w] = "markobj" /\ cur[w].key = k)
    BY <1>0 DEF Lone
  <2>2. CASE u \in uploads' /\ u.attempts = 1
    BY <1>0, <2>2 DEF MarkPending
  <2>3. CASE StartRetention(w) \/ HeadUpload(w) \/ DeleteObject(w)
             \/ DeleteShares(w) \/ AuditUpload(w)
    <3>1. uploads' = uploads /\ rpc[w] # "markobj"
      BY <2>3 DEF StartRetention, HeadUpload, DeleteObject, DeleteShares, AuditUpload
    <3> QED BY <2>1, <2>2, <3>1
  <2>4. CASE DropOrphan(w)
    <3>1. rpc[w] = "orphan" /\ uploads' = DeleteUpload(cur[w].key)
      BY <2>4 DEF DropOrphan, EntriesWritten, Fault
    <3>2. CASE cur[w].key # k
      BY <1>0, <2>1, <2>2, <3>1, <3>2 DEF DeleteUpload
    <3>3. CASE cur[w].key = k
      <4>1. cur[w] = u
        BY <1>0, <3>1, <3>3 DEF LoneInv, RowsOwn
      <4>2. rpc'[w] = "audit" /\ cur'[w] = cur[w]
        BY <2>1, <2>4, <3>1, <4>1 DEF DropOrphan, NextCall, EntriesWritten, Fault
      <4> QED BY <3>3, <4>2 DEF Told, Underway
    <3> QED BY <3>2, <3>3
  <2>5. CASE DeleteRow(w)
    <3>1. rpc[w] = "delrow" /\ uploads' = DeleteUpload(cur[w].key)
      BY <2>5 DEF DeleteRow, EntriesWritten, Fault
    <3>2. cur[w].key # k
      BY <3>1 DEF Told, Underway
    <3> QED BY <1>0, <2>1, <2>2, <3>1, <3>2 DEF DeleteUpload
  <2>6. CASE MarkFailed(w)
    <3>1. uploads' = MarkDeleteFailed(cur[w].key)
      BY <2>6 DEF MarkFailed, MarksWritten, Fault
    <3>2. CASE cur[w].key # k
      <4>1. u \in uploads'
        BY <1>0, <3>1, <3>2 DEF MarkDeleteFailed
      <4> QED BY <2>1, <2>2, <3>2, <4>1
    <3>3. CASE cur[w].key = k
      <4>1. [u EXCEPT !.attempts = 1] \in uploads'
        BY <1>0, <3>1, <3>3 DEF MarkDeleteFailed
      <4>2. /\ [u EXCEPT !.attempts = 1].attempts = 1
            /\ [u EXCEPT !.attempts = 1].key = k
        BY <1>0 DEF CatalogTypeOK, Upload
      <4> QED BY <4>1, <4>2 DEF MarkPending
    <3> QED BY <3>2, <3>3
  <2> QED BY <1>2, <2>3, <2>4, <2>5, <2>6 DEF Retain, RetentionStep
<1> QED BY <1>1, <1>2

(* Every removed object is in audit_log, or about to be, or its row is     *)
(* still there, on one replica with a bucket that may remove an object and *)
(* report a failure, when marks and entries are written.                   *)
THEOREM LoneDeletionsAreAudited ==
    ASSUME Lone, EntriesWritten, MarksWritten
    PROVE  Spec => []DeletionAudited
<1>1. Init => LoneInv
  BY DEF Init, CatalogInit, UploadInit, RetentionInit, LoneInv, RowsOwn
<1>2. TypeOK /\ WindowInv /\ LandInv /\ LoneInv /\ [Next]_vars => LoneInv'
  <2> SUFFICES ASSUME TypeOK, WindowInv, LandInv, LoneInv, [Next]_vars
               PROVE  LoneInv'
    OBVIOUS
  <2>1. \A u, v \in uploads' : u.key = v.key => u = v
    BY RowsUnique DEF LoneInv
  <2>2. ASSUME NEW w \in Replica PROVE RowsOwn(w)'
    <3>1. CASE Retain(w)
      BY <3>1, RowsStayOwn
    <3>2. CASE ~ \E v \in Replica : Retain(v)
      <4>1. ~ \E v \in Replica : Crash(v)
        BY DEF Crash, Fault, EntriesWritten
      <4>2. UNCHANGED <<rpc, cur, batch>> /\ uploads \subseteq uploads'
        BY <3>2, <4>1, RunsStill, OthersKeepRows
      <4> QED BY <4>2 DEF LoneInv, RowsOwn
    <3> QED BY <3>1, <3>2 DEF Lone
  <2>3. ASSUME NEW k \in landed' \ objects' PROVE Told(k)' \/ MarkPending(k)'
    <3>1. CASE k \in landed \ objects
      BY <3>1, ToldStable, PendingStep DEF LoneInv
    <3>2. CASE k \in objects
      <4>1. PICK w \in Replica : DeleteObject(w) /\ k = cur[w].key
        BY <2>3, <3>2, RemovalStep
      <4>2. /\ rpc'[w] \in {"delshares", "markobj"} /\ cur'[w] = cur[w]
            /\ uploads' = uploads /\ cur[w] \in uploads
        BY <4>1 DEF DeleteObject, NextCall, TypeOK, RetentionTypeOK, LoneInv, RowsOwn
      <4> QED BY <4>1, <4>2 DEF Told, Underway, MarkPending
    <3> QED BY <3>1, <3>2, MissingStep
  <2> QED BY <2>1, <2>2, <2>3 DEF LoneInv
<1>3. LoneInv => DeletionAudited
  <2>1. \A k : MarkPending(k) => Tracked(k)
    BY DEF MarkPending, Tracked
  <2> QED BY <2>1, ToldIsAudited DEF LoneInv, DeletionAudited
<1> QED BY <1>1, <1>2, <1>3, TypeCorrect, WindowInvariance, LandInvariance, PTL
        DEF Spec
=============================================================================
