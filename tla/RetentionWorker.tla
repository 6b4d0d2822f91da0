-------------------------- MODULE RetentionWorker --------------------------
(***************************************************************************)
(* The job purge-expired-uploads (internal/worker/retention.go), one       *)
(* instance per replica.  A run reads one page of expired upload rows and  *)
(* works through it, oldest first, one call per step.  Rows of the page    *)
(* are snapshots: nothing holds them in the database.                      *)
(*                                                                         *)
(* rpc[w] is the next call of replica w: "loop" chooses the next row (or,  *)
(* with an empty batch, starts a run), the others name the call on cur[w]. *)
(***************************************************************************)
EXTENDS Catalog

CONSTANT StuckKey     \* keys whose objects the bucket refuses to delete
ASSUME StuckAssumption == StuckKey \subseteq Key

VARIABLES rpc, batch, cur

retentionVars == <<rpc, batch, cur>>

RetentionLabel == {"loop", "orphan", "delobj", "delshares", "delrow",
                   "audit", "mark", "markobj", "auditfail"}

RetentionTypeOK ==
    /\ rpc \in [Replica -> RetentionLabel]
    /\ batch \in [Replica -> SUBSET Upload]
    /\ cur \in [Replica -> Upload \cup {Null}]
    /\ \A w \in Replica : rpc[w] # "loop" => cur[w] \in Upload

RetentionInit ==
    /\ rpc = [w \in Replica |-> "loop"]
    /\ batch = [w \in Replica |-> {}]
    /\ cur = [w \in Replica |-> Null]

-----------------------------------------------------------------------------

(* "order by created_at asc limit BatchSize": the pages that can result.   *)
UploadPages ==
    {P \in SUBSET ExpiredUploads :
        /\ \/ P = ExpiredUploads
           \/ Cardinality(P) = BatchSize
        /\ Cardinality(P) <= BatchSize
        /\ \A p \in P, q \in ExpiredUploads \ P : p.created <= q.created}

StartRetention(w) ==
    /\ rpc[w] = "loop"
    /\ batch[w] = {}
    /\ \E P \in UploadPages : batch' = [batch EXCEPT ![w] = P]
    /\ UNCHANGED <<now, shares, uploads, objects, audit, faults, rpc, cur>>

NextCall(w, label) == rpc' = [rpc EXCEPT ![w] = label]

Done(w) == NextCall(w, "loop") /\ cur' = [cur EXCEPT ![w] = Null]

(* Take the oldest row left and confirm that its object exists.            *)
HeadUpload(w) ==
    /\ rpc[w] = "loop"
    /\ \E u \in batch[w] :
          /\ \A v \in batch[w] : u.created <= v.created
          /\ batch' = [batch EXCEPT ![w] = @ \ {u}]
          /\ cur' = [cur EXCEPT ![w] = u]
          /\ \/ /\ NoFault
                /\ u.key \in objects
                /\ NextCall(w, "delobj")
             \/ /\ NoFault
                /\ u.key \notin objects
                /\ NextCall(w, "orphan")
             \/ /\ Fault("s3.Head")
                /\ NextCall(w, "mark")
    /\ UNCHANGED <<now, shares, uploads, objects, audit>>

(* No object: drop the row.  delete_attempts, as it was in the page, tells *)
(* an abandoned upload from a purge whose row delete failed.               *)
DropOrphan(w) ==
    /\ rpc[w] = "orphan"
    /\ \/ /\ NoFault
          /\ uploads' = DeleteUpload(cur[w].key)
          /\ IF cur[w].attempts > 0 THEN NextCall(w, "audit") /\ UNCHANGED cur
                                    ELSE Done(w)
       \/ /\ Fault("uploads.Delete")
          /\ uploads' \in {uploads, DeleteUpload(cur[w].key)}
          /\ NextCall(w, "mark")
          /\ UNCHANGED cur
    /\ UNCHANGED <<now, shares, objects, audit, batch>>

(* DeleteFile: a key the bucket no longer has is deleted without an error. *)
DeleteObject(w) ==
    /\ rpc[w] = "delobj"
    /\ \/ /\ NoFault
          /\ cur[w].key \notin StuckKey
          /\ objects' = objects \ {cur[w].key}
          /\ NextCall(w, "delshares")
       \/ /\ NoFault
          /\ cur[w].key \in StuckKey
          /\ UNCHANGED objects
          /\ NextCall(w, "markobj")
       \/ /\ Fault("s3.Delete")
          /\ objects' \in {objects, objects \ {cur[w].key}}
          /\ NextCall(w, "markobj")
    /\ UNCHANGED <<now, shares, uploads, audit, batch, cur>>

(* A failure to delete the shares is logged and passed over.               *)
DeleteShares(w) ==
    /\ rpc[w] = "delshares"
    /\ \/ /\ NoFault
          /\ shares' = DeleteByStorageKey(cur[w].key)
       \/ /\ Fault("shares.Delete")
          /\ shares' \in {shares, DeleteByStorageKey(cur[w].key)}
    /\ NextCall(w, "delrow")
    /\ UNCHANGED <<now, uploads, objects, audit, batch, cur>>

DeleteRow(w) ==
    /\ rpc[w] = "delrow"
    /\ \/ /\ NoFault
          /\ uploads' = DeleteUpload(cur[w].key)
          /\ NextCall(w, "audit")
       \/ /\ Fault("uploads.Delete")
          /\ uploads' \in {uploads, DeleteUpload(cur[w].key)}
          /\ NextCall(w, "mark")
    /\ UNCHANGED <<now, shares, objects, audit, batch, cur>>

(* MarkDeleteFailed; its own failure is logged and passed over.            *)
MarkFailed(w) ==
    /\ rpc[w] \in {"mark", "markobj"}
    /\ \/ /\ NoFault
          /\ uploads' = MarkDeleteFailed(cur[w].key)
       \/ /\ Fault("uploads.Mark")
          /\ uploads' \in {uploads, MarkDeleteFailed(cur[w].key)}
    /\ IF rpc[w] = "markobj" THEN NextCall(w, "auditfail") /\ UNCHANGED cur
                             ELSE Done(w)
    /\ UNCHANGED <<now, shares, objects, audit, batch>>

(* Mutant: the failure is recorded under the action of the purge.          *)
AuditAsPurge(w) ==
    /\ rpc[w] \in {"audit", "auditfail"}
    /\ NoFault
    /\ Record("purge_upload", cur[w].key)
    /\ Done(w)
    /\ UNCHANGED <<now, shares, uploads, objects, batch>>

(* The audit row of the purge or of the failure; a lost one is not         *)
(* retried.                                                                *)
AuditUpload(w) ==
    /\ rpc[w] \in {"audit", "auditfail"}
    /\ LET action == IF rpc[w] = "audit" THEN "purge_upload"
                                         ELSE "purge_upload_failed"
       IN  \/ NoFault /\ Record(action, cur[w].key)
           \/ /\ Fault("audit.Record")
              /\ Record(action, cur[w].key) \/ UNCHANGED audit
    /\ Done(w)
    /\ UNCHANGED <<now, shares, uploads, objects, batch>>

RetentionStep(w) ==
    \/ StartRetention(w)
    \/ HeadUpload(w)
    \/ DropOrphan(w)
    \/ DeleteObject(w)
    \/ DeleteShares(w)
    \/ DeleteRow(w)
    \/ MarkFailed(w)
    \/ AuditUpload(w)

(* The process dies: the page and the place in it are gone.                *)
CrashRetention(w) ==
    /\ batch' = [batch EXCEPT ![w] = {}]
    /\ Done(w)
=============================================================================
