------------------------------ MODULE Archive ------------------------------
(***************************************************************************)
(* The service: concurrent share requests, uploads and the two background  *)
(* jobs of every replica over one database, one bucket and one clock.      *)
(***************************************************************************)
EXTENDS ShareAPI, UploadAPI, RetentionWorker, PurgeWorker

vars == <<now, shares, uploads, objects, audit, faults,
          pc, arg, draft, revoked, grant, landed, rpc, batch, cur, page,
          purging>>

Init ==
    /\ CatalogInit
    /\ ApiInit
    /\ UploadInit
    /\ RetentionInit
    /\ PurgeInit

-----------------------------------------------------------------------------

(* Storage keys carry a random UUID: a caller can only name a minted one.  *)
ShareStep ==
    /\ \/ \E r \in Request, key \in Key, user \in Owner, ttl \in TTL :
             Minted(key) /\ CreateShare(r, key, user, ttl)
       \/ \E r \in Request : ShareRequestStep(r)
       \/ \E user \in User, slug \in Request : RevokeShare(user, slug)
    /\ UNCHANGED <<uploadVars, retentionVars, purgeVars>>

ClientStep ==
    /\ \E key \in Key : UploadStep(key)
    /\ UNCHANGED <<apiVars, retentionVars, purgeVars>>

Retain(w) ==
    /\ RetentionStep(w)
    /\ UNCHANGED <<apiVars, uploadVars, purgeVars>>

Purge(w) ==
    /\ PurgeStep(w)
    /\ UNCHANGED <<apiVars, uploadVars, retentionVars>>

(* A replica dies and is started again: its jobs begin a new run.          *)
Crash(w) ==
    /\ Fault("crash")
    /\ CrashRetention(w)
    /\ CrashPurge(w)
    /\ UNCHANGED <<now, shares, uploads, objects, audit>>
    /\ UNCHANGED <<apiVars, uploadVars>>

Clock ==
    /\ Tick
    /\ UNCHANGED <<apiVars, uploadVars, retentionVars, purgeVars>>

Next ==
    \/ ShareStep
    \/ ClientStep
    \/ \E w \in Replica : Retain(w) \/ Purge(w) \/ Crash(w)
    \/ Clock

Spec == Init /\ [][Next]_vars

(* Time passes, and the runner of a live replica keeps starting its jobs   *)
(* and each job keeps making its calls.  Requests and clients owe nothing. *)
FairSpec ==
    /\ Spec
    /\ WF_vars(Clock)
    /\ \A w \in Replica : WF_vars(Retain(w)) /\ WF_vars(Purge(w))

-----------------------------------------------------------------------------

TypeOK ==
    /\ CatalogTypeOK
    /\ ApiTypeOK
    /\ UploadTypeOK
    /\ RetentionTypeOK
    /\ PurgeTypeOK

(* The retention policy still protects the object of key.  Nothing tracks  *)
(* a legacy object, so nothing may delete it.                              *)
InWindow(key) == key \in LegacyKey \/ now <= Deadline(key)

Tracked(key) == \E u \in uploads : u.key = key

Live(share) == ~ Expired(share, now)

Audited(action, subject) == [action |-> action, subject |-> subject] \in audit

Slugs == {x.slug : x \in shares}

-----------------------------------------------------------------------------

(* Links is the promise about links: one per file, identity fixed while it *)
(* lasts, no way back for a slug, codes minted by the owner.  The request  *)
(* that drew a slug may still open it until it has left its insert.        *)
LinkOf(key) ==
    IF SharesOf(key) = {} THEN Null
    ELSE LET x == CHOOSE x \in SharesOf(key) : TRUE
         IN  [slug |-> x.slug, owner |-> x.owner, by |-> arg[x.code[1]].user]

LinkMap == [k \in Key |-> LinkOf(k)]

SpentSlugs == {r \in Request : pc[r] \notin {"idle", "head", "cap", "insert"}}

Promise == INSTANCE Links WITH
    File <- Key, Slug <- Request, Person <- User, Nobody <- Anon,
    NoLink <- Null, link <- LinkMap, spent <- SpentSlugs

ASSUME NullAssumption == Null \notin Promise!Link

(* Every step of the handlers and the jobs (CreateShare, rotateShare,      *)
(* RevokeShare, both sweeps), with every interleaving and lost answer, is  *)
(* a step of Links or changes no link: a rotation that was prepared before *)
(* a revoke or a sweep cannot bring the row back, and none moves a link to *)
(* another file or owner.                                                  *)
LinksKept == Promise!Spec

(* The code in force on an owned link was minted by a request of its       *)
(* owner: rotateShare checks the owner on a row read several calls before  *)
(* RotateCode writes, and a failed insert rotates whatever row it finds.   *)
OwnerMintsCode ==
    \A x \in shares : x.owner # Anon => arg[x.code[1]].user = x.owner

(* The retention job removes an object only once its window has passed,    *)
(* even when it works from an old page.                                    *)
NoEarlyDeletion == [][\A k \in objects \ objects' : ~ InWindow(k)]_vars

(* While its file is tracked, a link that unlocks leads to a file: HEAD    *)
(* before the share is built, capToRetention and the order of the          *)
(* retention job's deletions together see to it.                           *)
TrackedShareHasFile ==
    \A x \in shares : Live(x) /\ Tracked(x.key) => x.key \in objects

(* A live link within its file's window disappears only by a revoke of its *)
(* own owner (DELETE /shares/:slug deletes "where slug and owner_id"), or  *)
(* by a purge sweep whose page holds an earlier, expired version of the    *)
(* row: the disagreement PurgeOnlyExpired shows.  Nobody else's revoke,    *)
(* failed or not, no retention sweep and no other request removes it.      *)
LiveLinkKept ==
    [][\A x \in shares :
         Live(x) /\ InWindow(x.key) /\ x.slug \notin Slugs'
         => \/ [slug |-> x.slug, by |-> x.owner] \in revoked' \ revoked
            \/ \E w \in Replica : \E y \in page[w] \ page'[w] :
                  y.slug = x.slug /\ y # x /\ ~ Live(y)]_vars

(* Every object the service let in keeps its upload row until it is gone,  *)
(* so retention can find it: the row is written before the client can      *)
(* upload and dropped after the object.                                    *)
ObjectTracked == \A k \in objects \ LegacyKey : Tracked(k)

(* No link lives longer than the longest life a request may ask for,       *)
(* whatever number of hours it sends, wrapped around the width of a        *)
(* Duration or not, and whether or not the retention cap was found.        *)
LifeBounded == \A x \in shares : x.expires <= now + MaxTTL

(* audit_log tells of no purge of a file that is still in the bucket,      *)
(* whichever replica, retry or restart wrote the entry.                    *)
AuditedFileGone ==
    \A k \in Key : Audited("purge_upload", k) => k \notin objects

(* A link whose purge is in audit_log is gone and stays gone: a rotation   *)
(* that read the row before the purge does not revive it.                  *)
AuditedShareGone ==
    \A s \in Request : Audited("purge_share", s) => s \notin Slugs

(* Every object that was removed is in audit_log, or its row is still      *)
(* there for a later run, or a run is about to write the entry.            *)
DeletionAudited ==
    \A k \in landed \ objects :
        \/ Audited("purge_upload", k)
        \/ Tracked(k)
        \/ \E w \in Replica : /\ rpc[w] \in {"delshares", "delrow", "audit"}
                              /\ cur[w].key = k

(* An object past its window is removed, whatever call failed on the way   *)
(* and whatever replica restarted, unless the bucket refuses for good.     *)
FilesRetired ==
    \A k \in Key \ (LegacyKey \cup StuckKey) :
        (k \in objects /\ ~ InWindow(k)) ~> k \notin objects

ExpiredLink(slug) == \E x \in shares : x.slug = slug /\ ~ Live(x)

(* An expired link is removed by the purge job or rotated to a new expiry, *)
(* whatever call failed on the way and whatever replica restarted.         *)
SharesRetired == \A s \in Request : ExpiredLink(s) ~> ~ ExpiredLink(s)

-----------------------------------------------------------------------------

(* What the repository's documents say and the code does not keep.         *)

(* "re-sharing the same file keeps its link and rotates the code (3 codes  *)
(* max)": the codes handed out for one link.                               *)
CodeLimit ==
    \A s \in Request :
        Cardinality({r \in Request : pc[r] = "ok" /\ draft[r].slug = s})
            <= MaxShareCount

(* "PurgeExpiredShares removes shares past their expiry".                  *)
PurgeOnlyExpired ==
    [][\A w \in Replica, x \in shares :
         /\ purging[w] = Null
         /\ purging'[w] # Null
         /\ purging'[w].slug = x.slug
         => ~ Live(x)]_vars

(* "capToRetention shortens a share's expiry so it never outlives the      *)
(* file".                                                                  *)
LiveShareHasFile == \A x \in shares : Live(x) => x.key \in objects

(* "An upload row is written at presign time, so an abandoned upload       *)
(* leaves a row with no object; drop it without a bogus purge_upload       *)
(* audit": audit_log tells of no purge of a file that never arrived.       *)
AuditTruthful == \A k \in Key : Audited("purge_upload", k) => k \in landed
=============================================================================
