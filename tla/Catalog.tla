------------------------------ MODULE Catalog ------------------------------
(***************************************************************************)
(* The state the HTTP handlers and the workers share: the Postgres tables  *)
(* shares, uploads and audit_log (internal/store, internal/audit,          *)
(* db/migrations), the objects of the bucket (internal/storage) and the    *)
(* clock.  A table is a set of rows, an SQL statement is one expression on *)
(* it, and one statement or one bucket call is one step.                   *)
(*                                                                         *)
(* Calls fail.  Fault(site) is the failure of one call of the kind site;   *)
(* the error a failing statement returns does not tell whether it took     *)
(* effect, so actions that use Fault choose.  Only the kinds in Faulty     *)
(* fail, at most MaxFaults times in a behaviour.                           *)
(***************************************************************************)
EXTENDS ShareDomain, FiniteSets

CONSTANTS
    Request,     \* share-creating HTTP requests, each sent at most once
    Key,         \* storage keys
    LegacyKey,   \* keys whose objects were in the bucket before the service
    User,        \* signed-in callers
    Anon,        \* no verified token; also the null owner_id
    Null,        \* no record
    AnonTTL,     \* RETENTION_ANON_HOURS
    OwnedTTL,    \* RETENTION_OWNED_HOURS
    Replica,     \* service processes; each runs both jobs
    BatchSize,   \* sweepBatchSize, the page a job reads
    Faulty,      \* kinds of call that may fail
    MaxTime,     \* bound on the clock
    MaxFaults    \* bound on the number of failing calls

Site == {"shares.Get", "shares.Create", "shares.RotateCode", "shares.Delete",
         "uploads.Get", "uploads.Create", "uploads.Delete", "uploads.Mark",
         "s3.Head", "s3.Delete", "audit.Record", "crash"}

ASSUME CatalogAssumption ==
    /\ LegacyKey \subseteq Key
    /\ Anon \notin User
    /\ AnonTTL \in Int
    /\ OwnedTTL \in Int
    /\ BatchSize \in Nat \ {0}
    /\ Faulty \subseteq Site
    /\ MaxTime \in Nat
    /\ MaxFaults \in Nat

VARIABLES
    now,        \* the wall clock, read by time.Now() and by SQL now()
    shares,     \* table shares
    uploads,    \* table uploads
    objects,    \* keys of the objects in the bucket
    audit,      \* table audit_log, as the set of (action, subject) recorded
    faults      \* failing calls so far

Owner == User \cup {Anon}

(* The code drawn by request r: draw 1 in NewShare, draw 2 in Rotate.      *)
Code == Request \X {1, 2}

Share == [slug: Request, key: Key, owner: Owner, code: Code,
          count: Nat, expires: Nat]

(* delete_attempts only matters as zero or not, so it saturates at 1.      *)
Upload == [key: Key, owner: Owner, created: Nat, attempts: {0, 1}]

AuditEntry ==
    [action: {"purge_share"}, subject: Request] \cup
    [action: {"purge_upload", "purge_upload_failed"}, subject: Key]

CatalogTypeOK ==
    /\ now \in Nat
    /\ shares \subseteq Share
    /\ uploads \subseteq Upload
    /\ objects \subseteq Key
    /\ audit \subseteq AuditEntry
    /\ faults \in Nat

CatalogInit ==
    /\ now = 0
    /\ shares = {}
    /\ uploads = {}
    /\ objects = LegacyKey
    /\ audit = {}
    /\ faults = 0

-----------------------------------------------------------------------------

Fault(site) ==
    /\ site \in Faulty
    /\ faults < MaxFaults
    /\ faults' = faults + 1

NoFault == faults' = faults

(* Table shares.  slug and storage_key each carry a unique index.          *)
SharesOf(key) == {x \in shares : x.key = key}

CanInsert(share) == \A x \in shares : x.slug # share.slug /\ x.key # share.key

(* Mutant: the update written as an upsert of the whole row.               *)
RotateCodeUpsert(share) ==
    {x \in shares : x.slug # share.slug /\ x.key # share.key} \cup {share}

RotateCode(share) ==
    {IF x.slug = share.slug
     THEN [x EXCEPT !.code = share.code, !.count = share.count,
                    !.expires = share.expires]
     ELSE x : x \in shares}

DeleteBySlug(slug) == {x \in shares : x.slug # slug}

(* Mutant: "and owner_id = $2" dropped.                                    *)
DeleteAnyones(slug, owner) == {x \in shares : x.slug # slug}

DeleteOwned(slug, owner) == {x \in shares : ~(x.slug = slug /\ x.owner = owner)}

DeleteByStorageKey(key) == {x \in shares : x.key # key}

(* Mutant: the query joined with the owners, losing anonymous shares.      *)
ExpiredOwnedShares == {x \in shares : Expired(x, now) /\ x.owner # Anon}

ExpiredShares == {x \in shares : Expired(x, now)}

(* Table uploads, keyed by storage_key.                                    *)
Window(owner) == IF owner = Anon THEN AnonTTL ELSE OwnedTTL

(* Mutant: "created_at <= $1".                                             *)
ExpiredUploadsEarly == {u \in uploads : u.created <= now - Window(u.owner)}

(* Mutant: rows that failed once are left out.                             *)
ExpiredUploadsOnce ==
    {u \in uploads : u.created < now - Window(u.owner) /\ u.attempts = 0}

ExpiredUploads == {u \in uploads : u.created < now - Window(u.owner)}

DeleteUpload(key) == {u \in uploads : u.key # key}

(* Mutant: last_delete_error set, the counter forgotten.                   *)
MarkErrorOnly(key) == uploads

MarkDeleteFailed(key) ==
    {IF u.key = key THEN [u EXCEPT !.attempts = 1] ELSE u : u \in uploads}

Record(action, subject) ==
    audit' = audit \cup {[action |-> action, subject |-> subject]}

-----------------------------------------------------------------------------

Tick ==
    /\ now < MaxTime
    /\ now' = now + 1
    /\ UNCHANGED <<shares, uploads, objects, audit, faults>>
=============================================================================
