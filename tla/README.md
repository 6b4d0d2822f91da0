# Lapis archive file service: specification

TLA+ modules for the file and share service in `src/`, TLC configurations that
check them on small instances, and TLAPS proofs for every instance.

## 1. The system

The service hands out presigned URLs: clients upload to and download from an S3
bucket directly, and the service keeps the records in Postgres. Any number of
replicas run against the same database and bucket. Nothing takes a lock or
opens a transaction (migrations excepted); every handler and every background
job is a sequence of separate calls, each of which can fail, and what was read
by one call is acted on by a later one.

| Part | State | Operations | Interacts with | What makes it correct |
| --- | --- | --- | --- | --- |
| share rules (`domain/share.go`) | a share record | `NewShare`, `Rotate`, `Verify`, `Expired` | called by the share endpoints | life clamped, at most three codes |
| share endpoints (`handlers/share.go`) | rows of `shares` | `CreateShare`, `rotateShare`, `RevokeShare`; readers `GetShare`, `UnlockShare`, `ListMine` | store, bucket (HEAD), `uploads` (cap) | one link per file; a link keeps slug and owner; only the owner mints codes; a link that unlocks leads to a file |
| upload endpoints (`handlers/file.go`) | rows of `uploads` | `PresignUpload`; reader `GetFile` | store, bucket | whatever lands has an upload row |
| multipart endpoints (`handlers/multipart.go`, `storage/s3.go`) | sessions and parts in the bucket | `Init`, `PresignPart`, `Complete`, `Abort`; reader `Status` | store, bucket | size cap, whole files, a refusal is final |
| names and keys (`handlers/file.go`, `storagekey`) | none | `sanitizeFilename`, `Build`, `Split`, `validKey` | upload and share endpoints | names survive the key, and keys pass `validKey` again |
| store (`internal/store`) | tables `shares`, `uploads` | one SQL statement each | Postgres | unique slug, unique storage key |
| retention job (`worker/retention.go`) | a page of upload rows and a place in it | HEAD, delete object, shares, row, audit | store, bucket, audit | nothing early, everything in the end, honest audit |
| purge job (`worker/purge.go`) | a page of share rows | delete row, audit | store, audit | expired links go, others stay |
| runner, server (`worker/worker.go`, `internal/server`) | goroutines, contexts | boot, serve, tick, drain, cancel, wait, close | migrations, the jobs, requests | runs go on until shutdown; every wait ends |
| audit (`internal/audit`) | `audit_log`, `job_runs` | insert | Postgres | entries tell the truth |
| rate limiter (`handlers/ratelimit.go`) | times per key | `Allow`, `evictStale` | unlock and metadata endpoints, route groups | at most `limit` in any window, bounded memory, no lockout that feeds itself |
| migrations (`internal/migrate`) | `schema_migrations` | lock, apply, record | Postgres | each file once, in order |
| auth, config, responses | none | pure or library code | | |

Hard here: interleavings of requests on one file; a job that works from a page
read long ago, next to another replica doing the same; calls that take effect
and report an error; crashes between the calls of one deletion; a retry counter
used as evidence; windows that meet at one instant; rows that fail for good;
replicas of two releases that boot at once; a full map of a limiter; parts that
arrive while their upload is being completed; time limits during shutdown.
`PROJECT.json` lists each under "hazards" with its line.

## 2. The modules

```
ShareDomain            rules of a share, as operators
  Catalog              tables, bucket, clock, failures
    ShareAPI           POST /shares, DELETE /shares/:slug, call by call
    UploadAPI          presigned PUT, multipart session, the client's upload
    RetentionWorker    purge-expired-uploads, call by call
    PurgeWorker        purge-expired-shares, call by call
      Archive          all of them together; properties; refinement of Links
        MCArchive      the instances TLC checks
        ArchiveProofs  type correctness, frame lemmas
          RetentionProofs   nothing early, nothing untracked
          LinkProofs        the refinement of Links
            ShareProofs     lives, purges and caps of links
          AuditProofs       what audit_log tells (from RetentionProofs)
Links                  what the service promises about links (abstract)

RateLimiter            Allow and evictStale, as operators on the map
  Unlock               the throttled endpoints of one process
    MCUnlock
    UnlockProofs       the map mirrors what was let through

FileNames              sanitizeFilename, Build, Split, validKey
  Multipart            one upload session, its parts and its calls
    MCMultipart
    MultipartProofs    sums of parts, the size cap, names

Migrate                migrations at boot under the advisory lock
  Server               boot, serving, shutdown; instantiates Runner
    MCServer           a rolling deployment
    ServerProofs       migrations, the pool, the life of a process
Runner                 the loop of every job
```

How the state corresponds to the code:

* `shares`, `uploads`, `audit` are the tables, as sets of rows with the columns
  the control flow reads. A row's slug is named after the request that drew it:
  random strings are taken to be distinct. A code stands for salt and hash.
  `delete_attempts` saturates at 1, since the code only asks whether it is
  positive. `audit` is a set: that an entry is written twice is not told apart.
* `objects` is the set of keys with an object; `grant[k]` is what a client holds
  to upload `k` with; `landed` remembers every key that ever had an object.
* `revoked` is a history that no action reads: the slugs a revoke has taken off
  the table, each with the user who asked for it.
* `pc[r]`, `arg[r]`, `draft[r]` are the local state of a POST /shares: the next
  call, the request, and the `*domain.Share` under construction. `pc` ends in
  the answer.
* `rpc[w]`, `batch[w]`, `cur[w]` are the local state of a retention run of
  replica `w`; `page[w]`, `purging[w]` those of a purge run.
* `now` is the one clock of `time.Now` and SQL `now()`. Skew between replicas
  and database is not modelled.

An action is one call to the database or the bucket, with the local computation
that follows it. `Fault(site)` lets a call of that kind fail; a failing write
may or may not have taken effect. `Crash(w)` forgets the local state of the
jobs of a replica. A request that hangs or dies simply takes no further step.
A failing list call ends a run without a change, which is a stutter. The
ten-minute limit on a run makes the remaining calls fail; each of those failures
is one the model already has. What is left of a run after the process is told
to stop behaves the same way.

Legacy objects (`LegacyKey`) are in the bucket without an upload row, as
`capToRetention` expects of files older than table `uploads`.

`Links` has one variable for the link of each file and one for spent slugs, and
four actions: open, re-key, close, and discard an unused slug. `Archive` maps
the row of a file to its link and calls a slug spent once the request that drew
it has left its insert.

`Duration(hours)` is `time.Duration(hours) * time.Hour` at its width: the
product taken into `-Word/2 .. Word/2 - 1`, where `Word` stands for 2^64. The
runs choose a small `Word`, so that a request can ask for a life that wraps into
the accepted range or below zero.

`Unlock` is about one process and its memory. `table[l]` is the map of limiter
`l`; an event carries its request, so that two at one instant are two. Every
`Allow` is one step, as the mutex makes it. `admitted` is a history of what was
let through, by incarnation of the process: limits hold per process and per
incarnation, since neither replicas nor restarts share the maps.

`Multipart` is about one session. A part is its size, a page of the listing is
cut at `PageSize`, and `pc[c]` is the next bucket call of a `Complete` or
`Abort`. `late[c]` is a history that no action reads: the parts that arrived
while `c` listed or completed. In `Archive` the same session is one grant with a deadline, since
only its life matters to retention. Names are sequences over the classes of
characters the code tells apart.

`Migrate` has a step per database call of `migrate.Run`, with the file's
transaction as one step. `seen[r]` is the set the code reads once and works
from; the schema is the sequence of files whose SQL ran. A file whose SQL is in
effect fails when it is run again, as `create table` does, and so blames its
replica with "conflict". `Server` adds the rest of a process's life: the pool,
requests in flight, the jobs of `Runner`, and the shutdown in the order of
`Server.Start`. The unlock after the migrations may fail, and its error is
ignored; a call fails with its connection or its process, and the lock goes with
the session, so the effect is that of an unlock. What a job does is `Archive`'s subject.

Definitions whose comment starts with "Mutant" change the definition below them
the way a plausible bug would. They show that the properties can fail; no
specification uses them.

## 3. What the runs check

The first four runs use module `MCArchive`; the configuration chooses sets and
bounds.

| Run | Instance | Shows |
| --- | --- | --- |
| `MCShares` | 3 requests, 2 users and anonymous callers, one file, limit 2, one lost answer of any share or upload lookup or write; no jobs, no time | `LinksKept`: the service implements `Links`. `OwnerMintsCode`. 61 thousand states |
| `MCLinks` | 2 requests, 2 users, both jobs of one replica, pages of one row, time 0..4, windows 2 and 3, one failing share write, HEAD or object deletion, done or not done | `TypeOK`, `TrackedShareHasFile`, `AuditedShareGone`, `DeletionAudited`, `LiveLinkKept`. 1.6 million states |
| `MCRetention` | 2 replicas, 2 keys and a legacy one, pages of one row, windows 1 and 2, 2 failures or crashes of any kind | `NoEarlyDeletion`, `ObjectTracked`, `AuditedFileGone`. 1.4 million states |
| `MCFair` | 1 replica, 2 keys of which one cannot be deleted, a request for any of four lives (none, too long, one that wraps into the accepted range, one that wraps below zero), one failure or crash | `LifeBounded`; `FilesRetired`, `SharesRetired` under fairness. 306 thousand states |
| `MCUnlock` | 3 requests, 2 slugs, a malformed one, 2 addresses, maps of 2 keys, limits 2 and 1, window 2, time 0..3, one restart | `AttemptsBounded`, `RefusalJustified`, `LockoutEnds`, and in `TypeOK` the bound on the maps. 169 thousand states |
| `MCMultipart` | 2 calls, 2 parts of 1 or 2 bytes, a cap of 3, one part a page, a name that holds every class of character and a name of one slash (whose key is refused, so that no call gets anywhere), one failing bucket call, a lifecycle rule that may fire at any time | `ExcessIsLate`, `VerdictFinal`, `WholeFile`, `NameKept`. 1.9 million states |
| `MCServer` | 2 replicas with 1 and 2 migrations, one job, one request at a time, 2 failures or crashes, any number of boots and stops | `AppliedInOrder`, `BootUncontended`, `ServesMigrated`, `PoolOutlivesRequests`; `BootEnds`, `JobsGoOn`, `ShutdownEnds` under fairness. 58 thousand states |

Why the bounds are enough. Two requests on a file make every race of the
handlers; the third lets a rotation meet a row created after a revoke of the
one it read. The windows are short, so that grants, shares and sweeps meet
before, at and after each deadline. One failure exposes each error path once,
two let a retry fail as well. Pages of one row make the order of a page and the
rows left for the next run matter. A limiter with a map of two keys and three
callers is full, evicts, and refuses; the clock passes the edge of the window.
Two calls on a session are every race of `Complete` and `Abort`; two parts on
pages of one make the listing follow its marker. Two replicas of which one
carries a file more meet the lock, the half-migrated database and the database
that is ahead of the binary.

`MCShares`, `MCUnlock` and `MCMultipart` stop when every request has answered,
hence no deadlock check there.

One passing run leaves out failures that the code does not survive, `MCLinks`.
It keeps the lookup of `capToRetention` reliable (an error leaves the expiry
uncapped, by the comment there: `LifeBounded`, checked with that failure, is
what remains), and for `DeletionAudited` it keeps the row's own delete and mark,
the audit insert and the process reliable (see "Known limits"). All of these
fail in `MCRetention` or `MCFair`; and `AuditedShareGone`, checked in `MCLinks`
too, is proved for failures of every kind.

`LiveLinkKept` says that a link that still unlocks, and whose file is within its
window (past it, retention takes both), leaves the table in two ways only: its own owner revokes it in that step, or the purge job acts on a page
that holds an earlier, expired version of it. The second is the race that
`MCPurgeRace` shows; nothing else is excused, owned links included.
`ExcessIsLate` says that what `Complete` assembles is within the cap but for the
parts that arrived during that very call; that those can exceed it is shown by
`MCOversize`.

Fairness. `Archive!FairSpec` asks that time passes and that each job of each
replica keeps taking steps: `Runner.loop` starts a run every hour for as long as
the process lives, a run is straight-line code bounded by `perRunTimeout`, and
the process is restarted after a crash. Failures are bounded by `MaxFaults`, so
they stop in the end; requests and clients owe nothing. `Server!FairSpec` is
strongly fair to a booting replica, because `pg_advisory_lock` queues its
waiters in order and every holder gives the lock back; it is weakly fair to the
start after the migrations (`NewVerifier` has a time limit and its failure is
only logged), to the loop of each job, and to each step of a shutdown. Draining
and waiting for the jobs have time limits. Two steps have none and rest on the
database answering or dropping the connection: the insert of `job_runs`, which
is given the runner's context and not the run's, and `pool.Close`, which waits
until every connection was given back. No request has to end, and no process has to boot.

### Disagreements

These runs state what a document or comment of the repository says, and TLC
finds a behaviour of the code that does otherwise. Each is a finding in
`PROJECT.json` with the quotation.

| Run | Statement | Behaviour |
| --- | --- | --- |
| `MCCodeLimit` | 3 codes max | re-shares that read the same row each hand out a code and count as one |
| `MCPurgeRace` | shares past their expiry are removed | a link renewed after the page was read is removed as well |
| `MCOutlive` | a share never outlives the file | the upload row disappears between HEAD and the cap, and the share is left uncapped |
| `MCBogusAudit` | an abandoned upload is dropped without a bogus `purge_upload` entry | the row of an abandoned upload could not be deleted (or its HEAD failed), which bumps `delete_attempts`; the next run takes that for an object it once deleted and writes the entry |
| `MCOversize` | the total is capped against what the bucket holds | a part that lands between the listing and the assembly is in the object and was never counted |

`MCBogusAudit` lets the row's deletion fail once; with `"s3.Head"` in its
`Faulty` instead, the failing HEAD leads to the same entry.

Three more need no run; the model follows the code in each.

* The repository's README says that the purge worker deletes "object and row";
  `PurgeExpiredShares` deletes the row, and its own comment leaves the object to
  retention.
* It says that retention deletes an upload 3 (or 7) days "after it lands". The
  windows count from `created_at` of the upload row, which is written at presign
  time, so an upload that takes long to land is deleted that much sooner after
  it has. `NoEarlyDeletion` is about the window the code keeps.
* `validKey` is said to hold a key to the shape that `sanitizeFilename`
  produces. A name of slashes only becomes a key that ends in a slash, which
  `validKey` refuses (`NameKept` is about the keys it accepts), and a name of
  many characters of several bytes can become a key longer than
  `maxKeyLength`, which counts bytes.

### Known limits

Three properties hold only in the instance their run gives them. Each line names
the change of the configuration that makes TLC find the counterexample.

* `DeletionAudited` fails with `"crash"`, `"audit.Record"` or `"uploads.Delete"`
  in `Faulty` of `MCLinks`: between the object's deletion and the entry, a crash
  loses the entry, so does its insert when it fails, and so does a deletion of
  the row that took effect and reported a failure, since there is no row left to
  mark. It fails as well with a second replica there: the first removes the object, is told of a
  failure and marks the row; the second has a copy of the row from before the
  mark, finds no object, takes the upload for an abandoned one and drops the
  row without an entry.
* `ObjectTracked` fails with a `SessionTTL` beyond both windows in
  `MCRetention`: a session completed after its upload row was dropped lands
  untracked. It takes a bucket without the lifecycle rule the deployment has, or
  windows shorter than that rule's.
* `FilesRetired` fails with `BatchSize = 1` in `MCFair`: objects that cannot
  be deleted keep their place at the head of every page.

## 4. What is proved

Every invariant and every action property that a passing run checks is a theorem
for every value of the constants: any sets of requests, keys, users, replicas
and calls, any windows, limits and sizes, any number of failures. The theorems
assume what the modules assume of their constants (`ShareDomain`, `Catalog`,
`ShareAPI`, `UploadAPI`, `RetentionWorker`, `Archive`; `RateLimiter`, `Unlock`;
`FileNames`, `Multipart`; `Migrate`, `Server`), which TLC evaluates in every run,
and the hypotheses named below, each of which "Known limits" shows to be needed
or the code passes over on purpose.

The retention job

* `TypeCorrect` (`ArchiveProofs`): `TypeOK` is inductive. Its content beyond
  types: at each label the record the code dereferences there exists.
* `EarlyDeletionNever` (`RetentionProofs`): `NoEarlyDeletion`. The job deletes
  on the word of an old copy of a row, so the invariant is about copies:
  `WindowInv` says that every copy agrees with the grant of its key and that
  the copies in a job's hands are past their window. Grants do not change and
  time does not run back, so an old copy is as good as a fresh one
  (`WindowInvariance`).
* `ObjectsStayTracked`, `AuditedFilesAreGone` (`RetentionProofs`), under
  `GrantsFitWindow`: permissions to upload end within the window. `TrackInv`
  strengthens `ObjectTracked` to keys that can still land, and says that from
  the label after an object was found absent or deleted it is gone for good.
  Without the hypothesis the statement is false ("Known limits").
* `LandInvariance` (`RetentionProofs`): what arrived is there until its window
  has passed. The proofs about shares and about the audit rest on it.
* `DeletionsAreAudited` (`AuditProofs`), under `EntriesWritten` (the row's
  deletion, the entry and the process do not fail) and a bucket that does not
  fail a deletion: a removed object is told, or a run is on its way to the entry
  (`Told`), on any number of replicas.
* `LoneDeletionsAreAudited` (`AuditProofs`), the same on one replica with a
  bucket that may remove an object and report a failure, if marks are written:
  `LoneInv` says that the run works on the row itself and that the row of a
  missing object is marked or about to be. With two replicas it is false.

Links

* `OwnersMintCodes` (`LinkProofs`): `LinkInv` says what a handler may still
  rely on when it writes: if a row with the slug of its draft exists, the row
  has the owner that was checked, since no statement writes an owner and only
  the request that drew a slug inserts it.
* `ArchiveImplementsLinks` (`LinkProofs`): `Spec => LinksKept`, the refinement
  of `Links`, step by step from `LinkInv`: an insert opens, a rotation re-keys
  or finds nothing, every delete closes, everything else leaves links alone.
* `LivesBounded` (`ShareProofs`): no link ends later than `MaxTTL` from now,
  whatever `ttl_hours` wraps to, since the clamp follows the multiplication and
  the cap only shortens. `LifeInv` adds the drafts in the requests' hands.
* `AuditedSharesAreGone` (`ShareProofs`): `PurgeInv` says that the slug a purge
  has deleted, or told of, is spent and not in the table. The refinement shows
  that a spent slug does not come back; a rotation that was under way finds no row.
* `LiveLinksAreKept` (`ShareProofs`), owned links included: from `PurgeInv`
  (what a page holds had expired when it was read), `WindowInv` (retention works
  on keys past their window) and `RevokedInv` (a slug that was revoked is closed
  for good, so the revoke that excuses the loss of a live link is that very
  step's, by the owner the row names).
* `TrackedSharesHaveFiles` (`ShareProofs`), under `CapsApply`: the lookup of
  `capToRetention` does not fail and the windows are positive (the code caps in
  neither case). `CapInv` is about the share and the drafts: the file landed,
  and while it is tracked the share ends by the file's deadline. Every other
  call may fail, and HEAD, cap, write and sweep may interleave in any way.

Limiters

* `UnlockTypeCorrect`, `AttemptsAreBounded`, `LockoutsEnd`,
  `RefusalsAreJustified` (`UnlockProofs`), from one invariant. `UnlockInv` says
  that the map mirrors the history: an event of the map was let through, and
  what was let through within the window is in the map, evictions
  notwithstanding. A refusal is put down to the limiter that gave it: `perIP`
  for a request that has passed `perSlug`, one of the other two before that. So the count the code compares is the count the statements
  are about, by the library's theorems on cardinality.

Sessions

* `VerdictsAreFinal`, `OnlyLatePartsExceed`, `MultipartTypeCorrect`
  (`MultipartProofs`). `MultipartInv` says that a call in its listing has
  counted at least the parts up to its marker, but for those that arrived since
  it began, whatever was replaced meanwhile; a page leaves no gap (`PageFollows`), so at the end it has counted all but the late ones.
* `FilesAreWhole`: `PartCount` slices add up to the declared size
  (`SlicesAddUp`). `NamesAreKept`: a sanitized name is a name
  (`SanitizedIsName`), and `Split` undoes `Build` on it (`SplitBuild`).
* These need to know what folds compute. The library's induction theorems take
  an operator as a parameter, which the provers cannot instantiate; so induction
  is done over sets: the counterexamples, were there any, would have a least one
  (`LeastNat`, `InductionOverNat`, `MinimalSet`). From that, the recursions that
  `Bytes` and `Visible` fold with have solutions (`SumsExist`, `KeptExists`),
  a sum may start with any element (`SumAnyFirst`), and sums of disjoint sets of
  parts add up (`BytesAddUp`).

Processes

* `MigrationsInOrder`, `BootsUncontended`, `ServersMigrated` (`ServerProofs`),
  for any number of replicas, releases, failures and crashes, from
  `MigrateAssumption` alone. The code works from the versions it read, so
  `MigrateInv` says that a replica that reads or applies holds the lock, hence
  is alone, and that one that applies has seen exactly the table; the next file
  it picks is then the one after the last (`NextIsNew`), and a commit whose
  answer is lost is a commit all the same (`CommitInOrder`).
* `PoolsOutliveRequests` (`ServerProofs`): `PoolInv` adds that requests are only
  handled while serving and draining, and that the pool is open from the boot to
  the end of a full drain.
* `ServerTypeCorrect` (`ServerProofs`): from both and `LifeInv`, that the jobs
  of a process have loops exactly while it serves or shuts down.

Only model-checked: the liveness properties `FilesRetired`, `SharesRetired`,
`BootEnds`, `JobsGoOn` and `ShutdownEnds`, since fairness and ENABLED are outside
the prover's reach; and what the five runs of "Disagreements" refute.

## 5. Not modelled

* Contents of files, e-mail addresses, URLs and responses.
* Read-only endpoints: `GetShare` (but for its limiter), `ListMine`, `Status`,
  `GetFile`. They change nothing and answer from one or two reads.
* `Verify`, `normalizeCode`, the draw and the hash of a code: one comparison of
  hashes, by library code; a code stands for itself in the model.
* Token verification (library code), CORS, body limits, configuration, health.
  A caller is a verified user or nobody, which is what `Optional` yields.
* The service without a database: share endpoints answer 503 and no job runs.
* What a signed URL contains; that it expires is the deadline of a grant in
  `Archive`, and a client that does not use it in `Multipart`.
* Clock skew, and slug or code collisions.
* Limits across replicas: each process counts for itself.

## 6. Plan

Done: the core (`ShareDomain`, `Catalog`, `ShareAPI`, `UploadAPI`,
`RetentionWorker`, `PurgeWorker`, `Archive`, `Links`), the limiters
(`RateLimiter`, `Unlock`), the sessions (`FileNames`, `Multipart`), the process
(`Migrate`, `Runner`, `Server`), and the proofs above.

What is left:

1. Safety halves of the liveness properties as theorems: what a retention or a
   purge run may not lose on its way (a row that is due stays due until it is
   gone), and that a holder of the advisory lock is always able to give it back.
2. Lemmas on the rules of a share (`Duration`, the clamp, `Rotate`) stated on
   their own.
3. What `Archive` and `Multipart` say of one session, tied by a refinement.
