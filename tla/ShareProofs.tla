----------------------------- MODULE ShareProofs -----------------------------
(***************************************************************************)
(* The life of a link, for every choice of the constants: how long it may  *)
(* last, what may remove it, that it stays removed, and that while it      *)
(* unlocks there is a file behind it.                                      *)
(***************************************************************************)
EXTENDS LinkProofs, RetentionProofs

-----------------------------------------------------------------------------
(* What a step does to the table of shares and to a request.               *)

(* A step deletes rows, inserts the draft of a request or writes the       *)
(* rotation of one.                                                        *)
LEMMA TableStep ==
    ASSUME TypeOK, [Next]_vars
    PROVE  \/ shares' \subseteq shares
           \/ \E r \in Request : /\ pc[r] = "insert"
                                 /\ shares' = shares \cup {draft[r]}
           \/ \E r \in Request : /\ pc[r] = "rotWrite"
                                 /\ shares' = RotateCode(draft[r])
<1>1. CASE ~ ShareStep
  BY <1>1, OthersShrink
<1>2. ASSUME NEW r \in Request, NEW key \in Key, NEW user \in Owner,
             NEW ttl \in TTL, CreateShare(r, key, user, ttl)
      PROVE  shares' = shares
  BY <1>2 DEF CreateShare, LookUp
<1>3. ASSUME NEW r \in Request,
             HeadNew(r) \/ HeadRotate(r) \/ CapToRetention(r) \/ RotateRacer(r)
      PROVE  shares' = shares
  BY <1>3 DEF HeadNew, HeadRotate, HeadObject, CapToRetention, RotateRacer,
              LookUp
<1>4. ASSUME NEW r \in Request, InsertShare(r)
      PROVE  \/ shares' = shares
             \/ pc[r] = "insert" /\ shares' = shares \cup {draft[r]}
  BY <1>4 DEF InsertShare
<1>5. ASSUME NEW r \in Request, WriteRotation(r)
      PROVE  \/ shares' = shares
             \/ pc[r] = "rotWrite" /\ shares' = RotateCode(draft[r])
  BY <1>5 DEF WriteRotation
<1>6. ASSUME NEW user \in User, NEW slug \in Request, RevokeShare(user, slug)
      PROVE  shares' \subseteq shares
  BY <1>6 DEF RevokeShare, DeleteOwned
<1> QED BY <1>1, <1>2, <1>3, <1>4, <1>5, <1>6 DEF ShareStep, ShareRequestStep

(* Only a request itself moves on.                                         *)
LEMMA OwnStep ==
    ASSUME TypeOK, [Next]_vars, NEW r \in Request
    PROVE  \/ pc'[r] = pc[r] /\ draft'[r] = draft[r] /\ arg'[r] = arg[r]
           \/ \E key \in Key, user \in Owner, ttl \in TTL :
                 CreateShare(r, key, user, ttl)
           \/ ShareRequestStep(r)
<1> USE DEF TypeOK, ApiTypeOK
<1>1. CASE ~ ShareStep
  BY <1>1, OthersShrink
<1>2. ASSUME NEW q \in Request \ {r}, NEW key \in Key, NEW user \in Owner,
             NEW ttl \in TTL, CreateShare(q, key, user, ttl)
      PROVE  pc'[r] = pc[r] /\ draft'[r] = draft[r] /\ arg'[r] = arg[r]
  BY <1>2 DEF CreateShare, LookUp, Goto
<1>3. ASSUME NEW q \in Request \ {r}, ShareRequestStep(q)
      PROVE  pc'[r] = pc[r] /\ draft'[r] = draft[r] /\ arg'[r] = arg[r]
  <2>1. CASE HeadNew(q)
    BY <2>1 DEF HeadNew, HeadObject, Goto
  <2>2. CASE HeadRotate(q)
    BY <2>2 DEF HeadRotate, HeadObject, Goto
  <2>3. CASE CapToRetention(q)
    BY <2>3 DEF CapToRetention
  <2>4. CASE InsertShare(q)
    BY <2>4 DEF InsertShare, Goto
  <2>5. CASE RotateRacer(q)
    BY <2>5 DEF RotateRacer, LookUp, Goto
  <2>6. CASE WriteRotation(q)
    BY <2>6 DEF WriteRotation, Goto
  <2> QED BY <1>3, <2>1, <2>2, <2>3, <2>4, <2>5, <2>6 DEF ShareRequestStep
<1>4. ASSUME NEW user \in User, NEW slug \in Request, RevokeShare(user, slug)
      PROVE  pc'[r] = pc[r] /\ draft'[r] = draft[r] /\ arg'[r] = arg[r]
  BY <1>4 DEF RevokeShare, apiVars
<1> QED BY <1>1, <1>2, <1>3, <1>4 DEF ShareStep

(* Where the draft of r comes from at each label.                          *)
LEMMA DraftStep ==
    ASSUME TypeOK, [Next]_vars, NEW r \in Request
    PROVE  \/ pc'[r] = pc[r] /\ draft'[r] = draft[r] /\ arg'[r] = arg[r]
           \/ /\ pc'[r] = "rotHead" /\ shares' = shares
              /\ draft'[r] \in shares /\ draft'[r].key = arg'[r].key
           \/ /\ pc'[r] = "cap" /\ pc[r] = "head" /\ arg'[r] = arg[r]
              /\ arg[r].key \in objects
              /\ draft'[r] = NewShare(r, arg[r].key, arg[r].user, <<r, 1>>,
                                      Duration(arg[r].ttl), now)
           \/ /\ pc'[r] = "rotCap" /\ pc[r] = "rotHead" /\ arg'[r] = arg[r]
              /\ arg[r].key \in objects
              /\ draft'[r] = Rotate(draft[r], <<r, 2>>, Duration(arg[r].ttl), now)
           \/ /\ \/ pc[r] = "cap" /\ pc'[r] = "insert"
                 \/ pc[r] = "rotCap" /\ pc'[r] = "rotWrite"
              /\ CapToRetention(r)
           \/ pc'[r] \notin {"cap", "insert", "rotHead", "rotCap", "rotWrite"}
<1> USE DEF TypeOK, ApiTypeOK
<1>1. ASSUME NEW key \in Key, NEW user \in Owner, NEW label \in {"head", "error"},
             NEW onErr \in {"unavailable", "error"},
             LookUp(r, key, user, label, onErr), arg'[r].key = key
      PROVE  \/ /\ pc'[r] = "rotHead" /\ shares' = shares
                /\ draft'[r] \in shares /\ draft'[r].key = arg'[r].key
             \/ pc'[r] \in {"forbidden", "head", "error", "unavailable"}
  BY <1>1 DEF LookUp, Goto, SharesOf
<1>2. ASSUME NEW key \in Key, NEW user \in Owner, NEW ttl \in TTL,
             CreateShare(r, key, user, ttl)
      PROVE  \/ /\ pc'[r] = "rotHead" /\ shares' = shares
                /\ draft'[r] \in shares /\ draft'[r].key = arg'[r].key
             \/ pc'[r] \in {"forbidden", "head", "error", "unavailable"}
  <2>1. arg'[r].key = key
    BY <1>2 DEF CreateShare
  <2> QED BY <1>1, <1>2, <2>1 DEF CreateShare
<1>3. CASE RotateRacer(r)
  <2>1. arg[r].key \in Key /\ arg[r].user \in Owner /\ arg' = arg
    BY <1>3 DEF RotateRacer, Arg
  <2> QED BY <1>1, <1>3, <2>1 DEF RotateRacer
<1>4. CASE HeadNew(r)
  BY <1>4 DEF HeadNew, HeadObject, Goto
<1>5. CASE HeadRotate(r)
  BY <1>5 DEF HeadRotate, HeadObject, Goto
<1>6. CASE CapToRetention(r)
  <2>1. \/ pc[r] = "cap" /\ pc'[r] = "insert"
        \/ pc[r] = "rotCap" /\ pc'[r] = "rotWrite"
    BY <1>6 DEF CapToRetention
  <2> QED BY <1>6, <2>1
<1>7. CASE InsertShare(r) \/ WriteRotation(r)
  BY <1>7 DEF InsertShare, WriteRotation, Goto
<1> QED BY <1>2, <1>3, <1>4, <1>5, <1>6, <1>7, OwnStep DEF ShareRequestStep

(* RotateCode gives the row of d the expiry of d.                          *)
LEMMA RotatedExpiry ==
    ASSUME NEW d, shares \subseteq Share, NEW y \in RotateCode(d)
    PROVE  \E x \in shares :
              /\ y.slug = x.slug /\ y.key = x.key /\ y.owner = x.owner
              /\ y.expires = IF x.slug = d.slug THEN d.expires ELSE x.expires
BY DEF RotateCode, Share

(* RotateCode neither adds nor removes a slug.                             *)
LEMMA RotatedSlugs ==
    ASSUME NEW d, shares \subseteq Share
    PROVE  {y.slug : y \in RotateCode(d)} = Slugs
<1>1. \A y \in RotateCode(d) : \E x \in shares : y.slug = x.slug
  BY RotatedExpiry
<1>2. ASSUME NEW x \in shares PROVE \E y \in RotateCode(d) : y.slug = x.slug
  BY RotatedRows
<1> QED BY <1>1, <1>2 DEF Slugs

-----------------------------------------------------------------------------
(* How long a link may last.                                               *)

(* A share ends within the longest life from now, in the table and in the  *)
(* hands of a request that will write it.                                  *)
LifeInv ==
    /\ LifeBounded
    /\ \A r \in Request :
          pc[r] \in {"cap", "insert", "rotCap", "rotWrite"}
             => draft[r].expires <= now + MaxTTL

(* A cap shortens a life or leaves it.                                     *)
LEMMA CapShortens ==
    ASSUME NEW x \in Share, NEW u \in Upload
    PROVE  CappedBy(x, u).expires <= x.expires
<1>1. Window(u.owner) \in Int BY CatalogAssumption DEF Window
<1>2. u.created \in Nat /\ x.expires \in Nat BY DEF Upload, Share
<1> QED BY <1>1, <1>2 DEF CappedBy, Share

(* The draft a request builds or caps ends within the longest life.        *)
LEMMA DraftLife ==
    ASSUME TypeOK, TypeOK', LifeInv, [Next]_vars, NEW r \in Request,
           pc'[r] \in {"cap", "insert", "rotCap", "rotWrite"}
    PROVE  draft'[r].expires <= now' + MaxTTL
<1>0. MaxTTL \in Nat /\ now \in Nat /\ now' \in Nat /\ now <= now'
  BY DomainAssumption, TimeGoesOn
<1>1. draft'[r].expires \in Nat
  BY DEF TypeOK, ApiTypeOK, Share
<1>2. CASE /\ pc[r] \in {"cap", "insert", "rotCap", "rotWrite"}
           /\ draft'[r].expires <= draft[r].expires
  <2>1. draft[r].expires \in Nat
    BY <1>2 DEF TypeOK, ApiTypeOK, Share
  <2> QED BY <1>0, <1>1, <1>2, <2>1 DEF LifeInv
<1>3. CASE draft'[r].expires = now + ClampTTL(Duration(arg[r].ttl)) /\ arg[r] \in Arg
  <2>1. Duration(arg[r].ttl) \in Int
    BY <1>3, DurationInt DEF Arg
  <2>2. ClampTTL(Duration(arg[r].ttl)) \in Nat /\ ClampTTL(Duration(arg[r].ttl)) <= MaxTTL
    BY <2>1, ClampNat
  <2> QED BY <1>0, <1>3, <2>2
<1>4. CASE CapToRetention(r)
  <2>1. pc[r] \in {"cap", "rotCap"} /\ draft[r] \in Share
    BY <1>4 DEF CapToRetention, TypeOK, ApiTypeOK
  <2>2. draft'[r].expires <= draft[r].expires
    <3>1. CASE draft' = draft
      BY <1>1, <3>1
    <3>2. CASE \E u \in uploads : draft' = [draft EXCEPT ![r] = CappedBy(@, u)]
      BY <2>1, <3>2, CapShortens DEF TypeOK, ApiTypeOK, CatalogTypeOK
    <3> QED BY <1>4, <3>1, <3>2 DEF CapToRetention
  <2> QED BY <1>2, <2>1, <2>2
<1>5. CASE pc[r] = "head" /\ draft'[r] = NewShare(r, arg[r].key, arg[r].user,
                                <<r, 1>>, Duration(arg[r].ttl), now)
  BY <1>3, <1>5 DEF NewShare, TypeOK, ApiTypeOK
<1>6. CASE pc[r] = "rotHead" /\ draft'[r] = Rotate(draft[r], <<r, 2>>,
                                   Duration(arg[r].ttl), now)
  <2>1. draft[r] \in Share /\ arg[r] \in Arg
    BY <1>6 DEF TypeOK, ApiTypeOK
  <2> QED BY <1>3, <1>6, <2>1 DEF Rotate, Share
<1>7. CASE pc'[r] = pc[r] /\ draft'[r] = draft[r]
  BY <1>1, <1>2, <1>7
<1> QED BY <1>4, <1>5, <1>6, <1>7, DraftStep

(* No link outlives the longest life a request may ask for: whatever       *)
(* ttl_hours wraps to, whether or not capToRetention found the upload row, *)
(* and whichever rotation was written last.                                *)
THEOREM LivesBounded == Spec => []LifeBounded
<1>1. Init => LifeInv
  BY DEF Init, CatalogInit, ApiInit, LifeInv, LifeBounded
<1>2. TypeOK /\ TypeOK' /\ LifeInv /\ [Next]_vars => LifeInv'
  <2> SUFFICES ASSUME TypeOK, TypeOK', LifeInv, [Next]_vars PROVE LifeInv'
    OBVIOUS
  <2>0. shares \subseteq Share
    BY DEF TypeOK, CatalogTypeOK
  <2>1. ASSUME NEW e \in Nat, e <= now + MaxTTL PROVE e <= now' + MaxTTL
    <3>1. MaxTTL \in Nat /\ now \in Nat /\ now' \in Nat /\ now <= now'
      BY DomainAssumption, TimeGoesOn
    <3>2. \A m, a, b \in Nat : a <= b /\ e <= a + m => e <= b + m
      OBVIOUS
    <3> QED BY <2>1, <3>1, <3>2
  <2>2. \A x \in shares : x.expires \in Nat /\ x.expires <= now' + MaxTTL
    BY <2>0, <2>1 DEF LifeInv, LifeBounded, Share
  <2>3. ASSUME NEW r \in Request, pc[r] \in {"insert", "rotWrite"}
        PROVE  draft[r].expires <= now' + MaxTTL
    BY <2>1, <2>3 DEF LifeInv, TypeOK, ApiTypeOK, Share
  <2>4. ASSUME NEW r \in Request, pc[r] = "rotWrite"
        PROVE  \A y \in RotateCode(draft[r]) : y.expires <= now' + MaxTTL
    BY <2>0, <2>2, <2>3, <2>4, RotatedExpiry
  <2>5. LifeBounded'
    BY <2>2, <2>3, <2>4, TableStep DEF LifeBounded
  <2> QED BY <2>5, DraftLife DEF LifeInv
<1>3. LifeInv => LifeBounded
  BY DEF LifeInv
<1> QED BY <1>1, <1>2, <1>3, TypeCorrect, PTL DEF Spec

-----------------------------------------------------------------------------
(* What is purged stays purged.                                            *)

(* No row has the slug and no request will ever insert one.                *)
Closed(slug) == slug \in SpentSlugs /\ slug \notin Slugs

(* A page holds rows that were in the table and had expired; a slug that   *)
(* is being audited, or was, is closed.                                    *)
PurgeInv ==
    /\ \A w \in Replica : \A y \in page[w] :
          y.slug \in SpentSlugs /\ Expired(y, now)
    /\ \A w \in Replica : purging[w] # Null => Closed(purging[w].slug)
    /\ \A s \in Request : Audited("purge_share", s) => Closed(s)

(* A spent slug stays spent: that much Links says already.                 *)
LEMMA SpentGrows ==
    ASSUME TypeOK, LinkInv, [Next]_vars
    PROVE  SpentSlugs \subseteq SpentSlugs'
BY ShareStepRefines, OthersRefine
   DEF Promise!Next, Promise!Open, Promise!Rekey, Promise!Close, Promise!Discard

(* A closed slug stays closed: an insert carries the slug of its own       *)
(* request, not spent yet, and a rotation adds no slug.                    *)
LEMMA ClosedStable ==
    ASSUME TypeOK, LinkInv, [Next]_vars, NEW s, Closed(s)
    PROVE  Closed(s)'
<1>0. shares \subseteq Share
  BY DEF TypeOK, CatalogTypeOK
<1>1. s \in SpentSlugs'
  BY SpentGrows DEF Closed
<1>2. CASE shares' \subseteq shares
  BY <1>1, <1>2 DEF Closed, Slugs
<1>3. ASSUME NEW r \in Request, pc[r] = "insert", shares' = shares \cup {draft[r]}
      PROVE  s \notin Slugs'
  <2>1. draft[r].slug = r /\ r \notin SpentSlugs
    BY <1>3 DEF LinkInv, NewDraft, SpentSlugs
  <2> QED BY <1>3, <2>1 DEF Closed, Slugs
<1>4. ASSUME NEW r \in Request, shares' = RotateCode(draft[r])
      PROVE  s \notin Slugs'
  BY <1>0, <1>4, RotatedSlugs DEF Closed, Slugs
<1> QED BY <1>1, <1>2, <1>3, <1>4, TableStep DEF Closed

(* Only the purge job changes its pages, its place in them and the record  *)
(* of what it purged.                                                      *)
LEMMA OthersLeavePurge ==
    ASSUME TypeOK, [Next]_vars, ~ \E w \in Replica : Purge(w)
    PROVE  /\ \A w \in Replica :
                 \/ page'[w] = page[w] /\ purging'[w] = purging[w]
                 \/ page'[w] = {} /\ purging'[w] = Null
           /\ \A s : Audited("purge_share", s)' => Audited("purge_share", s)
<1>1. CASE ShareStep BY <1>1, ShareFrame DEF Audited
<1>2. CASE ClientStep BY <1>2, ClientFrame DEF Audited
<1>3. CASE \E w \in Replica : Retain(w)
  <2> PICK w \in Replica : Retain(w)
    BY <1>3
  <2>1. audit' \subseteq audit \cup
           {[action |-> a, subject |-> cur[w].key] :
               a \in {"purge_upload", "purge_upload_failed"}}
    BY DEF Retain, RetentionStep, StartRetention, HeadUpload, DropOrphan,
           DeleteObject, DeleteShares, DeleteRow, MarkFailed, AuditUpload, Record
  <2> QED BY <2>1, RetainFrame DEF Audited
<1>4. CASE \E w \in Replica : Crash(w)
  BY <1>4 DEF Crash, CrashPurge, TypeOK, PurgeTypeOK, Audited
<1>5. CASE Clock BY <1>5 DEF Clock, Tick, purgeVars, Audited
<1>6. CASE UNCHANGED vars BY <1>6 DEF vars, Audited
<1> QED BY <1>1, <1>2, <1>3, <1>4, <1>5, <1>6 DEF Next

(* A step of the purge job of w: a row enters its page from the expired    *)
(* rows of the table, goes to its hands when no row has the slug any more, *)
(* and to the record from its hands.                                       *)
LEMMA PurgeMoves ==
    ASSUME TypeOK, NEW w \in Replica, Purge(w)
    PROVE  /\ \A v \in Replica \ {w} :
                 page'[v] = page[v] /\ purging'[v] = purging[v]
           /\ \A y \in page'[w] : y \in page[w] \/ y \in ExpiredShares
           /\ \/ purging'[w] = purging[w]
              \/ purging'[w] = Null
              \/ purging'[w] \in page[w] /\ shares' = DeleteBySlug(purging'[w].slug)
           /\ \A s : Audited("purge_share", s)' =>
                 \/ Audited("purge_share", s)
                 \/ purging[w] # Null /\ s = purging[w].slug
<1> USE DEF TypeOK, PurgeTypeOK
<1>1. CASE StartPurge(w)
  <2>1. \A P \in SharePages : P \subseteq ExpiredShares
    BY DEF SharePages
  <2> QED BY <1>1, <2>1 DEF StartPurge, Audited
<1>2. CASE DeleteExpired(w)
  BY <1>2 DEF DeleteExpired, Audited
<1>3. CASE AuditShare(w)
  BY <1>3 DEF AuditShare, Audited, Record
<1> QED BY <1>1, <1>2, <1>3 DEF Purge, PurgeStep

(* PurgeInv is inductive relative to the types and LinkInv.                *)
THEOREM PurgeInvariance == Spec => []PurgeInv
<1>1. Init => PurgeInv
  BY DEF Init, CatalogInit, PurgeInit, PurgeInv, Audited
<1>2. TypeOK /\ TypeOK' /\ LinkInv /\ PurgeInv /\ [Next]_vars => PurgeInv'
  <2> SUFFICES ASSUME TypeOK, TypeOK', LinkInv, PurgeInv, [Next]_vars
               PROVE  PurgeInv'
    OBVIOUS
  <2>1. ASSUME NEW y \in Share, Expired(y, now) PROVE Expired(y, now')
    <3>1. now \in Nat /\ now' \in Nat /\ now <= now' /\ y.expires \in Nat
      BY TimeGoesOn DEF Share
    <3>2. \A a, b, e \in Nat : a <= b /\ a > e => b > e
      OBVIOUS
    <3> QED BY <2>1, <3>1, <3>2 DEF Expired
  <2>2. ASSUME NEW w \in Replica, NEW y \in page'[w], y \in page[w]
        PROVE  y.slug \in SpentSlugs' /\ Expired(y, now')
    BY <2>1, <2>2, SpentGrows DEF PurgeInv, TypeOK, PurgeTypeOK
  <2>3. ASSUME NEW w \in Replica, NEW y \in page'[w], y \in ExpiredShares
        PROVE  y.slug \in SpentSlugs' /\ Expired(y, now')
    BY <2>1, <2>3, SpentGrows
       DEF ExpiredShares, LinkInv, RowsEntitled, TypeOK, CatalogTypeOK
  <2>4. CASE ~ \E w \in Replica : Purge(w)
    <3>1. ASSUME NEW w \in Replica, purging'[w] # Null
          PROVE  Closed(purging[w].slug)' 
      <4>1. purging'[w] = purging[w] /\ Closed(purging[w].slug)
        BY <2>4, <3>1, OthersLeavePurge DEF PurgeInv
      <4>2. ASSUME NEW s, s = purging[w].slug PROVE Closed(s)'
        BY <4>1, <4>2, ClosedStable
      <4> QED BY <4>1, <4>2 DEF Closed
    <3>2. \A s \in Request : Audited("purge_share", s)' => Closed(s)'
      BY <2>4, OthersLeavePurge, ClosedStable DEF PurgeInv
    <3>3. \A w \in Replica : \A y \in page'[w] : y \in page[w]
      BY <2>4, OthersLeavePurge
    <3> QED BY <2>2, <3>1, <3>2, <3>3 DEF PurgeInv
  <2>5. CASE \E w \in Replica : Purge(w)
    <3> PICK w \in Replica : Purge(w)
      BY <2>5
    <3>1. \A v \in Replica : \A y \in page'[v] : y \in page[v] \/ y \in ExpiredShares
      BY PurgeMoves
    <3>2. ASSUME NEW v \in Replica, purging'[v] # Null, NEW s, s = purging'[v].slug
          PROVE  Closed(s)'
      <4>1. CASE purging'[v] = purging[v]
        BY <3>2, <4>1, ClosedStable DEF PurgeInv
      <4>2. CASE v = w /\ purging'[w] \in page[w] /\ shares' = DeleteBySlug(s)
        <5>1. s \in SpentSlugs'
          BY <3>2, <4>2, SpentGrows DEF PurgeInv
        <5>2. s \notin Slugs'
          BY <4>2 DEF DeleteBySlug, Slugs
        <5> QED BY <5>1, <5>2 DEF Closed
      <4> QED BY <3>2, <4>1, <4>2, PurgeMoves
    <3>3. ASSUME NEW v \in Replica, purging'[v] # Null PROVE Closed(purging[v].slug)'
      BY <3>2, <3>3 DEF Closed
    <3>4. \A s \in Request : Audited("purge_share", s)' => Closed(s)'
      BY PurgeMoves, ClosedStable DEF PurgeInv
    <3> QED BY <2>2, <2>3, <3>1, <3>3, <3>4 DEF PurgeInv
  <2> QED BY <2>4, <2>5
<1> QED BY <1>1, <1>2, TypeCorrect, LinkInvariance, PTL DEF Spec

(* A link whose purge is in audit_log is gone and stays gone, whatever     *)
(* rotation was under way when the row was deleted.                        *)
THEOREM AuditedSharesAreGone == Spec => []AuditedShareGone
<1>1. PurgeInv => AuditedShareGone
  BY DEF PurgeInv, Closed, AuditedShareGone
<1> QED BY <1>1, PurgeInvariance, PTL

-----------------------------------------------------------------------------
(* What may remove a live link.                                            *)

(* Creating and rotating loses no slug.                                    *)
LEMMA RequestsKeepSlugs ==
    ASSUME TypeOK, NEW r \in Request, ShareRequestStep(r)
    PROVE  Slugs \subseteq Slugs'
<1>0. shares \subseteq Share
  BY DEF TypeOK, CatalogTypeOK
<1>1. CASE shares' = shares \/ shares' = shares \cup {draft[r]}
  BY <1>1 DEF Slugs
<1>2. CASE shares' = RotateCode(draft[r])
  BY <1>0, <1>2, RotatedSlugs DEF Slugs
<1> QED BY <1>1, <1>2 DEF ShareRequestStep, HeadNew, HeadRotate, HeadObject,
        CapToRetention, InsertShare, RotateRacer, LookUp, WriteRotation

(* The retention job deletes links only of files past their window.        *)
LEMMA RetainedLinkPastWindow ==
    ASSUME TypeOK, WindowInv, NEW w \in Replica, Retain(w),
           NEW x \in shares, x \notin shares'
    PROVE  ~ InWindow(x.key)
<1>1. DeleteShares(w) /\ x.key = cur[w].key
  BY DEF Retain, RetentionStep, StartRetention, HeadUpload, DropOrphan,
         DeleteObject, DeleteShares, DeleteByStorageKey, DeleteRow, MarkFailed,
         AuditUpload
<1>2. cur[w] \in Upload /\ Faithful(cur[w]) /\ PastWindow(cur[w])
  BY <1>1 DEF DeleteShares, WindowInv, TypeOK, RetentionTypeOK
<1>3. Window(cur[w].owner) \in Int /\ cur[w].created \in Nat /\ now \in Nat
  BY <1>2, CatalogAssumption DEF Window, Upload, TypeOK, CatalogTypeOK
<1> QED BY <1>1, <1>2, <1>3 DEF InWindow, Deadline, Faithful, PastWindow

(* A link that was revoked is gone and stays gone.                         *)
RevokedInv == \A v \in revoked : Closed(v.slug)

(* Only a revoke adds to the history of revokes.                           *)
LEMMA RevokedStep ==
    ASSUME [Next]_vars
    PROVE  \/ revoked' = revoked
           \/ \E user \in User, slug \in Request : RevokeShare(user, slug)
<1>1. CASE ShareStep
  BY <1>1 DEF ShareStep, CreateShare, ShareRequestStep
<1> QED BY <1>1 DEF Next, ClientStep, Retain, Purge, Crash, Clock, apiVars, vars

(* RevokedInv is inductive relative to the types and LinkInv.              *)
LEMMA RevokedInvariance == Spec => []RevokedInv
<1>1. Init => RevokedInv
  BY DEF Init, ApiInit, RevokedInv
<1>2. TypeOK /\ TypeOK' /\ LinkInv /\ RevokedInv /\ [Next]_vars => RevokedInv'
  <2> SUFFICES ASSUME TypeOK, TypeOK', LinkInv, RevokedInv, [Next]_vars,
                      NEW v \in revoked', NEW s, s = v.slug
               PROVE  Closed(s)'
    BY DEF RevokedInv, Closed
  <2>1. CASE v \in revoked
    BY <2>1, ClosedStable DEF RevokedInv
  <2>2. ASSUME NEW user \in User, NEW slug \in Request, RevokeShare(user, slug),
               v \notin revoked
        PROVE  Closed(s)'
    <3>1. PICK x \in shares \ shares' : v = [slug |-> x.slug, by |-> user]
      BY <2>2 DEF RevokeShare
    <3>2. s = x.slug /\ x.slug = slug
      BY <2>2, <3>1 DEF RevokeShare, DeleteOwned
    <3>3. s \in SpentSlugs'
      BY <3>1, <3>2, SpentGrows DEF LinkInv, RowsEntitled
    <3>4. \A y \in shares : y.slug = x.slug => y = x
      BY <3>1 DEF LinkInv, OneRow
    <3>5. s \notin Slugs'
      BY <2>2, <3>1, <3>2, <3>4 DEF RevokeShare, DeleteOwned, Slugs
    <3> QED BY <3>3, <3>5 DEF Closed
  <2> QED BY <2>1, <2>2, RevokedStep
<1> QED BY <1>1, <1>2, TypeCorrect, LinkInvariance, PTL DEF Spec

(* A live link whose file is within its window disappears only in a revoke *)
(* by its own owner, or by a purge whose page holds an earlier, expired    *)
(* version of the row.                                                     *)
THEOREM LiveLinksAreKept == Spec => LiveLinkKept
<1> DEFINE Excused(x) ==
       \/ [slug |-> x.slug, by |-> x.owner] \in revoked' \ revoked
       \/ \E w \in Replica : \E y \in page[w] \ page'[w] :
             y.slug = x.slug /\ y # x /\ ~ Live(y)
<1>1. TypeOK /\ WindowInv /\ PurgeInv /\ RevokedInv /\ [Next]_vars
        => \A x \in shares :
              Live(x) /\ InWindow(x.key) /\ x.slug \notin Slugs' => Excused(x)
  <2> SUFFICES ASSUME TypeOK, WindowInv, PurgeInv, RevokedInv, [Next]_vars,
                      NEW x \in shares, Live(x), InWindow(x.key),
                      x.slug \notin Slugs'
               PROVE  Excused(x)
    OBVIOUS
  <2>0. x \notin shares' /\ x.slug \in Slugs
    BY DEF Slugs
  <2>1. CASE ShareStep
    <3>1. CASE \E r \in Request, key \in Key, user \in Owner, ttl \in TTL :
                  CreateShare(r, key, user, ttl)
      BY <2>0, <3>1 DEF CreateShare, LookUp
    <3>2. CASE \E r \in Request : ShareRequestStep(r)
      BY <2>0, <3>2, RequestsKeepSlugs
    <3>3. ASSUME NEW user \in User, NEW slug \in Request, RevokeShare(user, slug)
          PROVE  Excused(x)
      <4>1. x.owner = user
        BY <2>0, <3>3 DEF RevokeShare, DeleteOwned
      <4>2. [slug |-> x.slug, by |-> user] \in revoked'
        BY <2>0, <3>3 DEF RevokeShare
      <4>3. [slug |-> x.slug, by |-> user] \notin revoked
        BY <2>0 DEF RevokedInv, Closed
      <4> QED BY <4>1, <4>2, <4>3
    <3> QED BY <2>1, <3>1, <3>2, <3>3 DEF ShareStep
  <2>2. CASE \E w \in Replica : Retain(w)
    BY <2>0, <2>2, RetainedLinkPastWindow
  <2>3. CASE \E w \in Replica : Purge(w)
    <3> PICK w \in Replica : Purge(w)
      BY <2>3
    <3>1. DeleteExpired(w)
      BY <2>0 DEF Purge, PurgeStep, StartPurge, AuditShare
    <3>2. PICK y \in page[w] : /\ page' = [page EXCEPT ![w] = @ \ {y}]
                               /\ shares' \in {shares, DeleteBySlug(y.slug)}
      BY <3>1 DEF DeleteExpired
    <3>3. y \notin page'[w] /\ y.slug = x.slug
      BY <2>0, <3>2 DEF DeleteBySlug, TypeOK, PurgeTypeOK
    <3>4. ~ Live(y) /\ y # x
      BY DEF PurgeInv, Live
    <3> QED BY <3>3, <3>4
  <2>4. CASE shares' = shares
    BY <2>0, <2>4
  <2> QED BY <2>1, <2>2, <2>3, <2>4, ClientFrame DEF Next, Crash, Clock, Tick, vars
<1> QED BY <1>1, TypeCorrect, WindowInvariance, PurgeInvariance,
           RevokedInvariance, PTL
        DEF Spec, LiveLinkKept

-----------------------------------------------------------------------------
(* While a link unlocks, there is a file behind it.                        *)

(* The retention cap is always applied: capToRetention passes over a       *)
(* failing lookup and over a window that is not positive.                  *)
CapsApply == "uploads.Get" \notin Faulty /\ AnonTTL > 0 /\ OwnedTTL > 0

(* The file of x arrived, and while retention tracks it x ends in time.    *)
Settled(x) ==
    /\ x.key \in landed
    /\ Tracked(x.key) => x.expires <= Deadline(x.key)

(* What a request about to write relies on.                                *)
DraftSettled(r) ==
    /\ pc[r] \in {"cap", "insert", "rotHead", "rotCap", "rotWrite"}
          => draft[r].key = arg[r].key
    /\ pc[r] \in {"cap", "rotCap"} => arg[r].key \in landed
    /\ pc[r] \in {"insert", "rotWrite"} => Settled(draft[r])
    /\ pc[r] \in {"rotHead", "rotCap", "rotWrite"} =>
          \A x \in shares : x.slug = draft[r].slug => x.key = draft[r].key

CapInv ==
    /\ \A x \in shares : Settled(x)
    /\ \A r \in Request : DraftSettled(r)

(* A share that is settled stays settled.                                  *)
LEMMA SettledStable ==
    ASSUME TypeOK, LandInv, [Next]_vars, NEW x, Settled(x)
    PROVE  Settled(x)'
<1>1. x.key \in Key /\ grant[x.key].kind # "none"
  BY DEF Settled, LandInv, TypeOK, UploadTypeOK
<1>2. x.key \in landed'
  BY LandedStep DEF Settled
<1>3. Tracked(x.key)' => Tracked(x.key)
  BY <1>1, NoNewRow
<1>4. Deadline(x.key)' = Deadline(x.key)
  BY <1>1, DeadlineFixed
<1> QED BY <1>2, <1>3, <1>4 DEF Settled, Deadline

(* The cap settles a draft of a file that arrived.                         *)
LEMMA CapSettles ==
    ASSUME TypeOK, TypeOK', WindowInv, LandInv, CapsApply, NEW r \in Request,
           CapToRetention(r), draft[r].key = arg[r].key, arg[r].key \in landed
    PROVE  draft'[r].key = draft[r].key /\ Settled(draft'[r])
<1>0. draft[r] \in Share /\ draft \in [Request -> Share \cup {Null}]
  BY DEF CapToRetention, TypeOK, ApiTypeOK
<1>1. CASE \A u \in uploads : u.key # arg[r].key
  BY <1>1 DEF CapToRetention, CapsApply, Fault, Settled, Tracked
<1>2. ASSUME NEW u \in uploads, u.key = arg[r].key,
             draft' = [draft EXCEPT ![r] = CappedBy(@, u)]
      PROVE  draft'[r].key = draft[r].key /\ Settled(draft'[r])
  <2>1. draft'[r] = CappedBy(draft[r], u)
    BY <1>0, <1>2
  <2>2. u \in Upload /\ Faithful(u)
    BY DEF WindowInv, TypeOK, CatalogTypeOK
  <2>3. /\ Window(u.owner) \in Int /\ Window(u.owner) > 0
        /\ u.created \in Nat /\ draft[r].expires \in Nat
    BY <1>0, <2>2, CatalogAssumption DEF CapsApply, Window, Upload, Share
  <2>4. Deadline(u.key) = u.created + Window(u.owner)
    BY <2>2 DEF Faithful, Deadline
  <2>5. CappedBy(draft[r], u).key = draft[r].key
    BY <1>0 DEF CappedBy, Share
  <2>6. CappedBy(draft[r], u).expires <= u.created + Window(u.owner)
    BY <1>0, <2>3 DEF CappedBy, Share
  <2> QED BY <1>2, <2>1, <2>4, <2>5, <2>6 DEF Settled
<1> QED BY <1>1, <1>2 DEF CapToRetention, CapsApply, Fault

(* The table stays settled.                                                *)
LEMMA RowsSettled ==
    ASSUME TypeOK, LandInv, CapInv, [Next]_vars
    PROVE  \A x \in shares' : Settled(x)'
<1>0. shares \subseteq Share
  BY DEF TypeOK, CatalogTypeOK
<1>1. \A x \in shares : Settled(x)'
  BY SettledStable DEF CapInv
<1>2. ASSUME NEW r \in Request, pc[r] \in {"insert", "rotWrite"}, NEW x, x = draft[r]
      PROVE  Settled(x)'
  BY <1>2, SettledStable DEF CapInv, DraftSettled
<1>3. ASSUME NEW r \in Request, pc[r] = "rotWrite", NEW y \in RotateCode(draft[r])
      PROVE  Settled(y)'
  <2>1. PICK x \in shares :
           /\ y.slug = x.slug /\ y.key = x.key
           /\ y.expires = IF x.slug = draft[r].slug THEN draft[r].expires ELSE x.expires
    BY <1>0, RotatedExpiry
  <2>2. CASE x.slug = draft[r].slug
    <3>1. Settled(draft[r]) /\ draft[r].key = x.key
      BY <1>3, <2>2 DEF CapInv, DraftSettled
    <3>2. Settled(y)
      BY <2>1, <2>2, <3>1 DEF Settled
    <3> QED BY <3>2, SettledStable
  <2>3. CASE x.slug # draft[r].slug
    <3>1. Settled(y)
      BY <2>1, <2>3 DEF CapInv, Settled
    <3> QED BY <3>1, SettledStable
  <2> QED BY <2>2, <2>3
<1> QED BY <1>1, <1>2, <1>3, TableStep

(* The row of a slug being rotated keeps the key of the draft.             *)
LEMMA SlugKeepsKey ==
    ASSUME TypeOK, LinkInv, [Next]_vars, NEW s \in SpentSlugs, NEW k,
           \A x \in shares : x.slug = s => x.key = k
    PROVE  \A x \in shares' : x.slug = s => x.key = k
<1>0. shares \subseteq Share
  BY DEF TypeOK, CatalogTypeOK
<1>1. ASSUME NEW r \in Request, pc[r] = "insert" PROVE draft[r].slug # s
  BY <1>1 DEF LinkInv, NewDraft, SpentSlugs
<1>2. ASSUME NEW r \in Request, NEW y \in RotateCode(draft[r]), y.slug = s
      PROVE  y.key = k
  BY <1>0, <1>2, RotatedExpiry
<1> QED BY <1>1, <1>2, TableStep

(* A request stays settled as it goes on.                                  *)
LEMMA DraftsSettled ==
    ASSUME TypeOK, TypeOK', WindowInv, LandInv, LinkInv, CapsApply, CapInv,
           [Next]_vars, NEW r \in Request
    PROVE  DraftSettled(r)'
<1>0. landed \subseteq landed' /\ objects \subseteq landed
  BY LandedStep DEF LandInv
<1>1. DraftSettled(r)
  BY DEF CapInv
<1>2. ASSUME Settled(draft'[r]), NEW x, x = draft'[r] PROVE Settled(x)'
  BY <1>2, SettledStable
<1>3. Settled(draft'[r]) => Settled(draft[r])'
  BY <1>2 DEF Settled, Deadline, Tracked
<1>4. ASSUME pc[r] \in {"rotHead", "rotCap", "rotWrite"},
             draft'[r].slug = draft[r].slug, draft'[r].key = draft[r].key
      PROVE  \A x \in shares' : x.slug = draft'[r].slug => x.key = draft'[r].key
  <2>1. draft[r].slug \in SpentSlugs
    BY <1>4 DEF LinkInv, OldDraft
  <2>2. \A x \in shares : x.slug = draft[r].slug => x.key = draft[r].key
    BY <1>1, <1>4 DEF DraftSettled
  <2>3. \A x \in shares' : x.slug = draft[r].slug => x.key = draft[r].key
    BY <2>1, <2>2, SlugKeepsKey
  <2> QED BY <1>4, <2>3
<1>5. CASE pc'[r] = pc[r] /\ draft'[r] = draft[r] /\ arg'[r] = arg[r]
  BY <1>0, <1>1, <1>3, <1>4, <1>5 DEF DraftSettled
<1>6. CASE /\ pc'[r] = "rotHead" /\ shares' = shares
           /\ draft'[r] \in shares /\ draft'[r].key = arg'[r].key
  BY <1>6 DEF DraftSettled, LinkInv, OneRow
<1>7. CASE /\ pc'[r] = "cap" /\ pc[r] = "head" /\ arg'[r] = arg[r]
           /\ arg[r].key \in objects
           /\ draft'[r] = NewShare(r, arg[r].key, arg[r].user, <<r, 1>>,
                                   Duration(arg[r].ttl), now)
  BY <1>0, <1>7 DEF DraftSettled, NewShare
<1>8. CASE /\ pc'[r] = "rotCap" /\ pc[r] = "rotHead" /\ arg'[r] = arg[r]
           /\ arg[r].key \in objects
           /\ draft'[r] = Rotate(draft[r], <<r, 2>>, Duration(arg[r].ttl), now)
  <2>1. draft[r] \in Share
    BY <1>8 DEF TypeOK, ApiTypeOK
  <2>2. draft'[r].slug = draft[r].slug /\ draft'[r].key = draft[r].key
    BY <1>8, <2>1 DEF Rotate, Share
  <2> QED BY <1>0, <1>1, <1>4, <1>8, <2>2 DEF DraftSettled
<1>9. CASE /\ \/ pc[r] = "cap" /\ pc'[r] = "insert"
              \/ pc[r] = "rotCap" /\ pc'[r] = "rotWrite"
           /\ CapToRetention(r)
  <2>1. arg'[r] = arg[r]
    BY <1>9 DEF CapToRetention
  <2>2. draft'[r].key = draft[r].key /\ Settled(draft'[r])
    BY <1>1, <1>9, CapSettles DEF DraftSettled
  <2>3. draft'[r].slug = draft[r].slug
    <3>1. draft[r] \in Share
      BY <1>9 DEF TypeOK, ApiTypeOK
    <3>2. \A u : CappedBy(draft[r], u).slug = draft[r].slug
      BY <3>1 DEF CappedBy, Share
    <3> QED BY <1>9, <3>2 DEF CapToRetention, TypeOK, ApiTypeOK
  <2> QED BY <1>1, <1>3, <1>4, <1>9, <2>1, <2>2, <2>3 DEF DraftSettled
<1>10. CASE pc'[r] \notin {"cap", "insert", "rotHead", "rotCap", "rotWrite"}
  BY <1>10 DEF DraftSettled
<1> QED BY <1>5, <1>6, <1>7, <1>8, <1>9, <1>10, DraftStep

(* A link that unlocks leads to a file while the file is tracked, provided *)
(* that capToRetention sees the upload row: the HEAD call, the cap, the    *)
(* insert or update and the retention job's calls may interleave in any    *)
(* way, and every other call may fail.                                     *)
THEOREM TrackedSharesHaveFiles ==
    ASSUME CapsApply
    PROVE  Spec => []TrackedShareHasFile
<1>1. Init => CapInv
  BY DEF Init, CatalogInit, ApiInit, CapInv, DraftSettled
<1>2. TypeOK /\ TypeOK' /\ WindowInv /\ LandInv /\ LinkInv /\ CapInv /\ [Next]_vars
        => CapInv'
  BY RowsSettled, DraftsSettled DEF CapInv
<1>3. TypeOK /\ LandInv /\ CapInv => TrackedShareHasFile
  <2> SUFFICES ASSUME TypeOK, LandInv, CapInv, NEW x \in shares, Live(x),
                      Tracked(x.key)
               PROVE  x.key \in objects
    BY DEF TrackedShareHasFile
  <2>1. x.key \in landed /\ x.expires <= Deadline(x.key)
    BY DEF CapInv, Settled
  <2>2. x.expires \in Nat /\ x.key \in Key /\ now \in Nat
    BY DEF TypeOK, CatalogTypeOK, Share
  <2>3. Deadline(x.key) \in Int
    BY <2>2, CatalogAssumption DEF Deadline, Window, TypeOK, UploadTypeOK, Grant
  <2>4. InWindow(x.key)
    BY <2>1, <2>2, <2>3 DEF Live, Expired, InWindow
  <2> QED BY <2>1, <2>4 DEF LandInv
<1> QED BY <1>1, <1>2, <1>3, TypeCorrect, WindowInvariance, LandInvariance,
           LinkInvariance, PTL DEF Spec
=============================================================================
