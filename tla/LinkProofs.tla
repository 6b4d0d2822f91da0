----------------------------- MODULE LinkProofs -----------------------------
(***************************************************************************)
(* The share endpoints and the jobs keep the promise of Links, for every   *)
(* choice of the constants.                                                *)
(*                                                                         *)
(* A handler decides on a row it read several calls ago.  LinkInv says     *)
(* what of that row can still be relied on when RotateCode is sent: if a   *)
(* row with its slug is in the table, it has the owner that was checked,   *)
(* because owners are never written and a slug is only ever inserted by    *)
(* the request that drew it.                                               *)
(***************************************************************************)
EXTENDS ArchiveProofs

OneRow ==
    \A x, y \in shares : x.slug = y.slug \/ x.key = y.key => x = y

(* The request that minted the code of x has started, and may rotate x.    *)
Entitled(x) ==
    /\ pc[x.code[1]] # "idle"
    /\ MayRotate(x, arg[x.code[1]].user)

RowsEntitled == \A x \in shares : x.slug \in SpentSlugs /\ Entitled(x)

(* A share about to be inserted is the work of its request alone.          *)
NewDraft(r) ==
    /\ draft[r].slug = r
    /\ draft[r].owner = arg[r].user
    /\ draft[r].code[1] = r

(* A share about to be rotated: whatever row has its slug has its owner.   *)
OldDraft(r) ==
    /\ draft[r].slug \in SpentSlugs
    /\ MayRotate(draft[r], arg[r].user)
    /\ \A x \in shares : x.slug = draft[r].slug => x.owner = draft[r].owner

LinkInv ==
    /\ OneRow
    /\ RowsEntitled
    /\ \A r \in Request :
          /\ pc[r] \in {"cap", "insert"} => NewDraft(r)
          /\ pc[r] \in {"rotHead", "rotCap", "rotWrite"} => OldDraft(r)
          /\ pc[r] \in {"rotCap", "rotWrite"} => draft[r].code[1] = r

-----------------------------------------------------------------------------

(* Deleting rows keeps LinkInv.                                            *)
LEMMA ShrinkKeeps ==
    ASSUME LinkInv, shares' \subseteq shares, UNCHANGED <<pc, arg, draft>>
    PROVE  LinkInv'
BY DEF LinkInv, OneRow, RowsEntitled, Entitled, NewDraft, OldDraft, MayRotate,
       SpentSlugs

(* Everything but a share request only deletes rows.                       *)
LEMMA OthersShrink ==
    ASSUME TypeOK, [Next]_vars, ~ ShareStep
    PROVE  shares' \subseteq shares /\ UNCHANGED <<pc, arg, draft>>
<1>1. CASE ClientStep BY <1>1, ClientFrame
<1>2. CASE \E w \in Replica : Retain(w)
  <2> PICK w \in Replica : Retain(w)
    BY <1>2
  <2>1. shares' \subseteq shares
    BY DEF Retain, RetentionStep, StartRetention, HeadUpload, DropOrphan,
           DeleteObject, DeleteShares, DeleteByStorageKey, DeleteRow,
           MarkFailed, AuditUpload
  <2> QED BY <2>1, RetainFrame
<1>3. CASE \E w \in Replica : Purge(w)
  <2> PICK w \in Replica : Purge(w)
    BY <1>3
  <2>1. shares' \subseteq shares
    BY DEF Purge, PurgeStep, StartPurge, DeleteExpired, DeleteBySlug, AuditShare
  <2> QED BY <2>1, PurgeFrame
<1>4. CASE \E w \in Replica : Crash(w) BY <1>4 DEF Crash, apiVars
<1>5. CASE Clock BY <1>5 DEF Clock, Tick, apiVars
<1>6. CASE UNCHANGED vars BY <1>6 DEF vars
<1> QED BY <1>1, <1>2, <1>3, <1>4, <1>5, <1>6 DEF Next

(* A step of request r that leaves the table alone: r keeps its arguments  *)
(* once started, no spent slug is freed, and r meets the conditions of the *)
(* label it goes to.                                                       *)
LEMMA RequestKeeps ==
    ASSUME TypeOK, TypeOK', LinkInv, NEW r \in Request, shares' = shares,
           \A q \in Request \ {r} :
              pc'[q] = pc[q] /\ arg'[q] = arg[q] /\ draft'[q] = draft[q],
           pc[r] # "idle" => arg'[r] = arg[r],
           pc'[r] # "idle",
           r \in SpentSlugs => r \in SpentSlugs',
           pc'[r] \in {"cap", "insert"} => NewDraft(r)',
           pc'[r] \in {"rotHead", "rotCap", "rotWrite"} => OldDraft(r)',
           pc'[r] \in {"rotCap", "rotWrite"} => draft'[r].code[1] = r
    PROVE  LinkInv'
<1>1. SpentSlugs \subseteq SpentSlugs'
  BY DEF SpentSlugs
<1>2. OneRow'
  BY DEF LinkInv, OneRow
<1>3. RowsEntitled'
  <2> SUFFICES ASSUME NEW x \in shares PROVE x.slug \in SpentSlugs' /\ Entitled(x)'
    BY DEF RowsEntitled
  <2>1. x.code[1] \in Request
    BY DEF TypeOK, CatalogTypeOK, Share, Code
  <2> QED BY <1>1, <2>1 DEF LinkInv, RowsEntitled, Entitled, MayRotate
<1>4. ASSUME NEW q \in Request \ {r}
      PROVE  /\ NewDraft(q) => NewDraft(q)'
             /\ OldDraft(q) => OldDraft(q)'
  BY <1>1 DEF NewDraft, OldDraft, MayRotate
<1> QED BY <1>2, <1>3, <1>4 DEF LinkInv

(* A row just read may be rotated by a caller who passes the check.        *)
LEMMA FreshCopy ==
    ASSUME TypeOK, LinkInv, NEW x \in shares, NEW user, MayRotate(x, user),
           NEW r \in Request, shares' = shares, SpentSlugs \subseteq SpentSlugs',
           draft'[r] = x, arg'[r].user = user
    PROVE  OldDraft(r)'
BY DEF LinkInv, OneRow, RowsEntitled, OldDraft, MayRotate

(* Rotate keeps the slug and the owner and puts in the code.               *)
LEMMA RotateFields ==
    ASSUME NEW x \in Share, NEW r, NEW ttl, NEW t
    PROVE  /\ Rotate(x, <<r, 2>>, ttl, t).slug = x.slug
           /\ Rotate(x, <<r, 2>>, ttl, t).owner = x.owner
           /\ Rotate(x, <<r, 2>>, ttl, t).code[1] = r
<1>1. Rotate(x, <<r, 2>>, ttl, t).code = <<r, 2>>
  BY DEF Rotate, Share
<1> QED BY <1>1 DEF Rotate, Share

(* What RotateCode makes of a row.                                         *)
Rotated(x, d) ==
    IF x.slug = d.slug
    THEN [x EXCEPT !.code = d.code, !.count = d.count, !.expires = d.expires]
    ELSE x

(* RotateCode rewrites the code, the count and the expiry of one row: slug, *)
(* key and owner of every row stay.                                        *)
LEMMA RotatedRows ==
    ASSUME NEW d, shares \subseteq Share
    PROVE  /\ RotateCode(d) = {Rotated(x, d) : x \in shares}
           /\ \A x \in shares :
                 /\ Rotated(x, d).slug = x.slug
                 /\ Rotated(x, d).key = x.key
                 /\ Rotated(x, d).owner = x.owner
                 /\ Rotated(x, d).code
                       = IF x.slug = d.slug THEN d.code ELSE x.code
BY DEF RotateCode, Rotated, Share

(* Inserting the draft of r, whose slug nobody has used, keeps LinkInv.    *)
LEMMA InsertKeeps ==
    ASSUME TypeOK, TypeOK', LinkInv, NEW r \in Request,
           pc[r] = "insert", CanInsert(draft[r]),
           shares' = shares \cup {draft[r]},
           arg' = arg, pc'[r] \in {"ok", "racer"},
           \A q \in Request \ {r} : pc'[q] = pc[q] /\ draft'[q] = draft[q]
    PROVE  LinkInv'
<1>1. NewDraft(r) /\ r \notin SpentSlugs
  BY DEF LinkInv, SpentSlugs
<1>2. SpentSlugs \subseteq SpentSlugs' /\ r \in SpentSlugs'
  BY DEF SpentSlugs
<1>3. OneRow'
  BY DEF LinkInv, OneRow, CanInsert
<1>4. ASSUME NEW x \in shares PROVE x.slug \in SpentSlugs' /\ Entitled(x)'
  <2>1. x.code[1] \in Request
    BY DEF TypeOK, CatalogTypeOK, Share, Code
  <2> QED BY <1>2, <2>1 DEF LinkInv, RowsEntitled, Entitled, MayRotate
<1>5. RowsEntitled'
  <2>1. ASSUME NEW x, x = draft[r] PROVE x.slug \in SpentSlugs' /\ Entitled(x)'
    BY <1>1, <1>2, <2>1 DEF NewDraft, Entitled, MayRotate
  <2> QED BY <1>4, <2>1 DEF RowsEntitled
<1>6. ASSUME NEW q \in Request \ {r}
      PROVE  /\ NewDraft(q) => NewDraft(q)'
             /\ OldDraft(q) => OldDraft(q)'
  BY <1>1, <1>2 DEF NewDraft, OldDraft, MayRotate
<1> QED BY <1>3, <1>5, <1>6 DEF LinkInv

(* Writing the rotation prepared by r keeps LinkInv, however old the row   *)
(* it was prepared from.                                                   *)
LEMMA RotationKeeps ==
    ASSUME TypeOK, TypeOK', LinkInv, NEW r \in Request,
           pc[r] = "rotWrite", shares' = RotateCode(draft[r]),
           arg' = arg, pc'[r] \in {"ok", "error"},
           \A q \in Request \ {r} : pc'[q] = pc[q] /\ draft'[q] = draft[q]
    PROVE  LinkInv'
<1> DEFINE R(x) == Rotated(x, draft[r])
<1>0. shares \subseteq Share
  BY DEF TypeOK, CatalogTypeOK
<1>1. /\ shares' = {R(x) : x \in shares}
      /\ \A x \in shares :
            /\ R(x).slug = x.slug /\ R(x).key = x.key /\ R(x).owner = x.owner
            /\ R(x).code = IF x.slug = draft[r].slug THEN draft[r].code ELSE x.code
  BY <1>0, RotatedRows
<1> HIDE DEF R
<1>2. SpentSlugs' = SpentSlugs
  BY DEF SpentSlugs
<1>3. OneRow'
  BY <1>1 DEF LinkInv, OneRow
<1>4. OldDraft(r) /\ draft[r].code[1] = r
  BY DEF LinkInv
<1>5. ASSUME NEW x \in shares, NEW y, y = R(x)
      PROVE  y.slug \in SpentSlugs' /\ Entitled(y)'
  <2>1. x.code[1] \in Request
    BY <1>0 DEF Share, Code
  <2>2. CASE x.slug = draft[r].slug
    BY <1>1, <1>2, <1>4, <1>5, <2>2 DEF OldDraft, Entitled, MayRotate
  <2>3. CASE x.slug # draft[r].slug
    <3>1. y.slug = x.slug /\ y.owner = x.owner /\ y.code = x.code
      BY <1>1, <1>5, <2>3
    <3>2. x.slug \in SpentSlugs /\ Entitled(x)
      BY DEF LinkInv, RowsEntitled
    <3>3. pc'[x.code[1]] # "idle"
      BY <2>1, <3>2 DEF Entitled
    <3> QED BY <1>2, <3>1, <3>2, <3>3 DEF Entitled, MayRotate
  <2> QED BY <2>2, <2>3
<1>6. RowsEntitled'
  BY <1>1, <1>5 DEF RowsEntitled
<1>7. ASSUME NEW q \in Request \ {r}
      PROVE  /\ NewDraft(q) => NewDraft(q)'
             /\ OldDraft(q) => OldDraft(q)'
  BY <1>1, <1>2 DEF NewDraft, OldDraft, MayRotate
<1> QED BY <1>3, <1>6, <1>7 DEF LinkInv

(* The share endpoints keep LinkInv.                                       *)
LEMMA ShareStepKeeps ==
    ASSUME TypeOK, TypeOK', LinkInv, ShareStep
    PROVE  LinkInv'
<1> USE DEF TypeOK, ApiTypeOK
<1>1. ASSUME NEW r \in Request, NEW key \in Key, NEW user \in Owner,
             NEW label \in {"head", "error"}, NEW onErr \in {"unavailable", "error"},
             LookUp(r, key, user, label, onErr),
             pc[r] \in {"idle", "racer"},
             pc[r] = "racer" => label = "error" /\ arg' = arg,
             arg'[r].user = user,
             \A q \in Request \ {r} : arg'[q] = arg[q]
      PROVE  LinkInv'
  <2>1. /\ shares' = shares
        /\ \A q \in Request \ {r} : pc'[q] = pc[q] /\ draft'[q] = draft[q]
    BY <1>1 DEF LookUp, Goto
  <2>2. pc'[r] \in {"rotHead", "forbidden", label, onErr}
    BY <1>1 DEF LookUp, Goto
  <2>3. r \in SpentSlugs => r \in SpentSlugs'
    BY <1>1, <2>2 DEF SpentSlugs
  <2>4. SpentSlugs \subseteq SpentSlugs'
    BY <2>1, <2>3 DEF SpentSlugs
  <2>5. pc'[r] = "rotHead" => OldDraft(r)'
    <3> SUFFICES ASSUME pc'[r] = "rotHead" PROVE OldDraft(r)'
      OBVIOUS
    <3> PICK x \in SharesOf(key) : MayRotate(x, user) /\ draft'[r] = x
      BY <1>1 DEF LookUp, Goto
    <3> QED BY <1>1, <2>1, <2>4, FreshCopy DEF SharesOf
  <2> QED BY <1>1, <2>1, <2>2, <2>3, <2>5, RequestKeeps
<1>2. CASE \E r \in Request, key \in Key, user \in Owner, ttl \in TTL :
              CreateShare(r, key, user, ttl)
  <2> PICK r \in Request, key \in Key, user \in Owner, ttl \in TTL :
             CreateShare(r, key, user, ttl)
    BY <1>2
  <2>1. /\ arg'[r].user = user
        /\ \A q \in Request \ {r} : arg'[q] = arg[q]
        /\ pc[r] = "idle"
    BY DEF CreateShare
  <2> QED BY <1>1, <2>1 DEF CreateShare
<1>3. ASSUME NEW r \in Request, RotateRacer(r) PROVE LinkInv'
  <2>1. /\ arg[r].key \in Key
        /\ arg[r].user \in Owner
        /\ pc[r] = "racer"
        /\ arg' = arg
    BY <1>3 DEF RotateRacer, Arg
  <2> QED BY <1>1, <1>3, <2>1 DEF RotateRacer
<1>4. ASSUME NEW r \in Request, HeadNew(r) PROVE LinkInv'
  <2>1. /\ shares' = shares /\ arg' = arg /\ pc[r] = "head"
        /\ \A q \in Request \ {r} : pc'[q] = pc[q] /\ draft'[q] = draft[q]
        /\ pc'[r] \in {"cap", "notfound", "unavailable"}
    BY <1>4 DEF HeadNew, HeadObject, Goto
  <2>2. pc'[r] = "cap" => NewDraft(r)'
    BY <1>4, <2>1 DEF HeadNew, HeadObject, Goto, NewShare, NewDraft
  <2>3. r \notin SpentSlugs
    BY <2>1 DEF SpentSlugs
  <2> QED BY <2>1, <2>2, <2>3, RequestKeeps
<1>5. ASSUME NEW r \in Request, HeadRotate(r) PROVE LinkInv'
  <2>1. /\ shares' = shares /\ arg' = arg /\ pc[r] = "rotHead"
        /\ \A q \in Request \ {r} : pc'[q] = pc[q] /\ draft'[q] = draft[q]
        /\ pc'[r] \in {"rotCap", "limit", "notfound", "unavailable"}
    BY <1>5 DEF HeadRotate, HeadObject, Goto
  <2>2. SpentSlugs' = SpentSlugs
    BY <2>1 DEF SpentSlugs
  <2>3. pc'[r] = "rotCap" => /\ draft'[r].slug = draft[r].slug
                             /\ draft'[r].owner = draft[r].owner
                             /\ draft'[r].code[1] = r
    <3>1. pc'[r] = "rotCap" =>
             draft'[r] = Rotate(draft[r], <<r, 2>>, Duration(arg[r].ttl), now)
      BY <1>5, <2>1 DEF HeadRotate, HeadObject, Goto
    <3>2. draft[r] \in Share
      BY <2>1
    <3> QED BY <3>1, <3>2, RotateFields
  <2>4. OldDraft(r)
    BY <2>1 DEF LinkInv
  <2>5. pc'[r] = "rotCap" => OldDraft(r)'
    BY <2>1, <2>2, <2>3, <2>4 DEF OldDraft, MayRotate
  <2> QED BY <2>1, <2>2, <2>3, <2>5, RequestKeeps
<1>6. ASSUME NEW r \in Request, CapToRetention(r) PROVE LinkInv'
  <2>1. /\ shares' = shares /\ arg' = arg /\ pc[r] \in {"cap", "rotCap"}
        /\ \A q \in Request \ {r} : pc'[q] = pc[q] /\ draft'[q] = draft[q]
        /\ pc'[r] = IF pc[r] = "cap" THEN "insert" ELSE "rotWrite"
    BY <1>6 DEF CapToRetention
  <2>2. SpentSlugs' = SpentSlugs
    BY <2>1 DEF SpentSlugs
  <2>3. /\ draft'[r].slug = draft[r].slug
        /\ draft'[r].owner = draft[r].owner
        /\ draft'[r].code = draft[r].code
    BY <1>6, <2>1 DEF CapToRetention, CappedBy, Share
  <2>4. pc[r] = "cap" => NewDraft(r)'
    BY <2>1, <2>3 DEF LinkInv, NewDraft
  <2>5. pc[r] = "rotCap" => OldDraft(r)' /\ draft'[r].code[1] = r
    BY <2>1, <2>2, <2>3 DEF LinkInv, OldDraft, MayRotate
  <2> QED BY <2>1, <2>2, <2>4, <2>5, RequestKeeps
<1>7. ASSUME NEW user \in User, NEW slug \in Request, RevokeShare(user, slug)
      PROVE  LinkInv'
  BY <1>7, ShrinkKeeps DEF RevokeShare, DeleteOwned, apiVars
<1>8. ASSUME NEW r \in Request, InsertShare(r) PROVE LinkInv'
  <2>1. /\ arg' = arg /\ pc[r] = "insert" /\ pc'[r] \in {"ok", "racer"}
        /\ \A q \in Request \ {r} : pc'[q] = pc[q] /\ draft'[q] = draft[q]
    BY <1>8 DEF InsertShare, Goto
  <2>2. CASE CanInsert(draft[r]) /\ shares' = shares \cup {draft[r]}
    BY <2>1, <2>2, InsertKeeps
  <2>3. CASE shares' = shares
    <3>1. r \notin SpentSlugs
      BY <2>1 DEF SpentSlugs
    <3> QED BY <2>1, <2>3, <3>1, RequestKeeps
  <2> QED BY <1>8, <2>2, <2>3 DEF InsertShare
<1>9. ASSUME NEW r \in Request, WriteRotation(r) PROVE LinkInv'
  <2>1. /\ arg' = arg /\ pc[r] = "rotWrite" /\ pc'[r] \in {"ok", "error"}
        /\ \A q \in Request \ {r} : pc'[q] = pc[q] /\ draft'[q] = draft[q]
    BY <1>9 DEF WriteRotation, Goto
  <2>2. CASE shares' = RotateCode(draft[r])
    BY <2>1, <2>2, RotationKeeps
  <2>3. CASE shares' = shares
    <3>1. r \in SpentSlugs'
      BY <2>1 DEF SpentSlugs
    <3> QED BY <2>1, <2>3, <3>1, RequestKeeps
  <2> QED BY <1>9, <2>2, <2>3 DEF WriteRotation
<1> QED BY <1>2, <1>3, <1>4, <1>5, <1>6, <1>7, <1>8, <1>9
        DEF ShareStep, ShareRequestStep

(* LinkInv is inductive relative to the types.                             *)
LEMMA LinkInvariance == Spec => []LinkInv
<1>1. Init => LinkInv
  BY DEF Init, CatalogInit, ApiInit, LinkInv, OneRow, RowsEntitled
<1>2. TypeOK /\ TypeOK' /\ LinkInv /\ [Next]_vars => LinkInv'
  BY ShareStepKeeps, OthersShrink, ShrinkKeeps
<1> QED BY <1>1, <1>2, TypeCorrect, PTL DEF Spec

(* The code in force on an owned link was minted by its owner, although    *)
(* rotateShare checks a row that may have changed since.                   *)
THEOREM OwnersMintCodes == Spec => []OwnerMintsCode
<1>1. LinkInv => OwnerMintsCode
  BY DEF LinkInv, RowsEntitled, Entitled, MayRotate, OwnerMintsCode
<1> QED BY <1>1, LinkInvariance, PTL

-----------------------------------------------------------------------------
(* The refinement of Links.                                                *)

(* LinkOf for any table and any arguments, so that it can be compared      *)
(* before and after a step.                                                *)
LinkIn(S, a, key) ==
    LET rows == {x \in S : x.key = key}
        x == CHOOSE x \in rows : TRUE
    IN  IF rows = {} THEN Null
        ELSE [slug |-> x.slug, owner |-> x.owner, by |-> a[x.code[1]].user]

(* The refinement mapping, before and after a step, in terms of LinkIn.    *)
LEMMA LinkMapIn ==
    /\ LinkMap = [k \in Key |-> LinkIn(shares, arg, k)]
    /\ LinkMap' = [k \in Key |-> LinkIn(shares', arg', k)]
BY DEF LinkMap, LinkOf, LinkIn, SharesOf

(* The link of a key with exactly one row describes that row.              *)
LEMMA LinkOfRow ==
    ASSUME NEW S, NEW a, NEW x \in S, \A y \in S : y.key = x.key => y = x
    PROVE  LinkIn(S, a, x.key)
              = [slug |-> x.slug, owner |-> x.owner, by |-> a[x.code[1]].user]
<1>1. {y \in S : y.key = x.key} = {x}
  OBVIOUS
<1> QED BY <1>1 DEF LinkIn

(* A key without a row has no link.                                        *)
LEMMA LinkOfNone ==
    ASSUME NEW S, NEW a, NEW k, \A y \in S : y.key # k
    PROVE  LinkIn(S, a, k) = Null
BY DEF LinkIn

(* Two tables with the same rows for a key give it the same link.          *)
LEMMA LinkOfSame ==
    ASSUME NEW S, NEW T, NEW a, NEW k,
           {x \in S : x.key = k} = {x \in T : x.key = k}
    PROVE  LinkIn(S, a, k) = LinkIn(T, a, k)
BY DEF LinkIn

(* Deleting the rows of one file closes its link or changes nothing.       *)
LEMMA ShrinkRefines ==
    ASSUME TypeOK, OneRow, shares' \subseteq shares, UNCHANGED <<pc, arg>>,
           NEW k, \A x \in shares \ shares' : x.key = k
    PROVE  [Promise!Next]_<<LinkMap, SpentSlugs>>
<1>1. SpentSlugs' = SpentSlugs
  BY DEF SpentSlugs
<1>2. CASE shares' = shares
  BY <1>1, <1>2, LinkMapIn
<1>3. CASE shares' # shares
  <2>1. PICK x \in shares : x \notin shares'
    BY <1>3
  <2>2. x.key = k /\ k \in Key
    BY <2>1 DEF TypeOK, CatalogTypeOK, Share
  <2>3. LinkIn(shares', arg', k) = Null
    <3>1. \A y \in shares' : y.key # k
      BY <2>1, <2>2 DEF OneRow
    <3> QED BY <3>1, LinkOfNone
  <2>4. ASSUME NEW j \in Key, j # k
        PROVE  LinkIn(shares', arg', j) = LinkIn(shares, arg, j)
    <3>1. {y \in shares' : y.key = j} = {y \in shares : y.key = j}
      BY <2>4
    <3> QED BY <3>1, LinkOfSame
  <2>5. LinkMap' = [LinkMap EXCEPT ![k] = Null]
    BY <2>2, <2>3, <2>4, LinkMapIn
  <2> QED BY <1>1, <2>2, <2>5 DEF Promise!Next, Promise!Close
<1> QED BY <1>2, <1>3

(* The link of x read off with other arguments that agree on its minter.   *)
LEMMA SameArguments ==
    ASSUME TypeOK, LinkInv, shares' = shares, NEW k \in Key,
           \A q \in Request : pc[q] # "idle" => arg'[q] = arg[q]
    PROVE  LinkIn(shares', arg', k) = LinkIn(shares, arg, k)
<1>1. CASE \A y \in shares : y.key # k
  BY <1>1, LinkOfNone
<1>2. CASE \E y \in shares : y.key = k
  <2> PICK y \in shares : y.key = k
    BY <1>2
  <2>1. \A z \in shares : z.key = y.key => z = y
    BY DEF LinkInv, OneRow
  <2>2. y.code[1] \in Request /\ pc[y.code[1]] # "idle"
    BY DEF LinkInv, RowsEntitled, Entitled, TypeOK, CatalogTypeOK, Share, Code
  <2>3. arg'[y.code[1]].user = arg[y.code[1]].user
    BY <2>2
  <2>4. LinkIn(shares, arg, y.key) = [slug |-> y.slug, owner |-> y.owner,
                                      by |-> arg[y.code[1]].user]
    BY <2>1, LinkOfRow
  <2>5. LinkIn(shares', arg', y.key) = [slug |-> y.slug, owner |-> y.owner,
                                        by |-> arg'[y.code[1]].user]
    BY <2>1, LinkOfRow
  <2> QED BY <2>3, <2>4, <2>5
<1> QED BY <1>1, <1>2

(* A request that does not write the table at most gives up its slug.      *)
LEMMA RequestRefines ==
    ASSUME TypeOK, LinkInv, NEW r \in Request, shares' = shares,
           \A q \in Request \ {r} : pc'[q] = pc[q],
           \A q \in Request : pc[q] # "idle" => arg'[q] = arg[q],
           r \in SpentSlugs => r \in SpentSlugs'
    PROVE  [Promise!Next]_<<LinkMap, SpentSlugs>>
<1>1. LinkMap' = LinkMap
  BY SameArguments, LinkMapIn
<1>2. SpentSlugs' = SpentSlugs \/ SpentSlugs' = SpentSlugs \cup {r}
  BY DEF SpentSlugs
<1> QED BY <1>1, <1>2 DEF Promise!Next, Promise!Discard

(* The insert opens a link.                                                *)
LEMMA InsertRefines ==
    ASSUME TypeOK, LinkInv, NEW r \in Request,
           pc[r] = "insert", CanInsert(draft[r]),
           shares' = shares \cup {draft[r]},
           arg' = arg, pc'[r] \in {"ok", "racer"},
           \A q \in Request \ {r} : pc'[q] = pc[q]
    PROVE  Promise!Next
<1> DEFINE d == draft[r]
<1>1. /\ d \in Share /\ NewDraft(r) /\ r \notin SpentSlugs
      /\ arg[r].user \in Owner
  BY DEF TypeOK, ApiTypeOK, LinkInv, SpentSlugs, Arg
<1>2. d.key \in Key /\ \A y \in shares : y.key # d.key
  BY <1>1 DEF Share, CanInsert
<1>3. SpentSlugs' = SpentSlugs \cup {r}
  BY DEF SpentSlugs
<1>4. LinkIn(shares, arg, d.key) = Null
  BY <1>2, LinkOfNone
<1>5. LinkIn(shares', arg', d.key)
         = [slug |-> r, owner |-> arg[r].user, by |-> arg[r].user]
  <2>1. d \in shares' /\ \A y \in shares' : y.key = d.key => y = d
    BY <1>2
  <2>2. LinkIn(shares', arg', d.key)
           = [slug |-> d.slug, owner |-> d.owner, by |-> arg'[d.code[1]].user]
    BY <2>1, LinkOfRow
  <2> QED BY <1>1, <2>2 DEF NewDraft
<1>6. ASSUME NEW j \in Key, j # d.key
      PROVE  LinkIn(shares', arg', j) = LinkIn(shares, arg, j)
  <2>1. {y \in shares' : y.key = j} = {y \in shares : y.key = j}
    BY <1>6
  <2> QED BY <2>1, LinkOfSame
<1>7. LinkMap' = [LinkMap EXCEPT ![d.key] =
                    [slug |-> r, owner |-> arg[r].user, by |-> arg[r].user]]
  BY <1>2, <1>5, <1>6, LinkMapIn
<1>8. LinkMap[d.key] = Null
  BY <1>2, <1>4, LinkMapIn
<1> HIDE DEF d
<1>9. Promise!Open(d.key, r, arg[r].user)
  BY <1>1, <1>3, <1>7, <1>8 DEF Promise!Open
<1> QED BY <1>1, <1>2, <1>9 DEF Promise!Next, Owner

(* RotateCode gives the link a code of its owner, if it is still there.    *)
LEMMA RotationRefines ==
    ASSUME TypeOK, LinkInv, NEW r \in Request,
           pc[r] = "rotWrite", shares' = RotateCode(draft[r]),
           arg' = arg, pc'[r] \in {"ok", "error"},
           \A q \in Request \ {r} : pc'[q] = pc[q]
    PROVE  [Promise!Next]_<<LinkMap, SpentSlugs>>
<1> DEFINE R(x) == Rotated(x, draft[r])
<1>0. shares \subseteq Share /\ arg[r].user \in Owner
  BY DEF TypeOK, CatalogTypeOK, ApiTypeOK, Arg
<1>1. /\ shares' = {R(x) : x \in shares}
      /\ \A x \in shares :
            /\ R(x).slug = x.slug /\ R(x).key = x.key /\ R(x).owner = x.owner
            /\ R(x).code = IF x.slug = draft[r].slug THEN draft[r].code ELSE x.code
  BY <1>0, RotatedRows
<1> HIDE DEF R
<1>2. SpentSlugs' = SpentSlugs
  BY DEF SpentSlugs
<1>3. OldDraft(r) /\ draft[r].code[1] = r
  BY DEF LinkInv
<1>4. ASSUME NEW x \in shares
      PROVE  /\ LinkIn(shares, arg, x.key)
                   = [slug |-> x.slug, owner |-> x.owner,
                      by |-> arg[x.code[1]].user]
             /\ LinkIn(shares', arg', x.key)
                   = [slug |-> x.slug, owner |-> x.owner,
                      by |-> arg[R(x).code[1]].user]
  <2>1. \A y \in shares : y.key = x.key => y = x
    BY DEF LinkInv, OneRow
  <2>2. R(x) \in shares' /\ \A y \in shares' : y.key = R(x).key => y = R(x)
    BY <1>1, <2>1
  <2>3. LinkIn(shares', arg', R(x).key)
           = [slug |-> R(x).slug, owner |-> R(x).owner,
              by |-> arg'[R(x).code[1]].user]
    BY <2>2, LinkOfRow
  <2> QED BY <1>1, <2>1, <2>3, LinkOfRow
<1>5. ASSUME NEW k \in Key,
             \A x \in shares : x.slug = draft[r].slug => x.key # k
      PROVE  LinkIn(shares', arg', k) = LinkIn(shares, arg, k)
  <2>1. CASE \A x \in shares : x.key # k
    <3>1. \A x \in shares' : x.key # k
      BY <1>1, <2>1
    <3> QED BY <2>1, <3>1, LinkOfNone
  <2>2. CASE \E x \in shares : x.key = k
    <3> PICK x \in shares : x.key = k
      BY <2>2
    <3>1. R(x).code = x.code
      BY <1>1, <1>5
    <3> QED BY <1>4, <3>1
  <2> QED BY <2>1, <2>2
<1>6. CASE \A x \in shares : x.slug # draft[r].slug
  BY <1>2, <1>5, <1>6, LinkMapIn
<1>7. CASE \E x \in shares : x.slug = draft[r].slug
  <2> PICK x \in shares : x.slug = draft[r].slug
    BY <1>7
  <2>1. x.key \in Key /\ x.slug \in Request /\ x.owner \in Owner
    BY <1>0 DEF Share
  <2>2. R(x).code[1] = r
    BY <1>1, <1>3
  <2>3. \A y \in shares : y.slug = draft[r].slug => y.key = x.key
    BY DEF LinkInv, OneRow
  <2> DEFINE k == x.key
             old == [slug |-> x.slug, owner |-> x.owner,
                     by |-> arg[x.code[1]].user]
             new == [slug |-> x.slug, owner |-> x.owner, by |-> arg[r].user]
  <2>4. LinkMap[k] = old /\ LinkMap'[k] = new
    BY <1>4, <2>1, <2>2, LinkMapIn
  <2>5. \A j \in Key \ {k} : LinkMap'[j] = LinkMap[j]
    BY <1>5, <2>3, LinkMapIn
  <2>6. new = [old EXCEPT !.by = arg[r].user]
    OBVIOUS
  <2>7. LinkMap' = [LinkMap EXCEPT ![k].by = arg[r].user]
    <3>1. LinkMap' = [LinkMap EXCEPT ![k] = new]
      BY <2>1, <2>4, <2>5, LinkMapIn
    <3> HIDE DEF old, new
    <3> QED BY <2>1, <2>4, <2>6, <3>1, LinkMapIn
  <2>8. LinkMap[k] # Null
    <3>1. x.code[1] \in Request /\ pc[x.code[1]] # "idle"
      BY <1>0 DEF LinkInv, RowsEntitled, Entitled, Share, Code
    <3>2. arg[x.code[1]].user \in Owner
      BY <3>1 DEF TypeOK, ApiTypeOK, Arg
    <3>3. old \in Promise!Link
      BY <2>1, <3>2 DEF Promise!Link, Owner
    <3> QED BY <2>4, <3>3, NullAssumption
  <2>9. LinkMap[k].owner \in {Anon, arg[r].user}
    BY <1>3, <2>4 DEF OldDraft, MayRotate
  <2>10. Promise!Rekey(k, arg[r].user)
    BY <1>2, <2>7, <2>8, <2>9 DEF Promise!Rekey
  <2> QED BY <1>0, <2>1, <2>10 DEF Promise!Next, Owner
<1> QED BY <1>6, <1>7

(* Every step of a share endpoint is a step of Links or changes no link.   *)
LEMMA ShareStepRefines ==
    ASSUME TypeOK, LinkInv, ShareStep
    PROVE  [Promise!Next]_<<LinkMap, SpentSlugs>>
<1> USE DEF TypeOK, ApiTypeOK
<1>1. ASSUME NEW r \in Request, NEW key \in Key, NEW user \in Owner,
             NEW ttl \in TTL, CreateShare(r, key, user, ttl)
      PROVE  [Promise!Next]_<<LinkMap, SpentSlugs>>
  <2>1. /\ shares' = shares /\ pc[r] = "idle"
        /\ \A q \in Request \ {r} : pc'[q] = pc[q] /\ arg'[q] = arg[q]
    BY <1>1 DEF CreateShare, LookUp, Goto
  <2>2. r \notin SpentSlugs
    BY <2>1 DEF SpentSlugs
  <2> QED BY <2>1, <2>2, RequestRefines
<1>2. ASSUME NEW r \in Request,
             HeadNew(r) \/ HeadRotate(r) \/ CapToRetention(r) \/ RotateRacer(r)
      PROVE  [Promise!Next]_<<LinkMap, SpentSlugs>>
  <2>1. /\ shares' = shares /\ arg' = arg
        /\ \A q \in Request \ {r} : pc'[q] = pc[q]
    BY <1>2 DEF HeadNew, HeadRotate, HeadObject, CapToRetention, RotateRacer,
       LookUp, Goto
  <2>2. r \in SpentSlugs => r \in SpentSlugs'
    <3>1. CASE HeadNew(r) BY <3>1 DEF HeadNew, SpentSlugs
    <3>2. CASE HeadRotate(r)
      BY <3>2 DEF HeadRotate, HeadObject, Goto, SpentSlugs
    <3>3. CASE CapToRetention(r) BY <3>3 DEF CapToRetention, SpentSlugs
    <3>4. CASE RotateRacer(r)
      BY <3>4 DEF RotateRacer, LookUp, Goto, SpentSlugs
    <3> QED BY <1>2, <3>1, <3>2, <3>3, <3>4
  <2> QED BY <2>1, <2>2, RequestRefines
<1>3. ASSUME NEW r \in Request, InsertShare(r)
      PROVE  [Promise!Next]_<<LinkMap, SpentSlugs>>
  <2>1. /\ arg' = arg /\ pc[r] = "insert" /\ pc'[r] \in {"ok", "racer"}
        /\ \A q \in Request \ {r} : pc'[q] = pc[q]
    BY <1>3 DEF InsertShare, Goto
  <2>2. CASE CanInsert(draft[r]) /\ shares' = shares \cup {draft[r]}
    BY <2>1, <2>2, InsertRefines
  <2>3. CASE shares' = shares
    <3>1. r \notin SpentSlugs
      BY <2>1 DEF SpentSlugs
    <3> QED BY <2>1, <2>3, <3>1, RequestRefines
  <2> QED BY <1>3, <2>2, <2>3 DEF InsertShare
<1>4. ASSUME NEW r \in Request, WriteRotation(r)
      PROVE  [Promise!Next]_<<LinkMap, SpentSlugs>>
  <2>1. /\ arg' = arg /\ pc[r] = "rotWrite" /\ pc'[r] \in {"ok", "error"}
        /\ \A q \in Request \ {r} : pc'[q] = pc[q]
    BY <1>4 DEF WriteRotation, Goto
  <2>2. CASE shares' = RotateCode(draft[r])
    BY <2>1, <2>2, RotationRefines
  <2>3. CASE shares' = shares
    <3>1. r \in SpentSlugs'
      BY <2>1 DEF SpentSlugs
    <3> QED BY <2>1, <2>3, <3>1, RequestRefines
  <2> QED BY <1>4, <2>2, <2>3 DEF WriteRotation
<1>5. ASSUME NEW user \in User, NEW slug \in Request, RevokeShare(user, slug)
      PROVE  [Promise!Next]_<<LinkMap, SpentSlugs>>
  <2>1. PICK k : \A x \in shares \ shares' : x.key = k
    BY <1>5 DEF RevokeShare, DeleteOwned, LinkInv, OneRow
  <2>2. shares' \subseteq shares /\ UNCHANGED <<pc, arg>>
    BY <1>5 DEF RevokeShare, DeleteOwned, apiVars
  <2> QED BY <2>1, <2>2, ShrinkRefines DEF LinkInv
<1> QED BY <1>1, <1>2, <1>3, <1>4, <1>5 DEF ShareStep, ShareRequestStep

(* Every other step deletes the rows of at most one file.                  *)
LEMMA OthersRefine ==
    ASSUME TypeOK, LinkInv, [Next]_vars, ~ ShareStep
    PROVE  [Promise!Next]_<<LinkMap, SpentSlugs>>
<1>1. PICK k : \A x \in shares \ shares' : x.key = k
  <2>1. CASE \E w \in Replica : Retain(w)
    BY <2>1 DEF Retain, RetentionStep, StartRetention, HeadUpload, DropOrphan,
       DeleteObject, DeleteShares, DeleteByStorageKey, DeleteRow, MarkFailed,
       AuditUpload
  <2>2. CASE \E w \in Replica : Purge(w)
    <3>1. \E slug : \A x \in shares \ shares' : x.slug = slug
      BY <2>2 DEF Purge, PurgeStep, StartPurge, DeleteExpired, DeleteBySlug,
         AuditShare
    <3> QED BY <3>1 DEF LinkInv, OneRow
  <2>3. CASE shares' = shares BY <2>3
  <2> QED BY <2>1, <2>2, <2>3, ClientFrame DEF Next, Crash, Clock, Tick, vars
<1> QED BY <1>1, OthersShrink, ShrinkRefines DEF LinkInv

(* The handlers and the jobs implement Links: one link per file, an        *)
(* identity that never changes, slugs that never come back and codes       *)
(* minted only by owners, under every interleaving, lost answer and crash. *)
THEOREM ArchiveImplementsLinks == Spec => LinksKept
<1>1. Init => Promise!Init
  <2> SUFFICES ASSUME Init PROVE Promise!Init
    OBVIOUS
  <2>1. SpentSlugs = {}
    BY DEF Init, ApiInit, SpentSlugs
  <2>2. \A k \in Key : LinkIn(shares, arg, k) = Null
    BY LinkOfNone DEF Init, CatalogInit
  <2>3. LinkMap = [k \in Key |-> Null]
    BY <2>2, LinkMapIn
  <2> QED BY <2>1, <2>3 DEF Promise!Init
<1>2. TypeOK /\ LinkInv /\ [Next]_vars
        => [Promise!Next]_<<LinkMap, SpentSlugs>>
  BY ShareStepRefines, OthersRefine
<1> QED BY <1>1, <1>2, TypeCorrect, LinkInvariance, PTL
        DEF Spec, LinksKept, Promise!Spec
=============================================================================
