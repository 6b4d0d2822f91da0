------------------------------ MODULE ShareAPI ------------------------------
(***************************************************************************)
(* The share endpoints that change state (internal/handlers/share.go):     *)
(* POST /shares, which creates a link or rotates the code of an existing   *)
(* one, and DELETE /shares/:slug.  A POST is a process that makes one call *)
(* to the database or the bucket per step; what it computes between two    *)
(* calls belongs to the step before.  Any number of requests interleave,   *)
(* on one replica or on several: the handlers hold no lock and open no     *)
(* transaction.                                                            *)
(*                                                                         *)
(* A request whose client hangs up or whose replica dies takes no further  *)
(* step; nothing here obliges it to.  A request that fails validation      *)
(* touches nothing and never starts.                                       *)
(*                                                                         *)
(* revoked is a history variable: no action reads it, the properties do.   *)
(***************************************************************************)
EXTENDS Catalog

CONSTANT TTL     \* the ttl_hours values requests carry
ASSUME TTLAssumption == TTL \subseteq Int

VARIABLES
    pc,      \* pc[r]: the next call of request r, or the answer it gave
    arg,     \* arg[r]: what r asks for, Null before it starts
    draft,   \* draft[r]: the share r is building; the one it returned if "ok"
    revoked  \* history: the links revoked, and by whom

apiVars == <<pc, arg, draft, revoked>>

Arg == [key: Key, user: Owner, ttl: TTL]

Pending == {"head", "cap", "insert", "racer", "rotHead", "rotCap", "rotWrite"}
Answer == {"ok", "forbidden", "notfound", "limit", "unavailable", "error"}

ApiTypeOK ==
    /\ pc \in [Request -> {"idle"} \cup Pending \cup Answer]
    /\ arg \in [Request -> Arg \cup {Null}]
    /\ draft \in [Request -> Share \cup {Null}]
    /\ revoked \subseteq [slug: Request, by: User]
    /\ \A r \in Request :
          /\ pc[r] # "idle" => arg[r] \in Arg
          /\ pc[r] \in {"cap", "insert", "rotHead", "rotCap", "rotWrite", "ok"}
                => draft[r] \in Share

ApiInit ==
    /\ pc = [r \in Request |-> "idle"]
    /\ arg = [r \in Request |-> Null]
    /\ draft = [r \in Request |-> Null]
    /\ revoked = {}

-----------------------------------------------------------------------------

Goto(r, label, share) ==
    /\ pc' = [pc EXCEPT ![r] = label]
    /\ draft' = [draft EXCEPT ![r] = share]

(* Mutant: any signed-in caller passes.                                    *)
MayRotateSignedIn(share, user) == share.owner # Anon => user # Anon

(* An owned share may only be rotated by its owner; an anonymous one by    *)
(* any holder of the key.                                                  *)
MayRotate(share, user) == share.owner # Anon => user = share.owner

(* Mutant: the row is checked and then not handed on.                      *)
LookUpEmpty(r, key, user, ifMissing, ifError) ==
    /\ NoFault
    /\ \/ /\ \E x \in SharesOf(key) : MayRotate(x, user)
          /\ Goto(r, "rotHead", Null)
       \/ /\ SharesOf(key) = {}
          /\ Goto(r, ifMissing, Null)
    /\ UNCHANGED <<now, shares, uploads, objects, audit>>

(* GetByStorageKey, then the owner check of rotateShare on the row found.  *)
LookUp(r, key, user, ifMissing, ifError) ==
    /\ \/ /\ NoFault
          /\ \E x \in SharesOf(key) :
                IF MayRotate(x, user) THEN Goto(r, "rotHead", x)
                                      ELSE Goto(r, "forbidden", Null)
       \/ /\ NoFault
          /\ SharesOf(key) = {}
          /\ Goto(r, ifMissing, Null)
       \/ /\ Fault("shares.Get")
          /\ Goto(r, ifError, Null)
    /\ UNCHANGED <<now, shares, uploads, objects, audit>>

CreateShare(r, key, user, ttl) ==
    /\ pc[r] = "idle"
    /\ arg' = [arg EXCEPT ![r] = [key |-> key, user |-> user, ttl |-> ttl]]
    /\ LookUp(r, key, user, "head", "unavailable")
    /\ UNCHANGED revoked

(* GetFileSize before a share is built or rotated: share is the result if  *)
(* the object is there, next the label that follows.                       *)
HeadObject(r, next, share) ==
    /\ \/ /\ NoFault
          /\ arg[r].key \in objects
          /\ Goto(r, next, share)
       \/ /\ NoFault
          /\ arg[r].key \notin objects
          /\ Goto(r, "notfound", Null)
       \/ /\ Fault("s3.Head")
          /\ Goto(r, "unavailable", Null)
    /\ UNCHANGED <<now, shares, uploads, objects, audit, arg>>

HeadNew(r) ==
    /\ pc[r] = "head"
    /\ HeadObject(r, "cap", NewShare(r, arg[r].key, arg[r].user, <<r, 1>>,
                                     Duration(arg[r].ttl), now))

HeadRotate(r) ==
    /\ pc[r] = "rotHead"
    /\ IF CanRotate(draft[r])
       THEN HeadObject(r, "rotCap", Rotate(draft[r], <<r, 2>>,
                                           Duration(arg[r].ttl), now))
       ELSE HeadObject(r, "limit", Null)

(* Mutant: one instant past the last one retention grants.                 *)
CappedLate(share, up) ==
    LET deadline == up.created + Window(up.owner) + 1
    IN  IF Window(up.owner) > 0 /\ share.expires > deadline
        THEN [share EXCEPT !.expires = deadline]
        ELSE share

(* The expiry capToRetention leaves on share when the upload row is up.    *)
CappedBy(share, up) ==
    LET deadline == up.created + Window(up.owner)
    IN  IF Window(up.owner) > 0 /\ share.expires > deadline
        THEN [share EXCEPT !.expires = deadline]
        ELSE share

(* capToRetention ignores a missing row and a failing lookup alike.        *)
CapToRetention(r) ==
    /\ pc[r] \in {"cap", "rotCap"}
    /\ pc' = [pc EXCEPT ![r] = IF @ = "cap" THEN "insert" ELSE "rotWrite"]
    /\ \/ /\ NoFault
          /\ \E u \in uploads :
                /\ u.key = arg[r].key
                /\ draft' = [draft EXCEPT ![r] = CappedBy(@, u)]
       \/ /\ NoFault
          /\ \A u \in uploads : u.key # arg[r].key
          /\ UNCHANGED draft
       \/ /\ Fault("uploads.Get")
          /\ UNCHANGED draft
    /\ UNCHANGED <<now, shares, uploads, objects, audit, arg>>

(* The insert; a conflict with a unique index is an error like any other.  *)
InsertShare(r) ==
    /\ pc[r] = "insert"
    /\ \/ /\ NoFault
          /\ CanInsert(draft[r])
          /\ shares' = shares \cup {draft[r]}
          /\ Goto(r, "ok", draft[r])
       \/ /\ NoFault
          /\ ~ CanInsert(draft[r])
          /\ UNCHANGED shares
          /\ Goto(r, "racer", Null)
       \/ /\ Fault("shares.Create")
          /\ \/ UNCHANGED shares
             \/ /\ CanInsert(draft[r])
                /\ shares' = shares \cup {draft[r]}
          /\ Goto(r, "racer", Null)
    /\ UNCHANGED <<now, uploads, objects, audit, arg>>

(* After a failed insert: rotate whatever row now holds the key.           *)
RotateRacer(r) ==
    /\ pc[r] = "racer"
    /\ LookUp(r, arg[r].key, arg[r].user, "error", "error")
    /\ UNCHANGED arg

WriteRotation(r) ==
    /\ pc[r] = "rotWrite"
    /\ \/ /\ NoFault
          /\ shares' = RotateCode(draft[r])
          /\ IF \E x \in shares : x.slug = draft[r].slug
             THEN Goto(r, "ok", draft[r])
             ELSE Goto(r, "error", Null)
       \/ /\ Fault("shares.RotateCode")
          /\ shares' \in {shares, RotateCode(draft[r])}
          /\ Goto(r, "error", Null)
    /\ UNCHANGED <<now, uploads, objects, audit, arg>>

(* A request that matches no row answers 404 and changes nothing.          *)
RevokeShare(user, slug) ==
    /\ shares' = DeleteOwned(slug, user)
    /\ revoked' = revoked \cup
                     {[slug |-> x.slug, by |-> user] : x \in shares \ shares'}
    /\ UNCHANGED <<now, uploads, objects, audit, faults, pc, arg, draft>>

ShareRequestStep(r) ==
    /\ \/ HeadNew(r)
       \/ HeadRotate(r)
       \/ CapToRetention(r)
       \/ InsertShare(r)
       \/ RotateRacer(r)
       \/ WriteRotation(r)
    /\ UNCHANGED revoked
=============================================================================
