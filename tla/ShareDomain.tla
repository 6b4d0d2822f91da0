---------------------------- MODULE ShareDomain ----------------------------
(***************************************************************************)
(* The rules of a share (internal/domain/share.go) as operators on share   *)
(* records.  A record carries the fields the control flow reads:           *)
(*                                                                         *)
(*   slug     the public link.  randomString draws it; two draws are taken *)
(*            to differ, so the slug is named after the request that drew  *)
(*            it.                                                          *)
(*   key      the storage key of the shared file                           *)
(*   owner    owner_id, or Anon for a null owner_id                        *)
(*   code     the access code.  It stands for the pair (code_salt,         *)
(*            code_hash): hashing with a salt is taken to be injective.    *)
(*   count    share_count                                                  *)
(*   expires  expires_at                                                   *)
(*                                                                         *)
(* File name, size, e-mail addresses and created_at decide nothing and are *)
(* left out.  Durations and times are integers in one unit.                *)
(***************************************************************************)
EXTENDS Integers

CONSTANTS
    DefaultTTL,     \* life of a share when the request asks for none
    MaxTTL,         \* longest life a request may ask for
    MaxShareCount,  \* most access codes a file may have
    Hour,           \* time.Hour in the unit of time.Duration
    Word            \* number of values of a time.Duration, an int64

ASSUME DomainAssumption ==
    /\ DefaultTTL \in Nat \ {0}
    /\ MaxTTL \in Nat
    /\ DefaultTTL <= MaxTTL
    /\ MaxShareCount \in Nat \ {0}
    /\ Hour \in Nat \ {0}
    /\ Word \in Nat \ {0}

\* time.Duration(hours) * time.Hour, which wraps at the width of the word.
Duration(hours) ==
    LET low == (hours * Hour) % Word
    IN  IF 2 * low < Word THEN low ELSE low - Word

\* Mutant: only an absent or negative request falls back.
ClampBelow(ttl) == IF ttl <= 0 THEN DefaultTTL ELSE ttl

\* An absent, negative or oversized request falls back to the default.
ClampTTL(ttl) == IF ttl <= 0 \/ ttl > MaxTTL THEN DefaultTTL ELSE ttl

NewShare(slug, key, owner, code, ttl, t) ==
    [slug |-> slug, key |-> key, owner |-> owner, code |-> code,
     count |-> 1, expires |-> t + ClampTTL(ttl)]

CanRotate(share) == share.count < MaxShareCount

Rotate(share, code, ttl, t) ==
    [share EXCEPT !.code = code,
                  !.count = share.count + 1,
                  !.expires = t + ClampTTL(ttl)]

Expired(share, t) == t > share.expires
=============================================================================
