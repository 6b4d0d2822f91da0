------------------------------- MODULE Unlock -------------------------------
(***************************************************************************)
(* The throttled endpoints of one process: POST /shares/:slug/unlock with  *)
(* its two limiters, and the endpoints behind a limiter keyed by the       *)
(* client's address (internal/handlers/share.go, ratelimit.go).  GetShare  *)
(* and each route group behind RateLimitByIP have such a limiter of their  *)
(* own; byIP is any one of them.                                           *)
(* Requests interleave between the limiters: each Allow is a critical      *)
(* section of its own.  The maps live in memory, so a restart empties them *)
(* and forgets the requests in flight.                                     *)
(*                                                                         *)
(* What follows the last limiter (binding the body, loadShare, Verify,     *)
(* signing the URL) changes nothing that a limiter sees; it belongs to the *)
(* step that admits the request, and its answers are not told apart.       *)
(***************************************************************************)
EXTENDS RateLimiter

CONSTANTS
    Attempt,     \* requests, each sent at most once
    Slug,        \* well-formed slugs
    BadSlug,     \* what else stands in the URL
    IP,          \* client addresses
    Limit,       \* limit of each limiter
    MaxTime,     \* bound on the clock
    MaxBoots     \* bound on restarts

Limiter == {"perSlug", "perIP", "byIP"}

ASSUME UnlockAssumption ==
    /\ Slug # {}
    /\ Slug \cap BadSlug = {}
    /\ Limit \in [Limiter -> Nat \ {0}]
    /\ MaxTime \in Nat
    /\ MaxBoots \in Nat

VARIABLES
    now,
    boot,       \* incarnation of the process
    table,      \* table[l]: the map of limiter l
    pc,         \* pc[a]: next step of request a, or how it ended
    caller,     \* caller[a]: <<slug, address>> of request a
    admitted    \* admitted[l]: every event limiter l let through (history)

vars == <<now, boot, table, pc, caller, admitted>>

-----------------------------------------------------------------------------

Caller == (Slug \cup BadSlug) \X IP

(* perIP has a key for each slug and address, the others have one part.    *)
LimitKey(l, c) ==
    CASE l = "perSlug" -> <<c[1]>>
      [] l = "perIP"   -> c
      [] OTHER         -> <<c[2]>>

LimitKeys == {LimitKey(l, c) : l \in Limiter, c \in Slug \X IP}
Event == [by: Attempt, at: Nat]
Admission == [by: Attempt, at: Nat, key: LimitKeys, boot: Nat]

TypeOK ==
    /\ now \in Nat
    /\ boot \in Nat
    /\ DOMAIN table = Limiter
    /\ \A l \in Limiter :
          /\ DOMAIN table[l] \subseteq LimitKeys
          /\ Cardinality(DOMAIN table[l]) <= MaxKeys
          /\ \A k \in DOMAIN table[l] : table[l][k] \subseteq Event
    /\ pc \in [Attempt -> {"idle", "ip", "done", "throttled"}]
    /\ caller \in [Attempt -> Caller \cup {<<>>}]
    /\ admitted \in [Limiter -> SUBSET Admission]

Init ==
    /\ now = 0
    /\ boot = 0
    /\ table = [l \in Limiter |-> <<>>]
    /\ pc = [a \in Attempt |-> "idle"]
    /\ caller = [a \in Attempt |-> <<>>]
    /\ admitted = [l \in Limiter |-> {}]

-----------------------------------------------------------------------------

Goto(a, label) == pc' = [pc EXCEPT ![a] = label]

(* l.Allow for request a of caller c, which goes on to next or answers 429.*)
Charge(l, a, c, next) ==
    LET key == LimitKey(l, c)
        v   == Allow(table[l], Limit[l], key, [by |-> a, at |-> now])
        adm == [by |-> a, at |-> now, key |-> key, boot |-> boot]
    IN  /\ table' = [table EXCEPT ![l] = v.table]
        /\ admitted' = IF v.ok THEN [admitted EXCEPT ![l] = @ \cup {adm}]
                               ELSE admitted
        /\ Goto(a, IF v.ok THEN next ELSE "throttled")
        /\ UNCHANGED <<now, boot>>

Send(a, c) ==
    /\ pc[a] = "idle"
    /\ caller' = [caller EXCEPT ![a] = c]

(* Mutant: the slug is a map key before it is validated.                   *)
UnlockUnvalidated(a, c) ==
    /\ Send(a, c)
    /\ Charge("perSlug", a, c, "ip")

UnlockShare(a, c) ==
    /\ Send(a, c)
    /\ IF c[1] \in Slug
       THEN Charge("perSlug", a, c, "ip")
       ELSE Goto(a, "done") /\ UNCHANGED <<now, boot, table, admitted>>

ChargeAddress(a) ==
    /\ pc[a] = "ip"
    /\ Charge("perIP", a, caller[a], "done")
    /\ UNCHANGED caller

(* An admission is followed by loadShare or by the handler of the route.   *)
RateLimitByIP(a, c) ==
    /\ Send(a, c)
    /\ Charge("byIP", a, c, "done")

Restart ==
    /\ boot < MaxBoots
    /\ boot' = boot + 1
    /\ table' = [l \in Limiter |-> <<>>]
    /\ pc' = [a \in Attempt |-> IF pc[a] = "ip" THEN "done" ELSE pc[a]]
    /\ UNCHANGED <<now, caller, admitted>>

Tick ==
    /\ now < MaxTime
    /\ now' = now + 1
    /\ UNCHANGED <<boot, table, pc, caller, admitted>>

Next ==
    \/ \E a \in Attempt, c \in Caller :
          UnlockShare(a, c) \/ RateLimitByIP(a, c)
    \/ \E a \in Attempt : ChargeAddress(a)
    \/ Restart
    \/ Tick

Spec == Init /\ [][Next]_vars

-----------------------------------------------------------------------------

(* The events limiter l let through for key k in incarnation b during the  *)
(* window that ends at t.                                                  *)
Within(l, k, b, t) ==
    {d \in admitted[l] : d.key = k /\ d.boot = b /\ t - Window < d.at /\ d.at <= t}

(* "perSlug bounds total guesses against one share regardless of source    *)
(* IP": whatever the interleaving of requests, refusals and evictions, a   *)
(* process never lets more than the limit through in any window, on any    *)
(* key of any limiter; eviction forgets nothing that still counts.         *)
AttemptsBounded ==
    \A l \in Limiter, k \in LimitKeys, b \in 0 .. boot, t \in 0 .. now :
        Cardinality(Within(l, k, b, t)) <= Limit[l]

(* A 429 has a reason, and one of the limiter that gave it (perIP for a    *)
(* request that has passed perSlug): its limit was really used up within   *)
(* the last window by requests that were let through, or its map is full   *)
(* of keys that each let one through within it.  Refusals never prolong a  *)
(* lockout.                                                                *)
RefusalJustified ==
    [][\A a \in Attempt :
         pc[a] # "throttled" /\ pc'[a] = "throttled" =>
           \E l \in IF pc[a] = "ip" THEN {"perIP"} ELSE {"perSlug", "byIP"} :
             \/ Cardinality(Within(l, LimitKey(l, caller'[a]), boot, now))
                    >= Limit[l]
             \/ Cardinality({k \in LimitKeys : Within(l, k, boot, now) # {}})
                    >= MaxKeys]_vars

(* No lockout outlasts the callers by more than a window: a key that no    *)
(* one uses from now on is open again one window later, the keys a full    *)
(* map has no room for now included.                                       *)
LockoutEnds ==
    \A l \in Limiter, k \in LimitKeys :
        Allow(table[l], Limit[l], k, [by |-> "later", at |-> now + Window]).ok
=============================================================================
