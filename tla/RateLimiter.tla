---------------------------- MODULE RateLimiter ----------------------------
(***************************************************************************)
(* The sliding-window limiter (internal/handlers/ratelimit.go) as          *)
(* operators on its map.  The map sends a key to the events admitted for   *)
(* it; an event is the request that caused it with its time, so that two   *)
(* events of one instant count as two.  The code keeps them in a list in   *)
(* the order of their times: its length and its last element are the       *)
(* cardinality and the youngest event here.  Allow runs under the mutex    *)
(* and is one expression.                                                  *)
(***************************************************************************)
EXTENDS Integers, FiniteSets

CONSTANTS
    Window,     \* how long an event counts
    MaxKeys     \* maxKeys, the most keys the map may hold

ASSUME LimiterAssumption == Window \in Nat \ {0} /\ MaxKeys \in Nat \ {0}

Fresh(events, t) == {e \in events : e.at > t - Window}

Kept(table, k, t) == IF k \in DOMAIN table THEN Fresh(table[k], t) ELSE {}

Put(table, k, events) ==
    [x \in DOMAIN table \cup {k} |-> IF x = k THEN events ELSE table[x]]

(* Mutant: nothing is evicted.                                             *)
EvictNothing(table, t) == table

(* A key goes if it has no event or its last one is outside the window.    *)
EvictStale(table, t) ==
    [x \in {k \in DOMAIN table : Fresh(table[k], t) # {}} |-> table[x]]

Full(table, k) == k \notin DOMAIN table /\ Cardinality(DOMAIN table) >= MaxKeys

(* Mutant: the refused event is stored as well.                            *)
AllowCountingRefusals(table, limit, k, e) ==
    LET events == Kept(table, k, e.at) \cup {e}
        room   == IF Full(table, k) THEN EvictStale(table, e.at) ELSE table
    IN  IF Full(room, k)
        THEN [ok |-> FALSE, table |-> room]
        ELSE [ok |-> Cardinality(events) <= limit,
              table |-> Put(room, k, events)]

(* Mutant: "len(kept) > r.limit".                                          *)
AllowOneMore(table, limit, k, e) ==
    LET kept == Kept(table, k, e.at)
        room == IF Full(table, k) THEN EvictStale(table, e.at) ELSE table
    IN  IF Cardinality(kept) > limit
        THEN [ok |-> FALSE, table |-> Put(table, k, kept)]
        ELSE IF Full(room, k)
             THEN [ok |-> FALSE, table |-> room]
             ELSE [ok |-> TRUE, table |-> Put(room, k, kept \cup {e})]

(* The verdict on event e for key k, and the map it leaves.                *)
Allow(table, limit, k, e) ==
    LET kept == Kept(table, k, e.at)
        room == IF Full(table, k) THEN EvictStale(table, e.at) ELSE table
    IN  IF Cardinality(kept) >= limit
        THEN [ok |-> FALSE, table |-> Put(table, k, kept)]
        ELSE IF Full(room, k)
             THEN [ok |-> FALSE, table |-> room]
             ELSE [ok |-> TRUE, table |-> Put(room, k, kept \cup {e})]
=============================================================================
