---------------------------- MODULE UnlockProofs ----------------------------
(***************************************************************************)
(* The throttled endpoints keep to their limits, for any number of         *)
(* requests, slugs, addresses and restarts, any window, any limits and any *)
(* size of the maps.                                                       *)
(*                                                                         *)
(* A limiter's map is what is left of the admissions after pruning,        *)
(* evicting and restarting.  Mirrors says that nothing is lost that still  *)
(* counts and nothing is kept that was not admitted; counting the map is   *)
(* then counting the admissions of the last window.                        *)
(***************************************************************************)
EXTENDS Unlock, FiniteSetTheorems, TLAPS

(* The admission an event of key k stands for in incarnation b.            *)
AdmissionOf(e, k, b) == [by |-> e.by, at |-> e.at, key |-> k, boot |-> b]

EventOf(d) == [by |-> d.by, at |-> d.at]

(* Within, for any set of admissions.                                      *)
Recent(A, k, b, t) ==
    {d \in A : d.key = k /\ d.boot = b /\ t - Window < d.at /\ d.at <= t}

TableType(T) ==
    /\ DOMAIN T \subseteq LimitKeys
    /\ IsFiniteSet(DOMAIN T)
    /\ Cardinality(DOMAIN T) <= MaxKeys
    /\ \A k \in DOMAIN T : T[k] \subseteq Event /\ IsFiniteSet(T[k])

Past(A, b, t) ==
    /\ A \subseteq Admission
    /\ \A d \in A : d.at <= t /\ d.boot <= b

Mirrors(T, A, b, t) ==
    /\ \A k \in DOMAIN T : \A e \in T[k] : AdmissionOf(e, k, b) \in A
    /\ \A d \in A : d.boot = b /\ t - Window < d.at
          => d.key \in DOMAIN T /\ EventOf(d) \in T[d.key]

Bounded(A, limit, b, t) ==
    \A k \in LimitKeys, c \in 0 .. b, s \in 0 .. t :
        IsFiniteSet(Recent(A, k, c, s)) /\ Cardinality(Recent(A, k, c, s)) <= limit

-----------------------------------------------------------------------------
(* Counting.                                                               *)

(* An injection into a finite set bounds the cardinality.                  *)
LEMMA Injected ==
    ASSUME NEW S, NEW T, IsFiniteSet(T), NEW f \in [S -> T],
           \A x, y \in S : f[x] = f[y] => x = y
    PROVE  IsFiniteSet(S) /\ Cardinality(S) <= Cardinality(T)
<1>1. f \in Injection(S, T)
  BY DEF Injection, IsInjective
<1> QED BY <1>1, FS_Injection

(* What is kept of a key is finite and consists of its fresh events.       *)
LEMMA KeptType ==
    ASSUME NEW T, TableType(T), NEW k, NEW t
    PROVE  /\ IsFiniteSet(Kept(T, k, t))
           /\ Kept(T, k, t) \subseteq Event
           /\ \A e \in Kept(T, k, t) : k \in DOMAIN T /\ e \in T[k]
<1>1. CASE k \in DOMAIN T
  <2>1. Kept(T, k, t) \in SUBSET T[k]
    BY <1>1 DEF Kept, Fresh
  <2>2. IsFiniteSet(Kept(T, k, t))
    BY <1>1, <2>1, FS_Subset DEF TableType
  <2> QED BY <1>1, <2>1, <2>2 DEF TableType
<1>2. CASE k \notin DOMAIN T
  BY <1>2, FS_EmptySet DEF Kept
<1> QED BY <1>1, <1>2

(* The events kept for a key are as many as the admissions of the last     *)
(* window.                                                                 *)
LEMMA KeptCounts ==
    ASSUME NEW T, TableType(T), NEW A, NEW b \in Nat, NEW t \in Nat,
           Past(A, b, t), Mirrors(T, A, b, t), NEW k
    PROVE  /\ IsFiniteSet(Recent(A, k, b, t))
           /\ Cardinality(Recent(A, k, b, t)) = Cardinality(Kept(T, k, t))
<1> DEFINE R == Recent(A, k, b, t)
           K == Kept(T, k, t)
           f == [d \in R |-> EventOf(d)]
           g == [e \in K |-> AdmissionOf(e, k, b)]
<1>0. Window \in Nat
  BY LimiterAssumption
<1>1. IsFiniteSet(K) /\ K \subseteq Event
  BY KeptType
<1>2. \A d \in R : d \in Admission /\ d.at \in Nat
  BY DEF Recent, Past, Admission
<1>3. ASSUME NEW d \in R PROVE EventOf(d) \in K
  <2>1. d \in A /\ d.key = k /\ d.boot = b /\ t - Window < d.at
    BY DEF Recent
  <2>2. k \in DOMAIN T /\ EventOf(d) \in T[k]
    BY <2>1 DEF Mirrors
  <2>3. EventOf(d).at > t - Window
    BY <1>0, <1>2, <2>1 DEF EventOf
  <2> QED BY <2>2, <2>3 DEF Kept, Fresh
<1>4. ASSUME NEW d \in R, NEW c \in R, EventOf(d) = EventOf(c) PROVE d = c
  <2>1. d.by = c.by /\ d.at = c.at
    BY <1>4 DEF EventOf
  <2> QED BY <1>2, <2>1 DEF Recent, Admission
<1>5. ASSUME NEW e \in K PROVE AdmissionOf(e, k, b) \in R
  <2>1. k \in DOMAIN T /\ e \in T[k] /\ e.at > t - Window
    BY DEF Kept, Fresh
  <2>2. AdmissionOf(e, k, b) \in A
    BY <2>1 DEF Mirrors
  <2>3. AdmissionOf(e, k, b).at <= t /\ e.at \in Nat
    BY <1>1, <2>2 DEF Past, Event
  <2> QED BY <1>0, <2>1, <2>2, <2>3 DEF Recent, AdmissionOf
<1>6. ASSUME NEW d \in K, NEW e \in K, AdmissionOf(d, k, b) = AdmissionOf(e, k, b)
      PROVE  d = e
  <2>1. d.by = e.by /\ d.at = e.at
    BY <1>6 DEF AdmissionOf
  <2> QED BY <1>1, <2>1 DEF Event
<1>7. f \in [R -> K] /\ \A x, y \in R : f[x] = f[y] => x = y
  BY <1>3, <1>4
<1>8. g \in [K -> R] /\ \A x, y \in K : g[x] = g[y] => x = y
  BY <1>5, <1>6
<1> HIDE DEF R, K, f, g
<1>9. IsFiniteSet(R) /\ Cardinality(R) <= Cardinality(K)
  BY <1>1, <1>7, Injected
<1>10. Cardinality(K) <= Cardinality(R)
  BY <1>8, <1>9, Injected
<1>11. Cardinality(R) \in Nat /\ Cardinality(K) \in Nat
  BY <1>1, <1>9, FS_CardinalityType
<1>12. Cardinality(R) = Cardinality(K)
  BY <1>9, <1>10, <1>11
<1> QED BY <1>9, <1>12 DEF R, K

-----------------------------------------------------------------------------
(* One call of Allow.                                                      *)

(* Evicting drops no event that still counts.                              *)
LEMMA EvictKeeps ==
    ASSUME NEW T, TableType(T), NEW A, NEW b \in Nat, NEW t \in Nat,
           Past(A, b, t), Mirrors(T, A, b, t)
    PROVE  /\ TableType(EvictStale(T, t))
           /\ Mirrors(EvictStale(T, t), A, b, t)
           /\ DOMAIN EvictStale(T, t) \subseteq DOMAIN T
<1> DEFINE E == EvictStale(T, t)
<1>1. DOMAIN E = {k \in DOMAIN T : Fresh(T[k], t) # {}}
  BY DEF EvictStale
<1>2. \A k \in DOMAIN E : E[k] = T[k]
  BY DEF EvictStale
<1> HIDE DEF E
<1>3. TableType(E)
  <2>1. DOMAIN E \in SUBSET DOMAIN T
    BY <1>1
  <2>2. IsFiniteSet(DOMAIN T)
    BY DEF TableType
  <2>3. IsFiniteSet(DOMAIN E) /\ Cardinality(DOMAIN E) <= Cardinality(DOMAIN T)
    BY <2>1, <2>2, FS_Subset
  <2>4. Cardinality(DOMAIN E) \in Nat /\ Cardinality(DOMAIN T) \in Nat
    BY <2>2, <2>3, FS_CardinalityType
  <2>5. Cardinality(DOMAIN E) <= MaxKeys
    BY <2>3, <2>4, LimiterAssumption DEF TableType
  <2> QED BY <1>1, <1>2, <2>3, <2>5 DEF TableType
<1>4. Mirrors(E, A, b, t)
  <2>1. ASSUME NEW d \in A, d.boot = b, t - Window < d.at
        PROVE  d.key \in DOMAIN E /\ EventOf(d) \in E[d.key]
    <3>1. d.key \in DOMAIN T /\ EventOf(d) \in T[d.key]
      BY <2>1 DEF Mirrors
    <3>2. d.at \in Nat /\ Window \in Nat
      BY LimiterAssumption DEF Past, Admission
    <3>3. EventOf(d) \in Fresh(T[d.key], t)
      BY <2>1, <3>1, <3>2 DEF Fresh, EventOf
    <3> QED BY <1>1, <1>2, <3>1, <3>3
  <2> QED BY <1>1, <1>2, <2>1 DEF Mirrors
<1> QED BY <1>1, <1>3, <1>4 DEF E

(* Pruning a key on a refusal drops no event that still counts.            *)
LEMMA PruneKeeps ==
    ASSUME NEW T, TableType(T), NEW A, NEW b \in Nat, NEW t \in Nat,
           Past(A, b, t), Mirrors(T, A, b, t), NEW k \in DOMAIN T
    PROVE  /\ TableType(Put(T, k, Kept(T, k, t)))
           /\ Mirrors(Put(T, k, Kept(T, k, t)), A, b, t)
<1> DEFINE P == Put(T, k, Kept(T, k, t))
<1>1. DOMAIN P = DOMAIN T /\ P[k] = Kept(T, k, t)
  BY DEF Put
<1>2. \A j \in DOMAIN T \ {k} : P[j] = T[j]
  BY DEF Put
<1> HIDE DEF P
<1>3. TableType(P)
  <2>1. IsFiniteSet(Kept(T, k, t)) /\ Kept(T, k, t) \subseteq Event
    BY KeptType
  <2> QED BY <1>1, <1>2, <2>1 DEF TableType
<1>4. Mirrors(P, A, b, t)
  <2>1. \A e \in Kept(T, k, t) : AdmissionOf(e, k, b) \in A
    BY KeptType DEF Mirrors
  <2>2. ASSUME NEW d \in A, d.boot = b, t - Window < d.at
        PROVE  d.key \in DOMAIN P /\ EventOf(d) \in P[d.key]
    <3>1. d.key \in DOMAIN T /\ EventOf(d) \in T[d.key]
      BY <2>2 DEF Mirrors
    <3>2. d.at \in Nat /\ Window \in Nat
      BY LimiterAssumption DEF Past, Admission
    <3>3. EventOf(d) \in Fresh(T[d.key], t)
      BY <2>2, <3>1, <3>2 DEF Fresh, EventOf
    <3> QED BY <1>1, <1>2, <3>1, <3>3 DEF Kept
  <2>3. \A j \in DOMAIN P : \A e \in P[j] : AdmissionOf(e, j, b) \in A
    BY <1>1, <1>2, <2>1 DEF Mirrors
  <2> QED BY <2>2, <2>3 DEF Mirrors
<1> QED BY <1>3, <1>4 DEF P

(* An admission where there is room is in the map and in the history.      *)
LEMMA AdmitKeeps ==
    ASSUME NEW T, TableType(T), NEW A, NEW b \in Nat, NEW t \in Nat,
           Past(A, b, t), Mirrors(T, A, b, t), NEW k \in LimitKeys, ~ Full(T, k),
           NEW e \in Event, e.at = t
    PROVE  /\ TableType(Put(T, k, Kept(T, k, t) \cup {e}))
           /\ Mirrors(Put(T, k, Kept(T, k, t) \cup {e}),
                      A \cup {AdmissionOf(e, k, b)}, b, t)
<1> DEFINE K == Kept(T, k, t) \cup {e}
           P == Put(T, k, K)
           B == A \cup {AdmissionOf(e, k, b)}
<1>1. DOMAIN P = DOMAIN T \cup {k} /\ P[k] = K
  BY DEF Put
<1>2. \A j \in DOMAIN T \ {k} : P[j] = T[j]
  BY DEF Put
<1>3. IsFiniteSet(K) /\ K \subseteq Event
  BY KeptType, FS_AddElement
<1> HIDE DEF P
<1>4. TableType(P)
  <2>1. IsFiniteSet(DOMAIN T) /\ Cardinality(DOMAIN T) \in Nat
    BY FS_CardinalityType DEF TableType
  <2>2. /\ IsFiniteSet(DOMAIN P)
        /\ Cardinality(DOMAIN P) = IF k \in DOMAIN T THEN Cardinality(DOMAIN T)
                                   ELSE Cardinality(DOMAIN T) + 1
    BY <1>1, <2>1, FS_AddElement
  <2>3. Cardinality(DOMAIN P) <= MaxKeys
    BY <2>1, <2>2, LimiterAssumption DEF Full, TableType
  <2>4. \A j \in DOMAIN P : P[j] \subseteq Event /\ IsFiniteSet(P[j])
    BY <1>1, <1>2, <1>3 DEF TableType
  <2> HIDE DEF K
  <2> QED BY <1>1, <2>2, <2>3, <2>4 DEF TableType
<1>5. Mirrors(P, B, b, t)
  <2>1. \A x \in K : AdmissionOf(x, k, b) \in B
    BY KeptType DEF Mirrors
  <2>2. ASSUME NEW d \in A, d.boot = b, t - Window < d.at
        PROVE  d.key \in DOMAIN P /\ EventOf(d) \in P[d.key]
    <3>1. d.key \in DOMAIN T /\ EventOf(d) \in T[d.key]
      BY <2>2 DEF Mirrors
    <3>2. d.at \in Nat /\ Window \in Nat
      BY LimiterAssumption DEF Past, Admission
    <3>3. EventOf(d) \in Fresh(T[d.key], t)
      BY <2>2, <3>1, <3>2 DEF Fresh, EventOf
    <3> QED BY <1>1, <1>2, <3>1, <3>3 DEF Kept
  <2>3. ASSUME NEW d, d = AdmissionOf(e, k, b)
        PROVE  d.key \in DOMAIN P /\ EventOf(d) \in P[d.key]
    <3>1. d.key = k /\ EventOf(d) = e
      BY <2>3 DEF AdmissionOf, EventOf, Event
    <3> QED BY <1>1, <3>1
  <2>4. \A j \in DOMAIN P : \A x \in P[j] : AdmissionOf(x, j, b) \in B
    <3> HIDE DEF K
    <3> QED BY <1>1, <1>2, <2>1 DEF Mirrors
  <2> QED BY <2>2, <2>3, <2>4 DEF Mirrors
<1> QED BY <1>4, <1>5 DEF P

(* The admissions after a call of Allow with verdict ok.                   *)
After(A, ok, e, k, b) == IF ok THEN A \cup {AdmissionOf(e, k, b)} ELSE A

(* The map Allow tries to make room in.                                    *)
Room(T, k, t) == IF Full(T, k) THEN EvictStale(T, t) ELSE T

(* The three ways through Allow.                                           *)
LEMMA AllowCases ==
    ASSUME NEW T, NEW limit, NEW k, NEW e, NEW t, e.at = t
    PROVE  \/ /\ Cardinality(Kept(T, k, t)) >= limit
              /\ ~ Allow(T, limit, k, e).ok
              /\ Allow(T, limit, k, e).table = Put(T, k, Kept(T, k, t))
           \/ /\ ~ (Cardinality(Kept(T, k, t)) >= limit)
              /\ Full(Room(T, k, t), k)
              /\ ~ Allow(T, limit, k, e).ok
              /\ Allow(T, limit, k, e).table = Room(T, k, t)
           \/ /\ ~ (Cardinality(Kept(T, k, t)) >= limit)
              /\ ~ Full(Room(T, k, t), k)
              /\ Allow(T, limit, k, e).ok
              /\ Allow(T, limit, k, e).table
                    = Put(Room(T, k, t), k, Kept(T, k, t) \cup {e})
BY DEF Allow, Room

(* Making room keeps what is known of the key.                             *)
LEMMA RoomKeeps ==
    ASSUME NEW T, TableType(T), NEW A, NEW b \in Nat, NEW t \in Nat,
           Past(A, b, t), Mirrors(T, A, b, t), NEW k
    PROVE  /\ TableType(Room(T, k, t))
           /\ Mirrors(Room(T, k, t), A, b, t)
           /\ Kept(Room(T, k, t), k, t) = Kept(T, k, t)
<1>1. CASE Full(T, k)
  <2>1. Room(T, k, t) = EvictStale(T, t) /\ k \notin DOMAIN T
    BY <1>1 DEF Room, Full
  <2>2. k \notin DOMAIN EvictStale(T, t)
    BY <2>1, EvictKeeps
  <2> QED BY <2>1, <2>2, EvictKeeps DEF Kept
<1>2. CASE ~ Full(T, k)
  BY <1>2 DEF Room
<1> QED BY <1>1, <1>2

(* Allow keeps map and history in step.                                    *)
LEMMA AllowKeeps ==
    ASSUME NEW T, TableType(T), NEW A, NEW b \in Nat, NEW t \in Nat,
           Past(A, b, t), Mirrors(T, A, b, t), NEW k \in LimitKeys,
           NEW limit \in Nat \ {0}, NEW e \in Event, e.at = t
    PROVE  LET v == Allow(T, limit, k, e)
           IN  /\ TableType(v.table)
               /\ Mirrors(v.table, After(A, v.ok, e, k, b), b, t)
               /\ Past(After(A, v.ok, e, k, b), b, t)
<1> DEFINE v == Allow(T, limit, k, e)
           K == Kept(T, k, t)
           M == Room(T, k, t)
<1> SUFFICES /\ TableType(v.table)
             /\ Mirrors(v.table, After(A, v.ok, e, k, b), b, t)
             /\ Past(After(A, v.ok, e, k, b), b, t)
  OBVIOUS
<1>1. TableType(M) /\ Mirrors(M, A, b, t) /\ Kept(M, k, t) = K
  BY RoomKeeps
<1>2. IsFiniteSet(K) /\ Cardinality(K) \in Nat
  BY KeptType, FS_CardinalityType
<1>3. CASE Cardinality(K) >= limit /\ ~ v.ok /\ v.table = Put(T, k, K)
  <2>1. K # {}
    BY <1>2, <1>3, FS_EmptySet
  <2>2. k \in DOMAIN T
    BY <2>1 DEF Kept
  <2> QED BY <1>3, <2>2, PruneKeeps DEF After
<1>4. CASE ~ v.ok /\ v.table = M
  BY <1>1, <1>4 DEF After
<1>5. CASE ~ Full(M, k) /\ v.ok /\ v.table = Put(M, k, K \cup {e})
  <2>1. /\ TableType(v.table)
        /\ Mirrors(v.table, A \cup {AdmissionOf(e, k, b)}, b, t)
    BY <1>1, <1>5, AdmitKeeps
  <2>2. ASSUME NEW d, d = AdmissionOf(e, k, b)
        PROVE  d \in Admission /\ d.at <= t /\ d.boot <= b
    BY <2>2 DEF AdmissionOf, Admission, Event
  <2>3. Past(A \cup {AdmissionOf(e, k, b)}, b, t)
    BY <2>2 DEF Past
  <2> QED BY <1>5, <2>1, <2>3 DEF After
<1>6. \/ Cardinality(K) >= limit /\ ~ v.ok /\ v.table = Put(T, k, K)
      \/ ~ v.ok /\ v.table = M
      \/ ~ Full(M, k) /\ v.ok /\ v.table = Put(M, k, K \cup {e})
  BY AllowCases
<1> QED BY <1>3, <1>4, <1>5, <1>6, Zenon

(* Allow lets no window overflow.                                          *)
LEMMA AllowBounds ==
    ASSUME NEW T, TableType(T), NEW A, NEW b \in Nat, NEW t \in Nat,
           Past(A, b, t), Mirrors(T, A, b, t), NEW k \in LimitKeys,
           NEW limit \in Nat \ {0}, NEW e \in Event, e.at = t,
           Bounded(A, limit, b, t)
    PROVE  Bounded(After(A, Allow(T, limit, k, e).ok, e, k, b), limit, b, t)
<1>1. CASE ~ Allow(T, limit, k, e).ok
  BY <1>1 DEF After
<1>2. CASE /\ Allow(T, limit, k, e).ok
           /\ ~ (Cardinality(Kept(T, k, t)) >= limit)
  <2> DEFINE n == AdmissionOf(e, k, b)
             B == A \cup {n}
  <2>1. n.key = k /\ n.boot = b /\ n.at = t
    BY DEF AdmissionOf
  <2> HIDE DEF n
  <2> SUFFICES ASSUME NEW j \in LimitKeys, NEW c \in 0 .. b, NEW s \in 0 .. t
               PROVE  /\ IsFiniteSet(Recent(B, j, c, s))
                      /\ Cardinality(Recent(B, j, c, s)) <= limit
    BY <1>2 DEF Bounded, After, n
  <2>2. /\ IsFiniteSet(Recent(A, j, c, s))
        /\ Cardinality(Recent(A, j, c, s)) <= limit
    BY DEF Bounded
  <2>3. CASE n \notin Recent(B, j, c, s)
    <3>1. Recent(B, j, c, s) = Recent(A, j, c, s)
      BY <2>3 DEF Recent
    <3> QED BY <2>2, <3>1
  <2>4. CASE n \in Recent(B, j, c, s)
    <3>1. j = k /\ c = b /\ s = t
      BY <2>1, <2>4 DEF Recent
    <3>2. Recent(B, j, c, s) = Recent(A, k, b, t) \cup {n}
      BY <2>4, <3>1 DEF Recent
    <3>3. /\ IsFiniteSet(Recent(A, k, b, t))
          /\ Cardinality(Recent(A, k, b, t)) = Cardinality(Kept(T, k, t))
      BY KeptCounts
    <3>4. Cardinality(Recent(A, k, b, t)) \in Nat
      BY <3>3, FS_CardinalityType
    <3>5. /\ IsFiniteSet(Recent(A, k, b, t) \cup {n})
          /\ \/ Cardinality(Recent(A, k, b, t) \cup {n}) = Cardinality(Recent(A, k, b, t))
             \/ Cardinality(Recent(A, k, b, t) \cup {n})
                   = Cardinality(Recent(A, k, b, t)) + 1
      BY <3>3, FS_AddElement
    <3>6. Cardinality(Recent(A, k, b, t)) < limit
      BY <1>2, <3>3, <3>4
    <3>7. Cardinality(Recent(A, k, b, t) \cup {n}) <= limit
      BY <3>4, <3>5, <3>6
    <3> QED BY <3>2, <3>5, <3>7
  <2> QED BY <2>3, <2>4
<1> QED BY <1>1, <1>2, AllowCases

(* The keys that let someone through within the window that ends at t.     *)
BusyKeys(A, b, t) == {j \in LimitKeys : Recent(A, j, b, t) # {}}

(* A refusal means a full window, or a map full of recent keys.            *)
LEMMA RefusalReason ==
    ASSUME NEW T, TableType(T), NEW A, NEW b \in Nat, NEW t \in Nat,
           Past(A, b, t), Mirrors(T, A, b, t), NEW k,
           NEW limit \in Nat \ {0}, NEW e, e.at = t, ~ Allow(T, limit, k, e).ok
    PROVE  \/ Cardinality(Recent(A, k, b, t)) >= limit
           \/ Cardinality(BusyKeys(A, b, t)) >= MaxKeys
<1> DEFINE J == {j \in LimitKeys : Recent(A, j, b, t) # {}}
           E == EvictStale(T, t)
<1>1. CASE Cardinality(Kept(T, k, t)) >= limit
  BY <1>1, KeptCounts
<1>2. CASE Full(Room(T, k, t), k)
  <2>1. Full(T, k) /\ Room(T, k, t) = E
    BY <1>2 DEF Room
  <2>2. Cardinality(DOMAIN E) >= MaxKeys
    BY <1>2, <2>1 DEF Full
  <2>3. J \in SUBSET DOMAIN T
    BY LimiterAssumption DEF Recent, Mirrors
  <2>4. IsFiniteSet(J)
    BY <2>3, FS_Subset DEF TableType
  <2>5. ASSUME NEW j \in DOMAIN E PROVE j \in J
    <3>1. j \in DOMAIN T /\ j \in LimitKeys /\ Fresh(T[j], t) # {}
      BY DEF EvictStale, TableType
    <3>2. PICK x \in T[j] : x.at > t - Window
      BY <3>1 DEF Fresh
    <3>3. AdmissionOf(x, j, b) \in A /\ x \in Event
      BY <3>1 DEF Mirrors, TableType
    <3>4. AdmissionOf(x, j, b).at <= t
      BY <3>3 DEF Past
    <3>5. x.at \in Nat /\ Window \in Nat
      BY <3>3, LimiterAssumption DEF Event
    <3>6. AdmissionOf(x, j, b) \in Recent(A, j, b, t)
      BY <3>2, <3>3, <3>4, <3>5 DEF Recent, AdmissionOf
    <3> QED BY <3>1, <3>6
  <2>6. DOMAIN E \in SUBSET J
    BY <2>5
  <2>7. IsFiniteSet(DOMAIN E) /\ Cardinality(DOMAIN E) <= Cardinality(J)
    BY <2>4, <2>6, FS_Subset
  <2>8. Cardinality(DOMAIN E) \in Nat /\ Cardinality(J) \in Nat
    BY <2>4, <2>7, FS_CardinalityType
  <2> HIDE DEF J, E
  <2>9. Cardinality(J) >= MaxKeys
    BY <2>2, <2>7, <2>8, LimiterAssumption
  <2> QED BY <2>9 DEF J, BusyKeys
<1> QED BY <1>1, <1>2, AllowCases

(* A window after the last admission nothing is refused.                   *)
LEMMA Reopens ==
    ASSUME NEW T, TableType(T), NEW A, NEW b \in Nat, NEW t \in Nat,
           Past(A, b, t), Mirrors(T, A, b, t), NEW k,
           NEW limit \in Nat \ {0}, NEW e, e.at = t + Window
    PROVE  Allow(T, limit, k, e).ok
<1> DEFINE u == t + Window
<1>1. ASSUME NEW j \in DOMAIN T PROVE Fresh(T[j], u) = {}
  <2> SUFFICES ASSUME NEW x \in T[j], x.at > u - Window PROVE FALSE
    BY DEF Fresh
  <2>1. AdmissionOf(x, j, b) \in A /\ x \in Event
    BY DEF Mirrors, TableType
  <2>2. AdmissionOf(x, j, b).at <= t
    BY <2>1 DEF Past
  <2>3. x.at <= t /\ x.at \in Nat /\ Window \in Nat
    BY <2>1, <2>2, LimiterAssumption DEF AdmissionOf, Event
  <2> QED BY <2>3
<1>2. Kept(T, k, u) = {}
  BY <1>1 DEF Kept
<1>3. ~ (Cardinality(Kept(T, k, u)) >= limit)
  BY <1>2, FS_EmptySet
<1>4. ~ Full(Room(T, k, u), k)
  <2>1. CASE Full(T, k)
    <3>1. DOMAIN EvictStale(T, u) = {}
      BY <1>1 DEF EvictStale
    <3>2. Cardinality(DOMAIN EvictStale(T, u)) = 0
      BY <3>1, FS_EmptySet
    <3> QED BY <2>1, <3>2, LimiterAssumption DEF Room, Full
  <2>2. CASE ~ Full(T, k)
    BY <2>2 DEF Room
  <2> QED BY <2>1, <2>2
<1> HIDE DEF u
<1> QED BY <1>3, <1>4, AllowCases DEF u

-----------------------------------------------------------------------------
(* Time and restarts.                                                      *)

(* The window moves on.                                                    *)
LEMMA LaterKeeps ==
    ASSUME NEW T, NEW A, NEW b \in Nat, NEW t \in Nat, NEW limit \in Nat,
           Past(A, b, t), Mirrors(T, A, b, t), Bounded(A, limit, b, t)
    PROVE  Past(A, b, t + 1) /\ Mirrors(T, A, b, t + 1) /\ Bounded(A, limit, b, t + 1)
<1>0. Window \in Nat /\ \A d \in A : d.at \in Nat /\ d.boot \in Nat /\ d.at <= t
  BY LimiterAssumption DEF Past, Admission
<1>1. Past(A, b, t + 1)
  BY <1>0 DEF Past
<1>2. Mirrors(T, A, b, t + 1)
  BY <1>0 DEF Mirrors
<1>3. ASSUME NEW k \in LimitKeys, NEW c \in 0 .. b, NEW s \in 0 .. t + 1
      PROVE  /\ IsFiniteSet(Recent(A, k, c, s))
             /\ Cardinality(Recent(A, k, c, s)) <= limit
  <2>1. CASE s \in 0 .. t
    BY <2>1 DEF Bounded
  <2>2. CASE s = t + 1
    <3> DEFINE R == Recent(A, k, c, t)
               S == Recent(A, k, c, s)
    <3>1. IsFiniteSet(R) /\ Cardinality(R) <= limit
      BY DEF Bounded
    <3>2. S \in SUBSET R
      BY <1>0, <2>2 DEF Recent
    <3> HIDE DEF R, S
    <3>3. IsFiniteSet(S) /\ Cardinality(S) <= Cardinality(R)
      BY <3>1, <3>2, FS_Subset
    <3>4. Cardinality(S) \in Nat /\ Cardinality(R) \in Nat
      BY <3>1, <3>3, FS_CardinalityType
    <3>5. Cardinality(S) <= limit
      BY <3>1, <3>3, <3>4
    <3> QED BY <3>3, <3>5 DEF S
  <2> QED BY <2>1, <2>2
<1> QED BY <1>1, <1>2, <1>3 DEF Bounded

(* A restart forgets the events and starts a new count.                    *)
LEMMA RestartKeeps ==
    ASSUME NEW A, NEW b \in Nat, NEW t \in Nat, NEW limit \in Nat,
           Past(A, b, t), Bounded(A, limit, b, t)
    PROVE  /\ TableType(<<>>)
           /\ Past(A, b + 1, t)
           /\ Mirrors(<<>>, A, b + 1, t)
           /\ Bounded(A, limit, b + 1, t)
<1>0. \A d \in A : d.boot \in Nat /\ d.boot <= b
  BY DEF Past, Admission
<1>1. DOMAIN <<>> = {}
  OBVIOUS
<1>2. TableType(<<>>)
  BY <1>1, FS_EmptySet, LimiterAssumption DEF TableType
<1>3. Past(A, b + 1, t)
  BY <1>0 DEF Past
<1>4. Mirrors(<<>>, A, b + 1, t)
  BY <1>0, <1>1 DEF Mirrors
<1>5. ASSUME NEW k \in LimitKeys, NEW c \in 0 .. b + 1, NEW s \in 0 .. t
      PROVE  /\ IsFiniteSet(Recent(A, k, c, s))
             /\ Cardinality(Recent(A, k, c, s)) <= limit
  <2>1. CASE c \in 0 .. b
    BY <2>1 DEF Bounded
  <2>2. CASE c = b + 1
    <3>1. Recent(A, k, c, s) = {}
      BY <1>0, <2>2 DEF Recent
    <3> QED BY <3>1, FS_EmptySet
  <2> QED BY <2>1, <2>2
<1> QED BY <1>2, <1>3, <1>4, <1>5 DEF Bounded

-----------------------------------------------------------------------------
(* The invariant.                                                          *)

LimiterInv(l) ==
    /\ TableType(table[l])
    /\ Past(admitted[l], boot, now)
    /\ Mirrors(table[l], admitted[l], boot, now)
    /\ Bounded(admitted[l], Limit[l], boot, now)

UnlockInv ==
    /\ TypeOK
    /\ \A a \in Attempt : pc[a] = "ip" => caller[a] \in Slug \X IP
    /\ \A l \in Limiter : LimiterInv(l)

(* Every limit is a positive number.                                       *)
LEMMA Limits == \A l \in Limiter : Limit[l] \in Nat \ {0}
BY UnlockAssumption

(* A charge keeps all limiters in step with their histories.               *)
LEMMA ChargeKeeps ==
    ASSUME UnlockInv, NEW l \in Limiter, NEW a \in Attempt, NEW c, NEW next,
           LimitKey(l, c) \in LimitKeys, Charge(l, a, c, next)
    PROVE  /\ DOMAIN table' = Limiter
           /\ admitted' \in [Limiter -> SUBSET Admission]
           /\ \A m \in Limiter : LimiterInv(m)'
<1> DEFINE e == [by |-> a, at |-> now]
           k == LimitKey(l, c)
           v == Allow(table[l], Limit[l], k, e)
<1>0. /\ now \in Nat /\ boot \in Nat /\ DOMAIN table = Limiter
      /\ admitted \in [Limiter -> SUBSET Admission]
      /\ now' = now /\ boot' = boot
  BY DEF UnlockInv, TypeOK, Charge
<1>1. e \in Event /\ e.at = now /\ k \in LimitKeys
  BY <1>0 DEF Event
<1>2. AdmissionOf(e, k, boot) = [by |-> a, at |-> now, key |-> k, boot |-> boot]
  BY DEF AdmissionOf
<1>3. /\ table' = [table EXCEPT ![l] = v.table]
      /\ admitted' = IF v.ok
                     THEN [admitted EXCEPT ![l] = @ \cup {AdmissionOf(e, k, boot)}]
                     ELSE admitted
  BY <1>2 DEF Charge
<1>4. LimiterInv(l) /\ Limit[l] \in Nat \ {0}
  BY Limits DEF UnlockInv
<1>5. /\ TableType(v.table)
      /\ Mirrors(v.table, After(admitted[l], v.ok, e, k, boot), boot, now)
      /\ Past(After(admitted[l], v.ok, e, k, boot), boot, now)
  BY <1>0, <1>1, <1>4, AllowKeeps DEF LimiterInv
<1>6. Bounded(After(admitted[l], v.ok, e, k, boot), Limit[l], boot, now)
  BY <1>0, <1>1, <1>4, AllowBounds DEF LimiterInv
<1> HIDE DEF v, e, k
<1>7. DOMAIN table' = Limiter /\ table'[l] = v.table
  BY <1>0, <1>3
<1>8. admitted'[l] = After(admitted[l], v.ok, e, k, boot)
  BY <1>0, <1>3 DEF After
<1>9. \A m \in Limiter \ {l} : table'[m] = table[m] /\ admitted'[m] = admitted[m]
  BY <1>0, <1>3
<1>10. LimiterInv(l)'
  BY <1>0, <1>5, <1>6, <1>7, <1>8 DEF LimiterInv
<1>11. ASSUME NEW m \in Limiter \ {l} PROVE LimiterInv(m)'
  BY <1>0, <1>9 DEF UnlockInv, LimiterInv
<1>12. admitted' \in [Limiter -> SUBSET Admission]
  <2>1. AdmissionOf(e, k, boot) \in Admission
    BY <1>0, <1>1, <1>2 DEF Admission
  <2> QED BY <1>0, <1>3, <2>1
<1> QED BY <1>7, <1>10, <1>11, <1>12

(* The keys the handlers use are keys: the slug is validated before it is  *)
(* one, and the limiters of an address alone do not look at it.            *)
LEMMA KeysValid ==
    /\ \A l \in Limiter, c \in Slug \X IP : LimitKey(l, c) \in LimitKeys
    /\ \A c \in Caller : LimitKey("byIP", c) \in LimitKeys
<1>1. \A l \in Limiter, c \in Slug \X IP : LimitKey(l, c) \in LimitKeys
  BY DEF LimitKeys
<1>2. ASSUME NEW c \in Caller PROVE LimitKey("byIP", c) \in LimitKeys
  <2>1. PICK s \in Slug : TRUE
    BY UnlockAssumption
  <2>2. <<s, c[2]>> \in Slug \X IP /\ <<s, c[2]>>[2] = c[2]
    BY <2>1 DEF Caller
  <2>3. LimitKey("byIP", <<s, c[2]>>) = LimitKey("byIP", c)
    BY <2>2 DEF LimitKey
  <2> QED BY <1>1, <2>2, <2>3 DEF Limiter
<1> QED BY <1>1, <1>2

(* The map's type is part of what LimiterInv says.                         *)
LEMMA TablesTyped ==
    ASSUME NEW l, TableType(table[l])
    PROVE  /\ DOMAIN table[l] \subseteq LimitKeys
           /\ Cardinality(DOMAIN table[l]) <= MaxKeys
           /\ \A k \in DOMAIN table[l] : table[l][k] \subseteq Event
BY DEF TableType

(* UnlockInv is inductive.                                                 *)
THEOREM UnlockInvariance == Spec => []UnlockInv
<1>1. Init => UnlockInv
  <2> SUFFICES ASSUME Init PROVE UnlockInv
    OBVIOUS
  <2>1. ASSUME NEW l \in Limiter PROVE LimiterInv(l)
    <3>1. table[l] = <<>> /\ admitted[l] = {} /\ now = 0 /\ boot = 0
      BY DEF Init
    <3>2. DOMAIN <<>> = {}
      OBVIOUS
    <3>3. TableType(<<>>)
      BY <3>2, FS_EmptySet, LimiterAssumption DEF TableType
    <3>4. Past({}, 0, 0) /\ Mirrors(<<>>, {}, 0, 0)
      BY <3>2 DEF Past, Mirrors
    <3>5. \A k, b, t : Recent({}, k, b, t) = {}
      BY DEF Recent
    <3>6. Bounded({}, Limit[l], 0, 0)
      BY <3>5, FS_EmptySet, Limits DEF Bounded
    <3> QED BY <3>1, <3>3, <3>4, <3>6 DEF LimiterInv
  <2>2. TypeOK
    <3>1. \A l \in Limiter : TableType(table[l])
      BY <2>1 DEF LimiterInv
    <3> QED BY <3>1, TablesTyped DEF Init, TypeOK
  <2> QED BY <2>1, <2>2 DEF UnlockInv, Init
<1>2. UnlockInv /\ [Next]_vars => UnlockInv'
  <2> SUFFICES ASSUME UnlockInv, [Next]_vars PROVE UnlockInv'
    OBVIOUS
  <2>0. /\ now \in Nat /\ boot \in Nat /\ DOMAIN table = Limiter
        /\ pc \in [Attempt -> {"idle", "ip", "done", "throttled"}]
        /\ caller \in [Attempt -> Caller \cup {<<>>}]
        /\ admitted \in [Limiter -> SUBSET Admission]
    BY DEF UnlockInv, TypeOK
  <2>1. ASSUME now' \in Nat, boot' \in Nat, DOMAIN table' = Limiter,
               pc' \in [Attempt -> {"idle", "ip", "done", "throttled"}],
               caller' \in [Attempt -> Caller \cup {<<>>}],
               admitted' \in [Limiter -> SUBSET Admission],
               \A a \in Attempt : pc'[a] = "ip" => caller'[a] \in Slug \X IP,
               \A l \in Limiter : LimiterInv(l)'
        PROVE  UnlockInv'
    <3>1. ASSUME NEW l \in Limiter
          PROVE  /\ DOMAIN table'[l] \subseteq LimitKeys
                 /\ Cardinality(DOMAIN table'[l]) <= MaxKeys
                 /\ \A k \in DOMAIN table'[l] : table'[l][k] \subseteq Event
      BY <2>1 DEF LimiterInv, TableType
    <3>2. TypeOK'
      BY <2>1, <3>1 DEF TypeOK
    <3> QED BY <2>1, <3>2 DEF UnlockInv
  <2>2. ASSUME NEW a \in Attempt, NEW c \in Caller, UnlockShare(a, c)
        PROVE  UnlockInv'
    <3>1. caller' = [caller EXCEPT ![a] = c]
      BY <2>2 DEF UnlockShare, Send
    <3>2. CASE c[1] \in Slug /\ Charge("perSlug", a, c, "ip")
      <4>1. c \in Slug \X IP
        BY <3>2 DEF Caller
      <4>2. /\ DOMAIN table' = Limiter
            /\ admitted' \in [Limiter -> SUBSET Admission]
            /\ \A l \in Limiter : LimiterInv(l)'
        BY <3>2, <4>1, KeysValid, ChargeKeeps DEF Limiter
      <4>3. /\ now' = now /\ boot' = boot
            /\ \E x \in {"ip", "throttled"} : pc' = [pc EXCEPT ![a] = x]
        BY <3>2 DEF Charge, Goto
      <4>4. \A q \in Attempt : pc'[q] = "ip" => caller'[q] \in Slug \X IP
        BY <2>0, <3>1, <4>1, <4>3 DEF UnlockInv
      <4> QED BY <2>0, <2>1, <3>1, <4>2, <4>3, <4>4
    <3>3. CASE Goto(a, "done") /\ UNCHANGED <<now, boot, table, admitted>>
      BY <2>0, <2>1, <3>1, <3>3 DEF Goto, UnlockInv, LimiterInv
    <3> QED BY <2>2, <3>2, <3>3 DEF UnlockShare
  <2>3. ASSUME NEW a \in Attempt, NEW c \in Caller, RateLimitByIP(a, c)
        PROVE  UnlockInv'
    <3>1. caller' = [caller EXCEPT ![a] = c] /\ Charge("byIP", a, c, "done")
      BY <2>3 DEF RateLimitByIP, Send
    <3>2. /\ DOMAIN table' = Limiter
          /\ admitted' \in [Limiter -> SUBSET Admission]
          /\ \A l \in Limiter : LimiterInv(l)'
      BY <3>1, KeysValid, ChargeKeeps DEF Limiter
    <3>3. /\ now' = now /\ boot' = boot
          /\ \E x \in {"done", "throttled"} : pc' = [pc EXCEPT ![a] = x]
      BY <3>1 DEF Charge, Goto
    <3> QED BY <2>0, <2>1, <3>1, <3>2, <3>3 DEF UnlockInv
  <2>4. ASSUME NEW a \in Attempt, ChargeAddress(a) PROVE UnlockInv'
    <3>1. caller' = caller /\ Charge("perIP", a, caller[a], "done") /\ pc[a] = "ip"
      BY <2>4 DEF ChargeAddress
    <3>2. caller[a] \in Slug \X IP
      BY <3>1 DEF UnlockInv
    <3>3. /\ DOMAIN table' = Limiter
          /\ admitted' \in [Limiter -> SUBSET Admission]
          /\ \A l \in Limiter : LimiterInv(l)'
      BY <3>1, <3>2, KeysValid, ChargeKeeps DEF Limiter
    <3>4. /\ now' = now /\ boot' = boot
          /\ \E x \in {"done", "throttled"} : pc' = [pc EXCEPT ![a] = x]
      BY <3>1 DEF Charge, Goto
    <3> QED BY <2>0, <2>1, <3>1, <3>3, <3>4 DEF UnlockInv
  <2>5. CASE Restart
    <3>1. /\ boot' = boot + 1 /\ now' = now /\ admitted' = admitted
          /\ caller' = caller
          /\ table' = [l \in Limiter |-> <<>>]
          /\ pc' = [a \in Attempt |-> IF pc[a] = "ip" THEN "done" ELSE pc[a]]
      BY <2>5 DEF Restart
    <3>2. ASSUME NEW l \in Limiter PROVE LimiterInv(l)'
      <4>1. Past(admitted[l], boot, now) /\ Bounded(admitted[l], Limit[l], boot, now)
        BY DEF UnlockInv, LimiterInv
      <4>2. /\ TableType(<<>>)
            /\ Past(admitted[l], boot + 1, now)
            /\ Mirrors(<<>>, admitted[l], boot + 1, now)
            /\ Bounded(admitted[l], Limit[l], boot + 1, now)
        BY <2>0, <4>1, Limits, RestartKeeps
      <4> QED BY <3>1, <4>2 DEF LimiterInv
    <3>3. pc' \in [Attempt -> {"idle", "ip", "done", "throttled"}]
      BY <2>0, <3>1
    <3>4. \A a \in Attempt : pc'[a] # "ip"
      BY <2>0, <3>1
    <3> QED BY <2>0, <2>1, <3>1, <3>2, <3>3, <3>4
  <2>6. CASE Tick
    <3>1. now' = now + 1 /\ UNCHANGED <<boot, table, pc, caller, admitted>>
      BY <2>6 DEF Tick
    <3>2. ASSUME NEW l \in Limiter PROVE LimiterInv(l)'
      BY <2>0, <3>1, Limits, LaterKeeps DEF UnlockInv, LimiterInv
    <3> QED BY <2>0, <2>1, <3>1, <3>2 DEF UnlockInv
  <2>7. CASE UNCHANGED vars
    BY <2>7 DEF vars, UnlockInv, TypeOK, LimiterInv
  <2> QED BY <2>2, <2>3, <2>4, <2>5, <2>6, <2>7 DEF Next
<1> QED BY <1>1, <1>2, PTL DEF Spec

(* The maps stay within their type and their size, whatever requests come. *)
THEOREM UnlockTypeCorrect == Spec => []TypeOK
BY UnlockInvariance, PTL DEF UnlockInv

(* No process lets more than the limit through in any window, on any key   *)
(* of any limiter, whatever the interleaving and whatever was evicted.     *)
THEOREM AttemptsAreBounded == Spec => []AttemptsBounded
<1>1. UnlockInv => AttemptsBounded
  BY DEF UnlockInv, LimiterInv, Bounded, AttemptsBounded, Within, Recent
<1> QED BY <1>1, UnlockInvariance, PTL

(* A key that no one uses is open again one window later.                  *)
THEOREM LockoutsEnd == Spec => []LockoutEnds
<1>1. UnlockInv => LockoutEnds
  <2> SUFFICES ASSUME UnlockInv, NEW l \in Limiter, NEW k \in LimitKeys
               PROVE  Allow(table[l], Limit[l], k,
                            [by |-> "later", at |-> now + Window]).ok
    BY DEF LockoutEnds
  <2>1. LimiterInv(l) /\ now \in Nat /\ boot \in Nat
    BY DEF UnlockInv, TypeOK
  <2> QED BY <2>1, Limits, Reopens DEF LimiterInv
<1> QED BY <1>1, UnlockInvariance, PTL

(* A refused charge has a reason.                                          *)
LEMMA ChargeRefusal ==
    ASSUME UnlockInv, NEW l \in Limiter, NEW a \in Attempt, NEW c,
           NEW next, next # "throttled", Charge(l, a, c, next),
           pc'[a] = "throttled"
    PROVE  \/ Cardinality(Within(l, LimitKey(l, c), boot, now)) >= Limit[l]
           \/ Cardinality({k \in LimitKeys : Within(l, k, boot, now) # {}}) >= MaxKeys
<1>1. /\ now \in Nat /\ boot \in Nat /\ Limit[l] \in Nat \ {0} /\ LimiterInv(l)
      /\ pc \in [Attempt -> {"idle", "ip", "done", "throttled"}]
  BY Limits DEF UnlockInv, TypeOK
<1>2. ~ Allow(table[l], Limit[l], LimitKey(l, c), [by |-> a, at |-> now]).ok
  BY <1>1 DEF Charge, Goto
<1>3. \A k : Recent(admitted[l], k, boot, now) = Within(l, k, boot, now)
  BY DEF Recent, Within
<1>4. BusyKeys(admitted[l], boot, now)
         = {k \in LimitKeys : Within(l, k, boot, now) # {}}
  BY <1>3 DEF BusyKeys
<1>5. \/ Cardinality(Recent(admitted[l], LimitKey(l, c), boot, now)) >= Limit[l]
      \/ Cardinality(BusyKeys(admitted[l], boot, now)) >= MaxKeys
  <2> DEFINE e == [by |-> a, at |-> now]
  <2>1. e.at = now /\ ~ Allow(table[l], Limit[l], LimitKey(l, c), e).ok
    BY <1>2
  <2>2. /\ TableType(table[l]) /\ Past(admitted[l], boot, now)
        /\ Mirrors(table[l], admitted[l], boot, now)
    BY <1>1 DEF LimiterInv
  <2> HIDE DEF e
  <2> QED BY <1>1, <2>1, <2>2, RefusalReason
<1> QED BY <1>3, <1>4, <1>5

(* The limiters that may refuse a request at label.                        *)
Refusers(label) == IF label = "ip" THEN {"perIP"} ELSE {"perSlug", "byIP"}

(* Only its own charge refuses a request.                                  *)
LEMMA OwnRefusal ==
    ASSUME UnlockInv, [Next]_vars, NEW a \in Attempt,
           pc[a] # "throttled", pc'[a] = "throttled"
    PROVE  \E l \in Refusers(pc[a]), next \in {"ip", "done"} :
              Charge(l, a, caller'[a], next)
<1>0. /\ pc \in [Attempt -> {"idle", "ip", "done", "throttled"}]
      /\ caller \in [Attempt -> Caller \cup {<<>>}]
  BY DEF UnlockInv, TypeOK
<1>1. ASSUME NEW q \in Attempt, NEW c \in Caller, UnlockShare(q, c)
      PROVE  /\ pc[a] = "idle"
             /\ caller'[a] = c /\ Charge("perSlug", a, c, "ip")
  <2>1. caller' = [caller EXCEPT ![q] = c]
    BY <1>1 DEF UnlockShare, Send
  <2>2. \E x : pc' = [pc EXCEPT ![q] = x]
    BY <1>1 DEF UnlockShare, Charge, Goto
  <2>3. q = a
    BY <1>0, <2>2
  <2>4. ~ Goto(a, "done")
    BY <1>0 DEF Goto
  <2> QED BY <1>0, <1>1, <2>1, <2>3, <2>4 DEF UnlockShare, Send
<1>2. ASSUME NEW q \in Attempt, NEW c \in Caller, RateLimitByIP(q, c)
      PROVE  /\ pc[a] = "idle"
             /\ caller'[a] = c /\ Charge("byIP", a, c, "done")
  <2>1. /\ caller' = [caller EXCEPT ![q] = c]
        /\ \E x : pc' = [pc EXCEPT ![q] = x]
    BY <1>2 DEF RateLimitByIP, Send, Charge, Goto
  <2>2. q = a
    BY <1>0, <2>1
  <2> QED BY <1>0, <1>2, <2>1, <2>2 DEF RateLimitByIP, Send
<1>3. ASSUME NEW q \in Attempt, ChargeAddress(q)
      PROVE  /\ pc[a] = "ip"
             /\ caller'[a] = caller[a] /\ Charge("perIP", a, caller[a], "done")
  <2>1. caller' = caller /\ \E x : pc' = [pc EXCEPT ![q] = x]
    BY <1>3 DEF ChargeAddress, Charge, Goto
  <2>2. q = a
    BY <1>0, <2>1
  <2> QED BY <1>3, <2>1, <2>2 DEF ChargeAddress
<1>4. ~ (Restart \/ Tick \/ UNCHANGED vars)
  BY <1>0 DEF Restart, Tick, vars
<1> QED BY <1>1, <1>2, <1>3, <1>4 DEF Next, Refusers

(* A 429 has a reason of the limiter that gave it: a limit used up by      *)
(* requests that were let through within the last window, or a map full of *)
(* such keys.                                                              *)
THEOREM RefusalsAreJustified == Spec => RefusalJustified
<1>1. UnlockInv /\ [Next]_vars =>
        \A a \in Attempt :
           pc[a] # "throttled" /\ pc'[a] = "throttled" =>
             \E l \in Refusers(pc[a]) :
               \/ Cardinality(Within(l, LimitKey(l, caller'[a]), boot, now))
                      >= Limit[l]
               \/ Cardinality({k \in LimitKeys : Within(l, k, boot, now) # {}})
                      >= MaxKeys
  <2> SUFFICES ASSUME UnlockInv, [Next]_vars, NEW a \in Attempt,
                      pc[a] # "throttled", pc'[a] = "throttled"
               PROVE  \E l \in Refusers(pc[a]) :
                        \/ Cardinality(Within(l, LimitKey(l, caller'[a]), boot, now))
                               >= Limit[l]
                        \/ Cardinality({k \in LimitKeys : Within(l, k, boot, now) # {}})
                               >= MaxKeys
    OBVIOUS
  <2>1. PICK l \in Refusers(pc[a]), next \in {"ip", "done"} :
               Charge(l, a, caller'[a], next)
    BY OwnRefusal
  <2>0. l \in Limiter
    BY DEF Refusers, Limiter
  <2>2. ASSUME NEW c, c = caller'[a]
        PROVE  \/ Cardinality(Within(l, LimitKey(l, c), boot, now)) >= Limit[l]
               \/ Cardinality({k \in LimitKeys : Within(l, k, boot, now) # {}})
                     >= MaxKeys
    BY <2>0, <2>1, <2>2, ChargeRefusal
  <2> QED BY <2>2
<1> QED BY <1>1, UnlockInvariance, PTL DEF Spec, RefusalJustified, Refusers
=============================================================================
