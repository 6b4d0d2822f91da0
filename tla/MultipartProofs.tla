-------------------------- MODULE MultipartProofs --------------------------
(***************************************************************************)
(* Theorems about Multipart for any sizes, any page size, any number of    *)
(* parts and of concurrent Complete and Abort calls.                       *)
(*                                                                         *)
(* The size cap is about sums of part sizes that are added up page by      *)
(* page, so the first half of the module is what Bytes adds up to.  The    *)
(* induction principles of the library take an operator as a parameter;    *)
(* here induction is over a set: the counterexamples, if there are any,    *)
(* have a least one.                                                       *)
(***************************************************************************)
EXTENDS Multipart, FiniteSetTheorems, SequenceTheorems, WellFoundedInduction, TLAPS

(* A non-empty set of naturals has a least element.                        *)
LEMMA LeastNat ==
    ASSUME NEW T \in SUBSET Nat, T # {}
    PROVE  \E m \in T : \A k \in T : m <= k
<1> DEFINE R == OpToRel(<, Nat)
<1>1. IsWellFoundedOn(R, Nat)
  BY NatLessThanWellFounded
<1>2. \A x, y \in Nat : x < y => <<x, y>> \in R
  BY DEF OpToRel
<1> HIDE DEF R
<1>3. PICK x \in T : \A y \in T : <<y, x>> \notin R
  BY <1>1, WFMin
<1>4. ASSUME NEW y \in T PROVE x <= y
  <2>1. ~ (y < x)
    BY <1>2, <1>3
  <2> QED BY <2>1
<1> QED BY <1>4

(* Induction over the naturals, for the members of a set.                  *)
LEMMA InductionOverNat ==
    ASSUME NEW G, 0 \in G, \A n \in Nat : n \in G => n + 1 \in G
    PROVE  \A n \in Nat : n \in G
<1> DEFINE T == Nat \ G
<1> SUFFICES ASSUME T # {} PROVE FALSE
  OBVIOUS
<1>1. PICK m \in T : \A k \in T : m <= k
  <2>1. T \in SUBSET Nat
    OBVIOUS
  <2> HIDE DEF T
  <2> QED BY <2>1, LeastNat
<1>2. m \in Nat /\ m # 0 /\ m \notin G
  OBVIOUS
<1>3. m - 1 \in Nat /\ ~ (m <= m - 1) /\ (m - 1) + 1 = m
  BY <1>2
<1>4. m - 1 \notin T
  BY <1>1, <1>3
<1>5. m - 1 \in G
  BY <1>3, <1>4
<1> QED BY <1>2, <1>3, <1>5

(* A non-empty set of subsets of a finite set has a minimal element.       *)
LEMMA MinimalSet ==
    ASSUME NEW S, IsFiniteSet(S), NEW T \in SUBSET (SUBSET S), T # {}
    PROVE  \E s \in T : \A r \in T : r \subseteq s => r = s
<1> DEFINE R == StrictSubsetOrdering(S)
<1>1. IsWellFoundedOn(R, SUBSET S)
  BY FS_StrictSubsetOrderingWellFounded, FS_FiniteSubsetsOfFinite
<1>2. \A r, s \in SUBSET S : r \subseteq s /\ r # s => <<r, s>> \in R
  BY DEF StrictSubsetOrdering
<1> HIDE DEF R
<1>3. PICK s \in T : \A r \in T : <<r, s>> \notin R
  BY <1>1, WFMin
<1> QED BY <1>2, <1>3

(* A non-empty bounded set of naturals has a greatest element.             *)
LEMMA GreatestNat ==
    ASSUME NEW T \in SUBSET Nat, T # {}, NEW n \in Nat, \A k \in T : k <= n
    PROVE  Max(T) \in T /\ \A k \in T : k <= Max(T)
<1> DEFINE B == {i \in Nat : \A k \in T : k <= i}
<1>1. PICK m \in B : \A i \in B : m <= i
  <2>1. B \in SUBSET Nat /\ n \in B
    OBVIOUS
  <2> HIDE DEF B
  <2> QED BY <2>1, LeastNat
<1>2. m \in T
  <2> SUFFICES ASSUME m \notin T PROVE FALSE
    OBVIOUS
  <2>1. m \in Nat
    OBVIOUS
  <2>2. ASSUME NEW k \in T PROVE k \in Nat /\ k < m
    <3>1. k <= m /\ k # m
      BY <1>1
    <3> QED BY <2>1, <3>1
  <2>3. PICK j \in T : TRUE
    OBVIOUS
  <2>4. m - 1 \in Nat
    BY <2>1, <2>2, <2>3
  <2>5. \A k \in T : k <= m - 1
    BY <2>1, <2>2
  <2>6. m - 1 \in B
    BY <2>4, <2>5
  <2> QED BY <1>1, <2>1, <2>6
<1>3. \A k \in T : m >= k
  BY <1>1
<1> QED BY <1>2, <1>3 DEF Max

-----------------------------------------------------------------------------

(* The element that a sum over s takes first.                              *)
First(s) == CHOOSE x \in s : TRUE

(* g sums f over s: g is a function of sets, s one of them.                *)
SumEq(g, f, s) == g[s] = IF s = {} THEN 0 ELSE f[First(s)] + g[s \ {First(s)}]

Sums(f, S) ==
    CHOOSE g : g = [s \in SUBSET S |->
                      IF s = {} THEN 0 ELSE f[First(s)] + g[s \ {First(s)}]]

LEMMA BytesIsSum == ASSUME NEW f PROVE Bytes(f) = Sums(f, DOMAIN f)[DOMAIN f]
BY DEF Bytes, MapThenSumSet, MapThenFoldSet, Sums, First

(* Two sums of the same numbers agree.                                     *)
LEMMA SumsAgree ==
    ASSUME NEW R, IsFiniteSet(R), NEW f, NEW h, \A x \in R : f[x] = h[x],
           NEW g, \A s \in SUBSET R : SumEq(g, f, s),
           NEW k, \A s \in SUBSET R : SumEq(k, h, s)
    PROVE  \A s \in SUBSET R : g[s] = k[s]
<1> DEFINE T == {s \in SUBSET R : g[s] # k[s]}
<1> SUFFICES ASSUME T # {} PROVE FALSE
  OBVIOUS
<1>1. PICK s \in T : \A r \in T : r \subseteq s => r = s
  <2>1. T \in SUBSET (SUBSET R)
    OBVIOUS
  <2> HIDE DEF T
  <2> QED BY <2>1, MinimalSet
<1>2. s # {}
  BY DEF SumEq
<1>3. First(s) \in s /\ First(s) \in R
  BY <1>2 DEF First
<1>4. s \ {First(s)} \notin T
  BY <1>1, <1>3
<1>5. g[s \ {First(s)}] = k[s \ {First(s)}]
  BY <1>4
<1> QED BY <1>2, <1>3, <1>5 DEF SumEq

(* The recursion of a sum over a finite set has a solution.                *)
LEMMA SumsExist ==
    ASSUME NEW S, IsFiniteSet(S), NEW f \in [S -> Nat]
    PROVE  \E g \in [SUBSET S -> Nat] : \A s \in SUBSET S : SumEq(g, f, s)
<1> DEFINE Upto(g, n) ==
             \A s \in SUBSET S : Cardinality(s) <= n => SumEq(g, f, s)
           Good == {n \in Nat : \E g \in [SUBSET S -> Nat] : Upto(g, n)}
<1>1. \A s \in SUBSET S : IsFiniteSet(s) /\ Cardinality(s) \in Nat
                          /\ Cardinality(s) <= Cardinality(S)
  BY FS_Subset, FS_CardinalityType
<1>2. Cardinality(S) \in Nat
  BY FS_CardinalityType
<1>3. 0 \in Good
  <2> DEFINE g == [s \in SUBSET S |-> 0]
  <2>1. g \in [SUBSET S -> Nat]
    OBVIOUS
  <2>2. ASSUME NEW s \in SUBSET S, Cardinality(s) <= 0 PROVE SumEq(g, f, s)
    <3>1. s = {}
      BY <1>1, <2>2, FS_EmptySet
    <3> QED BY <3>1 DEF SumEq
  <2> QED BY <2>1, <2>2
<1>4. ASSUME NEW n \in Nat, n \in Good PROVE n + 1 \in Good
  <2>1. PICK g \in [SUBSET S -> Nat] : Upto(g, n)
    BY <1>4
  <2> DEFINE h == [s \in SUBSET S |->
                     IF Cardinality(s) <= n THEN g[s]
                     ELSE IF s = {} THEN 0 ELSE f[First(s)] + g[s \ {First(s)}]]
  <2>2. ASSUME NEW s \in SUBSET S, s # {}
        PROVE  /\ First(s) \in s /\ f[First(s)] \in Nat
               /\ s \ {First(s)} \in SUBSET S
               /\ Cardinality(s \ {First(s)}) = Cardinality(s) - 1
    <3>1. First(s) \in s
      BY <2>2 DEF First
    <3> QED BY <1>1, <3>1, FS_RemoveElement
  <2>3. h \in [SUBSET S -> Nat]
    <3>1. ASSUME NEW s \in SUBSET S PROVE h[s] \in Nat
      <4>1. CASE s = {} \/ Cardinality(s) <= n
        BY <4>1
      <4>2. CASE s # {} /\ ~ Cardinality(s) <= n
        <5>1. f[First(s)] \in Nat /\ g[s \ {First(s)}] \in Nat
          BY <4>2, <2>2
        <5>2. h[s] = f[First(s)] + g[s \ {First(s)}]
          BY <4>2
        <5> QED BY <5>1, <5>2
      <4> QED BY <4>1, <4>2
    <3> QED BY <3>1
  <2>4. ASSUME NEW s \in SUBSET S, Cardinality(s) <= n + 1 PROVE SumEq(h, f, s)
    <3>1. CASE s = {}
      <4>1. Cardinality(s) <= n
        BY <3>1, FS_EmptySet
      <4> QED BY <2>1, <3>1, <4>1 DEF SumEq
    <3>2. CASE s # {}
      <4> DEFINE r == s \ {First(s)}
      <4>1. r \in SUBSET S /\ Cardinality(r) <= n
        BY <1>1, <2>2, <2>4, <3>2
      <4>2. h[r] = g[r]
        BY <4>1
      <4>3. CASE Cardinality(s) <= n
        <5>1. h[s] = g[s] /\ SumEq(g, f, s)
          BY <2>1, <4>3
        <5> QED BY <3>2, <4>2, <5>1 DEF SumEq
      <4>4. CASE ~ Cardinality(s) <= n
        <5>1. h[s] = f[First(s)] + g[r]
          BY <3>2, <4>4
        <5> QED BY <3>2, <4>2, <5>1 DEF SumEq
      <4> QED BY <4>3, <4>4
    <3> QED BY <3>1, <3>2
  <2>5. Upto(h, n + 1)
    BY <2>4
  <2> HIDE DEF h, Upto
  <2> QED BY <2>3, <2>5
<1>5. \A n \in Nat : n \in Good
  <2> HIDE DEF Good
  <2> QED BY <1>3, <1>4, InductionOverNat
<1>6. PICK g \in [SUBSET S -> Nat] : Upto(g, Cardinality(S))
  BY <1>2, <1>5
<1> QED BY <1>1, <1>6

(* A sum may start with any element.                                       *)
AnyFirst(g, f, s) == \A x \in s : g[s] = f[x] + g[s \ {x}]

LEMMA SumAnyFirst ==
    ASSUME NEW S, IsFiniteSet(S), NEW f \in [S -> Nat],
           NEW g \in [SUBSET S -> Nat], \A s \in SUBSET S : SumEq(g, f, s)
    PROVE  \A s \in SUBSET S : AnyFirst(g, f, s)
<1> DEFINE T == {s \in SUBSET S : \E x \in s : g[s] # f[x] + g[s \ {x}]}
<1> SUFFICES ASSUME T # {} PROVE FALSE
  BY DEF AnyFirst
<1>1. PICK s \in T : \A r \in T : r \subseteq s => r = s
  <2>1. T \in SUBSET (SUBSET S)
    OBVIOUS
  <2> HIDE DEF T
  <2> QED BY <2>1, MinimalSet
<1>2. PICK x \in s : g[s] # f[x] + g[s \ {x}]
  OBVIOUS
<1>3. s \in SUBSET S
  OBVIOUS
<1> DEFINE y == First(s)
<1>4. y \in s
  BY <1>2 DEF First
<1>5. g[s] = f[y] + g[s \ {y}]
  BY <1>2, <1>3 DEF SumEq
<1>6. x # y
  BY <1>2, <1>5
<1> HIDE DEF y
<1>7. s \ {x} \notin T /\ s \ {y} \notin T
  BY <1>1, <1>4
<1>8. /\ g[s \ {x}] = f[y] + g[(s \ {x}) \ {y}]
      /\ g[s \ {y}] = f[x] + g[(s \ {y}) \ {x}]
  BY <1>3, <1>4, <1>6, <1>7
<1>9. (s \ {x}) \ {y} = (s \ {y}) \ {x} /\ (s \ {x}) \ {y} \in SUBSET S
  BY <1>3
<1>10. f[x] \in Nat /\ f[y] \in Nat /\ g[(s \ {x}) \ {y}] \in Nat
  BY <1>3, <1>4, <1>9
<1>11. \A a, b, c \in Nat : a + (b + c) = b + (a + c)
  OBVIOUS
<1>12. PICK c \in Nat : g[s \ {x}] = f[y] + c /\ g[s \ {y}] = f[x] + c
  BY <1>8, <1>9, <1>10
<1>13. g[s] = f[y] + (f[x] + c) /\ f[y] + (f[x] + c) = f[x] + (f[y] + c)
  BY <1>5, <1>10, <1>11, <1>12
<1> QED BY <1>2, <1>12, <1>13

-----------------------------------------------------------------------------

(* The bytes of the parts s of f.                                          *)
BytesOf(f, s) == Bytes([p \in s |-> f[p]])

(* What makes it a sum: no part is no bytes, and any part counts once.     *)
SumsUp(f, s) ==
    /\ BytesOf(f, s) \in Nat
    /\ s = {} => BytesOf(f, s) = 0
    /\ \A p \in s : BytesOf(f, s) = f[p] + BytesOf(f, s \ {p})

(* Bytes sums up the subsets of a finite set of parts.                     *)
LEMMA BytesOfSubsets ==
    ASSUME NEW S, IsFiniteSet(S), NEW f, \A p \in S : f[p] \in Nat
    PROVE  \A s \in SUBSET S : SumsUp(f, s)
<1> DEFINE h == [p \in S |-> f[p]]
<1>1. h \in [S -> Nat]
  OBVIOUS
<1>2. PICK g \in [SUBSET S -> Nat] : \A s \in SUBSET S : SumEq(g, h, s)
  BY <1>1, SumsExist
<1>3. \A s \in SUBSET S : \A p \in s : g[s] = h[p] + g[s \ {p}]
  <2>1. \A s \in SUBSET S : AnyFirst(g, h, s)
    <3> HIDE DEF h
    <3> QED BY <1>1, <1>2, SumAnyFirst
  <2> HIDE DEF h
  <2> QED BY <2>1 DEF AnyFirst
<1>4. g[{}] = 0
  BY <1>2 DEF SumEq
<1>5. ASSUME NEW s \in SUBSET S PROVE BytesOf(f, s) = g[s]
  <2> DEFINE k == [p \in s |-> f[p]]
             G(q) == [r \in SUBSET s |->
                        IF r = {} THEN 0 ELSE k[First(r)] + q[r \ {First(r)}]]
  <2>1. IsFiniteSet(s) /\ k \in [s -> Nat] /\ DOMAIN k = s
    BY FS_Subset
  <2>2. PICK q \in [SUBSET s -> Nat] : \A r \in SUBSET s : SumEq(q, k, r)
    <3> HIDE DEF k
    <3> QED BY <2>1, SumsExist
  <2>3. q = G(q)
    BY <2>2 DEF SumEq
  <2>4. Sums(k, s) = G(Sums(k, s))
    BY <2>3 DEF Sums
  <2>5. \A r \in SUBSET s : SumEq(Sums(k, s), k, r)
    BY <2>4 DEF SumEq
  <2>6. \A p \in s : h[p] = k[p]
    OBVIOUS
  <2>7. \A r \in SUBSET s : SumEq(g, h, r)
    BY <1>2
  <2>8. g[s] = Sums(k, s)[s]
    <3> HIDE DEF k, h
    <3> QED BY <2>1, <2>5, <2>6, <2>7, SumsAgree
  <2>9. BytesOf(f, s) = Sums(k, s)[s]
    BY <2>1, BytesIsSum DEF BytesOf
  <2> QED BY <2>8, <2>9
<1>6. \A s \in SUBSET S : \A p \in s : h[p] = f[p] /\ s \ {p} \in SUBSET S
  OBVIOUS
<1> HIDE DEF h
<1>7. ASSUME NEW s \in SUBSET S
      PROVE  SumsUp(f, s)
  <2>1. BytesOf(f, s) \in Nat /\ (s = {} => BytesOf(f, s) = 0)
    BY <1>4, <1>5
  <2>2. ASSUME NEW p \in s PROVE BytesOf(f, s) = f[p] + BytesOf(f, s \ {p})
    <3>1. s \ {p} \in SUBSET S /\ BytesOf(f, s) = g[s]
      BY <1>5
    <3>2. BytesOf(f, s \ {p}) = g[s \ {p}]
      BY <1>5, <3>1
    <3>3. g[s] = f[p] + g[s \ {p}]
      BY <1>3, <1>6
    <3> QED BY <3>1, <3>2, <3>3
  <2> QED BY <2>1, <2>2 DEF SumsUp
<1> QED BY <1>7

(* Disjoint sets of parts add up.                                          *)
LEMMA BytesAddUp ==
    ASSUME NEW A, IsFiniteSet(A), NEW B, IsFiniteSet(B), A \cap B = {},
           NEW f, \A p \in A \cup B : f[p] \in Nat
    PROVE  /\ BytesOf(f, A) \in Nat /\ BytesOf(f, B) \in Nat
           /\ BytesOf(f, A \cup B) = BytesOf(f, A) + BytesOf(f, B)
<1> DEFINE S == A \cup B
           T == {s \in SUBSET B :
                   BytesOf(f, A \cup s) # BytesOf(f, A) + BytesOf(f, s)}
<1>1. IsFiniteSet(S)
  BY FS_Union
<1>2. \A s \in SUBSET S : SumsUp(f, s)
  BY <1>1, BytesOfSubsets
<1>3. T = {}
  <2> SUFFICES ASSUME T # {} PROVE FALSE
    OBVIOUS
  <2>1. PICK s \in T : \A r \in T : r \subseteq s => r = s
    <3>1. T \in SUBSET (SUBSET B)
      OBVIOUS
    <3> HIDE DEF T
    <3> QED BY <3>1, MinimalSet
  <2>2. s \in SUBSET B /\ BytesOf(f, A \cup s) # BytesOf(f, A) + BytesOf(f, s)
    OBVIOUS
  <2>3. s # {}
    <3>1. BytesOf(f, {}) = 0 /\ BytesOf(f, A) \in Nat /\ A \cup {} = A
      BY <1>2 DEF SumsUp
    <3> QED BY <2>2, <3>1
  <2>4. PICK p \in s : TRUE
    BY <2>3
  <2>5. s \ {p} \notin T
    BY <2>1, <2>4
  <2>6. BytesOf(f, A \cup (s \ {p})) = BytesOf(f, A) + BytesOf(f, s \ {p})
    BY <2>2, <2>5
  <2>7. (A \cup s) \ {p} = A \cup (s \ {p}) /\ A \cup s \in SUBSET S
        /\ s \in SUBSET S /\ s \ {p} \in SUBSET S
    BY <2>2
  <2>8. /\ BytesOf(f, s) = f[p] + BytesOf(f, s \ {p})
        /\ BytesOf(f, A \cup s) = f[p] + BytesOf(f, A \cup (s \ {p}))
        /\ f[p] \in Nat /\ BytesOf(f, s \ {p}) \in Nat /\ BytesOf(f, A) \in Nat
    BY <1>2, <2>2, <2>7 DEF SumsUp
  <2>9. \A a, b, c \in Nat : a + (b + c) = b + (a + c)
    OBVIOUS
  <2> QED BY <2>2, <2>6, <2>8, <2>9
<1>4. B \notin T
  BY <1>3
<1> QED BY <1>2, <1>4 DEF SumsUp

(* Fewer parts are not more bytes.                                         *)
LEMMA BytesGrow ==
    ASSUME NEW B, IsFiniteSet(B), NEW A \in SUBSET B,
           NEW f, \A p \in B : f[p] \in Nat
    PROVE  /\ BytesOf(f, A) \in Nat /\ BytesOf(f, B) \in Nat
           /\ BytesOf(f, A) <= BytesOf(f, B)
<1>1. IsFiniteSet(A) /\ IsFiniteSet(B \ A) /\ A \cap (B \ A) = {}
  BY FS_Subset
<1>2. A \cup (B \ A) = B
  OBVIOUS
<1>3. /\ BytesOf(f, A) \in Nat /\ BytesOf(f, B \ A) \in Nat
      /\ BytesOf(f, B) = BytesOf(f, A) + BytesOf(f, B \ A)
  BY <1>1, <1>2, BytesAddUp
<1> QED BY <1>3

(* The bytes of a whole map, and of the same parts in another one.         *)
LEMMA BytesOfAll ==
    ASSUME NEW f, NEW S, f = [p \in S |-> f[p]]
    PROVE  Bytes(f) = BytesOf(f, S)
BY DEF BytesOf

LEMMA BytesOfSame ==
    ASSUME NEW f, NEW h, NEW s, \A p \in s : f[p] = h[p]
    PROVE  BytesOf(f, s) = BytesOf(h, s)
<1>1. [p \in s |-> f[p]] = [p \in s |-> h[p]]
  OBVIOUS
<1> QED BY <1>1 DEF BytesOf

-----------------------------------------------------------------------------

(* The parts a call has counted once its marker is m.                      *)
Listed(m) == {p \in DOMAIN held : p <= m}

Label == {"idle", "list", "abort", "finish", "ok", "aborted",
          "notfound", "toolarge", "badrequest", "error"}

(* What the bucket holds: sizes of parts that were presigned, so finitely  *)
(* many; an object only when the session is over.                          *)
BucketInv ==
    /\ urls \subseteq {p \in Part : p <= MaxParts}
    /\ DOMAIN held \subseteq urls
    /\ held = [p \in DOMAIN held |-> held[p]]
    /\ \A p \in DOMAIN held : held[p] \in Size
    /\ object # <<>> => session = "gone"

(* What a call knows.  It has counted at least the parts up to its marker, *)
(* and all of them when it goes on to complete, but for those that arrived *)
(* since it began.  A session that a caller was told is gone is gone.      *)
CallInv(c) ==
    /\ pc[c] = "idle" => marker[c] = 0 /\ total[c] = 0
    /\ pc[c] = "list" => BytesOf(held, Listed(marker[c]) \ late[c]) <= total[c]
    /\ pc[c] = "finish"
         => BytesOf(held, DOMAIN held \ late[c]) <= MaxUploadBytes
    /\ pc[c] \in {"notfound", "aborted"} => session = "gone"

MultipartInv ==
    /\ BucketInv
    /\ pc \in [Call -> Label]
    /\ want \in [Call -> Parts]
    /\ marker \in [Call -> Nat]
    /\ total \in [Call -> Nat]
    /\ late \in [Call -> SUBSET Part]
    /\ \A c \in Call : CallInv(c)

(* The parts in the bucket are finitely many, each with a size.            *)
LEMMA HeldFinite ==
    ASSUME BucketInv
    PROVE  /\ IsFiniteSet(DOMAIN held) /\ DOMAIN held \in SUBSET Nat
           /\ \A p \in DOMAIN held : p <= MaxParts /\ held[p] \in Nat
<1>1. DOMAIN held \subseteq 0 .. MaxParts
  BY MultipartAssumption DEF BucketInv
<1>2. IsFiniteSet(0 .. MaxParts)
  BY MultipartAssumption, FS_Interval
<1>3. IsFiniteSet(DOMAIN held)
  BY <1>1, <1>2, FS_Subset
<1> QED BY <1>1, <1>3, MultipartAssumption DEF BucketInv

(* A page follows what was listed before and leaves no gap; when there is  *)
(* more to list it is not empty, and its last part is the next marker.     *)
LEMMA PageFollows ==
    ASSUME BucketInv, NEW m \in Nat
    PROVE  /\ Page(m) \in SUBSET DOMAIN held /\ Listed(m) \in SUBSET DOMAIN held
           /\ Listed(m) \cap Page(m) = {}
           /\ Truncated(m) =>
                /\ Max(Page(m)) \in Page(m)
                /\ Listed(m) \cup Page(m) = Listed(Max(Page(m)))
           /\ ~ Truncated(m) => Listed(m) \cup Page(m) = DOMAIN held
<1> DEFINE Upto(p) == {q \in DOMAIN held : m < q /\ q <= p}
<1>0. /\ IsFiniteSet(DOMAIN held) /\ DOMAIN held \in SUBSET Nat
      /\ \A p \in DOMAIN held : p <= MaxParts
      /\ MaxParts \in Nat /\ PageSize \in Nat /\ PageSize >= 1
  BY HeldFinite, MultipartAssumption
<1>1. /\ Page(m) \in SUBSET DOMAIN held /\ Listed(m) \in SUBSET DOMAIN held
      /\ Listed(m) \cap Page(m) = {}
  BY <1>0 DEF Page, Listed
<1>2. ASSUME ~ Truncated(m) PROVE Listed(m) \cup Page(m) = DOMAIN held
  BY <1>0, <1>1, <1>2 DEF Truncated, Listed
<1>3. ASSUME Truncated(m)
      PROVE  /\ Max(Page(m)) \in Page(m)
             /\ Listed(m) \cup Page(m) = Listed(Max(Page(m)))
  <2> DEFINE T == {q \in DOMAIN held : m < q}
  <2>1. T \in SUBSET Nat /\ T # {}
    BY <1>0, <1>3 DEF Truncated
  <2>2. PICK x \in T : \A k \in T : x <= k
    <3> HIDE DEF T
    <3> QED BY <2>1, LeastNat
  <2>3. Upto(x) = {x}
    BY <1>0, <2>2
  <2>4. Cardinality(Upto(x)) = 1
    BY <2>3, FS_Singleton
  <2>5. x \in Page(m)
    BY <1>0, <2>4 DEF Page
  <2>6. Page(m) \in SUBSET Nat /\ \A k \in Page(m) : k <= MaxParts
    BY <1>0, <1>1
  <2> DEFINE z == Max(Page(m))
  <2>7. z \in Page(m) /\ \A k \in Page(m) : k <= z
    BY <1>0, <2>5, <2>6, GreatestNat
  <2>8. m < z /\ z \in Nat /\ z \in DOMAIN held /\ Cardinality(Upto(z)) <= PageSize
    BY <2>6, <2>7 DEF Page
  <2> HIDE DEF z
  <2>9. ASSUME NEW p \in DOMAIN held, m < p, p <= z PROVE p \in Page(m)
    <3>1. Upto(p) \in SUBSET Upto(z) /\ Upto(z) \in SUBSET DOMAIN held
      BY <1>0, <2>8, <2>9
    <3>2. IsFiniteSet(Upto(z)) /\ IsFiniteSet(Upto(p))
      BY <1>0, <3>1, FS_Subset
    <3>3. Cardinality(Upto(p)) <= Cardinality(Upto(z))
      BY <3>1, <3>2, FS_Subset
    <3>4. Cardinality(Upto(p)) \in Nat /\ Cardinality(Upto(z)) \in Nat
      BY <3>2, FS_CardinalityType
    <3>5. Cardinality(Upto(p)) <= PageSize
      <4> HIDE DEF Upto
      <4> QED BY <1>0, <2>8, <3>3, <3>4
    <3> QED BY <2>9, <3>5 DEF Page
  <2>10. Listed(m) \cup Page(m) = Listed(z)
    <3>1. ASSUME NEW p \in DOMAIN held
          PROVE  p \in Listed(m) \cup Page(m) <=> p \in Listed(z)
      <4>1. p \in Nat
        BY <1>0
      <4>2. CASE p <= m
        BY <4>1, <4>2, <2>8 DEF Listed
      <4>3. CASE m < p
        BY <4>1, <4>3, <2>7, <2>9 DEF Listed
      <4> QED BY <4>1, <4>2, <4>3
    <3> QED BY <1>1, <3>1 DEF Listed
  <2> QED BY <2>7, <2>10 DEF z
<1> QED BY <1>1, <1>2, <1>3

(* A page adds at least its bytes outside L to what was counted outside L. *)
LEMMA PageCounts ==
    ASSUME BucketInv, NEW m \in Nat, NEW L
    PROVE  /\ BytesOf(held, Page(m)) \in Nat
           /\ BytesOf(held, Listed(m) \ L) \in Nat
           /\ Truncated(m) => /\ BytesOf(held, Listed(Max(Page(m))) \ L) \in Nat
                              /\ BytesOf(held, Listed(Max(Page(m))) \ L)
                                   <= BytesOf(held, Listed(m) \ L)
                                        + BytesOf(held, Page(m))
           /\ ~ Truncated(m) => /\ BytesOf(held, DOMAIN held \ L) \in Nat
                                /\ BytesOf(held, DOMAIN held \ L)
                                     <= BytesOf(held, Listed(m) \ L)
                                          + BytesOf(held, Page(m))
<1> DEFINE A == Listed(m) \ L
           B == Page(m) \ L
<1>1. /\ Page(m) \in SUBSET DOMAIN held /\ Listed(m) \in SUBSET DOMAIN held
      /\ Listed(m) \cap Page(m) = {}
      /\ Truncated(m) => Listed(m) \cup Page(m) = Listed(Max(Page(m)))
      /\ ~ Truncated(m) => Listed(m) \cup Page(m) = DOMAIN held
  BY PageFollows
<1>2. IsFiniteSet(DOMAIN held) /\ \A p \in DOMAIN held : held[p] \in Nat
  BY HeldFinite
<1>3. IsFiniteSet(Page(m)) /\ IsFiniteSet(A) /\ IsFiniteSet(B)
  BY <1>1, <1>2, FS_Subset
<1>4. A \cap B = {} /\ B \in SUBSET Page(m) /\ A \cup B \in SUBSET DOMAIN held
  BY <1>1
<1>5. /\ Truncated(m) => Listed(Max(Page(m))) \ L = A \cup B
      /\ ~ Truncated(m) => DOMAIN held \ L = A \cup B
  BY <1>1
<1>6. \A p \in A \cup B : held[p] \in Nat
  BY <1>2, <1>4
<1>7. \A p \in Page(m) : held[p] \in Nat
  BY <1>1, <1>2
<1> HIDE DEF A, B
<1>8. /\ BytesOf(held, A) \in Nat /\ BytesOf(held, B) \in Nat
      /\ BytesOf(held, A \cup B) = BytesOf(held, A) + BytesOf(held, B)
  BY <1>3, <1>4, <1>6, BytesAddUp
<1>9. /\ BytesOf(held, Page(m)) \in Nat
      /\ BytesOf(held, B) <= BytesOf(held, Page(m))
  BY <1>3, <1>4, <1>7, BytesGrow
<1>10. /\ BytesOf(held, A \cup B) \in Nat
       /\ BytesOf(held, A \cup B) <= BytesOf(held, A) + BytesOf(held, Page(m))
  BY <1>8, <1>9
<1> QED BY <1>5, <1>8, <1>9, <1>10 DEF A

(* A call that no step touches knows what it knew, as long as the parts in *)
(* the bucket stay the same.                                               *)
LEMMA OthersKeep ==
    ASSUME NEW c \in Call, CallInv(c), pc'[c] = pc[c], marker'[c] = marker[c],
           total'[c] = total[c], late'[c] = late[c], held' = held,
           session = "gone" => session' = "gone"
    PROVE  CallInv(c)'
BY DEF CallInv, Listed

(* A step of one call that moves it past counting.                         *)
LEMMA CallEnds ==
    ASSUME MultipartInv, NEW c \in Call,
           NEW l \in Label \ {"idle", "list", "finish"}, Goto(c, l),
           l \in {"notfound", "aborted"} => session' = "gone",
           session = "gone" => session' = "gone",
           UNCHANGED <<urls, held, want, marker, total, late>>,
           object' = object \/ session' = "gone"
    PROVE  MultipartInv'
<1>1. pc' = [pc EXCEPT ![c] = l] /\ pc' \in [Call -> Label]
  BY DEF Goto, MultipartInv
<1>2. ASSUME NEW d \in Call PROVE CallInv(d)'
  <2>1. CASE d = c
    BY <1>1, <2>1 DEF CallInv, MultipartInv
  <2>2. CASE d # c
    BY <1>1, <2>2, OthersKeep DEF MultipartInv
  <2> QED BY <2>1, <2>2
<1>3. BucketInv'
  BY DEF MultipartInv, BucketInv
<1> QED BY <1>1, <1>2, <1>3 DEF MultipartInv

LEMMA InitUploadKeeps ==
    ASSUME MultipartInv, NEW name, NEW size, InitUpload(name, size)
    PROVE  MultipartInv'
<1>1. /\ session = "none"
      /\ UNCHANGED <<urls, held, object, pc, want, marker, total, late>>
  BY DEF InitUpload
<1>2. ASSUME NEW d \in Call PROVE CallInv(d)'
  BY <1>1, OthersKeep DEF MultipartInv
<1>3. BucketInv'
  BY <1>1 DEF MultipartInv, BucketInv
<1> QED BY <1>1, <1>2, <1>3 DEF MultipartInv

LEMMA PresignPartKeeps ==
    ASSUME MultipartInv, NEW p \in Part, PresignPart(p)
    PROVE  MultipartInv'
<1>1. /\ urls' = urls \cup {p} /\ p <= MaxParts
      /\ UNCHANGED <<session, held, object, pc, want, marker, total, late>>
  BY DEF PresignPart
<1>2. ASSUME NEW d \in Call PROVE CallInv(d)'
  BY <1>1, OthersKeep DEF MultipartInv
<1>3. BucketInv'
  BY <1>1 DEF MultipartInv, BucketInv
<1> QED BY <1>1, <1>2, <1>3 DEF MultipartInv

(* A part that arrives is late for the calls under way, and for them the   *)
(* bytes of the other parts do not grow.                                   *)
LEMMA PutPartKeeps ==
    ASSUME MultipartInv, NEW p \in Part, NEW size \in Size, PutPart(p, size)
    PROVE  MultipartInv'
<1>1. /\ session = "open" /\ p \in urls
      /\ held' = [q \in DOMAIN held \cup {p} |-> IF q = p THEN size ELSE held[q]]
      /\ late' = [c \in Call |-> IF pc[c] \in {"list", "finish"}
                                 THEN late[c] \cup {p} ELSE late[c]]
      /\ UNCHANGED <<session, urls, object, pc, want, marker, total>>
  BY DEF PutPart
<1>2. ASSUME NEW d \in Call PROVE CallInv(d)'
  <2>0. CallInv(d) /\ BucketInv /\ total[d] \in Nat
    BY DEF MultipartInv
  <2>1. ASSUME pc[d] \in {"list", "finish"}, NEW S \in SUBSET DOMAIN held,
               NEW R, R = (S \cup {p}) \ late'[d] \/ R = S \ late'[d],
               NEW n \in Nat, BytesOf(held, S \ late[d]) <= n
        PROVE  BytesOf(held', R) <= n
    <3>1. late'[d] = late[d] \cup {p}
      BY <1>1, <2>1
    <3>2. R \in SUBSET (S \ late[d]) /\ p \notin R
      BY <2>1, <3>1
    <3>3. \A q \in R : held'[q] = held[q]
      BY <1>1, <3>2
    <3>4. BytesOf(held', R) = BytesOf(held, R)
      BY <3>3, BytesOfSame
    <3>5. /\ IsFiniteSet(S \ late[d])
          /\ \A q \in S \ late[d] : held[q] \in Nat
      BY <2>0, HeldFinite, FS_Subset
    <3>6. /\ BytesOf(held, R) \in Nat /\ BytesOf(held, S \ late[d]) \in Nat
          /\ BytesOf(held, R) <= BytesOf(held, S \ late[d])
      BY <3>2, <3>5, BytesGrow
    <3> QED BY <2>1, <3>4, <3>6
  <2>2. DOMAIN held' = DOMAIN held \cup {p}
    BY <1>1
  <2>3. ASSUME pc[d] = "list"
        PROVE  BytesOf(held', Listed(marker[d])' \ late'[d]) <= total[d]
    <3>1. Listed(marker[d]) \in SUBSET DOMAIN held
      BY DEF Listed
    <3>2. \/ Listed(marker[d])' \ late'[d] = Listed(marker[d]) \ late'[d]
          \/ Listed(marker[d])' \ late'[d] = (Listed(marker[d]) \cup {p}) \ late'[d]
      BY <1>1, <2>2 DEF Listed
    <3>3. BytesOf(held, Listed(marker[d]) \ late[d]) <= total[d]
      BY <2>0, <2>3 DEF CallInv
    <3> QED BY <2>0, <2>1, <2>3, <3>1, <3>2, <3>3
  <2>4. ASSUME pc[d] = "finish"
        PROVE  BytesOf(held', DOMAIN held' \ late'[d]) <= MaxUploadBytes
    <3>1. BytesOf(held, DOMAIN held \ late[d]) <= MaxUploadBytes
      BY <2>0, <2>4 DEF CallInv
    <3> QED BY <2>1, <2>2, <2>4, <3>1, MultipartAssumption
  <2>5. BytesOf(held, Listed(marker[d]) \ late[d])'
          = BytesOf(held', Listed(marker[d])' \ late'[d])
    BY DEF BytesOf
  <2>6. BytesOf(held, DOMAIN held \ late[d])'
          = BytesOf(held', DOMAIN held' \ late'[d])
    BY DEF BytesOf
  <2> QED BY <1>1, <2>0, <2>3, <2>4, <2>5, <2>6 DEF CallInv
<1>3. BucketInv'
  <2>1. DOMAIN held' = DOMAIN held \cup {p}
    BY <1>1
  <2>2. \A q \in DOMAIN held' : held'[q] \in Size
    BY <1>1 DEF MultipartInv, BucketInv
  <2>3. held' = [q \in DOMAIN held' |-> held'[q]]
    BY <1>1
  <2> QED BY <1>1, <2>1, <2>2, <2>3 DEF MultipartInv, BucketInv
<1>4. late' \in [Call -> SUBSET Part]
  BY <1>1 DEF MultipartInv
<1> QED BY <1>1, <1>2, <1>3, <1>4 DEF MultipartInv

LEMMA ExpireSessionKeeps ==
    ASSUME MultipartInv, ExpireSession
    PROVE  MultipartInv'
<1>1. /\ session' = "gone"
      /\ UNCHANGED <<urls, held, object, pc, want, marker, total, late>>
  BY DEF ExpireSession
<1>2. ASSUME NEW d \in Call PROVE CallInv(d)'
  BY <1>1, OthersKeep DEF MultipartInv
<1>3. BucketInv'
  BY <1>1 DEF MultipartInv, BucketInv
<1> QED BY <1>1, <1>2, <1>3 DEF MultipartInv

(* Complete starts with nothing counted.                                   *)
LEMMA CompleteKeeps ==
    ASSUME MultipartInv, NEW c \in Call, NEW parts \in Parts, Complete(c, parts)
    PROVE  MultipartInv'
<1>1. /\ pc[c] = "idle" /\ want' = [want EXCEPT ![c] = parts]
      /\ UNCHANGED <<session, urls, held, object, marker, total, late>>
  BY DEF Complete, sessionVars
<1>2. PICK l \in {"list", "badrequest"} : pc' = [pc EXCEPT ![c] = l]
  BY DEF Complete, Goto
<1>3. BytesOf(held, Listed(0) \ late[c]) = 0
  <2>1. Listed(0) \ late[c] = {}
    BY MultipartAssumption DEF MultipartInv, BucketInv, Listed
  <2> QED BY <2>1, FS_EmptySet, BytesOfSubsets DEF SumsUp
<1>4. ASSUME NEW d \in Call PROVE CallInv(d)'
  <2>1. CASE d = c
    <3>1. marker'[c] = 0 /\ total'[c] = 0 /\ pc'[c] = l /\ Listed(0)' = Listed(0)
      BY <1>1, <1>2 DEF MultipartInv, CallInv, Listed
    <3> QED BY <1>1, <1>2, <1>3, <2>1, <3>1 DEF CallInv, Listed
  <2>2. CASE d # c
    BY <1>1, <1>2, <2>2, OthersKeep DEF MultipartInv
  <2> QED BY <2>1, <2>2
<1>5. BucketInv'
  BY <1>1 DEF MultipartInv, BucketInv
<1> QED BY <1>1, <1>2, <1>4, <1>5 DEF MultipartInv, Label

(* A page more is counted; the last one decides.                           *)
LEMMA ListPartsKeeps ==
    ASSUME MultipartInv, NEW c \in Call, ListParts(c)
    PROVE  MultipartInv'
<1> DEFINE m == marker[c]
           sum == total[c] + BytesOf(held, Page(m))
<1>0. /\ pc[c] = "list" /\ m \in Nat /\ total[c] \in Nat /\ BucketInv /\ CallInv(c)
      /\ UNCHANGED <<session, urls, held, object, want, late>>
  BY DEF ListParts, MultipartInv, sessionVars
<1>1. /\ BytesOf(held, Page(m)) \in Nat
      /\ BytesOf(held, Listed(m) \ late[c]) \in Nat
      /\ Truncated(m) => /\ BytesOf(held, Listed(Max(Page(m))) \ late[c]) \in Nat
                         /\ BytesOf(held, Listed(Max(Page(m))) \ late[c])
                              <= BytesOf(held, Listed(m) \ late[c])
                                   + BytesOf(held, Page(m))
      /\ ~ Truncated(m) => /\ BytesOf(held, DOMAIN held \ late[c]) \in Nat
                           /\ BytesOf(held, DOMAIN held \ late[c])
                                <= BytesOf(held, Listed(m) \ late[c])
                                     + BytesOf(held, Page(m))
  BY <1>0, PageCounts
<1>2. sum \in Nat
  BY <1>0, <1>1
<1>3. BytesOf(held, Listed(m) \ late[c]) <= total[c]
  BY <1>0 DEF CallInv
<1>4. CASE NoSuchUpload(c) /\ UNCHANGED <<marker, total>>
  BY <1>0, <1>4, CallEnds DEF NoSuchUpload, Label
<1>5. CASE Failed(c) /\ UNCHANGED <<marker, total>>
  BY <1>0, <1>5, CallEnds DEF Failed, Label
<1>6. CASE /\ total' = [total EXCEPT ![c] = sum]
           /\ Truncated(m)
           /\ marker' = [marker EXCEPT ![c] = Max(Page(m))]
           /\ UNCHANGED pc
  <2>1. Max(Page(m)) \in Nat
    BY <1>0, <1>6, PageFollows, HeldFinite
  <2>2. total' \in [Call -> Nat] /\ marker' \in [Call -> Nat]
    BY <1>2, <1>6, <2>1 DEF MultipartInv
  <2>3. ASSUME NEW d \in Call PROVE CallInv(d)'
    <3>1. CASE d = c
      <4>1. total'[c] = sum /\ marker'[c] = Max(Page(m)) /\ pc'[c] = "list"
        BY <1>0, <1>6 DEF MultipartInv
      <4>2. BytesOf(held, Listed(Max(Page(m))) \ late[c]) <= sum
        BY <1>0, <1>1, <1>3, <1>6
      <4> HIDE DEF sum, m
      <4> QED BY <1>0, <3>1, <4>1, <4>2 DEF CallInv, Listed
    <3>2. CASE d # c
      <4>1. total'[d] = total[d] /\ marker'[d] = marker[d] /\ pc'[d] = pc[d]
        BY <1>6, <3>2 DEF MultipartInv
      <4> QED BY <1>0, <4>1, OthersKeep DEF MultipartInv
    <3> QED BY <3>1, <3>2
  <2>4. BucketInv'
    BY <1>0 DEF BucketInv
  <2> QED BY <1>0, <1>6, <2>2, <2>3, <2>4 DEF MultipartInv
<1>7. CASE /\ total' = [total EXCEPT ![c] = sum]
           /\ ~ Truncated(m)
           /\ Goto(c, IF sum > MaxUploadBytes THEN "abort" ELSE "finish")
           /\ UNCHANGED marker
  <2>1. /\ total' \in [Call -> Nat] /\ pc' \in [Call -> Label]
        /\ pc' = [pc EXCEPT ![c] = IF sum > MaxUploadBytes THEN "abort" ELSE "finish"]
    BY <1>2, <1>7 DEF MultipartInv, Goto, Label
  <2>2. ASSUME NEW d \in Call PROVE CallInv(d)'
    <3>1. CASE d = c
      <4>1. pc'[c] = IF sum > MaxUploadBytes THEN "abort" ELSE "finish"
        BY <2>1 DEF MultipartInv
      <4>2. BytesOf(held, DOMAIN held \ late[c]) <= sum
        BY <1>0, <1>1, <1>3, <1>7
      <4>3. ~ (sum > MaxUploadBytes)
              => BytesOf(held, DOMAIN held \ late[c]) <= MaxUploadBytes
        BY <1>1, <1>2, <1>7, <4>2, MultipartAssumption
      <4> HIDE DEF sum, m
      <4> QED BY <1>0, <3>1, <4>1, <4>2, <4>3 DEF CallInv
    <3>2. CASE d # c
      <4>1. total'[d] = total[d] /\ marker'[d] = marker[d] /\ pc'[d] = pc[d]
        BY <1>7, <2>1, <3>2 DEF MultipartInv
      <4> QED BY <1>0, <4>1, OthersKeep DEF MultipartInv
    <3> QED BY <3>1, <3>2
  <2>3. BucketInv'
    BY <1>0 DEF BucketInv
  <2> QED BY <1>0, <1>7, <2>1, <2>2, <2>3 DEF MultipartInv
<1> QED BY <1>4, <1>5, <1>6, <1>7 DEF ListParts, BytesOf

LEMMA AbortOversizedKeeps ==
    ASSUME MultipartInv, NEW c \in Call, AbortOversized(c)
    PROVE  MultipartInv'
<1>1. /\ session' \in {session, "gone"} /\ Goto(c, "toolarge")
      /\ UNCHANGED <<urls, held, object, want, marker, total, late>>
  BY DEF AbortOversized
<1> QED BY <1>1, CallEnds DEF Label

LEMMA FinishUploadKeeps ==
    ASSUME MultipartInv, NEW c \in Call, FinishUpload(c)
    PROVE  MultipartInv'
<1>1. UNCHANGED <<urls, held, want, marker, total, late>>
  BY DEF FinishUpload
<1>2. CASE Assemble(c) /\ \E l \in {"ok", "error", "notfound"} : Goto(c, l)
  <2>1. session' = "gone"
    BY <1>2 DEF Assemble
  <2> QED BY <1>1, <1>2, <2>1, CallEnds DEF Label
<1>3. CASE (Failed(c) \/ NoSuchUpload(c)) /\ UNCHANGED <<session, object>>
  BY <1>1, <1>3, CallEnds DEF Failed, NoSuchUpload, Label
<1> QED BY <1>2, <1>3 DEF FinishUpload, Failed

LEMMA AbortKeeps ==
    ASSUME MultipartInv, NEW c \in Call, Abort(c)
    PROVE  MultipartInv'
<1>1. UNCHANGED <<urls, held, object, want, marker, total, late>>
  BY DEF Abort
<1>2. CASE session' = "gone" /\ Goto(c, "aborted")
  BY <1>1, <1>2, CallEnds DEF Label
<1>3. CASE session' \in {session, "gone"} /\ \E l \in {"error", "badrequest"} : Goto(c, l)
  BY <1>1, <1>3, CallEnds DEF Label
<1> QED BY <1>2, <1>3 DEF Abort, Failed

(* The invariant holds in every reachable state.                           *)
THEOREM MultipartInvariance == Spec => []MultipartInv
<1>1. Init => MultipartInv
  <2> SUFFICES ASSUME Init PROVE MultipartInv
    OBVIOUS
  <2>1. BucketInv
    BY DEF Init, BucketInv
  <2>2. <<>> \in Parts
    <3>1. <<>> \in [{} -> Size]
      OBVIOUS
    <3> QED BY <3>1 DEF Parts
  <2>3. \A c \in Call : CallInv(c)
    BY DEF Init, CallInv
  <2> QED BY <2>1, <2>2, <2>3 DEF Init, MultipartInv, Label
<1>2. MultipartInv /\ [Next]_vars => MultipartInv'
  <2> SUFFICES ASSUME MultipartInv, [Next]_vars PROVE MultipartInv'
    OBVIOUS
  <2>1. CASE UNCHANGED vars
    <3>1. \A c \in Call : CallInv(c)'
      BY <2>1, OthersKeep DEF MultipartInv, vars
    <3> QED BY <2>1, <3>1 DEF MultipartInv, BucketInv, vars
  <2>2. CASE Next
    BY <2>2, InitUploadKeeps, PresignPartKeeps, PutPartKeeps, ExpireSessionKeeps,
       CompleteKeeps, ListPartsKeeps, AbortOversizedKeeps, FinishUploadKeeps,
       AbortKeeps DEF Next
  <2> QED BY <2>1, <2>2
<1> QED BY <1>1, <1>2, PTL DEF Spec

-----------------------------------------------------------------------------

(* Only FinishUpload makes an object, out of an open session.              *)
LEMMA ObjectStep ==
    ASSUME [Next]_vars, object' # object
    PROVE  \E c \in Call :
              /\ session = "open" /\ pc[c] = "finish" /\ Match(c)
              /\ object' = [parts |-> want[c], by |-> c]
              /\ UNCHANGED <<upload, late>>
<1>1. PICK c \in Call : FinishUpload(c)
  BY DEF Next, vars, InitUpload, PresignPart, PutPart, ExpireSession, Complete,
         ListParts, AbortOversized, Abort, sessionVars
<1> QED BY <1>1 DEF FinishUpload, Assemble, Match

(* Who was told that the session is gone never sees it land: a session     *)
(* that is gone makes no object.                                           *)
THEOREM VerdictsAreFinal == Spec => VerdictFinal
<1>1. MultipartInv /\ [Next]_vars =>
        ((\E c \in Call : pc[c] \in {"notfound", "aborted"}) => object' = object)
  <2> SUFFICES ASSUME MultipartInv, [Next]_vars, NEW c \in Call,
                      pc[c] \in {"notfound", "aborted"}, object' # object
               PROVE  FALSE
    OBVIOUS
  <2>1. session = "gone"
    BY DEF MultipartInv, CallInv
  <2> QED BY <2>1, ObjectStep
<1> QED BY <1>1, MultipartInvariance, PTL DEF Spec, VerdictFinal

(* Once there is an object no part arrives.                                *)
LEMMA LateStays ==
    ASSUME MultipartInv, [Next]_vars, object # <<>>
    PROVE  late' = late
<1>1. late' = late \/ \E p \in Part, size \in Size : PutPart(p, size)
  BY DEF Next, vars, InitUpload, PresignPart, ExpireSession, Complete,
         ListParts, AbortOversized, FinishUpload, Abort
<1> QED BY <1>1 DEF PutPart, MultipartInv, BucketInv

(* The object of the key, if there is one: its parts and its call.         *)
Object == [parts : Parts, by : Call] \cup {<<>>}

LEMMA ObjectTyped == Spec => [](object \in Object)
<1>1. Init => object \in Object
  BY DEF Init, Object
<1>2. MultipartInv /\ object \in Object /\ [Next]_vars => (object \in Object)'
  BY ObjectStep DEF MultipartInv, Object
<1> QED BY <1>1, <1>2, MultipartInvariance, PTL DEF Spec

(* An object is within the cap but for the parts that arrived during its   *)
(* Complete: the call counted every other part, and the object is made of  *)
(* some of them.                                                           *)
THEOREM OnlyLatePartsExceed == Spec => []ExcessIsLate
<1>1. Init => ExcessIsLate
  BY DEF Init, ExcessIsLate
<1>2. MultipartInv /\ ExcessIsLate /\ [Next]_vars => ExcessIsLate'
  <2> SUFFICES ASSUME MultipartInv, ExcessIsLate, [Next]_vars, object' # <<>>
               PROVE  ExcessIsLate'
    BY DEF ExcessIsLate
  <2>1. CASE object' = object
    BY <2>1, LateStays DEF ExcessIsLate
  <2>2. CASE object' # object
    <3>1. PICK c \in Call :
             /\ session = "open" /\ pc[c] = "finish" /\ Match(c)
             /\ object' = [parts |-> want[c], by |-> c]
             /\ UNCHANGED <<upload, late>>
      BY <2>2, ObjectStep
    <3> DEFINE P == DOMAIN want[c] \ late[c]
               H == DOMAIN held \ late[c]
    <3>2. BytesOf(held, H) <= MaxUploadBytes
      BY <3>1 DEF MultipartInv, CallInv
    <3>3. P \in SUBSET H /\ \A p \in P : want[c][p] = held[p]
      BY <3>1 DEF Match
    <3>4. BytesOf(want[c], P) = BytesOf(held, P)
      BY <3>3, BytesOfSame
    <3>5. IsFiniteSet(H) /\ \A p \in H : held[p] \in Nat
      BY HeldFinite, FS_Subset DEF MultipartInv
    <3>6. /\ BytesOf(held, P) \in Nat /\ BytesOf(held, H) \in Nat
          /\ BytesOf(held, P) <= BytesOf(held, H)
      <4> HIDE DEF P, H
      <4> QED BY <3>3, <3>5, BytesGrow
    <3>7. BytesOf(want[c], P) <= MaxUploadBytes
      BY <3>2, <3>4, <3>6, MultipartAssumption
    <3>8. Restrict(object'.parts, DOMAIN object'.parts \ late'[object'.by])
            = [p \in P |-> want[c][p]]
      BY <3>1 DEF Restrict
    <3> HIDE DEF P
    <3> QED BY <3>7, <3>8 DEF ExcessIsLate, BytesOf
  <2> QED BY <2>1, <2>2
<1> QED BY <1>1, <1>2, MultipartInvariance, PTL DEF Spec

-----------------------------------------------------------------------------

(* What Init answered: the part count of the declared size, and the name   *)
(* and the key of a sanitized name.                                        *)
UploadInv ==
    session \in {"open", "gone"} =>
        /\ upload.size \in DeclaredSize
        /\ upload.count = PartCount(upload.size)
        /\ upload.count <= MaxParts
        /\ upload.name \in {SanitizeFilename(name) : name \in Name}
        /\ upload.key = Build(<<"u">>, upload.name)

(* A call is about a session there has been.                               *)
Begun == \A c \in Call : pc[c] # "idle" => session \in {"open", "gone"}

LEMMA BegunKept == Spec => []Begun
<1>1. Init => Begun
  BY DEF Init, Begun
<1>2. MultipartInv /\ Begun /\ [Next]_vars => Begun'
  <2> SUFFICES ASSUME MultipartInv, Begun, [Next]_vars, NEW d \in Call,
                      pc'[d] # "idle"
               PROVE  session' \in {"open", "gone"}
    BY DEF Begun
  <2>1. CASE \E name \in Name, size \in DeclaredSize : InitUpload(name, size)
    <3>1. session = "none" /\ pc[d] # "idle"
      BY <2>1 DEF InitUpload
    <3> QED BY <3>1 DEF Begun
  <2>2. CASE pc' = pc /\ session' \in {session, "gone"}
    BY <2>2 DEF Begun
  <2>3. CASE \E c \in Call :
                /\ \/ \E parts \in Parts : Complete(c, parts)
                   \/ ListParts(c) \/ AbortOversized(c) \/ FinishUpload(c)
                   \/ Abort(c)
    <3>1. PICK c \in Call :
             /\ pc[c] # "idle" \/ session \in {"open", "gone"}
             /\ session' \in {session, "gone"}
      BY <2>3 DEF Complete, ListParts, AbortOversized, FinishUpload, Assemble,
                  Abort, sessionVars
    <3> QED BY <3>1 DEF Begun
  <2> QED
    BY <2>1, <2>2, <2>3 DEF Next, vars, PresignPart, PutPart, ExpireSession
<1> QED BY <1>1, <1>2, MultipartInvariance, PTL DEF Spec

LEMMA UploadKept == Spec => []UploadInv
<1>1. Init => UploadInv
  BY DEF Init, UploadInv
<1>2. Begun /\ UploadInv /\ [Next]_vars => UploadInv'
  <2> SUFFICES ASSUME Begun, UploadInv, [Next]_vars PROVE UploadInv'
    OBVIOUS
  <2>1. CASE \E name \in Name, size \in DeclaredSize : InitUpload(name, size)
    BY <2>1 DEF InitUpload, UploadInv
  <2>2. CASE /\ upload' = upload
             /\ session' = session \/ session = "open"
                \/ (session = "gone" /\ session' = "gone")
    BY <2>2 DEF UploadInv
  <2>3. CASE \E c \in Call : AbortOversized(c) \/ Abort(c) \/ FinishUpload(c)
    <3>1. upload' = upload /\ session' \in {session, "gone"}
      BY <2>3 DEF AbortOversized, Abort, FinishUpload, Assemble
    <3>2. session \in {"open", "gone"}
      BY <2>3 DEF AbortOversized, Abort, FinishUpload, Begun
    <3> QED BY <3>1, <3>2 DEF UploadInv
  <2> QED
    BY <2>1, <2>2, <2>3
       DEF Next, vars, PresignPart, PutPart, ExpireSession, Complete, ListParts,
           sessionVars
<1> QED BY <1>1, <1>2, BegunKept, PTL DEF Spec

(* The slices of a file, taken at the part size, add up to the file.       *)
LEMMA SlicesAddUp ==
    ASSUME NEW size \in Nat \ {0}, NEW n, n = PartCount(size),
           NEW f, f = [p \in 1 .. n |-> f[p]],
           \A p \in 1 .. n : f[p] = IF size - (p - 1) * PartSize < PartSize
                                    THEN size - (p - 1) * PartSize ELSE PartSize
    PROVE  n \in Nat \ {0} /\ Bytes(f) = size
<1> DEFINE PS == PartSize
           Sum(k) == IF k * PS <= size THEN k * PS ELSE size
           G == {k \in Nat : k <= n => BytesOf(f, 1 .. k) = Sum(k)}
<1>1. PS \in Nat \ {0}
  BY MultipartAssumption
<1>2. n \in Int /\ n * PS <= size + PS - 1 /\ size + PS - 1 < n * PS + PS
  BY <1>1 DEF PartCount
<1>3. n \in Nat \ {0}
  <2>1. n * PS > 0
    BY <1>1, <1>2
  <2> QED BY <1>1, <1>2, <2>1
<1>4. IsFiniteSet(1 .. n)
  BY <1>3, FS_Interval
<1>5. ASSUME NEW k \in Nat, k < n
      PROVE  /\ k * PS \in Nat /\ k * PS < size /\ (k + 1) * PS = k * PS + PS
             /\ f[k + 1] = IF size - k * PS < PS THEN size - k * PS ELSE PS
             /\ f[k + 1] \in Nat
  <2>1. k * PS \in Nat /\ (k + 1) * PS = k * PS + PS
    BY <1>1
  <2>2. (k + 1) * PS <= n * PS
    BY <1>1, <1>3, <1>5
  <2>3. n * PS \in Int
    BY <1>1, <1>3
  <2>4. k * PS < size
    BY <1>1, <1>2, <2>1, <2>2, <2>3
  <2>5. k + 1 \in 1 .. n /\ (k + 1) - 1 = k
    BY <1>3, <1>5
  <2>6. f[k + 1] = IF size - k * PS < PS THEN size - k * PS ELSE PS
    BY <2>5
  <2> QED BY <1>1, <2>1, <2>4, <2>6
<1>6. \A p \in 1 .. n : f[p] \in Nat
  <2> SUFFICES ASSUME NEW p \in 1 .. n PROVE f[p] \in Nat
    OBVIOUS
  <2>1. p - 1 \in Nat /\ p - 1 < n /\ (p - 1) + 1 = p
    BY <1>3
  <2> QED BY <1>5, <2>1
<1>7. \A s \in SUBSET (1 .. n) : SumsUp(f, s)
  BY <1>4, <1>6, BytesOfSubsets
<1>8. 0 \in G
  <2>1. 1 .. 0 = {} /\ {} \in SUBSET (1 .. n) /\ Sum(0) = 0
    BY <1>1
  <2> QED BY <1>7, <2>1 DEF SumsUp
<1>9. ASSUME NEW k \in Nat, k \in G PROVE k + 1 \in G
  <2> SUFFICES ASSUME k + 1 <= n PROVE BytesOf(f, 1 .. (k + 1)) = Sum(k + 1)
    OBVIOUS
  <2>1. k < n /\ k <= n
    BY <1>3
  <2>2. /\ (1 .. (k + 1)) \ {k + 1} = 1 .. k /\ k + 1 \in 1 .. (k + 1)
        /\ 1 .. (k + 1) \in SUBSET (1 .. n)
    BY <1>3, <2>1
  <2>3. BytesOf(f, 1 .. (k + 1)) = f[k + 1] + BytesOf(f, 1 .. k)
    <3> DEFINE s == 1 .. (k + 1)
               p == k + 1
    <3>1. s \in SUBSET (1 .. n) /\ p \in s /\ s \ {p} = 1 .. k
      BY <2>2
    <3> SUFFICES BytesOf(f, s) = f[p] + BytesOf(f, 1 .. k)
      OBVIOUS
    <3> HIDE DEF s, p
    <3>2. BytesOf(f, s) = f[p] + BytesOf(f, s \ {p})
      BY <1>7, <3>1 DEF SumsUp
    <3> QED BY <3>1, <3>2
  <2>4. BytesOf(f, 1 .. k) = k * PS
    BY <1>5, <1>9, <2>1
  <2> QED BY <1>1, <1>5, <2>1, <2>3, <2>4
<1>10. n \in G
  <2> HIDE DEF G
  <2> QED BY <1>3, <1>8, <1>9, InductionOverNat
<1>11. Sum(n) = size
  <2>1. n * PS \in Int
    BY <1>1, <1>3
  <2>2. size <= n * PS
    BY <1>1, <1>2, <2>1
  <2> QED BY <2>1, <2>2
<1>12. Bytes(f) = BytesOf(f, 1 .. n)
  BY BytesOfAll
<1> QED BY <1>3, <1>10, <1>11, <1>12

(* A client that sends the slices Init asked for gets its whole file.      *)
THEOREM FilesAreWhole == Spec => []WholeFile
<1>1. MultipartInv /\ object \in Object /\ UploadInv => WholeFile
  <2> SUFFICES ASSUME MultipartInv, object \in Object, UploadInv, object # <<>>,
                      DOMAIN object.parts = 1 .. upload.count,
                      \A p \in 1 .. upload.count : object.parts[p] = Slice(p)
               PROVE  Bytes(object.parts) = upload.size
    BY DEF WholeFile
  <2>1. session = "gone"
    BY DEF MultipartInv, BucketInv
  <2>2. upload.size \in Nat \ {0} /\ upload.count = PartCount(upload.size)
    BY <2>1, MultipartAssumption DEF UploadInv
  <2>3. object.parts = [p \in 1 .. upload.count |-> object.parts[p]]
    BY DEF Object, Parts
  <2> QED BY <2>2, <2>3, SlicesAddUp DEF Slice
<1> QED BY <1>1, MultipartInvariance, ObjectTyped, UploadKept, PTL

-----------------------------------------------------------------------------

(* The characters and names that the code itself writes.                   *)
LEMMA OwnCharacters ==
    /\ "." \in Char /\ "/" \in Char /\ "a" \in Char /\ "u" \in Char
    /\ Separator \in Char /\ Separator # "u"
BY Zenon DEF Char, Separator

LEMMA OwnNames ==
    <<".">> \in Seq(Char) /\ <<"/">> \in Seq(Char) /\ <<"a">> \in Seq(Char)
<1>1. ASSUME NEW S, NEW x \in S PROVE <<x>> \in Seq(S)
  OBVIOUS
<1> QED BY <1>1, OwnCharacters

(* A name after two characters.                                            *)
LEMMA PrefixedName ==
    ASSUME NEW S, NEW s \in Seq(S), NEW x \in S, NEW y \in S,
           NEW k, k = Append(<<x>>, y) \o s
    PROVE  /\ k \in Seq(S) /\ Len(k) = Len(s) + 2 /\ Len(s) \in Nat
           /\ k[1] = x /\ k[2] = y
           /\ \A i \in 1 .. Len(s) : k[i + 2] = s[i]
<1>1. k \in Seq(S) /\ Len(k) = Len(s) + 2 /\ Len(s) \in Nat
  OBVIOUS
<1>2. k[1] = x /\ k[2] = y
  OBVIOUS
<1>3. \A i \in 1 .. Len(s) : k[i + 2] = s[i]
  OBVIOUS
<1> QED BY <1>1, <1>2, <1>3

(* Cutting a name gives a name.                                            *)
LEMMA CutIsName ==
    ASSUME NEW s \in Seq(Char), NEW a \in Nat \ {0}, NEW b \in 0 .. Len(s)
    PROVE  /\ SubSeq(s, a, b) \in Seq(Char)
           /\ Len(SubSeq(s, a, b)) = IF a <= b THEN b - a + 1 ELSE 0
<1>1. Len(s) \in Nat /\ \A i \in a .. b : s[i] \in Char
  OBVIOUS
<1> QED BY <1>1, SubSeqProperties

LEMMA AfterIsName ==
    ASSUME NEW s \in Seq(Char), NEW i \in 0 .. Len(s)
    PROVE  After(s, i) \in Seq(Char) /\ Len(After(s, i)) <= Len(s)
<1>1. Len(s) \in Nat /\ i + 1 \in Nat \ {0} /\ Len(s) \in 0 .. Len(s)
  OBVIOUS
<1>2. /\ After(s, i) \in Seq(Char)
      /\ Len(After(s, i)) = IF i + 1 <= Len(s) THEN Len(s) - (i + 1) + 1 ELSE 0
  BY <1>1, CutIsName DEF After
<1> QED BY <1>1, <1>2

(* The last index with a property, and the first, are indices.             *)
LEMMA IndexRange ==
    ASSUME NEW s \in Seq(Char), NEW I \in SUBSET (1 .. Len(s)), I # {}
    PROVE  /\ Max(I) \in 1 .. Len(s) /\ Min(I) \in 1 .. Len(s)
           /\ Min(I) \in I /\ \A i \in I : Min(I) <= i
<1>1. Len(s) \in Nat /\ I \in SUBSET Nat /\ \A i \in I : i <= Len(s)
  OBVIOUS
<1>2. Max(I) \in I
  BY <1>1, GreatestNat
<1>3. \E m \in I : \A i \in I : m <= i
  BY <1>1, LeastNat
<1> QED BY <1>2, <1>3 DEF Min

LEMMA LastIndexRange ==
    ASSUME NEW s \in Seq(Char), NEW c
    PROVE  LastIndex(s, c) \in 0 .. Len(s)
<1> DEFINE I == {i \in 1 .. Len(s) : s[i] = c}
<1>1. I \in SUBSET (1 .. Len(s)) /\ Len(s) \in Nat
  OBVIOUS
<1>2. LastIndex(s, c) = IF I # {} THEN Max(I) ELSE 0
  BY DEF LastIndex, SelectLastInSeq
<1> HIDE DEF I
<1>3. I # {} => Max(I) \in 1 .. Len(s)
  BY <1>1, IndexRange
<1> QED BY <1>1, <1>2, <1>3

LEMMA TrimsAreNames ==
    ASSUME NEW s \in Seq(Char), NEW C
    PROVE  TrimRight(s, C) \in Seq(Char) /\ TrimLeft(s, C) \in Seq(Char)
<1> DEFINE I == {i \in 1 .. Len(s) : s[i] \notin C}
           l == IF I # {} THEN Max(I) ELSE 0
           f == IF I # {} THEN Min(I) ELSE 0
<1>1. I \in SUBSET (1 .. Len(s)) /\ Len(s) \in Nat
  OBVIOUS
<1>2. /\ TrimRight(s, C) = SubSeq(s, 1, l)
      /\ TrimLeft(s, C) = IF f = 0 THEN <<>> ELSE After(s, f - 1)
  BY DEF TrimRight, TrimLeft, SelectLastInSeq, SelectInSeq
<1>3. l \in 0 .. Len(s) /\ f \in 0 .. Len(s)
  <2> HIDE DEF I
  <2>1. I # {} => Max(I) \in 1 .. Len(s) /\ Min(I) \in 1 .. Len(s)
    BY <1>1, IndexRange
  <2> QED BY <1>1, <2>1
<1> HIDE DEF l, f
<1>4. TrimRight(s, C) \in Seq(Char)
  BY <1>2, <1>3, CutIsName
<1>5. ASSUME f # 0 PROVE After(s, f - 1) \in Seq(Char)
  <2>1. f - 1 \in 0 .. Len(s)
    BY <1>1, <1>3, <1>5
  <2> QED BY <2>1, AfterIsName
<1>6. <<>> \in Seq(Char)
  OBVIOUS
<1> QED BY <1>2, <1>4, <1>5, <1>6

LEMMA BaseIsName ==
    ASSUME NEW s \in Seq(Char)
    PROVE  Base(s) \in Seq(Char)
<1> DEFINE t == TrimRight(s, {"/"})
<1>1. t \in Seq(Char)
  BY TrimsAreNames
<1>2. After(t, LastIndex(t, "/")) \in Seq(Char)
  <2> HIDE DEF t
  <2> QED BY <1>1, LastIndexRange, AfterIsName
<1> QED BY <1>2, OwnNames DEF Base

LEMMA TruncateIsName ==
    ASSUME NEW s \in Seq(Char)
    PROVE  Truncate(s) \in Seq(Char)
<1> DEFINE i == LastIndex(s, ".")
           ext == IF Len(Ext(s)) > MaxExtLength THEN <<>> ELSE Ext(s)
<1>0. Len(s) \in Nat /\ MaxFilenameLength \in Nat /\ MaxExtLength \in Nat
      /\ MaxExtLength <= MaxFilenameLength
  BY NamesAssumption
<1>1. i \in 0 .. Len(s) /\ LastIndex(s, "/") \in 0 .. Len(s)
  BY LastIndexRange
<1>2. Ext(s) \in Seq(Char)
  <2>1. CASE i > LastIndex(s, "/")
    <3>1. i - 1 \in 0 .. Len(s)
      BY <1>0, <1>1, <2>1
    <3>2. Ext(s) = After(s, i - 1)
      BY <2>1 DEF Ext
    <3> QED BY <3>1, <3>2, AfterIsName
  <2>2. CASE ~ (i > LastIndex(s, "/"))
    BY <2>2 DEF Ext
  <2> QED BY <2>1, <2>2
<1>3. ext \in Seq(Char) /\ Len(ext) \in 0 .. MaxExtLength
  <2>1. <<>> \in Seq(Char) /\ Len(<<>>) = 0 /\ Len(Ext(s)) \in Nat
    BY <1>2
  <2>2. CASE Len(Ext(s)) > MaxExtLength
    BY <1>0, <2>1, <2>2
  <2>3. CASE ~ (Len(Ext(s)) > MaxExtLength)
    BY <1>0, <1>2, <2>1, <2>3
  <2> QED BY <2>2, <2>3
<1>4. CASE Len(s) > MaxFilenameLength
  <2>1. MaxFilenameLength - Len(ext) \in 0 .. Len(s)
    <3> HIDE DEF ext
    <3> QED BY <1>0, <1>3, <1>4
  <2>2. SubSeq(s, 1, MaxFilenameLength - Len(ext)) \in Seq(Char)
    <3> HIDE DEF ext
    <3> QED BY <2>1, CutIsName
  <2>3. Truncate(s) = SubSeq(s, 1, MaxFilenameLength - Len(ext)) \o ext
    BY <1>4 DEF Truncate
  <2> HIDE DEF ext
  <2> QED BY <1>3, <2>2, <2>3
<1>5. CASE ~ (Len(s) > MaxFilenameLength)
  BY <1>5 DEF Truncate
<1> QED BY <1>4, <1>5

(* g[d] is what strings.Map makes of the positions d of s.                 *)
KeptEq(g, s, d) ==
    g[d] = IF d = {} THEN <<>> ELSE Keep(g[d \ {Max(d)}], s[Max(d)])

Kept(s) ==
    CHOOSE g : g = [d \in SUBSET DOMAIN s |->
                      IF d = {} THEN <<>> ELSE Keep(g[d \ {Max(d)}], s[Max(d)])]

LEMMA VisibleIsKept == ASSUME NEW s PROVE Visible(s) = Kept(s)[DOMAIN s]
BY DEF Visible, FoldLeft, MapThenFoldSet, Kept

(* The callback adds a character or none.                                  *)
LEMMA KeepIsName ==
    ASSUME NEW t \in Seq(Char), NEW x \in Char
    PROVE  Keep(t, x) \in Seq(Char)
<1>1. Append(t, x) \in Seq(Char)
  OBVIOUS
<1> QED BY <1>1, Zenon DEF Keep

(* A name has finitely many positions.                                     *)
LEMMA PositionsFinite ==
    ASSUME NEW s \in Seq(Char)
    PROVE  IsFiniteSet(DOMAIN s) /\ \A d \in SUBSET DOMAIN s : IsFiniteSet(d)
<1>1. Len(s) \in Nat /\ DOMAIN s = 1 .. Len(s)
  OBVIOUS
<1> DEFINE D == DOMAIN s
<1>2. IsFiniteSet(D)
  BY <1>1, FS_Interval
<1> HIDE DEF D
<1>3. \A d \in SUBSET D : IsFiniteSet(d)
  BY <1>2, FS_Subset
<1> QED BY <1>2, <1>3 DEF D

(* The last of some positions of s.                                        *)
LEMMA LastPosition ==
    ASSUME NEW s \in Seq(Char), NEW d \in SUBSET (DOMAIN s), d # {}
    PROVE  /\ Max(d) \in d /\ s[Max(d)] \in Char
           /\ d \ {Max(d)} \in SUBSET (DOMAIN s)
           /\ IsFiniteSet(d) /\ Cardinality(d) \in Nat
           /\ Cardinality(d \ {Max(d)}) = Cardinality(d) - 1
<1>1. Len(s) \in Nat /\ DOMAIN s = 1 .. Len(s)
  OBVIOUS
<1>2. d \in SUBSET Nat /\ \A i \in d : i <= Len(s)
  BY <1>1
<1>3. Max(d) \in d
  BY <1>1, <1>2, GreatestNat
<1>4. IsFiniteSet(d)
  BY PositionsFinite
<1>5. Cardinality(d) \in Nat /\ Cardinality(d \ {Max(d)}) = Cardinality(d) - 1
  BY <1>3, <1>4, FS_RemoveElement, FS_CardinalityType
<1>6. s[Max(d)] \in Char
  BY <1>1, <1>3, ElementOfSeq
<1> QED BY <1>3, <1>4, <1>5, <1>6

(* The recursion of the fold has a solution, and it gives names.           *)
LEMMA KeptExists ==
    ASSUME NEW s \in Seq(Char)
    PROVE  \E g \in [SUBSET DOMAIN s -> Seq(Char)] :
              \A d \in SUBSET DOMAIN s : KeptEq(g, s, d)
<1> DEFINE P == SUBSET DOMAIN s
           Upto(g, n) == \A d \in P : Cardinality(d) <= n => KeptEq(g, s, d)
           Good == {n \in Nat : \E g \in [P -> Seq(Char)] : Upto(g, n)}
<1>1. \A d \in P : Cardinality(d) \in Nat /\ (Cardinality(d) <= 0 => d = {})
  <2> SUFFICES ASSUME NEW d \in P
               PROVE  Cardinality(d) \in Nat /\ (Cardinality(d) <= 0 => d = {})
    OBVIOUS
  <2>1. IsFiniteSet(d)
    BY PositionsFinite
  <2>2. Cardinality(d) \in Nat
    BY <2>1, FS_CardinalityType
  <2>3. Cardinality(d) = 0 => d = {}
    BY <2>1, FS_EmptySet
  <2> QED BY <2>2, <2>3
<1>2. <<>> \in Seq(Char)
  OBVIOUS
<1>3. 0 \in Good
  <2> DEFINE g == [d \in P |-> <<>>]
  <2>1. g \in [P -> Seq(Char)]
    BY <1>2
  <2>2. ASSUME NEW d \in P, Cardinality(d) <= 0 PROVE KeptEq(g, s, d)
    BY <1>1, <2>2 DEF KeptEq
  <2> QED BY <2>1, <2>2
<1>4. ASSUME NEW n \in Nat, n \in Good PROVE n + 1 \in Good
  <2>1. PICK g \in [P -> Seq(Char)] : Upto(g, n)
    BY <1>4
  <2> DEFINE Step(d) == Keep(g[d \ {Max(d)}], s[Max(d)])
             h == [d \in P |-> IF Cardinality(d) <= n THEN g[d]
                               ELSE IF d = {} THEN <<>> ELSE Step(d)]
  <2>2. ASSUME NEW d \in P, d # {} PROVE Step(d) \in Seq(Char)
    <3>1. g[d \ {Max(d)}] \in Seq(Char) /\ s[Max(d)] \in Char
      BY <2>2, LastPosition
    <3> QED BY <3>1, KeepIsName
  <2>3. h \in [P -> Seq(Char)]
    <3> HIDE DEF Step
    <3> QED BY <1>2, <2>2
  <2>4. ASSUME NEW d \in P, Cardinality(d) <= n + 1 PROVE KeptEq(h, s, d)
    <3>1. CASE d = {}
      <4>1. Cardinality(d) <= n
        BY <3>1, FS_EmptySet
      <4>2. h[d] = g[d] /\ KeptEq(g, s, d)
        BY <2>1, <4>1
      <4> QED BY <3>1, <4>2 DEF KeptEq
    <3>2. CASE d # {}
      <4> DEFINE r == d \ {Max(d)}
      <4>1. r \in P /\ Cardinality(r) <= n
        <5>1. r \in P /\ Cardinality(d) \in Nat /\ Cardinality(r) = Cardinality(d) - 1
          BY <3>2, LastPosition
        <5> HIDE DEF r
        <5> QED BY <2>4, <5>1
      <4>2. h[r] = g[r]
        <5> HIDE DEF r, Step
        <5> QED BY <4>1
      <4>3. h[d] = Keep(g[r], s[Max(d)])
        <5>1. CASE Cardinality(d) <= n
          <6>1. h[d] = g[d] /\ KeptEq(g, s, d)
            BY <2>1, <5>1
          <6> HIDE DEF h
          <6> QED BY <3>2, <6>1 DEF KeptEq
        <5>2. CASE ~ Cardinality(d) <= n
          <6> HIDE DEF Step
          <6>1. h[d] = Step(d)
            BY <3>2, <5>2
          <6> QED BY <6>1 DEF Step
        <5> QED BY <5>1, <5>2
      <4> HIDE DEF h
      <4> QED BY <3>2, <4>2, <4>3 DEF KeptEq
    <3> QED BY <3>1, <3>2
  <2>5. Upto(h, n + 1)
    BY <2>4
  <2> HIDE DEF h, Upto
  <2> QED BY <2>3, <2>5
<1>5. \A n \in Nat : n \in Good
  <2> HIDE DEF Good
  <2> QED BY <1>3, <1>4, InductionOverNat
<1>6. Len(s) \in Nat /\ \A d \in P : Cardinality(d) <= Len(s)
  <2>1. Len(s) \in Nat /\ DOMAIN s = 1 .. Len(s)
    OBVIOUS
  <2>2. IsFiniteSet(DOMAIN s) /\ Cardinality(DOMAIN s) = Len(s)
    BY <2>1, FS_Interval
  <2> QED BY <2>1, <2>2, FS_Subset
<1>7. PICK g \in [P -> Seq(Char)] : Upto(g, Len(s))
  BY <1>5, <1>6
<1> QED BY <1>6, <1>7

(* What is left of a name without its control characters is a name.        *)
LEMMA VisibleIsName == ASSUME NEW s \in Seq(Char) PROVE Visible(s) \in Seq(Char)
<1> DEFINE D == DOMAIN s
           G(q) == [d \in SUBSET DOMAIN s |->
                      IF d = {} THEN <<>> ELSE Keep(q[d \ {Max(d)}], s[Max(d)])]
           T == {d \in SUBSET D : Kept(s)[d] \notin Seq(Char)}
<1>1. PICK g \in [SUBSET DOMAIN s -> Seq(Char)] :
         \A d \in SUBSET DOMAIN s : KeptEq(g, s, d)
  BY KeptExists
<1>2. g = G(g)
  BY <1>1 DEF KeptEq
<1>3. Kept(s) = G(Kept(s))
  BY <1>2 DEF Kept
<1>4. \A d \in SUBSET D : KeptEq(Kept(s), s, d)
  BY <1>3 DEF KeptEq
<1>5. IsFiniteSet(D)
  BY PositionsFinite
<1>6. T = {}
  <2> SUFFICES ASSUME T # {} PROVE FALSE
    OBVIOUS
  <2>1. PICK d \in T : \A r \in T : r \subseteq d => r = d
    <3>1. T \in SUBSET (SUBSET D)
      OBVIOUS
    <3> HIDE DEF T, D
    <3> QED BY <1>5, <3>1, MinimalSet
  <2>2. d \in SUBSET D /\ Kept(s)[d] \notin Seq(Char) /\ d # {}
    <3>1. KeptEq(Kept(s), s, {}) /\ <<>> \in Seq(Char)
      BY <1>4
    <3>2. Kept(s)[{}] \in Seq(Char)
      BY <3>1 DEF KeptEq
    <3>3. d \in SUBSET D /\ Kept(s)[d] \notin Seq(Char)
      BY <2>1
    <3> QED BY <3>2, <3>3
  <2>3. Max(d) \in d /\ s[Max(d)] \in Char /\ d \ {Max(d)} \in SUBSET D
    BY <2>2, LastPosition
  <2>4. d \ {Max(d)} \notin T
    BY <2>1, <2>3
  <2>5. Kept(s)[d \ {Max(d)}] \in Seq(Char)
    BY <2>3, <2>4
  <2>6. Keep(Kept(s)[d \ {Max(d)}], s[Max(d)]) \in Seq(Char)
    BY <2>3, <2>5, KeepIsName
  <2> QED BY <1>4, <2>2, <2>6 DEF KeptEq
<1>7. Kept(s)[D] \in Seq(Char)
  BY <1>6
<1> QED BY <1>7, VisibleIsKept

(* Sanitizing gives a name.                                                *)
LEMMA SanitizedIsName ==
    ASSUME NEW name \in Seq(Char)
    PROVE  SanitizeFilename(name) \in Seq(Char)
<1> DEFINE slashed == ReplaceAll(name, "\\", "/")
           v == Visible(Base(slashed))
           cleaned == Truncate(TrimLeft(TrimRight(v, {" "}), {" "}))
<1>1. slashed \in Seq(Char)
  <2>1. ASSUME NEW S, NEW s \in Seq(S), NEW x, NEW y \in S
        PROVE  [i \in 1 .. Len(s) |-> IF s[i] = x THEN y ELSE s[i]] \in Seq(S)
    OBVIOUS
  <2> QED BY <2>1, OwnCharacters DEF ReplaceAll
<1>2. v \in Seq(Char)
  <2> HIDE DEF slashed
  <2> QED BY <1>1, BaseIsName, VisibleIsName
<1>3. cleaned \in Seq(Char)
  <2> HIDE DEF v
  <2>1. TrimRight(v, {" "}) \in Seq(Char)
    BY <1>2, TrimsAreNames
  <2>2. TrimLeft(TrimRight(v, {" "}), {" "}) \in Seq(Char)
    BY <2>1, TrimsAreNames
  <2> QED BY <2>2, TruncateIsName
<1>4. SanitizeFilename(name) \in {cleaned, Fallback}
  BY DEF SanitizeFilename
<1>5. Fallback \in Seq(Char)
  BY OwnNames DEF Fallback
<1> HIDE DEF cleaned
<1> QED BY <1>3, <1>4, <1>5

(* Split undoes Build, whatever separators the name has of its own.        *)
LEMMA SplitBuild ==
    ASSUME NEW name \in Seq(Char)
    PROVE  Split(Build(<<"u">>, name)).name = name
<1> DEFINE key == Build(<<"u">>, name)
           I == {i \in 1 .. Len(key) : key[i] = Separator}
<1>1. /\ key \in Seq(Char) /\ Len(key) = Len(name) + 2 /\ Len(name) \in Nat
      /\ key[1] = "u" /\ key[2] = Separator
      /\ \A i \in 1 .. Len(name) : key[i + 2] = name[i]
  <2>1. key = Append(<<"u">>, Separator) \o name
    BY DEF Build
  <2> HIDE DEF key
  <2> QED BY <2>1, OwnCharacters, PrefixedName
<1>2. Split(key) = LET f == IF I # {} THEN Min(I) ELSE 0
                   IN  IF f = 0 THEN [id |-> <<>>, name |-> key]
                       ELSE [id |-> SubSeq(key, 1, f - 1), name |-> After(key, f)]
  BY DEF Split, SelectInSeq
<1> SUFFICES Split(key).name = name
  OBVIOUS
<1> HIDE DEF key
<1>3. I \in SUBSET (1 .. Len(key)) /\ 2 \in I /\ 1 \notin I
  <2>1. 1 \in 1 .. Len(key) /\ 2 \in 1 .. Len(key)
    BY <1>1
  <2> QED BY <1>1, <2>1, OwnCharacters
<1> HIDE DEF I
<1>4. Min(I) \in I /\ Min(I) <= 2
  BY <1>1, <1>3, IndexRange
<1>5. Min(I) = 2 /\ I # {}
  <2>1. Min(I) \in 1 .. Len(key) /\ Min(I) # 1
    BY <1>3, <1>4
  <2> QED BY <1>1, <1>3, <1>4, <2>1
<1>6. Split(key).name = After(key, 2)
  BY <1>2, <1>5
<1>7. After(key, 2) = name
  <2>1. Len(key) \in Int /\ \A i \in 3 .. Len(key) : key[i] \in Char
    BY <1>1
  <2>2. /\ SubSeq(key, 3, Len(key)) \in Seq(Char)
        /\ Len(SubSeq(key, 3, Len(key)))
             = IF 3 <= Len(key) THEN Len(key) - 3 + 1 ELSE 0
        /\ \A i \in 1 .. Len(key) - 3 + 1 :
              SubSeq(key, 3, Len(key))[i] = key[3 + i - 1]
    BY <2>1, SubSeqProperties
  <2>3. After(key, 2) = SubSeq(key, 3, Len(key))
    BY DEF After
  <2> DEFINE t == After(key, 2)
  <2>4. t \in Seq(Char) /\ Len(t) = Len(name)
    <3>1. Len(t) = IF 3 <= Len(key) THEN Len(key) - 3 + 1 ELSE 0
      BY <2>2, <2>3
    <3>2. \A n, k \in Nat : k = n + 2 =>
             (IF 3 <= k THEN k - 3 + 1 ELSE 0) = n
      OBVIOUS
    <3>3. Len(key) \in Nat /\ Len(name) \in Nat /\ Len(key) = Len(name) + 2
      BY <1>1
    <3> HIDE DEF t
    <3>4. Len(t) = Len(name)
      BY <3>1, <3>2, <3>3
    <3> QED BY <2>2, <2>3, <3>4 DEF t
  <2>5. ASSUME NEW i \in 1 .. Len(name) PROVE t[i] = name[i]
    <3>1. i \in 1 .. Len(key) - 3 + 1 /\ 3 + i - 1 = i + 2
      BY <1>1
    <3> QED BY <1>1, <2>2, <2>3, <3>1
  <2> HIDE DEF t
  <2>6. t = name
    BY <2>4, <2>5
  <2> QED BY <2>6 DEF t
<1> QED BY <1>6, <1>7

(* Complete reads off the key the name that Init gave the file.            *)
THEOREM NamesAreKept == Spec => []NameKept
<1>1. UploadInv => NameKept
  <2> SUFFICES ASSUME UploadInv, session \in {"open", "gone"}
               PROVE  Split(upload.key).name = upload.name
    BY DEF NameKept
  <2>1. PICK name \in Name : upload.name = SanitizeFilename(name)
    BY DEF UploadInv
  <2>2. upload.name \in Seq(Char)
    BY <2>1, SanitizedIsName, MultipartAssumption
  <2> QED BY <2>2, SplitBuild DEF UploadInv
<1> QED BY <1>1, UploadKept, PTL

-----------------------------------------------------------------------------

(* A finite set of naturals is bounded.                                    *)
LEMMA FiniteIsBounded ==
    ASSUME NEW S, IsFiniteSet(S), \A k \in S : k \in Nat
    PROVE  \E n \in Nat : \A k \in S : k <= n
<1> DEFINE Bounded(s) == \E n \in Nat : \A k \in s : k <= n
           T == {s \in SUBSET S : ~ Bounded(s)}
<1> SUFFICES ASSUME T # {} PROVE FALSE
  OBVIOUS
<1>1. PICK s \in T : \A r \in T : r \subseteq s => r = s
  <2>1. T \in SUBSET (SUBSET S)
    OBVIOUS
  <2> HIDE DEF T
  <2> QED BY <2>1, MinimalSet
<1>2. s \in SUBSET S /\ ~ Bounded(s)
  OBVIOUS
<1>3. PICK x \in s : TRUE
  BY <1>2
<1>4. s \ {x} \notin T
  BY <1>1, <1>3
<1>5. PICK n \in Nat : \A k \in s \ {x} : k <= n
  BY <1>2, <1>4
<1>6. x \in Nat
  BY <1>2, <1>3
<1>7. ASSUME NEW k \in s PROVE k <= n + x
  <2>1. k \in Nat
    BY <1>2
  <2>2. k = x \/ k <= n
    BY <1>5
  <2> QED BY <1>6, <2>1, <2>2
<1>8. n + x \in Nat
  BY <1>6
<1> QED BY <1>2, <1>7, <1>8

(* The largest part a client sends.                                        *)
LEMMA LargestPart == Max(Size) \in Nat /\ \A k \in Size : k <= Max(Size)
<1>1. Size \in SUBSET Nat /\ Size # {} /\ IsFiniteSet(Size)
  BY MultipartAssumption
<1>2. PICK n \in Nat : \A k \in Size : k <= n
  BY <1>1, FiniteIsBounded
<1> QED BY <1>1, <1>2, GreatestNat

LEMMA Multiples ==
    ASSUME NEW a \in Nat, NEW b \in Nat, NEW d \in Nat
    PROVE  /\ a * d \in Nat /\ (a + b) * d = a * d + b * d
           /\ a <= b => a * d <= b * d
OBVIOUS

(* Parts of at most m bytes.                                               *)
LEMMA BytesBounded ==
    ASSUME NEW S, IsFiniteSet(S), NEW m \in Nat,
           NEW f, \A p \in S : f[p] \in Nat /\ f[p] <= m
    PROVE  BytesOf(f, S) <= Cardinality(S) * m
<1> DEFINE T == {s \in SUBSET S : ~ (BytesOf(f, s) <= Cardinality(s) * m)}
<1> SUFFICES ASSUME T # {} PROVE FALSE
  OBVIOUS
<1>1. PICK s \in T : \A r \in T : r \subseteq s => r = s
  <2>1. T \in SUBSET (SUBSET S)
    OBVIOUS
  <2> HIDE DEF T
  <2> QED BY <2>1, MinimalSet
<1>2. s \in SUBSET S /\ ~ (BytesOf(f, s) <= Cardinality(s) * m)
  OBVIOUS
<1>3. \A r \in SUBSET S : SumsUp(f, r) /\ IsFiniteSet(r)
  BY BytesOfSubsets, FS_Subset
<1>4. s # {}
  <2>1. BytesOf(f, {}) = 0 /\ Cardinality({}) = 0 /\ 0 * m = 0
    BY <1>3, FS_EmptySet DEF SumsUp
  <2> QED BY <1>2, <2>1
<1>5. PICK p \in s : TRUE
  BY <1>4
<1> DEFINE r == s \ {p}
<1>6. r \in SUBSET S /\ r \notin T /\ p \in S
  BY <1>1, <1>2, <1>5
<1>7. BytesOf(f, r) <= Cardinality(r) * m
  BY <1>6
<1>8. /\ BytesOf(f, s) = f[p] + BytesOf(f, r)
      /\ BytesOf(f, r) \in Nat /\ f[p] \in Nat /\ f[p] <= m
  BY <1>2, <1>3, <1>5, <1>6 DEF SumsUp
<1>9. Cardinality(r) = Cardinality(s) - 1 /\ Cardinality(s) \in Nat
      /\ Cardinality(r) \in Nat
  BY <1>2, <1>3, <1>5, <1>6, FS_RemoveElement, FS_CardinalityType
<1> HIDE DEF r
<1>10. \A a, b, c, d \in Nat :
          a = d - 1 /\ b <= a * m /\ c <= m => c + b <= d * m
  <2> SUFFICES ASSUME NEW a \in Nat, NEW b \in Nat, NEW c \in Nat, NEW d \in Nat,
                      a = d - 1, b <= a * m, c <= m
               PROVE  c + b <= d * m
    OBVIOUS
  <2>1. d * m = a * m + m
    OBVIOUS
  <2>2. a * m \in Nat
    OBVIOUS
  <2> QED BY <2>1, <2>2
<1> QED BY <1>2, <1>7, <1>8, <1>9, <1>10

-----------------------------------------------------------------------------

(* The part numbers up to a marker.                                        *)
Low(m) == {p \in Part : p <= m}

(* A call counts each part number once, also when parts arrive meanwhile.  *)
TotalInv ==
    \A c \in Call :
        /\ total[c] <= Cardinality(Part) * Max(Size)
        /\ pc[c] \in {"idle", "list"} =>
              total[c] <= Cardinality(Low(marker[c])) * Max(Size)

LEMMA PartsFinite ==
    ASSUME NEW s \in SUBSET Part
    PROVE  /\ IsFiniteSet(s) /\ Cardinality(s) \in Nat /\ Cardinality(Part) \in Nat
           /\ Cardinality(s) * Max(Size) <= Cardinality(Part) * Max(Size)
           /\ Cardinality(s) * Max(Size) \in Nat
<1>1. IsFiniteSet(Part)
  BY MultipartAssumption
<1>2. /\ IsFiniteSet(s) /\ Cardinality(s) <= Cardinality(Part)
      /\ Cardinality(s) \in Nat /\ Cardinality(Part) \in Nat
  BY <1>1, FS_Subset, FS_CardinalityType
<1> QED BY <1>2, LargestPart, Multiples

(* A page after the marker, on top of what was counted up to it.           *)
LEMMA PageBounded ==
    ASSUME BucketInv, NEW m \in Nat, NEW t \in Nat,
           t <= Cardinality(Low(m)) * Max(Size),
           NEW U \in SUBSET Part, Low(m) \subseteq U, Page(m) \subseteq U
    PROVE  t + BytesOf(held, Page(m)) <= Cardinality(U) * Max(Size)
<1> DEFINE M == Max(Size)
<1>1. Page(m) \in SUBSET Part /\ Low(m) \in SUBSET Part /\ Low(m) \cap Page(m) = {}
      /\ Low(m) \cup Page(m) \in SUBSET U
  BY MultipartAssumption DEF Low, Page, BucketInv
<1>2. /\ M \in Nat /\ IsFiniteSet(U) /\ Cardinality(U) \in Nat
      /\ IsFiniteSet(Page(m)) /\ Cardinality(Page(m)) \in Nat
      /\ IsFiniteSet(Low(m)) /\ Cardinality(Low(m)) \in Nat
  BY <1>1, PartsFinite, LargestPart
<1>3. \A p \in Page(m) : held[p] \in Nat /\ held[p] <= M
  BY LargestPart, MultipartAssumption DEF Page, BucketInv
<1>4. BytesOf(held, Page(m)) <= Cardinality(Page(m)) * M
  BY <1>2, <1>3, BytesBounded
<1>5. BytesOf(held, Page(m)) \in Nat
  BY PageCounts
<1>6. /\ Cardinality(Low(m) \cup Page(m)) = Cardinality(Low(m)) + Cardinality(Page(m))
      /\ Cardinality(Low(m) \cup Page(m)) <= Cardinality(U)
  <2>1. Cardinality(Low(m) \cup Page(m))
          = Cardinality(Low(m)) + Cardinality(Page(m)) - Cardinality(Low(m) \cap Page(m))
    BY <1>2, FS_Union
  <2>2. Cardinality(Low(m) \cap Page(m)) = 0
    BY <1>1, FS_EmptySet
  <2>3. Cardinality(Low(m) \cup Page(m)) <= Cardinality(U)
    BY <1>1, <1>2, FS_Subset
  <2> QED BY <1>2, <2>1, <2>2, <2>3
<1>7. \A a, b, u, x \in Nat :
         t <= a * M /\ x <= b * M /\ a + b <= u => t + x <= u * M
  <2> SUFFICES ASSUME NEW a \in Nat, NEW b \in Nat, NEW u \in Nat, NEW x \in Nat,
                      t <= a * M, x <= b * M, a + b <= u
               PROVE  t + x <= u * M
    OBVIOUS
  <2>1. /\ (a + b) * M = a * M + b * M /\ (a + b) * M <= u * M
        /\ a * M \in Nat /\ b * M \in Nat /\ u * M \in Nat
    BY <1>2, Multiples
  <2> QED BY <2>1
<1> HIDE DEF M
<1>8. t <= Cardinality(Low(m)) * M
  BY DEF M
<1>9. t + BytesOf(held, Page(m)) <= Cardinality(U) * M
  BY <1>2, <1>4, <1>5, <1>6, <1>7, <1>8
<1> QED BY <1>9 DEF M

(* What a call has counted is never more than every part once.             *)
LEMMA TotalsBounded == Spec => []TotalInv
<1> DEFINE M == Max(Size)
<1>1. Init => TotalInv
  <2> SUFFICES ASSUME Init, NEW c \in Call
               PROVE  /\ total[c] <= Cardinality(Part) * M
                      /\ total[c] <= Cardinality(Low(marker[c])) * M
    BY DEF TotalInv
  <2>1. total[c] = 0
    BY DEF Init
  <2>2. /\ Cardinality(Part) * M \in Nat
        /\ Cardinality(Low(marker[c])) * M \in Nat
    BY PartsFinite DEF Low
  <2> QED BY <2>1, <2>2
<1>2. MultipartInv /\ TotalInv /\ [Next]_vars => TotalInv'
  <2> SUFFICES ASSUME MultipartInv, TotalInv, [Next]_vars, NEW d \in Call
               PROVE  /\ total'[d] <= Cardinality(Part) * M
                      /\ pc'[d] \in {"idle", "list"} =>
                            total'[d] <= Cardinality(Low(marker[d])') * M
    BY DEF TotalInv, Low
  <2>0. /\ total[d] <= Cardinality(Part) * M
        /\ pc[d] \in {"idle", "list"} =>
              total[d] <= Cardinality(Low(marker[d])) * M
    BY DEF TotalInv
  <2>1. CASE /\ total'[d] = total[d] /\ marker'[d] = marker[d]
             /\ pc'[d] \in {"idle", "list"} => pc[d] \in {"idle", "list"}
    BY <2>0, <2>1 DEF Low
  <2>2. CASE \E c \in Call : ListParts(c)
    <3>1. PICK c \in Call : ListParts(c)
      BY <2>2
    <3>2. CASE d # c
      <4>1. total'[d] = total[d] /\ marker'[d] = marker[d] /\ pc'[d] = pc[d]
        BY <3>1, <3>2 DEF ListParts, NoSuchUpload, Failed, Goto, MultipartInv
      <4> QED BY <2>1, <4>1
    <3>3. CASE d = c
      <4> DEFINE m == marker[d]
                 sum == total[d] + BytesOf(held, Page(m))
      <4>1. /\ pc[d] = "list" /\ m \in Nat /\ total[d] \in Nat /\ BucketInv
            /\ total[d] <= Cardinality(Low(m)) * M
        BY <2>0, <3>1, <3>3 DEF ListParts, MultipartInv
      <4>2. CASE UNCHANGED <<marker, total>>
        BY <2>1, <4>1, <4>2
      <4>3. CASE total' = [total EXCEPT ![d] = sum]
        <5>1. Page(m) \in SUBSET Part /\ Low(m) \in SUBSET Part
              /\ DOMAIN held \in SUBSET Part /\ Part \in SUBSET Part
          BY <4>1 DEF Page, Low, BucketInv
        <5>2. total'[d] = sum
          BY <4>3 DEF MultipartInv
        <5>3. sum <= Cardinality(Part) * M
          BY <4>1, <5>1, PageBounded
        <5>4. CASE pc'[d] \notin {"idle", "list"}
          <6> HIDE DEF sum
          <6> QED BY <5>2, <5>3, <5>4
        <5>5. CASE pc'[d] \in {"idle", "list"}
          <6>1. Truncated(m) /\ marker' = [marker EXCEPT ![d] = Max(Page(m))]
            BY <3>1, <3>3, <4>1, <5>5 DEF ListParts, NoSuchUpload, Failed, Goto, MultipartInv
          <6> DEFINE U == Low(Max(Page(m)))
          <6>2. /\ Max(Page(m)) \in Page(m)
                /\ Listed(m) \cup Page(m) = Listed(Max(Page(m)))
            BY <4>1, <6>1, PageFollows
          <6>3. m < Max(Page(m)) /\ Max(Page(m)) \in Nat
            BY <4>1, <5>1, <6>2, HeldFinite DEF Page
          <6>4. U \in SUBSET Part /\ Low(m) \subseteq U
            <7>1. ASSUME NEW p \in Part, p <= m PROVE p <= Max(Page(m))
              <8>1. \A x, y, z \in Nat : x <= y /\ y < z => x <= z
                OBVIOUS
              <8> HIDE DEF m
              <8> QED BY <4>1, <6>3, <7>1, <8>1, MultipartAssumption
            <7> QED BY <7>1 DEF Low
          <6>5. Page(m) \subseteq U
            BY <5>1, <6>2 DEF Low, Listed
          <6>6. sum <= Cardinality(U) * M
            <7> HIDE DEF U
            <7> QED BY <4>1, <6>4, <6>5, PageBounded
          <6>7. Low(marker[d])' = U
            BY <6>1 DEF Low, MultipartInv
          <6> HIDE DEF sum, U
          <6> QED BY <5>2, <5>3, <6>6, <6>7
        <5> QED BY <5>4, <5>5
      <4> QED BY <3>1, <3>3, <4>2, <4>3 DEF ListParts, BytesOf
    <3> QED BY <3>2, <3>3
  <2>3. CASE UNCHANGED <<total, marker>> /\ ~ \E c \in Call : ListParts(c)
    <3>1. pc'[d] \in {"idle", "list"} => pc[d] \in {"idle", "list"}
      BY <2>3 DEF Next, vars, InitUpload, PresignPart, PutPart, ExpireSession,
                  Complete, AbortOversized, FinishUpload, Abort, NoSuchUpload,
                  Failed, Goto, MultipartInv
    <3> QED BY <2>1, <2>3, <3>1
  <2> QED
    BY <2>2, <2>3 DEF Next, vars, InitUpload, PresignPart, PutPart, ExpireSession,
                      Complete, AbortOversized, FinishUpload, Abort
<1> QED BY <1>1, <1>2, MultipartInvariance, PTL DEF Spec

(* Type correctness.                                                       *)
THEOREM MultipartTypeCorrect == Spec => []TypeOK
<1> DEFINE Rest == /\ session \in {"none", "open", "gone", "refused"}
                   /\ faults \in 0 .. MaxFaults
<1>1. Init => Rest
  BY MultipartAssumption DEF Init
<1>2. Rest /\ [Next]_vars => Rest'
  <2> SUFFICES ASSUME Rest, [Next]_vars PROVE Rest'
    OBVIOUS
  <2>1. faults' \in 0 .. MaxFaults
    <3>1. NoFault \/ Fault
      BY DEF Next, vars, InitUpload, PresignPart, PutPart, ExpireSession,
             Complete, ListParts, AbortOversized, FinishUpload, Abort, NoFault
    <3> QED BY <3>1, MultipartAssumption DEF NoFault, Fault
  <2>2. session' \in {session, "open", "gone", "refused"}
    BY DEF Next, vars, InitUpload, PresignPart, PutPart, ExpireSession, Complete,
           ListParts, AbortOversized, FinishUpload, Abort, Assemble, sessionVars
  <2> QED BY <2>1, <2>2
<1>3. Rest /\ MultipartInv /\ UploadInv /\ TotalInv /\ object \in Object => TypeOK
  <2> SUFFICES ASSUME Rest, MultipartInv, UploadInv, TotalInv, object \in Object
               PROVE  TypeOK
    OBVIOUS
  <2>1. held \in Parts
    <3>1. DOMAIN held \in SUBSET Part /\ held \in [DOMAIN held -> Size]
      BY DEF MultipartInv, BucketInv
    <3> QED BY <3>1 DEF Parts
  <2>2. object # <<>> => object.parts \in Parts /\ object.by \in Call
    BY DEF Object
  <2>3. ASSUME session \in {"open", "gone"}
        PROVE  upload.size \in DeclaredSize /\ upload.count \in 1 .. MaxParts
    <3>1. /\ upload.size \in DeclaredSize /\ upload.count = PartCount(upload.size)
          /\ upload.count <= MaxParts /\ upload.size \in Nat \ {0}
      BY <2>3, MultipartAssumption DEF UploadInv
    <3>2. \A n, d \in Nat \ {0} : (n + d - 1) \div d \in Nat \ {0}
      <4> SUFFICES ASSUME NEW n \in Nat \ {0}, NEW d \in Nat \ {0}
                   PROVE  (n + d - 1) \div d \in Nat \ {0}
        OBVIOUS
      <4> DEFINE q == (n + d - 1) \div d
      <4>1. q \in Int /\ n + d - 1 < q * d + d
        OBVIOUS
      <4>2. q * d > 0
        BY <4>1
      <4> HIDE DEF q
      <4>3. q \in Nat \ {0}
        BY <4>1, <4>2
      <4> QED BY <4>3 DEF q
    <3>3. upload.count \in Nat \ {0}
      BY <3>1, <3>2, MultipartAssumption DEF PartCount
    <3> QED BY <3>1, <3>3, MultipartAssumption
  <2>4. total \in [Call -> 0 .. Cardinality(Part) * Max(Size)]
    <3>1. Cardinality(Part) * Max(Size) \in Nat
      BY PartsFinite
    <3>2. \A c \in Call : total[c] \in Nat /\ total[c] <= Cardinality(Part) * Max(Size)
      BY DEF MultipartInv, TotalInv
    <3>3. \A c \in Call : total[c] \in 0 .. Cardinality(Part) * Max(Size)
      BY <3>1, <3>2
    <3> QED BY <3>3 DEF MultipartInv
  <2> QED BY <2>1, <2>2, <2>3, <2>4 DEF TypeOK, MultipartInv, BucketInv, Label
<1> QED BY <1>1, <1>2, <1>3, MultipartInvariance, UploadKept, TotalsBounded,
           ObjectTyped, PTL DEF Spec
=============================================================================
