----------------------------- MODULE ListProofs -----------------------------
(***************************************************************************)
(* What StableSort's operators and the joining of lists return, for every  *)
(* sequence and every comparison sort.SliceStable may be given: a strict   *)
(* weak order.                                                             *)
(* The k-th place picked is the one with k - 1 places before it; that this *)
(* names exactly one place for each k is the pigeonhole principle on the   *)
(* ranks, and everything else follows from it.                             *)
(***************************************************************************)
EXTENDS StableSort, SequencesExt, FiniteSetTheorems, TLAPS

\* What Go's sort documents of a less function.
StrictWeakOrder(less, places) ==
    /\ \A i, j \in places : <<i, j>> \in less => <<j, i>> \notin less
    /\ \A i, j, k \in places :
          <<i, k>> \in less => <<i, j>> \in less \/ <<j, k>> \in less

\* order lists the places, each once, the ones that come first first.
Enumerates(order, places, less) ==
    /\ order \in [1..Cardinality(places) -> places]
    /\ \A p \in places : \E k \in 1..Cardinality(places) : order[k] = p
    /\ \A j, k \in 1..Cardinality(places) :
          j < k => order[j] # order[k] /\ ComesFirst(less, order[j], order[k])

Along(s, order, places) == [k \in 1..Cardinality(places) |-> s[order[k]]]

\* Ties broken by place, a strict weak order is a strict total one.
LEMMA ComesFirstIsTotal ==
  ASSUME NEW places \in SUBSET Nat, NEW less, StrictWeakOrder(less, places)
  PROVE  /\ \A i \in places : ~ComesFirst(less, i, i)
         /\ \A i, j \in places : i # j => ComesFirst(less, i, j) \/ ComesFirst(less, j, i)
         /\ \A i, j, k \in places :
               ComesFirst(less, i, j) /\ ComesFirst(less, j, k) => ComesFirst(less, i, k)
  <1>1. \A i \in places : ~ComesFirst(less, i, i)
    BY DEF StrictWeakOrder, ComesFirst
  <1>2. \A i, j \in places : i # j => ComesFirst(less, i, j) \/ ComesFirst(less, j, i)
    BY DEF ComesFirst
  <1>3. ASSUME NEW i \in places, NEW j \in places, NEW k \in places,
               ComesFirst(less, i, j), ComesFirst(less, j, k)
        PROVE  ComesFirst(less, i, k)
    <2>1. CASE <<i, k>> \in less
      BY <2>1 DEF ComesFirst
    <2>2. CASE <<i, k>> \notin less /\ <<i, j>> \in less
      <3>1. <<k, j>> \in less
        BY <2>2 DEF StrictWeakOrder
      <3>. QED  BY <1>3, <3>1 DEF ComesFirst, StrictWeakOrder
    <2>3. CASE <<i, k>> \notin less /\ <<i, j>> \notin less
      <3>1. <<j, i>> \notin less /\ i < j
        BY <1>3, <2>3 DEF ComesFirst
      <3>2. CASE <<j, k>> \in less
        BY <2>3, <3>1, <3>2 DEF StrictWeakOrder
      <3>3. CASE <<j, k>> \notin less
        <4>1. <<k, j>> \notin less /\ j < k
          BY <1>3, <3>3 DEF ComesFirst
        <4>2. <<k, i>> \notin less
          BY <3>1, <4>1 DEF StrictWeakOrder
        <4>. QED  BY <3>1, <4>1, <4>2 DEF ComesFirst
      <3>. QED  BY <3>2, <3>3
    <2>. QED  BY <2>1, <2>2, <2>3
  <1>. QED  BY <1>1, <1>2, <1>3

\* The rank of a place: one more than the places that come before it.
RankIn(places, less, j) == Cardinality({i \in places : ComesFirst(less, i, j)}) + 1

\* Ranks grow along the order, so no two places share one, and every number
\* from 1 to the number of places is one.
LEMMA RanksAreOneToOne ==
  ASSUME NEW places \in SUBSET Nat, IsFiniteSet(places),
         NEW less, StrictWeakOrder(less, places)
  PROVE  /\ \A j \in places : RankIn(places, less, j) \in 1..Cardinality(places)
         /\ \A i, j \in places :
               ComesFirst(less, i, j) => RankIn(places, less, i) < RankIn(places, less, j)
         /\ \A i, j \in places :
               RankIn(places, less, i) = RankIn(places, less, j) => i = j
         /\ \A k \in 1..Cardinality(places) :
               \E j \in places : RankIn(places, less, j) = k
  <1>. DEFINE n == Cardinality(places)
              Ahead(j) == {i \in places : ComesFirst(less, i, j)}
              rank == [j \in places |-> RankIn(places, less, j)]
  <1>1. n \in Nat
    BY FS_CardinalityType
  <1>2. ASSUME NEW j \in places
        PROVE  /\ IsFiniteSet(Ahead(j)) /\ Cardinality(Ahead(j)) \in Nat
               /\ Cardinality(Ahead(j)) < n
    <2>1. Ahead(j) \in SUBSET places /\ j \notin Ahead(j)
      BY ComesFirstIsTotal
    <2>. HIDE DEF Ahead
    <2>2. IsFiniteSet(Ahead(j)) /\ Cardinality(Ahead(j)) <= n /\ Cardinality(Ahead(j)) # n
      BY <2>1, FS_Subset
    <2>3. Cardinality(Ahead(j)) \in Nat
      BY <2>2, FS_CardinalityType
    <2>. QED  BY <1>1, <2>2, <2>3
  <1>3. \A j \in places : RankIn(places, less, j) \in 1..n
    BY <1>1, <1>2 DEF RankIn
  <1>4. ASSUME NEW i \in places, NEW j \in places, ComesFirst(less, i, j)
        PROVE  RankIn(places, less, i) < RankIn(places, less, j)
    <2>1. Ahead(i) \in SUBSET Ahead(j) /\ i \in Ahead(j) /\ i \notin Ahead(i)
      BY <1>4, ComesFirstIsTotal
    <2>2. /\ IsFiniteSet(Ahead(i)) /\ Cardinality(Ahead(i)) \in Nat
          /\ IsFiniteSet(Ahead(j)) /\ Cardinality(Ahead(j)) \in Nat
      BY <1>2
    <2>3. Cardinality(Ahead(i)) < Cardinality(Ahead(j))
      <3>. HIDE DEF Ahead
      <3>. QED  BY <2>1, <2>2, FS_Subset
    <2>. QED  BY <2>2, <2>3 DEF RankIn
  <1>5. ASSUME NEW i \in places, NEW j \in places,
               RankIn(places, less, i) = RankIn(places, less, j)
        PROVE  i = j
    <2>1. RankIn(places, less, i) \in Nat
      BY <1>1, <1>3
    <2>. QED  BY <1>4, <1>5, <2>1, ComesFirstIsTotal
  <1>6. rank \in Injection(places, 1..n)
    BY <1>3, <1>5 DEF Injection, IsInjective
  <1>7. rank \in Surjection(places, 1..n)
    <2>1. IsFiniteSet(1..n) /\ Cardinality(1..n) = n
      BY <1>1, FS_Interval
    <2>. HIDE DEF rank
    <2>. QED  BY <1>6, <2>1, FS_Injection
  <1>8. \A k \in 1..n : \E j \in places : RankIn(places, less, j) = k
    BY <1>7 DEF Surjection
  <1>. QED  BY <1>3, <1>4, <1>5, <1>8

\* Picked lists the elements of s at every one of the places, each place
\* once, in order.
THEOREM PickedInOrder ==
  ASSUME NEW s, NEW places \in SUBSET Nat, IsFiniteSet(places),
         NEW less, StrictWeakOrder(less, places)
  PROVE  \E order : /\ Enumerates(order, places, less)
                    /\ Picked(s, places, less) = Along(s, order, places)
  <1>. DEFINE n == Cardinality(places)
              order == [k \in 1..n |-> CHOOSE j \in places : RankIn(places, less, j) = k]
  <1>1. \A k \in 1..n : order[k] \in places /\ RankIn(places, less, order[k]) = k
    <2>. SUFFICES ASSUME NEW k \in 1..n
                  PROVE  order[k] \in places /\ RankIn(places, less, order[k]) = k
      OBVIOUS
    <2>1. \E j \in places : RankIn(places, less, j) = k
      BY RanksAreOneToOne
    <2>. QED  BY <2>1
  <1>2. Picked(s, places, less) = Along(s, order, places)
    BY DEF Picked, RankIn, Along
  <1>3. order \in [1..n -> places]
    BY <1>1
  <1>. HIDE DEF order
  <1>4. ASSUME NEW p \in places PROVE \E k \in 1..n : order[k] = p
    <2>. DEFINE k == RankIn(places, less, p)
    <2>1. k \in 1..n
      BY RanksAreOneToOne
    <2>2. order[k] \in places /\ RankIn(places, less, order[k]) = k
      BY <1>1, <2>1
    <2>3. order[k] = p
      <3>1. \A i, j \in places :
               RankIn(places, less, i) = RankIn(places, less, j) => i = j
        BY RanksAreOneToOne
      <3>. QED  BY <2>2, <3>1
    <2>. QED  BY <2>1, <2>3
  <1>5. ASSUME NEW j \in 1..n, NEW k \in 1..n, j < k
        PROVE  order[j] # order[k] /\ ComesFirst(less, order[j], order[k])
    <2>1. n \in Nat
      BY FS_CardinalityType
    <2>2. /\ order[j] \in places /\ RankIn(places, less, order[j]) = j
          /\ order[k] \in places /\ RankIn(places, less, order[k]) = k
      BY <1>1
    <2>3. order[j] # order[k]
      BY <1>5, <2>1, <2>2
    <2>4. ~ComesFirst(less, order[k], order[j])
      <3>1. ComesFirst(less, order[k], order[j])
              => RankIn(places, less, order[k]) < RankIn(places, less, order[j])
        BY <2>2, RanksAreOneToOne
      <3>. QED  BY <1>5, <2>1, <2>2, <3>1
    <2>. QED  BY <2>2, <2>3, <2>4, ComesFirstIsTotal
  <1>. QED  BY <1>2, <1>3, <1>4, <1>5 DEF Enumerates

\* So it has one element per place, each of them from a place, and every place
\* is shown.
LEMMA PickedShowsAll ==
  ASSUME NEW s, NEW places \in SUBSET Nat, IsFiniteSet(places),
         NEW less, StrictWeakOrder(less, places)
  PROVE  /\ Cardinality(places) \in Nat
         /\ DOMAIN Picked(s, places, less) = 1..Cardinality(places)
         /\ Len(Picked(s, places, less)) = Cardinality(places)
         /\ \A k \in 1..Cardinality(places) :
               \E p \in places : Picked(s, places, less)[k] = s[p]
         /\ \A p \in places :
               \E k \in 1..Cardinality(places) : Picked(s, places, less)[k] = s[p]
         /\ \A S : (\A p \in places : s[p] \in S) => Picked(s, places, less) \in Seq(S)
  <1>1. Cardinality(places) \in Nat
    BY FS_CardinalityType
  <1>2. PICK order : /\ Enumerates(order, places, less)
                     /\ Picked(s, places, less) = Along(s, order, places)
    BY PickedInOrder
  <1>. DEFINE n == Cardinality(places)
              q == Picked(s, places, less)
  <1>3. \A k \in 1..n : order[k] \in places /\ q[k] = s[order[k]]
    BY <1>2 DEF Enumerates, Along
  <1>4. DOMAIN q = 1..n
    BY <1>2 DEF Along
  <1>5. \A p \in places : \E k \in 1..n : q[k] = s[p]
    BY <1>2, <1>3 DEF Enumerates
  <1>6. Len(q) = n
    BY <1>1, <1>2 DEF Along
  <1>7. ASSUME NEW S, \A p \in places : s[p] \in S
        PROVE  q \in Seq(S)
    <2>1. \A k \in 1..n : s[order[k]] \in S
      BY <1>3, <1>7
    <2>2. [k \in 1..n |-> s[order[k]]] \in [1..n -> S]
      BY <2>1
    <2>. QED  BY <1>1, <1>2, <2>2 DEF Along
  <1>. QED  BY <1>1, <1>3, <1>4, <1>5, <1>6, <1>7

\* Without a comparison the places come in their own order: a filter.
LEMMA NoOrderIsStrictWeak == \A places : StrictWeakOrder({}, places)
  BY DEF StrictWeakOrder

LEMMA FirstNumbers == \A n \in Nat : IsFiniteSet(1..n) /\ Cardinality(1..n) = n
  BY FS_Interval

LEMMA TwoShareAPlace ==
  ASSUME NEW m \in Nat, NEW n \in Nat, m < n, NEW f \in [1..n -> 1..m]
  PROVE  \E i, j \in 1..n : i # j /\ f[i] = f[j]
  <1>1. /\ IsFiniteSet(1..n) /\ Cardinality(1..n) = n
        /\ IsFiniteSet(1..m) /\ Cardinality(1..m) = m
    BY FirstNumbers
  <1>2. Cardinality(1..m) < Cardinality(1..n)
    BY <1>1
  <1>. QED  BY <1>1, <1>2, FS_PigeonHole

\* The first of some places.
LEMMA LeastPlace ==
  ASSUME NEW places \in SUBSET Nat, IsFiniteSet(places), places # {}
  PROVE  \E k \in places : \A j \in places : k <= j
  <1>1. PICK order : Enumerates(order, places, {})
    BY NoOrderIsStrictWeak, PickedInOrder
  <1>2. Cardinality(places) \in Nat /\ Cardinality(places) # 0
    BY FS_CardinalityType, FS_EmptySet
  <1>3. order[1] \in places
    BY <1>1, <1>2 DEF Enumerates
  <1>4. ASSUME NEW j \in places PROVE order[1] <= j
    <2>1. PICK q \in 1..Cardinality(places) : order[q] = j
      BY <1>1 DEF Enumerates
    <2>2. CASE q = 1
      BY <1>3, <2>1, <2>2
    <2>3. CASE q # 1
      <3>1. ComesFirst({}, order[1], j)
        BY <1>1, <1>2, <2>1, <2>3 DEF Enumerates
      <3>2. order[1] \in Nat /\ j \in Nat /\ order[1] < j
        BY <1>3, <3>1 DEF ComesFirst
      <3>. QED  BY <3>2
    <2>. QED  BY <2>2, <2>3
  <1>. QED  BY <1>3, <1>4

\* The last of some places.
LEMMA GreatestPlace ==
  ASSUME NEW places \in SUBSET Nat, IsFiniteSet(places), places # {}
  PROVE  \E k \in places : \A j \in places : j <= k
  <1>. DEFINE n == Cardinality(places)
  <1>1. PICK order : Enumerates(order, places, {})
    BY NoOrderIsStrictWeak, PickedInOrder
  <1>2. n \in Nat /\ n # 0 /\ n \in 1..n
    BY FS_CardinalityType, FS_EmptySet
  <1>3. order[n] \in places
    BY <1>1, <1>2 DEF Enumerates
  <1>4. ASSUME NEW j \in places PROVE j <= order[n]
    <2>1. PICK q \in 1..n : order[q] = j
      BY <1>1 DEF Enumerates
    <2>2. CASE q = n
      BY <1>3, <2>1, <2>2
    <2>3. CASE q # n
      <3>1. ComesFirst({}, j, order[n])
        BY <1>1, <1>2, <2>1, <2>3 DEF Enumerates
      <3>2. order[n] \in Nat /\ j \in Nat /\ j < order[n]
        BY <1>3, <3>1 DEF ComesFirst
      <3>. QED  BY <3>2
    <2>. QED  BY <2>2, <2>3
  <1>. QED  BY <1>3, <1>4

\* A list of all the members of a set, each once, is as long as the set.
LEMMA ListedOnce ==
  ASSUME NEW n \in Nat, NEW T, NEW f \in [1..n -> T],
         \A t \in T : \E k \in 1..n : f[k] = t,
         \A j, k \in 1..n : j < k => f[j] # f[k]
  PROVE  IsFiniteSet(T) /\ Cardinality(T) = n
  <1>1. IsFiniteSet(1..n) /\ Cardinality(1..n) = n
    BY FS_Interval
  <1>2. f \in Surjection(1..n, T)
    BY DEF Surjection
  <1>3. \A j, k \in 1..n : f[j] = f[k] => j = k
    OBVIOUS
  <1>4. f \in Injection(1..n, T)
    BY <1>3 DEF Injection, IsInjective
  <1>. QED  BY <1>1, <1>2, <1>4, FS_Surjection

\* Sorting settles the scores: of two lists in descending order, one with
\* every score of the other at least as often is nowhere below it.
LEMMA DescendingAgree ==
  ASSUME NEW n \in Nat, NEW f \in [1..n -> Int], NEW g \in [1..n -> Int],
         \A j, k \in 1..n : j < k => f[j] >= f[k] /\ g[j] >= g[k],
         NEW p \in [1..n -> 1..n],
         \A j, k \in 1..n : j # k => p[j] # p[k],
         \A k \in 1..n : g[p[k]] = f[k]
  PROVE  \A k \in 1..n : f[k] <= g[k]
  <1>. SUFFICES ASSUME NEW k \in 1..n, f[k] > g[k] PROVE FALSE
    OBVIOUS
  <1>. DEFINE q == [j \in 1..k |-> p[j]]
  <1>1. ASSUME NEW j \in 1..k PROVE j \in 1..n /\ p[j] \in 1..(k - 1)
    <2>1. j \in 1..n /\ p[j] \in 1..n /\ f[j] \in Int /\ f[k] \in Int /\ g[k] \in Int
      OBVIOUS
    <2>2. f[j] >= f[k]
      <3>1. j = k \/ j < k
        OBVIOUS
      <3>. QED  BY <2>1, <3>1
    <2>3. g[p[j]] > g[k]
      <3>1. g[p[j]] = f[j]
        BY <2>1
      <3>. QED  BY <2>1, <2>2, <3>1
    <2>4. ~(k < p[j])
      <3>1. g[p[j]] \in Int /\ (k < p[j] => g[k] >= g[p[j]])
        BY <2>1
      <3>. QED  BY <2>1, <2>3, <3>1
    <2>5. k # p[j]
      BY <2>1, <2>3
    <2>. QED  BY <2>1, <2>4, <2>5
  <1>2. q \in [1..k -> 1..(k - 1)]
    BY <1>1
  <1>3. \E i, j \in 1..k : i # j /\ q[i] = q[j]
    <2>1. k \in Nat /\ k - 1 \in Nat /\ k - 1 < k
      OBVIOUS
    <2>. HIDE DEF q
    <2>. QED  BY <1>2, <2>1, TwoShareAPlace
  <1>. QED  BY <1>1, <1>3

\* s[:n] keeps the first n elements, or all of them.
LEMMA TruncateIsPrefix ==
  ASSUME NEW S, NEW s \in Seq(S), NEW n \in Nat
  PROVE  LET m == IF n < Len(s) THEN n ELSE Len(s)
         IN  /\ Truncate(s, n) \in Seq(S)
             /\ Len(Truncate(s, n)) = m
             /\ \A k \in 1..m : Truncate(s, n)[k] = s[k]
  BY DEF Truncate

\* The pairs of places of s whose elements rel orders: what SliceStable makes
\* of a less function on elements.
Pairs(s, rel) == {p \in (DOMAIN s) \X (DOMAIN s) : <<s[p[1]], s[p[2]]>> \in rel}

\* A strict weak order of elements is one of their places.
LEMMA PairsStrictWeak ==
  ASSUME NEW S, NEW rel, StrictWeakOrder(rel, S), NEW s \in Seq(S)
  PROVE  \A places \in SUBSET DOMAIN s : StrictWeakOrder(Pairs(s, rel), places)
  <1>1. \A i, j \in DOMAIN s : <<i, j>> \in Pairs(s, rel) <=> <<s[i], s[j]>> \in rel
    BY DEF Pairs
  <1>2. \A i \in DOMAIN s : s[i] \in S
    OBVIOUS
  <1>. SUFFICES ASSUME NEW places \in SUBSET DOMAIN s
                PROVE  StrictWeakOrder(Pairs(s, rel), places)
    OBVIOUS
  <1>3. \A i, j \in places : <<i, j>> \in Pairs(s, rel) => <<j, i>> \notin Pairs(s, rel)
    BY <1>1, <1>2 DEF StrictWeakOrder
  <1>4. \A i, j, k \in places :
           <<i, k>> \in Pairs(s, rel) => <<i, j>> \in Pairs(s, rel) \/ <<j, k>> \in Pairs(s, rel)
    BY <1>1, <1>2 DEF StrictWeakOrder
  <1>. QED  BY <1>3, <1>4 DEF StrictWeakOrder

\* Filtering and then sorting lists the places that pass, the elements out of
\* doubt in their order and the equal ones in the order of their places in s.
THEOREM FilteredThenSorted ==
  ASSUME NEW S, NEW s \in Seq(S), NEW places \in SUBSET DOMAIN s,
         NEW rel, StrictWeakOrder(rel, S)
  PROVE  LET h == Picked(s, places, {})
         IN  \E order : /\ Enumerates(order, places, Pairs(s, rel))
                        /\ Picked(h, DOMAIN h, Pairs(h, rel)) = Along(s, order, places)
  <1>. DEFINE n == Cardinality(places)
              h == Picked(s, places, {})
  <1>1. places \in SUBSET Nat /\ IsFiniteSet(places) /\ n \in Nat
    <2>1. places \in SUBSET (1..Len(s)) /\ IsFiniteSet(1..Len(s))
      BY FS_Interval
    <2>. QED  BY <2>1, FS_Subset, FS_CardinalityType
  <1>2. PICK o1 : Enumerates(o1, places, {}) /\ h = Along(s, o1, places)
    BY <1>1, NoOrderIsStrictWeak, PickedInOrder
  <1>3. h \in Seq(S) /\ DOMAIN h = 1..n
    BY <1>1, NoOrderIsStrictWeak, PickedShowsAll
  <1>. HIDE DEF h, n
  <1>4. 1..n \in SUBSET Nat /\ IsFiniteSet(1..n) /\ Cardinality(1..n) = n
    <2>1. 1..n \in SUBSET Nat
      BY <1>1
    <2>. QED  BY <1>1, <2>1, FS_Interval
  <1>5. StrictWeakOrder(Pairs(h, rel), 1..n)
    BY <1>3, PairsStrictWeak
  <1>6. PICK o2 : /\ Enumerates(o2, 1..n, Pairs(h, rel))
                  /\ Picked(h, 1..n, Pairs(h, rel)) = Along(h, o2, 1..n)
    BY <1>4, <1>5, PickedInOrder
  <1>7. /\ o1 \in [1..n -> places] /\ o2 \in [1..n -> 1..n]
        /\ \A p \in places : \E k \in 1..n : o1[k] = p
        /\ \A k \in 1..n : \E m \in 1..n : o2[m] = k
        /\ \A k \in 1..n : h[k] = s[o1[k]]
    BY <1>2, <1>4, <1>6 DEF Enumerates, Along, n
  <1>. DEFINE order == [k \in 1..n |-> o1[o2[k]]]
  <1>8. Along(h, o2, 1..n) = Along(s, order, places)
    BY <1>4, <1>7 DEF Along, n
  <1>9. order \in [1..n -> places]
    BY <1>7
  <1>10. ASSUME NEW p \in places PROVE \E k \in 1..n : order[k] = p
    BY <1>7
  <1>11. ASSUME NEW j \in 1..n, NEW k \in 1..n, j < k
         PROVE  order[j] # order[k] /\ ComesFirst(Pairs(s, rel), order[j], order[k])
    <2>. DEFINE a == o2[j]  b == o2[k]
    <2>1. a \in 1..n /\ b \in 1..n /\ a # b /\ ComesFirst(Pairs(h, rel), a, b)
      BY <1>4, <1>6, <1>7, <1>11 DEF Enumerates
    <2>2. /\ o1[a] \in places /\ o1[b] \in places
          /\ a < b => o1[a] < o1[b]
          /\ b < a => o1[b] < o1[a]
      BY <1>2, <1>7, <2>1 DEF Enumerates, ComesFirst, n
    <2>3. \A i, m \in 1..n : <<i, m>> \in Pairs(h, rel) <=> <<s[o1[i]], s[o1[m]]>> \in rel
      BY <1>3, <1>7 DEF Pairs
    <2>4. \A i, m \in DOMAIN s : <<i, m>> \in Pairs(s, rel) <=> <<s[i], s[m]>> \in rel
      BY DEF Pairs
    <2>5. ComesFirst(Pairs(s, rel), o1[a], o1[b])
      <3>1. <<a, b>> \in Pairs(h, rel) <=> <<o1[a], o1[b]>> \in Pairs(s, rel)
        BY <2>1, <2>2, <2>3, <2>4
      <3>2. <<b, a>> \in Pairs(h, rel) <=> <<o1[b], o1[a]>> \in Pairs(s, rel)
        BY <2>1, <2>2, <2>3, <2>4
      <3>. QED  BY <2>1, <2>2, <3>1, <3>2 DEF ComesFirst
    <2>6. o1[a] # o1[b]
      <3>1. a \in Nat /\ b \in Nat /\ o1[a] \in Nat /\ o1[b] \in Nat
        BY <1>1, <2>1, <2>2
      <3>. QED  BY <2>1, <2>2, <3>1
    <2>. QED  BY <2>5, <2>6
  <1>12. Enumerates(order, places, Pairs(s, rel))
    BY <1>9, <1>10, <1>11 DEF Enumerates, n
  <1>13. Picked(h, DOMAIN h, Pairs(h, rel)) = Along(s, order, places)
    BY <1>3, <1>6, <1>8
  <1>. QED  BY <1>12, <1>13 DEF h

\* A set has as many members as one can list different ones.
LEMMA AtLeastSoMany ==
  ASSUME NEW T, IsFiniteSet(T), NEW n \in Nat, NEW f \in [1..n -> T],
         \A j, k \in 1..n : j # k => f[j] # f[k]
  PROVE  Cardinality(T) >= n
  <1>1. IsFiniteSet(1..n) /\ Cardinality(1..n) = n
    BY FirstNumbers
  <1>2. f \in Injection(1..n, T)
    BY DEF Injection, IsInjective
  <1>3. Cardinality(1..n) <= Cardinality(T) /\ Cardinality(T) \in Nat
    BY <1>2, FS_Injection, FS_CardinalityType
  <1>. QED  BY <1>1, <1>3

\* A Go slice is a sequence of whatever it holds; so is what is made place by
\* place.
LEMMA ListShape ==
  ASSUME NEW s, IsList(s)
  PROVE  /\ Len(s) \in Nat /\ DOMAIN s = 1..Len(s)
         /\ \A S : (\A k \in DOMAIN s : s[k] \in S) => s \in Seq(S)
  <1>1. PICK T : s \in Seq(T)
    BY DEF IsList
  <1>2. Len(s) \in Nat /\ DOMAIN s = 1..Len(s) /\ s = [k \in 1..Len(s) |-> s[k]]
    BY <1>1
  <1>. QED  BY <1>2

LEMMA ListMade ==
  ASSUME NEW s, NEW n \in Nat, DOMAIN s = 1..n, s = [k \in 1..n |-> s[k]]
  PROVE  IsList(s) /\ Len(s) = n
  <1>1. s \in Seq({s[k] : k \in 1..n}) /\ Len(s) = n
    OBVIOUS
  <1>. QED  BY <1>1 DEF IsList

\* Sorted by a number, greatest first, and cut: whatever is left out, the list
\* is full and nothing in it weighs less.
KeptTop(top, s, level, most, from) ==
    /\ from \in [DOMAIN top -> DOMAIN s]
    /\ \A j, k \in DOMAIN top : j # k => from[j] # from[k]
    /\ \A k \in DOMAIN top : top[k] = s[from[k]]
    /\ \A j \in DOMAIN s :
          (\A k \in DOMAIN top : from[k] # j)
          => Len(top) = most /\ \A k \in DOMAIN top : level[j] <= level[from[k]]

LEMMA CutKeepsTop ==
  ASSUME NEW s, IsList(s),
         NEW level, \A k \in DOMAIN s : level[k] \in Int,
         NEW most \in Nat,
         NEW less, less = {p \in (DOMAIN s) \X (DOMAIN s) : level[p[1]] > level[p[2]]},
         NEW top, top = Truncate(Picked(s, DOMAIN s, less), most)
  PROVE  /\ IsList(top)
         /\ Len(top) = IF most < Len(s) THEN most ELSE Len(s)
         /\ \E from : KeptTop(top, s, level, most, from)
  <1>1. PICK n \in Nat : n = Len(s) /\ DOMAIN s = 1..n
    BY ListShape
  <1>2. PICK S : s \in Seq(S)
    BY DEF IsList
  <1>. DEFINE m == IF most < n THEN most ELSE n
  <1>3. PICK all : all = Picked(s, DOMAIN s, less)
    OBVIOUS
  <1>4. DOMAIN s = 1..n /\ \A k \in 1..n : s[k] \in S /\ level[k] \in Int
    BY <1>1, <1>2
  <1>5. 1..n \in SUBSET Nat /\ IsFiniteSet(1..n) /\ Cardinality(1..n) = n
    BY FirstNumbers
  <1>6. \A i, j \in 1..n : <<i, j>> \in less <=> level[i] > level[j]
    BY <1>4
  <1>7. StrictWeakOrder(less, 1..n)
    <2>1. \A i, j \in 1..n : <<i, j>> \in less => <<j, i>> \notin less
      BY <1>6
    <2>2. \A i, j, k \in 1..n : <<i, k>> \in less => <<i, j>> \in less \/ <<j, k>> \in less
      BY <1>4, <1>6
    <2>. QED  BY <2>1, <2>2 DEF StrictWeakOrder
  <1>8. PICK order : Enumerates(order, 1..n, less) /\ Picked(s, 1..n, less) = Along(s, order, 1..n)
    BY <1>5, <1>7, PickedInOrder
  <1>9. /\ order \in [1..n -> 1..n]
        /\ \A p \in 1..n : \E k \in 1..n : order[k] = p
        /\ \A j, k \in 1..n : j < k => order[j] # order[k] /\ level[order[k]] <= level[order[j]]
    <2>1. order \in [1..n -> 1..n] /\ \A p \in 1..n : \E k \in 1..n : order[k] = p
      BY <1>5, <1>8 DEF Enumerates
    <2>2. ASSUME NEW j \in 1..n, NEW k \in 1..n, j < k
          PROVE  order[j] # order[k] /\ level[order[k]] <= level[order[j]]
      <3>1. order[j] # order[k] /\ ComesFirst(less, order[j], order[k])
        BY <1>5, <1>8, <2>2 DEF Enumerates
      <3>2. PICK x \in 1..n : x = order[j]
        BY <2>1
      <3>3. PICK y \in 1..n : y = order[k]
        BY <2>1
      <3>4. <<y, x>> \notin less
        BY <1>7, <3>1, <3>2, <3>3 DEF ComesFirst, StrictWeakOrder
      <3>5. level[y] <= level[x]
        BY <1>4, <1>6, <3>4
      <3>. QED  BY <3>1, <3>2, <3>3, <3>5
    <2>. QED  BY <2>1, <2>2
  <1>10. all = [k \in 1..n |-> s[order[k]]]
    BY <1>4, <1>5, <1>8, <1>3 DEF Along
  <1>11. \A k \in 1..n : s[order[k]] \in S
    BY <1>4, <1>9
  <1>12. all \in Seq(S) /\ Len(all) = n /\ \A k \in 1..n : all[k] = s[order[k]]
    BY <1>10, <1>11
  <1>13. m \in Nat /\ \A k \in 1..m : k \in 1..n
    OBVIOUS
  <1>14. top \in Seq(S) /\ Len(top) = m /\ \A k \in 1..m : top[k] = all[k]
    <2>1. top = Truncate(all, most)
      BY <1>3
    <2>2. m = IF most < Len(all) THEN most ELSE Len(all)
      BY <1>12
    <2>3. /\ Truncate(all, most) \in Seq(S)
          /\ Len(Truncate(all, most)) = m
          /\ \A k \in 1..m : Truncate(all, most)[k] = all[k]
      BY <1>12, <2>2, TruncateIsPrefix
    <2>. QED  BY <2>1, <2>3
  <1>. DEFINE from == [k \in 1..m |-> order[k]]
  <1>15. from \in [1..m -> 1..n] /\ \A k \in 1..m : from[k] = order[k]
    BY <1>9, <1>13
  <1>16. \A j, k \in 1..m : j # k => from[j] # from[k]
    <2>1. \A j, k \in 1..m : j # k => j < k \/ k < j
      BY <1>13
    <2>. QED  BY <1>9, <1>13, <1>15, <2>1
  <1>17. \A k \in 1..m : top[k] = s[from[k]]
    BY <1>12, <1>13, <1>14, <1>15
  <1>18. ASSUME NEW j \in 1..n, \A k \in 1..m : from[k] # j
         PROVE  m = most /\ \A k \in 1..m : level[j] <= level[from[k]]
    <2>1. PICK q \in 1..n : order[q] = j
      BY <1>9
    <2>2. q \notin 1..m
      BY <1>15, <1>18, <2>1
    <2>3. m = most /\ \A k \in 1..m : k < q
      BY <2>2
    <2>. HIDE DEF from, m
    <2>. QED  BY <1>9, <1>13, <1>15, <2>1, <2>3
  <1>. HIDE DEF from, m
  <1>19. m \in Nat /\ DOMAIN top = 1..m /\ top = [k \in 1..m |-> top[k]]
    BY <1>13, <1>14
  <1>20. IsList(top)
    BY <1>19, ListMade
  <1>21. KeptTop(top, s, level, most, from)
    BY <1>4, <1>14, <1>15, <1>16, <1>17, <1>18, <1>19 DEF KeptTop
  <1>. QED  BY <1>14, <1>1, <1>20, <1>21 DEF m

-----------------------------------------------------------------------------
(* Joining lists one after the other: SequencesExt's FlattenSeq, which is a *)
(* recursive function.  Its prefixes are reasoned about one by one, by the  *)
(* least of those for which the statement would fail.                       *)

\* Where the elements of a list of lists are, and which of two is met first.
Spots(seqs) == {x \in (1..Len(seqs)) \X Nat : x[2] \in 1..Len(seqs[x[1]])}
Sooner(x, y) == x[1] < y[1] \/ (x[1] = y[1] /\ x[2] < y[2])

\* joined[k] is the first k lists one after the other, for each k up to n.
Joins(joined, seqs, n) ==
    joined = [k \in 1..n |-> IF k = 1 THEN seqs[k] ELSE joined[k - 1] \o seqs[k]]

LEMMA JoinsExist ==
  ASSUME NEW seqs, NEW n \in Nat
  PROVE  \A m \in 1..n : \E joined : Joins(joined, seqs, m)
  <1>. DEFINE Has(m) == \E joined : Joins(joined, seqs, m)
              bad == {m \in 1..n : ~Has(m)}
  <1>1. CASE bad = {}
    BY <1>1
  <1>2. CASE bad # {}
    <2>1. bad \in SUBSET Nat /\ IsFiniteSet(bad)
      <3>1. bad \in SUBSET (1..n) /\ bad \in SUBSET Nat /\ IsFiniteSet(1..n)
        BY FS_Interval
      <3>. HIDE DEF bad
      <3>. QED  BY <3>1, FS_Subset
    <2>2. PICK m \in bad : \A k \in bad : m <= k
      <3>. HIDE DEF bad
      <3>. QED  BY <1>2, <2>1, LeastPlace
    <2>3. m \in 1..n /\ ~Has(m)
      OBVIOUS
    <2>4. CASE m = 1
      <3>1. Joins([k \in 1..1 |-> seqs[k]], seqs, 1)
        BY DEF Joins
      <3>. QED  BY <2>3, <2>4, <3>1
    <2>5. CASE m # 1
      <3>1. m - 1 \in 1..n /\ m - 1 \notin bad
        BY <2>2, <2>3, <2>5
      <3>2. Has(m - 1)
        BY <3>1
      <3>3. PICK g : Joins(g, seqs, m - 1)
        BY <3>2
      <3>. DEFINE f == [k \in 1..m |-> IF k < m THEN g[k] ELSE g[m - 1] \o seqs[m]]
      <3>4. ASSUME NEW k \in 1..m
            PROVE  f[k] = IF k = 1 THEN seqs[k] ELSE f[k - 1] \o seqs[k]
        <4>1. CASE k < m
          <5>1. k \in 1..(m - 1)
            BY <2>3, <4>1
          <5>2. g[k] = IF k = 1 THEN seqs[k] ELSE g[k - 1] \o seqs[k]
            BY <3>3, <5>1 DEF Joins
          <5>3. k # 1 => k - 1 \in 1..m /\ k - 1 < m
            BY <2>3
          <5>. QED  BY <4>1, <5>2, <5>3
        <4>2. CASE ~(k < m)
          <5>1. k = m /\ m - 1 \in 1..m /\ m - 1 < m
            BY <2>3, <2>5, <4>2
          <5>2. f[m] = g[m - 1] \o seqs[m] /\ f[m - 1] = g[m - 1]
            <6>1. m \in 1..m /\ ~(m < m) /\ m - 1 \in 1..m
              BY <2>3, <5>1
            <6>. QED  BY <5>1, <6>1
          <5>. HIDE DEF f
          <5>. QED  BY <2>5, <5>1, <5>2
        <4>. QED  BY <4>1, <4>2
      <3>5. f = [k \in 1..m |-> IF k = 1 THEN seqs[k] ELSE f[k - 1] \o seqs[k]]
        BY <3>4
      <3>. HIDE DEF f
      <3>6. Joins(f, seqs, m)
        BY <3>5 DEF Joins
      <3>. QED  BY <2>3, <3>6
    <2>. QED  BY <2>4, <2>5
  <1>. QED  BY <1>1, <1>2

\* So FlattenSeq is the last of such prefixes.
LEMMA FlattenIsLastJoin ==
  ASSUME NEW seqs, Len(seqs) \in Nat \ {0}
  PROVE  \E joined : Joins(joined, seqs, Len(seqs)) /\ FlattenSeq(seqs) = joined[Len(seqs)]
  <1>. DEFINE n == Len(seqs)
              joined == CHOOSE f : f = [k \in 1..n |-> IF k = 1 THEN seqs[k]
                                                       ELSE f[k - 1] \o seqs[k]]
  <1>1. FlattenSeq(seqs) = joined[n]
    BY DEF FlattenSeq
  <1>2. \E f : Joins(f, seqs, n)
    <2>1. n \in Nat /\ n \in 1..n
      OBVIOUS
    <2>. HIDE DEF n
    <2>. QED  BY <2>1, JoinsExist
  <1>3. Joins(joined, seqs, n)
    BY <1>2 DEF Joins
  <1>. QED  BY <1>1, <1>3

\* The spots of the first n lists are met at the places of their join.
MetAt(spot, joined, seqs, n) ==
    /\ \A k \in 1..Len(joined) :
          /\ spot[k] \in Spots(seqs) /\ spot[k][1] <= n
          /\ joined[k] = seqs[spot[k][1]][spot[k][2]]
    /\ \A x \in Spots(seqs) : x[1] <= n => \E k \in 1..Len(joined) : spot[k] = x
    /\ \A j, k \in 1..Len(joined) : j < k => Sooner(spot[j], spot[k])

LEMMA JoinsMeet ==
  ASSUME NEW S, NEW seqs \in Seq(Seq(S)), NEW joined, Joins(joined, seqs, Len(seqs))
  PROVE  \A n \in 1..Len(seqs) :
            joined[n] \in Seq(S) /\ \E spot : MetAt(spot, joined[n], seqs, n)
  <1>. DEFINE Has(n) == joined[n] \in Seq(S) /\ \E spot : MetAt(spot, joined[n], seqs, n)
              bad == {n \in 1..Len(seqs) : ~Has(n)}
  <1>1. CASE bad = {}
    BY <1>1
  <1>2. CASE bad # {}
    <2>1. bad \in SUBSET Nat /\ IsFiniteSet(bad)
      <3>1. bad \in SUBSET (1..Len(seqs)) /\ bad \in SUBSET Nat /\ IsFiniteSet(1..Len(seqs))
        BY FS_Interval
      <3>. HIDE DEF bad
      <3>. QED  BY <3>1, FS_Subset
    <2>2. PICK n \in bad : \A k \in bad : n <= k
      <3>. HIDE DEF bad
      <3>. QED  BY <1>2, <2>1, LeastPlace
    <2>3. n \in 1..Len(seqs) /\ ~Has(n)
      OBVIOUS
    <2>4. seqs[n] \in Seq(S) /\ Len(seqs[n]) \in Nat
      BY <2>3
    <2>5. joined[n] = IF n = 1 THEN seqs[n] ELSE joined[n - 1] \o seqs[n]
      BY <2>3 DEF Joins
    <2>6. CASE n = 1
      <3>. DEFINE spot == [k \in 1..Len(seqs[1]) |-> <<1, k>>]
      <3>1. joined[1] = seqs[1] /\ joined[1] \in Seq(S)
        BY <2>4, <2>5, <2>6
      <3>2. \A k \in 1..Len(seqs[1]) : spot[k] \in Spots(seqs) /\ spot[k] = <<1, k>>
        BY <2>3, <2>4, <2>6 DEF Spots
      <3>3. ASSUME NEW x \in Spots(seqs), x[1] <= 1
            PROVE  \E k \in 1..Len(seqs[1]) : spot[k] = x
        BY <3>3 DEF Spots
      <3>4. \A j, k \in 1..Len(seqs[1]) : j < k => Sooner(spot[j], spot[k])
        BY <3>2 DEF Sooner
      <3>5. MetAt(spot, joined[1], seqs, 1)
        <4>. HIDE DEF spot
        <4>. QED  BY <3>1, <3>2, <3>3, <3>4 DEF MetAt
      <3>. QED  BY <2>3, <2>6, <3>1, <3>5
    <2>7. CASE n # 1
      <3>. DEFINE p == joined[n - 1]
                  q == seqs[n]
      <3>1. n - 1 \in 1..Len(seqs) /\ n - 1 \notin bad
        <4>1. n - 1 \in 1..Len(seqs) /\ ~(n <= n - 1)
          BY <2>3, <2>7
        <4>. HIDE DEF bad
        <4>. QED  BY <2>2, <4>1
      <3>2. Has(n - 1)
        BY <3>1
      <3>3. p \in Seq(S)
        BY <3>2
      <3>4. PICK before : MetAt(before, p, seqs, n - 1)
        BY <3>2
      <3>5. /\ joined[n] = p \o q /\ Len(p) \in Nat /\ Len(q) \in Nat
            /\ p \o q \in Seq(S) /\ Len(p \o q) = Len(p) + Len(q)
        <4>1. q \in Seq(S) /\ joined[n] = p \o q
          BY <2>4, <2>5, <2>7
        <4>. HIDE DEF p, q
        <4>. QED  BY <3>3, <4>1
      <3>. HIDE DEF p, q
      <3>6. /\ \A k \in 1..Len(p) : (p \o q)[k] = p[k]
            /\ \A k \in 1..(Len(p) + Len(q)) : k > Len(p) => (p \o q)[k] = q[k - Len(p)]
        BY <2>4, <3>3, <3>5 DEF q
      <3>. DEFINE spot == [k \in 1..(Len(p) + Len(q)) |->
                              IF k <= Len(p) THEN before[k] ELSE <<n, k - Len(p)>>]
      <3>7. /\ \A k \in 1..Len(p) : k \in 1..(Len(p) + Len(q)) /\ spot[k] = before[k]
            /\ \A k \in 1..(Len(p) + Len(q)) :
                  k > Len(p) => spot[k] = <<n, k - Len(p)>> /\ k - Len(p) \in 1..Len(q)
        BY <3>5
      <3>8. \A m \in 1..Len(q) : <<n, m>> \in Spots(seqs)
        BY <2>3, <3>5 DEF Spots, q
      <3>. HIDE DEF spot
      <3>9. ASSUME NEW k \in 1..(Len(p) + Len(q))
            PROVE  /\ spot[k] \in Spots(seqs) /\ spot[k][1] <= n
                   /\ (p \o q)[k] = seqs[spot[k][1]][spot[k][2]]
        <4>1. CASE k <= Len(p)
          <5>1. k \in 1..Len(p)
            BY <3>5, <4>1
          <5>2. /\ spot[k] \in Spots(seqs) /\ spot[k][1] <= n - 1
                /\ p[k] = seqs[spot[k][1]][spot[k][2]]
            BY <3>4, <3>7, <5>1 DEF MetAt
          <5>3. spot[k][1] \in Nat
            BY <5>2 DEF Spots
          <5>. QED  BY <2>3, <3>6, <5>1, <5>2, <5>3
        <4>2. CASE k > Len(p)
          <5>1. spot[k] = <<n, k - Len(p)>> /\ k - Len(p) \in 1..Len(q)
            BY <3>7, <4>2
          <5>2. spot[k][1] = n /\ spot[k][2] = k - Len(p) /\ spot[k] \in Spots(seqs)
            BY <3>8, <5>1
          <5>3. (p \o q)[k] = q[k - Len(p)]
            BY <3>6, <4>2
          <5>. QED  BY <2>3, <5>2, <5>3 DEF q
        <4>. QED  BY <3>5, <4>1, <4>2
      <3>10. ASSUME NEW x \in Spots(seqs), x[1] <= n
             PROVE  \E k \in 1..(Len(p) + Len(q)) : spot[k] = x
        <4>1. x = <<x[1], x[2]>> /\ x[1] \in 1..Len(seqs) /\ x[2] \in 1..Len(seqs[x[1]])
          BY DEF Spots
        <4>2. CASE x[1] <= n - 1
          <5>1. PICK k \in 1..Len(p) : before[k] = x
            BY <3>4, <4>2 DEF MetAt
          <5>. QED  BY <3>7, <5>1
        <4>3. CASE x[1] = n
          <5>1. x[2] \in 1..Len(q) /\ x = <<n, x[2]>>
            BY <4>1, <4>3 DEF q
          <5>2. /\ Len(p) + x[2] \in 1..(Len(p) + Len(q)) /\ Len(p) + x[2] > Len(p)
                /\ (Len(p) + x[2]) - Len(p) = x[2]
            BY <3>5, <5>1
          <5>. QED  BY <3>7, <5>1, <5>2
        <4>. QED  BY <2>3, <3>10, <4>1, <4>2, <4>3
      <3>11. ASSUME NEW j \in 1..(Len(p) + Len(q)), NEW k \in 1..(Len(p) + Len(q)), j < k
             PROVE  Sooner(spot[j], spot[k])
        <4>1. CASE k <= Len(p)
          <5>1. j \in 1..Len(p) /\ k \in 1..Len(p)
            BY <3>5, <3>11, <4>1
          <5>. QED  BY <3>4, <3>7, <3>11, <5>1 DEF MetAt
        <4>2. CASE k > Len(p) /\ j <= Len(p)
          <5>1. j \in 1..Len(p)
            BY <3>5, <4>2
          <5>2. spot[j] \in Spots(seqs) /\ spot[j][1] <= n - 1
            BY <3>4, <3>7, <5>1 DEF MetAt
          <5>3. spot[j][1] \in Nat /\ spot[j][1] < n
            BY <2>3, <5>2 DEF Spots
          <5>4. spot[k][1] = n
            BY <3>7, <4>2
          <5>. QED  BY <5>3, <5>4 DEF Sooner
        <4>3. CASE j > Len(p)
          <5>1. k > Len(p)
            BY <3>5, <3>11, <4>3
          <5>2. /\ spot[j][1] = n /\ spot[j][2] = j - Len(p)
                /\ spot[k][1] = n /\ spot[k][2] = k - Len(p)
            BY <3>7, <4>3, <5>1
          <5>3. j - Len(p) < k - Len(p)
            BY <3>5, <3>11
          <5>. QED  BY <5>2, <5>3 DEF Sooner
        <4>. QED  BY <3>5, <4>1, <4>2, <4>3
      <3>12. MetAt(spot, p \o q, seqs, n)
        BY <3>5, <3>9, <3>10, <3>11 DEF MetAt
      <3>. QED  BY <2>3, <3>5, <3>12
    <2>. QED  BY <2>6, <2>7
  <1>. QED  BY <1>1, <1>2

\* Flattening meets every element of every list once, list by list, in order.
THEOREM FlattenMeetsAll ==
  ASSUME NEW S, NEW seqs \in Seq(Seq(S))
  PROVE  /\ FlattenSeq(seqs) \in Seq(S)
         /\ \E spot : MetAt(spot, FlattenSeq(seqs), seqs, Len(seqs))
  <1>1. CASE Len(seqs) = 0
    <2>1. seqs = <<>> /\ FlattenSeq(seqs) = <<>>
      BY <1>1 DEF FlattenSeq
    <2>2. Spots(seqs) = {}
      BY <2>1 DEF Spots
    <2>3. MetAt(<<>>, <<>>, seqs, Len(seqs))
      BY <2>2 DEF MetAt
    <2>4. <<>> \in Seq(S)
      OBVIOUS
    <2>. QED  BY <2>1, <2>3, <2>4
  <1>2. CASE Len(seqs) # 0
    <2>1. Len(seqs) \in Nat \ {0} /\ Len(seqs) \in 1..Len(seqs)
      BY <1>2
    <2>2. PICK joined : /\ Joins(joined, seqs, Len(seqs))
                        /\ FlattenSeq(seqs) = joined[Len(seqs)]
      BY <2>1, FlattenIsLastJoin
    <2>. QED  BY <2>1, <2>2, JoinsMeet
  <1>. QED  BY <1>1, <1>2

\* One list, or two, joined.
LEMMA FlattenOne ==
  ASSUME NEW seqs, Len(seqs) = 1
  PROVE  FlattenSeq(seqs) = seqs[1]
  <1>1. PICK joined : /\ Joins(joined, seqs, Len(seqs))
                      /\ FlattenSeq(seqs) = joined[Len(seqs)]
    <2>1. Len(seqs) \in Nat \ {0}
      OBVIOUS
    <2>. QED  BY ONLY <2>1, FlattenIsLastJoin
  <1>. QED  BY <1>1 DEF Joins

LEMMA FlattenTwo ==
  ASSUME NEW seqs, Len(seqs) = 2
  PROVE  FlattenSeq(seqs) = seqs[1] \o seqs[2]
  <1>1. PICK joined : /\ Joins(joined, seqs, Len(seqs))
                      /\ FlattenSeq(seqs) = joined[Len(seqs)]
    <2>1. Len(seqs) \in Nat \ {0}
      OBVIOUS
    <2>. QED  BY ONLY <2>1, FlattenIsLastJoin
  <1>2. 1 \in 1..2 /\ 2 \in 1..2 /\ 2 - 1 = 1
    OBVIOUS
  <1>3. joined[1] = seqs[1]
    BY <1>1, <1>2 DEF Joins
  <1>4. joined[2] = joined[1] \o seqs[2]
    BY <1>1, <1>2 DEF Joins
  <1>5. FlattenSeq(seqs) = joined[2]
    BY <1>1
  <1>. QED  BY ONLY <1>3, <1>4, <1>5

\* A filtering loop keeps what passes, and nothing else.
LEMMA FilteredList ==
  ASSUME NEW s, IsList(s), NEW places, places \in SUBSET (DOMAIN s),
         NEW h, h = Picked(s, places, {})
  PROVE  /\ IsList(h) /\ Len(h) \in Nat /\ DOMAIN h = 1..Len(h)
         /\ \A k \in DOMAIN h : \E p \in places : h[k] = s[p]
         /\ \A p \in places : \E k \in DOMAIN h : h[k] = s[p]
  <1>1. Len(s) \in Nat /\ DOMAIN s = 1..Len(s)
    BY ListShape
  <1>2. IsFiniteSet(1..Len(s)) /\ places \in SUBSET (1..Len(s)) /\ places \in SUBSET Nat
    BY <1>1, FirstNumbers
  <1>3. IsFiniteSet(places)
    BY <1>2, FS_Subset
  <1>4. PICK order : Enumerates(order, places, {}) /\ h = Along(s, order, places)
    <2>1. StrictWeakOrder({}, places) /\ places \in SUBSET Nat
      BY <1>2, NoOrderIsStrictWeak
    <2>. QED  BY <1>3, <2>1, PickedInOrder
  <1>5. /\ Cardinality(places) \in Nat
        /\ DOMAIN h = 1..Cardinality(places) /\ Len(h) = Cardinality(places)
        /\ \A k \in 1..Cardinality(places) : \E p \in places : h[k] = s[p]
        /\ \A p \in places : \E k \in 1..Cardinality(places) : h[k] = s[p]
    <2>1. PICK n \in Nat : n = Cardinality(places)
      BY <1>3, FS_CardinalityType
    <2>2. h = [k \in 1..n |-> s[order[k]]] /\ order \in [1..n -> places]
      BY <1>4, <2>1 DEF Enumerates, Along
    <2>3. \A p \in places : \E k \in 1..n : order[k] = p
      BY <1>4, <2>1 DEF Enumerates
    <2>. QED  BY <2>1, <2>2, <2>3
  <1>6. h = [k \in DOMAIN h |-> h[k]]
    BY <1>4 DEF Along
  <1>7. IsList(h)
    BY <1>5, <1>6, ListMade
  <1>. QED  BY <1>4, <1>5, <1>7

\* Joining two lists shows what either has.
LEMMA JoinedList ==
  ASSUME NEW s, IsList(s), NEW r, IsList(r), NEW t, t = s \o r
  PROVE  /\ IsList(t)
         /\ ToSet(t) = ToSet(s) \cup ToSet(r)
  <1>. DEFINE S == ToSet(s) \cup ToSet(r)
  <1>1. s \in Seq(S) /\ r \in Seq(S)
    BY ListShape DEF ToSet
  <1>. HIDE DEF S
  <1>2. /\ Len(s) \in Nat /\ Len(r) \in Nat /\ DOMAIN s = 1..Len(s) /\ DOMAIN r = 1..Len(r)
    BY <1>1
  <1>3. /\ t \in Seq(S) /\ Len(t) = Len(s) + Len(r) /\ DOMAIN t = 1..(Len(s) + Len(r))
        /\ \A j \in 1..(Len(s) + Len(r)) : t[j] = IF j <= Len(s) THEN s[j] ELSE r[j - Len(s)]
    BY <1>1
  <1>4. IsList(t)
    <2>1. t = [k \in 1..(Len(s) + Len(r)) |-> t[k]]
      BY ONLY <1>3
    <2>. QED  BY <1>2, <1>3, <2>1, ListMade
  <1>5. ASSUME NEW k \in DOMAIN s
        PROVE  \E j \in DOMAIN t : t[j] = s[k]
    BY <1>2, <1>3
  <1>6. ASSUME NEW k \in DOMAIN r
        PROVE  \E j \in DOMAIN t : t[j] = r[k]
    <2>1. Len(s) + k \in DOMAIN t /\ ~(Len(s) + k <= Len(s)) /\ (Len(s) + k) - Len(s) = k
      BY <1>2, <1>3
    <2>. QED  BY <1>3, <2>1
  <1>7. ASSUME NEW j \in DOMAIN t
        PROVE  \/ \E k \in DOMAIN s : t[j] = s[k]
               \/ \E k \in DOMAIN r : t[j] = r[k]
    <2>1. CASE j <= Len(s)
      BY <1>2, <1>3, <2>1
    <2>2. CASE ~(j <= Len(s))
      <3>1. j - Len(s) \in DOMAIN r
        BY <1>2, <1>3, <2>2
      <3>. QED  BY <1>3, <2>2, <3>1
    <2>. QED  BY <2>1, <2>2
  <1>8. ToSet(t) = ToSet(s) \cup ToSet(r)
    BY ONLY <1>5, <1>6, <1>7 DEF ToSet
  <1>. QED  BY <1>4, <1>8

\* What is made of a list element by element is a list.
LEMMA MappedList ==
  ASSUME NEW s, IsList(s), NEW e, e = [k \in DOMAIN s |-> e[k]]
  PROVE  IsList(e) /\ Len(e) = Len(s) /\ DOMAIN e = DOMAIN s
  <1>1. PICK n \in Nat : n = Len(s) /\ DOMAIN s = 1..n
    BY ListShape
  <1>2. DOMAIN e = 1..n /\ e = [k \in 1..n |-> e[k]]
    BY <1>1
  <1>. QED  BY <1>1, <1>2, ListMade

\* Go's s[:n] of a list is one, and has its first elements.
LEMMA CutList ==
  ASSUME NEW s, IsList(s), NEW n \in Nat, NEW top, top = Truncate(s, n)
  PROVE  IsList(top) /\ \A k \in DOMAIN top : k \in DOMAIN s /\ top[k] = s[k]
  <1>1. PICK S : s \in Seq(S)
    BY DEF IsList
  <1>2. PICK m : m = IF n < Len(s) THEN n ELSE Len(s)
    OBVIOUS
  <1>3. top \in Seq(S) /\ Len(top) = m /\ \A k \in 1..m : top[k] = s[k]
    BY <1>1, <1>2, TruncateIsPrefix
  <1>4. m \in Nat /\ DOMAIN top = 1..m /\ top = [k \in 1..m |-> top[k]]
    BY <1>1, <1>2, <1>3
  <1>5. \A k \in 1..m : k \in DOMAIN s
    BY <1>1, <1>2
  <1>. QED  BY <1>3, <1>4, <1>5, ListMade

\* Of numbers in a list, one is the greatest: what is left of it cut to one.
LEMMA OneIsGreatest ==
  ASSUME NEW s, IsList(s), s # <<>>, NEW level, \A k \in DOMAIN s : level[k] \in Int
  PROVE  \E j \in DOMAIN s : \A k \in DOMAIN s : level[k] <= level[j]
  <1>1. PICK n \in Nat : n = Len(s) /\ DOMAIN s = 1..n
    BY ListShape
  <1>2. n >= 1
    <2>1. s = [k \in 1..n |-> s[k]]
      BY <1>1 DEF IsList
    <2>. QED  BY <1>1, <2>1
  <1>3. PICK less : less = {p \in (DOMAIN s) \X (DOMAIN s) : level[p[1]] > level[p[2]]}
    OBVIOUS
  <1>4. PICK one \in Nat : one = 1
    OBVIOUS
  <1>5. PICK top : top = Truncate(Picked(s, DOMAIN s, less), one)
    OBVIOUS
  <1>6. /\ IsList(top) /\ Len(top) = IF one < Len(s) THEN one ELSE Len(s)
        /\ \E from : KeptTop(top, s, level, one, from)
    <2>1. IsList(top) /\ \E from : KeptTop(top, s, level, one, from)
      BY <1>3, <1>5, CutKeepsTop
    <2>2. Len(top) = IF one < Len(s) THEN one ELSE Len(s)
      BY <1>3, <1>5, CutKeepsTop
    <2>. QED  BY <2>1, <2>2
  <1>7. PICK from : KeptTop(top, s, level, one, from)
    BY <1>6
  <1>8. DOMAIN top = 1..1
    <2>1. Len(top) = 1
      BY <1>1, <1>2, <1>4, <1>6
    <2>. QED  BY <1>6, <2>1, ListShape
  <1>9. from[1] \in DOMAIN s /\ level[from[1]] \in Int
    BY <1>7, <1>8 DEF KeptTop
  <1>10. ASSUME NEW k \in DOMAIN s
        PROVE  level[k] <= level[from[1]]
    <2>1. CASE from[1] = k
      BY <1>9, <2>1
    <2>2. CASE from[1] # k
      <3>1. \A j \in DOMAIN top : from[j] # k
        BY <1>8, <2>2
      <3>. QED  BY <1>7, <1>8, <3>1 DEF KeptTop
    <2>. QED  BY <2>1, <2>2
  <1>. QED  BY <1>9, <1>10
=============================================================================
