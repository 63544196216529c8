--------------------------- MODULE RingStoreProofs ---------------------------
(***************************************************************************)
(* Proofs about RingStore, for every Capacity and every set of incidents:  *)
(* the index never goes stale, and the ring implements both the log of the *)
(* last Cap saves and the Storage contract.                                *)
(***************************************************************************)
EXTENDS RingStore, SequenceTheorems, TLAPS

\* New never builds an empty ring, whatever capacity it is asked for.
LEMMA CapPositive == Cap \in Nat \ {0}
  BY CapacityAssumption DEF Cap, DefaultCapacity

\* Every investigation is filed under a known id.
LEMMA IdOfInvestigation == \A inv \in Investigation : IdOf(inv) \in Id
  BY IncidentAssumption DEF Investigation, IdOf

\* The ages 1..Cap and the slots 1..Cap are in one-to-one correspondence.
LEMMA SlotIsSlot ==
  ASSUME TypeOK
  PROVE  /\ \A k \in 1..Len(entries) : Slot(k) \in 1..Len(entries)
         /\ \A j, k \in 1..Len(entries) : Slot(j) = Slot(k) => j = k
         /\ \A s \in 1..Len(entries) : \E k \in 1..Len(entries) : Slot(k) = s
  <1>. Len(entries) \in Nat /\ next \in 0..(Cap - 1) /\ Len(entries) <= Cap
    BY DEF TypeOK
  <1>1. CASE Len(entries) < Cap
    BY <1>1, CapPositive DEF Slot, TypeOK
  <1>2. CASE Len(entries) = Cap
    <2>1. \A k \in 1..Cap : Slot(k) \in 1..Cap
      BY CapPositive DEF Slot
    <2>2. \A j, k \in 1..Cap : Slot(j) = Slot(k) => j = k
      BY CapPositive DEF Slot
    <2>3. ASSUME NEW s \in 1..Cap
          PROVE  \E k \in 1..Cap : Slot(k) = s
      <3>1. CASE s > next
        <4>. s - next \in 1..Cap /\ Slot(s - next) = s
          BY <3>1, CapPositive DEF Slot
        <4>. QED  OBVIOUS
      <3>2. CASE s <= next
        <4>. s - next + Cap \in 1..Cap /\ Slot(s - next + Cap) = s
          BY <3>2, CapPositive DEF Slot
        <4>. QED  OBVIOUS
      <3>. QED  BY <3>1, <3>2, CapPositive
    <2>. QED  BY <1>2, <2>1, <2>2, <2>3
  <1>. QED  BY <1>1, <1>2, CapPositive

\* (next + 1) % Cap wraps the write head once, at the end of the ring.
LEMMA Wrap ==
  ASSUME next \in 0..(Cap - 1)
  PROVE  (next + 1) % Cap = IF next + 1 = Cap THEN 0 ELSE next + 1
  <1>1. \A c \in Nat \ {0} : \A n \in 0..(c - 1) :
           (n + 1) % c = IF n + 1 = c THEN 0 ELSE n + 1
    OBVIOUS
  <1>. QED  BY <1>1, CapPositive

-----------------------------------------------------------------------------
(* Type correctness. *)

\* New makes a well-formed ring (memory.go New).
LEMMA InitTypeOK == Init => TypeOK
  BY CapPositive DEF Init, New, TypeOK

\* A save into a ring that is not full keeps it well-formed.
LEMMA GrowTypeOK ==
  ASSUME TypeOK, NEW inv \in Investigation, SaveGrow(inv)
  PROVE  TypeOK'
  <1>. Len(entries) \in Nat  BY DEF TypeOK
  <1>1. entries' \in Seq(Investigation) /\ Len(entries') = Len(entries) + 1
    BY DEF SaveGrow, TypeOK
  <1>2. byID' \in [Id -> 0..Len(entries')]
    BY <1>1, IdOfInvestigation DEF SaveGrow, TypeOK
  <1>. QED  BY <1>1, <1>2, CapPositive DEF SaveGrow, TypeOK

\* Append as a function, so that two sequences can be compared pointwise.
LEMMA AppendIsFunction ==
  ASSUME NEW S, NEW s \in Seq(S), NEW e \in S
  PROVE  Append(s, e) = [k \in 1..(Len(s) + 1) |-> IF k = Len(s) + 1 THEN e ELSE s[k]]
  <1>1. Len(s) \in Nat /\ Append(s, e) \in [1..(Len(s) + 1) -> S]
    BY AppendProperties, LenProperties
  <1>2. \A k \in 1..(Len(s) + 1) :
           Append(s, e)[k] = IF k = Len(s) + 1 THEN e ELSE s[k]
    BY AppendProperties, <1>1
  <1>. QED  BY <1>1, <1>2

\* The write head is a filled slot of a full ring, so Save's s.entries[s.next]
\* is in range.
LEMMA HeadInRange ==
  ASSUME TypeOK, Len(entries) = Cap
  PROVE  /\ next + 1 \in 1..Len(entries)
         /\ entries[next + 1] \in Investigation
         /\ IdOf(entries[next + 1]) \in Id
  <1>1. next + 1 \in 1..Len(entries)  BY CapPositive DEF TypeOK
  <1>2. entries[next + 1] \in Investigation  BY <1>1 DEF TypeOK
  <1>. QED  BY <1>1, <1>2, IdOfInvestigation

\* Dropping the evicted slot's index entry leaves a well-formed index.
LEMMA UnindexedTyped ==
  ASSUME TypeOK, Len(entries) = Cap
  PROVE  /\ Unindexed \in [Id -> 0..Len(entries)]
         /\ \A id \in Id :
               Unindexed[id] = IF id = IdOf(entries[next + 1]) /\ byID[id] = next + 1
                               THEN 0 ELSE byID[id]
  BY HeadInRange DEF Unindexed, Absent, TypeOK

\* A save over the oldest slot keeps the ring well-formed.
LEMMA EvictTypeOK ==
  ASSUME TypeOK, NEW inv \in Investigation, SaveEvict(inv)
  PROVE  TypeOK'
  <1>. Len(entries) \in Nat /\ Len(entries) = Cap  BY DEF TypeOK, SaveEvict
  <1>1. entries' \in Seq(Investigation) /\ Len(entries') = Len(entries)
    BY HeadInRange DEF SaveEvict, TypeOK
  <1>2. byID' \in [Id -> 0..Len(entries')]
    BY <1>1, HeadInRange, UnindexedTyped, IdOfInvestigation DEF SaveEvict
  <1>3. next' \in 0..(Cap - 1)
    BY Wrap, CapPositive DEF SaveEvict, TypeOK
  <1>. QED  BY <1>1, <1>2, <1>3 DEF TypeOK

\* Every state of the ring has the declared types: no slot, index or head out
\* of range (Save, New).
THEOREM RingTypeOK == Spec => []TypeOK
  <1>1. TypeOK /\ [Next]_vars => TypeOK'
    <2>. SUFFICES ASSUME TypeOK, [Next]_vars PROVE TypeOK'
      OBVIOUS
    <2>1. CASE Restart
      BY <2>1, CapPositive DEF Restart, TypeOK
    <2>2. ASSUME NEW inv \in Investigation, Save(inv) PROVE TypeOK'
      BY <2>2, GrowTypeOK, EvictTypeOK DEF Save
    <2>3. CASE UNCHANGED vars
      BY <2>3 DEF vars, TypeOK
    <2>. QED  BY <2>1, <2>2, <2>3 DEF Next
  <1>. QED  BY InitTypeOK, <1>1, PTL DEF Spec

-----------------------------------------------------------------------------
(* The records in save order: a Save pushes onto the log. *)

\* Saves is a sequence of investigations, as long as entries.
LEMMA SavesTyped ==
  ASSUME TypeOK
  PROVE  /\ Saves \in Seq(Investigation)
         /\ Len(Saves) = Len(entries)
         /\ \A k \in 1..Len(entries) : Saves[k] = entries[Slot(k)]
  BY SlotIsSlot DEF Saves, TypeOK

\* A growing save appends to the saves remembered.
LEMMA GrowPushes ==
  ASSUME TypeOK, NEW inv \in Investigation, SaveGrow(inv)
  PROVE  Saves' = Append(Saves, inv)
  <1>. DEFINE n == Len(entries)
  <1>1. n \in Nat /\ n < Cap /\ next = 0 /\ next' = 0 /\ Len(entries') = n + 1
    BY DEF SaveGrow, TypeOK
  <1>2. \A k \in 1..(n + 1) : Slot(k)' = k
    BY <1>1, CapPositive DEF Slot
  <1>3. \A k \in 1..n : Slot(k) = k
    BY <1>1, CapPositive DEF Slot
  <1>4. Saves' = [k \in 1..(n + 1) |-> entries'[k]]
    BY <1>1, <1>2 DEF Saves
  <1>5. Append(Saves, inv) = [k \in 1..(n + 1) |-> IF k = n + 1 THEN inv ELSE Saves[k]]
    BY <1>1, SavesTyped, AppendIsFunction
  <1>6. \A k \in 1..(n + 1) : entries'[k] = IF k = n + 1 THEN inv ELSE entries[k]
    BY <1>1 DEF SaveGrow, TypeOK
  <1>. QED  BY <1>3, <1>4, <1>5, <1>6, SavesTyped

\* An evicting save drops the oldest save remembered and appends.
LEMMA EvictPushes ==
  ASSUME TypeOK, NEW inv \in Investigation, SaveEvict(inv)
  PROVE  Saves' = Append(Tail(Saves), inv)
  <1>1. /\ Cap \in Nat \ {0} /\ Len(entries) = Cap /\ Len(entries') = Cap
        /\ next \in 0..(Cap - 1)
        /\ next' = IF next + 1 = Cap THEN 0 ELSE next + 1
    BY CapPositive, Wrap DEF SaveEvict, TypeOK
  <1>2. \A k \in 1..Cap : Slot(k)' = IF k = Cap THEN next + 1 ELSE Slot(k + 1)
    BY <1>1 DEF Slot
  <1>3. \A k \in 1..(Cap - 1) : Slot(k + 1) # next + 1 /\ Slot(k + 1) \in 1..Cap
    BY <1>1 DEF Slot
  <1>4. \A s \in 1..Cap : entries'[s] = IF s = next + 1 THEN inv ELSE entries[s]
    BY <1>1 DEF SaveEvict, TypeOK
  <1>5. \A k \in 1..Cap : Saves'[k] = IF k = Cap THEN inv ELSE Saves[k + 1]
    <2>. SUFFICES ASSUME NEW k \in 1..Cap
                  PROVE  Saves'[k] = IF k = Cap THEN inv ELSE Saves[k + 1]
      OBVIOUS
    <2>1. Saves'[k] = entries'[Slot(k)']
      BY <1>1 DEF Saves
    <2>2. CASE k = Cap
      BY <1>1, <1>2, <1>4, <2>1, <2>2
    <2>3. CASE k # Cap
      <3>1. k \in 1..(Cap - 1) /\ k + 1 \in 1..Cap  BY <1>1, <2>3
      <3>2. Saves[k + 1] = entries[Slot(k + 1)]
        BY <1>1, <3>1, SavesTyped
      <3>. QED  BY <1>2, <1>3, <1>4, <2>1, <2>3, <3>1, <3>2
    <2>. QED  BY <2>2, <2>3
  <1>6. Append(Tail(Saves), inv)
          = [k \in 1..Cap |-> IF k = Cap THEN inv ELSE Saves[k + 1]]
    <2>1. Saves \in Seq(Investigation) /\ Len(Saves) = Cap /\ Saves # <<>>
      BY SavesTyped, <1>1
    <2>2. /\ Tail(Saves) \in Seq(Investigation)
          /\ Len(Tail(Saves)) = Cap - 1
          /\ \A k \in 1..(Cap - 1) : Tail(Saves)[k] = Saves[k + 1]
      BY <2>1, HeadTailProperties
    <2>. DEFINE t == Tail(Saves)
    <2>3. Append(t, inv)
            = [k \in 1..(Len(t) + 1) |-> IF k = Len(t) + 1 THEN inv ELSE t[k]]
      <3>. HIDE DEF t
      <3>. t \in Seq(Investigation)  BY <2>2 DEF t
      <3>. QED  BY AppendIsFunction
    <2>. QED  BY <2>2, <2>3, <1>1
  <1>7. Saves' = [k \in 1..Cap |-> Saves'[k]]
    BY <1>1 DEF Saves
  <1>. QED  BY <1>5, <1>6, <1>7

\* Either way a Save is the log's Push.
LEMMA SavePushes ==
  ASSUME TypeOK, NEW inv \in Investigation, Save(inv)
  PROVE  Saves' = Log!Push(Saves, inv)
  <1>1. CASE SaveGrow(inv)
    BY <1>1, GrowPushes, SavesTyped DEF SaveGrow, Log!Push
  <1>2. CASE SaveEvict(inv)
    <2>. ~(Len(Saves) < Cap)
      BY <1>2, SavesTyped, CapPositive DEF SaveEvict
    <2>. QED  BY <1>2, EvictPushes DEF Log!Push
  <1>. QED  BY <1>1, <1>2 DEF Save

-----------------------------------------------------------------------------
(* The index: the inductive invariant is TypeOK with IndexIsNewest itself.  *)

\* A growing save keeps the index on each id's newest save.
LEMMA GrowKeepsIndex ==
  ASSUME TypeOK, IndexIsNewest, NEW inv \in Investigation, SaveGrow(inv)
  PROVE  IndexIsNewest'
  <1>. DEFINE n == Len(entries)
  <1>1. /\ n \in Nat /\ n < Cap /\ next = 0 /\ next' = 0 /\ Cap \in Nat
        /\ Len(entries') = n + 1 /\ Len(Saves) = n
    BY CapPositive, SavesTyped DEF SaveGrow, TypeOK
  <1>2. \A k \in 1..(n + 1) : Slot(k)' = k /\ Slot(k) = k
    BY <1>1 DEF Slot
  <1>3. \A k \in 1..(n + 1) : entries'[k] = IF k = n + 1 THEN inv ELSE entries[k]
    BY <1>1 DEF SaveGrow, TypeOK
  <1>4. Len(Saves') = n + 1 /\ \A k \in 1..(n + 1) : Saves'[k] = entries'[k]
    BY <1>1, <1>2 DEF Saves
  <1>5. \A k \in 1..n : Saves[k] = entries[k]
    BY <1>1, <1>2, SavesTyped
  <1>6. \A id \in Id : byID'[id] = IF id = IdOf(inv) THEN n + 1 ELSE byID[id]
    BY IdOfInvestigation DEF SaveGrow, TypeOK
  <1>7. ASSUME NEW id \in Id
        PROVE  \/ /\ byID'[id] = 0
                  /\ \A k \in 1..Len(entries') : IdOf(entries'[k]) # id
               \/ \E k \in 1..Len(entries') :
                     byID'[id] = Slot(k)' /\ Log!IsLatest(Saves', k, id)
    <2>1. CASE id = IdOf(inv)
      <3>1. Log!IsLatest(Saves', n + 1, id)
        BY <1>1, <1>3, <1>4, <2>1 DEF Log!IsLatest, Log!IdOf, IdOf
      <3>. QED  BY <1>1, <1>2, <1>6, <2>1, <3>1
    <2>2. CASE id # IdOf(inv) /\ byID[id] = 0
                /\ \A k \in 1..n : IdOf(entries[k]) # id
      BY <1>1, <1>3, <1>6, <2>2
    <2>3. ASSUME id # IdOf(inv), NEW k \in 1..n,
                 byID[id] = Slot(k), Log!IsLatest(Saves, k, id)
          PROVE  byID'[id] = Slot(k)' /\ Log!IsLatest(Saves', k, id)
      <3>1. byID'[id] = Slot(k)'
        BY <1>1, <1>2, <1>6, <2>3
      <3>2. Log!IsLatest(Saves', k, id)
        <4>1. \A j \in 1..n : Saves'[j] = Saves[j]
          BY <1>1, <1>3, <1>4, <1>5
        <4>2. Saves'[n + 1] = inv
          BY <1>1, <1>3, <1>4
        <4>3. k \in 1..Len(Saves') /\ IdOf(Saves'[k]) = id
          BY <1>1, <1>4, <2>3, <4>1 DEF Log!IsLatest, Log!IdOf, IdOf
        <4>4. ASSUME NEW j \in 1..(n + 1), j > k PROVE IdOf(Saves'[j]) # id
          <5>1. CASE j = n + 1  BY <2>3, <4>2, <5>1
          <5>2. CASE j # n + 1
            <6>1. j \in 1..n  BY <1>1, <5>2
            <6>. QED  BY <1>1, <2>3, <4>1, <4>4, <6>1 DEF Log!IsLatest, Log!IdOf, IdOf
          <5>. QED  BY <5>1, <5>2
        <4>. QED  BY <1>1, <1>4, <4>3, <4>4 DEF Log!IsLatest, Log!IdOf, IdOf
      <3>. QED  BY <3>1, <3>2
    <2>. QED  BY <1>1, <2>1, <2>2, <2>3 DEF IndexIsNewest
  <1>. QED  BY <1>7 DEF IndexIsNewest

\* So does an evicting one, whether or not the slot it overwrites is
\* the one the index gave for its id.
LEMMA EvictKeepsIndex ==
  ASSUME TypeOK, IndexIsNewest, NEW inv \in Investigation, SaveEvict(inv)
  PROVE  IndexIsNewest'
  <1>1. /\ Cap \in Nat \ {0} /\ Len(entries) = Cap /\ Len(entries') = Cap
        /\ next \in 0..(Cap - 1) /\ Len(Saves) = Cap
        /\ next' = IF next + 1 = Cap THEN 0 ELSE next + 1
    BY CapPositive, Wrap, SavesTyped DEF SaveEvict, TypeOK
  <1>2. /\ Slot(1) = next + 1
        /\ \A k \in 1..Cap : Slot(k)' = IF k = Cap THEN next + 1 ELSE Slot(k + 1)
        /\ \A k \in 2..Cap : Slot(k) # next + 1 /\ Slot(k - 1)' = Slot(k)
    BY <1>1 DEF Slot
  <1>3. \A s \in 1..Cap : entries'[s] = IF s = next + 1 THEN inv ELSE entries[s]
    BY <1>1 DEF SaveEvict, TypeOK
  <1>4. \A k \in 1..Cap : Saves[k] = entries[Slot(k)]
    BY <1>1, SavesTyped
  <1>5. Len(Saves') = Cap /\ \A k \in 1..Cap : Saves'[k] = entries'[Slot(k)']
    BY <1>1 DEF Saves
  <1>6. /\ \A k \in 1..(Cap - 1) : Saves'[k] = Saves[k + 1]
        /\ Saves'[Cap] = inv
    <2>1. ASSUME NEW k \in 1..(Cap - 1) PROVE Saves'[k] = Saves[k + 1]
      <3>1. k + 1 \in 2..Cap /\ k + 1 \in 1..Len(entries) /\ k \in 1..Cap /\ k # Cap
        BY <1>1
      <3>2. Slot(k + 1) \in 1..Cap
        <4>1. \A j \in 1..Len(entries) : Slot(j) \in 1..Len(entries)  BY SlotIsSlot
        <4>. QED  BY <3>1, <4>1, <1>1
      <3>. QED  BY <1>2, <1>3, <1>4, <1>5, <3>1, <3>2
    <2>2. Saves'[Cap] = inv  BY <1>1, <1>2, <1>3, <1>5
    <2>. QED  BY <2>1, <2>2
  <1>7. \A id \in Id :
          byID'[id] = IF id = IdOf(inv) THEN next + 1
                      ELSE IF id = IdOf(entries[next + 1]) /\ byID[id] = next + 1 THEN 0
                      ELSE byID[id]
    BY <1>1, UnindexedTyped, IdOfInvestigation DEF SaveEvict
  <1>8. ASSUME NEW id \in Id
        PROVE  \/ /\ byID'[id] = 0
                  /\ \A k \in 1..Len(entries') : IdOf(entries'[k]) # id
               \/ \E k \in 1..Len(entries') :
                     byID'[id] = Slot(k)' /\ Log!IsLatest(Saves', k, id)
    <2>1. CASE id = IdOf(inv)
      <3>1. Log!IsLatest(Saves', Cap, id)
        BY <1>1, <1>5, <1>6, <2>1 DEF Log!IsLatest, Log!IdOf, IdOf
      <3>. QED  BY <1>1, <1>2, <1>7, <2>1, <3>1
    <2>2. CASE id # IdOf(inv) /\ byID[id] = 0
                /\ \A k \in 1..Cap : IdOf(entries[k]) # id
      BY <1>1, <1>3, <1>7, <2>2
    <2>3. CASE id # IdOf(inv) /\ byID[id] = Slot(1) /\ Log!IsLatest(Saves, 1, id)
      <3>1. byID'[id] = 0
        BY <1>1, <1>2, <1>4, <1>7, <2>3 DEF Log!IsLatest, Log!IdOf, IdOf
      <3>2. ASSUME NEW s \in 1..Cap PROVE IdOf(entries'[s]) # id
        <4>1. CASE s = next + 1
          BY <1>3, <2>3, <4>1
        <4>2. CASE s # next + 1
          <5>1. PICK j \in 1..Cap : Slot(j) = s  BY <1>1, SlotIsSlot
          <5>2. j > 1  BY <1>1, <1>2, <4>2, <5>1
          <5>. QED  BY <1>1, <1>3, <1>4, <2>3, <4>2, <5>1, <5>2
                    DEF Log!IsLatest, Log!IdOf, IdOf
        <4>. QED  BY <4>1, <4>2
      <3>. QED  BY <1>1, <3>1, <3>2
    <2>4. ASSUME id # IdOf(inv), NEW k \in 2..Cap,
                 byID[id] = Slot(k), Log!IsLatest(Saves, k, id)
          PROVE  byID'[id] = Slot(k - 1)' /\ Log!IsLatest(Saves', k - 1, id)
      <3>1. byID'[id] = Slot(k - 1)'
        BY <1>1, <1>2, <1>7, <2>4
      <3>2. Log!IsLatest(Saves', k - 1, id)
        BY <1>1, <1>5, <1>6, <2>4 DEF Log!IsLatest, Log!IdOf, IdOf
      <3>. QED  BY <3>1, <3>2
    <2>5. \A k \in 2..Cap : k - 1 \in 1..Cap  BY <1>1
    <2>6. CASE id # IdOf(inv)
               /\ \E k \in 1..Cap : byID[id] = Slot(k) /\ Log!IsLatest(Saves, k, id)
      <3>1. PICK k \in 1..Cap : byID[id] = Slot(k) /\ Log!IsLatest(Saves, k, id)
        BY <2>6
      <3>2. k = 1 \/ k \in 2..Cap  BY <1>1
      <3>. QED  BY <1>1, <2>3, <2>4, <2>5, <2>6, <3>1, <3>2
    <2>. QED  BY <1>1, <2>1, <2>2, <2>6 DEF IndexIsNewest
  <1>. QED  BY <1>8 DEF IndexIsNewest

\* The index never goes stale, for every capacity and every history of saves
\* and restarts (Save's delete guard and the wrap of the write head).
THEOREM RingIndexIsNewest == Spec => []IndexIsNewest
  <1>1. Init => IndexIsNewest
    <2>. SUFFICES ASSUME Init PROVE IndexIsNewest
      OBVIOUS
    <2>. 1..Len(entries) = {} /\ \A id \in Id : byID[id] = 0
      BY DEF Init, New
    <2>. QED  BY DEF IndexIsNewest
  <1>2. TypeOK /\ IndexIsNewest /\ [Next]_vars => IndexIsNewest'
    <2>. SUFFICES ASSUME TypeOK, IndexIsNewest, [Next]_vars PROVE IndexIsNewest'
      OBVIOUS
    <2>1. CASE Restart
      <3>. 1..Len(entries') = {} /\ \A id \in Id : byID'[id] = 0
        BY <2>1 DEF Restart
      <3>. QED  BY DEF IndexIsNewest
    <2>2. ASSUME NEW inv \in Investigation, Save(inv) PROVE IndexIsNewest'
      BY <2>2, GrowKeepsIndex, EvictKeepsIndex DEF Save
    <2>3. CASE UNCHANGED vars
      <3>1. entries' = entries /\ byID' = byID /\ next' = next
        BY <2>3 DEF vars
      <3>2. Saves' = Saves /\ \A k : Slot(k)' = Slot(k)
        BY <3>1 DEF Saves, Slot
      <3>. QED  BY <3>1, <3>2 DEF IndexIsNewest
    <2>. QED  BY <2>1, <2>2, <2>3 DEF Next
  <1>. QED  BY <1>1, <1>2, RingTypeOK, PTL DEF Spec

-----------------------------------------------------------------------------
(* The ring implements the Storage contract. *)

IInv == TypeOK /\ IndexIsNewest

\* The inductive invariant holds in every reachable state.
LEMMA InvariantHolds == Spec => []IInv
  BY RingTypeOK, RingIndexIsNewest, PTL DEF IInv

\* The index points at a record of the id it is asked for.
LEMMA IndexPoints ==
  ASSUME IInv, NEW id \in Id, byID[id] # 0
  PROVE  byID[id] \in 1..Len(entries) /\ IdOf(entries[byID[id]]) = id
  <1>1. PICK k \in 1..Len(entries) : byID[id] = Slot(k) /\ Log!IsLatest(Saves, k, id)
    BY DEF IInv, IndexIsNewest
  <1>2. IdOf(Saves[k]) = id  BY <1>1 DEF Log!IsLatest, Log!IdOf, IdOf
  <1>. QED  BY <1>1, <1>2, SlotIsSlot, SavesTyped DEF IInv

\* A growing save changes what Get answers for its own id only.
LEMMA GrowAnswers ==
  ASSUME IInv, NEW inv \in Investigation, SaveGrow(inv)
  PROVE  Answers' = [id \in Id |-> IF id = IdOf(inv) THEN inv ELSE Answers[id]]
  <1>. Len(entries) \in Nat /\ TypeOK  BY DEF IInv, TypeOK
  <1>1. \A id \in Id : byID'[id] = IF id = IdOf(inv) THEN Len(entries) + 1 ELSE byID[id]
    BY IdOfInvestigation DEF SaveGrow, TypeOK
  <1>2. /\ entries'[Len(entries) + 1] = inv
        /\ \A k \in 1..Len(entries) : entries'[k] = entries[k]
    BY DEF SaveGrow, TypeOK
  <1>3. \A id \in Id : Get(id)' = IF id = IdOf(inv) THEN inv ELSE Get(id)
    BY <1>1, <1>2, IndexPoints DEF Get
  <1>. QED  BY <1>3 DEF Answers

\* An evicting save may also forget the id whose only save it drops.
LEMMA EvictAnswers ==
  ASSUME IInv, NEW inv \in Investigation, SaveEvict(inv)
  PROVE  \E gone \in SUBSET (Id \ {IdOf(inv)}) :
           Answers' = [id \in Id |-> IF id = IdOf(inv) THEN inv
                                     ELSE IF id \in gone THEN NotFound
                                     ELSE Answers[id]]
  <1>. DEFINE old == IdOf(entries[next + 1])
             gone == {id \in Id \ {IdOf(inv)} : id = old /\ byID[id] = next + 1}
  <1>. TypeOK /\ Len(entries) = Cap /\ next \in 0..(Cap - 1) /\ Cap \in Nat \ {0}
    BY CapPositive DEF IInv, SaveEvict, TypeOK
  <1>1. \A id \in Id :
          byID'[id] = IF id = IdOf(inv) THEN next + 1
                      ELSE IF id \in gone THEN 0 ELSE byID[id]
    BY UnindexedTyped, IdOfInvestigation DEF SaveEvict
  <1>2. \A s \in 1..Len(entries) : entries'[s] = IF s = next + 1 THEN inv ELSE entries[s]
    BY DEF SaveEvict, TypeOK
  <1>3. ASSUME NEW id \in Id
        PROVE  Get(id)' = IF id = IdOf(inv) THEN inv
                          ELSE IF id \in gone THEN NotFound ELSE Get(id)
    <2>1. CASE id = IdOf(inv)
      BY <1>1, <1>2, <2>1 DEF Get
    <2>2. CASE id \in gone
      BY <1>1, <2>2 DEF Get
    <2>3. CASE id # IdOf(inv) /\ id \notin gone /\ byID[id] = 0
      BY <1>1, <2>3 DEF Get
    <2>4. CASE id # IdOf(inv) /\ id \notin gone /\ byID[id] # 0
      <3>1. byID[id] \in 1..Len(entries) /\ IdOf(entries[byID[id]]) = id
        BY <2>4, IndexPoints
      <3>2. byID[id] # next + 1  BY <2>4, <3>1
      <3>. QED  BY <1>1, <1>2, <2>4, <3>1, <3>2 DEF Get
    <2>. QED  BY <2>1, <2>2, <2>3, <2>4
  <1>4. Answers' = [id \in Id |-> IF id = IdOf(inv) THEN inv
                                  ELSE IF id \in gone THEN NotFound ELSE Answers[id]]
    BY <1>3 DEF Answers
  <1>. HIDE DEF gone
  <1>5. gone \in SUBSET (Id \ {IdOf(inv)})  BY DEF gone
  <1>. QED  BY <1>4, <1>5

\* Whatever the capacity, a caller of Get cannot tell the ring from the
\* Storage contract: a Save is what the next Get of its id answers and costs
\* other ids at most their own record (Save, Get, New).
THEOREM RingMeetsContract == Spec => MeetsContract
  <1>1. Init => Contract!Init
    BY DEF Init, New, Contract!Init, Answers, Get
  <1>2. IInv /\ [Next]_vars => [Contract!Next]_Answers
    <2>. SUFFICES ASSUME IInv, [Next]_vars PROVE [Contract!Next]_Answers
      OBVIOUS
    <2>1. CASE Restart
      <3>1. Answers' = [id \in Id |-> NotFound]
        BY <2>1 DEF Restart, Answers, Get
      <3>2. Contract!Forget
        <4>1. Answers' = [id \in Id |-> IF id \in Id THEN NotFound ELSE Answers[id]]
          BY <3>1
        <4>. QED  BY <4>1 DEF Contract!Forget
      <3>. QED  BY <3>2 DEF Contract!Next
    <2>2. ASSUME NEW inv \in Investigation, Save(inv) PROVE Contract!Next
      <3>1. Contract!Save(inv)
        <4>1. CASE SaveGrow(inv)
          <5>1. Answers' = [id \in Id |-> IF id = IdOf(inv) THEN inv
                                          ELSE IF id \in {} THEN NotFound
                                          ELSE Answers[id]]
            BY <4>1, GrowAnswers
          <5>2. {} \in SUBSET (Id \ {IdOf(inv)})  OBVIOUS
          <5>. QED  BY <5>1, <5>2, Zenon DEF Contract!Save, Contract!IdOf, IdOf
        <4>2. CASE SaveEvict(inv)
          BY <4>2, EvictAnswers DEF Contract!Save, Contract!IdOf, IdOf
        <4>. QED  BY <2>2, <4>1, <4>2 DEF Save
      <3>. QED  BY <3>1 DEF Contract!Next, Contract!Investigation, Investigation
    <2>3. CASE UNCHANGED vars
      BY <2>3 DEF vars, Answers, Get
    <2>. QED  BY <2>1, <2>2, <2>3 DEF Next
  <1>. QED  BY <1>1, <1>2, InvariantHolds, PTL DEF Spec, MeetsContract, Contract!Spec

-----------------------------------------------------------------------------
(* The ring implements the log of the last Cap saves. *)

AnswersLatest == Answers = Log!Latest(Saves)

\* What Get answers is the latest remembered save of each id.
LEMMA AnswersAreLatest == IInv => AnswersLatest
  <1>. SUFFICES ASSUME IInv PROVE AnswersLatest
    OBVIOUS
  <1>0. Len(Saves) = Len(entries) /\ Len(entries) \in Nat
    BY SavesTyped DEF IInv, TypeOK
  <1>1. ASSUME NEW id \in Id
        PROVE  Get(id) = IF \E k \in 1..Len(Saves) : Log!IsLatest(Saves, k, id)
                         THEN Saves[CHOOSE k \in 1..Len(Saves) : Log!IsLatest(Saves, k, id)]
                         ELSE NotFound
    <2>1. CASE byID[id] = 0 /\ \A k \in 1..Len(entries) : IdOf(entries[k]) # id
      <3>1. \A k \in 1..Len(Saves) : IdOf(Saves[k]) # id
        BY <1>0, <2>1, SlotIsSlot, SavesTyped DEF IInv
      <3>2. ~ \E k \in 1..Len(Saves) : Log!IsLatest(Saves, k, id)
        BY <3>1 DEF Log!IsLatest, Log!IdOf, IdOf
      <3>. QED  BY <2>1, <3>2 DEF Get
    <2>2. ASSUME NEW k \in 1..Len(entries),
                 byID[id] = Slot(k), Log!IsLatest(Saves, k, id)
          PROVE  Get(id) = Saves[CHOOSE j \in 1..Len(Saves) : Log!IsLatest(Saves, j, id)]
      <3>1. \A i, j \in 1..Len(Saves) :
               Log!IsLatest(Saves, i, id) /\ Log!IsLatest(Saves, j, id) => i = j
        BY <1>0 DEF Log!IsLatest
      <3>2. k = CHOOSE j \in 1..Len(Saves) : Log!IsLatest(Saves, j, id)
        BY <1>0, <2>2, <3>1
      <3>3. Slot(k) # 0 /\ Saves[k] = entries[Slot(k)]
        <4>. Slot(k) \in 1..Len(entries)  BY SlotIsSlot DEF IInv
        <4>. QED  BY SavesTyped DEF IInv
      <3>. QED  BY <2>2, <3>2, <3>3 DEF Get
    <2>3. CASE \E k \in 1..Len(entries) :
                  byID[id] = Slot(k) /\ Log!IsLatest(Saves, k, id)
      BY <1>0, <2>2, <2>3
    <2>. QED  BY <2>1, <2>3 DEF IInv, IndexIsNewest
  <1>. QED  BY <1>1 DEF AnswersLatest, Answers, Log!Latest

\* Whatever the capacity, the slots, the head and the index implement "the
\* last Cap saves, oldest dropped first, all lost on restart" (Save, Get, New).
THEOREM RingKeepsLastSaves == Spec => KeepsLastSaves
  <1>1. Init /\ AnswersLatest => Log!Init
    <2>. SUFFICES ASSUME Init, AnswersLatest PROVE Log!Init
      OBVIOUS
    <2>1. 1..Len(entries) = {}  BY DEF Init, New
    <2>2. Saves = <<>>  BY <2>1 DEF Saves
    <2>. QED  BY <2>2 DEF AnswersLatest, Log!Init
  <1>2. IInv /\ AnswersLatest' /\ [Next]_vars => [Log!Next]_Log!vars
    <2>. SUFFICES ASSUME IInv, AnswersLatest', [Next]_vars PROVE [Log!Next]_Log!vars
      OBVIOUS
    <2>1. CASE Restart
      <3>1. 1..Len(entries') = {}  BY <2>1 DEF Restart
      <3>2. Saves' = <<>>  BY <3>1 DEF Saves
      <3>. QED  BY <3>2 DEF AnswersLatest, Log!Next, Log!Lose
    <2>2. ASSUME NEW inv \in Investigation, Save(inv) PROVE Log!Next
      <3>1. Log!Save(inv)
        BY <2>2, SavePushes DEF IInv, AnswersLatest, Log!Save
      <3>. QED  BY <3>1 DEF Log!Next, Log!Investigation, Investigation
    <2>3. CASE UNCHANGED vars
      <3>1. entries' = entries /\ byID' = byID /\ next' = next
        BY <2>3 DEF vars
      <3>2. Saves' = Saves /\ Answers' = Answers
        BY <3>1 DEF Saves, Slot, Answers, Get
      <3>. QED  BY <3>2 DEF Log!vars
    <2>. QED  BY <2>1, <2>2, <2>3 DEF Next
  <1>. QED  BY <1>1, <1>2, InvariantHolds, AnswersAreLatest, PTL
            DEF Spec, KeepsLastSaves, Log!Spec
=============================================================================
