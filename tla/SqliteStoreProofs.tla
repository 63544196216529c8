-------------------------- MODULE SqliteStoreProofs --------------------------
(***************************************************************************)
(* The table proved against its promises for every set of ids, incidents,  *)
(* reports and times.  The inductive invariant adds to the types that a    *)
(* row's JSON is filed under its own incident's id, and that its           *)
(* started_at column is the StartedAt in that JSON, cut to the second.     *)
(***************************************************************************)
EXTENDS SqliteStore, FiniteSetTheorems, TLAPS

\* The columns of a row never disagree with its JSON.
ColumnsMatchData ==
    \A id \in Id : rows[id] # NoRow =>
        /\ IdOf(rows[id].data) = id
        /\ rows[id].started_at = Unix(rows[id].data.startedAt)

IInv == TypeOK /\ ColumnsMatchData

\* Every investigation is filed under a known id.
LEMMA IdOfInvestigation == \A inv \in Investigation : IdOf(inv) \in Id
  BY IncidentAssumption DEF Investigation, IdOf

\* Unix times are naturals: started_at is an INTEGER NOT NULL.
LEMMA UnixIsNat == \A t \in Time : Unix(t) \in Nat
  BY TimeAssumption, TicksAssumption DEF Unix

\* What a Save writes is a row, and not the absence of one.
LEMMA SaveWritesRow ==
  ASSUME NEW inv \in Investigation, Marshals(inv)
  PROVE  LET row == [started_at |-> Unix(inv.startedAt), data |-> inv]
         IN  row \in Row /\ row # NoRow
  <1>1. inv.startedAt \in Time
    BY DEF Investigation
  <1>2. [started_at |-> Unix(inv.startedAt), data |-> inv] \in Row
    BY <1>1, UnixIsNat DEF Row
  <1>. QED  BY <1>2, NoRowAssumption

\* The upsert keeps the invariant: it replaces every column of one row.
LEMMA SaveHolds ==
  ASSUME IInv, NEW inv \in Investigation, Save(inv)
  PROVE  IInv'
  <1> DEFINE row == [started_at |-> Unix(inv.startedAt), data |-> inv]
  <1>1. row \in Row /\ IdOf(inv) \in Id
    BY SaveWritesRow, IdOfInvestigation DEF Save
  <1>2. rows' = [rows EXCEPT ![IdOf(inv)] = row]
    BY DEF Save
  <1>3. rows \in [Id -> Row \cup {NoRow}]
    BY DEF IInv, TypeOK
  <1>4. TypeOK'
    BY <1>1, <1>2, <1>3 DEF TypeOK
  <1>5. ASSUME NEW id \in Id, rows'[id] # NoRow
        PROVE  /\ IdOf(rows'[id].data) = id
               /\ rows'[id].started_at = Unix(rows'[id].data.startedAt)
    <2>1. CASE id = IdOf(inv)
      <3>1. rows'[id] = row
        BY <1>1, <1>2, <1>3, <2>1
      <3>. QED  BY <2>1, <3>1
    <2>2. CASE id # IdOf(inv)
      <3>1. rows'[id] = rows[id]
        BY <1>2, <1>3, <2>2
      <3>. QED  BY <1>5, <3>1 DEF IInv, ColumnsMatchData
    <2>. QED  BY <2>1, <2>2
  <1>. QED  BY <1>4, <1>5 DEF IInv, ColumnsMatchData

\* The invariant holds after any sequence of saves.
LEMMA InvariantHolds == Spec => []IInv
  <1>1. Init => IInv
    BY DEF Init, IInv, TypeOK, ColumnsMatchData
  <1>2. IInv /\ [Next]_rows => IInv'
    <2>1. ASSUME IInv, UNCHANGED rows PROVE IInv'
      BY <2>1 DEF IInv, TypeOK, ColumnsMatchData
    <2>. QED  BY <2>1, SaveHolds DEF Next
  <1>. QED  BY <1>1, <1>2, PTL DEF Spec

\* Every row on file is a row of the schema, with a report that could be
\* marshalled (Save).
THEOREM SqliteTypeOK == Spec => []TypeOK
  BY InvariantHolds, PTL DEF IInv

\* A Save is what Get answers for its id, and nothing else changes.
LEMMA SaveAnswers ==
  ASSUME IInv, NEW inv \in Investigation, Save(inv)
  PROVE  Answers' = [Answers EXCEPT ![IdOf(inv)] = inv]
  <1> DEFINE row == [started_at |-> Unix(inv.startedAt), data |-> inv]
  <1>1. row # NoRow /\ IdOf(inv) \in Id
    BY SaveWritesRow, IdOfInvestigation DEF Save
  <1>2. rows' = [rows EXCEPT ![IdOf(inv)] = row] /\ rows \in [Id -> Row \cup {NoRow}]
    BY DEF Save, IInv, TypeOK
  <1>3. ASSUME NEW id \in Id
        PROVE  Get(id)' = IF id = IdOf(inv) THEN inv ELSE Get(id)
    <2>1. CASE id = IdOf(inv)
      <3>1. rows'[id] = row
        BY <1>1, <1>2, <2>1
      <3>. QED  BY <1>1, <2>1, <3>1 DEF Get
    <2>2. CASE id # IdOf(inv)
      <3>1. rows'[id] = rows[id]
        BY <1>2, <2>2
      <3>. QED  BY <2>2, <3>1 DEF Get
    <2>. QED  BY <2>1, <2>2
  <1>. QED  BY <1>3 DEF Answers

\* The table implements the Storage contract (Save, Get).
THEOREM SqliteMeetsContract == Spec => MeetsContract
  <1>1. Init => Contract!Init
    BY DEF Init, Contract!Init, Answers, Get
  <1>2. IInv /\ [Next]_rows => [Contract!Next]_Answers
    <2> SUFFICES ASSUME IInv, [Next]_rows PROVE [Contract!Next]_Answers
      OBVIOUS
    <2>1. CASE UNCHANGED rows
      BY <2>1 DEF Answers, Get
    <2>2. ASSUME NEW inv \in Investigation, Save(inv) PROVE Contract!Next
      <3>1. Answers' = [Answers EXCEPT ![IdOf(inv)] = inv]
        BY <2>2, SaveAnswers
      <3>2. Answers' = [id \in Id |-> IF id = IdOf(inv) THEN inv
                                      ELSE IF id \in {} THEN NotFound ELSE Answers[id]]
        BY <3>1 DEF Answers
      <3>3. {} \in SUBSET (Id \ {IdOf(inv)})
        OBVIOUS
      <3>4. Contract!Save(inv)
        BY <3>2, <3>3, Zenon DEF Contract!Save, Contract!IdOf, IdOf
      <3>. QED  BY <3>4 DEF Contract!Next, Contract!Investigation, Investigation
    <2>. QED  BY <2>1, <2>2 DEF Next
  <1>. QED
    BY InvariantHolds, <1>1, <1>2, PTL DEF Spec, MeetsContract, Contract!Spec

\* Whatever is saved after it, an investigation on file stays on file under
\* its id: the table never evicts (Save, Get).
THEOREM SqliteForgetsNothing == Spec => ForgetsNothing
  <1> DEFINE Kept == \A id \in Id :
                        Get(id) # NotFound => /\ Get(id)' # NotFound
                                              /\ IdOf(Get(id)') = id
  <1>1. IInv /\ [Next]_rows => [Kept]_rows
    <2> SUFFICES ASSUME IInv, NEW inv \in Investigation, Save(inv) PROVE Kept
      BY DEF Next
    <2> SUFFICES ASSUME NEW id \in Id, Get(id) # NotFound
                 PROVE  Get(id)' # NotFound /\ IdOf(Get(id)') = id
      OBVIOUS
    <2>1. IInv'
      BY SaveHolds
    <2>2. Get(id)' # NotFound
      <3>1. Answers' = [Answers EXCEPT ![IdOf(inv)] = inv]
        BY SaveAnswers
      <3>2. Get(id)' = IF id = IdOf(inv) THEN inv ELSE Get(id)
        BY <3>1 DEF Answers
      <3>. QED  BY <3>2, NotFoundAssumption
    <2>3. rows'[id] # NoRow /\ Get(id)' = rows'[id].data
      BY <2>2 DEF Get
    <2>. QED  BY <2>1, <2>2, <2>3 DEF IInv, ColumnsMatchData
  <1>. QED  BY InvariantHolds, <1>1, PTL DEF Spec, ForgetsNothing

\* An ordering of all present rows without repetition has every one of them.
LEMMA OrderIsOnto ==
  ASSUME NEW S, IsFiniteSet(S), NEW o \in [1..Cardinality(S) -> S],
         \A j, k \in 1..Cardinality(S) : j < k => o[j] # o[k],
         NEW x \in S
  PROVE  \E m \in 1..Cardinality(S) : o[m] = x
  <1> DEFINE n == Cardinality(S)
  <1>1. n \in Nat
    BY FS_CardinalityType
  <1>2. IsFiniteSet(1..n) /\ Cardinality(1..n) = n
    BY <1>1, FS_Interval
  <1>3. o \in Injection(1..n, S)
    BY <1>1 DEF Injection, IsInjective
  <1>4. o \in Surjection(1..n, S)
    BY <1>2, <1>3, FS_Injection
  <1>. QED  BY <1>4 DEF Surjection

\* A limited listing of a table whose columns match its data.
LEMMA ListedInOrder ==
  ASSUME IsFiniteSet(Id), IInv, NEW limit \in Nat, NEW l \in List(limit),
         NEW id \in Id, Get(id) # NotFound
  PROVE  \/ \E k \in DOMAIN l : l[k] = Get(id)
         \/ \A k \in DOMAIN l : Unix(l[k].startedAt) >= Unix(Get(id).startedAt)
  <1> DEFINE present == {p \in Id : rows[p] # NoRow}
             n == Cardinality(present)
             shown == IF limit > 0 /\ limit < n THEN limit ELSE n
  <1>1. IsFiniteSet(present) /\ n \in Nat
    BY FS_Subset, FS_CardinalityType
  <1>2. shown \in Nat /\ shown <= n
    BY <1>1
  <1>3. PICK o \in [1..n -> present] :
          /\ \A j, k \in 1..n : j < k => /\ o[j] # o[k]
                                         /\ rows[o[j]].started_at >= rows[o[k]].started_at
          /\ l = [k \in 1..shown |-> rows[o[k]].data]
    BY DEF List
  <1>4. id \in present /\ Get(id) = rows[id].data
    BY DEF Get
  <1>5. \A p \in present : p \in Id /\ rows[p] # NoRow
    OBVIOUS
  <1>6. \A j, k \in 1..n : j < k => o[j] # o[k]
    BY <1>3
  <1>7. n = Cardinality(present) /\ o \in [1..n -> present] /\ id \in present
    BY <1>3, <1>4
  <1>. HIDE DEF present, n, shown
  <1>8. PICK m \in 1..n : o[m] = id
    <2>1. /\ o \in [1..Cardinality(present) -> present]
          /\ \A j, k \in 1..Cardinality(present) : j < k => o[j] # o[k]
      BY <1>6, <1>7
    <2>. QED  BY <1>1, <1>7, <2>1, OrderIsOnto
  <1>9. CASE m <= shown
    <2>1. m \in 1..shown
      BY <1>1, <1>2, <1>9
    <2>. QED  BY <1>3, <1>4, <1>8, <2>1
  <1>10. CASE ~(m <= shown)
    <2>. SUFFICES ASSUME NEW k \in 1..shown
                  PROVE  Unix(l[k].startedAt) >= Unix(Get(id).startedAt)
      BY <1>3
    <2>1. k \in 1..n /\ k < m
      BY <1>1, <1>2, <1>10
    <2>2. rows[o[k]].started_at >= rows[id].started_at
      BY <1>3, <1>8, <2>1
    <2>3. o[k] \in Id /\ rows[o[k]] # NoRow /\ id \in Id /\ rows[id] # NoRow
      BY <1>3, <1>4, <1>5, <2>1
    <2>4. /\ Unix(rows[o[k]].data.startedAt) = rows[o[k]].started_at
          /\ Unix(rows[id].data.startedAt) = rows[id].started_at
      BY <2>3 DEF IInv, ColumnsMatchData
    <2>5. l[k] = rows[o[k]].data
      BY <1>3
    <2>. QED  BY <1>4, <2>2, <2>4, <2>5
  <1>. QED  BY <1>9, <1>10

\* For every finite set of ids and every limit, a listing leaves out no
\* investigation that started a whole second or more after one it shows: the
\* ordering column agrees with the data, and an ordering of the table holds
\* every row (List).
THEOREM SqliteListsNewestToTheSecond ==
  ASSUME IsFiniteSet(Id)
  PROVE  Spec => []ListsNewestToTheSecond
  <1>1. IInv => ListsNewestToTheSecond
    <2>1. Cardinality(Id) \in Nat
      BY FS_CardinalityType
    <2>2. \A limit \in 1..Cardinality(Id) : limit \in Nat
      BY <2>1
    <2>. QED  BY <2>2, ListedInOrder DEF ListsNewestToTheSecond
  <1>. QED  BY InvariantHolds, <1>1, PTL
=============================================================================
