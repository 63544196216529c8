---------------------------- MODULE FanOutProofs ----------------------------
(***************************************************************************)
(* RunAll proved correct for every number of investigators and every       *)
(* schedule of their goroutines.  The inductive invariant ties the three   *)
(* things the code never compares: the WaitGroup's counter, how far each   *)
(* goroutine is, and which slots of results are filled.                    *)
(***************************************************************************)
EXTENDS FanOut, ListProofs, TLAPS

\* The goroutines between their Add and their Done.
Running == {i \in Investigators : worker[i] \in {"calling", "answered", "wrote"}}

\* The counter is the number of running goroutines, and the loop has started
\* exactly the first `spawned` of them.
CountsRunning ==
    /\ wg = Cardinality(Running)
    /\ \A i \in Investigators : worker[i] = "none" <=> i > spawned

\* A goroutine past its Investigate has an answer, one past its write has it
\* in its slot, and RunAll only returns once all are past their Done.
SlotsFilled ==
    /\ \A i \in Investigators :
          /\ worker[i] \in {"answered", "wrote", "done"} <=> answer[i] # Pending
          /\ worker[i] \in {"wrote", "done"} => results[i] = answer[i]
    /\ out # Pending => \A i \in Investigators : worker[i] = "done"

IInv == TypeOK /\ CountsRunning /\ SlotsFilled

-----------------------------------------------------------------------------

\* The goroutines that run are finitely many, so their number is a natural.
LEMMA RunningFinite ==
  /\ IsFiniteSet(Investigators)
  /\ Cardinality(Investigators) = N
  /\ IsFiniteSet(Running)
  /\ Cardinality(Running) \in 0..N
  <1>1. IsFiniteSet(Investigators) /\ Cardinality(Investigators) = N
    BY NAssumption, FS_Interval DEF Investigators
  <1>2. Running \subseteq Investigators
    BY DEF Running
  <1>3. IsFiniteSet(Running) /\ Cardinality(Running) <= N
    BY <1>1, <1>2, FS_Subset
  <1>4. Cardinality(Running) \in Nat
    BY <1>3, FS_CardinalityType
  <1>. QED  BY <1>1, <1>3, <1>4, NAssumption

\* Before the loop's first iteration nothing runs and no slot is filled.
LEMMA InitHolds == FInit => IInv
  <1> SUFFICES ASSUME FInit PROVE IInv
    OBVIOUS
  <1>1. Running = {}
    BY DEF FInit, Running
  <1>2. wg = Cardinality(Running)
    BY <1>1, FS_EmptySet DEF FInit
  <1>3. TypeOK
    <2>1. spawned \in 0..N /\ wg \in 0..N
      BY NAssumption DEF FInit
    <2>5. cancelled \in BOOLEAN
      BY DEF FInit
    <2>2. worker \in [Investigators -> {"none", "calling", "answered", "wrote", "done"}]
      BY DEF FInit
    <2>3. results \in [Investigators -> Result \cup {Empty}]
      BY DEF FInit
    <2>4. answer \in [Investigators -> Result \cup {Pending}]
      BY DEF FInit, Init
    <2>. QED  BY <2>1, <2>2, <2>3, <2>4, <2>5 DEF TypeOK
  <1>4. \A i \in Investigators : i > spawned
    BY NAssumption DEF FInit, Investigators
  <1>5. CountsRunning
    BY <1>2, <1>4 DEF FInit, CountsRunning
  <1>6. SlotsFilled
    BY DEF FInit, Init, SlotsFilled
  <1>. QED  BY <1>3, <1>5, <1>6 DEF IInv

\* A goroutine that starts is counted: wg.Add(1) comes with it.
LEMMA SpawnHolds == IInv /\ Spawn => IInv'
  <1> SUFFICES ASSUME IInv, Spawn PROVE IInv'
    OBVIOUS
  <1> DEFINE s == spawned + 1
  <1>1. s \in Investigators /\ worker[s] = "none" /\ spawned \in Nat
    BY NAssumption DEF IInv, TypeOK, CountsRunning, Spawn, Investigators
  <1>2. worker' = [worker EXCEPT ![s] = "calling"] /\ worker \in [Investigators -> {"none", "calling", "answered", "wrote", "done"}]
    BY DEF IInv, TypeOK, Spawn
  <1>3. s \notin Running /\ Running' = Running \cup {s}
    BY <1>1, <1>2 DEF Running
  <1>4. wg' = Cardinality(Running')
    <2>1. Cardinality(Running') = Cardinality(Running) + 1
      BY <1>3, RunningFinite, FS_AddElement
    <2>. QED  BY <2>1 DEF IInv, CountsRunning, Spawn
  <1>5. wg' \in 0..N
    <2>1. Running' \subseteq Investigators
      BY <1>1, <1>3 DEF Running
    <2>2. IsFiniteSet(Running') /\ Cardinality(Running') <= N
      BY <2>1, RunningFinite, FS_Subset
    <2>3. Cardinality(Running') \in Nat
      BY <2>2, FS_CardinalityType
    <2>. QED  BY <1>4, <2>2, <2>3, NAssumption
  <1>6. TypeOK'
    BY <1>1, <1>5, NAssumption DEF IInv, TypeOK, Spawn, Investigators
  <1>7. \A i \in Investigators : worker'[i] = "none" <=> i > spawned'
    BY <1>1, <1>2, NAssumption DEF IInv, CountsRunning, Spawn, Investigators
  <1>8. SlotsFilled'
    <2>1. answer[s] = Pending /\ out = Pending
      BY <1>1 DEF IInv, SlotsFilled
    <2>2. UNCHANGED <<results, answer, out>>
      BY DEF Spawn
    <2>3. \A i \in Investigators :
             /\ worker'[i] \in {"answered", "wrote", "done"} <=> answer'[i] # Pending
             /\ worker'[i] \in {"wrote", "done"} => results'[i] = answer'[i]
      BY <1>1, <1>2, <2>1, <2>2 DEF IInv, SlotsFilled
    <2>. QED  BY <2>1, <2>2, <2>3 DEF SlotsFilled
  <1>. QED  BY <1>4, <1>6, <1>7, <1>8 DEF IInv, CountsRunning

\* While a goroutine runs, RunAll has not returned.
LEMMA RunningMeansNotReturned ==
  ASSUME IInv, NEW i \in Investigators, worker[i] # "done"
  PROVE  out = Pending
  BY DEF IInv, SlotsFilled

\* A goroutine's call and write leave it running: the counter stays right.
LEMMA CallHolds == ASSUME NEW i \in Investigators PROVE IInv /\ Call(i) => IInv'
  <1> SUFFICES ASSUME IInv, Call(i) PROVE IInv'
    OBVIOUS
  <1>1. PICK r \in Results[i] : answer' = [answer EXCEPT ![i] = r]
    BY DEF Call, Answer
  <1>2. r \in Result /\ r # Pending
    BY <1>1, PendingAssumption DEF Result
  <1>3. worker' = [worker EXCEPT ![i] = "answered"] /\ worker[i] = "calling"
    BY DEF Call
  <1>4. UNCHANGED <<spawned, wg, results, cancelled, out>>
    BY DEF Call, Answer
  <1>5. out = Pending
    BY <1>3, RunningMeansNotReturned
  <1>6. TypeOK'
    BY <1>1, <1>2, <1>3, <1>4 DEF IInv, TypeOK
  <1>7. Running' = Running
    BY <1>3 DEF Running, IInv, TypeOK
  <1>8. CountsRunning'
    BY <1>3, <1>4, <1>7 DEF IInv, CountsRunning, TypeOK
  <1>9. \A k \in Investigators :
           /\ worker'[k] \in {"answered", "wrote", "done"} <=> answer'[k] # Pending
           /\ worker'[k] \in {"wrote", "done"} => results'[k] = answer'[k]
    BY <1>1, <1>2, <1>3, <1>4 DEF IInv, SlotsFilled, TypeOK
  <1>. QED  BY <1>4, <1>5, <1>6, <1>8, <1>9 DEF IInv, SlotsFilled

\* The slot a goroutine writes is its own, with its own answer.
LEMMA WriteHolds == ASSUME NEW i \in Investigators PROVE IInv /\ Write(i) => IInv'
  <1> SUFFICES ASSUME IInv, Write(i) PROVE IInv'
    OBVIOUS
  <1>1. worker' = [worker EXCEPT ![i] = "wrote"] /\ worker[i] = "answered"
    BY DEF Write
  <1>2. results' = [results EXCEPT ![i] = answer[i]]
    BY DEF Write
  <1>3. UNCHANGED <<spawned, wg, cancelled, answer, out>>
    BY DEF Write
  <1>4. answer[i] # Pending /\ answer[i] \in Result
    BY <1>1 DEF IInv, SlotsFilled, TypeOK
  <1>5. out = Pending
    BY <1>1, RunningMeansNotReturned
  <1>6. TypeOK'
    BY <1>1, <1>2, <1>3, <1>4 DEF IInv, TypeOK
  <1>7. Running' = Running
    BY <1>1 DEF Running, IInv, TypeOK
  <1>8. CountsRunning'
    BY <1>1, <1>3, <1>7 DEF IInv, CountsRunning, TypeOK
  <1>9. \A k \in Investigators :
           /\ worker'[k] \in {"answered", "wrote", "done"} <=> answer'[k] # Pending
           /\ worker'[k] \in {"wrote", "done"} => results'[k] = answer'[k]
    BY <1>1, <1>2, <1>3 DEF IInv, SlotsFilled, TypeOK
  <1>. QED  BY <1>3, <1>5, <1>6, <1>8, <1>9 DEF IInv, SlotsFilled

\* A goroutine leaves the count exactly when it stops running, after its write.
LEMMA DoneHolds == ASSUME NEW i \in Investigators PROVE IInv /\ Done(i) => IInv'
  <1> SUFFICES ASSUME IInv, Done(i) PROVE IInv'
    OBVIOUS
  <1>1. worker' = [worker EXCEPT ![i] = "done"] /\ worker[i] = "wrote"
    BY DEF Done
  <1>2. UNCHANGED <<spawned, results, cancelled, answer, out>> /\ wg' = wg - 1
    BY DEF Done
  <1>3. out = Pending
    BY <1>1, RunningMeansNotReturned
  <1>4. i \in Running /\ Running' = Running \ {i}
    BY <1>1 DEF Running, IInv, TypeOK
  <1>5. wg' = Cardinality(Running') /\ wg' \in 0..N
    <2>1. Cardinality(Running') = Cardinality(Running) - 1
      BY <1>4, RunningFinite, FS_RemoveElement
    <2>2. IsFiniteSet(Running')
      BY <1>4, RunningFinite, FS_RemoveElement
    <2>3. Cardinality(Running') \in Nat
      BY <2>2, FS_CardinalityType
    <2>. QED  BY <1>2, <2>1, <2>3, NAssumption DEF IInv, TypeOK, CountsRunning
  <1>6. TypeOK'
    BY <1>1, <1>2, <1>5 DEF IInv, TypeOK
  <1>7. \A k \in Investigators : worker'[k] = "none" <=> k > spawned'
    BY <1>1, <1>2 DEF IInv, CountsRunning, TypeOK
  <1>8. \A k \in Investigators :
           /\ worker'[k] \in {"answered", "wrote", "done"} <=> answer'[k] # Pending
           /\ worker'[k] \in {"wrote", "done"} => results'[k] = answer'[k]
    BY <1>1, <1>2 DEF IInv, SlotsFilled, TypeOK
  <1>. QED  BY <1>2, <1>3, <1>5, <1>6, <1>7, <1>8 DEF IInv, CountsRunning, SlotsFilled

\* The heart of it: a counter at zero after the whole loop means that every
\* goroutine is done, so every slot holds its investigator's answer.
LEMMA WaitMeansDone ==
  ASSUME IInv, spawned = N, wg = 0
  PROVE  /\ \A i \in Investigators : worker[i] = "done"
         /\ \A i \in Investigators : answer[i] # Pending
         /\ results = answer
  <1>1. Running = {}
    BY RunningFinite, FS_EmptySet DEF IInv, CountsRunning
  <1>2. \A i \in Investigators : worker[i] # "none"
    BY NAssumption DEF IInv, CountsRunning, Investigators
  <1>3. \A i \in Investigators : worker[i] = "done"
    BY <1>1, <1>2 DEF Running, IInv, TypeOK
  <1>4. \A i \in Investigators : answer[i] # Pending /\ results[i] = answer[i]
    BY <1>3 DEF IInv, SlotsFilled
  <1>5. results = answer
    BY <1>4 DEF IInv, TypeOK
  <1>. QED  BY <1>3, <1>4, <1>5

\* RunAll returns with every goroutine done.
LEMMA ReturnHolds == IInv /\ Return => IInv'
  <1> SUFFICES ASSUME IInv, Return PROVE IInv'
    OBVIOUS
  <1>1. \A i \in Investigators : worker[i] = "done"
    BY WaitMeansDone DEF Return
  <1>2. UNCHANGED <<spawned, wg, worker, results, cancelled, answer>>
    BY DEF Return
  <1>3. Running' = Running
    BY <1>2 DEF Running
  <1>4. TypeOK' /\ CountsRunning'
    BY <1>2, <1>3 DEF IInv, TypeOK, CountsRunning
  <1>5. SlotsFilled'
    BY <1>1, <1>2 DEF IInv, SlotsFilled
  <1>. QED  BY <1>4, <1>5 DEF IInv

\* A cancelled request, and a step of nobody, change nothing the invariant is
\* about.
LEMMA CancelHolds == IInv /\ (Cancel \/ UNCHANGED fvars) => IInv'
  <1> SUFFICES ASSUME IInv, Cancel \/ UNCHANGED fvars PROVE IInv'
    OBVIOUS
  <1>1. UNCHANGED <<spawned, wg, worker, results, answer, out>> /\ cancelled' \in BOOLEAN
    BY DEF IInv, TypeOK, Cancel, fvars
  <1>2. Running' = Running
    BY <1>1 DEF Running
  <1>. QED  BY <1>1, <1>2 DEF IInv, TypeOK, CountsRunning, SlotsFilled

\* The invariant holds in every state of RunAll, under every schedule.
LEMMA InvariantHolds == FSpec => []IInv
  <1>1. IInv /\ [FNext]_fvars => IInv'
    <2> SUFFICES ASSUME IInv, [FNext]_fvars PROVE IInv'
      OBVIOUS
    <2>1. CASE Spawn
      BY <2>1, SpawnHolds
    <2>2. CASE Return
      BY <2>2, ReturnHolds
    <2>3. CASE Cancel \/ UNCHANGED fvars
      BY <2>3, CancelHolds
    <2>4. ASSUME NEW i \in Investigators, Worker(i) PROVE IInv'
      BY <2>4, CallHolds, WriteHolds, DoneHolds DEF Worker
    <2>. QED  BY <2>1, <2>2, <2>3, <2>4 DEF FNext
  <1>. QED  BY InitHolds, <1>1, PTL DEF FSpec

-----------------------------------------------------------------------------
(* The results. *)

\* Type correctness: above all, the WaitGroup's counter never goes negative,
\* which would panic, and never passes the number of investigators.
THEOREM FanOutTypeOK == FSpec => []TypeOK
  BY InvariantHolds, PTL DEF IInv

\* RunAll never returns with a slot unwritten, however many investigators
\* there are and however their goroutines are scheduled.
THEOREM FanOutReturnsEverything == FSpec => []ReturnsEverything
  <1>1. IInv => ReturnsEverything
    <2> SUFFICES ASSUME IInv, out # Pending PROVE results = answer
      BY DEF ReturnsEverything
    <2>1. \A i \in Investigators : results[i] = answer[i]
      BY DEF IInv, SlotsFilled
    <2>2. results = [i \in Investigators |-> results[i]]
          /\ answer = [i \in Investigators |-> answer[i]]
      BY DEF IInv, TypeOK
    <2>. QED  BY <2>1, <2>2
  <1>. QED  BY InvariantHolds, <1>1, PTL

\* RunAll and Flatten implement the gather: whatever the goroutines do, the
\* engine sees every investigator answer once and then their evidence joined.
THEOREM FanOutImplementsGather == FSpec => ImplementsGather
  <1>1. FInit => Init
    BY DEF FInit
  <1>2. IInv /\ [FNext]_fvars => [Next]_vars
    <2> SUFFICES ASSUME IInv, [FNext]_fvars PROVE [Next]_vars
      OBVIOUS
    <2>1. CASE Spawn \/ Cancel \/ UNCHANGED fvars
      BY <2>1 DEF Spawn, Cancel, fvars, vars
    <2>2. CASE Return
      <3>1. Join
        BY <2>2, WaitMeansDone DEF Return, Join
      <3>. QED  BY <3>1 DEF Next
    <2>3. ASSUME NEW i \in Investigators, Worker(i) PROVE [Next]_vars
      <3>1. CASE Call(i)
        BY <3>1 DEF Call, Next
      <3>2. CASE Write(i) \/ Done(i)
        BY <3>2 DEF Write, Done, vars
      <3>. QED  BY <2>3, <3>1, <3>2 DEF Worker
    <2>. QED  BY <2>1, <2>2, <2>3 DEF FNext
  <1>. QED  BY InvariantHolds, <1>1, <1>2, PTL DEF FSpec, ImplementsGather, Spec

-----------------------------------------------------------------------------
(* What Flatten makes of the answers. *)

\* What RunAll has returned is the flattening of all the answers.
Flattened ==
    out # Pending =>
        /\ \A i \in Investigators : answer[i] # Pending
        /\ results = answer /\ out = Flatten(answer)

LEMMA FlattenedStep == IInv /\ Flattened /\ [FNext]_fvars => Flattened'
  <1>. SUFFICES ASSUME IInv, Flattened, [FNext]_fvars PROVE Flattened'
    OBVIOUS
  <1>1. CASE Return
    BY <1>1, WaitMeansDone DEF Return, Flattened
  <1>2. CASE Spawn \/ Cancel \/ UNCHANGED fvars
    BY <1>2 DEF Spawn, Cancel, fvars, Flattened
  <1>3. ASSUME NEW i \in Investigators, Worker(i) PROVE Flattened'
    <2>1. worker[i] # "done"
      BY <1>3 DEF Worker, Call, Write, Done
    <2>2. out' = Pending
      BY <1>3, <2>1, RunningMeansNotReturned DEF Worker, Call, Answer, Write, Done
    <2>. QED  BY <2>2 DEF Flattened
  <1>. QED  BY <1>1, <1>2, <1>3 DEF FNext

LEMMA FlattenedHolds == FSpec => [](TypeOK /\ Flattened)
  <1>1. FInit => Flattened
    BY DEF FInit, Init, Flattened
  <1>. QED  BY <1>1, InvariantHolds, FlattenedStep, PTL DEF FSpec, IInv

\* The items of all the answers, as the property counts them, and which of two
\* comes first in the list.
ItemsOf(rs) == UNION {{<<i, m>> : m \in DOMAIN rs[i].evidence} : i \in Investigators}
ItemAt(rs, it) == rs[it[1]].evidence[it[2]]
GoesFirst(rs, it, jt) ==
    \/ ItemAt(rs, it).at < ItemAt(rs, jt).at
    \/ /\ ItemAt(rs, it).at = ItemAt(rs, jt).at
       /\ it[1] < jt[1] \/ (it[1] = jt[1] /\ it[2] < jt[2])

\* Joining the answers meets every item once, slot by slot; the stable sort
\* then moves an item only past items of another time.
LEMMA FlattenIsChronological ==
  ASSUME NEW rs \in [Investigators -> Result]
  PROVE  /\ Len(Flatten(rs)) = Cardinality(ItemsOf(rs))
         /\ \E order \in [DOMAIN Flatten(rs) -> ItemsOf(rs)] :
               /\ \A k \in DOMAIN Flatten(rs) : Flatten(rs)[k] = ItemAt(rs, order[k])
               /\ \A j, k \in DOMAIN Flatten(rs) :
                     j < k => GoesFirst(rs, order[j], order[k])
  <1>. DEFINE lists == [i \in Investigators |-> rs[i].evidence]
              S == UNION {{rs[i].evidence[m] : m \in DOMAIN rs[i].evidence} : i \in Investigators}
              flat == FlattenSeq(lists)
              places == 1..Len(flat)
              less == {p \in places \X places : flat[p[1]].at < flat[p[2]].at}
  <1>1. /\ \A i \in Investigators : rs[i].evidence \in Seq(S)
        /\ \A e \in S : e.at \in Int
    <2>1. ASSUME NEW i \in Investigators PROVE rs[i].evidence \in Seq(S)
      <3>. DEFINE T == {rs[i].evidence[m] : m \in DOMAIN rs[i].evidence}
      <3>1. rs[i].evidence \in Seq(T)
        BY ResultsAssumption
      <3>2. T \subseteq S
        OBVIOUS
      <3>. HIDE DEF S, T
      <3>. QED  BY <3>1, <3>2
    <2>2. \A e \in S : e.at \in Int
      BY ResultsAssumption
    <2>. QED  BY <2>1, <2>2
  <1>2. lists \in Seq(Seq(S)) /\ Len(lists) = N
    BY <1>1, NAssumption DEF Investigators
  <1>3. Spots(lists) = ItemsOf(rs)
    <2>1. \A i \in Investigators : DOMAIN rs[i].evidence = 1..Len(rs[i].evidence)
      BY <1>1
    <2>2. \A i \in Investigators : lists[i] = rs[i].evidence /\ Len(lists[i]) \in Nat
      BY <1>1
    <2>3. \A x \in Spots(lists) : x \in ItemsOf(rs)
      <3>1. ASSUME NEW x \in Spots(lists) PROVE x \in ItemsOf(rs)
        <4>1. x = <<x[1], x[2]>> /\ x[1] \in Investigators /\ x[2] \in 1..Len(lists[x[1]])
          <5>. HIDE DEF lists
          <5>1. x \in Investigators \X Nat /\ x[2] \in 1..Len(lists[x[1]])
            BY <1>2 DEF Spots, Investigators
          <5>. QED  BY <5>1
        <4>. QED  BY <2>1, <2>2, <4>1 DEF ItemsOf
      <3>. QED  BY <3>1
    <2>4. ASSUME NEW x \in ItemsOf(rs) PROVE x \in Spots(lists)
      <3>1. PICK i \in Investigators : \E m \in DOMAIN rs[i].evidence : x = <<i, m>>
        BY DEF ItemsOf
      <3>2. PICK m \in 1..Len(lists[i]) : x = <<i, m>>
        BY <2>1, <2>2, <3>1
      <3>. HIDE DEF lists
      <3>. QED  BY <1>2, <2>2, <3>2 DEF Spots, Investigators
    <2>. QED  BY <2>3, <2>4
  <1>4. \A x \in ItemsOf(rs) : lists[x[1]][x[2]] = ItemAt(rs, x)
    BY DEF ItemsOf, ItemAt
  <1>. HIDE DEF lists, S
  <1>5. flat \in Seq(S) /\ \E spot : MetAt(spot, flat, lists, Len(lists))
    BY <1>2, FlattenMeetsAll
  <1>6. PICK spot : MetAt(spot, flat, lists, N)
    BY <1>2, <1>5
  <1>7. Len(flat) \in Nat /\ DOMAIN flat = places /\ \A k \in places : flat[k] \in S
    BY <1>5
  <1>. HIDE DEF flat
  <1>8. StrictWeakOrder(less, places)
    <2>1. \A k \in places : flat[k].at \in Int
      BY <1>1, <1>7
    <2>2. \A i, j \in places : <<i, j>> \in less <=> flat[i].at < flat[j].at
      OBVIOUS
    <2>. HIDE DEF places, less
    <2>. QED  BY <2>1, <2>2 DEF StrictWeakOrder
  <1>9. Flatten(rs) = Picked(flat, places, less)
    BY <1>7 DEF Flatten, SliceStable, lists, flat
  <1>10. places \in SUBSET Nat /\ IsFiniteSet(places) /\ Cardinality(places) = Len(flat)
    <2>1. places \in SUBSET Nat
      BY <1>7
    <2>2. \A n \in Nat : IsFiniteSet(1..n) /\ Cardinality(1..n) = n
      BY FS_Interval
    <2>. QED  BY <1>7, <2>1, <2>2
  <1>. HIDE DEF less
  <1>11. PICK sorted : /\ Enumerates(sorted, places, less)
                       /\ Picked(flat, places, less) = Along(flat, sorted, places)
    BY <1>8, <1>10, PickedInOrder
  <1>12. /\ sorted \in [places -> places]
         /\ \A p \in places : \E k \in places : sorted[k] = p
         /\ \A j, k \in places :
               j < k => sorted[j] # sorted[k] /\ ComesFirst(less, sorted[j], sorted[k])
    BY <1>10, <1>11 DEF Enumerates
  <1>13. /\ DOMAIN Flatten(rs) = places
         /\ \A k \in places : Flatten(rs)[k] = flat[sorted[k]]
         /\ Len(Flatten(rs)) = Len(flat)
    BY <1>7, <1>9, <1>10, <1>11 DEF Along
  <1>14. /\ \A k \in places : /\ spot[k] \in ItemsOf(rs)
                              /\ flat[k] = ItemAt(rs, spot[k])
         /\ \A x \in ItemsOf(rs) : \E k \in places : spot[k] = x
         /\ \A j, k \in places : j < k => Sooner(spot[j], spot[k])
    <2>1. \A x \in ItemsOf(rs) : x[1] <= N
      BY <1>2, <1>3 DEF Spots
    <2>. QED  BY <1>3, <1>4, <1>6, <2>1 DEF MetAt
  <1>. DEFINE order == [k \in places |-> spot[sorted[k]]]
  <1>15. order \in [places -> ItemsOf(rs)]
    BY <1>12, <1>14
  <1>16. \A k \in places : Flatten(rs)[k] = ItemAt(rs, order[k])
    BY <1>12, <1>13, <1>14
  <1>17. ASSUME NEW j \in places, NEW k \in places, j < k
         PROVE  GoesFirst(rs, order[j], order[k])
    <2>. DEFINE a == sorted[j]  b == sorted[k]
    <2>1. a \in places /\ b \in places /\ a # b /\ ComesFirst(less, a, b)
      BY <1>12, <1>17
    <2>2. /\ flat[a].at \in Int /\ flat[b].at \in Int
          /\ flat[a] = ItemAt(rs, spot[a]) /\ flat[b] = ItemAt(rs, spot[b])
          /\ order[j] = spot[a] /\ order[k] = spot[b]
      BY <1>1, <1>7, <1>14, <2>1
    <2>3. a < b => Sooner(spot[a], spot[b])
      BY <1>14, <2>1
    <2>. HIDE DEF a, b, order
    <2>4. \/ flat[a].at < flat[b].at
          \/ ~(flat[b].at < flat[a].at) /\ a < b
      BY <2>1 DEF ComesFirst, less
    <2>. QED  BY <2>2, <2>3, <2>4 DEF GoesFirst, Sooner
  <1>18. Len(flat) = Cardinality(ItemsOf(rs))
    <2>1. spot \in [places -> ItemsOf(rs)] \/ [k \in places |-> spot[k]] \in [places -> ItemsOf(rs)]
      BY <1>14
    <2>2. \A j, k \in places : j < k => spot[j] # spot[k]
      <3>1. \A x \in ItemsOf(rs) : ~Sooner(x, x)
        BY <1>2, <1>3 DEF Sooner, Spots
      <3>. QED  BY <1>14, <3>1
    <2>. DEFINE met == [k \in places |-> spot[k]]
    <2>3. /\ met \in [places -> ItemsOf(rs)]
          /\ \A x \in ItemsOf(rs) : \E k \in places : met[k] = x
          /\ \A j, k \in places : j < k => met[j] # met[k]
      BY <1>14, <2>2
    <2>. HIDE DEF met
    <2>. QED  BY <1>7, <2>3, ListedOnce
  <1>. QED  BY <1>13, <1>15, <1>16, <1>17, <1>18

\* The evidence the ranker gets is chronological, whole, and the same whoever
\* answers first, for any number of investigators and any evidence, several
\* equal items included (RunAll, Flatten).
THEOREM FanOutChronologicalWhoeverIsFirst == FSpec => []ChronologicalWhoeverIsFirst
  <1>1. TypeOK /\ Flattened => ChronologicalWhoeverIsFirst
    <2>. SUFFICES ASSUME TypeOK, Flattened, out # Pending
                  PROVE  ChronologicalWhoeverIsFirst
      BY DEF ChronologicalWhoeverIsFirst
    <2>1. out = Flatten(answer)
      BY DEF Flattened
    <2>2. answer \in [Investigators -> Result]
      BY PendingAssumption DEF TypeOK, Flattened
    <2>3. /\ Len(out) = Cardinality(ItemsOf(answer))
          /\ \E order \in [DOMAIN out -> ItemsOf(answer)] :
                /\ \A k \in DOMAIN out : out[k] = ItemAt(answer, order[k])
                /\ \A j, k \in DOMAIN out : j < k => GoesFirst(answer, order[j], order[k])
      BY <2>1, <2>2, FlattenIsChronological
    <2>. QED  BY <2>3 DEF ChronologicalWhoeverIsFirst, ItemsOf, ItemAt, GoesFirst
  <1>. QED  BY <1>1, FlattenedHolds, PTL
=============================================================================
