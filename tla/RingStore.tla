------------------------------ MODULE RingStore ------------------------------
(***************************************************************************)
(* internal/storage/memory/memory.go: the Storage held in a fixed-capacity *)
(* ring buffer.  Slots are numbered from 1 as TLA+ sequences are; next     *)
(* keeps the source's numbering from 0, so the write head is slot          *)
(* next + 1.  byID[id] = 0 stands for an id absent from the map.           *)
(***************************************************************************)
EXTENDS Integers, Investigations, StableSort

CONSTANT Capacity    \* New's argument
ASSUME CapacityAssumption == Capacity \in Int

DefaultCapacity == 1000

Cap == IF Capacity <= 0 THEN DefaultCapacity ELSE Capacity

VARIABLES
    entries,   \* the slots filled so far
    byID,      \* id |-> slot of its record
    next       \* ring write head

vars == <<entries, byID, next>>

New == entries = <<>> /\ byID = [id \in Id |-> 0] /\ next = 0

Absent(index, id) == [index EXCEPT ![id] = 0]

\* Mutant of SaveGrow: the index is one slot behind the append.
SaveGrowOffByOne(inv) ==
    /\ Len(entries) < Cap
    /\ byID' = [byID EXCEPT ![IdOf(inv)] = Len(entries)]
    /\ entries' = Append(entries, inv)
    /\ UNCHANGED next

\* Save while the buffer has room: a new slot.
SaveGrow(inv) ==
    /\ Len(entries) < Cap
    /\ byID' = [byID EXCEPT ![IdOf(inv)] = Len(entries) + 1]
    /\ entries' = Append(entries, inv)
    /\ UNCHANGED next

\* Mutant of Unindexed: an unconditional delete.
UnindexedAlways == Absent(byID, IdOf(entries[next + 1]))

\* The index once the slot at the write head is given up: its old id goes,
\* unless a later save of that id already moved it to another slot.
Unindexed ==
    LET old == IdOf(entries[next + 1])
    IN  IF byID[old] = next + 1 THEN Absent(byID, old) ELSE byID

\* Mutants of SaveEvict: the head is not wrapped, or not advanced.
SaveEvictUnwrapped(inv) ==
    /\ Len(entries) = Cap
    /\ byID' = [Unindexed EXCEPT ![IdOf(inv)] = next + 1]
    /\ entries' = [entries EXCEPT ![next + 1] = inv]
    /\ next' = next + 1
SaveEvictInPlace(inv) ==
    /\ Len(entries) = Cap
    /\ byID' = [Unindexed EXCEPT ![IdOf(inv)] = next + 1]
    /\ entries' = [entries EXCEPT ![next + 1] = inv]
    /\ UNCHANGED next

\* Save on a full buffer: reuse the slot at the write head.
SaveEvict(inv) ==
    /\ Len(entries) = Cap
    /\ byID' = [Unindexed EXCEPT ![IdOf(inv)] = next + 1]
    /\ entries' = [entries EXCEPT ![next + 1] = inv]
    /\ next' = (next + 1) % Cap

Save(inv) == SaveGrow(inv) \/ SaveEvict(inv)

\* "Lost on restart by design."
Restart == entries' = <<>> /\ byID' = [id \in Id |-> 0] /\ next' = 0

Get(id) == IF byID[id] = 0 THEN NotFound ELSE entries[byID[id]]

\* A copy of the slots, newest first by StartedAt; limit <= 0 is unlimited.
List(limit) ==
    LET Newer(a, b) == a.startedAt > b.startedAt
        out == SliceStable(entries, Newer)
    IN  IF limit > 0 THEN Truncate(out, limit) ELSE out

Init == New

Next == Restart \/ \E inv \in Investigation : Save(inv)

Spec == Init /\ [][Next]_vars

-----------------------------------------------------------------------------
(* What is checked. *)

TypeOK ==
    /\ entries \in Seq(Investigation)
    /\ Len(entries) <= Cap
    /\ byID \in [Id -> 0..Len(entries)]
    /\ next \in 0..(Cap - 1)
    /\ Len(entries) < Cap => next = 0

\* The slot of the k-th oldest record.
Slot(k) == IF next + k <= Cap THEN next + k ELSE next + k - Cap

\* The records, oldest save first.
Saves == [k \in 1..Len(entries) |-> entries[Slot(k)]]

Answers == [id \in Id |-> Get(id)]

Log == INSTANCE RecentLog WITH log <- Saves, lookup <- Answers
Contract == INSTANCE Storage WITH lookup <- Answers

\* The hand-kept index never goes stale: through any number of evictions and
\* repeated saves, byID points an id at the slot of its latest save, and
\* lists no id whose every record has been overwritten (Save's
\* delete-only-if-idx-is-s.next, the wrap of s.next).
IndexIsNewest ==
    \A id \in Id :
        \/ /\ byID[id] = 0
           /\ \A k \in 1..Len(entries) : IdOf(entries[k]) # id
        \/ \E k \in 1..Len(entries) :
              byID[id] = Slot(k) /\ Log!IsLatest(Saves, k, id)

\* The ring is the abstract log of the last Cap saves: slots, head and index
\* together never lose, reorder or resurrect a save (Save, Get).
KeepsLastSaves == Log!Spec

\* The ring keeps the promise of the Storage interface: a Save is what the
\* next Get of its id answers, and changes no other id's answer except by
\* evicting it.
MeetsContract == Contract!Spec
=============================================================================
