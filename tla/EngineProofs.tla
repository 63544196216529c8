---------------------------- MODULE EngineProofs ----------------------------
(***************************************************************************)
(* The running server, and the memory investigator it calls, proved        *)
(* correct for every number of requests and resolves in flight, on both    *)
(* backends, with crashes, disconnects and store errors in any order.      *)
(*                                                                         *)
(* The inductive invariant says of every place an investigation can be,    *)
(* a slot, a row, a resolve's copy, a job about to save, that it is on     *)
(* record: a run that was ranked, under a note submitted for its id.  The  *)
(* evidence a job carries is honest already before it is ranked.  A second *)
(* invariant dates it all: StartedAt tells runs apart, and nobody can have *)
(* resolved a run that is not saved yet, so no save undoes an acknowledged *)
(* resolve of the same run.                                                *)
(***************************************************************************)
EXTENDS Engine, Recall, ListProofs, SequenceTheorems, TLAPS

RingP == INSTANCE RingStoreProofs

-----------------------------------------------------------------------------
(* The two stores, as the engine instantiates them.                        *)

\* The instance of the ring here and the one its proofs were made in are one.
LEMMA RingIsRingP ==
  /\ Ring!TypeOK <=> RingP!TypeOK
  /\ Ring!New <=> RingP!New
  /\ \A inv : /\ Ring!SaveGrow(inv) <=> RingP!SaveGrow(inv)
              /\ Ring!SaveEvict(inv) <=> RingP!SaveEvict(inv)
  /\ RingP!Cap = Ring!Cap
  /\ RingP!Investigation = Investigation
  /\ Ring!Investigation = Investigation
  /\ Db!Investigation = Investigation
  <1>1. RingP!Cap = Ring!Cap
    BY DEF RingP!Cap, Ring!Cap, Ring!DefaultCapacity, RingP!DefaultCapacity
  <1>2. /\ RingP!Investigation = Investigation
        /\ Ring!Investigation = Investigation
        /\ Db!Investigation = Investigation
    BY DEF RingP!Investigation, Investigation, Ring!Investigation,
       Db!Investigation
  <1>3. Ring!TypeOK <=> RingP!TypeOK
    BY <1>1, <1>2 DEF Ring!TypeOK, RingP!TypeOK
  <1>4. Ring!New <=> RingP!New
    BY DEF Ring!New, RingP!New
  <1>5. ASSUME NEW inv PROVE Ring!SaveGrow(inv) <=> RingP!SaveGrow(inv)
    BY <1>1 DEF Ring!SaveGrow, RingP!SaveGrow, Ring!IdOf, RingP!IdOf
  <1>6. ASSUME NEW inv PROVE Ring!SaveEvict(inv) <=> RingP!SaveEvict(inv)
    BY <1>1 DEF Ring!SaveEvict, RingP!SaveEvict, Ring!Unindexed,
       RingP!Unindexed, Ring!Absent, RingP!Absent, Ring!IdOf, RingP!IdOf
  <1>. QED  BY <1>1, <1>2, <1>3, <1>4, <1>5, <1>6

\* Every investigation is filed under a known id.
LEMMA IdOfInvestigation == \A inv \in Investigation : IdOf(inv) \in Id
  BY IncidentAssumption DEF Investigation, IdOf

\* And so are their type invariants, before a step and after it.
LEMMA RingTypeIsRingPType ==
  /\ Ring!TypeOK <=> RingP!TypeOK
  /\ Ring!TypeOK' <=> RingP!TypeOK'
  BY RingIsRingP DEF Ring!TypeOK, RingP!TypeOK

\* A save into the ring keeps its slots and its index well-formed.
LEMMA RingSaveTyped ==
  ASSUME Ring!TypeOK, NEW inv \in Investigation, Ring!Save(inv)
  PROVE  Ring!TypeOK'
  <1>1. RingP!TypeOK /\ inv \in RingP!Investigation
    BY RingIsRingP
  <1>2. RingP!SaveGrow(inv) \/ RingP!SaveEvict(inv)
    BY RingIsRingP DEF Ring!Save
  <1>3. RingP!TypeOK'
      BY <1>1, <1>2, RingP!GrowTypeOK, RingP!EvictTypeOK, StoreAssumption,
         IncidentAssumption, NotFoundAssumption, EncodableAssumption,
         TimeAssumption, RingIsRingP
  <1>. QED  BY <1>3, RingTypeIsRingPType

\* A save into the table keeps its rows well-formed.
LEMMA TableSaveTyped ==
  ASSUME Db!TypeOK, NEW inv \in Investigation, Db!Save(inv)
  PROVE  /\ Db!TypeOK'
         /\ LET row == [started_at |-> Db!Unix(inv.startedAt), data |-> inv]
            IN  row # NoRow /\ rows' = [rows EXCEPT ![IdOf(inv)] = row]
  <1>. DEFINE row == [started_at |-> Db!Unix(inv.startedAt), data |-> inv]
  <1>1. inv.startedAt \in Nat /\ IdOf(inv) \in Id
    BY IncidentAssumption, TimeAssumption DEF Investigation, IdOf
  <1>2. Db!Unix(inv.startedAt) \in Nat
    BY <1>1, StoreAssumption DEF Db!Unix
  <1>3. row \in Db!Row
    BY <1>2, RingIsRingP DEF Db!Row, Db!Save
  <1>4. row # NoRow
    BY <1>3, StoreAssumption
  <1>5. rows' = [rows EXCEPT ![IdOf(inv)] = row]
    BY DEF Db!Save, Db!IdOf, IdOf
  <1>. QED  BY <1>1, <1>3, <1>4, <1>5 DEF Db!TypeOK

-----------------------------------------------------------------------------
(* The inductive invariant. *)

\* inv is a run that was ranked, with no resolution or one submitted for it.
Recorded(inv, ranked, notes) ==
    /\ [inv EXCEPT !.resolution = Unresolved] \in ranked
    /\ Resolved(inv) => <<IdOf(inv), inv.resolution>> \in notes

OnRecord(inv) == Recorded(inv, runs, submitted)

RingOK ==
    /\ \A k \in 1..Len(entries) : OnRecord(entries[k])
    /\ \A id \in Id : byID[id] # 0 => IdOf(entries[byID[id]]) = id

OnFile == {id \in Id : rows[id] # NoRow}

TableOK ==
    /\ IsFiniteSet(OnFile)
    /\ \A id \in Id : rows[id] # NoRow =>
          OnRecord(rows[id].data) /\ IdOf(rows[id].data) = id

\* What RecallIsHonest and PastLinksOpen ask of a memory evidence.
Honest(e, inc) ==
    /\ e.past # inc.id
    /\ \E p \in runs :
          /\ IdOf(p) = e.past
          /\ \/ p.incident.summary = inc.summary
             \/ ScopeSet(p.incident.scope) \cap ScopeSet(inc.scope) # {}
    /\ e.fix # Unresolved => <<e.past, e.fix>> \in submitted
    /\ backend = "sqlite" => rows[e.past] # NoRow

\* A request in flight carries honest recollections and live evidence of its
\* own, and its run is on record from the moment it is ranked.
RecollectionsOK(j) ==
    job[j].memory # Pending =>
        /\ job[j].memory \in SUBSET Recollection
        /\ \A e \in job[j].memory : Honest(e, job[j].inc)

AnswersOK(j) ==
    job[j].live # Pending => \E all \in LiveAnswers : job[j].live \in SUBSET all

RankedOK(j) ==
    job[j].pc # "investigating" =>
        job[j].memory # Pending /\ job[j].live # Pending /\ RunOf(j) \in runs

JobOK(j) ==
    job[j].pc # "idle" =>
        /\ RecollectionsOK(j)
        /\ AnswersOK(j)
        /\ RankedOK(j)

\* The copy a resolve holds is on record, and its note is submitted for it.
CopyOK(r) ==
    resolver[r].pc = "got" =>
        /\ OnRecord(resolver[r].inv)
        /\ <<IdOf(resolver[r].inv), resolver[r].note>> \in submitted

RunsOK ==
    \A run \in runs : \A e \in MemoryEvidence(run.hypotheses) :
        e \in Recollection /\ Honest(e, run.incident)

IInv ==
    /\ TypeOK
    /\ RingOK
    /\ TableOK
    /\ \A j \in Job : JobOK(j)
    /\ \A r \in Resolver : CopyOK(r)
    /\ RunsOK

\* What no step undoes.
Grows ==
    /\ backend' = backend
    /\ runs \subseteq runs'
    /\ submitted \subseteq submitted'
    /\ \A id \in Id : rows[id] # NoRow => rows'[id] # NoRow

\* What is on record stays on record.
LEMMA OnRecordKept ==
  ASSUME NEW inv, OnRecord(inv), Grows
  PROVE  OnRecord(inv)'
  BY DEF OnRecord, Recorded, Grows

\* And so is a recollection's honesty: runs, notes and rows only grow.
LEMMA HonestKept ==
  ASSUME NEW e \in Recollection, NEW inc, Honest(e, inc), Grows
  PROVE  Honest(e, inc)'
  BY DEF Honest, Grows, Recollection

\* A step that ranks nothing leaves the reports as honest as they were.
LEMMA RunsKept ==
  ASSUME RunsOK, Grows, runs' = runs
  PROVE  RunsOK'
  BY HonestKept DEF RunsOK, MemoryEvidence

\* A request that takes no step is not disturbed by those of others.
LEMMA JobKept ==
  ASSUME NEW j \in Job, TypeOK, JobOK(j), Grows, job'[j] = job[j]
  PROVE  JobOK(j)'
  <1>. SUFFICES ASSUME job[j].pc # "idle" PROVE JobOK(j)'
    BY DEF JobOK
  <1>1. RunOf(j)' = RunOf(j) /\ ReportOf(j)' = ReportOf(j)
    BY DEF RunOf, ReportOf
  <1>2. RecollectionsOK(j)'
    BY HonestKept DEF JobOK, RecollectionsOK
  <1>3. AnswersOK(j)' /\ RankedOK(j)'
    BY <1>1 DEF JobOK, AnswersOK, RankedOK, Grows
  <1>. QED  BY <1>2, <1>3 DEF JobOK, Grows

\* Nor is a resolve's copy.
LEMMA CopyKept ==
  ASSUME NEW r \in Resolver, CopyOK(r), Grows, resolver'[r] = resolver[r]
  PROVE  CopyOK(r)'
  BY OnRecordKept DEF CopyOK, Grows

\* A step that leaves the store alone keeps it on record.
LEMMA StoreKept ==
  ASSUME TypeOK, RingOK, TableOK, Grows,
         UNCHANGED <<entries, byID, next, rows>>
  PROVE  RingOK' /\ TableOK'
  <1>1. RingOK'
    BY OnRecordKept DEF RingOK
  <1>2. TableOK'
    BY OnRecordKept DEF TableOK, OnFile
  <1>. QED  BY <1>1, <1>2

\* A save puts one record on file and leaves the others what they were.
LEMMA RingSaveHolds ==
  ASSUME Ring!TypeOK, RingOK, NEW inv \in Investigation, Ring!Save(inv),
         Recorded(inv, runs', submitted'), Grows
  PROVE  RingOK'
  <1>. DEFINE n == Len(entries)
  <1>1. /\ entries \in Seq(Investigation) /\ n \in Nat
        /\ byID \in [Id -> 0..n] /\ IdOf(inv) \in Id
    BY IdOfInvestigation, RingIsRingP DEF Ring!TypeOK
  <1>2. CASE Ring!SaveGrow(inv)
    <2>1. /\ Len(entries') = n + 1
          /\ \A k \in 1..(n + 1) : entries'[k] = IF k = n + 1 THEN inv ELSE entries[k]
      BY <1>1, <1>2 DEF Ring!SaveGrow
    <2>2. \A id \in Id : byID'[id] = IF id = IdOf(inv) THEN n + 1 ELSE byID[id]
      BY <1>1, <1>2 DEF Ring!SaveGrow, Ring!IdOf, IdOf
    <2>3. ASSUME NEW k \in 1..(n + 1) PROVE Recorded(entries'[k], runs', submitted')
      <3>1. CASE k = n + 1
        BY <2>1, <3>1
      <3>2. CASE k # n + 1
        <4>1. k \in 1..n /\ entries'[k] = entries[k]
          BY <1>1, <2>1, <3>2
        <4>. QED  BY <4>1 DEF RingOK, OnRecord, Recorded, Grows
      <3>. QED  BY <3>1, <3>2
    <2>4. ASSUME NEW id \in Id, byID'[id] # 0 PROVE IdOf(entries'[byID'[id]]) = id
      BY <1>1, <2>1, <2>2, <2>4 DEF RingOK
    <2>. QED  BY <2>1, <2>3, <2>4 DEF RingOK, OnRecord
  <1>3. CASE Ring!SaveEvict(inv)
    <2>1. /\ n = Ring!Cap /\ next + 1 \in 1..n
      BY <1>3, StoreAssumption DEF Ring!SaveEvict, Ring!TypeOK, Ring!Cap,
         Ring!DefaultCapacity
    <2>2. /\ Len(entries') = n
          /\ \A k \in 1..n : entries'[k] = IF k = next + 1 THEN inv ELSE entries[k]
      BY <1>1, <1>3, <2>1 DEF Ring!SaveEvict
    <2>3. entries[next + 1] \in Investigation /\ IdOf(entries[next + 1]) \in Id
      BY <1>1, <2>1, IdOfInvestigation
    <2>4. \A id \in Id :
             byID'[id] = IF id = IdOf(inv) THEN next + 1
                         ELSE IF id = IdOf(entries[next + 1]) /\ byID[id] = next + 1 THEN 0
                         ELSE byID[id]
      BY <1>1, <1>3, <2>3 DEF Ring!SaveEvict, Ring!Unindexed, Ring!Absent,
         Ring!IdOf, IdOf
    <2>5. ASSUME NEW k \in 1..n PROVE Recorded(entries'[k], runs', submitted')
      BY <2>2 DEF RingOK, OnRecord, Recorded, Grows
    <2>6. ASSUME NEW id \in Id, byID'[id] # 0 PROVE IdOf(entries'[byID'[id]]) = id
      <3>1. CASE id = IdOf(inv)
        BY <2>1, <2>2, <2>4, <3>1
      <3>2. CASE id # IdOf(inv)
        <4>1. byID'[id] = byID[id] /\ byID[id] \in 1..n /\ IdOf(entries[byID[id]]) = id
          BY <1>1, <2>4, <2>6, <3>2 DEF RingOK
        <4>2. byID[id] # next + 1
          BY <2>3, <2>4, <2>6, <3>2, <4>1
        <4>. QED  BY <2>2, <4>1, <4>2
      <3>. QED  BY <3>1, <3>2
    <2>. QED  BY <2>2, <2>5, <2>6 DEF RingOK, OnRecord
  <1>. QED  BY <1>2, <1>3 DEF Ring!Save

\* The same of the table.
LEMMA TableSaveHolds ==
  ASSUME Db!TypeOK, TableOK, NEW inv \in Investigation, Db!Save(inv),
         Recorded(inv, runs', submitted'), Grows
  PROVE  TableOK'
  <1>. DEFINE row == [started_at |-> Db!Unix(inv.startedAt), data |-> inv]
  <1>1. rows' = [rows EXCEPT ![IdOf(inv)] = row] /\ IdOf(inv) \in Id
    BY TableSaveTyped, IdOfInvestigation
  <1>2. \A id \in Id : rows'[id] = IF id = IdOf(inv) THEN row ELSE rows[id]
    BY <1>1 DEF Db!TypeOK
  <1>3. ASSUME NEW id \in Id, rows'[id] # NoRow
        PROVE  Recorded(rows'[id].data, runs', submitted') /\ IdOf(rows'[id].data) = id
    <2>1. CASE id = IdOf(inv)
      <3>1. rows'[id].data = inv
        BY <1>2, <2>1
      <3>. QED  BY <2>1, <3>1
    <2>2. CASE id # IdOf(inv)
      <3>1. rows'[id] = rows[id]
        BY <1>2, <2>2
      <3>. QED  BY <1>3, <3>1 DEF TableOK, OnRecord, Recorded, Grows
    <2>. QED  BY <2>1, <2>2
  <1>4. IsFiniteSet(OnFile')
    <2>1. row # NoRow
      BY TableSaveTyped
    <2>2. OnFile' = OnFile \cup {IdOf(inv)}
      BY <1>1, <1>2, <2>1 DEF OnFile
    <2>. QED  BY <2>2, FS_AddElement DEF TableOK
  <1>. QED  BY <1>3, <1>4 DEF TableOK, OnRecord

\* Whichever the backend.
LEMMA SaveOkHolds ==
  ASSUME TypeOK, RingOK, TableOK, NEW inv \in Investigation, SaveOk(inv),
         Recorded(inv, runs', submitted'), Grows
  PROVE  Ring!TypeOK' /\ Db!TypeOK' /\ RingOK' /\ TableOK'
  <1>1. CASE backend = "ring"
    <2>1. Ring!Save(inv) /\ UNCHANGED rows
      BY <1>1 DEF SaveOk
    <2>2. Ring!TypeOK' /\ RingOK'
      BY <2>1, RingSaveTyped, RingSaveHolds DEF TypeOK
    <2>3. Db!TypeOK' /\ TableOK'
      BY <2>1 DEF TypeOK, Db!TypeOK, TableOK, OnFile, OnRecord, Recorded, Grows
    <2>. QED  BY <2>2, <2>3
  <1>2. CASE backend # "ring"
    <2>1. Db!Save(inv) /\ UNCHANGED <<entries, byID, next>>
      BY <1>2 DEF SaveOk
    <2>2. Db!TypeOK' /\ TableOK'
      BY <2>1, TableSaveTyped, TableSaveHolds DEF TypeOK
    <2>3. Ring!TypeOK' /\ RingOK'
      BY <2>1 DEF TypeOK, Ring!TypeOK, RingOK, OnRecord, Recorded, Grows
    <2>. QED  BY <2>2, <2>3
  <1>. QED  BY <1>1, <1>2

\* No save takes a row away, and a save on the table files its record whole.
LEMMA SaveOkFiles ==
  ASSUME TypeOK, NEW inv \in Investigation, SaveOk(inv)
  PROVE  /\ backend' = backend
         /\ \A id \in Id : rows[id] # NoRow => rows'[id] # NoRow
         /\ backend = "sqlite" => rows'[IdOf(inv)] # NoRow /\ rows'[IdOf(inv)].data = inv
  <1>1. CASE backend = "ring"
    BY <1>1 DEF SaveOk
  <1>2. CASE backend # "ring"
    <2>. DEFINE row == [started_at |-> Db!Unix(inv.startedAt), data |-> inv]
    <2>1. row # NoRow /\ rows' = [rows EXCEPT ![IdOf(inv)] = row] /\ IdOf(inv) \in Id
      BY <1>2, TableSaveTyped, IdOfInvestigation DEF SaveOk, TypeOK
    <2>2. row.data = inv
      OBVIOUS
    <2>. HIDE DEF row
    <2>. QED  BY <1>2, <2>1, <2>2 DEF TypeOK, Db!TypeOK, SaveOk
  <1>. QED  BY <1>1, <1>2

-----------------------------------------------------------------------------
(* Every step keeps the invariant. *)

\* A server that has just started satisfies the invariant.
LEMMA InitHolds == Init => IInv
  <1>. SUFFICES ASSUME Init PROVE IInv
    OBVIOUS
  <1>1. Ring!TypeOK
    BY StoreAssumption DEF Init, Ring!New, Ring!TypeOK, Ring!Cap,
       Ring!DefaultCapacity
  <1>2. TypeOK
    BY <1>1, BoundsAssumption DEF Init, TypeOK, Db!TypeOK
  <1>3. RingOK /\ TableOK
    <2>1. OnFile = {}
      BY DEF Init, OnFile
    <2>. QED  BY <2>1, FS_EmptySet DEF Init, Ring!New, RingOK, TableOK
  <1>. QED  BY <1>2, <1>3 DEF Init, IInv, JobOK, CopyOK, RunsOK,
               NoInvestigation, NoResolve

\* A step of one job, or of none, that leaves the store alone.
LEMMA OneJobSteps ==
  ASSUME IInv, Grows, NEW j \in Job, \A i \in Job \ {j} : job'[i] = job[i],
         JobOK(j)', UNCHANGED resolver
  PROVE  (\A i \in Job : JobOK(i)') /\ (\A r \in Resolver : CopyOK(r)')
  <1>1. ASSUME NEW i \in Job PROVE JobOK(i)'
    BY JobKept DEF IInv
  <1>2. ASSUME NEW r \in Resolver PROVE CopyOK(r)'
    BY CopyKept DEF IInv
  <1>. QED  BY <1>1, <1>2

\* A fault is counted, within the bound.
LEMMA FaultsGrow == TypeOK /\ Fault => faults' \in 0..MaxFaults /\ faults' > faults
  BY BoundsAssumption DEF TypeOK, Fault

\* A request that has just come in carries nothing yet.
LEMMA ReceiveHolds ==
  ASSUME IInv, NEW j \in Job, Receive(j)
  PROVE  IInv'
  <1>. USE DEF store, history
  <1>1. PICK inc \in Incident :
           job' = [job EXCEPT ![j] =
                     [pc |-> "investigating", inc |-> inc, started |-> clock,
                      gone |-> FALSE, memory |-> Pending, live |-> Pending,
                      tried |-> 0]]
    BY DEF Receive
  <1>2. Grows
    BY DEF Receive, Grows
  <1>3. TypeOK'
    <2>1. job' \in [Job -> RunningJob \cup {NoInvestigation}]
      BY <1>1, BoundsAssumption, SinksAssumption DEF IInv, TypeOK, RunningJob,
         Receive
    <2>. QED
      BY <2>1, BoundsAssumption DEF IInv, TypeOK, Receive, Ring!TypeOK,
         Db!TypeOK
  <1>4. JobOK(j)'
    BY <1>1 DEF IInv, TypeOK, JobOK, RecollectionsOK, AnswersOK, RankedOK
  <1>5. \A i \in Job \ {j} : job'[i] = job[i]
    BY <1>1 DEF IInv, TypeOK
  <1>6. RingOK' /\ TableOK' /\ RunsOK'
    BY <1>2, StoreKept, RunsKept DEF Receive, IInv
  <1>7. (\A i \in Job : JobOK(i)') /\ (\A r \in Resolver : CopyOK(r)')
    BY <1>2, <1>4, <1>5, OneJobSteps DEF Receive
  <1>. QED  BY <1>3, <1>6, <1>7 DEF IInv

\* A request in flight is a RunningJob.
LEMMA JobTyped ==
  ASSUME TypeOK, NEW j \in Job, job[j].pc # "idle"
  PROVE  job[j] \in RunningJob
  BY DEF TypeOK, NoInvestigation

\* The live investigators' answer is one they may give, or a part of it.
LEMMA AnswerLiveHolds ==
  ASSUME IInv, NEW j \in Job, AnswerLive(j)
  PROVE  IInv'
  <1>. USE DEF store, history
  <1>1. PICK live : /\ \E all \in LiveAnswers : live \in SUBSET all
                    /\ job' = [job EXCEPT ![j].live = live]
    BY DEF AnswerLive
  <1>2. Grows
    BY DEF AnswerLive, Grows
  <1>3. job[j] \in RunningJob /\ job[j].pc = "investigating"
    BY JobTyped DEF AnswerLive, IInv
  <1>4. TypeOK'
    <2>1. live \in Report
      <3>1. {} \cup live \in Report
        BY <1>1, ReportAssumption
      <3>. QED  BY <3>1
    <2>2. job' \in [Job -> RunningJob \cup {NoInvestigation}]
      BY <1>1, <1>3, <2>1 DEF IInv, TypeOK, RunningJob
    <2>. QED
      BY <2>2 DEF IInv, TypeOK, AnswerLive, Ring!TypeOK, Db!TypeOK
  <1>5. \A i \in Job \ {j} : job'[i] = job[i]
    BY <1>1 DEF IInv, TypeOK
  <1>6. JobOK(j)'
    <2>1. /\ job'[j].pc = "investigating" /\ job'[j].inc = job[j].inc
          /\ job'[j].memory = job[j].memory /\ job'[j].live = live
          /\ job'[j].gone = job[j].gone
      BY <1>1, <1>3 DEF IInv, TypeOK, RunningJob
    <2>2. RecollectionsOK(j)'
      BY <1>2, <1>3, <2>1, HonestKept DEF IInv, JobOK, RecollectionsOK
    <2>3. AnswersOK(j)' /\ RankedOK(j)'
      BY <1>1, <2>1 DEF AnswersOK, RankedOK
    <2>. QED  BY <1>3, <2>1, <2>2, <2>3 DEF IInv, JobOK, AnswerLive
  <1>7. RingOK' /\ TableOK' /\ RunsOK'
    BY <1>2, StoreKept, RunsKept DEF AnswerLive, IInv
  <1>8. (\A i \in Job : JobOK(i)') /\ (\A r \in Resolver : CopyOK(r)')
    BY <1>2, <1>5, <1>6, OneJobSteps DEF AnswerLive
  <1>. QED  BY <1>4, <1>7, <1>8 DEF IInv

\* What Rank puts on record, and Save on file, is an investigation.
LEMMA RunTyped ==
  ASSUME IInv, NEW j \in Job, job[j].pc # "idle",
         job[j].memory # Pending, job[j].live # Pending
  PROVE  /\ RunOf(j) \in Investigation
         /\ RunOf(j).resolution = Unresolved
         /\ IdOf(RunOf(j)) = job[j].inc.id
         /\ [RunOf(j) EXCEPT !.resolution = Unresolved] = RunOf(j)
  <1>1. job[j] \in RunningJob
    BY JobTyped DEF IInv
  <1>2. ReportOf(j) \in Report
    <2>1. RecollectionsOK(j) /\ AnswersOK(j)
      BY DEF IInv, JobOK
    <2>2. job[j].memory \in SUBSET Recollection
      BY <2>1 DEF RecollectionsOK
    <2>3. PICK all \in LiveAnswers : job[j].live \in SUBSET all
      BY <2>1 DEF AnswersOK
    <2>. QED  BY <2>2, <2>3, ReportAssumption DEF ReportOf
  <1>3. job[j].started \in Time
    BY <1>1, ClockAssumption, BoundsAssumption DEF RunningJob
  <1>. QED  BY <1>1, <1>2, <1>3 DEF RunOf, Investigation, RunningJob, IdOf

\* What is ranked is on record from then on, and its memory evidence honest.
LEMMA RankHolds ==
  ASSUME IInv, NEW j \in Job, Rank(j)
  PROVE  IInv'
  <1>. USE DEF store
  <1>1. Grows
    BY DEF Rank, Grows
  <1>2. /\ job[j] \in RunningJob /\ job[j].pc = "investigating"
        /\ job[j].memory # Pending /\ job[j].live # Pending
    BY JobTyped DEF Rank, IInv
  <1>3. RunOf(j) \in Investigation /\ runs' = runs \cup {RunOf(j)}
    BY <1>2, RunTyped DEF Rank
  <1>4. job' = [job EXCEPT ![j].pc = "ranked"] /\ \A i \in Job \ {j} : job'[i] = job[i]
    BY DEF IInv, TypeOK, Rank
  <1>5. /\ job'[j].pc = "ranked" /\ job'[j].inc = job[j].inc
        /\ job'[j].memory = job[j].memory /\ job'[j].live = job[j].live
        /\ job'[j].gone = job[j].gone /\ job'[j].started = job[j].started
    BY <1>2, <1>4 DEF IInv, TypeOK, RunningJob
  <1>6. TypeOK'
    <2>1. job' \in [Job -> RunningJob \cup {NoInvestigation}]
      BY <1>2, <1>4 DEF IInv, TypeOK, RunningJob
    <2>. QED
      BY <1>3, <2>1 DEF IInv, TypeOK, Rank, Ring!TypeOK, Db!TypeOK
  <1>7. JobOK(j)'
    <2>1. RecollectionsOK(j)'
      BY <1>1, <1>2, <1>5, HonestKept DEF IInv, JobOK, RecollectionsOK
    <2>2. AnswersOK(j)'
      BY <1>2, <1>5 DEF IInv, JobOK, AnswersOK
    <2>3. RankedOK(j)'
      BY <1>2, <1>3, <1>5 DEF RankedOK, RunOf, ReportOf
    <2>. QED  BY <1>2, <1>5, <2>1, <2>2, <2>3 DEF IInv, JobOK, Rank
  <1>8. RunsOK'
    <2>. SUFFICES ASSUME NEW run \in runs', NEW e \in MemoryEvidence(run.hypotheses)
                  PROVE  e \in Recollection /\ Honest(e, run.incident)'
      BY DEF RunsOK, MemoryEvidence
    <2>1. e \in Recollection /\ Honest(e, run.incident)
      <3>1. CASE run \in runs
        BY <3>1 DEF IInv, RunsOK
      <3>2. CASE run = RunOf(j)
        <4>1. /\ RecollectionsOK(j) /\ AnswersOK(j)
              /\ RunOf(j).incident = job[j].inc
              /\ e \in job[j].memory \cup job[j].live /\ e \notin UNION LiveAnswers
          BY <1>2, <3>2 DEF IInv, JobOK, RunOf, ReportOf, MemoryEvidence
        <4>2. e \in job[j].memory
          BY <1>2, <4>1 DEF AnswersOK
        <4>. QED  BY <1>2, <3>2, <4>1, <4>2 DEF RecollectionsOK
      <3>. QED  BY <1>3, <3>1, <3>2
    <2>. QED  BY <1>1, <2>1, HonestKept
  <1>9. RingOK' /\ TableOK'
    BY <1>1, StoreKept DEF Rank, IInv
  <1>10. (\A i \in Job : JobOK(i)') /\ (\A r \in Resolver : CopyOK(r)')
    BY <1>1, <1>4, <1>7, OneJobSteps DEF Rank
  <1>. QED  BY <1>6, <1>8, <1>9, <1>10 DEF IInv

\* The part of the invariant that speaks of jobs, when j moves on to the sinks.
LEMMA EmittingTyped ==
  ASSUME IInv, NEW j \in Job, job[j].pc = "ranked",
         job' = [job EXCEPT ![j].pc = "emitting"]
  PROVE  /\ job' \in [Job -> RunningJob \cup {NoInvestigation}]
         /\ \A i \in Job \ {j} : job'[i] = job[i]
         /\ job'[j].pc = "emitting" /\ job'[j].inc = job[j].inc
         /\ job'[j].memory = job[j].memory /\ job'[j].live = job[j].live
         /\ job'[j].gone = job[j].gone /\ job'[j].started = job[j].started
         /\ RunOf(j)' = RunOf(j) /\ ReportOf(j)' = ReportOf(j)
  <1>1. job[j] \in RunningJob
    BY JobTyped DEF IInv
  <1>2. job' \in [Job -> RunningJob \cup {NoInvestigation}]
    BY <1>1 DEF IInv, TypeOK, RunningJob
  <1>3. \A i \in Job \ {j} : job'[i] = job[i]
    BY DEF IInv, TypeOK
  <1>4. /\ job'[j].pc = "emitting" /\ job'[j].inc = job[j].inc
        /\ job'[j].memory = job[j].memory /\ job'[j].live = job[j].live
        /\ job'[j].gone = job[j].gone /\ job'[j].started = job[j].started
    BY <1>1 DEF IInv, TypeOK, RunningJob
  <1>. QED  BY <1>2, <1>3, <1>4 DEF RunOf, ReportOf

\* The save, done or failed, leaves the request's answers as they were.
LEMMA EmittingOK ==
  ASSUME IInv, Grows, NEW j \in Job, job[j].pc = "ranked",
         job' = [job EXCEPT ![j].pc = "emitting"]
  PROVE  JobOK(j)'
  <1>1. RecollectionsOK(j) /\ AnswersOK(j) /\ RankedOK(j)
    BY DEF IInv, JobOK
  <1>2. RecollectionsOK(j)'
    BY <1>1, EmittingTyped, HonestKept DEF RecollectionsOK
  <1>3. AnswersOK(j)' /\ RankedOK(j)'
    BY <1>1, EmittingTyped DEF AnswersOK, RankedOK, Grows
  <1>. QED  BY <1>2, <1>3 DEF JobOK

\* runAndRespond's save, done or failed.
LEMMA JobSaveHolds ==
  ASSUME IInv, NEW j \in Job, Save(j)
  PROVE  IInv'
  <1>. USE DEF history
  <1>1. /\ job[j].pc = "ranked" /\ job' = [job EXCEPT ![j].pc = "emitting"]
        /\ UNCHANGED <<clock, resolver, resolves, runs, submitted, acked>>
    BY DEF Save
  <1>2. /\ RunOf(j) \in Investigation /\ IdOf(RunOf(j)) = job[j].inc.id
        /\ Recorded(RunOf(j), runs, submitted)
    <2>1. job[j].memory # Pending /\ job[j].live # Pending /\ RunOf(j) \in runs
      BY <1>1 DEF IInv, JobOK, RankedOK
    <2>. QED  BY <1>1, <2>1, RunTyped DEF Recorded, Resolved
  <1>3. CASE ~MustFail(RunOf(j), job[j].gone) /\ SaveOk(RunOf(j)) /\ UNCHANGED faults
    <2>1. Grows
      BY <1>1, <1>2, <1>3, SaveOkFiles DEF Grows, IInv
    <2>2. Ring!TypeOK' /\ Db!TypeOK' /\ RingOK' /\ TableOK'
      <3>1. Recorded(RunOf(j), runs', submitted')
        BY <1>1, <1>2
      <3>. QED  BY <1>2, <1>3, <2>1, <3>1, SaveOkHolds DEF IInv
    <2>3. TypeOK'
      BY <1>1, <1>3, <2>1, <2>2, EmittingTyped DEF IInv, TypeOK, Grows
    <2>4. JobOK(j)'
      BY <1>1, <2>1, EmittingOK
    <2>5. (\A i \in Job : JobOK(i)') /\ (\A r \in Resolver : CopyOK(r)')
      BY <1>1, <2>1, <2>4, EmittingTyped, OneJobSteps
    <2>6. RunsOK'
      BY <1>1, <2>1, RunsKept DEF IInv
    <2>. QED  BY <2>2, <2>3, <2>5, <2>6 DEF IInv
  <1>4. CASE SaveFails(RunOf(j), job[j].gone)
    <2>1. /\ backend = "sqlite" /\ UNCHANGED <<backend, entries, byID, next, rows>>
          /\ \/ MustFail(RunOf(j), job[j].gone) /\ UNCHANGED faults
             \/ Fault
      BY <1>4 DEF SaveFails, Db!SaveFails
    <2>2. Grows /\ faults' \in 0..MaxFaults
      BY <1>1, <2>1, FaultsGrow DEF Grows, IInv, TypeOK
    <2>4. RingOK' /\ TableOK' /\ RunsOK'
      BY <1>1, <2>1, <2>2, StoreKept, RunsKept DEF IInv
    <2>5. TypeOK'
      BY <1>1, <2>1, <2>2, EmittingTyped DEF IInv, TypeOK, Ring!TypeOK,
         Db!TypeOK
    <2>6. JobOK(j)'
      BY <1>1, <2>2, EmittingOK
    <2>7. (\A i \in Job : JobOK(i)') /\ (\A r \in Resolver : CopyOK(r)')
      BY <1>1, <2>2, <2>6, EmittingTyped, OneJobSteps
    <2>. QED  BY <2>4, <2>5, <2>7 DEF IInv
  <1>. QED  BY <1>3, <1>4 DEF Save

\* The steps that change nothing of a job but its turn, its client or its end.
LEMMA EmitHolds ==
  ASSUME IInv, NEW j \in Job, Emit(j) \/ Respond(j) \/ Disconnect(j)
  PROVE  IInv'
  <1>. USE DEF store, history
  <1>1. /\ Grows /\ faults' \in 0..MaxFaults
        /\ UNCHANGED <<entries, byID, next, rows, runs, submitted, clock, resolver, resolves>>
    BY FaultsGrow DEF Emit, Respond, Disconnect, Grows, IInv, TypeOK
  <1>2. job[j] \in RunningJob
    BY JobTyped DEF IInv, Emit, Respond, Disconnect
  <1>3. \/ job' = [job EXCEPT ![j].tried = @ + 1] /\ job[j].tried < Len(Sinks)
        \/ job' = [job EXCEPT ![j] = NoInvestigation]
        \/ job' = [job EXCEPT ![j].gone = TRUE]
    BY DEF Emit, Respond, Disconnect
  <1>4. /\ job' \in [Job -> RunningJob \cup {NoInvestigation}]
        /\ \A i \in Job \ {j} : job'[i] = job[i]
    <2>1. Len(Sinks) \in Nat
      BY SinksAssumption
    <2>2. CASE job' = [job EXCEPT ![j].tried = @ + 1] /\ job[j].tried < Len(Sinks)
      BY <1>2, <2>1, <2>2 DEF IInv, TypeOK, RunningJob
    <2>3. CASE job' = [job EXCEPT ![j] = NoInvestigation]
      BY <2>3 DEF IInv, TypeOK
    <2>4. CASE job' = [job EXCEPT ![j].gone = TRUE]
      BY <1>2, <2>4 DEF IInv, TypeOK, RunningJob
    <2>. QED  BY <1>3, <2>2, <2>3, <2>4
  <1>5. TypeOK'
    BY <1>1, <1>4 DEF IInv, TypeOK, Grows, Ring!TypeOK, Db!TypeOK
  <1>6. JobOK(j)'
    <2>1. CASE job'[j] = NoInvestigation
      BY <2>1 DEF JobOK, NoInvestigation
    <2>2. CASE job'[j] # NoInvestigation
      <3>1. /\ job'[j].pc = job[j].pc /\ job'[j].inc = job[j].inc
            /\ job'[j].memory = job[j].memory /\ job'[j].live = job[j].live
            /\ job'[j].started = job[j].started
        BY <1>2, <1>3, <2>2 DEF IInv, TypeOK, RunningJob
      <3>2. RunOf(j)' = RunOf(j) /\ ReportOf(j)' = ReportOf(j) /\ job[j].pc # "idle"
        BY <1>2, <3>1 DEF RunOf, ReportOf, RunningJob
      <3>3. RecollectionsOK(j)'
        BY <1>1, <3>1, <3>2, HonestKept DEF IInv, JobOK, RecollectionsOK
      <3>4. AnswersOK(j)' /\ RankedOK(j)'
        BY <1>1, <3>1, <3>2 DEF IInv, JobOK, AnswersOK, RankedOK, Grows
      <3>. QED  BY <1>1, <3>1, <3>2, <3>3, <3>4 DEF IInv, JobOK, Grows
    <2>. QED  BY <2>1, <2>2
  <1>7. RingOK' /\ TableOK' /\ RunsOK'
    BY <1>1, StoreKept, RunsKept DEF IInv
  <1>8. (\A i \in Job : JobOK(i)') /\ (\A r \in Resolver : CopyOK(r)')
    BY <1>1, <1>4, <1>6, OneJobSteps
  <1>. QED  BY <1>5, <1>7, <1>8 DEF IInv

\* What Get answers is on record, under the id asked for.
LEMMA GetOnRecord ==
  ASSUME IInv, NEW id \in Id, Get(id) # NotFound
  PROVE  /\ Get(id) \in Investigation
         /\ OnRecord(Get(id))
         /\ IdOf(Get(id)) = id
         /\ backend = "sqlite" => rows[id] # NoRow /\ Get(id) = rows[id].data
  <1>1. CASE backend = "ring"
    <2>1. byID[id] # 0 /\ Get(id) = entries[byID[id]]
      BY <1>1 DEF Get, Ring!Get
    <2>2. byID[id] \in 1..Len(entries) /\ entries[byID[id]] \in Investigation
      BY <2>1, RingIsRingP DEF IInv, TypeOK, Ring!TypeOK
    <2>. QED  BY <1>1, <2>1, <2>2 DEF IInv, RingOK
  <1>2. CASE backend # "ring"
    <2>1. rows[id] # NoRow /\ Get(id) = rows[id].data
      BY <1>2 DEF Get, Db!Get
    <2>2. rows[id].data \in Investigation
      BY <2>1, RingIsRingP DEF IInv, TypeOK, Db!TypeOK, Db!Row
    <2>. QED  BY <2>1, <2>2 DEF IInv, TableOK
  <1>. QED  BY <1>1, <1>2

\* On the table, an id that has a row is found.
LEMMA OnFileIsFound ==
  ASSUME TypeOK, backend = "sqlite", NEW id \in Id, rows[id] # NoRow
  PROVE  Get(id) # NotFound
  <1>1. rows[id].data \in Investigation
    BY RingIsRingP DEF TypeOK, Db!TypeOK, Db!Row
  <1>. QED  BY <1>1, NotFoundAssumption DEF Get, Db!Get

\* A resolve's read: the copy is on record, and its note now submitted for it.
LEMMA ResolveGetHolds ==
  ASSUME IInv, NEW r \in Resolver, ResolveGet(r)
  PROVE  IInv'
  <1>. USE DEF store
  <1>1. PICK id \in Id, note \in Note :
           /\ submitted' = submitted \cup {<<id, note>>}
           /\ resolver' = [resolver EXCEPT ![r] =
                              IF Get(id) = NotFound THEN NoResolve
                              ELSE [pc |-> "got", inv |-> Get(id), note |-> note]]
    BY DEF ResolveGet
  <1>2. /\ Grows
        /\ UNCHANGED <<backend, entries, byID, next, rows, clock, job, faults, runs, acked>>
    BY <1>1 DEF ResolveGet, Grows
  <1>3. Get(id) # NotFound =>
           Get(id) \in Investigation /\ OnRecord(Get(id)) /\ IdOf(Get(id)) = id
    BY GetOnRecord
  <1>4. TypeOK'
    <2>1. resolver' \in [Resolver -> [pc : {"got"}, inv : Investigation, note : Note]
                                        \cup {NoResolve}]
      BY <1>1, <1>3 DEF IInv, TypeOK
    <2>2. resolves' \in 0..MaxResolves
      BY BoundsAssumption DEF ResolveGet, IInv, TypeOK
    <2>. QED  BY <1>1, <1>2, <2>1, <2>2 DEF IInv, TypeOK, Ring!TypeOK, Db!TypeOK
  <1>5. RingOK' /\ TableOK' /\ RunsOK'
    BY <1>2, StoreKept, RunsKept DEF IInv
  <1>6. ASSUME NEW i \in Job PROVE JobOK(i)'
    BY <1>2, JobKept DEF IInv
  <1>7. ASSUME NEW q \in Resolver PROVE CopyOK(q)'
    <2>1. CASE q # r
      <3>1. resolver'[q] = resolver[q]
        BY <1>1, <2>1 DEF IInv, TypeOK
      <3>. QED  BY <1>2, <3>1, CopyKept DEF IInv
    <2>2. CASE q = r /\ Get(id) = NotFound
      <3>1. resolver'[q] = NoResolve
        BY <1>1, <2>2 DEF IInv, TypeOK
      <3>. QED  BY <3>1 DEF CopyOK, NoResolve
    <2>3. CASE q = r /\ Get(id) # NotFound
      <3>1. resolver'[q] = [pc |-> "got", inv |-> Get(id), note |-> note]
        BY <1>1, <2>3 DEF IInv, TypeOK
      <3>2. Recorded(resolver'[q].inv, runs', submitted')
        BY <1>2, <1>3, <2>3, <3>1 DEF OnRecord, Recorded, Grows
      <3>3. <<IdOf(resolver'[q].inv), resolver'[q].note>> \in submitted'
        BY <1>1, <1>3, <2>3, <3>1
      <3>. QED  BY <3>2, <3>3 DEF CopyOK, OnRecord
    <2>. QED  BY <2>1, <2>2, <2>3
  <1>. QED  BY <1>4, <1>5, <1>6, <1>7 DEF IInv

\* A resolve's save: the copy's run, with the note submitted for its id.
LEMMA ResolveSaveHolds ==
  ASSUME IInv, NEW r \in Resolver, ResolveSave(r)
  PROVE  IInv'
  <1>. DEFINE inv == [resolver[r].inv EXCEPT !.resolution = resolver[r].note]
  <1>1. /\ resolver[r].pc = "got" /\ resolver' = [resolver EXCEPT ![r] = NoResolve]
        /\ UNCHANGED <<clock, job, resolves, runs, submitted>>
    BY DEF ResolveSave
  <1>2. resolver[r] \in [pc : {"got"}, inv : Investigation, note : Note]
    BY <1>1 DEF IInv, TypeOK, NoResolve
  <1>3. /\ inv \in Investigation /\ IdOf(inv) = IdOf(resolver[r].inv)
        /\ inv.resolution = resolver[r].note
    BY <1>2 DEF Investigation, IdOf
  <1>4. Recorded(inv, runs, submitted)
    <2>1. OnRecord(resolver[r].inv) /\ <<IdOf(resolver[r].inv), resolver[r].note>> \in submitted
      BY <1>1 DEF IInv, CopyOK
    <2>2. [inv EXCEPT !.resolution = Unresolved]
            = [resolver[r].inv EXCEPT !.resolution = Unresolved]
      BY <1>2 DEF Investigation
    <2>. QED  BY <1>3, <2>1, <2>2 DEF OnRecord, Recorded
  <1>. HIDE DEF inv
  <1>5. /\ Grows /\ faults' \in 0..MaxFaults /\ RingOK' /\ TableOK'
        /\ Ring!TypeOK' /\ Db!TypeOK'
    <2>1. CASE SaveOk(inv) /\ UNCHANGED faults
      <3>1. Grows
        BY <1>1, <1>3, <2>1, SaveOkFiles DEF Grows, IInv
      <3>2. Recorded(inv, runs', submitted')
        BY <1>1, <1>4
      <3>3. Ring!TypeOK' /\ Db!TypeOK' /\ RingOK' /\ TableOK'
        BY <1>3, <2>1, <3>1, <3>2, SaveOkHolds DEF IInv
      <3>. QED  BY <2>1, <3>1, <3>3 DEF IInv, TypeOK
    <2>2. CASE SaveFails(inv, FALSE)
      <3>1. /\ UNCHANGED <<backend, entries, byID, next, rows>>
            /\ UNCHANGED faults \/ Fault
        BY <2>2 DEF SaveFails, Db!SaveFails
      <3>2. Grows /\ faults' \in 0..MaxFaults
        BY <1>1, <3>1, FaultsGrow DEF Grows, IInv, TypeOK
      <3>. QED  BY <3>1, <3>2, StoreKept DEF IInv, TypeOK, Ring!TypeOK,
                   Db!TypeOK
    <2>. QED  BY <2>1, <2>2 DEF ResolveSave, inv
  <1>6. TypeOK'
    <2>1. resolver' \in [Resolver -> [pc : {"got"}, inv : Investigation, note : Note]
                                        \cup {NoResolve}]
      BY <1>1 DEF IInv, TypeOK
    <2>. QED  BY <1>1, <1>5, <2>1 DEF IInv, TypeOK, Grows
  <1>7. ASSUME NEW i \in Job PROVE JobOK(i)'
    BY <1>1, <1>5, JobKept DEF IInv
  <1>8. ASSUME NEW q \in Resolver PROVE CopyOK(q)'
    <2>1. CASE q # r
      <3>1. resolver'[q] = resolver[q]
        BY <1>1, <2>1 DEF IInv, TypeOK
      <3>. QED  BY <1>5, <3>1, CopyKept DEF IInv
    <2>2. CASE q = r
      <3>1. resolver'[q] = NoResolve
        BY <1>1, <2>2 DEF IInv, TypeOK
      <3>. QED  BY <3>1 DEF CopyOK, NoResolve
    <2>. QED  BY <2>1, <2>2
  <1>9. RunsOK'
    BY <1>1, <1>5, RunsKept DEF IInv
  <1>. QED  BY <1>5, <1>6, <1>7, <1>8, <1>9 DEF IInv

\* A restart empties the ring and ends all requests; the rest is as it was.
LEMMA CrashHolds ==
  ASSUME IInv, Crash
  PROVE  IInv'
  <1>1. /\ Grows /\ faults' \in 0..MaxFaults
        /\ UNCHANGED <<backend, rows, clock, resolves, runs, submitted>>
        /\ job' = [j \in Job |-> NoInvestigation]
        /\ resolver' = [r \in Resolver |-> NoResolve]
        /\ entries' = <<>> /\ byID' = [id \in Id |-> 0] /\ next' = 0
    BY FaultsGrow DEF Crash, Grows, IInv, Ring!Restart
  <1>2. Ring!TypeOK'
    BY <1>1, StoreAssumption DEF Ring!TypeOK, Ring!Cap, Ring!DefaultCapacity
  <1>3. TypeOK'
    BY <1>1, <1>2 DEF IInv, TypeOK, Db!TypeOK
  <1>4. RingOK'
    BY <1>1 DEF RingOK
  <1>5. TableOK'
    BY <1>1 DEF IInv, TableOK, OnFile, OnRecord
  <1>6. (\A j \in Job : JobOK(j)') /\ (\A r \in Resolver : CopyOK(r)')
    BY <1>1 DEF JobOK, CopyOK, NoInvestigation, NoResolve
  <1>7. RunsOK'
    BY <1>1, RunsKept DEF IInv
  <1>. QED  BY <1>3, <1>4, <1>5, <1>6, <1>7 DEF IInv

\* And nothing happens when nothing does.
LEMMA StutterHolds ==
  ASSUME IInv, UNCHANGED vars
  PROVE  IInv'
  <1>1. /\ Grows
        /\ UNCHANGED <<backend, entries, byID, next, rows, clock, job, resolver,
                       resolves, faults, runs, submitted>>
    BY DEF vars, store, history, Grows
  <1>2. TypeOK'
    BY <1>1 DEF IInv, TypeOK, Ring!TypeOK, Db!TypeOK
  <1>3. RingOK' /\ TableOK' /\ RunsOK'
    BY <1>1, StoreKept, RunsKept DEF IInv
  <1>4. (\A j \in Job : JobOK(j)') /\ (\A r \in Resolver : CopyOK(r)')
    BY <1>1, JobKept, CopyKept DEF IInv
  <1>. QED  BY <1>2, <1>3, <1>4 DEF IInv

-----------------------------------------------------------------------------
(* The memory investigator. *)

\* A Go slice holds finitely many names.
LEMMA NamesFinite ==
  ASSUME NEW S, NEW s \in Seq(S)
  PROVE  IsFiniteSet(Names(s))
  <1>. DEFINE g == [k \in 1..Len(s) |-> s[k]]
  <1>1. IsFiniteSet(1..Len(s))
    BY FS_Interval
  <1>2. g \in [1..Len(s) -> Names(s)] /\ \A x \in Names(s) : \E k \in 1..Len(s) : g[k] = x
    BY DEF Names
  <1>3. g \in Surjection(1..Len(s), Names(s))
    BY <1>2 DEF Surjection
  <1>. HIDE DEF g
  <1>. QED  BY <1>1, <1>3, FS_Surjection

\* Scores are proper fractions, so that they can be compared: no scope set is
\* infinite, and the denominator is never 0.
LEMMA ScopeSetFinite ==
  ASSUME NEW inc \in Incident
  PROVE  IsFiniteSet(ScopeSet(inc.scope))
  <1>1. ASSUME NEW f \in ScopeField PROVE IsFiniteSet({f} \X Names(inc.scope[f]))
    <2>1. IsFiniteSet(Names(inc.scope[f]))
      BY ScopeAssumption, NamesFinite
    <2>. QED  BY <2>1, FS_Singleton, FS_Product
  <1>. DEFINE Field(f) == {f} \X Names(inc.scope[f])
  <1>2. ScopeSet(inc.scope)
          = ((Field("services") \cup Field("namespaces")) \cup Field("clusters"))
              \cup Field("repos")
    BY DEF ScopeSet, ScopeField
  <1>3. /\ IsFiniteSet(Field("services")) /\ IsFiniteSet(Field("namespaces"))
        /\ IsFiniteSet(Field("clusters")) /\ IsFiniteSet(Field("repos"))
    BY <1>1 DEF ScopeField
  <1>. HIDE DEF Field
  <1>4. \A A, B : IsFiniteSet(A) /\ IsFiniteSet(B) => IsFiniteSet(A \cup B)
    BY FS_Union
  <1>. QED  BY <1>2, <1>3, <1>4

\* One name for the counts of the jaccard.
Inter(p, c) == Cardinality(ScopeSet(p.scope) \cap ScopeSet(c.scope))
Uni(p, c) == Cardinality(ScopeSet(p.scope) \cup ScopeSet(c.scope))
Sim(p, c) == SimilarityScore(p, c)

\* The counts are naturals, as the scopes are finite.
LEMMA CountsTyped ==
  ASSUME NEW p \in Incident, NEW c \in Incident
  PROVE  /\ Inter(p, c) \in Nat /\ Uni(p, c) \in Nat /\ Inter(p, c) <= Uni(p, c)
         /\ Inter(p, c) # 0 => ScopeSet(p.scope) \cap ScopeSet(c.scope) # {}
  <1>. DEFINE P == ScopeSet(p.scope)  C == ScopeSet(c.scope)
  <1>1. IsFiniteSet(P) /\ IsFiniteSet(C)
    BY ScopeSetFinite
  <1>. HIDE DEF P, C
  <1>2. IsFiniteSet(P \cup C)
    BY <1>1, FS_Union
  <1>3. IsFiniteSet(P \cap C) /\ Cardinality(P \cap C) <= Cardinality(P \cup C)
    BY <1>2, FS_Subset
  <1>4. Cardinality(P \cap C) \in Nat /\ Cardinality(P \cup C) \in Nat
    BY <1>2, <1>3, FS_CardinalityType
  <1>5. Cardinality(P \cap C) # 0 => P \cap C # {}
    BY FS_EmptySet
  <1>. QED  BY <1>3, <1>4, <1>5 DEF Inter, Uni, P, C

\* So a score is a fraction whose denominator is not 0.
LEMMA SimTyped ==
  ASSUME NEW p \in Incident, NEW c \in Incident
  PROVE  /\ SimilarityScore(p, c) \in [num : Nat, den : Nat \ {0}]
         /\ SimilarityScore(p, c) =
              LET signal == IF SameSignal(p, c) THEN 3 ELSE 0
              IN  IF Uni(p, c) = 0 THEN [num |-> signal, den |-> 10]
                  ELSE [num |-> 7 * Inter(p, c) + signal * Uni(p, c),
                        den |-> 10 * Uni(p, c)]
  <1>1. Inter(p, c) \in Nat /\ Uni(p, c) \in Nat
    BY CountsTyped
  <1>2. SimilarityScore(p, c) =
              LET signal == IF SameSignal(p, c) THEN 3 ELSE 0
              IN  IF Uni(p, c) = 0 THEN [num |-> signal, den |-> 10]
                  ELSE [num |-> 7 * Inter(p, c) + signal * Uni(p, c),
                        den |-> 10 * Uni(p, c)]
    BY DEF SimilarityScore, Inter, Uni
  <1>. QED  BY <1>1, <1>2

\* A hit shares the alert or part of the scope.
LEMMA HitMeans ==
  ASSUME NEW p \in Incident, NEW c \in Incident
  PROVE  ~LessScore(SimilarityScore(p, c), MinScore)
           <=> \/ SameSignal(p, c)
               \/ Uni(p, c) > 0 /\ 7 * Inter(p, c) >= 3 * Uni(p, c)
  <1>1. Inter(p, c) \in Nat /\ Uni(p, c) \in Nat /\ Inter(p, c) <= Uni(p, c)
    BY CountsTyped
  <1>2. CASE Uni(p, c) = 0
    BY <1>1, <1>2, SimTyped DEF LessScore, MinScore
  <1>3. CASE Uni(p, c) # 0 /\ SameSignal(p, c)
    BY <1>1, <1>3, SimTyped DEF LessScore, MinScore
  <1>4. CASE Uni(p, c) # 0 /\ ~SameSignal(p, c)
    BY <1>1, <1>4, SimTyped DEF LessScore, MinScore
  <1>. QED  BY <1>2, <1>3, <1>4

\* Scaling by a natural keeps an order, and by a positive one reflects it.
LEMMA Scaled ==
  \A x, y, d \in Nat : x >= y => x * d >= y * d
  <1>. SUFFICES ASSUME NEW x \in Nat, NEW y \in Nat, NEW d \in Nat, x >= y
                PROVE  x * d >= y * d
    OBVIOUS
  <1>1. PICK z \in Nat : x = y + z
    <2>1. x - y \in Nat /\ x = y + (x - y)
      OBVIOUS
    <2>. QED  BY <2>1
  <1>2. x * d = y * d + z * d
    BY <1>1
  <1>3. z * d \in Nat /\ y * d \in Nat
    BY <1>1
  <1>. QED  BY <1>2, <1>3

\* And back.
LEMMA Unscaled ==
  \A x, y \in Nat : \A d \in Nat \ {0} : x * d >= y * d => x >= y
  <1>. SUFFICES ASSUME NEW x \in Nat, NEW y \in Nat, NEW d \in Nat \ {0}, x < y
                PROVE  x * d < y * d
    OBVIOUS
  <1>1. x + 1 \in Nat /\ y >= x + 1 /\ (x + 1) * d = x * d + d
    OBVIOUS
  <1>2. y * d >= (x + 1) * d
    BY <1>1, Scaled
  <1>3. y * d \in Nat /\ x * d \in Nat
    OBVIOUS
  <1>. QED  BY <1>1, <1>2, <1>3

\* Comparing fractions by cross products is a strict weak order.
Fraction == [num : Nat, den : Nat \ {0}]

\* Less is never both ways, and what is between two scores is more than one
\* of them or less than the other: a strict weak order.
LEMMA LessScoreIsWeak ==
  /\ \A a, b \in Fraction : LessScore(a, b) => ~LessScore(b, a)
  /\ \A a, b, c \in Fraction : LessScore(a, c) => LessScore(a, b) \/ LessScore(b, c)
  <1>1. \A a, b \in Fraction : a.num * b.den \in Nat /\ b.num * a.den \in Nat
    BY DEF Fraction
  <1>2. ASSUME NEW a \in Fraction, NEW b \in Fraction, NEW c \in Fraction,
               ~LessScore(a, b), ~LessScore(b, c)
        PROVE  ~LessScore(a, c)
    <2>. DEFINE an == a.num  bn == b.num  cn == c.num
                ad == a.den  bd == b.den  cd == c.den
    <2>1. /\ an \in Nat /\ bn \in Nat /\ cn \in Nat
          /\ ad \in Nat \ {0} /\ bd \in Nat \ {0} /\ cd \in Nat \ {0}
      BY DEF Fraction
    <2>2. an * bd >= bn * ad /\ bn * cd >= cn * bd
      BY <1>1, <1>2, <2>1 DEF LessScore
    <2>. HIDE DEF an, bn, cn, ad, bd, cd
    <2>3. (an * bd) * cd >= (bn * ad) * cd
      BY <2>1, <2>2, Scaled
    <2>4. (bn * cd) * ad >= (cn * bd) * ad
      BY <2>1, <2>2, Scaled
    <2>5. /\ (an * bd) * cd = (an * cd) * bd
          /\ (bn * ad) * cd = (bn * cd) * ad
          /\ (cn * bd) * ad = (cn * ad) * bd
      BY <2>1
    <2>6. (an * cd) * bd >= (cn * ad) * bd
      <3>1. (an * cd) * bd \in Nat /\ (cn * ad) * bd \in Nat /\ (bn * cd) * ad \in Nat
        BY <2>1
      <3>. QED  BY <2>3, <2>4, <2>5, <3>1
    <2>7. an * cd >= cn * ad
      <3>1. an * cd \in Nat /\ cn * ad \in Nat
        BY <2>1
      <3>. DEFINE x == an * cd y == cn * ad
      <3>. HIDE DEF x, y
      <3>2. x \in Nat /\ y \in Nat /\ x * bd >= y * bd
        BY <3>1, <2>6 DEF x, y
      <3>3. x >= y
        BY <3>2, <2>1, Unscaled
      <3>. QED  BY <3>3 DEF x, y
    <2>. QED  BY <1>1, <2>7, <2>1 DEF LessScore, an, cn, ad, cd
  <1>. QED  BY <1>1, <1>2 DEF LessScore

HitsIn(listing, inc) == {k \in DOMAIN listing : IsHit(listing[k], inc)}

\* The pairs of past investigations of which the first is more like inc.
Liker(inc) ==
    {p \in Investigation \X Investigation :
        LessScore(SimilarityScore(p[2].incident, inc), SimilarityScore(p[1].incident, inc))}

\* So the comparison Investigate sorts by is one sort.SliceStable allows.
LEMMA LikerIsWeak ==
  ASSUME NEW inc \in Incident
  PROVE  StrictWeakOrder(Liker(inc), Investigation)
  <1>1. \A p \in Investigation : SimilarityScore(p.incident, inc) \in Fraction
    BY SimTyped DEF Investigation, Fraction
  <1>2. \A p, q \in Investigation :
           <<p, q>> \in Liker(inc) <=> LessScore(SimilarityScore(q.incident, inc),
                                                  SimilarityScore(p.incident, inc))
    BY DEF Liker
  <1>. QED  BY <1>1, <1>2, LessScoreIsWeak DEF StrictWeakOrder

\* Investigate returns the best of the hits, in order, at most TopK of them.
LEMMA InvestigateRanks ==
  ASSUME NEW listing \in Seq(Investigation), NEW inc \in Incident
  PROVE  /\ Cardinality(HitsIn(listing, inc)) \in Nat
         /\ \E place :
              /\ Enumerates(place, HitsIn(listing, inc), Pairs(listing, Liker(inc)))
              /\ Investigate(listing, inc)
                   = [m \in 1..(IF TopK < Cardinality(HitsIn(listing, inc)) THEN TopK
                                ELSE Cardinality(HitsIn(listing, inc))) |->
                        Recalled(listing[place[m]], inc)]
  <1>. DEFINE hits == HitsIn(listing, inc)
              n == Cardinality(hits)
              h == Picked(listing, hits, {})
              sorted == Picked(h, DOMAIN h, Pairs(h, Liker(inc)))
  <1>1. hits \in SUBSET DOMAIN listing /\ hits \in SUBSET Nat /\ IsFiniteSet(hits) /\ n \in Nat
    <2>1. hits \in SUBSET (1..Len(listing)) /\ IsFiniteSet(1..Len(listing))
      BY FS_Interval DEF HitsIn
    <2>. QED  BY <2>1, FS_Subset, FS_CardinalityType
  <1>. HIDE DEF hits
  <1>2. h \in Seq(Investigation)
    <2>1. \A p \in hits : listing[p] \in Investigation
      BY <1>1
    <2>. QED  BY <1>1, <2>1, NoOrderIsStrictWeak, PickedShowsAll
  <1>. HIDE DEF h
  <1>3. PICK place : Enumerates(place, hits, Pairs(listing, Liker(inc)))
                       /\ sorted = Along(listing, place, hits)
    BY <1>1, LikerIsWeak, FilteredThenSorted DEF h
  <1>4. Investigate(listing, inc)
          = [k \in DOMAIN Truncate(sorted, TopK) |-> Recalled(Truncate(sorted, TopK)[k], inc)]
    <2>1. Selected(listing, LAMBDA p : IsHit(p, inc)) = h
      BY DEF Selected, h, hits, HitsIn
    <2>2. Pairs(h, Liker(inc))
            = {p \in (DOMAIN h) \X (DOMAIN h) :
                 LessScore(SimilarityScore(h[p[2]].incident, inc),
                           SimilarityScore(h[p[1]].incident, inc))}
      BY <1>2 DEF Pairs, Liker
    <2>. QED  BY <2>1, <2>2 DEF Investigate, SliceStable
  <1>5. /\ sorted \in Seq(Investigation) /\ Len(sorted) = n
        /\ \A k \in 1..n : sorted[k] = listing[place[k]]
    <2>1. \A k \in 1..n : place[k] \in hits
      BY <1>3 DEF Enumerates
    <2>2. \A k \in 1..n : listing[place[k]] \in Investigation
      BY <1>1, <2>1
    <2>3. sorted = [k \in 1..n |-> listing[place[k]]]
      BY <1>3 DEF Along
    <2>. HIDE DEF sorted, n
    <2>4. sorted \in [1..n -> Investigation]
      BY <2>2, <2>3
    <2>. QED  BY <1>1, <2>3, <2>4
  <1>6. /\ Truncate(sorted, TopK) \in Seq(Investigation)
        /\ Len(Truncate(sorted, TopK)) = IF TopK < n THEN TopK ELSE n
        /\ \A k \in 1..(IF TopK < n THEN TopK ELSE n) :
              Truncate(sorted, TopK)[k] = listing[place[k]]
    <2>1. sorted \in Seq(Investigation) /\ TopK \in Nat /\ Len(sorted) = n
      BY <1>5, TopKAssumption
    <2>. HIDE DEF sorted
    <2>2. LET m == IF TopK < Len(sorted) THEN TopK ELSE Len(sorted)
          IN  /\ Truncate(sorted, TopK) \in Seq(Investigation)
              /\ Len(Truncate(sorted, TopK)) = m
              /\ \A k \in 1..m : Truncate(sorted, TopK)[k] = sorted[k]
      BY <2>1, TruncateIsPrefix
    <2>. QED  BY <1>1, <1>5, <2>1, <2>2, TopKAssumption
  <1>7. DOMAIN Truncate(sorted, TopK) = 1..(IF TopK < n THEN TopK ELSE n)
    BY <1>6
  <1>8. Investigate(listing, inc)
          = [m \in 1..(IF TopK < n THEN TopK ELSE n) |-> Recalled(listing[place[m]], inc)]
    BY <1>4, <1>6, <1>7
  <1>. QED  BY <1>1, <1>3, <1>8 DEF hits

\* So every recollection is one of a hit, and all hits are recalled if they
\* are no more than TopK.
LEMMA InvestigateRecalls ==
  ASSUME NEW listing \in Seq(Investigation), NEW inc \in Incident
  PROVE  /\ \A e \in Names(Investigate(listing, inc)) :
               \E k \in DOMAIN listing :
                  IsHit(listing[k], inc) /\ e = Recalled(listing[k], inc)
         /\ Cardinality(HitsIn(listing, inc)) <= TopK =>
               \A k \in DOMAIN listing : IsHit(listing[k], inc) =>
                  Recalled(listing[k], inc) \in Names(Investigate(listing, inc))
  <1>. DEFINE hits == HitsIn(listing, inc)
              n == Cardinality(hits)
              m == IF TopK < n THEN TopK ELSE n
  <1>1. PICK place :
              /\ Enumerates(place, hits, Pairs(listing, Liker(inc)))
              /\ Investigate(listing, inc) = [k \in 1..m |-> Recalled(listing[place[k]], inc)]
    BY InvestigateRanks
  <1>2. n \in Nat /\ m \in Nat /\ m <= n /\ (n <= TopK => m = n)
    BY InvestigateRanks, TopKAssumption
  <1>3. /\ \A k \in 1..n : place[k] \in DOMAIN listing /\ IsHit(listing[place[k]], inc)
        /\ \A p \in hits : \E k \in 1..n : place[k] = p
    BY <1>1 DEF Enumerates, HitsIn
  <1>4. ASSUME NEW e \in Names(Investigate(listing, inc))
        PROVE  \E k \in DOMAIN listing : IsHit(listing[k], inc) /\ e = Recalled(listing[k], inc)
    <2>1. PICK k \in 1..m : e = Recalled(listing[place[k]], inc)
      BY <1>1, <1>4 DEF Names
    <2>. QED  BY <1>2, <1>3, <2>1
  <1>5. ASSUME n <= TopK, NEW k \in DOMAIN listing, IsHit(listing[k], inc)
        PROVE  Recalled(listing[k], inc) \in Names(Investigate(listing, inc))
    <2>1. PICK q \in 1..m : place[q] = k
      BY <1>2, <1>3, <1>5 DEF HitsIn
    <2>. QED  BY <1>1, <2>1 DEF Names
  <1>. QED  BY <1>4, <1>5

-----------------------------------------------------------------------------
(* What List returns. *)

\* The standard modules' operators mean the same to the stores' modules.
LEMMA SameCardinality ==
  /\ \A S : Ring!Cardinality(S) = Cardinality(S)
  /\ \A S : Db!Cardinality(S) = Cardinality(S)
  BY DEF Ring!Cardinality, Db!Cardinality, Cardinality, Ring!IsFiniteSet,
     Db!IsFiniteSet, IsFiniteSet

\* The ring's List: the slots, rearranged and perhaps cut short.
LEMMA RingListed ==
  ASSUME Ring!TypeOK, NEW limit \in Nat
  PROVE  /\ Ring!List(limit) \in Seq(Investigation)
         /\ \A k \in DOMAIN Ring!List(limit) :
               \E p \in 1..Len(entries) : Ring!List(limit)[k] = entries[p]
  <1>. DEFINE newer == {p \in (DOMAIN entries) \X (DOMAIN entries) :
                           entries[p[1]].startedAt > entries[p[2]].startedAt}
              out == Picked(entries, DOMAIN entries, newer)
  <1>1. Ring!List(limit) = IF limit > 0 THEN Truncate(out, limit) ELSE out
    <2>1. Ring!Picked(entries, DOMAIN entries, newer) = out
      BY DEF Ring!Picked, Ring!ComesFirst, Picked, ComesFirst, Ring!Cardinality,
         Cardinality,
         Ring!IsFiniteSet, IsFiniteSet
    <2>2. Ring!List(limit) = IF limit > 0
                             THEN Ring!Truncate(Ring!Picked(entries, DOMAIN entries, newer), limit)
                             ELSE Ring!Picked(entries, DOMAIN entries, newer)
      BY DEF Ring!List, Ring!SliceStable
    <2>. QED  BY <2>1, <2>2 DEF Ring!Truncate, Truncate
  <1>2. entries \in Seq(Investigation)
    BY RingIsRingP DEF Ring!TypeOK
  <1>3. /\ DOMAIN entries = 1..Len(entries) /\ DOMAIN entries \in SUBSET Nat
        /\ IsFiniteSet(DOMAIN entries)
    BY <1>2, FS_Interval
  <1>4. StrictWeakOrder(newer, DOMAIN entries)
    <2>1. \A k \in DOMAIN entries : entries[k].startedAt \in Nat
      <3>1. \A inv \in Investigation : inv.startedAt \in Nat
        BY TimeAssumption DEF Investigation
      <3>2. \A k \in DOMAIN entries : entries[k] \in Investigation
        BY <1>2
      <3>. QED  BY <3>1, <3>2
    <2>. QED  BY <2>1 DEF StrictWeakOrder
  <1>. HIDE DEF newer
  <1>5. /\ out \in Seq(Investigation)
        /\ \A k \in DOMAIN out : \E p \in DOMAIN entries : out[k] = entries[p]
    <2>1. \A p \in DOMAIN entries : entries[p] \in Investigation
      BY <1>2
    <2>2. DOMAIN out = 1..Cardinality(DOMAIN entries)
      BY <1>3, <1>4, PickedShowsAll
    <2>4. \A k \in 1..Cardinality(DOMAIN entries) : \E p \in DOMAIN entries : out[k] = entries[p]
      <3>. DEFINE D == DOMAIN entries
      <3>1. D \in SUBSET Nat /\ IsFiniteSet(D) /\ StrictWeakOrder(newer, D)
        BY <1>3, <1>4
      <3>. HIDE DEF D
      <3>2. \A k \in 1..Cardinality(D) : \E p \in D : Picked(entries, D, newer)[k] = entries[p]
        BY <3>1, PickedShowsAll
      <3>. QED  BY <3>2 DEF D
    <2>3. \A S : (\A p \in DOMAIN entries : entries[p] \in S) => out \in Seq(S)
      BY <1>3, <1>4, PickedShowsAll
    <2>. QED  BY <2>1, <2>2, <2>3, <2>4
  <1>. HIDE DEF out
  <1>6. CASE limit > 0
    <2>1. LET m == IF limit < Len(out) THEN limit ELSE Len(out)
          IN  /\ Truncate(out, limit) \in Seq(Investigation)
              /\ Len(Truncate(out, limit)) = m
              /\ \A k \in 1..m : Truncate(out, limit)[k] = out[k]
      BY <1>5, TruncateIsPrefix
    <2>. QED  BY <1>1, <1>3, <1>5, <1>6, <2>1
  <1>7. CASE ~(limit > 0)
    BY <1>1, <1>3, <1>5, <1>7
  <1>. QED  BY <1>6, <1>7

\* The table's List: rows, each once, and all of them within the limit.
LEMMA TableListed ==
  ASSUME Db!TypeOK, TableOK, NEW limit \in Nat, NEW listing \in Db!List(limit)
  PROVE  /\ Cardinality(OnFile) \in Nat
         /\ listing \in Seq(Investigation)
         /\ Len(listing) <= Cardinality(OnFile)
         /\ \A k \in DOMAIN listing : \E id \in OnFile : listing[k] = rows[id].data
         /\ (limit = 0 \/ Cardinality(OnFile) <= limit) =>
               \A id \in OnFile : \E k \in DOMAIN listing : listing[k] = rows[id].data
  <1>. DEFINE n == Cardinality(OnFile)
              shown == IF limit > 0 /\ limit < n THEN limit ELSE n
  <1>1. n \in Nat
    BY FS_CardinalityType DEF TableOK
  <1>2. PICK o \in [1..n -> OnFile] :
           /\ \A j, k \in 1..n : j < k => o[j] # o[k]
           /\ listing = [k \in 1..shown |-> rows[o[k]].data]
    <2>1. Db!Cardinality({id \in Id : rows[id] # NoRow}) = n
      BY SameCardinality DEF OnFile
    <2>2. PICK o \in [1..n -> {id \in Id : rows[id] # NoRow}] :
             /\ \A j, k \in 1..n :
                   j < k => o[j] # o[k] /\ rows[o[j]].started_at >= rows[o[k]].started_at
             /\ listing = [k \in 1..shown |-> rows[o[k]].data]
      <3>. HIDE DEF n
      <3>. QED  BY <2>1 DEF Db!List
    <2>3. o \in [1..n -> OnFile]
      BY <2>2 DEF OnFile
    <2>. QED  BY <2>2, <2>3
  <1>3. \A id \in OnFile : rows[id].data \in Investigation
    BY RingIsRingP DEF Db!TypeOK, Db!Row, OnFile
  <1>4. \A id \in OnFile : \E k \in 1..n : o[k] = id
    <2>1. IsFiniteSet(OnFile) /\ IsFiniteSet(1..n) /\ Cardinality(1..n) = n
      BY <1>1, FS_Interval DEF TableOK
    <2>2. o \in Injection(1..n, OnFile)
      BY <1>1, <1>2 DEF Injection, IsInjective
    <2>3. o \in Surjection(1..n, OnFile)
      BY <2>1, <2>2, FS_Injection
    <2>. QED  BY <2>3 DEF Surjection
  <1>. HIDE DEF n
  <1>5. shown \in Nat /\ shown <= n /\ (limit = 0 \/ n <= limit => shown = n)
    BY <1>1
  <1>6. \A k \in 1..shown : o[k] \in OnFile
    BY <1>1, <1>2, <1>5
  <1>7. listing \in Seq(Investigation) /\ Len(listing) = shown
    <2>1. listing \in [1..shown -> Investigation]
      BY <1>2, <1>3, <1>6
    <2>. QED  BY <1>5, <2>1
  <1>8. \A k \in DOMAIN listing : \E id \in OnFile : listing[k] = rows[id].data
    BY <1>2, <1>6
  <1>9. ASSUME limit = 0 \/ n <= limit, NEW id \in OnFile
        PROVE  \E k \in DOMAIN listing : listing[k] = rows[id].data
    <2>1. PICK k \in 1..n : o[k] = id
      BY <1>4
    <2>. QED  BY <1>2, <1>5, <1>9, <2>1
  <1>. QED  BY <1>1, <1>5, <1>7, <1>8, <1>9 DEF n

\* Every investigation listed is on record, and on the table on file.
LEMMA ListedOnRecord ==
  ASSUME IInv, NEW limit \in Nat, NEW listing \in Lists(limit)
  PROVE  /\ listing \in Seq(Investigation)
         /\ \A k \in DOMAIN listing :
              /\ listing[k] \in Investigation
              /\ OnRecord(listing[k])
              /\ backend = "sqlite" => rows[IdOf(listing[k])] # NoRow
  <1>1. CASE backend = "ring"
    <2>1. listing = Ring!List(limit)
      BY <1>1 DEF Lists
    <2>2. /\ listing \in Seq(Investigation)
          /\ \A k \in DOMAIN listing : \E p \in 1..Len(entries) : listing[k] = entries[p]
      BY <2>1, RingListed DEF IInv, TypeOK
    <2>. QED  BY <1>1, <2>2 DEF IInv, RingOK
  <1>2. CASE backend # "ring"
    <2>1. listing \in Db!List(limit)
      BY <1>2 DEF Lists
    <2>2. /\ listing \in Seq(Investigation)
          /\ \A k \in DOMAIN listing : \E id \in OnFile : listing[k] = rows[id].data
      BY <2>1, TableListed DEF IInv, TypeOK
    <2>. QED  BY <2>2 DEF IInv, TableOK, OnFile
  <1>. QED  BY <1>1, <1>2

\* So what the memory investigator answers is honest.
LEMMA RecollectionsHonest ==
  ASSUME IInv, NEW inc \in Incident, NEW listing \in Lists(LookbackLimit),
         NEW e \in Recollections(Investigate(listing, inc))
  PROVE  e \in Recollection /\ Honest(e, inc)
  <1>1. PICK r \in Names(Investigate(listing, inc)) : e = [past |-> r.past, fix |-> r.fix]
    BY DEF Recollections
  <1>2. /\ listing \in Seq(Investigation)
        /\ \A k \in DOMAIN listing :
              /\ listing[k] \in Investigation
              /\ OnRecord(listing[k])
              /\ backend = "sqlite" => rows[IdOf(listing[k])] # NoRow
    BY ListedOnRecord, LookbackAssumption
  <1>3. PICK k \in DOMAIN listing : IsHit(listing[k], inc) /\ r = Recalled(listing[k], inc)
    BY <1>1, <1>2, InvestigateRecalls
  <1>. DEFINE hit == listing[k]
  <1>4. /\ hit \in Investigation /\ OnRecord(hit)
        /\ backend = "sqlite" => rows[IdOf(hit)] # NoRow
    BY <1>2
  <1>5. IsHit(hit, inc) /\ e = [past |-> IdOf(hit), fix |-> hit.resolution]
    BY <1>1, <1>3 DEF Recalled
  <1>. HIDE DEF hit
  <1>6. e \in Recollection
    BY <1>4, <1>5, IdOfInvestigation DEF Recollection, Investigation
  <1>7. /\ IdOf(hit) # inc.id
        /\ \/ hit.incident.summary = inc.summary
           \/ ScopeSet(hit.incident.scope) \cap ScopeSet(inc.scope) # {}
    <2>1. hit.incident \in Incident
      BY <1>4 DEF Investigation
    <2>2. ~LessScore(SimilarityScore(hit.incident, inc), MinScore)
      BY <1>5 DEF IsHit
    <2>3. \/ SameSignal(hit.incident, inc)
          \/ Uni(hit.incident, inc) > 0 /\ 7 * Inter(hit.incident, inc) >= 3 * Uni(hit.incident, inc)
      BY <2>1, <2>2, HitMeans
    <2>4. /\ Inter(hit.incident, inc) \in Nat /\ Uni(hit.incident, inc) \in Nat
          /\ Inter(hit.incident, inc) # 0 =>
                ScopeSet(hit.incident.scope) \cap ScopeSet(inc.scope) # {}
      BY <2>1, CountsTyped
    <2>. QED  BY <1>5, <2>3, <2>4 DEF IsHit, SameSignal
  <1>8. PICK p \in runs : IdOf(p) = IdOf(hit) /\ p.incident = hit.incident
    <2>1. [hit EXCEPT !.resolution = Unresolved].incident = hit.incident
      BY <1>4 DEF Investigation
    <2>. QED  BY <1>4, <2>1 DEF OnRecord, Recorded, IdOf
  <1>9. e.fix # Unresolved => <<e.past, e.fix>> \in submitted
    BY <1>4, <1>5 DEF OnRecord, Recorded, Resolved
  <1>. QED  BY <1>4, <1>5, <1>6, <1>7, <1>8, <1>9 DEF Honest

\* The memory investigator's answer: honest, or empty if List failed.
LEMMA AnswerMemoryHolds ==
  ASSUME IInv, NEW j \in Job, AnswerMemory(j)
  PROVE  IInv'
  <1>. USE DEF store, history
  <1>1. job[j] \in RunningJob /\ job[j].pc = "investigating"
    BY JobTyped DEF AnswerMemory, IInv
  <1>. DEFINE Answers(memory) ==
                /\ job' = [job EXCEPT ![j].memory = memory]
                /\ \A e \in memory : e \in Recollection /\ Honest(e, job[j].inc)
  <1>2. PICK memory : Answers(memory)
    <2>1. CASE \E listing \in Lists(LookbackLimit) :
                  job' = [job EXCEPT ![j].memory =
                             Recollections(Investigate(listing, job[j].inc))]
      <3>1. job[j].inc \in Incident
        BY <1>1 DEF RunningJob
      <3>2. PICK listing \in Lists(LookbackLimit) :
               job' = [job EXCEPT ![j].memory =
                          Recollections(Investigate(listing, job[j].inc))]
        BY <2>1
      <3>3. Answers(Recollections(Investigate(listing, job[j].inc)))
        BY <3>1, <3>2, RecollectionsHonest
      <3>. HIDE DEF Answers
      <3>. QED  BY <3>3
    <2>2. CASE job' = [job EXCEPT ![j].memory = {}]
      <3>1. Answers({})
        BY <2>2
      <3>. HIDE DEF Answers
      <3>. QED  BY <3>1
    <2>. QED  BY <2>1, <2>2 DEF AnswerMemory
  <1>3. /\ Grows /\ faults' \in 0..MaxFaults
        /\ UNCHANGED <<entries, byID, next, rows, runs, submitted, clock, resolver, resolves>>
    BY FaultsGrow DEF AnswerMemory, Grows, IInv, TypeOK
  <1>4. TypeOK'
    <2>1. memory \in Report
      <3>1. memory \in SUBSET Recollection
        BY <1>2
      <3>2. PICK all : all \in LiveAnswers
        BY ReportAssumption
      <3>3. memory \cup {} \in Report
        BY <3>1, <3>2, ReportAssumption
      <3>. QED  BY <3>3
    <2>2. job' \in [Job -> RunningJob \cup {NoInvestigation}]
      BY <1>1, <1>2, <2>1 DEF IInv, TypeOK, RunningJob
    <2>. QED
      BY <1>3, <2>2 DEF IInv, TypeOK, Grows, Ring!TypeOK, Db!TypeOK
  <1>5. \A i \in Job \ {j} : job'[i] = job[i]
    BY <1>2 DEF IInv, TypeOK
  <1>6. JobOK(j)'
    <2>1. /\ job'[j].pc = "investigating" /\ job'[j].inc = job[j].inc
          /\ job'[j].memory = memory /\ job'[j].live = job[j].live
          /\ job'[j].gone = job[j].gone
      BY <1>1, <1>2 DEF IInv, TypeOK, RunningJob
    <2>2. RecollectionsOK(j)'
      BY <1>2, <1>3, <2>1, HonestKept DEF RecollectionsOK
    <2>3. AnswersOK(j)' /\ RankedOK(j)'
      BY <1>1, <2>1 DEF IInv, JobOK, AnswersOK, RankedOK
    <2>. QED  BY <1>1, <1>3, <2>1, <2>2, <2>3 DEF IInv, JobOK, Grows
  <1>7. RingOK' /\ TableOK' /\ RunsOK'
    BY <1>3, StoreKept, RunsKept DEF IInv
  <1>8. (\A i \in Job : JobOK(i)') /\ (\A r \in Resolver : CopyOK(r)')
    BY <1>3, <1>5, <1>6, OneJobSteps
  <1>. QED  BY <1>4, <1>7, <1>8 DEF IInv

-----------------------------------------------------------------------------
(* The theorems. *)

\* IInv is inductive.
LEMMA StepHolds == IInv /\ [Next]_vars => IInv'
  <1>. SUFFICES ASSUME IInv, [Next]_vars PROVE IInv'
    OBVIOUS
  <1>1. ASSUME NEW j \in Job, JobStep(j) PROVE IInv'
    BY <1>1, ReceiveHolds, AnswerMemoryHolds, AnswerLiveHolds, RankHolds,
       JobSaveHolds,
       EmitHolds DEF JobStep
  <1>2. ASSUME NEW r \in Resolver, ResolveGet(r) \/ ResolveSave(r) PROVE IInv'
    BY <1>2, ResolveGetHolds, ResolveSaveHolds
  <1>3. CASE Crash
    BY <1>3, CrashHolds
  <1>4. CASE UNCHANGED vars
    BY <1>4, StutterHolds
  <1>. QED  BY <1>1, <1>2, <1>3, <1>4 DEF Next

\* So the invariant holds in every reachable state.
LEMMA InvariantHolds == Spec => []IInv
  BY InitHolds, StepHolds, PTL DEF Spec

\* Every variable keeps its type: no handler stores an ill-formed record, and
\* no request is in a state its code has no line for.
THEOREM EngineTypeOK == Spec => []TypeOK
  <1>1. IInv => TypeOK
    BY DEF IInv
  <1>. QED  BY <1>1, InvariantHolds, PTL

\* Interleaved handlers never mix their data (runAndRespond, resolve): what a
\* page shows is, whole, one run of an incident with that id, under a note
\* submitted for that id.
THEOREM EngineRecordIntegrity == Spec => []RecordIntegrity
  <1>1. IInv => RecordIntegrity
    <2>. SUFFICES ASSUME IInv, NEW id \in Id, Get(id) # NotFound
                  PROVE  /\ [Get(id) EXCEPT !.resolution = Unresolved] \in runs
                         /\ IdOf(Get(id)) = id
                         /\ Resolved(Get(id)) => <<id, Get(id).resolution>> \in submitted
      BY DEF RecordIntegrity, Stored
    <2>. QED  BY GetOnRecord DEF OnRecord, Recorded
  <1>. QED  BY <1>1, InvariantHolds, PTL

\* Memory evidence is about another incident's run that did happen and shares
\* the alert or part of the scope, and quotes a fix submitted for it
\* (Investigate).
THEOREM EngineRecallIsHonest == Spec => []RecallIsHonest
  <1>1. IInv => RecallIsHonest
    <2>. SUFFICES ASSUME IInv PROVE RecallIsHonest
      OBVIOUS
    <2>1. \A run \in runs : IdOf(run) = run.incident.id
      BY DEF IdOf
    <2>. QED  BY <2>1 DEF IInv, RunsOK, Honest, RecallIsHonest
  <1>. QED  BY <1>1, InvariantHolds, PTL

\* On the table, whatever is on file stays on file, through crashes too, so
\* that the link of a memory evidence leads to a page (Save, List).
THEOREM EnginePastLinksOpen == Spec => []PastLinksOpen
  <1>1. IInv => PastLinksOpen
    <2>. SUFFICES ASSUME IInv, backend = "sqlite", NEW run \in runs,
                         NEW e \in MemoryEvidence(run.hypotheses)
                  PROVE  e.past \in Id /\ Get(e.past) # NotFound
      BY DEF PastLinksOpen, Stored
    <2>1. e \in Recollection /\ rows[e.past] # NoRow
      BY DEF IInv, RunsOK, Honest
    <2>2. e.past \in Id
      BY <2>1 DEF Recollection
    <2>. QED  BY <2>1, <2>2, OnFileIsFound DEF IInv
  <1>. QED  BY <1>1, InvariantHolds, PTL

\* "investigators -> rank -> persist -> emit sinks" (main.go:139): on the
\* table a request turns to the sinks with its own run on file, whole, or with
\* the table as it was if the store could not take it, and replies once every
\* sink was tried (runAndRespond).
THEOREM EngineFiledBeforeEmitted == Spec => FiledBeforeEmitted
  <1>. USE DEF TurnsToSinks, Replies
  <1>. DEFINE Turned(j) ==
                (backend = "sqlite" /\ TurnsToSinks(j)) =>
                   \/ Filed(j)'
                   \/ /\ MustFail(RunOf(j), job[j].gone) \/ faults' > faults
                      /\ UNCHANGED rows
              Replied(j) == Replies(j) => job[j].tried = Len(Sinks)
  <1>1. ASSUME IInv, NEW j \in Job, Save(j), backend = "sqlite"
        PROVE  Turned(j)
    <2>1. job[j].pc = "ranked" /\ job' = [job EXCEPT ![j].pc = "emitting"]
      BY <1>1 DEF Save
    <2>2. RunOf(j) \in Investigation /\ IdOf(RunOf(j)) = job[j].inc.id
      <3>1. job[j].memory # Pending /\ job[j].live # Pending
        BY <1>1, <2>1 DEF IInv, JobOK, RankedOK
      <3>. QED  BY <1>1, <2>1, <3>1, RunTyped
    <2>3. CASE SaveOk(RunOf(j))
      <3>1. /\ backend' = "sqlite"
            /\ rows'[job[j].inc.id] # NoRow /\ rows'[job[j].inc.id].data = RunOf(j)
        BY <1>1, <2>2, <2>3, SaveOkFiles DEF IInv
      <3>2. job'[j].inc = job[j].inc /\ RunOf(j)' = RunOf(j)
        BY <1>1, <2>1, EmittingTyped
      <3>. QED  BY <3>1, <3>2 DEF Filed, Get, Db!Get
    <2>4. CASE SaveFails(RunOf(j), job[j].gone)
      BY <1>1, <2>4, FaultsGrow DEF SaveFails, Db!SaveFails, IInv
    <2>. QED  BY <1>1, <2>3, <2>4 DEF Save
  <1>2. ASSUME IInv, [Next]_vars, NEW j \in Job PROVE Turned(j) /\ Replied(j)
    <2>. SUFFICES ASSUME job'[j].pc # job[j].pc PROVE Turned(j) /\ Replied(j)
      OBVIOUS
    <2>1. ASSUME NEW i \in Job, JobStep(i) PROVE Turned(j) /\ Replied(j)
      <3>1. CASE i # j
        BY <1>2, <2>1, <3>1 DEF IInv, TypeOK, JobStep, Receive, AnswerMemory, AnswerLive, Rank,
           Save, Emit, Respond, Disconnect
      <3>2. CASE i = j /\ Save(j)
        <4>1. job[j].pc = "ranked" /\ job'[j].pc = "emitting"
          BY <1>2, <3>2, EmittingTyped DEF Save
        <4>. QED  BY <1>1, <1>2, <3>2, <4>1
      <3>3. CASE i = j /\ Respond(j)
        BY <1>2, <3>3 DEF IInv, TypeOK, Respond, NoInvestigation
      <3>4. CASE i = j /\ Receive(j)
        BY <1>2, <3>4 DEF IInv, TypeOK, Receive
      <3>5. CASE i = j /\ Rank(j)
        <4>1. job[j] \in RunningJob
          BY <1>2, <3>5, JobTyped DEF IInv, Rank
        <4>. QED  BY <1>2, <3>5, <4>1 DEF IInv, TypeOK, Rank, RunningJob
      <3>6. CASE i = j /\ (AnswerMemory(j) \/ AnswerLive(j) \/ Emit(j) \/ Disconnect(j))
        <4>1. job[j] \in RunningJob
          BY <1>2, <3>6, JobTyped DEF IInv, AnswerMemory, AnswerLive, Emit, Disconnect
        <4>. QED  BY <1>2, <3>6, <4>1 DEF IInv, TypeOK, AnswerMemory, AnswerLive, Emit,
                     Disconnect, RunningJob
      <3>. QED  BY <2>1, <3>1, <3>2, <3>3, <3>4, <3>5, <3>6 DEF JobStep
    <2>2. ASSUME NEW r \in Resolver, ResolveGet(r) \/ ResolveSave(r) PROVE FALSE
      BY <2>2 DEF ResolveGet, ResolveSave
    <2>3. CASE Crash
      <3>1. faults' > faults /\ job'[j].pc = "idle"
        BY <1>2, <2>3, FaultsGrow DEF Crash, IInv, NoInvestigation
      <3>2. faults' # faults
        BY <1>2, <3>1, BoundsAssumption DEF IInv, TypeOK
      <3>. QED  BY <3>1, <3>2
    <2>. QED  BY <1>2, <2>1, <2>2, <2>3 DEF Next, vars
  <1>3. IInv /\ [Next]_vars =>
          [\A j \in Job :
              /\ (backend = "sqlite" /\ TurnsToSinks(j)) =>
                    \/ Filed(j)'
                    \/ /\ MustFail(RunOf(j), job[j].gone) \/ faults' > faults
                       /\ UNCHANGED rows
              /\ Replies(j) => job[j].tried = Len(Sinks)]_vars
    BY <1>2
  <1>. QED  BY <1>3, InvariantHolds, PTL DEF Spec, FiledBeforeEmitted

-----------------------------------------------------------------------------
(* What an operator was told is saved stays saved: a second invariant. *)

\* No two runs started at the same time.
StartsOK ==
    /\ \A p \in runs : p.startedAt < clock
    /\ \A p, q \in runs : p.startedAt = q.startedAt => p = q
    /\ \A j \in Job : job[j].pc # "idle" => job[j].started < clock
    /\ \A i, j \in Job :
          (job[i].pc # "idle" /\ job[j].pc # "idle" /\ job[i].started = job[j].started)
              => i = j
    /\ \A j \in Job : job[j].pc = "investigating" =>
          \A p \in runs : p.startedAt # job[j].started

\* Nothing of a run started at t is on file, on a page or acknowledged.
Unseen(t) ==
    /\ \A id \in Id : rows[id] # NoRow => rows[id].data.startedAt # t
    /\ \A r \in Resolver : resolver[r].pc = "got" => resolver[r].inv.startedAt # t
    /\ \A ack \in acked : ack[2] # t

\* As long as a run is not saved, nobody can resolve it.
UnseenOK ==
    \A j \in Job : job[j].pc \in {"investigating", "ranked"} => Unseen(job[j].started)

AckTyped == \A ack \in acked : ack \in Id \X Time /\ ack[2] < clock

\* An acknowledged resolve is on file until another run of the id is.
AckedStayResolved ==
    backend = "sqlite" =>
    \A ack \in acked :
        /\ rows[ack[1]] # NoRow
        /\ rows[ack[1]].data.startedAt = ack[2] => Resolved(rows[ack[1]].data)

FInv ==
    /\ IInv
    /\ StartsOK
    /\ backend = "sqlite" => UnseenOK /\ AckTyped /\ AckedStayResolved

\* A step that saves nothing, and ranks no run.
LEMMA QuietSteps ==
  ASSUME FInv, IInv', UNCHANGED <<backend, rows, clock, resolver, runs, acked>>,
         \A j \in Job : \/ job'[j].pc = "idle"
                        \/ job'[j].pc = job[j].pc /\ job'[j].started = job[j].started
  PROVE  FInv'
  <1>1. StartsOK'
    BY DEF FInv, StartsOK
  <1>2. UnseenOK => UnseenOK'
    <2>. SUFFICES ASSUME UnseenOK, NEW j \in Job, job'[j].pc \in {"investigating", "ranked"}
                  PROVE  Unseen(job[j].started)' /\ job'[j].started = job[j].started
      BY DEF UnseenOK, Unseen
    <2>1. Unseen(job[j].started) /\ job'[j].started = job[j].started
      BY DEF UnseenOK
    <2>. QED  BY <2>1 DEF Unseen
  <1>. QED  BY <1>1, <1>2 DEF FInv, AckTyped, AckedStayResolved

\* What is on record started before now.
LEMMA OnRecordStarted ==
  ASSUME FInv, NEW inv \in Investigation, OnRecord(inv)
  PROVE  /\ inv.startedAt < clock
         /\ \E p \in runs : p.startedAt = inv.startedAt /\ p.incident = inv.incident
  <1>1. [inv EXCEPT !.resolution = Unresolved].startedAt = inv.startedAt
    BY DEF Investigation
  <1>2. [inv EXCEPT !.resolution = Unresolved].incident = inv.incident
    BY DEF Investigation
  <1>. QED  BY <1>1, <1>2 DEF FInv, StartsOK, OnRecord, Recorded

\* What a resolve in flight holds is an investigation that is on record.
LEMMA CopyTyped ==
  ASSUME IInv, NEW r \in Resolver, resolver[r].pc = "got"
  PROVE  /\ resolver[r].inv \in Investigation
         /\ resolver[r].note \in Note
         /\ OnRecord(resolver[r].inv)
  <1>1. resolver[r] \in [pc : {"got"}, inv : Investigation, note : Note]
    BY DEF IInv, TypeOK, NoResolve
  <1>. QED  BY <1>1 DEF IInv, CopyOK

\* A run that starts now is unseen: whatever is on record started earlier.
LEMMA ReceiveFresh ==
  ASSUME FInv, NEW j \in Job, Receive(j)
  PROVE  FInv'
  <1>. USE DEF store, history
  <1>1. /\ IInv' /\ TypeOK
        /\ UNCHANGED <<backend, rows, resolver, runs, submitted, acked>>
        /\ clock \in Nat /\ clock' = clock + 1
    <2>1. IInv /\ IInv'
      BY ReceiveHolds DEF FInv
    <2>2. TypeOK /\ clock \in Nat
      BY <2>1, BoundsAssumption DEF IInv, TypeOK
    <2>. QED  BY <2>1, <2>2 DEF Receive
  <1>2. /\ job'[j].pc = "investigating" /\ job'[j].started = clock
        /\ \A i \in Job \ {j} : job'[i] = job[i]
    BY DEF FInv, IInv, TypeOK, Receive
  <1>3. \A i \in Job : job[i].pc # "idle" => job[i].started \in Nat
    BY JobTyped, <1>1 DEF RunningJob
  <1>4. \A p \in runs : p.startedAt \in Nat
    BY <1>1, TimeAssumption DEF TypeOK, Investigation
  <1>5. StartsOK'
    BY <1>1, <1>2, <1>3, <1>4 DEF FInv, StartsOK
  <1>6. ASSUME backend = "sqlite" PROVE UnseenOK' /\ AckTyped' /\ AckedStayResolved'
    <2>1. Unseen(clock)
      <3>1. ASSUME NEW id \in Id, rows[id] # NoRow PROVE rows[id].data.startedAt # clock
        <4>1. rows[id].data \in Investigation /\ OnRecord(rows[id].data)
          BY <1>1, <3>1, RingIsRingP DEF TypeOK, Db!TypeOK, Db!Row, FInv, IInv,
             TableOK
        <4>2. rows[id].data.startedAt < clock /\ rows[id].data.startedAt \in Nat
          BY <4>1, OnRecordStarted, TimeAssumption DEF Investigation
        <4>. QED  BY <1>1, <4>2
      <3>2. ASSUME NEW r \in Resolver, resolver[r].pc = "got"
            PROVE  resolver[r].inv.startedAt # clock
        <4>1. resolver[r].inv \in Investigation /\ OnRecord(resolver[r].inv)
          BY <3>2, CopyTyped DEF FInv
        <4>2. resolver[r].inv.startedAt < clock /\ resolver[r].inv.startedAt \in Nat
          BY <4>1, OnRecordStarted, TimeAssumption DEF Investigation
        <4>. QED  BY <1>1, <4>2
      <3>3. ASSUME NEW ack \in acked PROVE ack[2] # clock
        <4>1. ack[2] \in Nat /\ ack[2] < clock
          BY <1>6, TimeAssumption DEF FInv, AckTyped
        <4>. QED  BY <1>1, <4>1
      <3>. QED  BY <3>1, <3>2, <3>3 DEF Unseen
    <2>2. UnseenOK'
      <3>. SUFFICES ASSUME NEW i \in Job, job'[i].pc \in {"investigating", "ranked"}
                    PROVE  Unseen(job'[i].started)
        BY <1>1 DEF UnseenOK, Unseen
      <3>. QED  BY <1>2, <1>6, <2>1 DEF FInv, UnseenOK
    <2>3. AckTyped'
      <3>. SUFFICES ASSUME NEW ack \in acked PROVE ack \in Id \X Time /\ ack[2] < clock + 1
        BY <1>1 DEF AckTyped
      <3>1. ack \in Id \X Time /\ ack[2] < clock /\ ack[2] \in Nat
        BY <1>6, TimeAssumption DEF FInv, AckTyped
      <3>. QED  BY <1>1, <3>1
    <2>. QED  BY <1>1, <1>6, <2>2, <2>3 DEF FInv, AckedStayResolved
  <1>. QED  BY <1>1, <1>5, <1>6 DEF FInv

\* Ranking takes the start time of a job that has ranked nothing yet.
LEMMA RankFresh ==
  ASSUME FInv, NEW j \in Job, Rank(j)
  PROVE  FInv'
  <1>. USE DEF store
  <1>1. /\ IInv' /\ TypeOK
        /\ UNCHANGED <<backend, rows, resolver, clock, submitted, acked>>
        /\ job[j].pc = "investigating" /\ runs' = runs \cup {RunOf(j)}
    BY RankHolds DEF FInv, IInv, Rank
  <1>2. /\ job'[j].pc = "ranked" /\ job'[j].started = job[j].started
        /\ \A i \in Job \ {j} : job'[i] = job[i]
    BY <1>1, JobTyped DEF TypeOK, RunningJob, Rank
  <1>3. RunOf(j).startedAt = job[j].started
    BY DEF RunOf
  <1>4. StartsOK'
    BY <1>1, <1>2, <1>3 DEF FInv, StartsOK
  <1>5. UnseenOK => UnseenOK'
    <2>. SUFFICES ASSUME UnseenOK, NEW i \in Job, job'[i].pc \in {"investigating", "ranked"}
                  PROVE  Unseen(job'[i].started)
      BY <1>1 DEF UnseenOK, Unseen
    <2>. QED  BY <1>1, <1>2 DEF UnseenOK
  <1>. QED  BY <1>1, <1>4, <1>5 DEF FInv, AckTyped, AckedStayResolved

\* A save on the table replaces the row of its id, and that one only.
LEMMA TableFiled ==
  ASSUME TypeOK, backend = "sqlite", NEW inv \in Investigation, SaveOk(inv)
  PROVE  \A id \in Id :
            IF id = IdOf(inv) THEN rows'[id] # NoRow /\ rows'[id].data = inv
            ELSE rows'[id] = rows[id]
  <1>. DEFINE row == [started_at |-> Db!Unix(inv.startedAt), data |-> inv]
  <1>1. row # NoRow /\ rows' = [rows EXCEPT ![IdOf(inv)] = row] /\ row.data = inv
    BY TableSaveTyped DEF SaveOk, TypeOK
  <1>. HIDE DEF row
  <1>. QED  BY <1>1 DEF TypeOK, Db!TypeOK

\* The save of a new run: it takes a fix away only with the run it was for.
LEMMA JobSaveFresh ==
  ASSUME FInv, NEW j \in Job, Save(j)
  PROVE  FInv'
  <1>1. /\ IInv' /\ TypeOK
        /\ UNCHANGED <<resolver, clock, runs, submitted, acked>>
        /\ job[j].pc = "ranked" /\ job' = [job EXCEPT ![j].pc = "emitting"]
    BY JobSaveHolds DEF FInv, IInv, Save, history
  <1>2. /\ job'[j].pc = "emitting" /\ job'[j].started = job[j].started
        /\ \A i \in Job \ {j} : job'[i] = job[i]
    BY <1>1, EmittingTyped DEF FInv
  <1>3. StartsOK'
    BY <1>1, <1>2 DEF FInv, StartsOK
  <1>4. CASE SaveOk(RunOf(j))
    <2>1. RunOf(j) \in Investigation /\ RunOf(j).startedAt = job[j].started
      BY <1>1, RunTyped DEF RunOf, FInv, IInv, JobOK, RankedOK
    <2>2. backend' = backend
      BY <1>4, <2>1, <1>1, SaveOkFiles
    <2>3. ASSUME backend = "sqlite" PROVE UnseenOK' /\ AckTyped' /\ AckedStayResolved'
      <3>. DEFINE saved(id) == id = IdOf(RunOf(j))
      <3>1. \A id \in Id :
               IF saved(id) THEN rows'[id] # NoRow /\ rows'[id].data = RunOf(j)
               ELSE rows'[id] = rows[id]
        BY <1>1, <1>4, <2>1, <2>3, TableFiled
      <3>2. UnseenOK /\ AckTyped /\ AckedStayResolved /\ Unseen(job[j].started)
        BY <1>1, <2>3 DEF FInv, UnseenOK
      <3>. HIDE DEF saved
      <3>3. UnseenOK'
        <4>. SUFFICES ASSUME NEW i \in Job, job'[i].pc \in {"investigating", "ranked"}
                      PROVE  /\ \A id \in Id : rows'[id] # NoRow =>
                                    rows'[id].data.startedAt # job'[i].started
                             /\ \A r \in Resolver : resolver[r].pc = "got" =>
                                    resolver[r].inv.startedAt # job'[i].started
                             /\ \A ack \in acked : ack[2] # job'[i].started
          BY <1>1 DEF UnseenOK, Unseen
        <4>1. i # j /\ job'[i] = job[i] /\ Unseen(job[i].started)
          BY <1>2, <3>2 DEF UnseenOK
        <4>2. job[i].started # job[j].started
          BY <1>1, <1>2, <4>1 DEF FInv, StartsOK
        <4>. QED  BY <2>1, <3>1, <4>1, <4>2 DEF Unseen
      <3>4. AckedStayResolved'
        <4>. SUFFICES ASSUME NEW ack \in acked
                      PROVE  /\ rows'[ack[1]] # NoRow
                             /\ rows'[ack[1]].data.startedAt = ack[2] =>
                                   Resolved(rows'[ack[1]].data)
          BY <1>1 DEF AckedStayResolved, Resolved
        <4>1. ack[1] \in Id /\ ack[2] # job[j].started
          BY <3>2 DEF AckTyped, Unseen
        <4>2. /\ rows[ack[1]] # NoRow
              /\ rows[ack[1]].data.startedAt = ack[2] => Resolved(rows[ack[1]].data)
          BY <2>3, <3>2 DEF AckedStayResolved
        <4>. QED  BY <2>1, <3>1, <4>1, <4>2
      <3>. QED  BY <1>1, <3>2, <3>3, <3>4 DEF AckTyped
    <2>. QED  BY <1>1, <1>3, <2>2, <2>3 DEF FInv
  <1>5. CASE SaveFails(RunOf(j), job[j].gone)
    <2>1. UNCHANGED <<backend, rows>>
      BY <1>5 DEF SaveFails, Db!SaveFails
    <2>2. UnseenOK => UnseenOK'
      <3>. SUFFICES ASSUME UnseenOK, NEW i \in Job, job'[i].pc \in {"investigating", "ranked"}
                    PROVE  Unseen(job'[i].started)
        BY <1>1, <2>1 DEF UnseenOK, Unseen
      <3>. QED  BY <1>2 DEF UnseenOK
    <2>. QED  BY <1>1, <1>3, <2>1, <2>2 DEF FInv, AckTyped, AckedStayResolved
  <1>. QED  BY <1>4, <1>5 DEF Save

\* A resolve only ever reads a run that is on file.
LEMMA ResolveGetFresh ==
  ASSUME FInv, NEW r \in Resolver, ResolveGet(r)
  PROVE  FInv'
  <1>1. /\ IInv' /\ TypeOK /\ UNCHANGED <<backend, rows, clock, job, runs, acked>>
    BY ResolveGetHolds DEF FInv, IInv, ResolveGet, store
  <1>2. StartsOK'
    BY <1>1 DEF FInv, StartsOK
  <1>3. ASSUME backend = "sqlite", UnseenOK PROVE UnseenOK'
    <2>. SUFFICES ASSUME NEW i \in Job, job[i].pc \in {"investigating", "ranked"},
                         NEW q \in Resolver, resolver'[q].pc = "got"
                  PROVE  resolver'[q].inv.startedAt # job[i].started
      BY <1>1, <1>3 DEF UnseenOK, Unseen
    <2>1. Unseen(job[i].started)
      BY <1>3 DEF UnseenOK
    <2>2. CASE resolver'[q] = resolver[q]
      BY <2>1, <2>2 DEF Unseen
    <2>3. CASE resolver'[q] # resolver[q]
      <3>1. PICK id \in Id :
               resolver'[q] = NoResolve \/ (Get(id) # NotFound /\ resolver'[q].inv = Get(id))
        BY <1>1, <2>3 DEF ResolveGet, TypeOK
      <3>2. Get(id) # NotFound /\ resolver'[q].inv = Get(id)
        BY <3>1 DEF NoResolve
      <3>3. rows[id] # NoRow /\ Get(id) = rows[id].data
        BY <1>3, <3>2, GetOnRecord DEF FInv
      <3>. QED  BY <2>1, <3>2, <3>3 DEF Unseen
    <2>. QED  BY <2>2, <2>3
  <1>. QED  BY <1>1, <1>2, <1>3 DEF FInv, AckTyped, AckedStayResolved

\* A resolve's save: of the run it had read, and now with its note.
LEMMA ResolveSaveFresh ==
  ASSUME FInv, NEW r \in Resolver, ResolveSave(r)
  PROVE  FInv'
  <1>. DEFINE inv == [resolver[r].inv EXCEPT !.resolution = resolver[r].note]
  <1>1. IInv /\ IInv' /\ TypeOK
    BY ResolveSaveHolds DEF FInv, IInv
  <1>2. /\ UNCHANGED <<clock, job, runs, submitted>>
        /\ resolver[r].pc = "got" /\ resolver' = [resolver EXCEPT ![r] = NoResolve]
        /\ \/ SaveOk(inv) /\ acked' = acked \cup {<<IdOf(inv), inv.startedAt>>}
           \/ SaveFails(inv, FALSE) /\ UNCHANGED acked
    BY DEF ResolveSave
  <1>3. \A q \in Resolver : resolver'[q].pc = "got" => resolver'[q] = resolver[q]
    BY <1>1, <1>2 DEF TypeOK, NoResolve
  <1>4. /\ inv \in Investigation /\ Resolved(inv)
        /\ inv.startedAt = resolver[r].inv.startedAt /\ inv.startedAt < clock
    <2>1. /\ resolver[r].inv \in Investigation /\ resolver[r].note \in Note
          /\ resolver[r].inv.startedAt < clock
      BY <1>1, <1>2, CopyTyped, OnRecordStarted
    <2>. QED  BY <2>1, NoteAssumption DEF Investigation, Resolved
  <1>5. inv.startedAt \in Time /\ IdOf(inv) \in Id
    BY <1>4, IdOfInvestigation DEF Investigation
  <1>. HIDE DEF inv
  <1>6. StartsOK'
    BY <1>2 DEF FInv, StartsOK
  <1>7. CASE SaveOk(inv) /\ acked' = acked \cup {<<IdOf(inv), inv.startedAt>>}
    <2>1. backend' = backend
      BY <1>1, <1>4, <1>7, SaveOkFiles
    <2>2. ASSUME backend = "sqlite" PROVE UnseenOK' /\ AckTyped' /\ AckedStayResolved'
      <3>1. \A id \in Id :
               IF id = IdOf(inv) THEN rows'[id] # NoRow /\ rows'[id].data = inv
               ELSE rows'[id] = rows[id]
        BY <1>1, <1>4, <1>7, <2>2, TableFiled
      <3>2. UnseenOK /\ AckTyped /\ AckedStayResolved
        BY <2>2 DEF FInv
      <3>3. UnseenOK'
        <4>. SUFFICES ASSUME NEW i \in Job, job[i].pc \in {"investigating", "ranked"}
                      PROVE  /\ \A id \in Id : rows'[id] # NoRow =>
                                    rows'[id].data.startedAt # job[i].started
                             /\ \A q \in Resolver : resolver'[q].pc = "got" =>
                                    resolver'[q].inv.startedAt # job[i].started
                             /\ \A ack \in acked' : ack[2] # job[i].started
          BY <1>2 DEF UnseenOK, Unseen
        <4>1. Unseen(job[i].started)
          BY <3>2 DEF UnseenOK
        <4>2. inv.startedAt # job[i].started
          BY <1>2, <1>4, <4>1 DEF Unseen
        <4>. QED  BY <1>3, <1>7, <3>1, <4>1, <4>2 DEF Unseen
      <3>4. AckTyped'
        BY <1>2, <1>4, <1>5, <1>7, <3>2 DEF AckTyped
      <3>5. AckedStayResolved'
        <4>. SUFFICES ASSUME NEW ack \in acked'
                      PROVE  /\ rows'[ack[1]] # NoRow
                             /\ rows'[ack[1]].data.startedAt = ack[2] =>
                                   Resolved(rows'[ack[1]].data)
          BY DEF AckedStayResolved, Resolved
        <4>1. CASE ack[1] = IdOf(inv)
          BY <1>4, <1>5, <3>1, <4>1
        <4>2. CASE ack[1] # IdOf(inv)
          <5>1. ack \in acked /\ ack[1] \in Id
            BY <1>7, <3>2, <4>2 DEF AckTyped
          <5>. QED  BY <2>2, <3>1, <3>2, <4>2, <5>1 DEF AckedStayResolved
        <4>. QED  BY <4>1, <4>2
      <3>. QED  BY <3>3, <3>4, <3>5
    <2>. QED  BY <1>1, <1>6, <2>1, <2>2 DEF FInv
  <1>8. CASE SaveFails(inv, FALSE) /\ UNCHANGED acked
    <2>1. UNCHANGED <<backend, rows>>
      BY <1>8 DEF SaveFails, Db!SaveFails
    <2>2. UnseenOK => UnseenOK'
      <3>. SUFFICES ASSUME UnseenOK, NEW i \in Job, job[i].pc \in {"investigating", "ranked"}
                    PROVE  Unseen(job[i].started)'
        BY <1>2 DEF UnseenOK, Unseen
      <3>1. Unseen(job[i].started)
        BY DEF UnseenOK
      <3>. QED  BY <1>2, <1>3, <1>8, <2>1, <3>1 DEF Unseen
    <2>. QED  BY <1>1, <1>2, <1>6, <1>8, <2>1, <2>2 DEF FInv, AckTyped,
                 AckedStayResolved
  <1>. QED  BY <1>2, <1>7, <1>8

\* A restart of the server loses nothing the table was told.
LEMMA CrashFresh ==
  ASSUME FInv, Crash
  PROVE  FInv'
  <1>1. /\ IInv' /\ UNCHANGED <<backend, rows, clock, runs>>
        /\ job' = [j \in Job |-> NoInvestigation]
        /\ resolver' = [r \in Resolver |-> NoResolve]
        /\ backend = "sqlite" => acked' = acked
    BY CrashHolds DEF FInv, Crash
  <1>2. /\ \A j \in Job : job'[j].pc = "idle"
    BY <1>1 DEF NoInvestigation
  <1>3. StartsOK'
    BY <1>1, <1>2 DEF FInv, StartsOK
  <1>4. UnseenOK'
    BY <1>2 DEF UnseenOK
  <1>. QED  BY <1>1, <1>3, <1>4 DEF FInv, AckTyped, AckedStayResolved

\* A server that has just started satisfies the second invariant.
LEMMA FreshInit == Init => FInv
  BY InitHolds DEF Init, FInv, StartsOK, UnseenOK, AckTyped, AckedStayResolved,
     NoInvestigation

\* The second invariant is inductive.
LEMMA FreshStep == FInv /\ [Next]_vars => FInv'
  <1>. SUFFICES ASSUME FInv, [Next]_vars PROVE FInv'
    OBVIOUS
  <1>. USE DEF store, history
  <1>0. IInv' /\ TypeOK
    BY StepHolds DEF FInv, IInv
  <1>1. ASSUME NEW j \in Job,
               AnswerMemory(j) \/ AnswerLive(j) \/ Emit(j) \/ Respond(j) \/ Disconnect(j)
        PROVE  FInv'
    <2>1. UNCHANGED <<backend, rows, clock, resolver, runs, acked>>
      BY <1>1 DEF AnswerMemory, AnswerLive, Emit, Respond, Disconnect
    <2>2. job[j] \in RunningJob
      BY <1>0, <1>1, JobTyped DEF AnswerMemory, AnswerLive, Emit, Respond,
         Disconnect
    <2>3. \/ \E memory : job' = [job EXCEPT ![j].memory = memory]
          \/ \E live : job' = [job EXCEPT ![j].live = live]
          \/ job' = [job EXCEPT ![j].tried = @ + 1]
          \/ job' = [job EXCEPT ![j] = NoInvestigation]
          \/ job' = [job EXCEPT ![j].gone = TRUE]
      <3>1. CASE AnswerMemory(j)
        <4>1. CASE \E listing \in Lists(LookbackLimit) :
                      job' = [job EXCEPT ![j].memory =
                                 Recollections(Investigate(listing, job[j].inc))]
          BY <4>1
        <4>2. CASE job' = [job EXCEPT ![j].memory = {}]
          <5>. DEFINE e == {}
          <5>1. job' = [job EXCEPT ![j].memory = e]
            BY <4>2
          <5>. HIDE DEF e
          <5>. QED  BY <5>1
        <4>. QED  BY <3>1, <4>1, <4>2 DEF AnswerMemory
      <3>2. CASE AnswerLive(j)
        BY <3>2 DEF AnswerLive
      <3>3. CASE Emit(j) \/ Respond(j) \/ Disconnect(j)
        BY <3>3 DEF Emit, Respond, Disconnect
      <3>. QED  BY <1>1, <3>1, <3>2, <3>3
    <2>4. \A i \in Job : \/ job'[i].pc = "idle"
                         \/ job'[i].pc = job[i].pc /\ job'[i].started = job[i].started
      BY <1>0, <2>2, <2>3 DEF TypeOK, RunningJob, NoInvestigation
    <2>. QED  BY <1>0, <2>1, <2>4, QuietSteps
  <1>2. ASSUME NEW j \in Job, JobStep(j) PROVE FInv'
    BY <1>1, <1>2, ReceiveFresh, RankFresh, JobSaveFresh DEF JobStep
  <1>3. ASSUME NEW r \in Resolver, ResolveGet(r) \/ ResolveSave(r) PROVE FInv'
    BY <1>3, ResolveGetFresh, ResolveSaveFresh
  <1>4. CASE Crash
    BY <1>4, CrashFresh
  <1>5. CASE UNCHANGED vars
    BY <1>0, <1>5, QuietSteps DEF vars
  <1>. QED  BY <1>2, <1>3, <1>4, <1>5 DEF Next

\* On the table, once a resolve is acknowledged the run it was for has a
\* resolution for as long as it is on file: no save that was under way, and no
\* crash, takes it back (resolve, runAndRespond).
THEOREM EngineAckedStayResolved == Spec => []AckedStayResolved
  <1>1. FInv => AckedStayResolved
    BY DEF FInv, AckedStayResolved
  <1>. QED  BY <1>1, FreshInit, FreshStep, PTL DEF Spec

\* The row of an acknowledged run is listed, alike, and carries its fix.
LEMMA FixIsSurfaced ==
  ASSUME FInv, backend = "sqlite", Uncrowded, NEW ack \in acked,
         Get(ack[1]).startedAt = ack[2],
         NEW inc \in Incident, NEW run \in runs,
         IdOf(run) = ack[1], run.startedAt = ack[2],
         inc.id # IdOf(run), SameSignal(run.incident, inc),
         NEW listing \in Lists(LookbackLimit)
  PROVE  \E e \in Names(Investigate(listing, inc)) :
            e.past = ack[1] /\ e.fix # Unresolved
  <1>. DEFINE filed == rows[ack[1]].data
  <1>1. ack[1] \in Id /\ rows[ack[1]] # NoRow
    BY DEF FInv, AckTyped, AckedStayResolved
  <1>2. Get(ack[1]) = filed
    BY <1>1 DEF Get, Db!Get
  <1>3. filed.startedAt = ack[2] /\ Resolved(filed)
    BY <1>2 DEF FInv, AckedStayResolved
  <1>4. filed \in Investigation /\ OnRecord(filed) /\ IdOf(filed) = ack[1]
    BY <1>1, RingIsRingP DEF FInv, IInv, TypeOK, Db!TypeOK, Db!Row, TableOK
  <1>5. filed.incident = run.incident
    <2>1. PICK p \in runs : p.startedAt = filed.startedAt /\ p.incident = filed.incident
      BY <1>4, OnRecordStarted
    <2>2. p = run
      BY <1>3, <2>1 DEF FInv, StartsOK
    <2>. QED  BY <2>1, <2>2
  <1>6. listing \in Seq(Investigation) /\ \E k \in DOMAIN listing : listing[k] = filed
    <2>1. listing \in Db!List(LookbackLimit)
      BY DEF Lists
    <2>2. Db!TypeOK /\ TableOK /\ ack[1] \in OnFile
      BY <1>1 DEF FInv, IInv, TypeOK, OnFile
    <2>. QED  BY <2>1, <2>2, TableListed, LookbackAssumption DEF Uncrowded, OnFile
  <1>. HIDE DEF filed
  <1>7. PICK k \in DOMAIN listing : listing[k] = filed
    BY <1>6
  <1>8. IsHit(listing[k], inc)
    <2>1. filed.incident \in Incident /\ SameSignal(filed.incident, inc)
      BY <1>4, <1>5 DEF Investigation
    <2>2. ~LessScore(SimilarityScore(filed.incident, inc), MinScore)
      BY <2>1, HitMeans
    <2>. QED  BY <1>4, <1>7, <2>2 DEF IsHit
  <1>9. Recalled(listing[k], inc) \in Names(Investigate(listing, inc))
    BY <1>6, <1>8, InvestigateRecalls DEF Uncrowded, HitsIn
  <1>10. Recalled(listing[k], inc).past = ack[1] /\ Recalled(listing[k], inc).fix # Unresolved
    BY <1>3, <1>4, <1>7 DEF Recalled, Resolved
  <1>. QED  BY <1>9, <1>10

\* "The memory investigator surfaces the Notes field on future similar
\* incidents" (storage.go:24): on the table, an acknowledged fix of a run that
\* is still on file is told to every later incident of the same alert, as long
\* as the table and the number of alike incidents are within the lookback and
\* the TopK (resolve, List, Investigate).
THEOREM EngineTableKeepsFix == Spec => []TableKeepsFix
  <1>1. FInv => TableKeepsFix
    BY FixIsSurfaced DEF TableKeepsFix, FixSurfacesWhileOnFile, FixSurfacesFor,
       Surfaces
  <1>. QED  BY <1>1, FreshInit, FreshStep, PTL DEF Spec

-----------------------------------------------------------------------------
(* One call of the memory investigator (Recall). *)

CallInv ==
    /\ past \in Listings
    /\ cur \in Incident
    /\ evidence = NotFound \/ evidence = Investigate(past, cur)

\* The call's answer is what Investigate makes of the listing.
LEMMA CallInvariant == CallSpec => []CallInv
  <1>1. CallInit => CallInv
    BY DEF CallInit, CallInv
  <1>2. CallInv /\ [Call]_callVars => CallInv'
    BY DEF CallInv, Call, callVars
  <1>. QED  BY <1>1, <1>2, PTL DEF CallSpec

\* What RecallsTheSimilar calls candidates are Investigate's hits, and what
\* KeepsTheBest calls closer is its order.
LEMMA CandidatesAreHits ==
  ASSUME CallInv
  PROVE  /\ {k \in DOMAIN past : Candidate(past[k])} = HitsIn(past, cur)
         /\ \A j, k \in DOMAIN past :
               Closer(past[j], past[k]) <=> <<j, k>> \in Pairs(past, Liker(cur))
  <1>1. past \in Seq(Investigation) /\ cur \in Incident
    BY ListingsAssumption DEF CallInv
  <1>2. \A k \in DOMAIN past : past[k] \in Investigation /\ past[k].incident \in Incident
    <2>1. \A k \in DOMAIN past : past[k] \in Investigation
      BY <1>1
    <2>. QED  BY <2>1 DEF Investigation
  <1>3. \A k \in DOMAIN past : Shared(past[k]) = Inter(past[k].incident, cur)
                               /\ Combined(past[k]) = Uni(past[k].incident, cur)
    BY DEF Shared, Combined, Inter, Uni
  <1>4. ASSUME NEW k \in DOMAIN past
        PROVE  Candidate(past[k]) <=> IsHit(past[k], cur)
    <2>1. ~LessScore(SimilarityScore(past[k].incident, cur), MinScore)
             <=> \/ SameSignal(past[k].incident, cur)
                 \/ /\ Uni(past[k].incident, cur) > 0
                    /\ 7 * Inter(past[k].incident, cur) >= 3 * Uni(past[k].incident, cur)
      BY <1>1, <1>2, HitMeans
    <2>. QED  BY <1>3, <2>1 DEF Candidate, IsHit, SameSignal
  <1>5. ASSUME NEW j \in DOMAIN past, NEW k \in DOMAIN past
        PROVE  Closer(past[j], past[k]) <=> <<j, k>> \in Pairs(past, Liker(cur))
    <2>. DEFINE S(i) == SimilarityScore(past[i].incident, cur)
                C(i) == Closeness(past[i])
    <2>1. ASSUME NEW i \in DOMAIN past
          PROVE  /\ C(i)[1] \in Nat /\ C(i)[2] \in Nat
                 /\ S(i).num = C(i)[1] /\ S(i).den = 10 * C(i)[2]
      <3>1. Inter(past[i].incident, cur) \in Nat /\ Uni(past[i].incident, cur) \in Nat
        BY <1>1, <1>2, CountsTyped
      <3>2. S(i) =
              LET signal == IF SameSignal(past[i].incident, cur) THEN 3 ELSE 0
              IN  IF Uni(past[i].incident, cur) = 0 THEN [num |-> signal, den |-> 10]
                  ELSE [num |-> 7 * Inter(past[i].incident, cur)
                                   + signal * Uni(past[i].incident, cur),
                        den |-> 10 * Uni(past[i].incident, cur)]
        BY <1>1, <1>2, SimTyped
      <3>. QED  BY <1>3, <3>1, <3>2 DEF Closeness, SameSignal
    <2>. HIDE DEF S, C
    <2>2. Closer(past[j], past[k]) <=> C(j)[1] * C(k)[2] > C(k)[1] * C(j)[2]
      BY DEF Closer, C
    <2>3. <<j, k>> \in Pairs(past, Liker(cur)) <=> LessScore(S(k), S(j))
      BY <1>2 DEF Pairs, Liker, S
    <2>4. LessScore(S(k), S(j))
            <=> C(k)[1] * (10 * C(j)[2]) < C(j)[1] * (10 * C(k)[2])
      BY <2>1 DEF LessScore
    <2>5. /\ C(k)[1] * (10 * C(j)[2]) = 10 * (C(k)[1] * C(j)[2])
          /\ C(j)[1] * (10 * C(k)[2]) = 10 * (C(j)[1] * C(k)[2])
          /\ C(k)[1] * C(j)[2] \in Nat /\ C(j)[1] * C(k)[2] \in Nat
      BY <2>1
    <2>. QED  BY <2>2, <2>3, <2>4, <2>5
  <1>. QED  BY <1>4, <1>5 DEF HitsIn

\* What the call answers, in terms of the places of the listing it recalls.
LEMMA AnswerOfCall ==
  ASSUME CallInv, Answered
  PROVE  \E place :
            LET hits == HitsIn(past, cur)
                shown == IF Cardinality(hits) < TopK THEN Cardinality(hits) ELSE TopK
            IN  /\ Cardinality(hits) \in Nat /\ shown \in Nat /\ shown <= Cardinality(hits)
                /\ Enumerates(place, hits, Pairs(past, Liker(cur)))
                /\ evidence = [m \in 1..shown |-> Recalled(past[place[m]], cur)]
                /\ \A m \in 1..shown : place[m] \in hits
  <1>. DEFINE hits == HitsIn(past, cur)
              n == Cardinality(hits)
              shown == IF n < TopK THEN n ELSE TopK
  <1>1. past \in Seq(Investigation) /\ cur \in Incident /\ evidence = Investigate(past, cur)
    BY ListingsAssumption DEF CallInv, Answered
  <1>2. n \in Nat
    BY <1>1, InvestigateRanks
  <1>3. PICK place :
           /\ Enumerates(place, hits, Pairs(past, Liker(cur)))
           /\ Investigate(past, cur)
                = [m \in 1..(IF TopK < n THEN TopK ELSE n) |-> Recalled(past[place[m]], cur)]
    BY <1>1, InvestigateRanks
  <1>4. shown = (IF TopK < n THEN TopK ELSE n) /\ shown \in Nat /\ shown <= n
    BY <1>2, TopKAssumption
  <1>5. \A m \in 1..shown : place[m] \in hits
    BY <1>2, <1>3, <1>4 DEF Enumerates
  <1>. HIDE DEF hits, shown
  <1>6. evidence = [m \in 1..shown |-> Recalled(past[place[m]], cur)]
    BY <1>1, <1>3, <1>4
  <1>. QED  BY <1>2, <1>3, <1>4, <1>5, <1>6 DEF hits, shown

\* A past incident is recalled for its alert, or for a scope 3/7 the same, and
\* never for itself, and TopK of them unless there are fewer (similarityScore,
\* Investigate).
THEOREM RecallRecallsTheSimilar == CallSpec => []RecallsTheSimilar
  <1>1. ASSUME CallInv, Answered PROVE RecallsTheSimilar
    <2>. DEFINE hits == HitsIn(past, cur)
                shown == IF Cardinality(hits) < TopK THEN Cardinality(hits) ELSE TopK
    <2>1. PICK place :
             /\ shown \in Nat
             /\ evidence = [m \in 1..shown |-> Recalled(past[place[m]], cur)]
             /\ \A m \in 1..shown : place[m] \in hits
      BY <1>1, AnswerOfCall
    <2>2. {k \in DOMAIN past : Candidate(past[k])} = hits
      BY <1>1, CandidatesAreHits
    <2>. HIDE DEF hits
    <2>3. Len(evidence) = shown /\ DOMAIN evidence = 1..shown
      BY <2>1
    <2>4. \A m \in 1..shown :
             /\ evidence[m].past = IdOf(past[place[m]])
             /\ evidence[m].fix = past[place[m]].resolution
             /\ evidence[m].at = past[place[m]].startedAt
      BY <2>1 DEF Recalled
    <2>. QED  BY <2>1, <2>2, <2>3, <2>4 DEF RecallsTheSimilar
  <1>2. CallInv => RecallsTheSimilar
    BY <1>1 DEF RecallsTheSimilar
  <1>. QED  BY <1>2, CallInvariant, PTL

\* The evidence that does not fit is the least similar, and among equally
\* similar the oldest (the sort before the cut in Investigate).
THEOREM RecallKeepsTheBest == CallSpec => []KeepsTheBest
  <1>1. ASSUME CallInv, Answered PROVE KeepsTheBest
    <2>. DEFINE hits == HitsIn(past, cur)
                n == Cardinality(hits)
                shown == IF n < TopK THEN n ELSE TopK
                closer == Pairs(past, Liker(cur))
    <2>1. PICK place :
             /\ n \in Nat /\ shown \in Nat /\ shown <= n
             /\ Enumerates(place, hits, closer)
             /\ evidence = [m \in 1..shown |-> Recalled(past[place[m]], cur)]
             /\ \A m \in 1..shown : place[m] \in hits
      BY <1>1, AnswerOfCall
    <2>2. /\ {k \in DOMAIN past : Candidate(past[k])} = hits
          /\ \A j, k \in DOMAIN past : Closer(past[j], past[k]) <=> <<j, k>> \in closer
      BY <1>1, CandidatesAreHits
    <2>3. \A j, k \in DOMAIN past : past[j].startedAt = past[k].startedAt => j = k
      BY <1>1, ListingsAssumption DEF CallInv
    <2>. SUFFICES ASSUME NEW k \in DOMAIN past, Candidate(past[k]),
                         \A m \in DOMAIN evidence : evidence[m].at # past[k].startedAt,
                         NEW m \in DOMAIN evidence, NEW j \in DOMAIN past,
                         past[j].startedAt = evidence[m].at
                  PROVE  /\ ~Closer(past[k], past[j])
                         /\ ~Closer(past[j], past[k]) => j < k
      BY DEF KeepsTheBest
    <2>4. k \in hits /\ hits \in SUBSET DOMAIN past
      BY <2>2 DEF HitsIn
    <2>5. StrictWeakOrder(closer, DOMAIN past)
      <3>1. past \in Seq(Investigation) /\ cur \in Incident
        BY <1>1, ListingsAssumption DEF CallInv
      <3>2. \A i \in DOMAIN past : past[i] \in Investigation
        BY <3>1
      <3>. QED  BY <3>1, <3>2, LikerIsWeak DEF StrictWeakOrder, Pairs
    <2>. HIDE DEF hits, closer
    <2>6. /\ DOMAIN evidence = 1..shown
          /\ \A q \in 1..shown : evidence[q].at = past[place[q]].startedAt
      BY <2>1 DEF Recalled
    <2>7. j = place[m]
      BY <2>1, <2>3, <2>4, <2>6
    <2>8. PICK q \in 1..n : place[q] = k
      BY <2>1, <2>4 DEF Enumerates
    <2>9. m < q
      <3>1. q \notin 1..shown
        BY <2>6, <2>8
      <3>2. n \in Nat /\ shown \in Nat /\ m \in 1..shown
        BY <2>1, <2>6
      <3>. HIDE DEF n, shown
      <3>. QED  BY <3>1, <3>2
    <2>10. ComesFirst(closer, j, k)
      BY <2>1, <2>6, <2>7, <2>8, <2>9 DEF Enumerates
    <2>. QED  BY <2>2, <2>5, <2>10 DEF ComesFirst, StrictWeakOrder
  <1>2. CallInv => KeepsTheBest
    BY <1>1 DEF KeepsTheBest
  <1>. QED  BY <1>2, CallInvariant, PTL

\* The first overlap is one name both hold, if they share any.
LEMMA OverlapIsShared ==
  ASSUME NEW S, NEW a \in Seq(S), NEW b
  PROVE  IF Names(a) \cap Names(b) = {} THEN FirstOverlap(a, b) = {}
         ELSE \E n \in Names(a) \cap Names(b) : FirstOverlap(a, b) = {n}
  <1>. DEFINE shared == {k \in DOMAIN a : a[k] \in Names(b)}
  <1>1. FirstOverlap(a, b) \subseteq Names(a) \cap Names(b)
    BY DEF FirstOverlap, Names
  <1>2. CASE Names(a) \cap Names(b) = {}
    BY <1>1, <1>2
  <1>3. CASE Names(a) \cap Names(b) # {}
    <2>1. shared \in SUBSET Nat /\ IsFiniteSet(shared)
      <3>1. shared \in SUBSET (1..Len(a)) /\ IsFiniteSet(1..Len(a))
        BY FS_Interval
      <3>. QED  BY <3>1, FS_Subset
    <2>2. shared # {}
      BY <1>3 DEF Names
    <2>3. PICK k \in shared : \A j \in shared : k <= j
      BY <2>1, <2>2, LeastPlace
    <2>4. FirstOverlap(a, b) = {a[k]}
      <3>1. \A i \in DOMAIN a :
               (a[i] \in Names(b) /\ \A j \in DOMAIN a : j < i => a[j] \notin Names(b))
                  <=> i = k
        <4>1. DOMAIN a \subseteq Nat /\ k \in DOMAIN a
          BY <2>3
        <4>. QED  BY <2>3, <4>1
      <3>. QED  BY <2>3, <3>1 DEF FirstOverlap
    <2>5. a[k] \in Names(a) \cap Names(b)
      BY <1>1, <2>4
    <2>. QED  BY <1>3, <2>4, <2>5
  <1>. QED  BY <1>2, <1>3

\* The ranker is never pointed at a service, namespace or repo that only the
\* past incident had, nor at a blank, and is pointed at one where they share a
\* name and no blank (scopeHints, firstOverlap).
THEOREM RecallHintsAreShared == CallSpec => []HintsAreShared
  <1>. DEFINE Right(p, hint, f) ==
                LET common == Names(p.incident.scope[f]) \cap Names(cur.scope[f])
                IN  /\ hint \subseteq common \ {EmptyString}
                    /\ \A x, y \in hint : x = y
                    /\ hint = {} => common = {} \/ EmptyString \in common
  <1>1. ASSUME CallInv, Answered PROVE HintsAreShared
    <2>1. /\ past \in Seq(Investigation) /\ cur \in Incident /\ evidence = Investigate(past, cur)
          /\ \A j, k \in DOMAIN past : past[j].startedAt = past[k].startedAt => j = k
      BY <1>1, ListingsAssumption DEF CallInv, Answered
    <2>. SUFFICES ASSUME NEW m \in DOMAIN evidence
                  PROVE  LET p == CHOOSE p \in Names(past) : p.startedAt = evidence[m].at
                         IN  /\ Right(p, evidence[m].hints.service, "services")
                             /\ Right(p, evidence[m].hints.namespace, "namespaces")
                             /\ Right(p, evidence[m].hints.repo, "repos")
      BY DEF HintsAreShared
    <2>2. PICK k \in DOMAIN past : evidence[m] = Recalled(past[k], cur)
      BY <2>1, InvestigateRecalls DEF Names
    <2>3. (CHOOSE p \in Names(past) : p.startedAt = evidence[m].at) = past[k]
      <3>1. evidence[m].at = past[k].startedAt /\ past[k] \in Names(past)
        BY <2>2 DEF Recalled, Names
      <3>2. \A p \in Names(past) : p.startedAt = past[k].startedAt => p = past[k]
        BY <2>1 DEF Names
      <3>. QED  BY <3>1, <3>2
    <2>4. past[k].incident \in Incident
      <3>1. past[k] \in Investigation
        BY <2>1
      <3>. QED  BY <3>1 DEF Investigation
    <2>5. ASSUME NEW f \in ScopeField
          PROVE  Right(past[k], Hint(past[k].incident.scope[f], cur.scope[f]), f)
      <3>1. past[k].incident.scope[f] \in Seq(Names(past[k].incident.scope[f]))
        BY <2>4, ScopeAssumption
      <3>. DEFINE shared == Names(past[k].incident.scope[f]) \cap Names(cur.scope[f])
                  first == FirstOverlap(past[k].incident.scope[f], cur.scope[f])
      <3>2. IF shared = {} THEN first = {} ELSE \E n \in shared : first = {n}
        BY <3>1, OverlapIsShared
      <3>. QED  BY <3>2 DEF Hint
    <2>6. evidence[m].hints =
            [service   |-> Hint(past[k].incident.scope["services"], cur.scope["services"]),
             namespace |-> Hint(past[k].incident.scope["namespaces"], cur.scope["namespaces"]),
             repo      |-> Hint(past[k].incident.scope["repos"], cur.scope["repos"])]
      BY <2>2 DEF Recalled, ScopeHints
    <2>7. /\ Right(past[k], evidence[m].hints.service, "services")
          /\ Right(past[k], evidence[m].hints.namespace, "namespaces")
          /\ Right(past[k], evidence[m].hints.repo, "repos")
      <3>1. /\ evidence[m].hints.service
                  = Hint(past[k].incident.scope["services"], cur.scope["services"])
            /\ evidence[m].hints.namespace
                  = Hint(past[k].incident.scope["namespaces"], cur.scope["namespaces"])
            /\ evidence[m].hints.repo
                  = Hint(past[k].incident.scope["repos"], cur.scope["repos"])
        BY <2>6
      <3>2. /\ "services" \in ScopeField /\ "namespaces" \in ScopeField
            /\ "repos" \in ScopeField
        BY DEF ScopeField
      <3>. HIDE DEF Right
      <3>. QED  BY <2>5, <3>1, <3>2
    <2>. HIDE DEF Right
    <2>. QED  BY <2>3, <2>7
  <1>2. CallInv => HintsAreShared
    BY <1>1 DEF HintsAreShared
  <1>. QED  BY <1>2, CallInvariant, PTL
=============================================================================
