--------------------------- MODULE LLMRankerProofs ---------------------------
(***************************************************************************)
(* The narration loop and the Slack message of what it returns, proved for *)
(* every ranking, TopN and timeout.  That the loop keeps to its budget is  *)
(* not inductive: what must be known is that the seconds spent are covered *)
(* by the calls made so far, a full CallLimit for each that is over and    *)
(* the seconds waited for the one that is out.                             *)
(***************************************************************************)
EXTENDS Report, ListProofs, SequenceTheorems, TLAPS

\* The timeout of one narration, as it is configured or by default.
Configured == IF Timeout <= 0 THEN DefaultTimeout ELSE Timeout

\* The calls made so far pay for the seconds spent.
Covered == spent <= (i - 1) * CallLimit + (IF pc = "calling" THEN waited ELSE 0)

\* A call is out only for a hypothesis that is to be narrated.
CallsNarrated == pc = "calling" => i <= Narrated

\* Hypotheses the loop has not come to are as the inner ranker left them.
Untouched == \A k \in DOMAIN inner : k >= i => hs[k] = inner[k]

\* Every hypothesis a ranking may hold, and what a narration makes of one.
Given == UNION {{r[k] : k \in DOMAIN r} : r \in InnerRankings}
Told(h, text) == [h EXCEPT !.reasoning = [about |-> h.summary, text |-> text]]
Hypotheses == Given \cup {Told(h, text) : h \in Given, text \in Text}

\* Both rankings are sequences of hypotheses, of one length.
Rankings ==
    /\ inner \in InnerRankings
    /\ inner \in Seq(Given)
    /\ hs \in Seq(Hypotheses)

IInv == TypeOK /\ Rankings /\ Covered /\ CallsNarrated /\ Untouched /\ OnlyProseChanges

\* The deadline of a call is a whole number of seconds, and no later than the
\* configured one (narrate, openai.New).
LEMMA CallLimitBounded == CallLimit \in Nat /\ Configured \in Nat /\ CallLimit <= Configured
  <1>1. Configured \in Nat /\ ClientTimeout \in Nat
    BY TimeoutAssumption DEF Configured, DefaultTimeout, ClientTimeout
  <1>2. \A a, b \in Nat : Min({a, b}) \in {a, b} /\ Min({a, b}) <= a
    BY DEF Min
  <1>3. CallLimit = Min({Configured, ClientTimeout})
    BY DEF CallLimit, Configured
  <1>. QED  BY <1>1, <1>2, <1>3

\* What the loop narrates is a prefix of the ranking (Rank's n).
LEMMA NarratedBounded ==
  ASSUME TypeOK, Rankings
  PROVE  Narrated \in Nat /\ Narrated <= Len(hs) /\ (TopN > 0 => Narrated <= TopN)
  BY NarrateTopNAssumption DEF Rankings, Narrated

\* A ranking is a sequence of hypotheses it may hold.
LEMMA RankingIsSeq == \A r \in InnerRankings : r \in Seq(Given)
  <1>. SUFFICES ASSUME NEW r \in InnerRankings PROVE r \in Seq(Given)
    OBVIOUS
  <1>1. r \in Seq({r[k] : k \in DOMAIN r})
    BY RankingsAssumption
  <1>2. {r[k] : k \in DOMAIN r} \subseteq Given
    BY DEF Given
  <1>. QED  BY <1>1, <1>2

\* Writing a narrative and taking it back leaves the hypothesis as it was.
LEMMA ToldAndUntold ==
  ASSUME NEW h \in Given, NEW text \in Text
  PROVE  /\ [Told(h, text) EXCEPT !.reasoning = h.reasoning] = h
         /\ Told(h, text).reasoning \in [about : {h.summary}, text : Text]
  <1>1. PICK r \in InnerRankings : \E k \in DOMAIN r : h = r[k]
    BY DEF Given
  <1>2. h = [field \in DOMAIN h |-> h[field]] /\ "reasoning" \in DOMAIN h
    BY <1>1, RankingsAssumption
  <1>. QED  BY <1>2 DEF Told

LEMMA InitHolds == Init => IInv
  <1>. SUFFICES ASSUME Init PROVE IInv
    OBVIOUS
  <1>1. inner \in Seq(Given) /\ hs = inner /\ inner \in InnerRankings
    BY RankingIsSeq DEF Init
  <1>2. Rankings
    <2>1. hs \in Seq(Hypotheses)
      BY <1>1 DEF Hypotheses
    <2>. QED  BY <1>1, <2>1 DEF Rankings
  <1>3. Narrated \in Nat
    BY <1>1, NarrateTopNAssumption DEF Narrated
  <1>4. TypeOK
    <2>1. i = 1 /\ waited = 0 /\ spent = 0 /\ pc = "loop" /\ cancelled = FALSE
      BY DEF Init
    <2>2. i \in 1..(Narrated + 1)
      BY <1>3, <2>1
    <2>3. waited \in 0..CallLimit
      BY <2>1, CallLimitBounded
    <2>. QED  BY <1>1, <2>1, <2>2, <2>3 DEF TypeOK
  <1>5. Covered
    BY CallLimitBounded DEF Covered, Init
  <1>6. CallsNarrated /\ Untouched /\ OnlyProseChanges
    BY <1>1 DEF Init, CallsNarrated, Untouched, OnlyProseChanges
  <1>. QED  BY <1>2, <1>4, <1>5, <1>6 DEF IInv

\* The call that is out ends: its seconds fit in one more full CallLimit.
LEMMA CallCovered ==
  ASSUME IInv, pc = "calling", pc' = "loop", i' = i + 1, spent' = spent
  PROVE  Covered'
  <1>1. i \in Nat /\ i >= 1 /\ spent \in Nat /\ waited \in 0..CallLimit /\ CallLimit \in Nat
    BY CallLimitBounded, NarratedBounded DEF IInv, TypeOK
  <1>2. spent <= (i - 1) * CallLimit + waited
    BY DEF IInv, Covered
  <1>3. CallLimit' = CallLimit
    BY DEF CallLimit, ClientTimeout, DefaultTimeout
  <1>4. (i - 1) * CallLimit + CallLimit = i * CallLimit /\ (i - 1) * CallLimit \in Int
    BY <1>1
  <1>5. spent <= i * CallLimit
    BY <1>1, <1>2, <1>4
  <1>6. i' - 1 = i
    BY <1>1
  <1>. QED  BY <1>3, <1>5, <1>6, <1>1 DEF Covered

\* Send: a call goes out for the next hypothesis, with no second waited.
LEMMA SendHolds == IInv /\ Send => IInv'
  <1>. SUFFICES ASSUME IInv, Send PROVE IInv'
    OBVIOUS
  <1>1. UNCHANGED <<inner, hs, i, spent, cancelled>> /\ pc = "loop" /\ pc' = "calling"
          /\ waited' = 0 /\ i <= Narrated
    BY DEF Send
  <1>2. Narrated' = Narrated /\ CallLimit' = CallLimit
    BY <1>1 DEF Narrated, CallLimit, ClientTimeout, DefaultTimeout
  <1>3. TypeOK'
    BY <1>1, <1>2, CallLimitBounded DEF IInv, TypeOK
  <1>4. Covered'
    BY <1>1, <1>2 DEF IInv, Covered
  <1>5. Rankings' /\ CallsNarrated' /\ Untouched' /\ OnlyProseChanges'
    BY <1>1, <1>2 DEF IInv, Rankings, CallsNarrated, Untouched, OnlyProseChanges
  <1>. QED  BY <1>3, <1>4, <1>5 DEF IInv

\* Narrate: hypothesis i, untouched until now, is told anew.
LEMMA NarrateHolds == IInv /\ Narrate => IInv'
  <1>. SUFFICES ASSUME IInv, Narrate PROVE IInv'
    OBVIOUS
  <1>1. PICK text \in Text :
          hs' = [hs EXCEPT ![i].reasoning = [about |-> hs[i].summary, text |-> text]]
    BY DEF Narrate
  <1>2. UNCHANGED <<inner, waited, spent, cancelled>> /\ pc = "calling" /\ pc' = "loop"
          /\ i' = i + 1
    BY DEF Narrate, Advance
  <1>3. Narrated \in Nat /\ Narrated <= Len(hs) /\ (TopN > 0 => Narrated <= TopN)
    BY NarratedBounded DEF IInv
  <1>4. i \in Nat /\ i >= 1 /\ i <= Narrated
    BY <1>2, <1>3 DEF IInv, TypeOK, CallsNarrated
  <1>5. /\ inner \in Seq(Given) /\ hs \in Seq(Hypotheses) /\ Len(hs) = Len(inner)
        /\ DOMAIN hs = 1..Len(hs) /\ DOMAIN inner = 1..Len(hs)
    BY DEF IInv, Rankings, TypeOK
  <1>6. i \in DOMAIN inner /\ hs[i] = inner[i] /\ inner[i] \in Given
    BY <1>3, <1>4, <1>5 DEF IInv, Untouched
  <1>7. hs' = [hs EXCEPT ![i] = Told(inner[i], text)] /\ Told(inner[i], text) \in Hypotheses
    BY <1>1, <1>6 DEF Told, Hypotheses
  <1>8. hs' \in Seq(Hypotheses) /\ Len(hs') = Len(hs)
    <2>1. i \in 1..Len(hs)
      BY <1>5, <1>6
    <2>. QED  BY <1>5, <1>7, <2>1, ExceptSeq
  <1>9. Narrated' = Narrated /\ CallLimit' = CallLimit
    BY <1>8 DEF Narrated, CallLimit, ClientTimeout, DefaultTimeout
  <1>10. TypeOK'
    BY <1>2, <1>3, <1>4, <1>8, <1>9 DEF IInv, TypeOK
  <1>11. Rankings'
    BY <1>2, <1>8 DEF IInv, Rankings
  <1>12. Covered'
    BY <1>2, CallCovered
  <1>13. CallsNarrated'
    BY <1>2 DEF CallsNarrated
  <1>14. Untouched'
    BY <1>2, <1>4, <1>5, <1>7 DEF IInv, Untouched
  <1>15. OnlyProseChanges'
    <2>1. inner' = inner /\ DOMAIN inner' = DOMAIN inner
      BY <1>2
    <2>2. ASSUME NEW k \in DOMAIN inner, k # i
          PROVE  hs'[k] = hs[k]
      BY <1>5, <1>7, <2>2
    <2>3. hs'[i] = Told(inner[i], text)
      BY <1>5, <1>6, <1>7
    <2>4. TopN = 0 \/ i <= TopN
      BY <1>3, <1>4, NarrateTopNAssumption
    <2>5. /\ [hs'[i] EXCEPT !.reasoning = inner[i].reasoning] = inner[i]
          /\ hs'[i].reasoning \in [about : {inner[i].summary}, text : Text]
      BY <1>6, <2>3, ToldAndUntold
    <2>. QED  BY <2>1, <2>2, <2>4, <2>5 DEF IInv, OnlyProseChanges
  <1>. QED  BY <1>10, <1>11, <1>12, <1>13, <1>14, <1>15 DEF IInv

\* Keep: the next hypothesis, and nothing is written.
LEMMA KeepHolds == IInv /\ Keep => IInv'
  <1>. SUFFICES ASSUME IInv, Keep PROVE IInv'
    OBVIOUS
  <1>1. UNCHANGED <<inner, hs, waited, spent, cancelled>> /\ pc = "calling" /\ pc' = "loop"
          /\ i' = i + 1
    BY DEF Keep, Advance
  <1>2. Narrated' = Narrated /\ CallLimit' = CallLimit
    BY <1>1 DEF Narrated, CallLimit, ClientTimeout, DefaultTimeout
  <1>3. Narrated \in Nat /\ i <= Narrated
    BY <1>1, NarratedBounded DEF IInv, CallsNarrated
  <1>4. TypeOK'
    BY <1>1, <1>2, <1>3 DEF IInv, TypeOK
  <1>5. Covered'
    BY <1>1, CallCovered
  <1>6. DOMAIN inner = 1..Len(inner) /\ Len(inner) \in Nat /\ i \in Nat
    BY <1>3 DEF IInv, TypeOK, Rankings
  <1>7. Untouched'
    BY <1>1, <1>6 DEF IInv, Untouched
  <1>8. Rankings' /\ CallsNarrated' /\ OnlyProseChanges'
    BY <1>1 DEF IInv, Rankings, CallsNarrated, OnlyProseChanges
  <1>. QED  BY <1>4, <1>5, <1>7, <1>8 DEF IInv

\* Tick: a second of the call that is out.
LEMMA TickHolds == IInv /\ Tick => IInv'
  <1>. SUFFICES ASSUME IInv, Tick PROVE IInv'
    OBVIOUS
  <1>1. UNCHANGED <<inner, hs, i, pc, cancelled>> /\ pc = "calling" /\ waited < CallLimit
          /\ waited' = waited + 1 /\ spent' = spent + 1
    BY DEF Tick
  <1>2. Narrated' = Narrated /\ CallLimit' = CallLimit
    BY <1>1 DEF Narrated, CallLimit, ClientTimeout, DefaultTimeout
  <1>3. TypeOK'
    BY <1>1, <1>2, CallLimitBounded DEF IInv, TypeOK
  <1>4. Covered'
    <2>1. i \in Int /\ spent \in Nat /\ waited \in Nat /\ (i - 1) * CallLimit \in Int
      BY CallLimitBounded, NarratedBounded DEF IInv, TypeOK
    <2>2. spent <= (i - 1) * CallLimit + waited
      BY <1>1 DEF IInv, Covered
    <2>3. spent' <= (i - 1) * CallLimit + waited'
      BY <1>1, <2>1, <2>2
    <2>. QED  BY <1>1, <1>2, <2>3 DEF Covered
  <1>5. Rankings' /\ CallsNarrated' /\ Untouched' /\ OnlyProseChanges'
    BY <1>1, <1>2 DEF IInv, Rankings, CallsNarrated, Untouched, OnlyProseChanges
  <1>. QED  BY <1>3, <1>4, <1>5 DEF IInv

\* Return, Cancel and a stutter touch nothing the budget or the prose is in.
LEMMA OthersHold == IInv /\ (Return \/ Cancel \/ UNCHANGED vars) => IInv'
  <1>. SUFFICES ASSUME IInv, Return \/ Cancel \/ UNCHANGED vars PROVE IInv'
    OBVIOUS
  <1>1. /\ UNCHANGED <<inner, hs, i, waited, spent>>
        /\ pc' = pc \/ (pc = "loop" /\ pc' = "returned")
        /\ cancelled' \in BOOLEAN
    BY DEF Return, Cancel, vars, IInv, TypeOK
  <1>2. Narrated' = Narrated /\ CallLimit' = CallLimit
    BY <1>1 DEF Narrated, CallLimit, ClientTimeout, DefaultTimeout
  <1>3. TypeOK'
    BY <1>1, <1>2 DEF IInv, TypeOK
  <1>4. Covered' /\ CallsNarrated'
    BY <1>1, <1>2 DEF IInv, Covered, CallsNarrated
  <1>5. Rankings' /\ Untouched' /\ OnlyProseChanges'
    BY <1>1 DEF IInv, Rankings, Untouched, OnlyProseChanges
  <1>. QED  BY <1>3, <1>4, <1>5 DEF IInv

LEMMA StepHolds == IInv /\ [Next]_vars => IInv'
  BY SendHolds, NarrateHolds, KeepHolds, TickHolds, OthersHold DEF Next

\* The loop is at most at its end, so the calls that are over are at most
\* Narrated, and no call takes longer than is configured.
LEMMA InvInBudget == IInv => WithinBudget
  <1>. SUFFICES ASSUME IInv PROVE WithinBudget
    OBVIOUS
  <1>1. /\ CallLimit \in Nat /\ Configured \in Nat /\ CallLimit <= Configured
        /\ Narrated \in Nat
    BY CallLimitBounded, NarratedBounded DEF IInv
  <1>2. i \in Nat /\ i >= 1 /\ i <= Narrated + 1 /\ spent \in Nat /\ waited \in 0..CallLimit
    BY <1>1 DEF IInv, TypeOK
  <1> DEFINE calls == IF pc = "calling" THEN i ELSE i - 1
  <1>3. calls \in Nat /\ calls <= Narrated
    BY <1>1, <1>2 DEF IInv, CallsNarrated
  <1>4. spent <= calls * CallLimit
    <2>1. CASE pc = "calling"
      <3>1. spent <= (i - 1) * CallLimit + waited
        BY <2>1 DEF IInv, Covered
      <3>2. (i - 1) * CallLimit + CallLimit = i * CallLimit /\ (i - 1) * CallLimit \in Int
        BY <1>1, <1>2
      <3>. QED  BY <1>1, <1>2, <2>1, <3>1, <3>2
    <2>2. CASE pc # "calling"
      <3>1. (i - 1) * CallLimit \in Int
        BY <1>1, <1>2
      <3>. QED  BY <1>2, <2>2, <3>1 DEF IInv, Covered
    <2>. QED  BY <2>1, <2>2
  <1>5. \A a, b, c, d \in Nat : a <= b /\ c <= d => a * c <= b * d
    OBVIOUS
  <1>6. calls * CallLimit <= Narrated * Configured
    <2>. HIDE DEF calls
    <2>. QED  BY <1>1, <1>3, <1>5
  <1>7. calls * CallLimit \in Nat /\ Narrated * Configured \in Nat
    <2>. HIDE DEF calls
    <2>. QED  BY <1>1, <1>3
  <1>8. spent <= Narrated * Configured
    <2>. HIDE DEF calls
    <2>. QED  BY <1>2, <1>4, <1>6, <1>7
  <1>. QED  BY <1>8 DEF WithinBudget, Configured

THEOREM Invariant == Spec => []IInv
  BY InitHolds, StepHolds, PTL DEF Spec

\* For every ranking, TopN and timeout, the loop stays inside the ranking and
\* no call outlives its deadline (LLMRanker.Rank, narrate).
THEOREM LLMTypeOK == Spec => []TypeOK
  <1>1. IInv => TypeOK
    BY DEF IInv
  <1>. QED  BY <1>1, Invariant, PTL

\* For every ranking and TopN, narrating changes the reasoning of the first
\* TopN hypotheses and nothing else (LLMRanker.Rank).
THEOREM LLMOnlyProseChanges == Spec => []OnlyProseChanges
  <1>1. IInv => OnlyProseChanges
    BY DEF IInv
  <1>. QED  BY <1>1, Invariant, PTL

\* For every TopN and timeout, narrating takes at most one configured timeout
\* per narrated hypothesis (narrate).
THEOREM LLMWithinBudget == Spec => []WithinBudget
  BY InvInBudget, Invariant, PTL
-----------------------------------------------------------------------------
(* The Slack message of a ranking. *)

\* c shows the first items of ev and counts the others.
Tells(c, ev) ==
    /\ DOMAIN c = {"type", "shown", "more"}
    /\ IsPrefix(c.shown, ev)
    /\ Len(c.shown) + c.more = Len(ev)

\* What TLA+ calls a sequence, of anything, is a slice.
LEMMA SeqIsList ==
  ASSUME NEW S, NEW s \in Seq(S)
  PROVE  IsList(s)
  <1>1. Len(s) \in Nat /\ DOMAIN s = 1..Len(s) /\ s = [k \in 1..Len(s) |-> s[k]]
    OBVIOUS
  <1>. QED  BY ONLY <1>1, ListMade

\* c is a, of length m, and then b, of length n.
AsJoined(c, a, b, m, n) ==
    /\ IsList(c) /\ Len(c) = m + n
    /\ \A k \in 1..m : c[k] = a[k]
    /\ \A k \in 1..n : c[m + k] = b[k]

\* Appending to a slice leaves what it has in place.
LEMMA Appended ==
  ASSUME NEW a, IsList(a), NEW b, IsList(b), NEW c, c = a \o b,
         NEW m, m = Len(a), NEW n, n = Len(b)
  PROVE  AsJoined(c, a, b, m, n)
  <1>1. PICK A, B : a \in Seq(A) /\ b \in Seq(B)
    BY DEF IsList
  <1>2. PICK D : D = A \cup B
    OBVIOUS
  <1>3. a \in Seq(D) /\ b \in Seq(D)
    BY <1>1, <1>2
  <1>4. /\ c \in Seq(D) /\ Len(c) = Len(a) + Len(b)
        /\ \A k \in 1..Len(a) : c[k] = a[k]
        /\ \A k \in 1..Len(b) : c[Len(a) + k] = b[k]
    BY <1>3
  <1>5. IsList(c)
    BY <1>4, SeqIsList
  <1>. QED  BY <1>4, <1>5 DEF AsJoined

\* A hypothesis is shown in one block, or in two if it has evidence
\* (hypothesisBody, evidenceContext).
LEMMA HypothesisHasBlocks ==
  ASSUME NEW rank, NEW h, IsList(h.evidence), NEW b, b = HypothesisBlocks(rank, h)
  PROVE  /\ IsList(b) /\ Len(b) = IF h.evidence = <<>> THEN 1 ELSE 2
         /\ b[1] = HypothesisBody(rank, h)
         /\ h.evidence # <<>> => Tells(b[2], h.evidence)
  <1>1. PICK ev : ev = h.evidence
    OBVIOUS
  <1>2. PICK body : body = HypothesisBody(rank, h)
    OBVIOUS
  <1>3. CASE ev = <<>>
    <2>1. b = <<body>>
      BY <1>1, <1>2, <1>3 DEF HypothesisBlocks, EvidenceContext
    <2>2. b \in Seq({body}) /\ Len(b) = 1 /\ b[1] = body
      BY <2>1
    <2>3. IsList(b)
      BY <2>2, SeqIsList
    <2>. QED  BY <1>1, <1>2, <1>3, <2>2, <2>3
  <1>4. CASE ev # <<>>
    <2>1. PICK shown : shown = Truncate(ev, MaxEvidence)
      OBVIOUS
    <2>2. PICK more : more = IF Len(ev) > MaxEvidence THEN Len(ev) - MaxEvidence ELSE 0
      OBVIOUS
    <2>3. PICK c : c = [type |-> "context", shown |-> shown, more |-> more]
      OBVIOUS
    <2>4. EvidenceContext(ev) = <<c>>
      BY <1>4, <2>1, <2>2, <2>3 DEF EvidenceContext
    <2>5. b = <<body>> \o <<c>>
      BY <1>1, <1>2, <2>4 DEF HypothesisBlocks
    <2>6. IsList(b) /\ Len(b) = 2 /\ b[1] = body /\ b[2] = c
      <3>1. <<body>> \in Seq({body, c}) /\ <<c>> \in Seq({body, c})
        OBVIOUS
      <3>2. b \in Seq({body, c}) /\ Len(b) = 2 /\ b[1] = body /\ b[2] = c
        BY <2>5, <3>1
      <3>. QED  BY <3>2, SeqIsList
    <2>7. PICK S : ev \in Seq(S)
      BY <1>1 DEF IsList
    <2>8. IsPrefix(shown, ev) /\ Len(shown) + more = Len(ev)
      BY <2>1, <2>2, <2>7 DEF Truncate, MaxEvidence, IsPrefix
    <2>9. Tells(c, ev)
      BY <2>3, <2>8 DEF Tells
    <2>. QED  BY <1>1, <1>2, <1>4, <2>6, <2>9
  <1>. QED  BY <1>3, <1>4

\* Where the blocks of each hypothesis are: at[r] is the place of the r-th
\* one's, among the blocks of all that are shown.
Laid(joined, top, at) ==
    /\ at \in [DOMAIN top -> 1..Len(joined)]
    /\ \A q, r \in DOMAIN top : q < r => at[q] < at[r]
    /\ \A r \in DOMAIN top :
          /\ joined[at[r]] = HypothesisBody(r, top[r])
          /\ top[r].evidence # <<>> =>
                at[r] + 1 \in 1..Len(joined) /\ Tells(joined[at[r] + 1], top[r].evidence)
    /\ \A k \in 1..Len(joined) :
          \/ \E r \in DOMAIN top : k = at[r]
          \/ \E ev : Tells(joined[k], ev)

\* The loop of buildPayload leaves the hypotheses in order, the evidence of
\* each right after it.
LEMMA BlocksAreLaid ==
  ASSUME NEW top, IsList(top), \A k \in DOMAIN top : IsList(top[k].evidence),
         NEW joined, joined = FlattenSeq([k \in DOMAIN top |-> HypothesisBlocks(k, top[k])])
  PROVE  IsList(joined) /\ \E at : Laid(joined, top, at)
  <1>1. PICK m \in Nat : m = Len(top) /\ DOMAIN top = 1..m
    BY ListShape
  <1>2. PICK lists : lists = [k \in 1..m |-> HypothesisBlocks(k, top[k])]
    OBVIOUS
  <1>3. ASSUME NEW k \in 1..m
        PROVE  /\ IsList(lists[k]) /\ Len(lists[k]) = IF top[k].evidence = <<>> THEN 1 ELSE 2
               /\ lists[k][1] = HypothesisBody(k, top[k])
               /\ top[k].evidence # <<>> => Tells(lists[k][2], top[k].evidence)
    <2>1. IsList(top[k].evidence) /\ lists[k] = HypothesisBlocks(k, top[k])
      BY <1>1, <1>2
    <2>. QED  BY <2>1, HypothesisHasBlocks
  <1>. DEFINE S == UNION {{lists[k][j] : j \in DOMAIN lists[k]} : k \in 1..m}
  <1>4. ASSUME NEW k \in 1..m PROVE lists[k] \in Seq(S)
    <2>1. \A j \in DOMAIN lists[k] : lists[k][j] \in S
      OBVIOUS
    <2>. HIDE DEF S
    <2>. QED  BY <1>3, <2>1, ListShape
  <1>5. lists \in Seq(Seq(S)) /\ Len(lists) = m
    <2>. HIDE DEF S
    <2>. QED  BY <1>2, <1>4
  <1>6. joined \in Seq(S) /\ \E spot : MetAt(spot, joined, lists, m)
    <2>1. joined = FlattenSeq(lists)
      BY <1>1, <1>2
    <2>. HIDE DEF S
    <2>. QED  BY <1>5, <2>1, FlattenMeetsAll
  <1>. HIDE DEF S
  <1>7. PICK spot : MetAt(spot, joined, lists, m)
    BY <1>6
  <1>8. PICK len \in Nat : len = Len(joined) /\ DOMAIN joined = 1..len
    BY <1>6
  <1>9. \A r, j : <<r, j>> \in Spots(lists) <=> r \in 1..m /\ j \in 1..Len(lists[r])
    <2>1. \A r \in 1..m : Len(lists[r]) \in Nat
      BY <1>3, ListShape
    <2>. QED  BY <1>5, <2>1 DEF Spots
  <1>10. \A x \in Spots(lists) : x = <<x[1], x[2]>> /\ x[1] \in 1..m
    BY <1>5 DEF Spots
  <1>11. ASSUME NEW k \in 1..len
         PROVE  /\ spot[k] = <<spot[k][1], spot[k][2]>> /\ spot[k][1] \in 1..m
                /\ spot[k][2] \in 1..Len(lists[spot[k][1]])
                /\ joined[k] = lists[spot[k][1]][spot[k][2]]
    <2>1. spot[k] \in Spots(lists) /\ joined[k] = lists[spot[k][1]][spot[k][2]]
      BY <1>7, <1>8 DEF MetAt
    <2>. QED  BY <1>9, <1>10, <2>1
  <1>12. ASSUME NEW r \in 1..m, NEW j \in 1..Len(lists[r])
         PROVE  \E k \in 1..len : spot[k] = <<r, j>>
    <2>1. <<r, j>> \in Spots(lists)
      BY <1>9
    <2>2. \A x \in Spots(lists) : x[1] <= m => \E k \in 1..len : spot[k] = x
      BY <1>7, <1>8 DEF MetAt
    <2>. QED  BY <2>1, <2>2
  <1>13. \A j, k \in 1..len : j < k => Sooner(spot[j], spot[k])
    BY <1>7, <1>8 DEF MetAt
  <1>14. PICK at : at = [r \in 1..m |-> CHOOSE k \in 1..len : spot[k] = <<r, 1>>]
    OBVIOUS
  <1>15. ASSUME NEW r \in 1..m
         PROVE  at[r] \in 1..len /\ spot[at[r]] = <<r, 1>>
    <2>1. 1 \in 1..Len(lists[r])
      BY <1>3
    <2>2. \E k \in 1..len : spot[k] = <<r, 1>>
      BY <1>12, <2>1
    <2>. QED  BY <1>14, <2>2
  <1>16. ASSUME NEW j \in 1..len, NEW k \in 1..len, ~(j < k) PROVE ~Sooner(spot[j], spot[k])
    <2>1. j = k \/ k < j
      BY <1>16
    <2>2. CASE j = k
      <3>1. spot[j][1] \in Int /\ spot[j][2] \in Int
        <4>1. spot[j][1] \in 1..m /\ spot[j][2] \in 1..Len(lists[spot[j][1]])
          BY <1>11
        <4>. QED  BY <4>1
      <3>. QED  BY <2>2, <3>1 DEF Sooner
    <2>3. CASE k < j
      <3>1. Sooner(spot[k], spot[j])
        BY <1>13, <2>3
      <3>2. /\ spot[j][1] \in Int /\ spot[j][2] \in Int
            /\ spot[k][1] \in Int /\ spot[k][2] \in Int
        <4>1. /\ spot[j][1] \in 1..m /\ spot[j][2] \in 1..Len(lists[spot[j][1]])
              /\ spot[k][1] \in 1..m /\ spot[k][2] \in 1..Len(lists[spot[k][1]])
          BY <1>11
        <4>. QED  BY <4>1
      <3>. QED  BY <3>1, <3>2 DEF Sooner
    <2>. QED  BY <2>1, <2>2, <2>3
  <1>17. ASSUME NEW q \in 1..m, NEW r \in 1..m, q < r PROVE at[q] < at[r]
    <2>1. Sooner(spot[at[q]], spot[at[r]])
      BY <1>15, <1>17 DEF Sooner
    <2>. QED  BY <1>15, <1>16, <2>1
  <1>18. ASSUME NEW r \in 1..m PROVE joined[at[r]] = HypothesisBody(r, top[r])
    <2>1. joined[at[r]] = lists[r][1]
      BY <1>11, <1>15
    <2>. QED  BY <1>3, <2>1
  <1>19. ASSUME NEW r \in 1..m, top[r].evidence # <<>>
         PROVE  at[r] + 1 \in 1..len /\ Tells(joined[at[r] + 1], top[r].evidence)
    <2>1. 2 \in 1..Len(lists[r])
      BY <1>3, <1>19
    <2>2. PICK k \in 1..len : spot[k] = <<r, 2>>
      BY <1>12, <2>1
    <2>3. PICK a \in 1..len : a = at[r] /\ spot[a] = <<r, 1>>
      BY <1>15
    <2>4. a < k
      <3>1. Sooner(spot[a], spot[k])
        BY <2>2, <2>3 DEF Sooner
      <3>. QED  BY <1>16, <3>1
    <2>5. a + 1 \in 1..len
      BY <2>4
    <2>6. k = a + 1
      <3>1. SUFFICES ASSUME a + 1 < k PROVE FALSE
        BY <2>4
      <3>2. Sooner(spot[a], spot[a + 1]) /\ Sooner(spot[a + 1], spot[k])
        BY <1>13, <2>5, <3>1
      <3>3. PICK x, y : x = spot[a + 1][1] /\ y = spot[a + 1][2]
        OBVIOUS
      <3>4. x \in Int /\ y \in Int
        <4>1. x \in 1..m /\ y \in 1..Len(lists[x])
          BY <1>11, <2>5, <3>3
        <4>. QED  BY <4>1
      <3>5. r < x \/ (r = x /\ 1 < y)
        BY <2>3, <3>2, <3>3 DEF Sooner
      <3>6. x < r \/ (x = r /\ y < 2)
        BY <2>2, <3>2, <3>3 DEF Sooner
      <3>. QED  BY <3>4, <3>5, <3>6
    <2>7. joined[k] = lists[r][2]
      BY <1>11, <2>2
    <2>. QED  BY <1>3, <1>19, <2>3, <2>5, <2>6, <2>7
  <1>20. ASSUME NEW k \in 1..len
         PROVE  (\E r \in 1..m : k = at[r]) \/ \E ev : Tells(joined[k], ev)
    <2>1. PICK r, j : r = spot[k][1] /\ j = spot[k][2]
      OBVIOUS
    <2>2. /\ spot[k] = <<r, j>> /\ r \in 1..m /\ j \in 1..Len(lists[r])
          /\ joined[k] = lists[r][j]
      BY <1>11, <2>1
    <2>3. CASE j = 1
      <3>1. spot[at[r]] = spot[k] /\ at[r] \in 1..len
        BY <1>15, <2>2, <2>3
      <3>2. ~Sooner(spot[k], spot[k])
        BY <1>16
      <3>3. k = at[r]
        <4>1. ~(k < at[r]) /\ ~(at[r] < k)
          BY <1>13, <3>1, <3>2
        <4>. QED  BY <3>1, <4>1
      <3>. QED  BY <2>2, <3>3
    <2>4. CASE j # 1
      <3>1. top[r].evidence # <<>> /\ j = 2
        BY <1>3, <2>2, <2>4
      <3>. QED  BY <1>3, <2>2, <3>1
    <2>. QED  BY <2>3, <2>4
  <1>21. at \in [1..m -> 1..len]
    BY <1>14, <1>15
  <1>22. Laid(joined, top, at)
    BY <1>1, <1>8, <1>17, <1>18, <1>19, <1>20, <1>21 DEF Laid
  <1>23. IsList(joined)
    BY <1>6, SeqIsList
  <1>. QED  BY <1>22, <1>23

\* The kinds of blocks are told apart by their fields.
LEMMA BlockFields ==
  /\ IsList(Heading) /\ Len(Heading) = 3
  /\ \A k \in 1..3 : DOMAIN Heading[k] = {"type"}
  /\ DOMAIN NoHypotheses = {"type", "text"}
  /\ \A rank, h : DOMAIN HypothesisBody(rank, h) = {"type", "rank", "summary", "reasoning"}
  /\ \A rank, h : /\ HypothesisBody(rank, h).rank = rank
                  /\ HypothesisBody(rank, h).summary = h.summary
                  /\ HypothesisBody(rank, h).reasoning = h.reasoning
  <1>1. PICK a, b, c : /\ a = [type |-> "header"] /\ b = [type |-> "section"]
                       /\ c = [type |-> "divider"]
    OBVIOUS
  <1>2. Heading = <<a, b, c>>
    BY <1>1 DEF Heading
  <1>3. Heading \in Seq({a, b, c}) /\ Len(Heading) = 3
    BY <1>2
  <1>4. Heading[1] = a /\ Heading[2] = b /\ Heading[3] = c
    BY <1>2
  <1>5. IsList(Heading)
    BY <1>3, SeqIsList
  <1>6. DOMAIN a = {"type"} /\ DOMAIN b = {"type"} /\ DOMAIN c = {"type"}
    BY <1>1
  <1>7. \A k \in 1..3 : DOMAIN Heading[k] = {"type"}
    <2>1. \A k \in 1..3 : k = 1 \/ k = 2 \/ k = 3
      OBVIOUS
    <2>. QED  BY <1>4, <1>6, <2>1
  <1>. QED  BY <1>3, <1>5, <1>7 DEF NoHypotheses, HypothesisBody

\* How many are left out is said at the end, if any are.
LEMMA OmittedIsLast ==
  ASSUME NEW n \in Nat, NEW t, t = Omitted(n)
  PROVE  /\ IsList(t) /\ Len(t) = IF n = 0 THEN 0 ELSE 1
         /\ n # 0 => DOMAIN t[1] = {"type", "omitted"} /\ t[1].omitted = n
  <1>1. CASE n = 0
    <2>1. t = <<>>
      BY <1>1 DEF Omitted
    <2>2. t \in Seq({}) /\ Len(t) = 0
      BY <2>1
    <2>3. IsList(t)
      BY <2>2, SeqIsList
    <2>. QED  BY <1>1, <2>2, <2>3
  <1>2. CASE n # 0
    <2>1. PICK c : c = [type |-> "context", omitted |-> n]
      OBVIOUS
    <2>2. t = <<c>>
      BY <1>2, <2>1 DEF Omitted
    <2>3. t \in Seq({c}) /\ Len(t) = 1 /\ t[1] = c
      BY <2>2
    <2>4. IsList(t)
      BY <2>3, SeqIsList
    <2>. QED  BY <1>2, <2>1, <2>3, <2>4
  <1>. QED  BY <1>1, <1>2

\* The message of a ranking h: where its first m hypotheses are, and what
\* else is in it.
Payload(blocks, h, m, at) ==
    /\ at \in [1..m -> DOMAIN blocks]
    /\ \A q, r \in 1..m : q < r => at[q] < at[r]
    /\ \A r \in 1..m :
          /\ blocks[at[r]] = HypothesisBody(r, h[r])
          /\ h[r].evidence # <<>> => /\ at[r] + 1 \in DOMAIN blocks
                                     /\ Tells(blocks[at[r] + 1], h[r].evidence)
    /\ \A k \in DOMAIN blocks :
          \/ \E r \in 1..m : k = at[r]
          \/ DOMAIN blocks[k] = {"type"}
          \/ DOMAIN blocks[k] = {"type", "shown", "more"}
          \/ /\ m < Len(h) /\ k = Len(blocks)
    /\ m < Len(h) => /\ Len(blocks) \in DOMAIN blocks
                     /\ DOMAIN blocks[Len(blocks)] = {"type", "omitted"}
                     /\ blocks[Len(blocks)].omitted = Len(h) - m

\* The cap, the loop and the count of what is omitted, put together
\* (buildPayload).
LEMMA PayloadIsLaid ==
  ASSUME NEW h, IsList(h), h # <<>>, \A k \in DOMAIN h : IsList(h[k].evidence),
         NEW m, m = (IF Len(h) > MaxHypotheses THEN MaxHypotheses ELSE Len(h)),
         NEW blocks, blocks = BuildPayload(h)
  PROVE  IsList(blocks) /\ \E at : Payload(blocks, h, m, at)
  <1>1. PICK n \in Nat : n = Len(h) /\ DOMAIN h = 1..n
    BY ListShape
  <1>2. PICK top : top = Truncate(h, MaxHypotheses)
    OBVIOUS
  <1>3. PICK U : h \in Seq(U)
    BY DEF IsList
  <1>4. /\ m \in Nat /\ m <= n /\ Len(top) = m /\ top \in Seq(U)
        /\ \A k \in 1..m : top[k] = h[k]
    BY <1>1, <1>2, <1>3 DEF Truncate, MaxHypotheses
  <1>5. DOMAIN top = 1..m /\ IsList(top)
    BY <1>4, SeqIsList
  <1>6. PICK joined : joined = FlattenSeq([k \in DOMAIN top |-> HypothesisBlocks(k, top[k])])
    OBVIOUS
  <1>7. PICK tail : tail = Omitted(n - m)
    OBVIOUS
  <1>8. blocks = (Heading \o joined) \o tail
    BY <1>1, <1>2, <1>4, <1>6, <1>7 DEF BuildPayload
  <1>9. IsList(joined) /\ \E at : Laid(joined, top, at)
    <2>1. \A k \in DOMAIN top : IsList(top[k].evidence)
      BY <1>1, <1>4, <1>5
    <2>. QED  BY <1>5, <1>6, <2>1, BlocksAreLaid
  <1>10. PICK laid : Laid(joined, top, laid)
    BY <1>9
  <1>11. PICK len \in Nat : len = Len(joined) /\ DOMAIN joined = 1..len
    BY <1>9, ListShape
  <1>12. /\ IsList(tail) /\ Len(tail) = IF n = m THEN 0 ELSE 1
         /\ n # m => DOMAIN tail[1] = {"type", "omitted"} /\ tail[1].omitted = n - m
    <2>1. n - m \in Nat /\ (n - m = 0 <=> n = m)
      BY <1>4
    <2>. QED  BY <1>7, <2>1, OmittedIsLast
  <1>13. PICK t \in {0, 1} : t = Len(tail) /\ (t = 1 <=> m < n)
    BY <1>4, <1>12
  <1>14. /\ IsList(blocks) /\ Len(blocks) = 3 + len + t /\ DOMAIN blocks = 1..(3 + len + t)
         /\ \A k \in 1..3 : blocks[k] = Heading[k]
         /\ \A k \in 1..len : blocks[3 + k] = joined[k]
         /\ t = 1 => blocks[3 + len + 1] = tail[1]
    <2>1. PICK shown : shown = Heading \o joined
      OBVIOUS
    <2>2. IsList(Heading) /\ Len(Heading) = 3
      BY BlockFields
    <2>3. AsJoined(shown, Heading, joined, 3, len)
      BY <1>9, <1>11, <2>1, <2>2, Appended
    <2>4. blocks = shown \o tail
      BY <1>8, <2>1
    <2>5. AsJoined(blocks, shown, tail, 3 + len, t)
      <3>1. IsList(shown) /\ 3 + len = Len(shown)
        BY <2>3 DEF AsJoined
      <3>. QED  BY <1>12, <1>13, <2>4, <3>1, Appended
    <2>6. IsList(blocks) /\ Len(blocks) = 3 + len + t
      BY <2>5 DEF AsJoined
    <2>7. DOMAIN blocks = 1..(3 + len + t)
      BY <2>6, ListShape
    <2>8. \A k \in 1..3 : blocks[k] = Heading[k]
      BY <2>3, <2>5 DEF AsJoined
    <2>9. \A k \in 1..len : blocks[3 + k] = joined[k]
      BY <2>3, <2>5 DEF AsJoined
    <2>10. t = 1 => blocks[3 + len + 1] = tail[1]
      BY <2>5 DEF AsJoined
    <2>. QED  BY <2>6, <2>7, <2>8, <2>9, <2>10
  <1>15. PICK at : at = [r \in 1..m |-> 3 + laid[r]]
    OBVIOUS
  <1>16. ASSUME NEW r \in 1..m
         PROVE  laid[r] \in 1..len /\ at[r] = 3 + laid[r]
    BY <1>5, <1>10, <1>11, <1>15 DEF Laid
  <1>17. ASSUME NEW r \in 1..m
         PROVE  at[r] \in DOMAIN blocks /\ blocks[at[r]] = joined[laid[r]]
    BY <1>14, <1>16
  <1>18. \A q, r \in 1..m : q < r => at[q] < at[r]
    <2>1. \A q, r \in 1..m : q < r => laid[q] < laid[r]
      BY <1>5, <1>10 DEF Laid
    <2>. QED  BY <1>16, <2>1
  <1>19. ASSUME NEW r \in 1..m
         PROVE  /\ blocks[at[r]] = HypothesisBody(r, h[r])
                /\ h[r].evidence # <<>> => /\ at[r] + 1 \in DOMAIN blocks
                                           /\ Tells(blocks[at[r] + 1], h[r].evidence)
    <2>1. joined[laid[r]] = HypothesisBody(r, h[r])
      BY <1>4, <1>5, <1>10 DEF Laid
    <2>2. ASSUME h[r].evidence # <<>>
          PROVE  at[r] + 1 \in DOMAIN blocks /\ Tells(blocks[at[r] + 1], h[r].evidence)
      <3>1. PICK a \in 1..len : a = laid[r] /\ at[r] = 3 + a
        BY <1>16
      <3>2. a + 1 \in 1..len /\ Tells(joined[a + 1], h[r].evidence)
        BY <1>4, <1>5, <1>10, <1>11, <2>2, <3>1 DEF Laid
      <3>3. at[r] + 1 = 3 + (a + 1)
        BY <3>1
      <3>. QED  BY <1>14, <3>2, <3>3
    <2>. QED  BY <1>17, <2>1, <2>2
  <1>20. ASSUME NEW k \in DOMAIN blocks
         PROVE  \/ \E r \in 1..m : k = at[r]
                \/ DOMAIN blocks[k] = {"type"}
                \/ DOMAIN blocks[k] = {"type", "shown", "more"}
                \/ m < Len(h) /\ k = Len(blocks)
    <2>1. k \in 1..3 \/ (\E j \in 1..len : k = 3 + j) \/ (t = 1 /\ k = 3 + len + 1)
      <3>1. k \in 1..(3 + len + t)
        BY <1>14
      <3>2. CASE 3 < k /\ k <= 3 + len
        <4>1. k - 3 \in 1..len /\ k = 3 + (k - 3)
          BY <3>1, <3>2
        <4>. QED  BY <4>1
      <3>. QED  BY <3>1, <3>2
    <2>2. CASE k \in 1..3
      BY <1>14, <2>2, BlockFields
    <2>3. ASSUME NEW j \in 1..len, k = 3 + j
          PROVE  (\E r \in 1..m : k = at[r]) \/ DOMAIN blocks[k] = {"type", "shown", "more"}
      <3>1. blocks[k] = joined[j]
        BY <1>14, <2>3
      <3>2. (\E r \in 1..m : j = laid[r]) \/ \E ev : Tells(joined[j], ev)
        BY <1>5, <1>10, <1>11 DEF Laid
      <3>3. CASE \E r \in 1..m : j = laid[r]
        BY <1>16, <2>3, <3>3
      <3>4. CASE \E ev : Tells(joined[j], ev)
        BY <3>1, <3>4 DEF Tells
      <3>. QED  BY <3>2, <3>3, <3>4
    <2>4. CASE t = 1 /\ k = 3 + len + 1
      BY <1>1, <1>13, <1>14, <2>4
    <2>. QED  BY <2>1, <2>2, <2>3, <2>4
  <1>21. m < Len(h) => /\ Len(blocks) \in DOMAIN blocks
                       /\ DOMAIN blocks[Len(blocks)] = {"type", "omitted"}
                       /\ blocks[Len(blocks)].omitted = Len(h) - m
    BY <1>1, <1>12, <1>13, <1>14
  <1>22. at \in [1..m -> DOMAIN blocks]
    BY <1>15, <1>17
  <1>23. Payload(blocks, h, m, at)
    BY <1>18, <1>19, <1>20, <1>21, <1>22 DEF Payload
  <1>. QED  BY <1>14, <1>23

\* The hypotheses of a message are told apart by their rank, and there are as
\* many before each as its rank says.
LEMMA RanksCount ==
  ASSUME NEW h, NEW n \in Nat, n = Len(h), NEW m \in Nat, m <= n,
         NEW blocks, IsList(blocks), NEW at, Payload(blocks, h, m, at)
  PROVE  /\ Ranks(blocks) = {at[r] : r \in 1..m}
         /\ Cardinality(Ranks(blocks)) = m
         /\ \A r \in 1..m : Cardinality({j \in Ranks(blocks) : j <= at[r]}) = r
  <1>1. PICK len \in Nat : len = Len(blocks) /\ DOMAIN blocks = 1..len
    BY ListShape
  <1>2. /\ at \in [1..m -> 1..len]
        /\ \A q, r \in 1..m : q < r => at[q] < at[r]
    BY <1>1 DEF Payload
  <1>3. \A r \in 1..m : at[r] \in DOMAIN blocks /\ "rank" \in DOMAIN blocks[at[r]]
    <2>1. \A r \in 1..m : blocks[at[r]] = HypothesisBody(r, h[r])
      BY DEF Payload
    <2>. QED  BY <1>1, <1>2, <2>1, BlockFields
  <1>4. ASSUME NEW k \in DOMAIN blocks, "rank" \in DOMAIN blocks[k]
        PROVE  \E r \in 1..m : k = at[r]
    <2>1. \/ \E r \in 1..m : k = at[r]
          \/ DOMAIN blocks[k] = {"type"}
          \/ DOMAIN blocks[k] = {"type", "shown", "more"}
          \/ DOMAIN blocks[k] = {"type", "omitted"}
      BY DEF Payload
    <2>. QED  BY <1>4, <2>1
  <1>5. Ranks(blocks) = {at[r] : r \in 1..m}
    BY <1>3, <1>4 DEF Ranks
  <1>6. \A r \in 1..m : at[r] \in Nat
    BY <1>2
  <1>7. ASSUME NEW r \in 0..m, NEW T, T = {at[q] : q \in 1..r}
        PROVE  Cardinality(T) = r
    <2>1. PICK f : f = [q \in 1..r |-> at[q]]
      OBVIOUS
    <2>2. r \in Nat /\ \A q \in 1..r : q \in 1..m /\ f[q] = at[q] /\ f[q] \in T
      BY <1>7, <2>1
    <2>3. f \in [1..r -> T]
      BY <2>1, <2>2
    <2>4. \A t \in T : \E q \in 1..r : f[q] = t
      BY <1>7, <2>2
    <2>5. \A j, k \in 1..r : j < k => f[j] # f[k]
      BY <1>2, <1>6, <2>2
    <2>. QED  BY <2>2, <2>3, <2>4, <2>5, ListedOnce
  <1>8. Cardinality(Ranks(blocks)) = m
    BY <1>5, <1>7
  <1>9. ASSUME NEW r \in 1..m
        PROVE  Cardinality({j \in Ranks(blocks) : j <= at[r]}) = r
    <2>1. \A q \in 1..m : at[q] <= at[r] <=> q <= r
      <3>1. \A q \in 1..m : q < r => at[q] < at[r]
        BY <1>2
      <3>2. \A q \in 1..m : r < q => at[r] < at[q]
        BY <1>2
      <3>. QED  BY <1>6, <3>1, <3>2
    <2>2. {j \in Ranks(blocks) : j <= at[r]} = {at[q] : q \in 1..r}
      BY <1>5, <2>1
    <2>. QED  BY <1>7, <2>2
  <1>. QED  BY <1>5, <1>8, <1>9

\* Narrating a hypothesis leaves it the summary and the evidence it had.
LEMMA NarrationKeeps ==
  ASSUME IInv, NEW k \in DOMAIN inner
  PROVE  /\ IsList(hs[k].evidence) /\ hs[k].evidence = inner[k].evidence
         /\ hs[k].summary = inner[k].summary
         /\ hs[k].reasoning.about = inner[k].summary
  <1>1. inner \in InnerRankings
    BY DEF IInv, Rankings
  <1>2. PICK h, g : h = hs[k] /\ g = inner[k]
    OBVIOUS
  <1>3. /\ "summary" \in DOMAIN g /\ "evidence" \in DOMAIN g
        /\ IsList(g.evidence) /\ g.reasoning.about = g.summary
    BY <1>1, <1>2, HypothesesAssumption
  <1>4. \/ h = g
        \/ [h EXCEPT !.reasoning = g.reasoning] = g /\ h.reasoning.about = g.summary
    BY <1>2 DEF IInv, OnlyProseChanges
  <1>5. CASE h = g
    BY <1>2, <1>3, <1>5
  <1>6. CASE [h EXCEPT !.reasoning = g.reasoning] = g /\ h.reasoning.about = g.summary
    <2>1. DOMAIN g = DOMAIN h
      BY <1>6
    <2>2. h.summary = g.summary /\ h.evidence = g.evidence
      BY <1>3, <1>6, <2>1
    <2>. QED  BY <1>2, <1>3, <1>6, <2>2
  <1>. QED  BY <1>4, <1>5, <1>6

\* buildPayload's early return.
LEMMA EmptyMessage ==
  ASSUME NEW blocks, blocks = BuildPayload(<<>>)
  PROVE  /\ Ranks(blocks) = {} /\ {k \in DOMAIN blocks : "omitted" \in DOMAIN blocks[k]} = {}
         /\ NoHypotheses \in ToSet(blocks)
  <1>1. PICK none : none = <<NoHypotheses>>
    OBVIOUS
  <1>2. none \in Seq({NoHypotheses}) /\ Len(none) = 1 /\ none[1] = NoHypotheses
    BY <1>1
  <1>3. IsList(none) /\ IsList(Heading) /\ Len(Heading) = 3
    BY <1>2, BlockFields, SeqIsList
  <1>4. blocks = Heading \o none
    BY <1>1 DEF BuildPayload
  <1>5. AsJoined(blocks, Heading, none, 3, 1)
    BY <1>2, <1>3, <1>4, Appended
  <1>6. DOMAIN blocks = 1..4
    BY <1>5, ListShape DEF AsJoined
  <1>7. blocks[4] = NoHypotheses /\ \A k \in 1..3 : DOMAIN blocks[k] = {"type"}
    BY <1>2, <1>5, BlockFields DEF AsJoined
  <1>8. \A k \in DOMAIN blocks : DOMAIN blocks[k] \in {{"type"}, {"type", "text"}}
    <2>1. \A k \in 1..4 : k = 4 \/ k \in 1..3
      OBVIOUS
    <2>. QED  BY <1>6, <1>7, <2>1, BlockFields
  <1>9. \A k \in DOMAIN blocks : "rank" \notin DOMAIN blocks[k] /\ "omitted" \notin DOMAIN blocks[k]
    BY <1>8
  <1>10. NoHypotheses \in ToSet(blocks)
    BY <1>6, <1>7 DEF ToSet
  <1>. QED  BY <1>9, <1>10 DEF Ranks

\* The r-th hypothesis of the message is the r-th of the inner ranking, but
\* for its reasoning; the rest is counting.
LEMMA InvTellsAll == IInv => SlackTellsAll
  <1>. SUFFICES ASSUME IInv PROVE SlackTellsAll
    OBVIOUS
  <1>1. PICK blocks : blocks = BuildPayload(hs)
    OBVIOUS
  <1>2. PICK omitted : omitted = {k \in DOMAIN blocks : "omitted" \in DOMAIN blocks[k]}
    OBVIOUS
  <1>3. /\ inner \in Seq(Given) /\ hs \in Seq(Hypotheses) /\ Len(hs) = Len(inner)
    BY DEF IInv, Rankings, TypeOK
  <1>4. PICK n \in Nat : n = Len(hs) /\ DOMAIN hs = 1..n /\ n = Len(inner) /\ DOMAIN inner = 1..n
    BY <1>3
  <1>5. inner = <<>> <=> hs = <<>>
    BY <1>3
  <1>. DEFINE After(k) == IF k < Len(blocks) THEN blocks[k + 1] ELSE blocks[k]
              Accounted(k) ==
                  /\ blocks[k].rank = Cardinality({j \in Ranks(blocks) : j <= k})
                  /\ blocks[k].summary = inner[blocks[k].rank].summary
                  /\ blocks[k].reasoning.about = inner[blocks[k].rank].summary
                  /\ inner[blocks[k].rank].evidence # <<>> =>
                        /\ IsPrefix(After(k).shown, inner[blocks[k].rank].evidence)
                        /\ Len(After(k).shown) + After(k).more
                              = Len(inner[blocks[k].rank].evidence)
  <1>6. SUFFICES /\ \A k \in Ranks(blocks) : Accounted(k)
                 /\ Len(inner) = Cardinality(Ranks(blocks))
                                     + (IF omitted = {} THEN 0 ELSE blocks[Max(omitted)].omitted)
                 /\ inner = <<>> <=> NoHypotheses \in ToSet(blocks)
    BY <1>1, <1>2 DEF SlackTellsAll
  <1>7. CASE hs = <<>>
    <2>1. /\ Ranks(blocks) = {} /\ omitted = {} /\ NoHypotheses \in ToSet(blocks)
      BY <1>1, <1>2, <1>7, EmptyMessage
    <2>2. Cardinality(Ranks(blocks)) = 0 /\ Len(inner) = 0
      BY <1>3, <1>7, <2>1, FS_EmptySet
    <2>. QED  BY <1>5, <1>7, <2>1, <2>2
  <1>8. CASE hs # <<>>
    <2>1. PICK m : m = IF Len(hs) > MaxHypotheses THEN MaxHypotheses ELSE Len(hs)
      OBVIOUS
    <2>2. m \in Nat /\ m <= n
      BY <1>4, <2>1 DEF MaxHypotheses
    <2>3. IsList(hs)
      BY <1>3, SeqIsList
    <2>4. IsList(blocks) /\ \E at : Payload(blocks, hs, m, at)
      <3>1. \A k \in DOMAIN hs : IsList(hs[k].evidence)
        BY <1>4, NarrationKeeps
      <3>. QED  BY <1>1, <1>8, <2>1, <2>3, <3>1, PayloadIsLaid
    <2>5. PICK at : Payload(blocks, hs, m, at)
      BY <2>4
    <2>6. /\ Ranks(blocks) = {at[r] : r \in 1..m}
          /\ Cardinality(Ranks(blocks)) = m
          /\ \A r \in 1..m : Cardinality({j \in Ranks(blocks) : j <= at[r]}) = r
      BY <1>4, <2>2, <2>4, <2>5, RanksCount
    <2>7. PICK len \in Nat : len = Len(blocks) /\ DOMAIN blocks = 1..len
      BY <2>4, ListShape
    <2>8. ASSUME NEW r \in 1..m PROVE Accounted(at[r])
      <3>1. PICK k : k = at[r]
        OBVIOUS
      <3>2. r \in DOMAIN inner /\ k \in 1..len
        BY <1>4, <2>2, <2>5, <2>7, <3>1 DEF Payload
      <3>3. PICK b, g : b = blocks[k] /\ g = inner[r]
        OBVIOUS
      <3>4. b = HypothesisBody(r, hs[r])
        BY <2>5, <3>1, <3>3 DEF Payload
      <3>5. b.rank = r /\ b.summary = g.summary /\ b.reasoning.about = g.summary
        BY <3>2, <3>3, <3>4, BlockFields, NarrationKeeps
      <3>6. ASSUME g.evidence # <<>>
            PROVE  IsPrefix(After(k).shown, g.evidence)
                   /\ Len(After(k).shown) + After(k).more = Len(g.evidence)
        <4>1. hs[r].evidence = g.evidence
          BY <3>2, <3>3, NarrationKeeps
        <4>2. k + 1 \in 1..len /\ Tells(blocks[k + 1], g.evidence)
          BY <2>5, <2>7, <3>1, <3>6, <4>1 DEF Payload
        <4>3. After(k) = blocks[k + 1]
          BY <2>7, <3>2, <4>2
        <4>. HIDE DEF After
        <4>. QED  BY <4>2, <4>3 DEF Tells
      <3>7. b.rank = Cardinality({j \in Ranks(blocks) : j <= k})
        BY <2>6, <3>1, <3>5
      <3>. HIDE DEF After
      <3>. QED  BY <3>1, <3>3, <3>5, <3>6, <3>7
    <2>9. Len(inner) = Cardinality(Ranks(blocks))
                           + (IF omitted = {} THEN 0 ELSE blocks[Max(omitted)].omitted)
      <3>1. CASE m < n
        <4>1. /\ len \in DOMAIN blocks /\ DOMAIN blocks[len] = {"type", "omitted"}
              /\ blocks[len].omitted = n - m
          BY <1>4, <2>5, <2>7, <3>1 DEF Payload
        <4>2. ASSUME NEW k \in DOMAIN blocks, k # len
              PROVE  "omitted" \notin DOMAIN blocks[k]
          <5>1. \/ \E r \in 1..m : k = at[r]
                \/ DOMAIN blocks[k] = {"type"}
                \/ DOMAIN blocks[k] = {"type", "shown", "more"}
            BY <2>5, <2>7, <4>2 DEF Payload
          <5>2. \A r \in 1..m : blocks[at[r]] = HypothesisBody(r, hs[r])
            BY <2>5 DEF Payload
          <5>. QED  BY <5>1, <5>2, BlockFields
        <4>3. omitted = {len}
          BY <1>2, <4>1, <4>2
        <4>4. Max(omitted) = len
          BY <4>3 DEF Max
        <4>. QED  BY <1>4, <2>2, <2>6, <3>1, <4>1, <4>3, <4>4
      <3>2. CASE m = n
        <4>1. ASSUME NEW k \in DOMAIN blocks
              PROVE  "omitted" \notin DOMAIN blocks[k]
          <5>1. \/ \E r \in 1..m : k = at[r]
                \/ DOMAIN blocks[k] = {"type"}
                \/ DOMAIN blocks[k] = {"type", "shown", "more"}
            BY <1>4, <2>5, <3>2 DEF Payload
          <5>2. \A r \in 1..m : blocks[at[r]] = HypothesisBody(r, hs[r])
            BY <2>5 DEF Payload
          <5>. QED  BY <5>1, <5>2, BlockFields
        <4>2. omitted = {}
          BY <1>2, <4>1
        <4>. QED  BY <1>4, <2>2, <2>6, <3>2, <4>2
      <3>. QED  BY <2>2, <3>1, <3>2
    <2>10. NoHypotheses \notin ToSet(blocks)
      <3>1. ASSUME NEW k \in DOMAIN blocks PROVE DOMAIN blocks[k] # {"type", "text"}
        <4>1. \/ \E r \in 1..m : k = at[r]
              \/ DOMAIN blocks[k] = {"type"}
              \/ DOMAIN blocks[k] = {"type", "shown", "more"}
              \/ DOMAIN blocks[k] = {"type", "omitted"}
          BY <2>5 DEF Payload
        <4>2. \A r \in 1..m : blocks[at[r]] = HypothesisBody(r, hs[r])
          BY <2>5 DEF Payload
        <4>3. "text" \notin DOMAIN blocks[k]
          BY <4>1, <4>2, BlockFields
        <4>. QED  BY <4>3
      <3>. QED  BY <3>1, BlockFields DEF ToSet
    <2>11. \A k \in Ranks(blocks) : Accounted(k)
      <3>. HIDE DEF Accounted
      <3>. QED  BY <2>6, <2>8
    <2>. QED  BY <1>5, <1>8, <2>9, <2>10, <2>11
  <1>. QED  BY <1>7, <1>8

\* For every ranking and whatever the model answers, the Slack message
\* accounts for the whole of it: the best hypotheses in order, each with its
\* own narrative and evidence, and a count of what is left out (buildPayload).
THEOREM ReportSlackTellsAll == Spec => []SlackTellsAll
  BY InvTellsAll, Invariant, PTL
=============================================================================
