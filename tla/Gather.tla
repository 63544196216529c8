------------------------------- MODULE Gather -------------------------------
(***************************************************************************)
(* What internal/investigator/investigator.go promises the engine: every   *)
(* investigator answers once, in any order, and then the engine gets all   *)
(* their evidence as one chronological list which does not depend on the   *)
(* order they answered in.  There are no goroutines, slots or WaitGroup in *)
(* it; FanOut implements it.                                               *)
(***************************************************************************)
EXTENDS Integers, Sequences, FiniteSets, SequencesExt, StableSort

CONSTANTS
    N,        \* number of investigators; RunAll numbers them in slice order
    Results,  \* i |-> the Results investigator i may return
    Pending   \* no answer yet
ASSUME NAssumption == N \in Nat

Investigators == 1..N

Result == UNION {Results[i] : i \in Investigators}

ASSUME PendingAssumption == Pending \notin Result
\* Whatever an investigator returns, its evidence is a list of dated items.
ASSUME ResultsAssumption ==
    \A r \in Result :
        /\ r.evidence \in Seq({r.evidence[m] : m \in DOMAIN r.evidence})
        /\ \A m \in DOMAIN r.evidence : r.evidence[m].at \in Int

\* Mutant of Flatten: the final sort is forgotten.
FlattenUnsorted(rs) == FlattenSeq([i \in Investigators |-> rs[i].evidence])

\* Evidence is kept even from an investigator that also returned an error.
Flatten(rs) ==
    LET Before(a, b) == a.at < b.at
    IN  SliceStable(FlattenSeq([i \in Investigators |-> rs[i].evidence]), Before)

VARIABLES answer,   \* i |-> what investigator i answered, or Pending
          out       \* the flattened evidence, or Pending

vars == <<answer, out>>

Init == answer = [i \in Investigators |-> Pending] /\ out = Pending

Answer(i) ==
    /\ answer[i] = Pending
    /\ \E r \in Results[i] : answer' = [answer EXCEPT ![i] = r]
    /\ UNCHANGED out

Join ==
    /\ out = Pending
    /\ \A i \in Investigators : answer[i] # Pending
    /\ out' = Flatten(answer)
    /\ UNCHANGED answer

Next == Join \/ \E i \in Investigators : Answer(i)

Spec == Init /\ [][Next]_vars
=============================================================================
