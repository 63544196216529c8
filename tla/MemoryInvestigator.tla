------------------------- MODULE MemoryInvestigator -------------------------
(***************************************************************************)
(* internal/investigators/memory/memory.go: the evidence a new incident    *)
(* gets from past investigations.  Scores are kept exact, as fractions     *)
(* num/den; the source's constants 0.7, 0.3, 0.3 and 0.8 are 7/10, 3/10,   *)
(* 3/10 and 8/10.                                                          *)
(* Here an incident is [id, scope, summary] and a scope maps each of       *)
(* ScopeField to a sequence of names, the first of them preferred.         *)
(***************************************************************************)
EXTENDS Integers, Investigations, StableSort

CONSTANTS
    TopK,           \* defaultTopK
    LookbackLimit,  \* lookbackLimit
    EmptyString     \* "", as a summary or as a name (manual.go keeps blank names)
ASSUME TopKAssumption == TopK \in Nat \ {0}
ASSUME LookbackAssumption == LookbackLimit \in Nat \ {0}

ScopeField == {"services", "namespaces", "clusters", "repos"}

Names(seq) == {seq[k] : k \in DOMAIN seq}

ASSUME ScopeAssumption ==
    \A i \in Incident : \A f \in ScopeField : i.scope[f] \in Seq(Names(i.scope[f]))

ScopeSet(scope) == UNION {{f} \X Names(scope[f]) : f \in ScopeField}

SameSignal(past, cur) == past.summary # EmptyString /\ past.summary = cur.summary

\* 0.7 * jaccard + 0.3 * signal, the jaccard of two empty scopes being 0.
SimilarityScore(past, cur) ==
    LET inter == Cardinality(ScopeSet(past.scope) \cap ScopeSet(cur.scope))
        union == Cardinality(ScopeSet(past.scope) \cup ScopeSet(cur.scope))
        signal == IF SameSignal(past, cur) THEN 3 ELSE 0
    IN  IF union = 0 THEN [num |-> signal, den |-> 10]
        ELSE [num |-> 7 * inter + signal * union, den |-> 10 * union]

LessScore(a, b) == a.num * b.den < b.num * a.den

MinScore == [num |-> 3, den |-> 10]
MaxMemoryConfidence == [num |-> 8, den |-> 10]

CapConfidence(s) == IF LessScore(MaxMemoryConfidence, s) THEN MaxMemoryConfidence ELSE s

\* Mutant of FirstOverlap: the past incident's preferred name, shared or not.
FirstOfPast(a, b) == {a[k] : k \in {k \in DOMAIN a : k = 1}}

\* The first name of a that b holds too, if there is one.
FirstOverlap(a, b) ==
    {a[k] : k \in {k \in DOMAIN a : /\ a[k] \in Names(b)
                                    /\ \A j \in DOMAIN a : j < k => a[j] \notin Names(b)}}

\* A shared blank is no hint, but as the first overlap it hides the names after.
Hint(a, b) == FirstOverlap(a, b) \ {EmptyString}

\* Clusters give no hint, and no pod is ever stamped.
ScopeHints(past, cur) ==
    [service   |-> Hint(past.scope.services, cur.scope.services),
     namespace |-> Hint(past.scope.namespaces, cur.scope.namespaces),
     repo      |-> Hint(past.scope.repos, cur.scope.repos)]

Recalled(p, inc) ==
    [source     |-> "memory",
     past       |-> IdOf(p),
     fix        |-> p.resolution,
     at         |-> p.startedAt,
     confidence |-> CapConfidence(SimilarityScore(p.incident, inc)),
     hints      |-> ScopeHints(p.incident, inc)]

\* Mutants of IsHit: the threshold itself is not enough, and an incident
\* remembers its own earlier run.
IsHitAbove(p, inc) ==
    IdOf(p) # inc.id /\ LessScore(MinScore, SimilarityScore(p.incident, inc))
IsHitItself(p, inc) == ~LessScore(SimilarityScore(p.incident, inc), MinScore)

IsHit(p, inc) ==
    IdOf(p) # inc.id /\ ~LessScore(SimilarityScore(p.incident, inc), MinScore)

\* Mutant of Investigate: the first TopK hits, not the best.
InvestigateUnsorted(past, inc) ==
    LET Hit(p) == IsHit(p, inc)
        top == Truncate(Selected(past, Hit), TopK)
    IN  [k \in DOMAIN top |-> Recalled(top[k], inc)]

\* past is what List(LookbackLimit) returned.
Investigate(past, inc) ==
    LET Hit(p) == IsHit(p, inc)
        Better(p, q) == LessScore(SimilarityScore(q.incident, inc),
                                  SimilarityScore(p.incident, inc))
        top == Truncate(SliceStable(Selected(past, Hit), Better), TopK)
    IN  [k \in DOMAIN top |-> Recalled(top[k], inc)]
=============================================================================
