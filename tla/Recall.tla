------------------------------- MODULE Recall -------------------------------
(***************************************************************************)
(* One call of the memory investigator's Investigate, on any listing of    *)
(* the store: MemoryInvestigator's operators against what they must mean.  *)
(***************************************************************************)
EXTENDS MemoryInvestigator

CONSTANT Listings   \* what the store's List may return, newest first

\* Every run has a time.Now() of its own, by which the properties tell the
\* investigations of one listing apart.
ASSUME ListingsAssumption ==
    \A l \in Listings :
        /\ l \in Seq(Investigation)
        /\ \A j, k \in DOMAIN l : l[j].startedAt = l[k].startedAt => j = k

VARIABLES past,      \* the listing
          cur,       \* the incident being investigated
          evidence   \* what Investigate returned, or NotFound before it does

callVars == <<past, cur, evidence>>

CallInit == past \in Listings /\ cur \in Incident /\ evidence = NotFound

Call ==
    /\ evidence = NotFound
    /\ evidence' = Investigate(past, cur)
    /\ UNCHANGED <<past, cur>>

CallSpec == CallInit /\ [][Call]_callVars

-----------------------------------------------------------------------------
(* What is checked. *)

Answered == evidence # NotFound

Shared(p) == Cardinality(ScopeSet(p.incident.scope) \cap ScopeSet(cur.scope))
Combined(p) == Cardinality(ScopeSet(p.incident.scope) \cup ScopeSet(cur.scope))

\* A past incident is recalled for its alert, whatever its scope, or for a
\* scope at least 3/7 the same, and never for itself: minScore, on the
\* weights 0.7 and 0.3, means exactly that (similarityScore, Investigate).
Candidate(p) ==
    /\ IdOf(p) # cur.id
    /\ \/ p.incident.summary = cur.summary /\ cur.summary # EmptyString
       \/ Combined(p) > 0 /\ 7 * Shared(p) >= 3 * Combined(p)

RecallsTheSimilar ==
    Answered =>
        LET candidates == {k \in DOMAIN past : Candidate(past[k])}
        IN  /\ Len(evidence) = IF Cardinality(candidates) < TopK
                               THEN Cardinality(candidates) ELSE TopK
            /\ \A m \in DOMAIN evidence : \E k \in candidates :
                  /\ evidence[m].past = IdOf(past[k])
                  /\ evidence[m].fix = past[k].resolution
                  /\ evidence[m].at = past[k].startedAt

\* Closer in alert first, then in scope.
Closeness(p) ==
    LET alert == IF p.incident.summary = cur.summary /\ cur.summary # EmptyString
                 THEN 3 ELSE 0
    IN  IF Combined(p) = 0 THEN <<alert, 1>>
        ELSE <<7 * Shared(p) + alert * Combined(p), Combined(p)>>

Closer(p, q) == Closeness(p)[1] * Closeness(q)[2] > Closeness(q)[1] * Closeness(p)[2]

\* The TopK kept are the best there were: none of those dropped is closer to
\* the incident than one kept, and among equals the newest are kept.
KeepsTheBest ==
    Answered =>
        \A k \in DOMAIN past :
            (Candidate(past[k]) /\ \A m \in DOMAIN evidence :
                    evidence[m].at # past[k].startedAt) =>
                \A m \in DOMAIN evidence : \A j \in DOMAIN past :
                    past[j].startedAt = evidence[m].at =>
                        /\ ~Closer(past[k], past[j])
                        /\ ~Closer(past[j], past[k]) => j < k

\* A scope hint is a name, never a blank, that both incidents have in that
\* field; and where they have one in common a hint is given, unless a blank is
\* among what they share: the ranker is never pointed at a service only the
\* past incident had (scopeHints, firstOverlap).
HintsAreShared ==
    Answered =>
        \A m \in DOMAIN evidence :
            LET p == CHOOSE p \in Names(past) : p.startedAt = evidence[m].at
                Common(f) == Names(p.incident.scope[f]) \cap Names(cur.scope[f])
                Right(hint, f) == /\ hint \subseteq Common(f) \ {EmptyString}
                                  /\ \A x, y \in hint : x = y
                                  /\ hint = {} =>
                                        Common(f) = {} \/ EmptyString \in Common(f)
            IN  /\ Right(evidence[m].hints.service, "services")
                /\ Right(evidence[m].hints.namespace, "namespaces")
                /\ Right(evidence[m].hints.repo, "repos")
=============================================================================
