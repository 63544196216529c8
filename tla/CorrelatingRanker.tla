-------------------------- MODULE CorrelatingRanker --------------------------
(***************************************************************************)
(* internal/hypothesis/correlating_ranker.go: evidence put in buckets by   *)
(* scope, each bucket scored as one hypothesis.  The buckets are a Go map, *)
(* and "for key, group := range groups" visits it in any order, a step per *)
(* bucket here.  Scores are in thousandths, so that a confidence in        *)
(* percent times 1.0, 1.2 or 1.4 is a whole number.                        *)
(***************************************************************************)
EXTENDS Integers, Evidence, Sequences, FiniteSets, FiniteSetsExt, SequencesExt, StableSort

CONSTANTS
    Inputs,   \* the evidence lists Rank may be called with
    TopN      \* 0 means no cap
ASSUME TopNAssumption == TopN \in Nat
\* A list of dated evidence, with its confidences in percent.
ASSUME InputsAssumption ==
    \A s \in Inputs :
        /\ s \in Seq({s[k] : k \in DOMAIN s})
        /\ \A k \in DOMAIN s : s[k].at \in Int /\ s[k].confidence \in 0..100

Orphan == <<"none", NoName>>

\* service > namespace > repo > pod, and for each the top level, then labels.
BucketKey(e) ==
    LET Found == <<"service", "namespace", "repo", "pod">>
        In(k) == IF e.data[k] # NoName THEN e.data[k] ELSE e.labels[k]
        hits == {n \in 1..4 : In(Found[n]) # NoName}
    IN  IF hits = {} THEN Orphan
        ELSE <<Found[Min(hits)], In(Found[Min(hits)])>>

UniqueSources(group) == {group[k].source : k \in DOMAIN group}

Boost(n) == IF n >= 3 THEN 14 ELSE IF n = 2 THEN 12 ELSE 10

Earlier(e, f) == e.at < f.at

\* Mutant of HypothesisForGroup: the score is not clamped.
HypothesisUnclamped(key, group) ==
    LET maxConf == Max({group[k].confidence : k \in DOMAIN group})
    IN  [key |-> key, score |-> maxConf * Boost(Cardinality(UniqueSources(group))),
         evidence |-> SliceStable(group, Earlier)]

HypothesisForGroup(key, group) ==
    LET maxConf == Max({group[k].confidence : k \in DOMAIN group})
        score == maxConf * Boost(Cardinality(UniqueSources(group)))
    IN  [key |-> key, score |-> IF score > 1000 THEN 1000 ELSE score,
         evidence |-> SliceStable(group, Earlier)]

HypothesisForOrphan(e) ==
    [key |-> Orphan, score |-> 10 * e.confidence, evidence |-> <<e>>]

HigherScore(g, h) == g.score > h.score

Capped(hs) == IF TopN > 0 THEN Truncate(hs, TopN) ELSE hs

VARIABLES
    ev,        \* the flattened evidence, in time order
    pc,        \* "ranging" over the buckets, then "done"
    unseen,    \* the buckets the range loop has not visited
    ranking

rankVars == <<ev, pc, unseen, ranking>>

Group(key) == Selected(ev, LAMBDA e : BucketKey(e) = key)
Keys == {BucketKey(ev[k]) : k \in DOMAIN ev} \ {Orphan}

\* Rank's first loop: every item goes to its bucket or to the orphans.
RankInit ==
    /\ ev \in Inputs
    /\ pc = "ranging"
    /\ unseen = Keys
    /\ ranking = <<>>

\* One turn of "for key, group := range groups".
Visit(key) ==
    /\ key \in unseen
    /\ ranking' = Append(ranking, HypothesisForGroup(key, Group(key)))
    /\ unseen' = unseen \ {key}
    /\ UNCHANGED <<ev, pc>>

\* Mutants of Finish: the orphans are dropped; the cap comes before the sort.
FinishWithoutOrphans ==
    /\ pc = "ranging"
    /\ unseen = {}
    /\ ranking' = Capped(SliceStable(ranking, HigherScore))
    /\ pc' = "done"
    /\ UNCHANGED <<ev, unseen>>
FinishCapsFirst ==
    /\ pc = "ranging"
    /\ unseen = {}
    /\ LET orphans == Group(Orphan)
           lone == [k \in DOMAIN orphans |-> HypothesisForOrphan(orphans[k])]
       IN  ranking' = SliceStable(Capped(ranking \o lone), HigherScore)
    /\ pc' = "done"
    /\ UNCHANGED <<ev, unseen>>

\* The orphans, the sort and the cap.  No evidence at all ranks to nothing.
Finish ==
    /\ pc = "ranging"
    /\ unseen = {}
    /\ LET orphans == Group(Orphan)
           lone == [k \in DOMAIN orphans |-> HypothesisForOrphan(orphans[k])]
       IN  ranking' = Capped(SliceStable(ranking \o lone, HigherScore))
    /\ pc' = "done"
    /\ UNCHANGED <<ev, unseen>>

RankNext == Finish \/ \E key \in Keys : Visit(key)

RankSpec == RankInit /\ [][RankNext]_rankVars

-----------------------------------------------------------------------------
(* What is checked. *)

TypeOK ==
    /\ ev \in Inputs
    /\ pc \in {"ranging", "done"}
    /\ unseen \subseteq Keys
    /\ \A k \in DOMAIN ranking : ranking[k].score \in 0..1000

Items(hs) == FlattenSeq([k \in DOMAIN hs |-> hs[k].evidence])
Occurrences(e, s) == Cardinality({k \in DOMAIN s : s[k] = e})

HypothesisCount == Cardinality(Keys) + Len(Group(Orphan))

\* Bucketing partitions the evidence: unless the cap drops hypotheses, every
\* item of the fan-out is in the ranking, once, in exactly one hypothesis.
NothingLost ==
    (pc = "done" /\ (TopN = 0 \/ HypothesisCount <= TopN)) =>
        /\ Len(Items(ranking)) = Len(ev)
        /\ \A k \in DOMAIN ev : Occurrences(ev[k], Items(ranking)) = Occurrences(ev[k], ev)

\* What a hypothesis must score: its best signal, raised 20% when two
\* investigators agree and 40% when three do, at most 100%.
FairScore(h) ==
    LET best == Max({h.evidence[k].confidence : k \in DOMAIN h.evidence})
        agree == Cardinality({h.evidence[k].source : k \in DOMAIN h.evidence})
    IN  IF h.key = Orphan THEN 10 * best
        ELSE Min({1000, best * (IF agree >= 3 THEN 14 ELSE IF agree = 2 THEN 12 ELSE 10)})

\* What hypotheses are made of: a bucket each, and each orphan.
Makings == {<<"bucket", key>> : key \in Keys}
              \cup {<<"orphan", k>> : k \in DOMAIN Group(Orphan)}

Hypothesis(m) == IF m[1] = "bucket" THEN HypothesisForGroup(m[2], Group(m[2]))
                 ELSE HypothesisForOrphan(Group(Orphan)[m[2]])

\* Whatever order the map is walked in, the ranking shows the TopN best of the
\* hypotheses, each once, best first, and each scored by its own evidence: no
\* bucket and no orphan it drops outscores anything it keeps.
BestFirst ==
    pc = "done" =>
        /\ \A j, k \in DOMAIN ranking : j < k => ranking[j].score >= ranking[k].score
        /\ \A k \in DOMAIN ranking : ranking[k].score = FairScore(ranking[k])
        /\ Len(ranking) = IF TopN > 0 THEN Min({TopN, HypothesisCount}) ELSE HypothesisCount
        /\ \E of \in Injection(DOMAIN ranking, Makings) :
              /\ \A k \in DOMAIN ranking : ranking[k] = Hypothesis(of[k])
              /\ \A m \in Makings : \/ \E k \in DOMAIN ranking : of[k] = m
                                    \/ \A k \in DOMAIN ranking :
                                          ranking[k].score >= Hypothesis(m).score

\* What Rank returns for each order the map may be walked in.
Rankings ==
    LET orphans == Group(Orphan)
        lone == [k \in DOMAIN orphans |-> HypothesisForOrphan(orphans[k])]
        Ranked(order) ==
            Capped(SliceStable([k \in DOMAIN order |->
                                  HypothesisForGroup(order[k], Group(order[k]))] \o lone,
                               HigherScore))
    IN  {Ranked(order) : order \in SetToSeqs(Keys)}

\* "Scores ... are untouched - the ranking is still deterministic"
\* (llm_ranker.go:17), as far as it goes: the map's order can only decide
\* between hypotheses of equal score, never how the ranking scores.
ScoresAreDeterministic ==
    pc = "done" =>
        \A other \in Rankings :
            [k \in DOMAIN other |-> other[k].score] = [k \in DOMAIN ranking |-> ranking[k].score]
=============================================================================
