-------------------------------- MODULE Report --------------------------------
(***************************************************************************)
(* The ranking on its way to Slack: what LLMRanker returns is what the     *)
(* Slack sink is given (main.go, runAndRespond).                           *)
(***************************************************************************)
EXTENDS LLMRanker, Slack

\* A hypothesis has a summary, a list of evidence, and a reasoning of its own
\* (hypothesisForGroup, hypothesisForOrphan).
ASSUME HypothesesAssumption ==
    \A r \in InnerRankings : \A k \in DOMAIN r :
        /\ {"summary", "evidence"} \subseteq DOMAIN r[k]
        /\ IsList(r[k].evidence)
        /\ r[k].reasoning.about = r[k].summary

Ranks(blocks) == {k \in DOMAIN blocks : "rank" \in DOMAIN blocks[k]}

\* A reader of the Slack message can account for the whole ranking: the
\* hypotheses shown are the best ones, in the ranker's order, each under its
\* own narrative and followed by its own evidence; what the caps leave out,
\* hypotheses and evidence, is counted; and an empty ranking says so
\* (buildPayload, evidenceContext).
SlackTellsAll ==
    pc = "returned" =>
    LET blocks == BuildPayload(hs)
        After(k) == IF k < Len(blocks) THEN blocks[k + 1] ELSE blocks[k]
        omitted == {k \in DOMAIN blocks : "omitted" \in DOMAIN blocks[k]}
    IN  /\ \A k \in Ranks(blocks) :
              LET b == blocks[k]
                  h == inner[b.rank]
              IN  /\ b.rank = Cardinality({j \in Ranks(blocks) : j <= k})
                  /\ b.summary = h.summary /\ b.reasoning.about = h.summary
                  /\ h.evidence # <<>> =>
                        /\ IsPrefix(After(k).shown, h.evidence)
                        /\ Len(After(k).shown) + After(k).more = Len(h.evidence)
        /\ Len(inner) = Cardinality(Ranks(blocks))
                            + (IF omitted = {} THEN 0 ELSE blocks[Max(omitted)].omitted)
        /\ inner = <<>> <=> NoHypotheses \in ToSet(blocks)
=============================================================================
