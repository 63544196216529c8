-------------------------------- MODULE Slack --------------------------------
(***************************************************************************)
(* internal/output/slack/slack.go, buildPayload: the blocks of a report.   *)
(* A hypothesis is a record with a summary, a reasoning and its evidence.  *)
(***************************************************************************)
EXTENDS Integers, Sequences, SequencesExt, StableSort

MaxHypotheses == 5
MaxEvidence == 3

\* The incident's header, its section and a divider.
Heading == <<[type |-> "header"], [type |-> "section"], [type |-> "divider"]>>

NoHypotheses == [type |-> "section", text |-> "none"]

HypothesisBody(rank, h) ==
    [type |-> "section", rank |-> rank, summary |-> h.summary, reasoning |-> h.reasoning]

\* The first items, and how many more there are.
EvidenceContext(ev) ==
    IF ev = <<>> THEN <<>>
    ELSE <<[type |-> "context", shown |-> Truncate(ev, MaxEvidence),
            more |-> IF Len(ev) > MaxEvidence THEN Len(ev) - MaxEvidence ELSE 0]>>

\* A hypothesis and, if it has any, its evidence.
HypothesisBlocks(rank, h) == <<HypothesisBody(rank, h)>> \o EvidenceContext(h.evidence)

Omitted(n) == IF n = 0 THEN <<>> ELSE <<[type |-> "context", omitted |-> n]>>

\* Mutant of BuildPayload: the cap is silent.
BuildPayloadSilent(hs) ==
    LET top == Truncate(hs, MaxHypotheses)
    IN  IF hs = <<>> THEN Heading \o <<NoHypotheses>>
        ELSE Heading \o FlattenSeq([k \in DOMAIN top |-> HypothesisBlocks(k, top[k])])

BuildPayload(hs) ==
    LET top == Truncate(hs, MaxHypotheses)
    IN  IF hs = <<>> THEN Heading \o <<NoHypotheses>>
        ELSE Heading \o FlattenSeq([k \in DOMAIN top |-> HypothesisBlocks(k, top[k])])
                     \o Omitted(Len(hs) - Len(top))
=============================================================================
