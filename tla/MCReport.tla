------------------------------ MODULE MCReport ------------------------------
(* main's wiring, TopN 3 and no timeout given, on rankings of 0 to 7         *)
(* hypotheses, with as many items of evidence as they are from the top, less *)
(* one; two of the narrated ones look the same but for their summary.        *)
EXTENDS Report

CONSTANTS grouped, prose

Ranked(summary, score) ==
    [summary |-> summary, score |-> score,
     reasoning |-> [about |-> summary, text |-> grouped],
     evidence |-> [n \in 1..(summary - 1) |-> <<summary, n>>]]

Scores == <<100, 90, 90, 40, 35, 35, 30>>
All == [k \in 1..7 |-> Ranked(k, Scores[k])]

MCRankings == {SubSeq(All, 1, n) : n \in 0..7}
MCText == {prose}
=============================================================================
