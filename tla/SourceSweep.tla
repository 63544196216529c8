----------------------------- MODULE SourceSweep -----------------------------
(***************************************************************************)
(* What every live investigator promises: it asks its sources, the         *)
(* repositories, namespaces or queries, one after the other, and each of   *)
(* them contributes all it has, or nothing.  Nothing stops it half way.    *)
(***************************************************************************)
EXTENDS Naturals, Sequences

VARIABLES
    whole,   \* k |-> all the evidence source k has
    turn,    \* the source whose turn it is
    out

vars == <<whole, turn, out>>

Init == turn = 1 /\ out = <<>>   \* and whole is whatever there is

Contribute == turn <= Len(whole) /\ out' = out \o whole[turn]

Drop == turn <= Len(whole) /\ UNCHANGED out

Next == (Contribute \/ Drop) /\ turn' = turn + 1 /\ UNCHANGED whole

Spec == Init /\ [][Next]_vars
=============================================================================
