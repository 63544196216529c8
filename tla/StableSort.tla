----------------------------- MODULE StableSort -----------------------------
(***************************************************************************)
(* Go's sort.SliceStable, which List, Flatten, the ranker and the memory   *)
(* investigator all call: sorted by less, ties left in their old order.    *)
(* The sort and the filtering append loops are one operator, Picked, which *)
(* takes no operator argument, so that facts about it can be cited.        *)
(***************************************************************************)
EXTENDS Naturals, Sequences, FiniteSets

\* A Go slice.
IsList(s) == s \in Seq({s[k] : k \in DOMAIN s})

\* Does place i of a sequence come out before place j?  less holds the pairs
\* of places whose elements are out of doubt; equal elements keep their order.
ComesFirst(less, i, j) == <<i, j>> \in less \/ (<<j, i>> \notin less /\ i < j)

\* The elements of s at these places, in that order: the k-th is the one with
\* k - 1 of them before it.
Picked(s, places, less) ==
    LET Rank(j) == Cardinality({i \in places : ComesFirst(less, i, j)}) + 1
    IN  [k \in 1..Cardinality(places) |-> s[CHOOSE j \in places : Rank(j) = k]]

SliceStable(s, Less(_, _)) ==
    Picked(s, DOMAIN s, {p \in (DOMAIN s) \X (DOMAIN s) : Less(s[p[1]], s[p[2]])})

\* "for _, x := range s { if test(x) { out = append(out, x) } }".
Selected(s, Test(_)) == Picked(s, {k \in DOMAIN s : Test(s[k])}, {})

\* Go's s[:n] where n may exceed the length.
Truncate(s, n) == IF n < Len(s) THEN SubSeq(s, 1, n) ELSE s
=============================================================================
