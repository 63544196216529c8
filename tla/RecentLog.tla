------------------------------ MODULE RecentLog ------------------------------
(***************************************************************************)
(* What a store "backed by a fixed-capacity ring buffer"                   *)
(* (internal/storage/memory/memory.go) promises, with no ring and no index *)
(* in it: it remembers exactly the last Cap saves, in the order they were  *)
(* made, Get answers with the latest of them for the id, and a restart     *)
(* loses everything.                                                       *)
(***************************************************************************)
EXTENDS Investigations, Sequences

CONSTANT Cap   \* how many saves it remembers, at least one

VARIABLES log,      \* the last Cap saves, oldest first
          lookup    \* id |-> what Get(id) answers

Push(l, inv) == IF Len(l) < Cap THEN Append(l, inv) ELSE Append(Tail(l), inv)

\* Position k of l is the latest save of id.
IsLatest(l, k, id) ==
    /\ k \in 1..Len(l)
    /\ IdOf(l[k]) = id
    /\ \A j \in 1..Len(l) : j > k => IdOf(l[j]) # id

Latest(l) ==
    [id \in Id |-> IF \E k \in 1..Len(l) : IsLatest(l, k, id)
                   THEN l[CHOOSE k \in 1..Len(l) : IsLatest(l, k, id)]
                   ELSE NotFound]

Init == log = <<>> /\ lookup = Latest(<<>>)

Save(inv) == log' = Push(log, inv) /\ lookup' = Latest(log')

Lose == log' = <<>> /\ lookup' = Latest(<<>>)

Next == Lose \/ \E inv \in Investigation : Save(inv)

vars == <<log, lookup>>

Spec == Init /\ [][Next]_vars
=============================================================================
