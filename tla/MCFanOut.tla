------------------------------ MODULE MCFanOut ------------------------------
(* Three investigators: one with evidence at two times out of order, one     *)
(* that may fail with part of its evidence, one without a timeout.           *)
EXTENDS FanOut

Item(i, n, t) == [by |-> i, nr |-> n, at |-> t]
Ok(es) == [evidence |-> es, err |-> FALSE]
Failed(es) == [evidence |-> es, err |-> TRUE]

MCResults ==
    [i \in 1..3 |->
        CASE i = 1 -> {Ok(<<>>), Ok(<<Item(1, 1, 2), Item(1, 2, 1)>>), Failed(<<>>)}
          [] i = 2 -> {Ok(<<Item(2, 1, 1)>>), Failed(<<Item(2, 1, 2)>>)}
          [] i = 3 -> {Ok(<<Item(3, 1, 1), Item(3, 2, 1)>>), Failed(<<>>)}]

MCBounded == {1, 2}
=============================================================================
