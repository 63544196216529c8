------------------------------- MODULE Storage -------------------------------
(***************************************************************************)
(* What internal/storage/storage.go's Storage interface promises every     *)
(* caller, whichever backend openStorage picked: a successful Save decides *)
(* what Get answers for that id, whole, and never alters what Get answers  *)
(* for another id, except that "implementations may bound size, expire     *)
(* entries" and so forget it.                                              *)
(***************************************************************************)
EXTENDS Investigations

VARIABLE lookup   \* id |-> what Get(id) answers

Init == lookup = [id \in Id |-> NotFound]

Save(inv) ==
    \E gone \in SUBSET (Id \ {IdOf(inv)}) :
        lookup' = [id \in Id |-> IF id = IdOf(inv) THEN inv
                                 ELSE IF id \in gone THEN NotFound
                                 ELSE lookup[id]]

Forget ==
    \E gone \in SUBSET Id :
        lookup' = [id \in Id |-> IF id \in gone THEN NotFound ELSE lookup[id]]

Next == Forget \/ \E inv \in Investigation : Save(inv)

Spec == Init /\ [][Next]_lookup
=============================================================================
