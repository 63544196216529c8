------------------------------ MODULE MCRecall ------------------------------
(* Every listing of at most 3 past investigations, newest first, of 9        *)
(* incidents that overlap in every way: the same alert or not, the same,     *)
(* part of, or none of the scope, blanks before names and after, no scope at *)
(* all, and the same id.                                                     *)
EXTENDS Recall

CONSTANTS a, b, c, s1, s2, n1, r1, alert1, alert2, fixed, report,
          unresolved, notFound

Scope(ss, nss, cs, rs) ==
    [services |-> ss, namespaces |-> nss, clusters |-> cs, repos |-> rs]
Inc(id, scope, alert) == [id |-> id, scope |-> scope, summary |-> alert]

MCId == {a, b, c}
MCIncident ==
    {Inc(a, Scope(<<s1>>, <<n1>>, <<>>, <<r1>>), alert1),
     Inc(a, Scope(<<s1>>, <<>>, <<>>, <<>>), alert2),
     Inc(b, Scope(<<s2, s1>>, <<n1>>, <<>>, <<>>), alert2),
     Inc(b, Scope(<<s1, EmptyString>>, <<>>, <<>>, <<r1>>), alert2),
     Inc(b, Scope(<<>>, <<>>, <<>>, <<>>), alert1),
     Inc(c, Scope(<<s2>>, <<n1>>, <<n1>>, <<>>), EmptyString),
     Inc(c, Scope(<<EmptyString, s1>>, <<>>, <<>>, <<>>), alert2),
     Inc(c, Scope(<<s1>>, <<>>, <<>>, <<>>), alert2),
     Inc(c, Scope(<<s2>>, <<>>, <<>>, <<r1>>), alert1)}

MCReport == {report}
MCNote == {fixed}
MCTime == 0..2

MCListings ==
    {[k \in 1..n |-> [incident |-> is[k], hypotheses |-> report,
                      startedAt |-> n - k,
                      resolution |-> IF k % 2 = 1 THEN fixed ELSE unresolved]] :
        n \in 0..3, is \in [1..3 -> MCIncident]}

\* Selected is the standard SelectSeq, in a form that can be reasoned about.
ASSUME \A n \in 0..4 : \A s \in [1..n -> 0..2] :
           Selected(s, LAMBDA x : x > 0) = SelectSeq(s, LAMBDA x : x > 0)
=============================================================================
