---------------------------- MODULE MCSqliteStore ----------------------------
(* 3 ids, 4 clock ticks over 2 seconds, one report that marshals and one     *)
(* that does not.                                                            *)
EXTENDS SqliteStore

CONSTANTS i1, i2, i3, r1, rInf, n1, unresolved, notFound

MCId == {i1, i2, i3}
MCIncident == [id : MCId]
MCReport == {r1, rInf}
MCEncodable == {r1}
MCNote == {n1}
MCTime == 0..3
=============================================================================
