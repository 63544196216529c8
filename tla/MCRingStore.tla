----------------------------- MODULE MCRingStore -----------------------------
(* A ring of 3 slots, 3 incident ids (so one id can hold two slots while     *)
(* another is evicted), two clock ticks, resolved and unresolved records.    *)
EXTENDS RingStore

CONSTANTS i1, i2, i3, r1, n1, unresolved, notFound

MCId == {i1, i2, i3}
MCIncident == [id : MCId]
MCReport == {r1}
MCNote == {n1}
MCTime == 0..1
=============================================================================
