------------------------------ MODULE MCEngine ------------------------------
(***************************************************************************)
(* Instances of the engine, on incidents as the webhook makes them of      *)
(* notifications: B of another service but the same alert as A, C of A's   *)
(* service but another alert, and so nothing alike between B and C.        *)
(***************************************************************************)
EXTENDS Engine, TLC

CONSTANTS svc1, svc2, alert1, alert2,
          n1, finite, infinite,
          j1, j2, res1, unresolved, notFound

\* Nothing in these notifications is blank, missing or malformed but names.
T == INSTANCE Triggers
    WITH NoName <- EmptyString, NoTime <- EmptyString, Malformed <- EmptyString, Trim <- <<>>

\* What the engine and the stores can tell of an incident.
Notified(alertname, svc, at, status) ==
    LET inc == T!FromPayload(
            [labels |-> [alertname |-> alertname, service |-> svc,
                         namespace |-> EmptyString, cluster |-> EmptyString],
             summary |-> EmptyString,
             alerts |-> <<[startsAt |-> at, status |-> status, expr |-> EmptyString]>>], at)
    IN  [id |-> inc.id, scope |-> inc.scope, summary |-> inc.summary]

A == Notified(alert1, svc1, 0, "firing")
B == Notified(alert1, svc2, 2, "firing")
C == Notified(alert2, svc1, 0, "firing")

MCId == {A.id, B.id, C.id}
OneIncident == {A}
\* The second notification of A says it is over.
TwoSimilar == {A, Notified(alert1, svc1, 0, "resolved"), B}
\* To A, C is closer than B: with room for one, B's fix gives way.
Crowding == {A, B, C}

MCNote == {n1}

Finite == {{[live |-> finite]}}
MaybeInfinite == {{[live |-> finite]}, {[live |-> finite], [live |-> infinite]}}

MCReport == SUBSET (Recollection \cup [live : {finite, infinite}])
MCEncodable == SUBSET (Recollection \cup [live : {finite}])
MCTime == 0..(MaxRuns - 1)

\* Handlers are interchangeable.
Handlers == Permutations(Job) \cup Permutations(Resolver)

OneJob == {j1}
TwoJobs == {j1, j2}
OneResolver == {res1}
BothBackends == {"ring", "sqlite"}
Table == {"sqlite"}
RingOnly == {"ring"}

OneSink == <<"stdout">>
TwoSinks == <<"stdout", "slack">>
=============================================================================
