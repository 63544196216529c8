------------------------------- MODULE Triggers -------------------------------
(***************************************************************************)
(* internal/trigger: how a request body becomes an incident.  A decoded    *)
(* Alertmanager payload is [labels, summary, alerts]: its common labels,   *)
(* its common "summary" annotation and its alerts, each                    *)
(* [startsAt, status, expr], expr being the query its generatorURL names.  *)
(* A manual request is [summary, window, scope].                           *)
(***************************************************************************)
EXTENDS Incidents, FiniteSetsExt

CONSTANT Malformed   \* a body, or a window, that does not parse

DefaultWindow == 30 * Minute

\* Mutant of EarliestStart: the start of the alert that is listed first.
FirstStart(alerts, now) ==
    LET started == {k \in DOMAIN alerts : alerts[k].startsAt # NoTime}
    IN  IF started = {} THEN now ELSE alerts[Min(started)].startsAt

\* Status is not looked at: a resolved alert has a start like any other.
EarliestStart(alerts, now) ==
    LET starts == {alerts[k].startsAt : k \in DOMAIN alerts} \ {NoTime}
    IN  IF starts = {} THEN now ELSE Min(starts)

Or(value, default) == IF value = NoName THEN default ELSE value

IncidentID(labels, t) == <<Or(labels.alertname, "alert"), Unix(t)>>

ScopeFromLabels(labels) ==
    LET Only(name) == IF name = NoName THEN <<>> ELSE <<name>>
    IN  [services |-> Only(labels.service), namespaces |-> Only(labels.namespace),
         clusters |-> Only(labels.cluster), repos |-> <<>>]

FromPayload(p, now) ==
    LET triggered == EarliestStart(p.alerts, now)
    IN  [id |-> IncidentID(p.labels, triggered),
         triggeredAt |-> triggered,
         window |-> DefaultWindow,
         scope |-> ScopeFromLabels(p.labels),
         summary |-> Or(p.summary, Or(p.labels.alertname, "alertmanager webhook")),
         alerts |-> p.alerts]

\* alertmanager.go, Parse.
ParseWebhook(body, now) == IF body = Malformed THEN Malformed ELSE FromPayload(body, now)

\* manual.go, Parse.  Any duration ParseDuration takes will do, 0 and negative
\* ones included, and the scope is kept as it came.
ParseManual(body, now) ==
    IF body = Malformed \/ body.window = Malformed THEN Malformed
    ELSE [id |-> <<"manual", Unix(now)>>,
          triggeredAt |-> now,
          window |-> Or(body.window, DefaultWindow),
          scope |-> body.scope,
          summary |-> Or(body.summary, "manual investigation"),
          alerts |-> <<>>]
=============================================================================
