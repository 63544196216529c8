------------------------------- MODULE Ingress -------------------------------
(***************************************************************************)
(* What happens to an HTTP request before an investigation: main.go's      *)
(* authMiddleware, the mux that main and dashboard.Register fill, and the  *)
(* checks each handler makes.  A path is the sequence of its segments,     *)
(* "/" being <<"">>, and is already clean, so the mux redirects none.      *)
(***************************************************************************)
EXTENDS Triggers

CONSTANTS
    Requests,     \* requests [method, path, auth, body] that may come in
    Tokens,       \* values LOLO_WEBHOOK_TOKEN and LOLO_DASHBOARD_TOKEN may have
    MaxClock,     \* bound: ticks
    MaxRequests   \* bound: requests served
\* A path is a sequence.
ASSUME RequestsAssumption ==
    \A r \in Requests : r.path \in Seq({r.path[k] : k \in DOMAIN r.path})

VARIABLES
    conf,       \* the two tokens of this process, NoName when unset
    clock,
    served,     \* spent of the bound
    last,       \* history: the last request, its handler and its status
    accepted    \* history: <<body, incident>> of every webhook accepted

vars == <<conf, clock, served, last, accepted>>

-----------------------------------------------------------------------------
(* Authentication. *)

Under(dir, path) == Len(path) > 1 /\ path[1] = dir

\* Mutant of IsDashboardPath: the pages, but not the JSON API.
IsPagePath(path) == path = <<"">> \/ Under("investigations", path)

IsDashboardPath(path) ==
    path = <<"">> \/ Under("investigations", path) \/ Under("api", path)

IsTriggerPath(path) == Under("webhook", path) \/ path = <<"investigate">>

\* authMiddleware: an unset token opens its gate, and other paths have none.
Admits(r) ==
    LET Passes(scheme, token) == token = NoName \/ r.auth = <<scheme, token>>
    IN  IF IsTriggerPath(r.path) THEN Passes("Bearer", conf.webhook)
        ELSE IsDashboardPath(r.path) => Passes("Basic", conf.dashboard)

-----------------------------------------------------------------------------
(* Routing. *)

Wildcard == "wildcard"   \* {id}
AnyMethod == {"GET", "HEAD", "POST"}
Get == {"GET", "HEAD"}   \* a GET pattern takes HEAD too

Route(methods, path, handler) == [methods |-> methods, path |-> path, handler |-> handler]

Routes == {
    Route(AnyMethod, <<"healthz">>, "healthz"),
    Route(AnyMethod, <<"webhook", "alertmanager">>, "alertmanager"),
    Route(AnyMethod, <<"investigate">>, "manual"),
    Route(Get, <<"">>, "index"),
    Route(Get, <<"investigations", Wildcard>>, "detail"),
    Route({"POST"}, <<"investigations", Wildcard, "resolve">>, "resolve"),
    Route(Get, <<"api", "investigations">>, "apiList"),
    Route(Get, <<"api", "investigations", Wildcard>>, "apiGet")}

\* A wildcard takes one segment, and not an empty one.
Fits(path, pattern) ==
    /\ Len(path) = Len(pattern)
    /\ \A k \in DOMAIN path :
          path[k] = pattern[k] \/ (pattern[k] = Wildcard /\ path[k] # "")

RoutesOf(r) == {route \in Routes : Fits(r.path, route.path)}

\* The handler of a request, or the mux's own answer.
Handler(r) ==
    LET taken == {route \in RoutesOf(r) : r.method \in route.methods}
    IN  IF taken # {} THEN (CHOOSE route \in taken : TRUE).handler
        ELSE IF RoutesOf(r) = {} THEN "notFound" ELSE "methodNotAllowed"

\* A notification that parses has alerts that started at some time, or at none.
ASSUME StartsAssumption ==
    \A r \in Requests :
        (Handler(r) = "alertmanager" /\ r.body # Malformed) =>
            \A k \in DOMAIN r.body.alerts : r.body.alerts[k].startsAt \in Int \cup {NoTime}

-----------------------------------------------------------------------------

Init ==
    /\ conf \in [webhook : Tokens \cup {NoName}, dashboard : Tokens \cup {NoName}]
    /\ clock = 0
    /\ served = 0
    /\ last = [handler |-> "none"]
    /\ accepted = {}

Finish(r, handler, status) ==
    /\ served' = served + 1
    /\ last' = [request |-> r, handler |-> handler, status |-> status]
    /\ UNCHANGED <<conf, clock>>

\* authMiddleware's 401.
Refuse(r) == ~Admits(r) /\ Finish(r, "authMiddleware", 401) /\ UNCHANGED accepted

\* What the mux answers by itself.
NoRoute(r) ==
    /\ Admits(r)
    /\ \/ Handler(r) = "notFound" /\ Finish(r, "mux", 404)
       \/ Handler(r) = "methodNotAllowed" /\ Finish(r, "mux", 405)
    /\ UNCHANGED accepted

Healthz(r) ==
    /\ Admits(r) /\ Handler(r) = "healthz"
    /\ Finish(r, "healthz", 200)
    /\ UNCHANGED accepted

\* handleAlertmanager, handleManual: the method, then the body.  What an
\* accepted one starts is the engine's.
Trigger(r, handler, inc) ==
    /\ Admits(r) /\ Handler(r) = handler
    /\ IF r.method # "POST" THEN Finish(r, handler, 405) /\ UNCHANGED accepted
       ELSE IF inc = Malformed THEN Finish(r, handler, 400) /\ UNCHANGED accepted
       ELSE /\ Finish(r, handler, 200)
            /\ accepted' = IF handler = "manual" THEN accepted
                           ELSE accepted \cup {<<r.body, inc>>}

HandleAlertmanager(r) == Trigger(r, "alertmanager", ParseWebhook(r.body, clock))
HandleManual(r) == Trigger(r, "manual", ParseManual(r.body, clock))

\* The pages and the JSON API; whether the store holds the id, or answers at
\* all, is the engine's.  A blank note is refused before the store is read.
Dashboard(r) ==
    /\ Admits(r)
    /\ \/ /\ Handler(r) \in {"index", "apiList"}
          /\ \E status \in {200, 500} : Finish(r, Handler(r), status)
       \/ /\ Handler(r) \in {"detail", "apiGet"}
          /\ \E status \in {200, 404, 500} : Finish(r, Handler(r), status)
       \/ /\ Handler(r) = "resolve" /\ Trim[r.body] = NoName
          /\ Finish(r, "resolve", 400)
       \/ /\ Handler(r) = "resolve" /\ Trim[r.body] # NoName
          /\ \E status \in {303, 404, 500} : Finish(r, "resolve", status)
    /\ UNCHANGED accepted

Tick == clock < MaxClock /\ clock' = clock + 1 /\ UNCHANGED <<conf, served, last, accepted>>

Next ==
    \/ Tick
    \/ served < MaxRequests /\ \E r \in Requests :
          Refuse(r) \/ NoRoute(r) \/ Healthz(r) \/ HandleAlertmanager(r)
              \/ HandleManual(r) \/ Dashboard(r)

Spec == Init /\ [][Next]_vars

-----------------------------------------------------------------------------
(* What is checked. *)

\* The first alert to fire of a notification, if it has one with a start.
Openers(p) ==
    {a \in ToSet(p.alerts) :
        /\ a.startsAt # NoTime
        /\ \A b \in ToSet(p.alerts) : b.startsAt # NoTime => a.startsAt <= b.startsAt}

\* q is p after alerts joined it: of the labels all of p's alerts had in
\* common, the newcomers share some.
JoinedBy(p, q) ==
    \A l \in {"alertname", "service", "namespace", "cluster"} :
        q.labels[l] \in {p.labels[l], NoName}

\* The name of an id: of the alerts, if they all have the same.
Name(p) == Or(p.labels.alertname, "alert")

\* Alertmanager sends a group again and again while alerts join it, resolve
\* and are listed in another order.  As long as the alert that fired first is
\* among them, firing or resolved, two notifications open the same record
\* exactly when their common alert name is the same and that alert fired in
\* the same second, whenever they arrive: so a newcomer of another name moves
\* the episode to another record, and two groups of one name and second share
\* a record.  On one record an episode keeps its trigger, and newcomers can
\* only take names out of its scope; with no such newcomer nothing changes but
\* the alerts (FromPayload, earliestStart, incidentID, scopeFromLabels).
SameEpisodeSameIncident ==
    \A m, n \in accepted : \A a \in Openers(m[1]), b \in Openers(n[1]) :
        /\ m[2].id = n[2].id <=>
              (Name(m[1]) = Name(n[1]) /\ Unix(a.startsAt) = Unix(b.startsAt))
        /\ a.startsAt = b.startsAt /\ JoinedBy(m[1], n[1]) =>
              /\ m[2].triggeredAt = n[2].triggeredAt
              /\ \A names \in DOMAIN m[2].scope :
                    ToSet(n[2].scope[names]) \subseteq ToSet(m[2].scope[names])
        /\ (/\ a.startsAt = b.startsAt
            /\ m[1].labels = n[1].labels /\ m[1].summary = n[1].summary)
           => [m[2] EXCEPT !.alerts = <<>>] = [n[2] EXCEPT !.alerts = <<>>]

TriggerHandlers == {"alertmanager", "manual"}
PageHandlers == {"index", "detail", "resolve", "apiList", "apiGet"}

\* The gates go by path prefix and the handlers by route, and the two tables
\* agree: with its token set, no handler of a trigger runs without the bearer
\* token and none of the dashboard without the password; an unset token, or
\* the health check, never turns a request away (authMiddleware, Register).
GatedByHandler ==
    last.handler # "none" =>
        LET With(scheme, token) == token = NoName \/ last.request.auth = <<scheme, token>>
        IN  /\ last.handler \in TriggerHandlers => With("Bearer", conf.webhook)
            /\ last.handler \in PageHandlers => With("Basic", conf.dashboard)
            /\ last.status = 401 =>
                  /\ Handler(last.request) # "healthz"
                  /\ Handler(last.request) \in TriggerHandlers => conf.webhook # NoName
                  /\ Handler(last.request) \in PageHandlers => conf.dashboard # NoName
=============================================================================
