---------------------------- MODULE IngressProofs ----------------------------
(***************************************************************************)
(* The gates agree with the routes, for every set of requests, tokens and  *)
(* every number of requests served.  The state only remembers the last     *)
(* request, so what carries the proof is not an invariant but the two      *)
(* tables: which gate a handler's pattern falls under.                     *)
(*                                                                         *)
(* And what an episode's notifications have in common decides which record *)
(* they open: each incident accepted is the parse of its body at some      *)
(* time, and that time only matters to a body without any start.           *)
(***************************************************************************)
EXTENDS Ingress, TLAPS

\* What the mux answers by itself.
MuxAnswers == {"notFound", "methodNotAllowed"}

\* A handler that runs is that of a route the path fits.
LEMMA HandlerHasRoute ==
  ASSUME NEW r, Handler(r) \notin MuxAnswers
  PROVE  \E route \in Routes : Handler(r) = route.handler /\ Fits(r.path, route.path)
  <1> DEFINE taken == {route \in RoutesOf(r) : r.method \in route.methods}
  <1>1. taken # {}
    BY DEF Handler, MuxAnswers
  <1>2. (CHOOSE route \in taken : TRUE) \in taken
    BY <1>1
  <1>3. Handler(r) = (CHOOSE route \in taken : TRUE).handler
    BY <1>1 DEF Handler
  <1>. QED  BY <1>2, <1>3 DEF RoutesOf

\* A path that fits a pattern of one segment is that segment, and below no
\* directory.
LEMMA FitsOne ==
  ASSUME NEW S, NEW path \in Seq(S), NEW name, name # Wildcard, Fits(path, <<name>>)
  PROVE  path = <<name>> /\ \A dir : ~Under(dir, path)
  <1> DEFINE pattern == <<name>>
  <1>1. Len(pattern) = 1 /\ pattern[1] = name
    OBVIOUS
  <1>2. Len(path) = Len(pattern) /\ \A k \in DOMAIN path : path[k] = pattern[k] \/ pattern[k] = Wildcard
    BY DEF Fits
  <1>. HIDE DEF pattern
  <1>3. DOMAIN path = 1..1
    BY <1>1, <1>2
  <1>4. path[1] = name
    BY <1>1, <1>2, <1>3
  <1>5. path = <<name>>
    BY <1>3, <1>4
  <1>. QED  BY <1>1, <1>2, <1>5 DEF Under

\* One that fits a longer pattern is below the pattern's first segment.
LEMMA FitsMany ==
  ASSUME NEW S, NEW path \in Seq(S), NEW pattern, Len(pattern) \in {2, 3},
         pattern[1] # Wildcard, Fits(path, pattern)
  PROVE  Len(path) > 1 /\ path[1] = pattern[1]
  <1>1. Len(path) = Len(pattern)
    BY DEF Fits
  <1>2. 1 \in DOMAIN path /\ Len(path) > 1
    BY <1>1
  <1>3. path[1] = pattern[1] \/ pattern[1] = Wildcard
    BY <1>2 DEF Fits
  <1>. QED  BY <1>2, <1>3

\* Every trigger's pattern lies behind the bearer gate, every page's behind
\* the basic one and not behind the other, and the health check behind none.
LEMMA RouteHasGate ==
  ASSUME NEW r \in Requests, NEW route \in Routes, Fits(r.path, route.path)
  PROVE  /\ route.handler \in TriggerHandlers => IsTriggerPath(r.path)
         /\ route.handler \in PageHandlers => IsDashboardPath(r.path) /\ ~IsTriggerPath(r.path)
         /\ route.handler = "healthz" => ~IsDashboardPath(r.path) /\ ~IsTriggerPath(r.path)
  <1>1. r.path \in Seq({r.path[k] : k \in DOMAIN r.path})
    BY RequestsAssumption
  <1>2. ASSUME NEW name \in {"healthz", "investigate", ""}, route.path = <<name>>
        PROVE  r.path = <<name>> /\ \A dir : ~Under(dir, r.path)
    <2>1. name # Wildcard /\ Fits(r.path, <<name>>)
      BY <1>2 DEF Wildcard
    <2>. QED  BY <1>1, <2>1, FitsOne
  <1>3. ASSUME NEW name \in {"webhook", "investigations", "api"}, route.path[1] = name,
               Len(route.path) \in {2, 3}
        PROVE  Len(r.path) > 1 /\ r.path[1] = name
    <2>1. route.path[1] # Wildcard
      BY <1>3 DEF Wildcard
    <2>. QED  BY <1>1, <1>3, <2>1, FitsMany
  <1>4. CASE route = Route(AnyMethod, <<"healthz">>, "healthz")
    <2>1. route.handler = "healthz" /\ route.path = <<"healthz">>
      BY <1>4 DEF Route
    <2>2. r.path = <<"healthz">> /\ \A dir : ~Under(dir, r.path)
      BY <1>2, <2>1
    <2>. QED  BY <2>1, <2>2 DEF TriggerHandlers, PageHandlers, IsTriggerPath, IsDashboardPath
  <1>5. CASE route = Route(AnyMethod, <<"webhook", "alertmanager">>, "alertmanager")
    <2>1. route.handler = "alertmanager" /\ route.path = <<"webhook", "alertmanager">>
      BY <1>5 DEF Route
    <2>2. Len(r.path) > 1 /\ r.path[1] = "webhook"
      BY <1>3, <2>1
    <2>. QED  BY <2>1, <2>2 DEF TriggerHandlers, PageHandlers, IsTriggerPath, Under
  <1>6. CASE route = Route(AnyMethod, <<"investigate">>, "manual")
    <2>1. route.handler = "manual" /\ route.path = <<"investigate">>
      BY <1>6 DEF Route
    <2>2. r.path = <<"investigate">>
      BY <1>2, <2>1
    <2>. QED  BY <2>1, <2>2 DEF TriggerHandlers, PageHandlers, IsTriggerPath
  <1>7. CASE route = Route(Get, <<"">>, "index")
    <2>1. route.handler = "index" /\ route.path = <<"">>
      BY <1>7 DEF Route
    <2>2. r.path = <<"">> /\ \A dir : ~Under(dir, r.path)
      BY <1>2, <2>1
    <2>3. <<"">> # <<"investigate">>
      OBVIOUS
    <2>. QED  BY <2>1, <2>2, <2>3 DEF TriggerHandlers, PageHandlers, IsTriggerPath, IsDashboardPath
  <1>8. CASE \/ route = Route(Get, <<"investigations", Wildcard>>, "detail")
             \/ route = Route({"POST"}, <<"investigations", Wildcard, "resolve">>, "resolve")
    <2>1. /\ route.handler \in {"detail", "resolve"}
          /\ route.path[1] = "investigations" /\ Len(route.path) \in {2, 3}
      BY <1>8 DEF Route
    <2>2. Len(r.path) > 1 /\ r.path[1] = "investigations"
      BY <1>3, <2>1
    <2>3. r.path # <<"investigate">>
      BY <2>2
    <2>. QED  BY <2>1, <2>2, <2>3 DEF TriggerHandlers, IsTriggerPath, IsDashboardPath, Under
  <1>9. CASE \/ route = Route(Get, <<"api", "investigations">>, "apiList")
             \/ route = Route(Get, <<"api", "investigations", Wildcard>>, "apiGet")
    <2>1. /\ route.handler \in {"apiList", "apiGet"}
          /\ route.path[1] = "api" /\ Len(route.path) \in {2, 3}
      BY <1>9 DEF Route
    <2>2. Len(r.path) > 1 /\ r.path[1] = "api"
      BY <1>3, <2>1
    <2>3. r.path # <<"investigate">>
      BY <2>2
    <2>. QED  BY <2>1, <2>2, <2>3 DEF TriggerHandlers, IsTriggerPath, IsDashboardPath, Under
  <1>. QED  BY <1>4, <1>5, <1>6, <1>7, <1>8, <1>9 DEF Routes

\* authMiddleware lets a request through to the handlers it may reach.
LEMMA AdmittedHasCredential ==
  ASSUME NEW r \in Requests, Admits(r), Handler(r) \notin MuxAnswers
  PROVE  /\ Handler(r) \in TriggerHandlers =>
               (conf.webhook = NoName \/ r.auth = <<"Bearer", conf.webhook>>)
         /\ Handler(r) \in PageHandlers =>
               (conf.dashboard = NoName \/ r.auth = <<"Basic", conf.dashboard>>)
  <1>1. PICK route \in Routes : Handler(r) = route.handler /\ Fits(r.path, route.path)
    BY HandlerHasRoute
  <1>2. /\ Handler(r) \in TriggerHandlers => IsTriggerPath(r.path)
        /\ Handler(r) \in PageHandlers => IsDashboardPath(r.path) /\ ~IsTriggerPath(r.path)
    BY <1>1, RouteHasGate
  <1>. QED  BY <1>2 DEF Admits

\* What it turns away has a gate, and the token of that gate is set.
LEMMA RefusedHasGate ==
  ASSUME NEW r \in Requests, ~Admits(r)
  PROVE  /\ Handler(r) # "healthz"
         /\ Handler(r) \in TriggerHandlers => conf.webhook # NoName
         /\ Handler(r) \in PageHandlers => conf.dashboard # NoName
  <1>1. CASE Handler(r) \in MuxAnswers
    BY <1>1 DEF MuxAnswers, TriggerHandlers, PageHandlers
  <1>2. CASE Handler(r) \notin MuxAnswers
    <2>1. PICK route \in Routes : Handler(r) = route.handler /\ Fits(r.path, route.path)
      BY <1>2, HandlerHasRoute
    <2>2. /\ Handler(r) \in TriggerHandlers => IsTriggerPath(r.path)
          /\ Handler(r) \in PageHandlers => IsDashboardPath(r.path) /\ ~IsTriggerPath(r.path)
          /\ Handler(r) = "healthz" => ~IsDashboardPath(r.path) /\ ~IsTriggerPath(r.path)
      BY <2>1, RouteHasGate
    <2>. QED  BY <2>2 DEF Admits
  <1>. QED  BY <1>1, <1>2

\* A request that is finished leaves the property true of itself.
LEMMA FinishHolds ==
  ASSUME NEW r \in Requests, NEW handler, NEW status, Finish(r, handler, status),
         \/ handler = "authMiddleware" /\ ~Admits(r)
         \/ handler = "mux" /\ status # 401
         \/ handler = Handler(r) /\ handler \notin MuxAnswers /\ Admits(r) /\ status # 401
  PROVE  GatedByHandler'
  <1>1. /\ last'.request = r /\ last'.handler = handler /\ last'.status = status
        /\ conf' = conf
    BY DEF Finish
  <1>2. CASE handler = "authMiddleware" /\ ~Admits(r)
    BY <1>1, <1>2, RefusedHasGate DEF GatedByHandler, TriggerHandlers, PageHandlers
  <1>3. CASE handler = "mux" /\ status # 401
    BY <1>1, <1>3 DEF GatedByHandler, TriggerHandlers, PageHandlers
  <1>4. CASE handler = Handler(r) /\ handler \notin MuxAnswers /\ Admits(r) /\ status # 401
    BY <1>1, <1>4, AdmittedHasCredential DEF GatedByHandler
  <1>. QED  BY <1>2, <1>3, <1>4

\* Every step that answers a request is such a finish.
LEMMA StepHolds == GatedByHandler /\ [Next]_vars => GatedByHandler'
  <1>. SUFFICES ASSUME GatedByHandler, [Next]_vars PROVE GatedByHandler'
    OBVIOUS
  <1>1. CASE Tick \/ UNCHANGED vars
    BY <1>1 DEF Tick, vars, GatedByHandler
  <1>2. ASSUME NEW r \in Requests, Refuse(r)
        PROVE  GatedByHandler'
    BY <1>2, FinishHolds DEF Refuse
  <1>3. ASSUME NEW r \in Requests, NoRoute(r)
        PROVE  GatedByHandler'
    <2>1. PICK status \in {404, 405} : Finish(r, "mux", status)
      BY <1>3 DEF NoRoute
    <2>. QED  BY <2>1, FinishHolds
  <1>4. ASSUME NEW r \in Requests, Healthz(r) \/ HandleAlertmanager(r) \/ HandleManual(r) \/ Dashboard(r)
        PROVE  GatedByHandler'
    <2>1. Admits(r)
      BY <1>4 DEF Healthz, HandleAlertmanager, HandleManual, Trigger, Dashboard
    <2>2. /\ Handler(r) \in {"healthz"} \cup TriggerHandlers \cup PageHandlers
          /\ \E status \in {200, 303, 400, 404, 405, 500} : Finish(r, Handler(r), status)
      BY <1>4 DEF Healthz, HandleAlertmanager, HandleManual, Trigger, Dashboard,
                  TriggerHandlers, PageHandlers
    <2>3. Handler(r) \notin MuxAnswers
      BY <2>2 DEF MuxAnswers, TriggerHandlers, PageHandlers
    <2>4. PICK status \in {200, 303, 400, 404, 405, 500} : Finish(r, Handler(r), status)
      BY <2>2
    <2>. QED  BY <2>1, <2>3, <2>4, FinishHolds
  <1>. QED  BY <1>1, <1>2, <1>3, <1>4 DEF Next

\* For every set of requests and tokens, however many are served, no handler
\* runs without the credential its gate asks for, and only a gate that is set
\* turns a request away (authMiddleware, main, Register).
THEOREM IngressGatedByHandler == Spec => []GatedByHandler
  <1>1. Init => GatedByHandler
    BY DEF Init, GatedByHandler
  <1>. QED  BY <1>1, StepHolds, PTL DEF Spec

-----------------------------------------------------------------------------

\* What is accepted is a notification and what it parses to at some time.
Accepted ==
    \A m \in accepted :
        /\ \A k \in DOMAIN m[1].alerts : m[1].alerts[k].startsAt \in Int \cup {NoTime}
        /\ \E now \in Int : m[2] = FromPayload(m[1], now)

\* The clock stays a time.
ClockTyped == clock \in Int

\* Whatever the order of the alerts, the time, and the alerts without a start,
\* an episode starts with its first alert (earliestStart).
LEMMA OpenerStarts ==
  ASSUME NEW p, NEW now, NEW a \in Openers(p),
         \A k \in DOMAIN p.alerts : p.alerts[k].startsAt \in Int \cup {NoTime}
  PROVE  EarliestStart(p.alerts, now) = a.startsAt
  <1>. DEFINE starts == {p.alerts[k].startsAt : k \in DOMAIN p.alerts} \ {NoTime}
  <1>1. a \in ToSet(p.alerts) /\ a.startsAt # NoTime
    BY DEF Openers
  <1>2. a.startsAt \in starts
    BY <1>1 DEF ToSet
  <1>3. \A t \in starts : t \in Int /\ a.startsAt <= t
    BY DEF Openers, ToSet
  <1>4. EarliestStart(p.alerts, now) = Min(starts)
    BY <1>2 DEF EarliestStart
  <1>. HIDE DEF starts
  <1>5. Min(starts) \in starts /\ \A t \in starts : Min(starts) <= t
    BY <1>2, <1>3 DEF Min
  <1>. QED  BY <1>2, <1>3, <1>4, <1>5

\* The id of an episode is its common alert name and the second it started in.
LEMMA OpeningMakesID ==
  ASSUME NEW p, NEW now, NEW a \in Openers(p),
         \A k \in DOMAIN p.alerts : p.alerts[k].startsAt \in Int \cup {NoTime}
  PROVE  /\ FromPayload(p, now).id = <<Name(p), Unix(a.startsAt)>>
         /\ FromPayload(p, now).triggeredAt = a.startsAt
  <1>1. EarliestStart(p.alerts, now) = a.startsAt
    BY OpenerStarts
  <1>. QED  BY <1>1 DEF FromPayload, IncidentID, Name

\* Alerts that join an episode only ever take names out of its scope.
LEMMA JoiningNarrowsScope ==
  ASSUME NEW p, NEW q, JoinedBy(p, q), NEW s, NEW t,
         NEW names \in DOMAIN FromPayload(p, s).scope
  PROVE  ToSet(FromPayload(q, t).scope[names]) \subseteq ToSet(FromPayload(p, s).scope[names])
  <1>1. /\ FromPayload(p, s).scope = ScopeFromLabels(p.labels)
        /\ FromPayload(q, t).scope = ScopeFromLabels(q.labels)
    BY DEF FromPayload
  <1>. DEFINE Only(name) == IF name = NoName THEN <<>> ELSE <<name>>
  <1>2. ASSUME NEW x, NEW y, y \in {x, NoName}
        PROVE  ToSet(Only(y)) \subseteq ToSet(Only(x))
    <2>1. CASE y = NoName
      BY <2>1 DEF ToSet
    <2>2. CASE y # NoName
      BY <1>2, <2>2 DEF ToSet
    <2>. QED  BY <2>1, <2>2
  <1>3. /\ q.labels.service \in {p.labels.service, NoName}
        /\ q.labels.namespace \in {p.labels.namespace, NoName}
        /\ q.labels.cluster \in {p.labels.cluster, NoName}
    BY DEF JoinedBy
  <1>4. ASSUME NEW labels
        PROVE  ScopeFromLabels(labels) =
                 [services |-> Only(labels.service), namespaces |-> Only(labels.namespace),
                  clusters |-> Only(labels.cluster), repos |-> <<>>]
    BY DEF ScopeFromLabels
  <1>5. names \in {"services", "namespaces", "clusters", "repos"}
    BY <1>1, <1>4
  <1>. HIDE DEF Only
  <1>. QED  BY <1>1, <1>2, <1>3, <1>4, <1>5

\* Two notifications with the same opening are one incident, alerts aside.
LEMMA SameOpeningSameIncident ==
  ASSUME NEW p, NEW q, p.labels = q.labels, p.summary = q.summary,
         NEW a \in Openers(p), NEW b \in Openers(q), a.startsAt = b.startsAt,
         \A k \in DOMAIN p.alerts : p.alerts[k].startsAt \in Int \cup {NoTime},
         \A k \in DOMAIN q.alerts : q.alerts[k].startsAt \in Int \cup {NoTime},
         NEW s, NEW t
  PROVE  [FromPayload(p, s) EXCEPT !.alerts = <<>>] = [FromPayload(q, t) EXCEPT !.alerts = <<>>]
  <1>1. EarliestStart(p.alerts, s) = EarliestStart(q.alerts, t)
    BY OpenerStarts
  <1>. DEFINE t0 == EarliestStart(p.alerts, s)
              Parsed(alerts) ==
                 [id |-> IncidentID(p.labels, t0), triggeredAt |-> t0,
                  window |-> DefaultWindow, scope |-> ScopeFromLabels(p.labels),
                  summary |-> Or(p.summary, Or(p.labels.alertname, "alertmanager webhook")),
                  alerts |-> alerts]
  <1>2. FromPayload(p, s) = Parsed(p.alerts)
    BY DEF FromPayload
  <1>3. FromPayload(q, t) = Parsed(q.alerts)
    BY <1>1 DEF FromPayload
  <1>. HIDE DEF t0
  <1>. DEFINE f == [Parsed(p.alerts) EXCEPT !.alerts = <<>>]
              g == [Parsed(q.alerts) EXCEPT !.alerts = <<>>]
              Fields == {"id", "triggeredAt", "window", "scope", "summary", "alerts"}
  <1>4. DOMAIN f = Fields /\ DOMAIN g = Fields
    OBVIOUS
  <1>5. \A x \in Fields : f[x] = g[x]
    <2>1. /\ f.id = g.id /\ f.triggeredAt = g.triggeredAt /\ f.window = g.window
          /\ f.scope = g.scope /\ f.summary = g.summary
      OBVIOUS
    <2>2. f.alerts = <<>> /\ g.alerts = <<>>
      OBVIOUS
    <2>. HIDE DEF f, g
    <2>. QED  BY <2>1, <2>2
  <1>6. f = [x \in DOMAIN f |-> f[x]] /\ g = [x \in DOMAIN g |-> g[x]]
    OBVIOUS
  <1>7. f = g
    <2>. HIDE DEF f, g, Fields
    <2>. QED  BY <1>4, <1>5, <1>6
  <1>. QED  BY <1>2, <1>3, <1>7

\* A step accepts nothing but what a notification parses to at that time.
LEMMA AcceptedStep == Accepted /\ ClockTyped /\ [Next]_vars => Accepted' /\ ClockTyped'
  <1>. SUFFICES ASSUME Accepted, ClockTyped, [Next]_vars PROVE Accepted' /\ ClockTyped'
    OBVIOUS
  <1>1. CASE Tick \/ UNCHANGED vars
    BY <1>1 DEF Tick, vars, Accepted, ClockTyped
  <1>2. ASSUME NEW r \in Requests,
               Refuse(r) \/ NoRoute(r) \/ Healthz(r) \/ HandleManual(r) \/ Dashboard(r)
        PROVE  Accepted' /\ ClockTyped'
    <2>1. accepted' = accepted /\ clock' = clock
      BY <1>2 DEF Refuse, NoRoute, Healthz, HandleManual, Trigger, Dashboard, Finish
    <2>. QED  BY <2>1 DEF Accepted, ClockTyped
  <1>3. ASSUME NEW r \in Requests, HandleAlertmanager(r)
        PROVE  Accepted' /\ ClockTyped'
    <2>1. clock' = clock /\ Handler(r) = "alertmanager"
      BY <1>3 DEF HandleAlertmanager, Trigger, Finish
    <2>2. CASE accepted' = accepted
      BY <2>1, <2>2 DEF Accepted, ClockTyped
    <2>3. CASE accepted' # accepted
      <3>. DEFINE inc == ParseWebhook(r.body, clock)
      <3>1. inc # Malformed /\ accepted' = accepted \cup {<<r.body, inc>>}
        BY <1>3, <2>3 DEF HandleAlertmanager, Trigger
      <3>2. r.body # Malformed /\ inc = FromPayload(r.body, clock)
        BY <3>1 DEF ParseWebhook
      <3>3. \A k \in DOMAIN r.body.alerts : r.body.alerts[k].startsAt \in Int \cup {NoTime}
        BY <2>1, <3>2, StartsAssumption
      <3>. HIDE DEF inc
      <3>. QED  BY <2>1, <3>1, <3>2, <3>3 DEF Accepted, ClockTyped
    <2>. QED  BY <2>2, <2>3
  <1>. QED  BY <1>1, <1>2, <1>3 DEF Next

\* However many notifications come, whenever and in whichever order and state
\* their alerts are listed: those that still list the alert that fired first
\* open one record exactly when their common alert name and the second of that
\* alert agree, and alerts that join can narrow the episode's scope but not
\* move its trigger (FromPayload, earliestStart, incidentID, scopeFromLabels).
THEOREM IngressSameEpisodeSameIncident == Spec => []SameEpisodeSameIncident
  <1>1. Init => Accepted /\ ClockTyped
    BY DEF Init, Accepted, ClockTyped
  <1>2. Accepted => SameEpisodeSameIncident
    <2>. SUFFICES ASSUME Accepted, NEW m \in accepted, NEW n \in accepted,
                         NEW a \in Openers(m[1]), NEW b \in Openers(n[1])
                  PROVE  /\ m[2].id = n[2].id <=>
                               (Name(m[1]) = Name(n[1]) /\ Unix(a.startsAt) = Unix(b.startsAt))
                         /\ a.startsAt = b.startsAt /\ JoinedBy(m[1], n[1]) =>
                               /\ m[2].triggeredAt = n[2].triggeredAt
                               /\ \A names \in DOMAIN m[2].scope :
                                     ToSet(n[2].scope[names]) \subseteq ToSet(m[2].scope[names])
                         /\ (/\ a.startsAt = b.startsAt
                             /\ m[1].labels = n[1].labels /\ m[1].summary = n[1].summary)
                            => [m[2] EXCEPT !.alerts = <<>>] = [n[2] EXCEPT !.alerts = <<>>]
      BY DEF SameEpisodeSameIncident
    <2>1. PICK s \in Int : m[2] = FromPayload(m[1], s)
      BY DEF Accepted
    <2>2. PICK t \in Int : n[2] = FromPayload(n[1], t)
      BY DEF Accepted
    <2>3. /\ \A k \in DOMAIN m[1].alerts : m[1].alerts[k].startsAt \in Int \cup {NoTime}
          /\ \A k \in DOMAIN n[1].alerts : n[1].alerts[k].startsAt \in Int \cup {NoTime}
      BY DEF Accepted
    <2>4. /\ m[2].id = <<Name(m[1]), Unix(a.startsAt)>> /\ m[2].triggeredAt = a.startsAt
          /\ n[2].id = <<Name(n[1]), Unix(b.startsAt)>> /\ n[2].triggeredAt = b.startsAt
      BY <2>1, <2>2, <2>3, OpeningMakesID
    <2>5. m[2].id = n[2].id <=>
             (Name(m[1]) = Name(n[1]) /\ Unix(a.startsAt) = Unix(b.startsAt))
      BY <2>4
    <2>6. ASSUME a.startsAt = b.startsAt, JoinedBy(m[1], n[1])
          PROVE  /\ m[2].triggeredAt = n[2].triggeredAt
                 /\ \A names \in DOMAIN m[2].scope :
                       ToSet(n[2].scope[names]) \subseteq ToSet(m[2].scope[names])
      BY <2>1, <2>2, <2>4, <2>6, JoiningNarrowsScope
    <2>7. ASSUME a.startsAt = b.startsAt, m[1].labels = n[1].labels, m[1].summary = n[1].summary
          PROVE  [m[2] EXCEPT !.alerts = <<>>] = [n[2] EXCEPT !.alerts = <<>>]
      BY <2>1, <2>2, <2>3, <2>7, SameOpeningSameIncident
    <2>. QED  BY <2>5, <2>6, <2>7
  <1>. QED  BY <1>1, <1>2, AcceptedStep, PTL DEF Spec
=============================================================================
