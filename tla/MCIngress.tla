------------------------------ MODULE MCIngress ------------------------------
(* Notifications whose alerts start in different orders, seconds and states  *)
(* and have all, some or none of their labels and their summary in common,   *)
(* next to a request of each other kind, with every credential.              *)
EXTENDS Ingress

CONSTANTS alert, svc, words, q, t1, t2, idA, note, blank

MCTrim == [raw \in {note, blank} |-> IF raw = blank THEN NoName ELSE raw]
MCTokens == {t1, t2}

Fired(at, status) == [startsAt |-> at, status |-> status, expr |-> q]
Alerts == {Fired(1, "firing"), Fired(1, "resolved"), Fired(2, "firing"), Fired(NoTime, "firing")}

Common ==
    [alertname : {alert, NoName}, service : {svc, NoName}, namespace : {NoName}, cluster : {NoName}]
Notifications ==
    [labels : Common, summary : {words, NoName}, alerts : UNION {Injection(1..n, Alerts) : n \in 0..2}]

NoScope == [services |-> <<>>, namespaces |-> <<>>, clusters |-> <<>>, repos |-> <<>>]
Asked(window) == [summary |-> NoName, window |-> window, scope |-> NoScope]

Webhook == <<"webhook", "alertmanager">>
Resolve == <<"investigations", idA, "resolve">>
Paths ==
    {<<"">>, <<"healthz">>, Webhook, <<"investigate">>, <<"webhook", "">>,
     <<"investigations", idA>>, <<"investigations", "">>, Resolve,
     <<"api">>, <<"api", "investigations">>, <<"api", "investigations", idA>>, <<"other">>}

Credentials == {<<"none", NoName>>} \cup ({"Bearer", "Basic"} \X MCTokens)

Bodies(path) ==
    CASE path = Webhook -> {Malformed}
      [] path = <<"investigate">> -> {Malformed, Asked(NoName), Asked(Malformed), Asked(0)}
      [] path = Resolve -> {note, blank}
      [] OTHER -> {NoName}

\* Every way of asking, and every notification asked rightly.
MCRequests ==
    UNION {[method : {"GET", "POST"}, path : {path}, auth : Credentials,
            body : Bodies(path)] : path \in Paths}
    \cup [method : {"POST"}, path : {Webhook}, auth : {<<"Bearer", t1>>}, body : Notifications]
=============================================================================
