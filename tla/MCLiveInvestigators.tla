------------------------ MODULE MCLiveInvestigators ------------------------
(* The incidents of a webhook and of manual requests with a long, an empty   *)
(* and a negative window, and for each investigator the answers that differ  *)
(* in what it selects by: at, before and after both ends of the window, ties,*)
(* one item too many for a page or a report, items that are no evidence.     *)
EXTENDS LiveInvestigators

CONSTANTS Malformed, alert, svc, ns1, ns2, repo1, repo2, padded, blank, q1, q2, p1, p2

T == INSTANCE Triggers

MCTrim == [raw \in {ns1, ns2, repo1, repo2, padded, blank} |->
             IF raw = blank THEN NoName ELSE IF raw = padded THEN repo1 ELSE raw]
MCDefaultRepos == <<repo1>>
MCDefaultNamespaces == <<ns1>>

MCNow == 20000
Trigger == MCNow - 20
Open == Trigger - 30 * Minute

Firing(expr) == [startsAt |-> Trigger, status |-> "firing", expr |-> expr]
Page == [labels |-> [alertname |-> alert, service |-> svc, namespace |-> ns2, cluster |-> NoName],
         summary |-> NoName, alerts |-> <<Firing(q1), Firing(q2), Firing(q1), Firing(NoName)>>]
Ask(window) ==
    [summary |-> NoName, window |-> window,
     scope |-> [services |-> <<>>, namespaces |-> <<ns1, ns1>>, clusters |-> <<>>,
                repos |-> <<padded, blank, repo2>>]]

MCIncidents ==
    {T!FromPayload(Page, MCNow)} \cup
    {T!ParseManual(Ask(window), MCNow) : window \in {60 * Minute, 0, -Minute}}

Lists(menu, least, most) ==
    {SetToSeq(s) : s \in {s \in SUBSET menu : Cardinality(s) \in least..most}}

PR(number, created, updated, merged) ==
    [number |-> number, created |-> created, updated |-> updated, merged |-> merged]
PRs == {PR(1, 1, Open + 5, Open + 5), PR(2, 2, Open, Open), PR(3, 3, Open + 5, Open + 5),
        PR(4, Open - 9, Trigger - 9, Trigger - 9), PR(5, Open - 5, Trigger - 1, Open - 1),
        PR(6, Open, MCNow, MCNow), PR(7, Open + 1, Trigger, NoTime)}
Releases == {<<>>, <<[published |-> Trigger, draft |-> FALSE],
                     [published |-> Trigger, draft |-> TRUE],
                     [published |-> Open - 1, draft |-> FALSE]>>}

Event(type, reason, eventTime, lastSeen, firstSeen) ==
    [type |-> type, reason |-> reason, eventTime |-> eventTime, lastSeen |-> lastSeen,
     firstSeen |-> firstSeen]
Events == {Event("Warning", "OOMKilled", NoTime, Trigger - 1, Open - 1),
           Event("Warning", "BackOff", NoTime, MCNow, Open),
           Event("Warning", "Scheduling", MCNow, Trigger, Trigger),
           Event("Warning", "Scheduling", NoTime, NoTime, NoTime),
           Event("Normal", "Pulled", Trigger, NoTime, NoTime)}
Pods == {<<>>, <<[name |-> p1, phase |-> "Running", waiting |-> {"CrashLoopBackOff"}],
                 [name |-> p2, phase |-> "Pending", waiting |-> {}],
                 [name |-> p2, phase |-> "Running", waiting |-> {}]>>}

Series(name, values) ==
    [labels |-> [NoKeys EXCEPT !["service"] = name],
     samples |-> [k \in DOMAIN values |-> [t |-> Open + k, v |-> values[k]]]]
AllSeries == {Series("flat", <<90, 90>>), Series("spike", <<1, 85, 2>>), Series("jump", <<0, 70>>),
              Series("falling", <<80, 3>>), Series("zero", <<0, NoValue>>),
              Series("gone", <<NoValue>>), Series("negative", <<-5, -1>>)}

Stream(name, count, newest) ==
    [labels |-> [NoKeys EXCEPT !["pod"] = name], count |-> count, newest |-> newest]
Streams == {Stream(p1, 51, Trigger), Stream(p2, 6, Open), Stream(NoName, 6, Open),
            Stream("quiet", 1, Trigger), Stream("none", 0, Open)}

MCAnswers ==
    [deploys    |-> Lists(PRs, 3, 3) \X Releases,
     kubernetes |-> Lists(Events, 1, 2) \X Pods,
     prometheus |-> {<<s>> : s \in Lists(AllSeries, 5, 6)},
     logs       |-> {<<s>> : s \in Lists(Streams, 2, 5)}]
=============================================================================
