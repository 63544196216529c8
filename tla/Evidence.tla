------------------------------ MODULE Evidence ------------------------------
(***************************************************************************)
(* internal/evidence/evidence.go's Evidence as each investigator fills it. *)
(* Only what the ranker reads is kept: who reports it, when it happened,   *)
(* how confident the investigator is (in percent), and the scope keys of   *)
(* its Data map, at the top level and in the nested "labels" map; and the  *)
(* number that tells one pull request from another.                        *)
(***************************************************************************)
EXTENDS Naturals

CONSTANT NoName   \* a key the map does not hold, or holds as ""

ScopeKey == {"service", "namespace", "repo", "pod"}
NoKeys == [k \in ScopeKey \cup {"number"} |-> NoName]

Evidence(source, at, confidence, data, labels) ==
    [source |-> source, at |-> at, confidence |-> confidence,
     data |-> data, labels |-> labels]

\* deploys.go, investigateRepo: the repo, and nothing else the ranker reads
\* (its "labels" is a list of pull-request labels, not a map).
MergedPR(repo, number, at, confidence) ==
    Evidence("github.deploys", at, confidence,
             [NoKeys EXCEPT !["repo"] = repo, !["number"] = number], NoKeys)

\* The same of a published release, which has no number.
Release(repo, at, confidence) ==
    Evidence("github.deploys", at, confidence, [NoKeys EXCEPT !["repo"] = repo], NoKeys)

\* kubernetes.go, investigateNamespace: a warning event.
WarningEvent(ns, at, confidence) ==
    Evidence("kubernetes", at, confidence, [NoKeys EXCEPT !["namespace"] = ns], NoKeys)

\* kubernetes.go, podEvidence: an unhealthy pod.
UnhealthyPod(ns, pod, at, confidence) ==
    Evidence("kubernetes", at, confidence,
             [NoKeys EXCEPT !["namespace"] = ns, !["pod"] = pod], NoKeys)

\* prometheus.go, evidenceFromSeries: the series' labels, nested.
MetricSeries(labels, at, confidence) ==
    Evidence("prometheus", at, confidence, NoKeys, labels)

\* logs.go, evidenceFromStreams: namespace and pod, and the stream's labels.
ErrorPattern(ns, pod, labels, at, confidence) ==
    Evidence("logs", at, confidence,
             [NoKeys EXCEPT !["namespace"] = ns, !["pod"] = pod], labels)

\* memory.go, Investigate: the hints it shares with the past incident.
SimilarIncident(hints, at, confidence) ==
    Evidence("memory", at, confidence, hints, NoKeys)
=============================================================================
