------------------------ MODULE MCCorrelatingRanker ------------------------
(* Every time-ordered list of at most 4 items out of a menu with one item or *)
(* more of each investigator, some of them simultaneous and some without a   *)
(* scope.                                                                    *)
EXTENDS CorrelatingRanker

CONSTANTS svc, ns, repo, pod

Deploy == MergedPR(repo, 12, 1, 90)
OldDeploy == MergedPR(repo, 11, 0, 40)
Crash == UnhealthyPod(ns, pod, 3, 90)
Warning == WarningEvent(ns, 2, 70)
Spike == MetricSeries([NoKeys EXCEPT !["service"] = svc], 2, 90)
NsSpike == MetricSeries([NoKeys EXCEPT !["namespace"] = ns], 1, 55)
Bare == MetricSeries(NoKeys, 2, 75)
Errors == ErrorPattern(ns, pod, [NoKeys EXCEPT !["service"] = svc], 3, 70)
Seen == SimilarIncident([NoKeys EXCEPT !["service"] = svc, !["namespace"] = ns], 0, 80)

Menu == {Deploy, OldDeploy, Crash, Warning, Spike, NsSpike, Bare, Errors, Seen}

InTime(s) == \A j, k \in DOMAIN s : j < k => s[j].at <= s[k].at

AllInputs == {s \in UNION {[1..n -> Menu] : n \in 0..4} : InTime(s)}
=============================================================================
