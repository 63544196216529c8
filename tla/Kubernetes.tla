----------------------------- MODULE Kubernetes -----------------------------
(***************************************************************************)
(* internal/investigators/kubernetes: the evidence in what the cluster     *)
(* answers.  An event is [type, reason, eventTime, lastSeen, firstSeen],   *)
(* any time of which may be NoTime; a pod is [name, phase, waiting], the   *)
(* latter the reasons its containers are waiting for.                      *)
(***************************************************************************)
EXTENDS Incidents

EventTime(e) ==
    IF e.eventTime # NoTime THEN e.eventTime
    ELSE IF e.lastSeen # NoTime THEN e.lastSeen ELSE e.firstSeen

RootCauses == {"OOMKilling", "OOMKilled", "FailedMount", "FailedAttachVolume"}
Symptoms == {"BackOff", "Failed", "Unhealthy"}

\* In percent: by what the reason gives away, then by recency.
EventConfidence(e, inc) ==
    LET gap == End(inc) - EventTime(e)
    IN  CASE e.reason \in RootCauses -> 85
          [] e.reason \in Symptoms -> 70
          [] OTHER -> IF gap < 15 * Minute THEN 70
                      ELSE IF gap < 30 * Minute THEN 55 ELSE 40

EventEvidence(ns, events, inc) ==
    LET warnings == Selected(events, LAMBDA e : e.type = "Warning" /\ InWindow(EventTime(e), inc))
    IN  [k \in DOMAIN warnings |->
            WarningEvent(ns, EventTime(warnings[k]), EventConfidence(warnings[k], inc))]

\* podEvidence: as the pods are now, whatever the incident's window.
Unhealthy(p) == "CrashLoopBackOff" \in p.waiting \/ p.phase \in {"Pending", "Failed"}

PodEvidence(ns, pods, now) ==
    LET sick == Selected(pods, Unhealthy)
    IN  [k \in DOMAIN sick |->
            UnhealthyPod(ns, sick[k].name, now,
                         IF "CrashLoopBackOff" \in sick[k].waiting THEN 90 ELSE 60)]
=============================================================================
