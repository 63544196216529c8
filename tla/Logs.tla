-------------------------------- MODULE Logs --------------------------------
(***************************************************************************)
(* internal/investigators/logs: the evidence in the streams Loki returns.  *)
(* A stream is [labels, count, newest]: how many of its lines have a       *)
(* well-formed time, and the newest of those times.                        *)
(***************************************************************************)
EXTENDS Incidents

CONSTANT UnknownPod   \* "?"

MaxStreamsReported == 3

Noisier(s, r) == s.count > r.count

ConfidenceForCount(n) == IF n >= 51 THEN 85 ELSE IF n >= 6 THEN 70 ELSE 50

\* queryRange drops empty streams; evidenceFromStreams reports the noisiest.
StreamEvidence(ns, reply) ==
    LET streams == Selected(reply, LAMBDA s : s.count > 0)
        top == Truncate(SliceStable(streams, Noisier), MaxStreamsReported)
        Pod(s) == IF s.labels["pod"] = NoName THEN UnknownPod ELSE s.labels["pod"]
    IN  [k \in DOMAIN top |->
            ErrorPattern(ns, Pod(top[k]), top[k].labels, top[k].newest,
                         ConfidenceForCount(top[k].count))]
=============================================================================
