----------------------------- MODULE Prometheus -----------------------------
(***************************************************************************)
(* internal/investigators/prometheus: the queries an alert names and the   *)
(* evidence in the series they return.  A series is [labels, samples], a   *)
(* sample [t, v], its v a number, or NoValue when it is NaN or malformed.  *)
(***************************************************************************)
EXTENDS Incidents, FiniteSetsExt

CONSTANT NoValue

MaxSeriesPerQuery == 3

\* extractQueries: the distinct expressions of the alerts' generatorURLs.
ExtractQueries(alerts) ==
    Distinct(Selected([k \in DOMAIN alerts |-> alerts[k].expr], LAMBDA q : q # NoName))

\* queryRange: the samples that are numbers, in the series that have one.
Usable(reply) ==
    LET Clean(s) == [s EXCEPT !.samples = Selected(@, LAMBDA x : x.v # NoValue)]
    IN  Selected([k \in DOMAIN reply |-> Clean(reply[k])], LAMBDA s : s.samples # <<>>)

\* Mutant of Peak: where the series ended up.
LastValue(s) == s.samples[Len(s.samples)].v

Peak(s) == Max({s.samples[k].v : k \in DOMAIN s.samples})

Louder(s, r) == Peak(s) > Peak(r)

\* In percent, by the ratio of the peak to a positive start.
SpikeConfidence(first, peak) ==
    LET base == IF first > 0 THEN first ELSE 1
        AtLeast(num, den) == den * peak >= num * base
    IN  CASE peak = 0 -> 30
          [] peak # 0 /\ (AtLeast(5, 1) \/ (first = 0 /\ peak > 0)) -> 90
          [] OTHER -> IF AtLeast(2, 1) THEN 75 ELSE IF AtLeast(5, 4) THEN 55 ELSE 35

\* evidenceFromSeries; a sample's time is cut to whole seconds.
SeriesEvidence(reply) ==
    LET top == Truncate(SliceStable(Usable(reply), Louder), MaxSeriesPerQuery)
        At(s) == s.samples[Len(s.samples)].t
    IN  [k \in DOMAIN top |->
            MetricSeries(top[k].labels, Unix(At(top[k])) * TicksPerSecond,
                         SpikeConfidence(top[k].samples[1].v, Peak(top[k])))]
=============================================================================
