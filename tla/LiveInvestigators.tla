-------------------------- MODULE LiveInvestigators --------------------------
(***************************************************************************)
(* One call of Investigate of a live investigator (internal/investigators: *)
(* deploys, kubernetes, prometheus, logs), request by request.  The four   *)
(* have one shape: sources in turn, one or two requests for each, and an   *)
(* error that is logged and costs the source, not the investigation.  They *)
(* never return an error.                                                  *)
(***************************************************************************)
EXTENDS Deploys, Kubernetes, Prometheus, Logs

CONSTANTS
    Incidents,           \* the incidents to investigate
    DefaultRepos, DefaultNamespaces,   \* what the two were configured with
    Answers,   \* investigator |-> what a source may answer, a reply per request
    Now        \* when the calls are made

Who == {"deploys", "kubernetes", "prometheus", "logs"}

SomeTime == Int \cup {NoTime}

\* Scopes, alerts and configured names are lists, and times are times.
ASSUME IncidentsAssumption ==
    /\ IsList(DefaultRepos) /\ IsList(DefaultNamespaces)
    /\ \A i \in Incidents :
          /\ i.triggeredAt \in Int /\ i.window \in Int
          /\ IsList(i.scope.repos) /\ IsList(i.scope.namespaces) /\ IsList(i.alerts)

\* Two requests for a repository: its closed pull requests, each with a number
\* of its own and updated by its merge, and its releases.
ASSUME DeploysAssumption ==
    \A w \in Answers["deploys"] :
        /\ IsList(w) /\ Len(w) = 2 /\ IsList(w[1]) /\ IsList(w[2])
        /\ \A k \in DOMAIN w[1] :
              /\ w[1][k].updated \in Int /\ w[1][k].merged \in SomeTime
              /\ w[1][k].merged # NoTime => w[1][k].merged <= w[1][k].updated
              /\ w[1][k].number # NoName
              /\ \A j \in DOMAIN w[1] : j # k => w[1][j].number # w[1][k].number
        /\ \A k \in DOMAIN w[2] : w[2][k].published \in SomeTime

\* Two for a namespace: its events, and its pods, which have names.
ASSUME KubernetesAssumption ==
    \A w \in Answers["kubernetes"] :
        /\ IsList(w) /\ Len(w) = 2 /\ IsList(w[1]) /\ IsList(w[2])
        /\ \A k \in DOMAIN w[1] :
              {w[1][k].eventTime, w[1][k].lastSeen, w[1][k].firstSeen} \subseteq SomeTime
        /\ \A k \in DOMAIN w[2] : w[2][k].name # NoName

\* One for a query: its series.
ASSUME PrometheusAssumption ==
    \A w \in Answers["prometheus"] :
        /\ IsList(w) /\ Len(w) = 1 /\ IsList(w[1])
        /\ \A k \in DOMAIN w[1] :
              /\ DOMAIN w[1][k] = {"labels", "samples"} /\ IsList(w[1][k].samples)
              /\ \A x \in ToSet(w[1][k].samples) : x.v \in Int \cup {NoValue}

\* One for a namespace: its log streams.
ASSUME LogsAssumption ==
    \A w \in Answers["logs"] :
        /\ IsList(w) /\ Len(w) = 1 /\ IsList(w[1])
        /\ \A k \in DOMAIN w[1] : w[1][k].count \in Nat

\* The investigators whose HTTP client has a timeout.
Timed == Who \ {"kubernetes"}

VARIABLES
    who, inc,
    world,      \* k |-> what source k would answer, request by request
    found,      \* k |-> what the investigator makes of those answers
    turn,       \* the source being asked
    asked,      \* requests of it that were answered
    part,       \* what they gave
    out,
    cancelled,  \* the request's context
    returned,
    heard       \* history: <<k, its evidence>> of the sources that answered

call == <<who, inc, world, found>>
vars == <<call, turn, asked, part, out, cancelled, returned, heard>>

\* Only the deploys and kubernetes investigators merge configured names.
Sources ==
    CASE who = "deploys" -> NameSet(DefaultRepos, inc.scope.repos)
      [] who = "kubernetes" -> NameSet(DefaultNamespaces, inc.scope.namespaces)
      [] who = "prometheus" -> ExtractQueries(inc.alerts)
      [] who = "logs" -> inc.scope.namespaces

\* The evidence in the reply to request n of a source.
EvidenceIn(src, n, reply) ==
    CASE who = "deploys" /\ n = 1 -> PullRequestEvidence(src, reply, inc)
      [] who = "deploys" /\ n = 2 -> ReleaseEvidence(src, reply, inc)
      [] who = "kubernetes" /\ n = 1 -> EventEvidence(src, reply, inc)
      [] who = "kubernetes" /\ n = 2 -> PodEvidence(src, reply, Now)
      [] who = "prometheus" -> SeriesEvidence(reply)
      [] who = "logs" -> StreamEvidence(src, reply)

\* With no kubeconfig the kubernetes investigator returns at once; main does
\* not wire the others when they are not configured.
Init ==
    /\ who \in Who
    /\ inc \in Incidents
    /\ world \in [DOMAIN Sources -> Answers[who]]
    /\ found = [k \in DOMAIN world |->
                   [n \in DOMAIN world[k] |-> EvidenceIn(Sources[k], n, world[k][n])]]
    /\ turn = 1 /\ asked = 0
    /\ part = <<>> /\ out = <<>>
    /\ cancelled = FALSE
    /\ returned \in {FALSE, who = "kubernetes"}
    /\ heard = {}

Asking == ~returned /\ turn <= Len(world)

NextSource == turn' = turn + 1 /\ asked' = 0 /\ part' = <<>>

\* A request is answered, and it is not the source's last.
AnswerPart ==
    /\ Asking /\ ~cancelled
    /\ asked + 1 < Len(world[turn])
    /\ part' = part \o found[turn][asked + 1]
    /\ asked' = asked + 1
    /\ UNCHANGED <<call, turn, out, cancelled, returned, heard>>

\* The last one is.
AnswerLast ==
    /\ Asking /\ ~cancelled
    /\ asked + 1 = Len(world[turn])
    /\ LET all == part \o found[turn][asked + 1]
       IN  out' = out \o all /\ heard' = heard \cup {<<turn, all>>}
    /\ NextSource
    /\ UNCHANGED <<call, cancelled, returned>>

\* Mutants of Fail: what the source gave already is kept; the source is asked
\* again until it answers.
FailKeepingPart ==
    /\ Asking
    /\ out' = out \o part
    /\ NextSource
    /\ UNCHANGED <<call, cancelled, returned, heard>>
FailAndRetry ==
    /\ Asking /\ ~cancelled
    /\ asked' = 0 /\ part' = <<>>
    /\ UNCHANGED <<call, turn, out, cancelled, returned, heard>>

\* Transport, status or decoding: "log.Printf(...); continue".
Fail ==
    /\ Asking
    /\ NextSource
    /\ UNCHANGED <<call, out, cancelled, returned, heard>>

Return ==
    /\ ~returned /\ turn > Len(world)
    /\ returned' = TRUE
    /\ UNCHANGED <<call, turn, asked, part, out, cancelled, heard>>

\* The client of the request goes away.
Cancel ==
    /\ ~returned /\ ~cancelled
    /\ cancelled' = TRUE
    /\ UNCHANGED <<call, turn, asked, part, out, returned, heard>>

Next == AnswerPart \/ AnswerLast \/ Fail \/ Return \/ Cancel

\* An HTTP call ends, one way or the other, at its timeout or with its
\* context; client-go's only with its context.
Fairness ==
    /\ WF_vars(Return)
    /\ WF_vars((who \in Timed \/ cancelled) /\ (Fail \/ AnswerPart \/ AnswerLast))

Spec == Init /\ [][Next]_vars /\ Fairness

-----------------------------------------------------------------------------
(* What is checked. *)

Sweep == INSTANCE SourceSweep
    WITH whole <- [k \in DOMAIN found |-> FlattenSeq(found[k])]

\* A source contributes what all its requests gave, or nothing: a failure
\* between the two requests of a repository or a namespace loses what the
\* first gave, never part of it, and never another source's evidence
\* (Investigate's loops, deploys.go:51, kubernetes.go:78).
MeetsSweep == Sweep!Spec

\* Of a repository that answered, each pull request merged inside the window
\* is reported under its own number, or was pushed off GitHub's page by a page
\* of other pull requests touched since the merge: never by how old it is, nor
\* by anything before the merge.  listMergedPRs asks for the last updated, and
\* not, as its comment has it (github.go:52), for the last merged.
NoMergeMissed ==
    who = "deploys" =>
    \A h \in heard :
        LET closed == world[h[1]][1]
        IN  \A k \in DOMAIN closed :
                LET merged == closed[k].merged
                IN  (merged # NoTime /\ inc.triggeredAt - inc.window <= merged
                                     /\ merged <= inc.triggeredAt)
                    => \/ \E e \in ToSet(h[2]) :
                             e.data["number"] = closed[k].number /\ e.at = merged
                       \/ Cardinality({j \in DOMAIN closed \ {k} :
                                          closed[j].updated >= merged}) >= PerPage

Dated(e) == e.source = "github.deploys" \/ (e.source = "kubernetes" /\ e.data["pod"] = NoName)

\* Deploys, releases and warning events are reported only at a time between
\* the window's start and the trigger, also when the window is empty or
\* negative; and, of two deploys, the one nearer to the trigger never weighs
\* less (inWindow, confidence).
EvidenceInWindow ==
    \A e \in ToSet(out) :
        Dated(e) =>
            /\ inc.triggeredAt - inc.window <= e.at
            /\ e.at <= inc.triggeredAt
            /\ \A f \in ToSet(out) :
                  (who = "deploys" /\ e.at <= f.at) => e.confidence <= f.confidence

\* The series or streams of a reply that can be reported, and how loud.
Level(s) == IF who = "prometheus" THEN Max({x.v : x \in ToSet(s.samples)}) ELSE s.count

Reportable(reply) ==
    IF who = "prometheus" THEN Usable(reply) ELSE Selected(reply, LAMBDA s : s.count > 0)

\* At most three series of a query, and streams of a namespace, are reported,
\* each once, and none that is left out is louder than one that is not
\* (evidenceFromSeries, evidenceFromStreams).
LoudestKept ==
    who \in {"prometheus", "logs"} =>
    \A h \in heard :
        LET heardOf == Reportable(world[h[1]][1])
        IN  /\ Len(h[2]) = Min({3, Len(heardOf)})
            /\ \E of \in [DOMAIN h[2] -> DOMAIN heardOf] :
                  /\ \A j, k \in DOMAIN h[2] : j # k => of[j] # of[k]
                  /\ \A k \in DOMAIN h[2] : h[2][k].labels = heardOf[of[k]].labels
                  /\ \A j \in DOMAIN heardOf, k \in DOMAIN h[2] :
                        (\A i \in DOMAIN h[2] : of[i] # j)
                        => Level(heardOf[j]) <= Level(heardOf[of[k]])

\* An investigator returns by itself when its client has a timeout, however
\* its sources fail, and any of them does once its request is cancelled: the
\* fairness that FanOut takes from its Bounded investigators.
Returns == (who \in Timed \/ cancelled) ~> returned
=============================================================================
