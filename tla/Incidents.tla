------------------------------ MODULE Incidents ------------------------------
(***************************************************************************)
(* internal/incident/incident.go, and what the investigators make of an    *)
(* incident: its window and the names of its scope.  An incident is        *)
(* [id, triggeredAt, window, scope, summary, alerts]; times are ticks, a   *)
(* few to a second, and a scope maps services, namespaces, clusters and    *)
(* repos to sequences of names as they came in, blanks and all.            *)
(***************************************************************************)
EXTENDS Integers, Sequences, SequencesExt, StableSort, Evidence

CONSTANTS
    TicksPerSecond,
    NoTime,   \* the zero time.Time
    Trim      \* strings.TrimSpace: raw name |-> name, NoName if it is blank
ASSUME ClockAssumption == TicksPerSecond \in Nat \ {0}
ASSUME NoTimeAssumption == NoTime \notin Int

Minute == 60 * TicksPerSecond
Unix(t) == t \div TicksPerSecond

Start(inc) == inc.triggeredAt - inc.window
End(inc) == inc.triggeredAt

\* Mutant of InWindow: nothing closes the window.
InWindowStillOpen(t, inc) == t # NoTime /\ Start(inc) <= t

\* deploys.go and kubernetes.go, inWindow.
InWindow(t, inc) == t # NoTime /\ Start(inc) <= t /\ t <= End(inc)

\* The first occurrence of each member of s, in order.
Distinct(s) == Picked(s, {k \in DOMAIN s : \A j \in DOMAIN s : j < k => s[j] # s[k]}, {})

\* repoSet and nsSet: the configured names, then the incident's own.
NameSet(defaults, fromScope) ==
    LET all == defaults \o fromScope
        trimmed == [k \in DOMAIN all |-> Trim[all[k]]]
    IN  Distinct(Selected(trimmed, LAMBDA name : name # NoName))
=============================================================================
