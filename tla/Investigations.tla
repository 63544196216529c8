--------------------------- MODULE Investigations ---------------------------
(***************************************************************************)
(* The data every part of lolo exchanges: internal/storage/storage.go's    *)
(* Investigation, and its Storage interface's "not found" answer.          *)
(* An incident is any record with an id field; what its other fields hold  *)
(* is up to the module that instantiates this one.  The hypotheses of one  *)
(* run are a single value, its Report.                                     *)
(***************************************************************************)
EXTENDS Naturals

CONSTANTS
    Id,          \* incident ids
    Incident,    \* incidents, records with (at least) a field id
    Report,      \* the ranked hypotheses of one run
    Encodable,   \* the reports encoding/json can marshal
    Note,        \* resolutions an operator submits
    Unresolved,  \* the zero Resolution
    NotFound,    \* what Get answers for an id it does not hold
    Time         \* StartedAt values, in clock ticks

ASSUME IncidentAssumption == \A i \in Incident : i.id \in Id
ASSUME EncodableAssumption == Encodable \subseteq Report
ASSUME TimeAssumption == Time \subseteq Nat

Investigation ==
    [incident : Incident, hypotheses : Report, startedAt : Time,
     resolution : Note \cup {Unresolved}]

ASSUME NotFoundAssumption == NotFound \notin Investigation

Resolved(inv) == inv.resolution # Unresolved

IdOf(inv) == inv.incident.id
=============================================================================
