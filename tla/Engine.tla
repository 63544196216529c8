------------------------------- MODULE Engine -------------------------------
(***************************************************************************)
(* The running server: cmd/rca-server/main.go's runAndRespond handlers and *)
(* internal/server/dashboard/dashboard.go's resolve handlers, all on one   *)
(* store, as net/http runs them, each in a goroutine of its own.           *)
(*                                                                         *)
(* A job is one POST /webhook/alertmanager or /investigate request.  Its   *)
(* fan-out is the one of Gather: the memory investigator and the live ones *)
(* answer in any order, then the evidence is joined.  A report is the set  *)
(* of the evidence that reached the ranker, whose work CorrelatingRanker   *)
(* models.                                                                 *)
(***************************************************************************)
EXTENDS MemoryInvestigator

CONSTANTS
    Backends,      \* the backends openStorage may have picked
    Capacity, TicksPerSecond, NoRow,   \* see RingStore and SqliteStore
    Job,           \* requests that can be in flight at once
    Resolver,      \* dashboard resolve requests that can be in flight at once
    Sinks,         \* the configured sinks, in the order main appends them
    LiveAnswers,   \* evidence sets the live investigators may return
    Pending,       \* an investigator that has not answered
    MaxRuns,       \* bound: investigations started
    MaxResolves,   \* bound: resolve requests made
    MaxFaults      \* bound: disconnects, storage errors and crashes
ASSUME BackendsAssumption == Backends \subseteq {"ring", "sqlite"}
ASSUME BoundsAssumption == MaxRuns \in Nat /\ MaxResolves \in Nat /\ MaxFaults \in Nat
ASSUME ClockAssumption == 0..(MaxRuns - 1) \subseteq Time
ASSUME SinksAssumption == Sinks \in Seq(Names(Sinks))
\* A resolve stamps the note with its time, which is never the zero time.
ASSUME NoteAssumption == Unresolved \notin Note

\* The part of a recollection the later steps can tell apart.
Recollection == [past : Id, fix : Note \cup {Unresolved}]

\* Some live answer is always possible, and whatever part of it is had by the
\* time the request is cancelled, it makes a report with any recollections.
ASSUME ReportAssumption ==
    /\ LiveAnswers # {}
    /\ \A memory \in SUBSET Recollection : \A all \in LiveAnswers :
           \A live \in SUBSET all : memory \cup live \in Report

VARIABLES
    backend,               \* "ring" or "sqlite"
    entries, byID, next,   \* the ring
    rows,                  \* the table
    clock,                 \* the next StartedAt
    job,                   \* j |-> its request
    resolver,              \* r |-> its request
    resolves, faults,      \* spent of the bounds
    runs,                  \* history: every run that was ranked
    submitted,             \* history: <<id, note>> of every resolve request
    acked                  \* history: <<id, StartedAt>> of every run whose
                           \* resolve was acknowledged

Ring == INSTANCE RingStore
Db == INSTANCE SqliteStore
ASSUME StoreAssumption ==
    Capacity \in Int /\ TicksPerSecond \in Nat \ {0} /\ NoRow \notin Db!Row

store == <<backend, entries, byID, next, rows>>
history == <<runs, submitted, acked>>
vars == <<store, clock, job, resolver, resolves, faults, history>>

-----------------------------------------------------------------------------
(* The Storage interface, on the backend that was configured. *)

Get(id) == IF backend = "ring" THEN Ring!Get(id) ELSE Db!Get(id)

Lists(limit) == IF backend = "ring" THEN {Ring!List(limit)} ELSE Db!List(limit)

SaveOk(inv) ==
    /\ IF backend = "ring" THEN Ring!Save(inv) /\ UNCHANGED rows
       ELSE Db!Save(inv) /\ UNCHANGED <<entries, byID, next>>
    /\ UNCHANGED backend

\* The ring never fails and ignores its context.  SQLite fails on a report it
\* cannot marshal, on a context that is already cancelled, and otherwise
\* whenever the file does (busy, full).
MustFail(inv, gone) == backend = "sqlite" /\ (gone \/ ~Db!Marshals(inv))

Fault == faults < MaxFaults /\ faults' = faults + 1

SaveFails(inv, gone) ==
    /\ backend = "sqlite"
    /\ \/ MustFail(inv, gone) /\ UNCHANGED faults
       \/ ~MustFail(inv, gone) /\ Fault
    /\ Db!SaveFails
    /\ UNCHANGED <<backend, entries, byID, next>>

-----------------------------------------------------------------------------
(* Jobs. *)

NoInvestigation == [pc |-> "idle"]
NoResolve == [pc |-> "idle"]

\* openStorage, and main's wiring.
Init ==
    /\ backend \in Backends
    /\ Ring!New
    /\ rows = [id \in Id |-> NoRow]
    /\ clock = 0
    /\ job = [j \in Job |-> NoInvestigation]
    /\ resolver = [r \in Resolver |-> NoResolve]
    /\ resolves = 0 /\ faults = 0
    /\ runs = {} /\ submitted = {} /\ acked = {}

\* handleAlertmanager, handleManual: an accepted payload, and runAndRespond's
\* started := time.Now().
Receive(j) ==
    /\ job[j].pc = "idle"
    /\ clock < MaxRuns
    /\ clock' = clock + 1
    /\ \E inc \in Incident :
          job' = [job EXCEPT ![j] =
                     [pc |-> "investigating", inc |-> inc, started |-> clock,
                      gone |-> FALSE, memory |-> Pending, live |-> Pending,
                      tried |-> 0]]
    /\ UNCHANGED <<store, resolver, resolves, faults, history>>

Recollections(evidence) ==
    {[past |-> e.past, fix |-> e.fix] : e \in Names(evidence)}

\* The memory investigator's List, and what it makes of it.  On an error it
\* returns no evidence.
AnswerMemory(j) ==
    /\ job[j].pc = "investigating"
    /\ job[j].memory = Pending
    /\ \/ /\ backend = "ring" \/ ~job[j].gone
          /\ \E past \in Lists(LookbackLimit) :
                job' = [job EXCEPT ![j].memory =
                           Recollections(Investigate(past, job[j].inc))]
          /\ UNCHANGED faults
       \/ /\ backend = "sqlite"
          /\ IF job[j].gone THEN UNCHANGED faults ELSE Fault
          /\ job' = [job EXCEPT ![j].memory = {}]
    /\ UNCHANGED <<store, clock, resolver, resolves, history>>

\* Mutant of AnswerLive: a client that ignores the request's context.
AnswerLiveUncancelled(j) ==
    /\ job[j].pc = "investigating"
    /\ ~job[j].gone
    /\ job[j].live = Pending
    /\ \E live \in LiveAnswers : job' = [job EXCEPT ![j].live = live]
    /\ UNCHANGED <<store, clock, resolver, resolves, faults, history>>

\* The live investigators' answers.  On a cancelled context their clients give
\* up, and what they had found by then is all they return (LiveInvestigators).
AnswerLive(j) ==
    /\ job[j].pc = "investigating"
    /\ job[j].live = Pending
    /\ \E live \in IF job[j].gone THEN UNION {SUBSET all : all \in LiveAnswers}
                  ELSE LiveAnswers :
          job' = [job EXCEPT ![j].live = live]
    /\ UNCHANGED <<store, clock, resolver, resolves, faults, history>>

ReportOf(j) == job[j].memory \cup job[j].live

RunOf(j) ==
    [incident |-> job[j].inc, hypotheses |-> ReportOf(j),
     startedAt |-> job[j].started, resolution |-> Unresolved]

\* Mutant of Rank: straight to the sinks.
RankUnsaved(j) ==
    /\ job[j].pc = "investigating"
    /\ job[j].memory # Pending
    /\ job[j].live # Pending
    /\ job' = [job EXCEPT ![j].pc = "emitting"]
    /\ runs' = runs \cup {RunOf(j)}
    /\ UNCHANGED <<store, clock, resolver, resolves, faults, submitted, acked>>

\* investigate returns: RunAll's Wait, Flatten and Rank.  No ranker main wires
\* returns an error, so the 500 reply of runAndRespond is never taken.
Rank(j) ==
    /\ job[j].pc = "investigating"
    /\ job[j].memory # Pending
    /\ job[j].live # Pending
    /\ job' = [job EXCEPT ![j].pc = "ranked"]
    /\ runs' = runs \cup {RunOf(j)}
    /\ UNCHANGED <<store, clock, resolver, resolves, faults, submitted, acked>>

\* Mutant of Save: retried until it succeeds.
SaveRetried(j) ==
    /\ job[j].pc = "ranked"
    /\ ~MustFail(RunOf(j), job[j].gone)
    /\ SaveOk(RunOf(j))
    /\ job' = [job EXCEPT ![j].pc = "emitting"]
    /\ UNCHANGED <<clock, resolver, resolves, faults, history>>

\* runAndRespond's storage.Save: a new record, with no resolution.  An error
\* is only logged.
Save(j) ==
    /\ job[j].pc = "ranked"
    /\ \/ /\ ~MustFail(RunOf(j), job[j].gone)
          /\ SaveOk(RunOf(j))
          /\ UNCHANGED faults
       \/ SaveFails(RunOf(j), job[j].gone)
    /\ job' = [job EXCEPT ![j].pc = "emitting"]
    /\ UNCHANGED <<clock, resolver, resolves, history>>

\* Mutant of Emit: one turn too many.
EmitOnceMore(j) ==
    /\ job[j].pc = "emitting"
    /\ job[j].tried <= Len(Sinks)
    /\ job' = [job EXCEPT ![j].tried = @ + 1]
    /\ UNCHANGED <<store, clock, resolver, resolves, faults, history>>

\* One turn of runAndRespond's loop over the sinks; whether the sink took the
\* report or failed, the loop goes on.
Emit(j) ==
    /\ job[j].pc = "emitting"
    /\ job[j].tried < Len(Sinks)
    /\ job' = [job EXCEPT ![j].tried = @ + 1]
    /\ UNCHANGED <<store, clock, resolver, resolves, faults, history>>

\* Mutant of Respond: a sink that fails ends the loop.
RespondOnFailure(j) ==
    /\ job[j].pc = "emitting"
    /\ job' = [job EXCEPT ![j] = NoInvestigation]
    /\ UNCHANGED <<store, clock, resolver, resolves, faults, history>>

\* The JSON reply: 200 whatever the store and the sinks did.
Respond(j) ==
    /\ job[j].pc = "emitting"
    /\ job[j].tried = Len(Sinks)
    /\ job' = [job EXCEPT ![j] = NoInvestigation]
    /\ UNCHANGED <<store, clock, resolver, resolves, faults, history>>

\* The client gives up: net/http cancels the request's context.
Disconnect(j) ==
    /\ job[j].pc # "idle"
    /\ ~job[j].gone
    /\ Fault
    /\ job' = [job EXCEPT ![j].gone = TRUE]
    /\ UNCHANGED <<store, clock, resolver, resolves, history>>

-----------------------------------------------------------------------------
(* Resolves. *)

\* resolve's Get; a missing investigation is a 404 and the request is over.
ResolveGet(r) ==
    /\ resolver[r].pc = "idle"
    /\ resolves < MaxResolves
    /\ resolves' = resolves + 1
    /\ \E id \in Id, note \in Note :
          /\ submitted' = submitted \cup {<<id, note>>}
          /\ resolver' = [resolver EXCEPT ![r] =
                             IF Get(id) = NotFound THEN NoResolve
                             ELSE [pc |-> "got", inv |-> Get(id), note |-> note]]
    /\ UNCHANGED <<store, clock, job, faults, runs, acked>>

\* Mutant of ResolveSave: the row as it is now, with the report of the page.
ResolveSaveMixed(r) ==
    /\ resolver[r].pc = "got"
    /\ Get(IdOf(resolver[r].inv)) # NotFound
    /\ LET inv == [Get(IdOf(resolver[r].inv)) EXCEPT
                      !.hypotheses = resolver[r].inv.hypotheses,
                      !.resolution = resolver[r].note]
       IN  /\ ~MustFail(inv, FALSE)
           /\ SaveOk(inv)
           /\ acked' = acked \cup {<<IdOf(inv), inv.startedAt>>}
    /\ resolver' = [resolver EXCEPT ![r] = NoResolve]
    /\ UNCHANGED <<clock, job, resolves, faults, runs, submitted>>

\* resolve's Save of the copy it got, with the resolution set on it; then the
\* redirect, or a 500.
ResolveSave(r) ==
    /\ resolver[r].pc = "got"
    /\ LET inv == [resolver[r].inv EXCEPT !.resolution = resolver[r].note]
       IN  \/ /\ ~MustFail(inv, FALSE)
              /\ SaveOk(inv)
              /\ acked' = acked \cup {<<IdOf(inv), inv.startedAt>>}
              /\ UNCHANGED faults
           \/ SaveFails(inv, FALSE) /\ UNCHANGED acked
    /\ resolver' = [resolver EXCEPT ![r] = NoResolve]
    /\ UNCHANGED <<clock, job, resolves, runs, submitted>>

-----------------------------------------------------------------------------

\* The process dies and is started again: requests in flight are gone, and so
\* is the ring; the table is not.
Crash ==
    /\ Fault
    /\ job' = [j \in Job |-> NoInvestigation]
    /\ resolver' = [r \in Resolver |-> NoResolve]
    /\ Ring!Restart
    /\ acked' = IF backend = "ring" THEN {} ELSE acked
    /\ UNCHANGED <<backend, rows, clock, resolves, runs, submitted>>

JobStep(j) ==
    Receive(j) \/ AnswerMemory(j) \/ AnswerLive(j) \/ Rank(j) \/ Save(j)
        \/ Emit(j) \/ Respond(j) \/ Disconnect(j)

Next ==
    \/ \E j \in Job : JobStep(j)
    \/ \E r \in Resolver : ResolveGet(r) \/ ResolveSave(r)
    \/ Crash

Spec == Init /\ [][Next]_vars

\* Every handler goroutine that can run does.  The memory investigator, the
\* store and the sinks return by themselves (busy_timeout, HTTP timeouts); a
\* live investigator only surely when the context is cancelled, since the
\* Kubernetes client has no timeout.
Abandoned(j) == job[j].pc # "idle" /\ job[j].gone

Progress(j) ==
    \/ AnswerMemory(j)
    \/ Abandoned(j) /\ AnswerLive(j)
    \/ Rank(j) \/ Save(j) \/ Emit(j) \/ Respond(j)

Fairness == \A j \in Job : WF_vars(Progress(j))

FairSpec == Spec /\ Fairness

-----------------------------------------------------------------------------
(* What is checked. *)

RunningJob ==
    [pc : {"investigating", "ranked", "emitting"}, inc : Incident,
     started : 0..(MaxRuns - 1), gone : BOOLEAN,
     memory : Report \cup {Pending}, live : Report \cup {Pending},
     tried : 0..Len(Sinks)]

TypeOK ==
    /\ backend \in Backends
    /\ Ring!TypeOK
    /\ Db!TypeOK
    /\ clock \in 0..MaxRuns
    /\ job \in [Job -> RunningJob \cup {NoInvestigation}]
    /\ resolver \in [Resolver -> [pc : {"got"}, inv : Investigation, note : Note]
                                    \cup {NoResolve}]
    /\ resolves \in 0..MaxResolves
    /\ faults \in 0..MaxFaults
    /\ runs \subseteq Investigation
    /\ submitted \subseteq Id \X Note

Stored == {id \in Id : Get(id) # NotFound}

\* Interleaved handlers never mix their data: what a page shows for an id is,
\* whole, one run of an incident with that id, and its resolution is a note
\* an operator submitted for that very id (runAndRespond, resolve).
RecordIntegrity ==
    \A id \in Stored :
        /\ [Get(id) EXCEPT !.resolution = Unresolved] \in runs
        /\ IdOf(Get(id)) = id
        /\ Resolved(Get(id)) => <<id, Get(id).resolution>> \in submitted

MemoryEvidence(report) == {e \in report : e \notin UNION LiveAnswers}

\* Memory evidence is about a run that did happen, of another incident that
\* shares the alert or part of the scope, and the fix it quotes is one an
\* operator submitted for that incident: no run ever remembers itself or
\* somebody else's fix (Investigate).
RecallIsHonest ==
    \A run \in runs : \A e \in MemoryEvidence(run.hypotheses) :
        /\ e.past # IdOf(run)
        /\ \E p \in runs :
              /\ IdOf(p) = e.past
              /\ \/ p.incident.summary = run.incident.summary
                 \/ ScopeSet(p.incident.scope) \cap ScopeSet(run.incident.scope) # {}
        /\ e.fix # Unresolved => <<e.past, e.fix>> \in submitted

\* On the table, the "past RCA" link of every memory evidence leads to a page,
\* even after a crash: the investigation it names is still there.
PastLinksOpen ==
    backend = "sqlite" =>
    \A run \in runs : \A e \in MemoryEvidence(run.hypotheses) : e.past \in Stored

\* Would a run of inc that asks now be told a fix for the past incident id?
Surfaces(id, inc) ==
    \A past \in Lists(LookbackLimit) :
        \E e \in Names(Investigate(past, inc)) : e.past = id /\ e.fix # Unresolved

FixSurfacesFor(acks) ==
    \A ack \in acks : \A inc \in Incident : \A run \in runs :
        (/\ IdOf(run) = ack[1] /\ run.startedAt = ack[2]
         /\ inc.id # IdOf(run) /\ SameSignal(run.incident, inc))
        => Surfaces(ack[1], inc)

\* "The memory investigator surfaces the Notes field on future similar
\* incidents" (storage.go:24): once the operator's resolve is acknowledged,
\* a run of another incident of the same alert is told the fix.
FixSurfaces == FixSurfacesFor(acked)

\* The same, for as long as the resolved run is the one on file.
FixSurfacesWhileOnFile ==
    FixSurfacesFor({ack \in acked : Get(ack[1]).startedAt = ack[2]})

\* The table holds no more than the lookback, and no incident is like more of
\* it than the memory investigator returns.
Uncrowded ==
    /\ Cardinality({id \in Id : rows[id] # NoRow}) <= LookbackLimit
    /\ \A past \in Lists(LookbackLimit) : \A inc \in Incident :
          Cardinality({k \in DOMAIN past : IsHit(past[k], inc)}) <= TopK

\* On the table, while it is uncrowded, that does hold: a later save of the
\* same id is all that can take an acknowledged fix away, no crash and no save
\* under way elsewhere can (resolve, runAndRespond, Investigate).
TableKeepsFix == backend = "sqlite" => FixSurfacesWhileOnFile \/ ~Uncrowded

\* The steps by which a request turns to the sinks, and by which it replies
\* (a crash ends it too, and is one of the faults).
TurnsToSinks(j) == job[j].pc # "emitting" /\ job'[j].pc = "emitting"
Replies(j) == job[j].pc = "emitting" /\ job'[j].pc = "idle" /\ faults' = faults

Filed(j) == Get(job[j].inc.id) = RunOf(j)

\* "investigators -> rank -> persist -> emit sinks" (main.go:139): on the
\* table, a request turns to the sinks with its own run on file, whole and
\* unresolved, or else the store could not take it and has what it had; and it
\* replies only when every sink was tried, whatever became of the save and of
\* the sinks before (runAndRespond).
FiledBeforeEmitted ==
    [][\A j \in Job :
          /\ (backend = "sqlite" /\ TurnsToSinks(j)) =>
                \/ Filed(j)'
                \/ /\ MustFail(RunOf(j), job[j].gone) \/ faults' > faults
                   /\ UNCHANGED rows
          /\ Replies(j) => job[j].tried = Len(Sinks)]_vars

\* GET /api/investigations can always be served: json.Encoder meets no
\* investigation it cannot marshal (apiList, writeJSON).
ApiListEncodes ==
    \A listed \in Lists(100) : \A k \in DOMAIN listed :
        listed[k].hypotheses \in Encodable

\* Once its client is gone, a request ends: no call the handler still makes
\* can block without end.
EndsOnceClientGone ==
    \A j \in Job : Abandoned(j) ~> job[j].pc = "idle"

\* Once the live investigators have answered, so does the request, whatever
\* the store and the sinks do.
EndsOnceAnswered ==
    \A j \in Job :
        (job[j].pc # "idle" /\ job[j].live # Pending) ~> job[j].pc = "idle"
=============================================================================
