# lolo: a TLA+ verification project

lolo is a root-cause-analysis server: an alert comes in, investigators collect
evidence, a ranker turns it into hypotheses, the result is stored, sent to the
sinks and returned. This directory holds TLA+ models of that program, the TLC
runs that check them and TLAPS proofs about them. All paths are relative to the
repository root; `main.go` is `src/cmd/rca-server/main.go`.

1. Inventory of the system
2. The models and how they correspond to the code
3. The runs: what each checks, its bounds, why they are enough
4. Fairness
5. Proofs
6. Where the code and its documentation disagree
7. What is only model-checked, and what is not modelled
8. Plan

## 1. Inventory

| Component | Source | State it keeps | Operations | Talks to |
|---|---|---|---|---|
| Engine | `main.go` 111–181 | none of its own; each HTTP request is a goroutine with its incident, context, `started` time and results | `handleAlertmanager`, `handleManual`, `runAndRespond`, `investigate` | triggers (parse), fan-out (call), ranker (call), storage (`Save`), sinks (`Emit`) |
| Fan-out | `internal/investigator/investigator.go` | the `results` slice and a WaitGroup, per request | `RunAll`, `Flatten` | every investigator, one goroutine each |
| Storage contract | `internal/storage/storage.go` | – | `Save`, `Get`, `List` | engine, dashboard, memory investigator |
| Ring storage | `internal/storage/memory/memory.go` | `entries`, `byID`, `next` under an RWMutex; lost on restart | `Save` (grow or evict), `Get`, `List` | |
| SQLite storage | `internal/storage/sqlite/sqlite.go` | table `investigations(id, started_at, data)` | `Save` (upsert), `Get`, `List` | a file that survives a restart |
| Memory investigator | `internal/investigators/memory/memory.go` | none; reads the store | `Investigate` | storage `List` |
| Live investigators | `internal/investigators/{deploys,kubernetes,logs,prometheus}` | none between calls; HTTP or client-go clients | `Investigate`: repositories, namespaces or queries in turn, one or two requests for each | GitHub, the Kubernetes API, VictoriaLogs, Prometheus |
| Correlating ranker | `internal/hypothesis/correlating_ranker.go` | none (a map of buckets while it runs) | `Rank` | |
| LLM ranker, OpenAI client | `internal/hypothesis/llm_ranker.go`, `internal/llm/openai/openai.go` | none | `Rank`, `narrate`, `Narrate` | the inner ranker, a chat-completion endpoint |
| Dashboard and JSON API | `internal/server/dashboard/dashboard.go` | none | list and detail pages, `resolve`, `apiList`, `apiGet` | storage |
| Triggers | `internal/trigger/{alertmanager,manual}`, `internal/incident` | none | `Parse`: one body, one incident (id, start, window, scope) | engine |
| Sinks | `internal/output/{stdout,slack}` | none | `Emit` | standard output, a Slack webhook |
| Routing and authentication | `main.go` 72–76, 208–261, `dashboard.Register` | the mux and two tokens, fixed at start | `authMiddleware`, the mux's patterns, the handlers' own checks | every handler |
| Configuration, start | `main.go` 33–96, 190–206 | constants of the process | `openStorage`, `main` | |

How they interact. One POST is one goroutine of `net/http`. It starts one
goroutine per investigator and waits for all of them; the memory investigator
is one of them and reads the store that other requests are writing. After the
ranker, which may call a language model several times in a row, the handler saves a
**new** record, logs an error of `Save` without stopping, tries each sink once in order
(again only logging errors) and replies. The dashboard's `resolve` reads a
record, sets its resolution and writes the whole record back; nothing locks the
record in between. A client that goes away cancels its request's context, which reaches
the investigators, the language model, SQLite and the Slack sink, but not the ring.

What is hard about it: goroutines that share a slice; a read-modify-write of a
record that other handlers write; two backends with different memories of the
same `Save`; clients without a timeout; Go's random map order in the ranker;
values no JSON encoder takes; a store that fails while the run goes on; a source that
fails between its two requests; notifications of one episode that come again and
again, in other orders and states; caps at every selection; and a restart that loses the ring, or keeps the table, with requests in flight.
`PROJECT.json` lists each hazard at its line.

What makes each component correct, in one line each:

* **Fan-out**: returns only with every answer in its slot, and what it returns
  does not depend on who was first.
* **Storage**: a `Save` decides what `Get` answers for that id and for no other,
  except that a bounded store may forget. The ring remembers exactly the last
  `Cap` saves; the table forgets nothing.
* **Memory investigator**: recalls the most similar past incidents, never the
  incident itself, with hints both incidents share.
* **Correlating ranker**: partitions the evidence, scores each bucket from its
  own evidence, shows the best scores first.
* **LLM ranker**: changes prose only, and cannot hold an investigation up
  beyond its budget.
* **Live investigators**: a source contributes all it has or nothing, and a failure
  costs that source only; dated evidence lies in the window; what a cap drops is
  never louder than what it keeps; each returns by itself, or once cancelled.
* **Triggers**: as long as the alert that fired first is in them, the
  notifications of a group open one record while the alerts keep one name, and
  alerts that join cannot move the trigger or widen the scope.
* **Routing and authentication**: no handler runs without the credential its
  kind asks for, and nothing else is turned away.
* **Sinks**: a message accounts for the whole ranking, shown or counted.
* **Engine**: a stored record is, whole, one run of that incident with a note
  submitted for that incident; a recollection is of a run that happened; an
  acknowledged fix keeps surfacing while its run is on file and nothing crowds it out;
  a report is on file before it is emitted, or the store could not take it; every request ends once what it waits for has answered or been cancelled.

## 2. The models

| Module | Models | Correspondence |
|---|---|---|
| `Investigations` | `storage.Investigation` | the shared data; ids, reports, notes and times are constants |
| `Storage` | the `Storage` interface | abstract: one variable, `lookup`, what `Get` answers; `Save`, `Forget` |
| `RingStore` | the ring | `entries`, `byID`, `next` are the Go fields (`byID` and `Slot` count slots from 1, 0 means absent; `next` counts from 0, as in Go); `SaveGrow`/`SaveEvict` are the branches of `Save`; `Get`, `List`; `Restart` is a new process |
| `RecentLog` | the ring's promise | abstract: the log of the last `Cap` saves and its latest entry per id |
| `SqliteStore` | the table | `rows` is the table; `Save` is the upsert after `json.Marshal`, `SaveFails` the error returns; `List` is the **set** of listings SQL may return |
| `StableSort` | `sort.SliceStable`, the filtering append loops, `xs[:n]` | operators; both are cases of `Picked`, the elements at some places in some order, which has no operator argument, so that facts about it can be proved once and cited |
| `Gather` | the fan-out's promise | abstract: answers in any order, then one join |
| `FanOut` | `RunAll`, `Flatten` | `spawned` is the loop index, `wg` the counter, `worker[i]` the goroutine's position, `results` the slice; `Spawn`, `Call`, `Write`, `Done`, `Return`, `Cancel` |
| `MemoryInvestigator` | the memory investigator | operators; scores are exact fractions |
| `Recall` | one call of it | state machine around the operators, to check them |
| `Evidence` | each investigator's `evidence.Evidence` | constructors: which scope keys each investigator puts where |
| `CorrelatingRanker` | `CorrelatingRanker.Rank` | `Visit` is one turn of the range over the map, in any order; `Finish` adds orphans, sorts and caps |
| `Incidents` | `incident.Incident`, its window, the names of its scope | operators; `Trim` is `strings.TrimSpace` on the names of an instance |
| `Triggers` | `alertmanager.Parse`, `manual.Parse` | operators from a decoded body and the clock to an incident |
| `Ingress` | `authMiddleware`, the mux, the handlers up to the engine or the store | a request is one step: `Refuse`, `NoRoute`, `Healthz`, `HandleAlertmanager`, `HandleManual`, `Dashboard`; `conf` is the process' two tokens; a path is the sequence of its segments, and `Wildcard` is the `{id}` of a pattern |
| `Deploys`, `Kubernetes`, `Prometheus`, `Logs` | what each live investigator makes of one reply | operators from a reply to the `Evidence` of it, in its order |
| `LiveInvestigators` | one call of `Investigate` of any of the four | `turn` is the loop index, `asked` the requests of that source that were answered, `part` the local `out` of `investigateRepo` and `investigateNamespace`; `AnswerPart`, `AnswerLast`, `Fail`, `Return`, `Cancel` |
| `SourceSweep` | the promise of the four | abstract: a source contributes everything, or nothing, in turn |
| `Slack` | `buildPayload` | an operator from a ranking to blocks |
| `Report` | the ranking on its way to Slack | `LLMRanker` extended with `Slack` |
| `LLMRanker` | `LLMRanker.Rank`, `Client.Narrate` | `Send` a call, then `Narrate`, `Keep` (any failure) or `Tick` (a second passes); `Cancel` |
| `Engine` | `runAndRespond` and `resolve`, on either store | `job[j]` and `resolver[r]` are requests with a program counter; an action per step; `Disconnect`, `Crash` |

How they compose. `Engine` extends `MemoryInvestigator` (its `AnswerMemory`
calls `Investigate` on what the store lists) and instantiates `RingStore` and
`SqliteStore` over its own store variables, so `Save` in the engine *is* `Save`
of the backend. `backend` is chosen in `Init` and never changes, as
`openStorage` does. The engine does not repeat the goroutines of `RunAll`: it
has the one-step gather of `Gather`, which `FanOut` is checked and proved to
implement. The ranker's arithmetic is not repeated either: in `Engine` a report is
the set of evidence that reached the ranker (`ReportOf`), as the handlers'
interleavings cannot tell two rankings of the same evidence apart.

The incidents of the engine's runs, and those of the live investigators', are
built by `Triggers` from notifications and manual requests, so two of them share
an id exactly when the code gives them one. `Report` gives `BuildPayload` what
`LLMRanker` returns. `FanOut` assumes which investigators return by themselves;
`LiveInvestigators`' `Returns` is the property it assumes.

The four live investigators are one state machine because their loops are one:
`who` selects the sources, the requests of a source and the operator that reads
a reply. `world` is what every source would answer, chosen in `Init`, and
`found` what the investigator makes of it, a function of `world` and the incident
that is kept so that it is evaluated once.

Abstractions worth knowing when reading the models:

* *Scores.* The ranker's are in thousandths, so that 1.2 and 1.4 are exact; the
  memory investigator's are fractions. For scopes of up to 12 names in all, Go's
  `float64` gives the same answer as the fraction at both thresholds (0.3 and 0.8),
  equality included.
* *Time.* In the stores a `StartedAt` is a natural number of ticks, several to a
  second, so that `Unix()` really loses something. In `Engine` it is the order
  in which requests read the clock.
  In `Incidents` and its users a time is a number of ticks of which
  `TicksPerSecond` make a second, or `NoTime`, Go's zero time.
* *Numbers of a series.* Integers, with `NoValue` for what `queryRange` skips.
  Infinite samples are left to `Engine`, where what they break is.
* *Credentials.* A scheme and a token; that a header is parsed and compared in constant
  time is not modelled.
* *Text.* Summaries, prompts, payload layout and logging are left out; a
  narrative keeps which hypothesis it is about and that it is not blank.
* *SQLite.* A statement is one atomic step and a committed row survives a crash;
  that is SQLite's promise, not checked here. Which of two rows with equal
  `started_at` comes first is left open, as SQL leaves it.
* *Locks.* The ring's mutex covers each whole method, so a method is one step.

Definitions whose name begins with that of another and that carry the comment
"Mutant of" are plausible bugs; they are not part of any specification. Each is
substituted for the definition it names to confirm that a property notices.

## 3. The runs

Runs that must pass:

| Run (cfg) | Question | Bounds, and why they are enough |
|---|---|---|
| `ring` (`MCRingStore`) | Do slots, head and index agree through any sequence of saves, evictions and restarts, and is the ring the log of the last saves? | 3 slots, 3 ids: one id can hold two or three slots while another is evicted, and the head wraps; the state space is closed, so sequences are of any length. The capacity is general in the proofs. |
| `sqlite` (`MCSqliteStore`) | Does the table keep the contract, forget nothing and order by what is in the data? | 3 ids, 4 ticks in 2 seconds (equal and different seconds), a report that encodes and one that does not; closed state space. |
| `fanout` (`MCFanOut`) | Does every schedule gather everything, in one order, and when does it return? | 3 investigators: one with evidence out of time order, one that may fail with part of its evidence, one without a timeout; simultaneous items across and inside investigators. The number is general in the proofs. |
| `recall` (`MCRecall`) | Is what is recalled what the weights, threshold, cap and hints must mean? | every listing of up to 3 out of 9 incidents overlapping in every way (same id, same alert, no scope, part of the scope, exactly 3/10, a blank name before and after the shared one), `topK` 2 so that the cut happens. |
| `ranker` (`MCCorrelatingRanker`) | Whatever the map order, is anything lost, misplaced or misordered? | every time-ordered list of at most 4 items from a menu of 9 that covers every investigator, equal times, equal scores, scopeless items, and scores the clamp cuts; `TopN` 2 so that the cap drops hypotheses. |
| `report` (`MCReport`) | Can a model that stalls, fails or dies change more than prose, or hold a run up, and does Slack tell what it leaves out? | `main`'s constants (top 3, no timeout given so 10 s), 0 to 7 hypotheses (the message shows 5) with 0 to 6 items of evidence (it shows 3), every mix of outcomes at every second. |
| `investigators` (`MCLiveInvestigators`) | What does each live investigator select, what does a failure cost, and when does it return? | a webhook's incident and manual ones with a window of an hour, 0 and minus a minute; two sources (one configured, one of the scope, a blank and a padded name between them; a namespace twice); a page of 2 for 3 pull requests out of 7, so that merges fall off it, two of them merged at one time; items at, before and after both ends of the window; up to 6 series and 5 streams where 3 are kept, with ties, negative and missing values; a failure and a cancellation at every position. |
| `ingress` (`MCIngress`) | Which record does a repeated notification open, and do gates and routes agree? | all four configurations of two tokens with one or two values, a request of each path (and of paths just beside a prefix), method, credential and body; every list of at most 2 different alerts out of 4 (firing, resolved, without a start), with and without a common alert name, service and summary; 2 requests, the clock over a second's end. Any two notifications occur in either order, so labels drop out as alerts join. |
| `engine` (`MCEngine`) | Do interleaved requests, resolves, disconnects, storage errors and crashes keep records whole and memories honest? | both backends; 2 requests in flight, 3 runs in all, 1 resolve, 1 fault; three incidents: A, B of A's alert and another service, C of A's service and another alert; one place in a recall (`TopK` 1), so that A's two similar incidents crowd each other out and B and C must not meet; a ring of 2, so that it evicts while requests are in flight. `MaxRuns`, `MaxResolves` and `MaxFaults` bound the run. A read and a write of `resolve` with a run and its save between them, a crash in each position, and a recall of a record being resolved all occur. |
| `engine_live` (`MCEngineLive`) | Does every request end? | 2 requests, 3 runs, a disconnect, storage error or crash anywhere, reports that cannot be stored, 2 sinks. |

The properties, with the code they are about, are stated above each definition
under "What is checked" in its module.

Runs that must find a violation, each a sentence of the repository's that the code
does not keep (section 6): `refire` and `ring_api_list`.

`CHECK_DEADLOCK FALSE` is set where the system really stops: a function that
returned (fan-out, recall, rankers, live investigators), and an engine or an
ingress that has used up its bounds. The stores
never stop and are checked for deadlock. Symmetry is used only in engine runs
without liveness properties, on the handlers, which no property names.

## 4. Fairness

* `FanOut`: the Go scheduler runs every runnable goroutine, hence weak fairness of
  the loop, of each goroutine's steps and of `Return`. A call returns by itself
  only for investigators whose client has a timeout (`Bounded`: GitHub,
  Prometheus, VictoriaLogs; the memory investigator reads the store). The
  Kubernetes client is built without one, so its call is fair only once the context is cancelled.
  Nothing forces a client of lolo to hang up: `Cancel` has no fairness.
* `LiveInvestigators`: the loop runs; a request of GitHub, Prometheus and
  VictoriaLogs ends, answered or not, within its client's timeout; client-go's is
  only sure to end once the context is cancelled. Which of the two ends it has is
  never fair: a source may fail every time.
* `LLMRanker`: time passes, the loop runs; the model is never obliged to answer,
  so a call is sure to end only at its deadline or once its context is over.
* `Engine`: each request's own steps are weakly fair; the store and the sinks
  return by themselves (SQLite's `busy_timeout`, Slack's HTTP timeout); a live investigator is only
  sure to answer once the request is abandoned. Arrivals, disconnects, resolves
  and crashes have no fairness.

## 5. Proofs

Checked by TLAPS for every value of the constants, from the assumptions named
in the modules that declare them (`IncidentAssumption`, `NotFoundAssumption`,
`TimeAssumption`, `CapacityAssumption`, `TicksAssumption`, `NoRowAssumption`,
`NAssumption`, `PendingAssumption`, `ResultsAssumption`, `InputsAssumption`, `RankingsAssumption`,
`RequestsAssumption`, `StartsAssumption`, `LookbackAssumption`, `ScopeAssumption`, `ReportAssumption`,
`IncidentsAssumption`, `DeploysAssumption`, `HypothesesAssumption`, ...): typing of the constants, that a
"none" value is not a value, and that some answer of the live investigators is always possible. TLC evaluates them in the passing runs.

**`RingStoreProofs`.** `RingTypeOK`, `RingIndexIsNewest`, `RingMeetsContract`,
`RingKeepsLastSaves`. The invariant `IInv` is `TypeOK /\ IndexIsNewest`. The
type invariant ties the write head to the length (it stays at 0 until the ring is
full), which is what makes the *age* of a slot (`Slot`) well defined.
`IndexIsNewest` says the index of an id is the slot of its newest remembered
save, or 0. It is inductive by the case that matters in the code: when the slot
being overwritten holds an id's record, either a newer save of the id exists and
the index already points past the slot, or it does not and the entry is deleted, which is exactly
the guard `s.byID[old.ID] == s.next`. The refinements then follow: read in age
order, a growing save appends and an evicting one drops the oldest and appends
(`SavePushes`), and what `Get` answers is the log's latest entry (`AnswersAreLatest`).

**`FanOutProofs`.** `FanOutTypeOK`, `FanOutReturnsEverything`,
`FanOutImplementsGather`. `ReturnsEverything` is not inductive: one must know
that the WaitGroup counts exactly the goroutines that run, and that a goroutine past
its write has its answer in its slot. The invariant adds `CountsRunning`
(`wg` is the cardinality of the running set) and `SlotsFilled`. A `Return` with
`wg = 0` then finds no running goroutine, so every slot filled; and since a `Done` takes
one from a set that holds that goroutine, `wg` never goes below 0, where Go would
panic. `Spawn`, `Write` and `Done` stutter in `Gather`; `Return` is its `Join`.
The proof is of the initial states and the steps; it uses nothing of the fairness.
`FanOutChronologicalWhoeverIsFirst` adds `Flattened`: after `Return`, `out` is the
stable sort of the slots joined in their order. The elements of the joined list lie at spots (slot, index),
met slot by slot (`FlattenMeetsAll`), and the sort keeps that order among equal times.

**`SqliteStoreProofs`.** `SqliteTypeOK`, `SqliteMeetsContract`,
`SqliteForgetsNothing`. The invariant adds that a row's id and `started_at` are
those of its data (`ColumnsMatchData`): an upsert that did not replace every
column, or that keyed on another one, breaks it. From it follows
`SqliteListsNewestToTheSecond`, for a finite set of ids: the order SQL gives the
rows is one of all of them (`OrderIsOnto`), so what a limit cuts off comes after what it keeps.

**`ListProofs`.** What a stable sort and a filter return, for every sequence and
every `less` that is a strict weak order, as Go asks of one. The k-th place picked is the one with k - 1
places before it; that each k has exactly one is the pigeonhole principle on the
ranks (`RanksAreOneToOne`, with the library's theorem on injections), and
`PickedInOrder` is its consequence: the result lists the places in an order of them all.
`FilteredThenSorted` composes a filter and a sort; `DescendingAgree` says that two lists in
descending order with the same scores are the same list of scores; `CutKeepsTop` says what a
sort by a number and a cap leave (each kept element its own, as many as there can be, none weaker
than one left out), and `AtLeastSoMany` that a set has as many members as can be listed. `FlattenMeetsAll` says that joining lists meets every
element of every list once, list by list. `FlattenSeq` is a recursive function, and
the prover has no induction over data: the proof takes the least prefix for which the statement fails, a
least number of a finite set, which the sorting lemmas give (`LeastPlace`).

**`EngineProofs`, the handlers.** `EngineTypeOK`, `EngineRecordIntegrity`,
`EngineRecallIsHonest`, `EnginePastLinksOpen`, `EngineFiledBeforeEmitted`, for any
number of requests, resolves and faults, and for either backend of any capacity. None of the properties is inductive:
what `Get` answers depends on slots it does not show, on copies that resolvers hold, and on
what jobs are about to save. The invariant `IInv` therefore says of *every place an
investigation can be* (each slot of the ring, each row, each resolver's copy, each
job past its ranking) that it is on record: a run that was ranked, with no resolution or one submitted
for its id (`OnRecord`, in `RingOK`, `TableOK`, `CopyOK` and `JobOK`), and that recollections are honest from the
moment a job has them, before they are ranked. The proof has a lemma per action and part.
The memory investigator's step rests on `ListProofs`: what it recalls is
picked from the listing, hence on record, hence about a run that happened.

`EngineAckedStayResolved` and `EngineTableKeepsFix` need a second invariant,
`FInv`: `StartedAt` tells runs apart (`StartsOK`: the clock is ahead of all of
them), and a run that a job has not saved yet has been resolved by nobody (`UnseenOK`), so the `Save` of a
job never puts an acknowledged run back unresolved; another resolve of the same
copy can only bring another note. Then the fix is on file as long as its run is.
That it *surfaces* has a hypothesis in the property, `Uncrowded`: the table holds no more
than `LookbackLimit` ids, and no incident has more than `TopK` similar ones. Both are needed: past 500 rows or behind three
closer incidents the code does drop the fix. The `engine` run reaches states that are crowded
(three ids, one place), where the fix does give way, and states that are not. Which note surfaces,
when two resolves overlap, the property does not say: the last writer's.

`EngineFiledBeforeEmitted` is an action property: the step that turns to the sinks leaves the
job's own run (`RunOf`) on file, or is a save that failed (a fault, a context that is over, a
report no encoder takes) and leaves the table alone. Of the invariant it needs the typing only: every
`Save` is of the job's own run, and no other step turns to the sinks.

**`EngineProofs`, the memory investigator.** `RecallRecallsTheSimilar`,
`RecallKeepsTheBest`, `RecallHintsAreShared`, for
every listing, incident, scope and `TopK`. The two arithmetical ones compare fractions:
a score is `(7|shared| + 3|union|) / 10|union|` for the same alert and `7|shared| / 10|union|` otherwise,
and the lemmas turn the code's threshold of 3/10 into "same alert, or 3/7 of the scope". `KeepsTheBest` assumes that
the runs of a listing differ in `StartedAt` (`ListingsAssumption`), since it is what tells them apart in the evidence.

**`LLMRankerProofs`.** `LLMTypeOK`, `LLMOnlyProseChanges`, `LLMWithinBudget`,
for every ranking, `TopN` and `Timeout`. `WithinBudget` is not inductive: the
invariant adds `Covered`, that the seconds spent are at most a full `CallLimit` for each
call that is over and the seconds waited for the one that is out, and `CallsNarrated`,
that a call is out only for one of the hypotheses to be narrated. `OnlyProseChanges`
needs `Untouched`: what the loop has not come to is as the inner ranker left it. What the model
writes is never blank (`TextAssumption`), so the property tells a narrative from what a failed call returns.
`ReportSlackTellsAll` is about the message of what the loop returns, a ranking of any length with
any evidence. The blocks are joined lists of one or two, so `FlattenMeetsAll` says which hypothesis each
block is of and that a hypothesis' evidence directly follows it (`BlocksAreLaid`); the heading and
the count of what is omitted go around them (`PayloadIsLaid`), the ranks are counted (`RanksCount`), and
`OnlyProseChanges` ties summary and evidence to the inner ranking's.

**`IngressProofs`.** `IngressGatedByHandler`, for every set of requests whose
paths are sequences of segments (`RequestsAssumption`). The state
remembers the last request only, so the invariant is the property itself; what carries it is
that two tables agree, the mux's patterns and the middleware's prefixes:
a handler that runs belongs to a pattern its path fits (`HandlerHasRoute`), and each
pattern lies behind the gate of its handler and no other (`RouteHasGate`).
`IngressSameEpisodeSameIncident` needs to know where the accepted pairs come from (`Accepted`): each is
what `FromPayload` makes of a notification of `Requests`. Whatever the order and the state of its alerts, the
earliest start is that of an opener if there is one (`OpenerStarts`), so the id is the common alert name and
the second of that start (`OpeningMakesID`); an alert that joins can only take labels out of the common ones, and
with them names out of the scope (`JoiningNarrowsScope`).

**`EvidenceProofs`, the ranker.** `RankerNothingLost`, `RankerBestFirst`,
`RankerScoresAreDeterministic`, for every list of evidence and every `TopN`. The invariant
`RankerInv` says that what `Visit` has appended is the list of hypotheses of *some* listing of the visited buckets, each once, and that a
finished ranking is `Ranked` of some listing of all of them; nothing more is known, since Go walks a map
in any order. `BestFirst` follows from what the sort and the cap return, since a listing of the buckets and then the orphans holds
each of them once (`AllAreMade`), and from `HypothesisIsFair`: a score
depends on the *sets* of confidences and sources of a bucket, which sorting the bucket does not change.
For `ScoresAreDeterministic` two listings are matched one to one, score by score, and
`DescendingAgree` does the rest by the pigeonhole principle. For `NothingLost` each place of the flattened
ranking is matched with one place of the evidence: a spot (hypothesis, item) through the sort, then the bucket or
orphan it is (`AllPartition`); buckets are disjoint since an item has one `BucketKey`.

**`EvidenceProofs`, the live investigators.** `LiveMeetsSweep`, `LiveEvidenceInWindow`,
`LiveNoMergeMissed`, `LiveLoudestKept`, for all incidents and all answers of the four
sources, with any number of repositories, namespaces and queries. `DeploysAssumption` and its like say of the answers what the
code's decoding gives: they are lists, a pull request has a number of its own and is updated no earlier than it is
merged, a pod has a name and an event none. The refinement needs to know what `part` and
`found` are at each point of a loop: between two requests of one source `part` is what
the first reply gave (`Called`, `Replies`), and a source is taken over whole when its last
call ends (`LastCompletes`); a failure takes the source's part with it. So `Contribute` is a
last reply, `Drop` a failure, and everything else stutters. `LiveInv` adds that
what is reported is evidence of some reply (`EvidenceFits`), and for each kind of reply what
it gives: `PullRequestsReported` and `ReleasesReported`, `EventsReported` and
`PodsReported`, `SeriesReported`, `StreamsReported`. From these, `NoMergeMissed` takes a
missing merge's place on the page and counts the pull requests before it
(`AtLeastSoMany`); each was updated no earlier than the merge. `LoudestKept` is
`CutKeepsTop` with peaks and counts for weights (`LoudestReported`).

## 6. Where the code and its documentation disagree

Shown by a run that TLC must find violated:

* **A repeated alert wipes the fix** (`refire`). `storage.go:24` says notes
  surface "on future similar incidents"; a second run of the same id saves a
  record with a zero `Resolution` over the resolved one. On the table a fix is lost in two
  other ways only, both by the limits of a recall: past `LookbackLimit` newer rows, or behind
  `TopK` incidents that are closer (`TableKeepsFix`, `Uncrowded`).
* **One infinite sample empties the JSON list** (`ring_api_list`).
  `prometheus.go:165` skips NaN only; on the ring the record is stored, and
  `writeJSON` drops the encoder's error, so `GET /api/investigations` answers 200
  with no JSON list at all until the record is evicted.

Met while modelling, and recorded here only:

* On the ring, copies hide a fix. The ring keeps one record per save and `List` returns
  them all, so copies of other runs can take all three places of the memory
  investigator while the resolved record is still on file; `detail.html:33` says
  the note will surface. `Engine`'s `FixSurfacesWhileOnFile` is that sentence;
  it is violated with the ring, and `TableKeepsFix` is the part that holds.
* `github.go:52` says that `listMergedPRs` returns pull requests "targeting the default
  branch, sorted by merge time descending". The request asks for the hundred closed ones last
  *updated*, of any base: what is reported may have been merged into any branch, comes in update order, and a
  merge inside the window is missing once a page of other pull requests was touched since.
  `NoMergeMissed` is the part that holds.
* A blank name in a manual request's scope (`manual.go:56` keeps them) is shared like any
  other, and no hint: when it is the first that two incidents share, `scopeHints` gives none for
  that field even if they share a real name after it, though its comment promises
  "the first overlap per scope field" (`memory.go:150`).
* The id of a notification is made of the *common* labels: when an alert of another name joins a
  group, the next notification of the same episode is filed under `alert-<second>`, a second
  record without the first one's fix.
* One story, three hypotheses. The comment at `correlating_ranker.go:16` is about
  a deploy, a crash loop and a spike "all in the same service"; a deploy carries
  a repo, a pod a namespace, a series its labels, and the three never meet.
* Alertmanager's resolved notifications are not told from firing ones
  (`alertmanager.go:27` is never read), so "it is over" investigates once more and
  wipes a fix as any repeated alert does; the incident `A` of the engine's runs has both.
* A warning event that goes on after the trigger has its last occurrence
  outside the window and is left out (`kubernetes.go:99`), as is one with an `eventTime` before it.
* `prometheus.go:241` says flat series "don't wash out real findings"; their
  confidence is low, but the three places go by peak, so three high flat series leave a spike out.
* A namespace listed twice in a manual request is asked for, and reported, twice by the
  logs investigator (`logs.go:58`), which alone of the four does not drop duplicates.
* On SQLite a run with an infinite sample cannot be marshalled: it is emitted
  but never stored, though `storage.go:13` calls an investigation "the unit lolo
  writes after each webhook fires". `FiledBeforeEmitted` makes the exception explicit, and shows that nothing else is lost by it.
* The ring evicts in save order; `memory.go:45` allows for that, but two requests
  that overlap are enough for it to evict the younger one.
* `ORDER BY started_at` compares whole seconds, so "newest first"
  (`sqlite_test.go:118`) is not kept inside one second.
* Equal scores come out in the map's order, and with a cap either of them may be
  dropped, though `llm_ranker.go:17` calls the ranking deterministic; `ScoresAreDeterministic`
  is the part that holds.
* Memory evidence with a service and a namespace is bucketed by the service, beside no
  Kubernetes evidence of that namespace (`memory.go:118`), and its cap of
  0.8 lets it outrank an unhealthy pod's 0.6 (`memory.go:25`).
* The README says `K8S_NAMESPACES` and `GITHUB_REPOS` are used when the incident scope
  has none; the code always adds them.

## 7. What is only model-checked, and what is not modelled

Every invariant and every action property of a passing run is also proved. Only model-checked:
liveness, and everything under fairness (out of TLAPS's reach): `ReturnsOnceCancelled`,
`ReturnsOnceAnswered`, `Returns`, the narration loop's end, `EndsOnceClientGone`, `EndsOnceAnswered`.

Not modelled: the HTML templates, wording and wire formats; flag and environment
parsing; the default ranker, which `main` does not wire; the Helm chart and
workflows. Of the modelled parts: a query's step and Loki's limit of 500 lines
over all streams of a reply (which stream they cost is Loki's choice); the
mux's redirects of unclean paths; GitHub's pages after the first, which the code never asks for.

## 8. Plan

Order: what can lose or mix data first. Done, in this order: the ring and its
contract with proofs; the table; the fan-out with its refinement and proofs; the memory
investigator; the engine over both stores; the ranker; the LLM ranker; the
triggers, with the engine's instances built by them; the live investigators with
their refinement; routing and authentication; the Slack message; the proofs of
the table's listing, the narration loop and the gates.

Next, modelling: `Engine` with the LLM ranker's delay inside `Rank`, so that a
disconnect can fall in it.

Done since: the proofs of the engine, of the memory investigator, of sorting and joining lists, of the
flattened order, of the ranker, of the live investigators, of the Slack message and of `SameEpisodeSameIncident`.

Instances larger than those of section 3 (two resolvers and two resolves at
once) take over five minutes, so they are not among the runs.
