------------------------------- MODULE FanOut -------------------------------
(***************************************************************************)
(* internal/investigator/investigator.go, RunAll and Flatten, as they run: *)
(* a loop that adds to a WaitGroup and starts one goroutine per            *)
(* investigator, goroutines that call Investigate, write their own slot of *)
(* results and only then run their deferred Done, and a Wait.              *)
(* Go memory-model note: each slot has a single writer, and Wait's return  *)
(* is ordered after every Done, so a step is atomic here.                  *)
(***************************************************************************)
EXTENDS Gather

CONSTANT Bounded   \* the investigators whose client has a timeout of its own
ASSUME BoundedAssumption == Bounded \subseteq Investigators

VARIABLES
    spawned,    \* iterations of RunAll's loop
    wg,         \* the WaitGroup's counter
    worker,     \* i |-> "none", "calling", "answered", "wrote" or "done"
    results,    \* the slice RunAll allocates, one slot per investigator
    cancelled   \* the request's context

fvars == <<spawned, wg, worker, results, cancelled, answer, out>>

Empty == [evidence |-> <<>>, err |-> FALSE]   \* Result{}

FInit ==
    /\ Init
    /\ spawned = 0
    /\ wg = 0
    /\ worker = [i \in Investigators |-> "none"]
    /\ results = [i \in Investigators |-> Empty]
    /\ cancelled = FALSE

\* Mutant of Spawn: the goroutine starts without wg.Add(1).
SpawnUncounted ==
    /\ spawned < N
    /\ spawned' = spawned + 1
    /\ worker' = [worker EXCEPT ![spawned + 1] = "calling"]
    /\ UNCHANGED <<wg, results, cancelled, answer, out>>

\* wg.Add(1); go func(...)
Spawn ==
    /\ spawned < N
    /\ spawned' = spawned + 1
    /\ wg' = wg + 1
    /\ worker' = [worker EXCEPT ![spawned + 1] = "calling"]
    /\ UNCHANGED <<results, cancelled, answer, out>>

\* in.Investigate(ctx, inc) returns.
Call(i) ==
    /\ worker[i] = "calling"
    /\ worker' = [worker EXCEPT ![i] = "answered"]
    /\ Answer(i)
    /\ UNCHANGED <<spawned, wg, results, cancelled>>

\* results[i] = Result{...}
Write(i) ==
    /\ worker[i] = "answered"
    /\ results' = [results EXCEPT ![i] = answer[i]]
    /\ worker' = [worker EXCEPT ![i] = "wrote"]
    /\ UNCHANGED <<spawned, wg, cancelled, answer, out>>

\* Mutants of Done: called before the slot is written, skipped once the
\* request is cancelled, or skipped after an error.
DoneEarly(i) ==
    /\ worker[i] \in {"answered", "wrote"}
    /\ wg' = wg - 1
    /\ worker' = [worker EXCEPT ![i] = "done"]
    /\ UNCHANGED <<spawned, results, cancelled, answer, out>>
DoneUnlessCancelled(i) ==
    /\ ~cancelled
    /\ worker[i] = "wrote"
    /\ wg' = wg - 1
    /\ worker' = [worker EXCEPT ![i] = "done"]
    /\ UNCHANGED <<spawned, results, cancelled, answer, out>>
DoneUnlessFailed(i) ==
    /\ ~results[i].err
    /\ worker[i] = "wrote"
    /\ wg' = wg - 1
    /\ worker' = [worker EXCEPT ![i] = "done"]
    /\ UNCHANGED <<spawned, results, cancelled, answer, out>>

\* The deferred wg.Done().
Done(i) ==
    /\ worker[i] = "wrote"
    /\ wg' = wg - 1
    /\ worker' = [worker EXCEPT ![i] = "done"]
    /\ UNCHANGED <<spawned, results, cancelled, answer, out>>

\* Mutant of Return: no wg.Wait().
ReturnWithoutWait ==
    /\ spawned = N
    /\ out = Pending
    /\ out' = Flatten(results)
    /\ UNCHANGED <<spawned, wg, worker, results, cancelled, answer>>

\* wg.Wait() returns, and the engine flattens the results.
Return ==
    /\ spawned = N
    /\ wg = 0
    /\ out = Pending
    /\ out' = Flatten(results)
    /\ UNCHANGED <<spawned, wg, worker, results, cancelled, answer>>

\* The client of the request goes away.
Cancel ==
    /\ ~cancelled
    /\ out = Pending
    /\ cancelled' = TRUE
    /\ UNCHANGED <<spawned, wg, worker, results, answer, out>>

Worker(i) == Call(i) \/ Write(i) \/ Done(i)

FNext == Spawn \/ Return \/ Cancel \/ \E i \in Investigators : Worker(i)

\* The Go scheduler runs every runnable goroutine.  A call returns by itself
\* when its client has a timeout; one without (client-go's) is only sure to
\* return once its context is cancelled (LiveInvestigators' Returns).  Nothing
\* forces a client to go away.
Fairness ==
    /\ WF_fvars(Spawn)
    /\ WF_fvars(Return)
    /\ \A i \in Investigators :
          /\ WF_fvars(Write(i))
          /\ WF_fvars(Done(i))
          /\ WF_fvars((i \in Bounded \/ cancelled) /\ Call(i))

FSpec == FInit /\ [][FNext]_fvars /\ Fairness

-----------------------------------------------------------------------------
(* What is checked. *)

TypeOK ==
    /\ spawned \in 0..N
    /\ wg \in 0..N
    /\ worker \in [Investigators -> {"none", "calling", "answered", "wrote", "done"}]
    /\ results \in [Investigators -> Result \cup {Empty}]
    /\ cancelled \in BOOLEAN
    /\ answer \in [Investigators -> Result \cup {Pending}]

\* RunAll never returns with a slot still unwritten, whatever the scheduling
\* of the goroutines: the report is built from every investigator's own
\* answer (the Add before go, the Done deferred past the write).
ReturnsEverything == out # Pending => results = answer

\* The goroutines implement the one-step gather the engine relies on.
ImplementsGather == Spec

\* The evidence the ranker gets is a function of the answers alone: it is
\* chronological, holds every item exactly once, and leaves simultaneous
\* items in investigator order, then in the order the investigator gave them
\* (RunAll, Flatten).
ChronologicalWhoeverIsFirst ==
    out # Pending =>
        LET Items == UNION {{<<i, m>> : m \in DOMAIN answer[i].evidence} :
                               i \in Investigators}
            Item(it) == answer[it[1]].evidence[it[2]]
            Goes(it, jt) ==
                \/ Item(it).at < Item(jt).at
                \/ /\ Item(it).at = Item(jt).at
                   /\ it[1] < jt[1] \/ (it[1] = jt[1] /\ it[2] < jt[2])
        IN  /\ Len(out) = Cardinality(Items)
            /\ \E order \in [DOMAIN out -> Items] :
                  /\ \A k \in DOMAIN out : out[k] = Item(order[k])
                  /\ \A j, k \in DOMAIN out : j < k => Goes(order[j], order[k])

\* RunAll returns once every client it waits for answers, times out, or sees
\* the request cancelled.
ReturnsOnceCancelled == cancelled ~> out # Pending

\* The only thing RunAll can wait for without end is a client that has no
\* timeout and does not answer: with an answer from each of those it returns,
\* whatever the clients with a timeout do.
ReturnsOnceAnswered ==
    (\A i \in Investigators \ Bounded : <>(answer[i] # Pending)) => <>(out # Pending)
=============================================================================
