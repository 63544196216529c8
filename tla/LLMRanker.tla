------------------------------ MODULE LLMRanker ------------------------------
(***************************************************************************)
(* internal/hypothesis/llm_ranker.go over internal/llm/openai/openai.go:   *)
(* the ranking of the inner ranker, with the reasoning of its first        *)
(* hypotheses rewritten by a language model, one call at a time, each call *)
(* under a deadline.  Time passes in seconds while a call is out.          *)
(***************************************************************************)
EXTENDS Integers, Sequences, FiniteSetsExt

CONSTANTS
    InnerRankings,   \* what r.Inner.Rank may return, best first
    Text,            \* what the model may write about a hypothesis, if anything
    TopN,            \* 0: narrate all
    Timeout          \* <= 0: the default
ASSUME NarrateTopNAssumption == TopN \in Nat
ASSUME TimeoutAssumption == Timeout \in Int
ASSUME TextAssumption == "" \notin Text
\* A hypothesis is a record, and has a reasoning.
ASSUME RankingsAssumption ==
    \A r \in InnerRankings :
        /\ r \in Seq({r[k] : k \in DOMAIN r})
        /\ \A k \in DOMAIN r :
              /\ r[k] = [field \in DOMAIN r[k] |-> r[k][field]]
              /\ "reasoning" \in DOMAIN r[k]

DefaultTimeout == 10
ClientTimeout == 30

\* Mutant of CallLimit: only the HTTP client's own timeout.
CallLimitOfClient == ClientTimeout

\* The deadline a call runs into first: narrate's or the HTTP client's.
CallLimit == Min({IF Timeout <= 0 THEN DefaultTimeout ELSE Timeout, ClientTimeout})

VARIABLES
    inner,      \* history: what r.Inner.Rank returned
    hs,         \* the same slice, as it is rewritten
    i,          \* the loop's index
    waited,     \* seconds the call has been out
    spent,      \* seconds spent in calls so far
    pc,         \* "loop", "calling" or "returned"
    cancelled   \* the request's context

vars == <<inner, hs, i, waited, spent, pc, cancelled>>

Narrated == IF TopN > 0 /\ TopN < Len(hs) THEN TopN ELSE Len(hs)

Init ==
    /\ inner \in InnerRankings
    /\ hs = inner
    /\ i = 1 /\ waited = 0 /\ spent = 0
    /\ pc = "loop" /\ cancelled = FALSE

\* Mutant of Send: the loop stops one short.
SendOneShort ==
    /\ pc = "loop" /\ i < Narrated
    /\ pc' = "calling" /\ waited' = 0
    /\ UNCHANGED <<inner, hs, i, spent, cancelled>>

\* narrate: the prompt of hypothesis i goes out.
Send ==
    /\ pc = "loop" /\ i <= Narrated
    /\ pc' = "calling" /\ waited' = 0
    /\ UNCHANGED <<inner, hs, i, spent, cancelled>>

Advance == pc' = "loop" /\ i' = i + 1

\* Mutant of Narrate: every prompt is about the best hypothesis.
NarrateBest ==
    /\ pc = "calling" /\ ~cancelled
    /\ \E text \in Text :
          hs' = [hs EXCEPT ![i].reasoning = [about |-> hs[1].summary, text |-> text]]
    /\ Advance
    /\ UNCHANGED <<inner, waited, spent, cancelled>>

\* A 2xx reply whose first choice is not blank.
Narrate ==
    /\ pc = "calling" /\ ~cancelled
    /\ \E text \in Text :
          hs' = [hs EXCEPT ![i].reasoning = [about |-> hs[i].summary, text |-> text]]
    /\ Advance
    /\ UNCHANGED <<inner, waited, spent, cancelled>>

\* Mutant of Keep: whatever narrate returned is written, "" for a failed call.
KeepBlank ==
    /\ pc = "calling"
    /\ hs' = [hs EXCEPT ![i].reasoning = [about |-> hs[i].summary, text |-> ""]]
    /\ Advance
    /\ UNCHANGED <<inner, waited, spent, cancelled>>

\* A transport or decoding error, a status that is not 2xx, no choice, a blank
\* one, or a context that is over: the inner ranker's reasoning stays.
Keep ==
    /\ pc = "calling"
    /\ Advance
    /\ UNCHANGED <<inner, hs, waited, spent, cancelled>>

\* A second passes with the call still out; none does past its deadline.
Tick ==
    /\ pc = "calling" /\ waited < CallLimit
    /\ waited' = waited + 1 /\ spent' = spent + 1
    /\ UNCHANGED <<inner, hs, i, pc, cancelled>>

Return ==
    /\ pc = "loop" /\ i > Narrated
    /\ pc' = "returned"
    /\ UNCHANGED <<inner, hs, i, waited, spent, cancelled>>

\* The client of the request goes away.
Cancel ==
    /\ pc # "returned" /\ ~cancelled
    /\ cancelled' = TRUE
    /\ UNCHANGED <<inner, hs, i, waited, spent, pc>>

Next == Send \/ Narrate \/ Keep \/ Tick \/ Return \/ Cancel

\* Time passes and the loop runs; nothing obliges the model to answer, so a
\* call is only sure to end at its deadline or with its context.
Fairness ==
    /\ WF_vars(Send) /\ WF_vars(Tick) /\ WF_vars(Return)
    /\ WF_vars((waited = CallLimit \/ cancelled) /\ Keep)

Spec == Init /\ [][Next]_vars /\ Fairness

-----------------------------------------------------------------------------
(* What is checked. *)

TypeOK ==
    /\ Len(hs) = Len(inner)
    /\ i \in 1..(Narrated + 1)
    /\ waited \in 0..CallLimit
    /\ spent \in Nat
    /\ pc \in {"loop", "calling", "returned"}
    /\ cancelled \in BOOLEAN

\* "Scores and evidence are untouched" and "the original Reasoning is
\* preserved" (llm_ranker.go:17, 20): whatever mix of calls succeeds, fails or
\* times out, the ranking is the inner one but for the reasoning of the first
\* TopN, and a reasoning that is not the inner one is what the model wrote about
\* that very hypothesis, never the blank of a call that failed.
OnlyProseChanges ==
    \A k \in DOMAIN inner :
        \/ hs[k] = inner[k]
        \/ /\ TopN = 0 \/ k <= TopN
           /\ [hs[k] EXCEPT !.reasoning = inner[k].reasoning] = inner[k]
           /\ hs[k].reasoning \in [about : {inner[k].summary}, text : Text]

\* A model that answers late, or never, holds an investigation up by at most
\* one configured timeout per narrated hypothesis: 30 seconds as main wires it.
WithinBudget ==
    spent <= Narrated * (IF Timeout <= 0 THEN DefaultTimeout ELSE Timeout)

\* "An investigation never fails on LLM availability" (llm_ranker.go:21): the
\* ranking is returned even if the model never answers.
AlwaysReturns == <>(pc = "returned")
=============================================================================
