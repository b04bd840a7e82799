---------------------------- MODULE EvidenceFlow ----------------------------
(***************************************************************************)
(* The evidence of the fixture engine and its analysis.  A journey worker  *)
(* (index.js, evidence.js) simulates a journey, asks the eyeson worker for *)
(* an analysis of each screenshot, all at once, and answers when it has    *)
(* heard of every one.  The eyeson worker (index.js, scheduler.js) holds   *)
(* the analyses in one queue with a bound on those that run, and takes     *)
(* batches of a run's evidence beside the single ones.                     *)
(***************************************************************************)
EXTENDS Integers, Sequences, FiniteSets, SequencesExt

CONSTANTS Runs,          \* runs asked of the journey worker
          Inputs,        \* the inputs they may have
          Batches,       \* batches asked of the eyeson worker, each of one of Runs
          BatchRun,      \* BatchRun[b]: its run
          Requests,      \* what they may ask for: candidates and a budget
          Concurrency,   \* ANALYSIS_CONCURRENCY
          Nothing

VARIABLES runs, batches, configured,
          calls,         \* where each evidence asked for is, on the eyeson worker's side
          answers,       \* what the journey worker has heard of it
          pending, byRun \* the queue, and its list of each run's jobs

vars == <<runs, batches, configured, calls, answers, pending, byRun>>

\* A finite set of numbers, from the least.
Ascending(S) ==
    [k \in 1 .. Cardinality(S) |-> CHOOSE i \in S : Cardinality({j \in S : j < i}) = k - 1]

\* The jobs in a state, beside the others.
With(status, jobs, state) ==
    [job \in DOMAIN status \cup jobs |-> IF job \in jobs THEN state ELSE status[job]]

\* A job: the n-th evidence of a run or of a batch.
Job(owner, n) == <<owner, n>>
RunOf(job) == IF job[1] \in Batches THEN BatchRun[job[1]] ELSE job[1]

Init ==
    /\ runs = [r \in Runs |-> [pc |-> "new", evidence |-> <<>>, requested |-> <<>>, heard |-> 0, events |-> <<>>]]
    /\ batches = [b \in Batches |-> [pc |-> "new", request |-> Nothing, selected |-> <<>>, awaited |-> {}]]
    /\ configured \in BOOLEAN              \* EYESON_WORKER_URL is set
    /\ calls = <<>> /\ answers = <<>>
    /\ pending = <<>> /\ byRun = [r \in Runs |-> {}]

-----------------------------------------------------------------------------
(* The eyeson worker's queue *)

Active(status) == {job \in DOMAIN status : status[job] = "active"}

\* drain: the oldest jobs start while there is room.
Drain(queue, status) ==
    LET room == Concurrency - Cardinality(Active(status))
        n == IF room < Len(queue) THEN room ELSE Len(queue)
        started == {queue[k] : k \in 1..n}
    IN  /\ pending' = SubSeq(queue, n + 1, Len(queue))
        /\ calls' = [job \in DOMAIN status |-> IF job \in started THEN "active" ELSE status[job]]

Enqueue(jobs) ==
    /\ jobs # <<>> => byRun' = [byRun EXCEPT ![RunOf(jobs[1])] = @ \cup ToSet(jobs)]
    /\ jobs = <<>> => byRun' = byRun
    /\ Drain(pending \o jobs, With(calls, ToSet(jobs), "pending"))

Settled(job) == calls[job] \in {"ok", "error"}

\* The request arrives.
Receive(job) ==
    /\ calls[job] = "sent"
    /\ Enqueue(<<job>>)
    /\ UNCHANGED <<runs, batches, configured, answers>>

\* Mutant: an analysis that throws frees its place and starts nobody.
FinishQuietly(job, outcome) ==
    /\ calls[job] = "active"
    /\ IF outcome = "ok" THEN Drain(pending, [calls EXCEPT ![job] = outcome])
       ELSE pending' = pending /\ calls' = [calls EXCEPT ![job] = outcome]
    /\ UNCHANGED <<runs, batches, configured, answers, byRun>>

\* An analysis ends or throws: its place is free either way.
Finish(job, outcome) ==
    /\ calls[job] = "active"
    /\ Drain(pending, [calls EXCEPT ![job] = outcome])
    /\ UNCHANGED <<runs, batches, configured, answers, byRun>>

-----------------------------------------------------------------------------
(* The journey worker *)

\* validateBrowserSafety.
Safe(input) ==
    /\ input.private => input.policy.allowPrivateNetworks
    /\ ~input.policy.denied /\ input.policy.allowed
    /\ input.destructive => input.policy.allowIrreversibleActions

Shots(steps) == Ascending({n \in DOMAIN steps : steps[n] # "none"})

Event(type, n) == [type |-> type, step |-> n]

\* What is pushed while the tasks are walked.
StepEvents(steps) ==
    <<Event("journey.started", 0)>>
    \o FlattenSeq([n \in DOMAIN steps |->
          <<Event("behavior.state.changed", n)>>
          \o (IF steps[n] = "none" THEN <<>> ELSE <<Event("ux.analysis.requested", n)>>)])

\* One synchronous walk over the tasks.  Evidence whose elements cannot be
\* told apart throws: the run is refused, and what was asked for before it is not recalled.
RunJourney(r, input) ==
    LET shots == Shots(input.steps)
        spoilt == "unusable" \in ToSet(input.steps)
        asked == {n \in ToSet(shots) : \A k \in 1..n : input.steps[k] # "unusable"}
        evidence(n) == IF input.steps[n] = "none" THEN Nothing
                       ELSE [step |-> n, of |-> n, status |-> "pending"]
        jobs == {Job(r, n) : n \in asked}
    IN  /\ runs[r].pc = "new"
        /\ IF ~Safe(input)
           THEN /\ runs' = [runs EXCEPT ![r].pc = "refused"]
                /\ UNCHANGED <<calls, answers>>
           ELSE /\ runs' = [runs EXCEPT ![r] =
                     IF spoilt THEN [@ EXCEPT !.pc = "refused"]
                     ELSE [pc |-> "awaiting", requested |-> shots, heard |-> 0, events |-> StepEvents(input.steps),
                           evidence |-> [n \in DOMAIN input.steps |-> evidence(n)]]]
                /\ calls' = IF configured THEN With(calls, jobs, "sent") ELSE calls
                /\ answers' = With(answers, jobs, IF configured THEN Nothing ELSE "pending")
        /\ UNCHANGED <<batches, configured, pending, byRun>>

\* The answer of the eyeson worker.
Answer(job) ==
    /\ answers[job] = Nothing /\ Settled(job)
    /\ answers' = [answers EXCEPT ![job] = IF calls[job] = "ok" THEN "completed" ELSE "failed"]
    /\ UNCHANGED <<runs, batches, configured, calls, pending, byRun>>

\* Mutant: a broken connection is not caught.
BreakUncaught(job) ==
    /\ answers[job] = Nothing
    /\ answers' = [answers EXCEPT ![job] = "lost"]
    /\ UNCHANGED <<runs, batches, configured, calls, pending, byRun>>

\* The connection breaks, before the request has arrived or after.
Break(job) ==
    /\ answers[job] = Nothing
    /\ answers' = [answers EXCEPT ![job] = "failed"]
    /\ calls' \in {calls, IF calls[job] = "sent" THEN [calls EXCEPT ![job] = "lost"] ELSE calls}
    /\ UNCHANGED <<runs, batches, configured, pending, byRun>>

\* Mutant: whichever answer is there goes to the evidence whose turn it is.
CollectFirst(r) ==
    LET n == runs[r].requested[runs[r].heard + 1] IN
    /\ runs[r].pc = "awaiting" /\ runs[r].heard < Len(runs[r].requested)
    /\ \E k \in ToSet(runs[r].requested) : answers[Job(r, k)] # Nothing
          /\ \A e \in ToSet(runs[r].events) : e.step = k => e.type \notin {"completed", "failed"}
          /\ runs' = [runs EXCEPT ![r].heard = @ + 1,
                                  ![r].evidence[n].status = answers[Job(r, k)],
                                  ![r].evidence[n].of = k,
                                  ![r].events = IF answers[Job(r, k)] = "pending" THEN @
                                                ELSE Append(@, Event(answers[Job(r, k)], k))]
    /\ UNCHANGED <<batches, configured, calls, answers, pending, byRun>>

\* The answers are taken in the order of the requests, whichever comes first.
Collect(r) ==
    LET n == runs[r].requested[runs[r].heard + 1]
        outcome == answers[Job(r, n)]
    IN  /\ runs[r].pc = "awaiting" /\ runs[r].heard < Len(runs[r].requested)
        /\ outcome # Nothing
        /\ runs' = [runs EXCEPT ![r].heard = @ + 1,
                                ![r].evidence[n].status = outcome,
                                ![r].evidence[n].of = n,
                                ![r].events = IF outcome = "pending" THEN @ ELSE Append(@, Event(outcome, n))]
        /\ UNCHANGED <<batches, configured, calls, answers, pending, byRun>>

CompleteJourney(r) ==
    /\ runs[r].pc = "awaiting" /\ runs[r].heard = Len(runs[r].requested)
    /\ runs' = [runs EXCEPT ![r].pc = "completed", ![r].events = Append(@, Event("journey.completed", 0))]
    /\ UNCHANGED <<batches, configured, calls, answers, pending, byRun>>

-----------------------------------------------------------------------------
(* Batches *)

Priority(reason) ==
    CASE reason = "frustration_spike" -> 100 [] reason = "explicit_error" -> 90
      [] reason = "abandonment" -> 80 [] reason = "route_change" -> 70 [] reason = "bookmark" -> 60
      [] OTHER -> 10

\* Mutant: the first candidates that fit in the budget.
SelectFirst(candidates, budget) ==
    SelectSeq([i \in DOMAIN candidates |-> i], LAMBDA i : budget = 0 \/ i <= budget)

\* Sorted by their score, then by their place.
Better(candidates, i) ==
    {j \in DOMAIN candidates :
        \/ Priority(candidates[j]) > Priority(candidates[i])
        \/ Priority(candidates[j]) = Priority(candidates[i]) /\ j < i}

\* selectScreenBudget: the most telling candidates, in the order they came in.
\* A budget of zero is no budget.
SelectScreenBudget(candidates, budget) ==
    LET maximum == IF budget = 0 THEN Len(candidates) ELSE IF budget < 0 THEN 0 ELSE budget
    IN  Ascending({i \in DOMAIN candidates : Cardinality(Better(candidates, i)) < maximum})

\* One handler: the selected evidence is put in the queue before it waits.
AnalyzeBatch(b, request) ==
    LET selected == SelectScreenBudget(request.candidates, request.budget) IN
    /\ batches[b].pc = "new"
    /\ batches' = [batches EXCEPT ![b] = [pc |-> "analysing", request |-> request, selected |-> selected, awaited |-> {}]]
    /\ Enqueue([k \in DOMAIN selected |-> Job(b, selected[k])])
    /\ UNCHANGED <<runs, configured, answers>>

JobsOf(b) == {Job(b, n) : n \in ToSet(batches[b].selected)}

\* Mutant: a batch waits until every one of its analyses has ended badly.
BatchFailsAltogether(b) ==
    /\ batches[b].pc = "analysing" /\ JobsOf(b) # {}
    /\ \A job \in JobsOf(b) : calls[job] = "error"
    /\ batches' = [batches EXCEPT ![b].pc = "refused"]
    /\ UNCHANGED <<runs, configured, calls, answers, pending, byRun>>

\* The first analysis that throws refuses the batch; the others go on.
BatchFails(b) ==
    /\ batches[b].pc = "analysing"
    /\ \E job \in JobsOf(b) : calls[job] = "error"
    /\ batches' = [batches EXCEPT ![b].pc = "refused"]
    /\ UNCHANGED <<runs, configured, calls, answers, pending, byRun>>

\* flush: waits for the jobs of the run that are listed now.
Flush(b) ==
    /\ batches[b].pc = "analysing"
    /\ \A job \in JobsOf(b) : calls[job] = "ok"
    /\ batches' = [batches EXCEPT ![b].pc = "flushing", ![b].awaited = byRun[BatchRun[b]]]
    /\ UNCHANGED <<runs, configured, calls, answers, pending, byRun>>

\* The list is forgotten with what was added to it since.
Flushed(b) ==
    /\ batches[b].pc = "flushing"
    /\ \A job \in batches[b].awaited : Settled(job)
    /\ batches' = [batches EXCEPT ![b].pc = "completed"]
    /\ byRun' = [byRun EXCEPT ![BatchRun[b]] = {}]
    /\ UNCHANGED <<runs, configured, calls, answers, pending>>

-----------------------------------------------------------------------------
Journey(r) == (\E input \in Inputs : RunJourney(r, input)) \/ Collect(r) \/ CompleteJourney(r)

Batch(b) == (\E request \in Requests : AnalyzeBatch(b, request)) \/ BatchFails(b) \/ Flush(b) \/ Flushed(b)

Call == (\E job \in DOMAIN answers : Answer(job) \/ Break(job)) \/ (\E job \in DOMAIN calls : Receive(job))

Analysis == \E job \in DOMAIN calls : \E outcome \in {"ok", "error"} : Finish(job, outcome)

Next == (\E r \in Runs : Journey(r)) \/ (\E b \in Batches : Batch(b)) \/ Call \/ Analysis

\* The handlers go on once what they wait for is there; a request is answered
\* or its connection breaks; an analysis ends.
Fairness ==
    /\ \A r \in Runs : WF_vars(Collect(r)) /\ WF_vars(CompleteJourney(r))
    /\ \A b \in Batches : WF_vars(BatchFails(b)) /\ WF_vars(Flush(b)) /\ WF_vars(Flushed(b))
    /\ WF_vars(Call) /\ WF_vars(Analysis)

Spec == Init /\ [][Next]_vars /\ Fairness

-----------------------------------------------------------------------------
(* Properties *)

\* Every request of the journey worker is one call or, without an eyeson
\* worker, none; and nothing is collected that was not asked for.
TypeOK ==
    /\ \A r \in Runs : runs[r].pc \in {"new", "awaiting", "completed", "refused"}
                       /\ runs[r].heard <= Len(runs[r].requested)
    /\ \A b \in Batches : batches[b].pc \in {"new", "analysing", "flushing", "completed", "refused"}
    /\ \A job \in DOMAIN calls : calls[job] \in {"sent", "lost", "pending", "active", "ok", "error"}
    /\ \A job \in DOMAIN answers : answers[job] \in {Nothing, "pending", "completed", "failed"}
    /\ {job \in DOMAIN calls : job[1] \in Runs} = IF configured THEN DOMAIN answers ELSE {}

\* The bound on the analyses that run holds, a job waits only when it is
\* reached, and every job that waits is in the queue once (AnalysisQueue).
WorkConserved ==
    /\ Cardinality(Active(calls)) <= Concurrency
    /\ pending # <<>> => Cardinality(Active(calls)) = Concurrency
    /\ IsInjective(pending)
    /\ ToSet(pending) = {job \in DOMAIN calls : calls[job] = "pending"}

\* enrichRun: the state of a run's analysis, from its evidence.
Evidence(r) == {e \in ToSet(runs[r].evidence) : e # Nothing}

EnrichedStatus(r) ==
    LET statuses == {e.status : e \in Evidence(r)}
    IN  CASE "failed" \in statuses -> "partial"
          [] statuses \subseteq {"completed"} -> "completed"
          [] OTHER -> "pending"

\* The steps that the events of these types are about, in the events' order.
Reported(events, types) ==
    LET at == Ascending({k \in DOMAIN events : events[k].type \in types})
    IN  [i \in DOMAIN at |-> events[at[i]].step]

Outcomes == {"completed", "failed"}

\* In whatever order the analyses end: a completed run has heard of each of
\* its requests once, in their order and before its end, each evidence has the
\* outcome of its own analysis, and the report calls the analysis complete
\* exactly when every evidence was analysed (runJourney, enrichRun).
EvidenceAccounted ==
    \A r \in Runs : runs[r].pc = "completed" =>
        LET events == runs[r].events
        IN  /\ Reported(events, Outcomes)
                 = IF configured THEN Reported(events, {"ux.analysis.requested"}) ELSE <<>>
            /\ Last(events).type = "journey.completed"
            /\ \A e \in Evidence(r) :
                  /\ e.of = e.step
                  /\ e.status = "completed" => calls[Job(r, e.step)] = "ok"
                  /\ configured => e.status \in Outcomes /\ Event(e.status, e.step) \in ToSet(events)
            /\ EnrichedStatus(r) = "completed"
                 <=> \A e \in Evidence(r) : configured /\ calls[Job(r, e.step)] = "ok" /\ answers[Job(r, e.step)] = "completed"

\* A batch that is answered has analysed what it selected and waited for what
\* its run had in the queue; and no candidate it left out is more telling than
\* one it took (selectScreenBudget, /v1/evidence-batches).
BatchCovers ==
    \A b \in Batches : batches[b].pc = "completed" =>
        LET request == batches[b].request
            chosen == ToSet(batches[b].selected)
            reason(i) == Priority(request.candidates[i])
        IN  /\ \A job \in JobsOf(b) : calls[job] = "ok"
            /\ \A job \in batches[b].awaited : Settled(job)
            /\ \A i \in chosen, j \in DOMAIN request.candidates \ chosen :
                  reason(i) >= reason(j) /\ (reason(i) = reason(j) => i < j)
            /\ Cardinality(chosen) = IF request.budget \in 1..Len(request.candidates) THEN request.budget
                                     ELSE IF request.budget < 0 THEN 0 ELSE Len(request.candidates)

\* Every journey and every batch is answered, whatever fails.
EveryoneAnswered ==
    /\ \A r \in Runs : runs[r].pc = "awaiting" ~> runs[r].pc = "completed"
    /\ \A b \in Batches : batches[b].pc = "analysing" ~> batches[b].pc \in {"completed", "refused"}
=============================================================================
