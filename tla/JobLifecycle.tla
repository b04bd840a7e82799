---------------------------- MODULE JobLifecycle ----------------------------
(***************************************************************************)
(* The life of a job in the control plane: the HTTP handlers that submit,  *)
(* cancel and retry it (apps/api/main.py), the broker that carries its     *)
(* identifier (apps/api/queue.py, apps/api/tasks.py) and the workers that  *)
(* run it (JobExecutor.run, apps/api/executor.py), over the rows of the    *)
(* PostgreSQL store (apps/api/postgres_store.py).                          *)
(*                                                                         *)
(* Every step is one transaction of the store, or one call of the broker:  *)
(* the code opens a connection per statement, so that whatever another     *)
(* process does may fall between two of them.  An invocation of run(j) by  *)
(* worker w is the frame run[w][j]; a worker that resumes a dependent job  *)
(* calls run on it and so holds several frames, all but one of them        *)
(* "calling".                                                              *)
(***************************************************************************)
EXTENDS Naturals, FiniteSets

CONSTANTS
    Jobs,       \* job identifiers
    Deps,       \* Deps[j]: the depends_on list of j, fixed when j is created
    Workers,    \* worker processes, each running one task at a time
    Clients,    \* concurrent HTTP requests the API is serving
    Retriers,   \* the requests that may be retries
    MaxAttempt, \* bound on the attempt number
    MaxQueue,   \* bound on the messages waiting for one job
    NoJob,      \* not a job: no message held, no request in progress
    Budgets     \* bounds: how often each hazard may strike in a behaviour

Hazards == {"crash", "apiCrash", "storeError", "visibilityTimeout", "cancel"}

ASSUME ConstantsAssumption ==
    /\ Deps \in [Jobs -> SUBSET Jobs]
    /\ Retriers \subseteq Clients
    /\ MaxAttempt \in Nat \ {0}
    /\ MaxQueue \in Nat \ {0}
    /\ NoJob \notin Jobs
    /\ Budgets \subseteq [Hazards -> Nat]

VARIABLES
    status,     \* jobs.status
    attempt,    \* jobs.attempt
    outputs,    \* jobs.output_artifacts: the attempt that wrote them, 0 for []
    rows,       \* attempts.status of each (job, attempt), "none" for no row
    events,     \* the types in the events of each job
    queue,      \* messages of each job in the broker
    held,       \* the unacknowledged message of each worker, if any
    run,        \* run[w][j]: the invocation of JobExecutor.run(j) by w
    api,        \* the request each client has in progress
    budget      \* hazards that may still strike

store == <<status, attempt, outputs, rows, events>>
broker == <<queue, held>>
vars == <<status, attempt, outputs, rows, events, queue, held, run, api, budget>>

-----------------------------------------------------------------------------
Attempts == 1 .. MaxAttempt
Terminal == {"succeeded", "failed", "cancelled"}
StatusValue == {"absent", "queued", "claimed", "waiting_on_dependency",
                "running", "cancel_requested"} \cup Terminal
RowValue == {"none", "running", "succeeded", "failed"}
EventType == {"job.queued", "job.worker_received", "job.started",
              "job.waiting_on_dependency", "artifact.created",
              "job.succeeded", "job.failed", "job.dependencies_satisfied",
              "job.cancel_requested", "job.retried"}

\* Where an invocation of run stands, by the statement it executes next.
BeforeTry == {"receive", "claim", "dependencies", "waitingEvent",
              "attemptJob", "startedEvent"}
InTry == {"work", "outputs", "artifactEvent", "succeededRow", "succeededJob",
          "succeededEvent", "resume", "readWaiting", "satisfiedEvent"}
InHandler == {"failedRow", "failedJob", "failedEvent"}
RunPc == {"idle", "nextWaiting", "calling"} \cup BeforeTry \cup InTry \cup InHandler

\* attempt: job["attempt"] as claimed.  target: the job whose dependencies
\* are read; unread: those not read yet; unmet: one read was not succeeded.
\* todo: the rows of waiting_jobs not visited yet.
Frame == [pc : RunPc, attempt : 0 .. MaxAttempt, target : Jobs,
          unread : SUBSET Jobs, unmet : BOOLEAN, todo : SUBSET Jobs]
IdleFrame(j) == [pc |-> "idle", attempt |-> 0, target |-> j,
                 unread |-> {}, unmet |-> FALSE, todo |-> {}]

\* The request a client has in progress, by the statement of its handler
\* that comes next; attempt is the one retry_job read.
ApiPc == {"queuedEvent", "enqueue", "cancelWrite", "cancelEvent",
          "retryWrite", "retryEvent"}
NoRequest == [pc |-> "idle", job |-> NoJob, attempt |-> 0]
Request == [pc : ApiPc, job : Jobs, attempt : 0 .. MaxAttempt - 1]

TypeOK ==
    /\ status \in [Jobs -> StatusValue]
    /\ attempt \in [Jobs -> Attempts]
    /\ outputs \in [Jobs -> 0 .. MaxAttempt]
    /\ rows \in [Jobs -> [Attempts -> RowValue]]
    /\ events \in [Jobs -> SUBSET EventType]
    /\ queue \in [Jobs -> 0 .. MaxQueue]
    /\ held \in [Workers -> Jobs \cup {NoJob}]
    /\ run \in [Workers -> [Jobs -> Frame]]
    /\ api \in [Clients -> Request \cup {NoRequest}]
    /\ budget \in [Hazards -> Nat]

Init ==
    /\ status = [j \in Jobs |-> "absent"]
    /\ attempt = [j \in Jobs |-> 1]
    /\ outputs = [j \in Jobs |-> 0]
    /\ rows = [j \in Jobs |-> [n \in Attempts |-> "none"]]
    /\ events = [j \in Jobs |-> {}]
    /\ queue = [j \in Jobs |-> 0]
    /\ held = [w \in Workers |-> NoJob]
    /\ run = [w \in Workers |-> [j \in Jobs |-> IdleFrame(j)]]
    /\ api = [c \in Clients |-> NoRequest]
    /\ budget \in Budgets

-----------------------------------------------------------------------------
(* Writing the store.                                                      *)

SetStatus(j, s) == status' = [status EXCEPT ![j] = s]
Record(j, e) == events' = [events EXCEPT ![j] = @ \cup {e}]
SetRow(j, n, s) == rows' = [rows EXCEPT ![j][n] = s]
Strike(h) == budget[h] > 0 /\ budget' = [budget EXCEPT ![h] = @ - 1]
Publish(j) == queue[j] < MaxQueue /\ queue' = [queue EXCEPT ![j] = @ + 1]

-----------------------------------------------------------------------------
(* The HTTP handlers.                                                      *)

Asks(c, pc, j, n) ==
    api' = [api EXCEPT ![c] = [pc |-> pc, job |-> j, attempt |-> n]]
Answers(c) == api' = [api EXCEPT ![c] = NoRequest]

\* POST /v1/jobs: the INSERT.  A client knows the identifiers it was given,
\* so the prerequisites it names exist.
Submit(c, j) ==
    /\ api[c].pc = "idle"
    /\ status[j] = "absent"
    /\ \A d \in Deps[j] : status[d] # "absent"
    /\ SetStatus(j, "queued")
    /\ Asks(c, "queuedEvent", j, 0)
    /\ UNCHANGED <<attempt, outputs, rows, events, broker, run, budget>>

QueuedEvent(c) ==
    /\ api[c].pc = "queuedEvent"
    /\ Record(api[c].job, "job.queued")
    /\ Asks(c, "enqueue", api[c].job, 0)
    /\ UNCHANGED <<status, attempt, outputs, rows, broker, run, budget>>

\* The last statement of create_job and of retry_job.
Enqueue(c) ==
    /\ api[c].pc = "enqueue"
    /\ Publish(api[c].job)
    /\ Answers(c)
    /\ UNCHANGED <<store, held, run, budget>>

\* POST /v1/jobs/{job_id}/cancel reads the row, refuses a terminal job ...
CancelRead(c, j) ==
    /\ api[c].pc = "idle"
    /\ status[j] \notin Terminal \cup {"absent"}
    /\ Strike("cancel")
    /\ Asks(c, "cancelWrite", j, 0)
    /\ UNCHANGED <<store, broker, run>>

\* ... and writes the status, whatever it has become since.
CancelWrite(c) ==
    /\ api[c].pc = "cancelWrite"
    /\ SetStatus(api[c].job, "cancel_requested")
    /\ Asks(c, "cancelEvent", api[c].job, 0)
    /\ UNCHANGED <<attempt, outputs, rows, events, broker, run, budget>>

CancelEvent(c) ==
    /\ api[c].pc = "cancelEvent"
    /\ Record(api[c].job, "job.cancel_requested")
    /\ Answers(c)
    /\ UNCHANGED <<status, attempt, outputs, rows, broker, run, budget>>

\* POST /v1/jobs/{job_id}/retry reads the row ...
RetryRead(c, j) ==
    /\ c \in Retriers
    /\ api[c].pc = "idle"
    /\ status[j] \in {"failed", "cancelled"}
    /\ attempt[j] < MaxAttempt
    /\ Asks(c, "retryWrite", j, attempt[j])
    /\ UNCHANGED <<store, broker, run, budget>>

\* ... and writes the attempt that follows the one it read.
RetryWrite(c) ==
    /\ api[c].pc = "retryWrite"
    /\ SetStatus(api[c].job, "queued")
    /\ attempt' = [attempt EXCEPT ![api[c].job] = api[c].attempt + 1]
    /\ Asks(c, "retryEvent", api[c].job, api[c].attempt)
    /\ UNCHANGED <<outputs, rows, events, broker, run, budget>>

RetryEvent(c) ==
    /\ api[c].pc = "retryEvent"
    /\ Record(api[c].job, "job.retried")
    /\ Asks(c, "enqueue", api[c].job, 0)
    /\ UNCHANGED <<status, attempt, outputs, rows, broker, run, budget>>

\* The API process dies, or a statement of the handler raises: what the
\* handler has written stays, the rest is never done.
AbandonRequest(c) ==
    /\ api[c].pc # "idle"
    /\ Strike("apiCrash")
    /\ Answers(c)
    /\ UNCHANGED <<store, broker, run>>

ClientStep(c) ==
    QueuedEvent(c) \/ Enqueue(c) \/ CancelWrite(c) \/ CancelEvent(c)
        \/ RetryWrite(c) \/ RetryEvent(c)

-----------------------------------------------------------------------------
(* The broker: Redis and Celery, as create_celery configures them.         *)

\* A free worker is given a message; it is acknowledged late, after the task.
Deliver(w, j) ==
    /\ held[w] = NoJob
    /\ queue[j] > 0
    /\ queue' = [queue EXCEPT ![j] = @ - 1]
    /\ held' = [held EXCEPT ![w] = j]
    /\ run' = [run EXCEPT ![w][j].pc = "receive"]
    /\ UNCHANGED <<store, api, budget>>

Acknowledge(w) ==
    /\ held[w] # NoJob
    /\ run[w][held[w]].pc = "idle"
    /\ held' = [held EXCEPT ![w] = NoJob]
    /\ UNCHANGED <<store, queue, run, api, budget>>

\* Mutant of Crash: the message was acknowledged early and is lost.
CrashLosesMessage(w) ==
    /\ held[w] # NoJob
    /\ Strike("crash")
    /\ held' = [held EXCEPT ![w] = NoJob]
    /\ run' = [run EXCEPT ![w] = [j \in Jobs |-> IdleFrame(j)]]
    /\ UNCHANGED <<store, queue, api>>

\* task_reject_on_worker_lost: the message of a worker that dies goes back.
Crash(w) ==
    /\ held[w] # NoJob
    /\ Strike("crash")
    /\ Publish(held[w])
    /\ held' = [held EXCEPT ![w] = NoJob]
    /\ run' = [run EXCEPT ![w] = [j \in Jobs |-> IdleFrame(j)]]
    /\ UNCHANGED <<store, api>>

\* visibility_timeout: a message unacknowledged for an hour is given again,
\* although its worker may still be at work.
Redeliver(w) ==
    /\ held[w] # NoJob
    /\ Strike("visibilityTimeout")
    /\ Publish(held[w])
    /\ UNCHANGED <<store, held, run, api>>

-----------------------------------------------------------------------------
(* JobExecutor.run(j), in worker w.                                        *)

At(w, j, pc) == run[w][j].pc = pc
SetFrame(w, j, f) == run' = [run EXCEPT ![w][j] = f]
Goto(w, j, pc) == run' = [run EXCEPT ![w][j].pc = pc]
Return(w, j) == SetFrame(w, j, IdleFrame(j))

\* execute_job records that a worker has the task before it calls run.
Receive(w, j) ==
    /\ At(w, j, "receive")
    /\ Record(j, "job.worker_received")
    /\ Goto(w, j, "claim")
    /\ UNCHANGED <<status, attempt, outputs, rows, broker, api, budget>>

ClaimedFrame(j) ==
    [pc |-> "dependencies", attempt |-> attempt[j], target |-> j,
     unread |-> Deps[j], unmet |-> FALSE, todo |-> {}]

\* Mutant of Claim: no condition on the status.
ClaimAny(w, j) ==
    /\ At(w, j, "claim")
    /\ SetStatus(j, "claimed")
    /\ SetFrame(w, j, ClaimedFrame(j))
    /\ UNCHANGED <<attempt, outputs, rows, events, broker, api, budget>>

\* The UPDATE ... WHERE status='queued' RETURNING * matches the row.
Claim(w, j) ==
    /\ At(w, j, "claim")
    /\ status[j] = "queued"
    /\ SetStatus(j, "claimed")
    /\ SetFrame(w, j, ClaimedFrame(j))
    /\ UNCHANGED <<attempt, outputs, rows, events, broker, api, budget>>

\* No row matches: run returns.
ClaimNothing(w, j) ==
    /\ At(w, j, "claim")
    /\ status[j] # "queued"
    /\ Return(w, j)
    /\ UNCHANGED <<store, broker, api, budget>>

HavingRead(f, d, met) ==
    [f EXCEPT !.unread = @ \ {d}, !.unmet = @ \/ ~met]

\* Mutant of ReadDependency: a prerequisite that is over is good enough.
ReadDependencyOver(w, j, d) ==
    /\ At(w, j, "dependencies") \/ At(w, j, "readWaiting")
    /\ d \in run[w][j].unread
    /\ SetFrame(w, j, HavingRead(run[w][j], d, status[d] \in Terminal))
    /\ UNCHANGED <<store, broker, api, budget>>

\* One get_job of the comprehension that collects the dependencies, of the
\* claimed job or of a job that waits for it.
ReadDependency(w, j, d) ==
    /\ At(w, j, "dependencies") \/ At(w, j, "readWaiting")
    /\ d \in run[w][j].unread
    /\ SetFrame(w, j, HavingRead(run[w][j], d, status[d] = "succeeded"))
    /\ UNCHANGED <<store, broker, api, budget>>

DependenciesRead(w, j, pc) == At(w, j, pc) /\ run[w][j].unread = {}

EnterWaiting(w, j) ==
    /\ DependenciesRead(w, j, "dependencies")
    /\ run[w][j].unmet
    /\ SetStatus(j, "waiting_on_dependency")
    /\ Goto(w, j, "waitingEvent")
    /\ UNCHANGED <<attempt, outputs, rows, events, broker, api, budget>>

WaitingEvent(w, j) ==
    /\ At(w, j, "waitingEvent")
    /\ Record(j, "job.waiting_on_dependency")
    /\ Return(w, j)
    /\ UNCHANGED <<status, attempt, outputs, rows, broker, api, budget>>

\* start_attempt: the attempts row, replaced when there is one, ...
StartAttemptRow(w, j) ==
    /\ DependenciesRead(w, j, "dependencies")
    /\ ~ run[w][j].unmet
    /\ SetRow(j, run[w][j].attempt, "running")
    /\ Goto(w, j, "attemptJob")
    /\ UNCHANGED <<status, attempt, outputs, events, broker, api, budget>>

\* ... then the jobs row, in a transaction of its own.
StartAttemptJob(w, j) ==
    /\ At(w, j, "attemptJob")
    /\ SetStatus(j, "running")
    /\ Goto(w, j, "startedEvent")
    /\ UNCHANGED <<attempt, outputs, rows, events, broker, api, budget>>

StartedEvent(w, j) ==
    /\ At(w, j, "startedEvent")
    /\ Record(j, "job.started")
    /\ Goto(w, j, "work")
    /\ UNCHANGED <<status, attempt, outputs, rows, broker, api, budget>>

\* Mutant of Work: output_artifacts are never written.
WorkKeepsOutputs(w, j) ==
    /\ At(w, j, "work")
    /\ Goto(w, j, "artifactEvent")
    /\ UNCHANGED <<store, broker, api, budget>>

\* The pipeline of the job's type and its create_artifact calls return, ...
Work(w, j) ==
    /\ At(w, j, "work")
    /\ Goto(w, j, "outputs")
    /\ UNCHANGED <<store, broker, api, budget>>

\* ... or raise (an invalid persona, a worker service that refuses the run).
WorkFails(w, j) ==
    /\ At(w, j, "work")
    /\ Goto(w, j, "failedRow")
    /\ UNCHANGED <<store, broker, api, budget>>

\* update_job(job_id, "running", output_artifacts=...) writes both columns.
RecordOutputs(w, j) ==
    /\ At(w, j, "outputs")
    /\ SetStatus(j, "running")
    /\ outputs' = [outputs EXCEPT ![j] = run[w][j].attempt]
    /\ Goto(w, j, "artifactEvent")
    /\ UNCHANGED <<attempt, rows, events, broker, api, budget>>

\* Mutant of ArtifactEvent: finish_attempt writes the jobs row only.
ArtifactEventNoRow(w, j) ==
    /\ At(w, j, "artifactEvent")
    /\ Record(j, "artifact.created")
    /\ Goto(w, j, "succeededJob")
    /\ UNCHANGED <<status, attempt, outputs, rows, broker, api, budget>>

ArtifactEvent(w, j) ==
    /\ At(w, j, "artifactEvent")
    /\ Record(j, "artifact.created")
    /\ Goto(w, j, "succeededRow")
    /\ UNCHANGED <<status, attempt, outputs, rows, broker, api, budget>>

\* finish_attempt(..., "succeeded"): the attempts row, then the jobs row.
SucceededRow(w, j) ==
    /\ At(w, j, "succeededRow")
    /\ SetRow(j, run[w][j].attempt, "succeeded")
    /\ Goto(w, j, "succeededJob")
    /\ UNCHANGED <<status, attempt, outputs, events, broker, api, budget>>

SucceededJob(w, j) ==
    /\ At(w, j, "succeededJob")
    /\ SetStatus(j, "succeeded")
    /\ Goto(w, j, "succeededEvent")
    /\ UNCHANGED <<attempt, outputs, rows, events, broker, api, budget>>

SucceededEvent(w, j) ==
    /\ At(w, j, "succeededEvent")
    /\ Record(j, "job.succeeded")
    /\ Goto(w, j, "resume")
    /\ UNCHANGED <<status, attempt, outputs, rows, broker, api, budget>>

-----------------------------------------------------------------------------
(* _resume_dependents(j), still inside the try of run(j).                  *)

Waiting(j) == {b \in Jobs : status[b] = "waiting_on_dependency" /\ j \in Deps[b]}

Resuming(f, found) == [f EXCEPT !.pc = "nextWaiting", !.todo = found]

\* Mutant of FindWaiting: LIMIT 1.
FindOneWaiting(w, j) ==
    /\ At(w, j, "resume")
    /\ \E todo \in SUBSET Waiting(j) :
         /\ Cardinality(todo) = IF Waiting(j) = {} THEN 0 ELSE 1
         /\ SetFrame(w, j, Resuming(run[w][j], todo))
    /\ UNCHANGED <<store, broker, api, budget>>

\* waiting_jobs reads the rows once, for the whole loop.
FindWaiting(w, j) ==
    /\ At(w, j, "resume")
    /\ SetFrame(w, j, Resuming(run[w][j], Waiting(j)))
    /\ UNCHANGED <<store, broker, api, budget>>

Visiting(f, b) ==
    [f EXCEPT !.pc = "readWaiting", !.target = b, !.unread = Deps[b],
              !.unmet = FALSE, !.todo = @ \ {b}]

VisitWaiting(w, j, b) ==
    /\ At(w, j, "nextWaiting")
    /\ b \in run[w][j].todo
    /\ SetFrame(w, j, Visiting(run[w][j], b))
    /\ UNCHANGED <<store, broker, api, budget>>

LeaveWaiting(w, j) ==
    /\ DependenciesRead(w, j, "readWaiting")
    /\ run[w][j].unmet
    /\ Goto(w, j, "nextWaiting")
    /\ UNCHANGED <<store, broker, api, budget>>

\* Every prerequisite was read as succeeded: the row is written queued ...
Requeue(w, j) ==
    /\ DependenciesRead(w, j, "readWaiting")
    /\ ~ run[w][j].unmet
    /\ SetStatus(run[w][j].target, "queued")
    /\ Goto(w, j, "satisfiedEvent")
    /\ UNCHANGED <<attempt, outputs, rows, events, broker, api, budget>>

\* ... and run is called on it, in this worker.
SatisfiedEvent(w, j) ==
    /\ At(w, j, "satisfiedEvent")
    /\ Record(run[w][j].target, "job.dependencies_satisfied")
    /\ run' = [run EXCEPT ![w][j].pc = "calling",
                          ![w][run[w][j].target].pc = "claim"]
    /\ UNCHANGED <<status, attempt, outputs, rows, broker, api, budget>>

CallReturned(w, j) ==
    /\ At(w, j, "calling")
    /\ At(w, run[w][j].target, "idle")
    /\ Goto(w, j, "nextWaiting")
    /\ UNCHANGED <<store, broker, api, budget>>

ResumeDone(w, j) ==
    /\ At(w, j, "nextWaiting")
    /\ run[w][j].todo = {}
    /\ Return(w, j)
    /\ UNCHANGED <<store, broker, api, budget>>

-----------------------------------------------------------------------------
(* except Exception: the handler, and what reaches it.                     *)

FailedRow(w, j) ==
    /\ At(w, j, "failedRow")
    /\ SetRow(j, run[w][j].attempt, "failed")
    /\ Goto(w, j, "failedJob")
    /\ UNCHANGED <<status, attempt, outputs, events, broker, api, budget>>

FailedJob(w, j) ==
    /\ At(w, j, "failedJob")
    /\ SetStatus(j, "failed")
    /\ Goto(w, j, "failedEvent")
    /\ UNCHANGED <<attempt, outputs, rows, events, broker, api, budget>>

FailedEvent(w, j) ==
    /\ At(w, j, "failedEvent")
    /\ Record(j, "job.failed")
    /\ Return(w, j)
    /\ UNCHANGED <<status, attempt, outputs, rows, broker, api, budget>>

\* A statement of the try raises (the store is unreachable).
RaiseInTry(w, j) ==
    /\ run[w][j].pc \in InTry \ {"work"}
    /\ Strike("storeError")
    /\ Goto(w, j, "failedRow")
    /\ UNCHANGED <<store, broker, api>>

\* A statement outside the try raises: the exception leaves run(j) and
\* reaches the try of the frame that called it ...
RaiseToCaller(w, j, caller) ==
    /\ run[w][j].pc \in BeforeTry \cup InHandler
    /\ At(w, caller, "calling") /\ run[w][caller].target = j
    /\ Strike("storeError")
    /\ run' = [run EXCEPT ![w][j] = IdleFrame(j), ![w][caller].pc = "failedRow"]
    /\ UNCHANGED <<store, broker, api>>

\* ... or leaves the task, which Celery publishes again for a
\* ConnectionError (autoretry_for) and only logs otherwise.
RaiseFromTask(w, j) ==
    /\ run[w][j].pc \in BeforeTry \cup InHandler
    /\ held[w] = j
    /\ Strike("storeError")
    /\ Return(w, j)
    /\ Publish(j) \/ UNCHANGED queue
    /\ UNCHANGED <<store, held, api>>

RunStep(w, j) ==
    \/ Receive(w, j) \/ Claim(w, j) \/ ClaimNothing(w, j)
    \/ \E d \in Jobs : ReadDependency(w, j, d)
    \/ EnterWaiting(w, j) \/ WaitingEvent(w, j)
    \/ StartAttemptRow(w, j) \/ StartAttemptJob(w, j) \/ StartedEvent(w, j)
    \/ Work(w, j) \/ WorkFails(w, j)
    \/ RecordOutputs(w, j) \/ ArtifactEvent(w, j)
    \/ SucceededRow(w, j) \/ SucceededJob(w, j) \/ SucceededEvent(w, j)
    \/ FindWaiting(w, j) \/ \E b \in Jobs : VisitWaiting(w, j, b)
    \/ LeaveWaiting(w, j) \/ Requeue(w, j) \/ SatisfiedEvent(w, j)
    \/ CallReturned(w, j) \/ ResumeDone(w, j)
    \/ FailedRow(w, j) \/ FailedJob(w, j) \/ FailedEvent(w, j)

Raise(w, j) ==
    \/ RaiseInTry(w, j)
    \/ \E caller \in Jobs : RaiseToCaller(w, j, caller)
    \/ RaiseFromTask(w, j)

ClientCall(c) ==
    \/ \E j \in Jobs : Submit(c, j) \/ CancelRead(c, j) \/ RetryRead(c, j)
    \/ ClientStep(c)
    \/ AbandonRequest(c)

WorkerStep(w) ==
    \/ \E j \in Jobs : Deliver(w, j) \/ RunStep(w, j) \/ Raise(w, j)
    \/ Acknowledge(w) \/ Crash(w) \/ Redeliver(w)

Next == (\E c \in Clients : ClientCall(c)) \/ (\E w \in Workers : WorkerStep(w))

Spec == Init /\ [][Next]_vars

\* No fairness is owed to the clients' first steps, to the hazards, nor to
\* the choice between success and failure of the work.
Fairness ==
    /\ \A c \in Clients : WF_vars(ClientStep(c))
    /\ \A w \in Workers :
         /\ WF_vars(\E j \in Jobs : Deliver(w, j))
         /\ WF_vars(\E j \in Jobs : RunStep(w, j))
         /\ WF_vars(Acknowledge(w))

FairSpec == Spec /\ Fairness

-----------------------------------------------------------------------------
(* Properties.                                                             *)

\* The frames that may still write the outcome of the attempt they claimed.
Owns(w, j) ==
    run[w][j].pc \in {"dependencies", "attemptJob", "startedEvent", "work",
                      "outputs", "artifactEvent", "succeededRow", "succeededJob"}

\* One executor at a time owns a job (claim_job: "Atomically give one
\* executor ownership of a queued job"): so it is through crashes,
\* redeliveries, cancellations and the retries of one client, for jobs that
\* wait for one other at most.  Two clients that retry (main.py:167), or two
\* prerequisites that end in two workers (executor.py:216-221), both write
\* "queued", the second of them after the job was claimed; then it is not so.
OneOwner ==
    \A j \in Jobs, u, v \in Workers : Owns(u, j) /\ Owns(v, j) => u = v

\* A job that succeeded offers, at GET .../result, the artifacts of the very
\* attempt its row names (RecordOutputs precedes SucceededJob, no other
\* attempt comes between).
ResultOfLastAttempt ==
    \A j \in Jobs : status[j] = "succeeded" => outputs[j] = attempt[j]

\* The two rows finish_attempt writes one after the other agree once the
\* second says the job is over.
RowsAgree ==
    \A j \in Jobs :
        status[j] \in {"succeeded", "failed"} => rows[j][attempt[j]] = status[j]

\* No job starts before each job it depends on has published its artifacts,
\* whatever was cancelled, retried, redelivered or lost meanwhile.
StartsAfterDependencies ==
    \A j \in Jobs : "job.started" \in events[j] =>
        \A d \in Deps[j] : "artifact.created" \in events[d]

\* No attempts row that is already settled is written again by a later run.
SettledRowsStay ==
    [][\A j \in Jobs, n \in Attempts :
         rows[j][n] \in {"succeeded", "failed"} => rows'[j][n] = rows[j][n]]_vars

Over(j) == status[j] \in Terminal
Blocked(j) == status[j] = "waiting_on_dependency"
              /\ \E d \in Deps[j] : status[d] # "succeeded"

\* Every job that is submitted ends, or waits for a job that did not succeed.
JobsSettle == \A j \in Jobs : (status[j] = "queued") ~> [](Over(j) \/ Blocked(j))

\* A job whose message is in the broker is claimed in the end, although the
\* workers given the message die: it is acknowledged after the task.
DispatchedIsClaimed ==
    \A j \in Jobs :
        (status[j] = "queued" /\ queue[j] > 0) ~> (status[j] # "queued")
=============================================================================
