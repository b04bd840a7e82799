--------------------------- MODULE BackgroundTasks ---------------------------
(***************************************************************************)
(* The tasks of apps/api/tasks.py, and that they come to an end.           *)
(* aux.execute_job runs a job: one on its own, which is retried and lost   *)
(* ("jobs"); jobs that wait for one another, in front of one worker        *)
(* ("dependents"); and, as the pipeline of a combined_test job, the        *)
(* compilation of its report ("report").  aux.retention_sweep deletes the  *)
(* artifacts that have expired ("artifacts").  The report is made inside   *)
(* the step Work of its job and a sweep reads no job, so that a behaviour  *)
(* is of one area.                                                         *)
(***************************************************************************)
EXTENDS ReportPipeline

CONSTANTS
    Jobs, Deps, Workers, Clients, Retriers, MaxAttempt, MaxQueue, NoJob, Budgets,
    Dependents, DependentDeps, OnlyWorker,
    Sessions, Artifacts, SessionOf, WaysOf, Sweepers, Deleters, MaxFaults, Nobody

VARIABLES area
VARIABLES status, attempt, jobOutputs, rows, events, queue, held, run, api, budget
VARIABLES sessions, row, lock, object, creator, grant, completer, sweeper, deleter, faults

Job == INSTANCE JobLifecycle WITH outputs <- jobOutputs
Dependent == INSTANCE JobLifecycle WITH
    outputs <- jobOutputs, Jobs <- Dependents, Deps <- DependentDeps, Workers <- {OnlyWorker},
    Retriers <- {}, MaxAttempt <- 1, MaxQueue <- 1, Budgets <- {[h \in Job!Hazards |-> 0]}
Store == INSTANCE ArtifactStore

jobVars == <<status, attempt, jobOutputs, rows, events, queue, held, run, api, budget>>
artifactVars == <<sessions, row, lock, object, creator, grant, completer, sweeper, deleter, faults>>
taskVars == <<area, vars, jobVars, artifactVars>>

\* In the other areas nothing may happen, so that each has one initial state.
TasksInit ==
    /\ area \in {"jobs", "dependents", "report", "artifacts"}
    /\ Init /\ Store!StoreInit
    /\ IF area = "dependents" THEN Dependent!Init ELSE Job!Init
    /\ area # "report" => ~ observed

Of(name, elsewhere) == area = name /\ UNCHANGED <<area, elsewhere>>

InJobs == Of("jobs", <<vars, artifactVars>>)
InDependents == Of("dependents", <<vars, artifactVars>>)
InReport == Of("report", <<jobVars, artifactVars>>)
InArtifacts == Of("artifacts", <<vars, jobVars>>)

TasksNext ==
    \/ InJobs /\ Job!Next
    \/ InDependents /\ Dependent!Next
    \/ InReport /\ Next
    \/ InArtifacts /\ Store!StoreNext

\* The conditions of the areas (JobLifecycle, ArtifactStore), each joined with
\* one of the other areas, which are idle; a report may stop at any stage.
ClientGoesOn(c) ==
    \/ InJobs /\ Job!ClientStep(c)
    \/ InDependents /\ Dependent!ClientStep(c)
WorkerTakes(w) ==
    \/ InJobs /\ \E j \in Jobs : Job!Deliver(w, j)
    \/ w = OnlyWorker /\ InDependents /\ \E j \in Dependents : Dependent!Deliver(w, j)
WorkerGoesOn(w) ==
    \/ InJobs /\ \E j \in Jobs : Job!RunStep(w, j)
    \/ w = OnlyWorker /\ InDependents /\ \E j \in Dependents : Dependent!RunStep(w, j)
WorkerAcknowledges(w) ==
    \/ InJobs /\ Job!Acknowledge(w)
    \/ w = OnlyWorker /\ InDependents /\ Dependent!Acknowledge(w)

TasksFairness ==
    /\ \A c \in Clients : WF_taskVars(ClientGoesOn(c))
    /\ \A w \in Workers :
         /\ WF_taskVars(WorkerTakes(w)) /\ WF_taskVars(WorkerGoesOn(w))
         /\ WF_taskVars(WorkerAcknowledges(w))
    /\ \A s \in Sweepers : WF_taskVars(InArtifacts /\ Store!SweepStep(s))
    /\ \A d \in Deleters : WF_taskVars(InArtifacts /\ Store!DeleteStep(d))

TasksSpec == TasksInit /\ [][TasksNext]_taskVars /\ TasksFairness

-----------------------------------------------------------------------------
\* The rows finish_attempt writes one after the other agree once a job on its
\* own is over.
RowsAgree == area = "jobs" => Job!RowsAgree

\* A job on its own that succeeded offers the result of its last attempt.
ResultOfLastAttempt == area = "jobs" => Job!ResultOfLastAttempt

\* A job whose message is in the broker is claimed in the end (task_acks_late).
DispatchedIsClaimed ==
    \A j \in Jobs :
        (area = "jobs" /\ status[j] = "queued" /\ queue[j] > 0) ~> (status[j] # "queued")

\* Every job that is submitted ends, or waits for a job that did not succeed
\* (_resume_dependents).
JobsSettle ==
    \A j \in Dependents :
        (area = "dependents" /\ status[j] = "queued")
            ~> [](area = "dependents" => Dependent!Over(j) \/ Dependent!Blocked(j))

\* What has expired and is not pinned is swept in the end, if only sweeps are
\* started whenever there is something to sweep (delete_expired_artifacts).
SweepsReachAll ==
    (\A s \in Sweepers : WF_taskVars(InArtifacts /\ Store!SweepSelect(s))) => Store!ExpiredIsSwept
=============================================================================
