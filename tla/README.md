# A verification project for the AUX control plane and its workers

This directory holds TLA+ models of the program in this repository, the TLC
configurations that check them on small instances, and theorems about them
that TLAPS checks for every value of their constants. `PROJECT.json` maps each
definition to the lines it stands for and lists the runs, the mutants that show
that a run can fail, the hazards, the findings and the theorems.

## 1. The system

AUX runs synthetic users against a website and reports what they found hard.
A request travels through these parts.

| part | source | state it keeps | operations | what is hard | what makes it correct |
|---|---|---|---|---|---|
| control plane API | `apps/api/main.py` | none of its own | one handler per route: submit, cancel, retry a job; follow events; upload, complete, pin an artifact; delete a session | each handler is several transactions; the process may die between two of them | a handler leaves rows another handler can start from |
| store | `apps/api/postgres_store.py`, `apps/api/store.py` | `jobs`, `attempts`, `events`, `artifacts`, `sessions` | one transaction per method | two processes interleave between the methods | one owner per job, sequences without gaps, rows that agree |
| queue | `apps/api/queue.py`, `apps/api/tasks.py` | the broker's messages | enqueue, deliver, acknowledge late | redelivery after a worker is lost or after an hour | a job that is dispatched is claimed, once |
| executor | `apps/api/executor.py:164-221` | the frame of each running `run(job)` | claim, wait for prerequisites, work, publish, finish, resume the dependents | all of the above at once, and recursion | no job starts early, every job settles, a result is that of its attempt |
| report pipelines | `apps/api/executor.py:223-1825` | what a job has gathered so far | drive the journeys, have them critiqued, cluster, merge, verify, illustrate, publish | a stage that fails in part; the order of findings; six views of one list | each thing observed is reported once, beside evidence of its own |
| artifact storage | `apps/api/artifact_storage.py` | objects beside rows | put, get, delete, multipart | rows and objects are written by separate calls | objects have rows, what is pinned is kept, what is complete has its size, what expires is swept |
| identity | `apps/api/auth.py`, `tenant.py`, `credentials.py` | memberships | verify, synchronise | replacement of a set of rows | a member sees its workspaces only |
| Gradio client | `app.py`, `apps/gradio/` | the components of each tab | generate, edit and test personas, revise prototypes, watch recordings and live runs, back up a session | callbacks that overlap and write back what they captured | what is tested is what was displayed, a wait ends, a backup is the newest |
| persona service | `services/persona_service/` | `personas`, the cached index of the pool | generate, compile, adopt, save, list, patch | model calls that fail in part, one key space for all workspaces | an answer is stored, a persona stays in its workspace |
| journey worker | `services/journey-worker/node/src/` | the runs in progress, the active run, the captures | run, follow live, analyse evidence | awaits around shared state | a run's reasoning and evidence are its own, in order |
| eyeson worker | `services/eyeson-worker/node/src/` | a queue of analyses | enqueue, drain, batch, flush, aggregate | analyses that end in any order or fail | places are counted, a batch is whole |

The parts interact as follows. The API writes a job's row and then publishes
its identifier to the broker; a worker is given the identifier, claims the row
and runs the job, calling the journey worker and the eyeson worker over HTTP;
it writes artifacts (row and object), the attempt's and the job's row, events,
and then re-queues and runs the jobs that waited for this one. Clients poll
the row, follow the events over Server-Sent Events, and read the artifacts. An
hourly beat publishes the sweep of expired artifacts; a request may delete a session and all
it holds at any time. The Gradio application is such a client; it talks to the
persona service for its synthetic users, to the journey worker for the live
view and to GitHub for backups.

## 2. The modules

| module | what it is |
|---|---|
| `JobLifecycle` | submission, cancellation, retry, broker, claim, dependencies, attempts, resumption |
| `JobLifecycleProofs` | theorems about it |
| `EventLog` | abstract specification: a log per job that grows at its end, readers that see prefixes |
| `EventStream` | the advisory-locked insertion of events, the SSE generator, cuts and resumption; implements `EventLog` |
| `EventStreamProofs` | theorems about it, the refinement included |
| `ArtifactStore` | rows and objects: creation, uploads, pins, sweeps, deletion of a session |
| `ArtifactStoreProofs` | theorems about it |
| `ControlPlane` | composes `JobLifecycle` and `ArtifactStore`: what holds of them whatever is scheduled |
| `FindingMerge` | how texts are compared, findings and strengths clustered and merged, pain points aggregated: operators, no state |
| `ReportPipeline` | a `combined_test` job from its personas to its artifacts, over `FindingMerge` |
| `ReportPipelineProofs` | theorems about both |
| `BackgroundTasks` | composes `JobLifecycle`, `ReportPipeline` and `ArtifactStore` with the scheduling of the workers |
| `ReasoningCapture` | the journeys of one worker that drive a browser, the active run, the captured reasoning |
| `ReasoningCaptureProofs` | theorems about it |
| `EvidenceFlow` | the journeys of one worker that simulates, the requests for analyses, the eyeson worker's queue and batches |
| `JourneyWorker` | composes the two: the engine is chosen when the process starts |
| `JourneyWorkerProofs` | theorems about `EvidenceFlow` and the composition |
| `PersonaPool` | the selection of a group from the pool's index: operators, no state |
| `PersonaRuntime` | the persona service: its requests in steps, its store, its cache |
| `Workbench` | a tab of the Gradio application and a client of its HTTP API, over `PersonaRuntime` |
| `WorkbenchProofs` | theorems about `PersonaRuntime` and `Workbench` |
| `Adaptation` | the chat that revises prototypes, in several tabs, and its jobs |
| `Recordings` | the recordings tab: the live view, its timer, the hand-off, what is played |
| `Backup` | the controls and the pushes of the backup to GitHub |
| `Gradio` | composes `Workbench`, `Adaptation`, `Recordings` and `Backup` |
| `GradioProofs` | theorems about `Adaptation`, `Backup` and the composition |
| `MCJobs`, `MCArtifacts`, `MCControlPlane`, `MCStream`, `MCReport`, `MCTasks`, `MCWorker`, `MCGradio` | their instances for TLC |

### JobLifecycle

One step is one transaction of the store or one call of the broker, because
the code opens a connection per method: whatever another process does may fall
between two steps. `status`, `attempt`, `outputs` are columns of `jobs`; `rows`
is `attempts.status`; `events` keeps the types recorded of each job (their
order is `EventStream`'s concern). `queue` counts messages, `held` is the
message a worker has not acknowledged. `run[w][j]` is the frame of the
invocation of `JobExecutor.run(j)` by worker `w`, with the statement it
executes next and the locals that survive: the attempt claimed, the
prerequisites not read yet, the waiting jobs not visited yet. A worker that
resumes a dependent calls `run` recursively and then holds several frames.
`api[c]` is the handler a client is in.

* `Submit`, `QueuedEvent`, `Enqueue` are `create_job`; `CancelRead`,
  `CancelWrite`, `CancelEvent` are `cancel_job`; `RetryRead`, `RetryWrite`,
  `RetryEvent` are `retry_job`. `AbandonRequest` is the API dying anywhere in
  a handler.
* `Deliver`, `Receive`, `Acknowledge`, `Crash`, `Redeliver` are the Celery task
  with late acknowledgement and its visibility timeout.
* `Claim` ... `FailedEvent` are the statements of `run` and
  `_resume_dependents`, in their order; `RaiseInTry`, `RaiseToCaller` and
  `RaiseFromTask` are an error of the store at any of them, which the handler
  of `run` turns into a failure or which leaves the task.

Choices. The store is PostgreSQL (`claim_job` is one `UPDATE ... RETURNING *`);
the SQLite twin releases its lock before it reads the row again, and is not
modelled. The local queue of the development setup is a broker with one worker
that never redelivers, a special case. Celery's five retries of a task that
raises are abstracted to the budget of `storeError`. A submission names
prerequisites that exist, so dependency graphs have no cycle. The work itself
succeeds or fails nondeterministically.

### EventLog and EventStream

`EventLog` promises that a job's log grows at its end by one event and that a
client sees the next event of the log of its job, so always a prefix.
`EventStream` has the rows by primary key, the advisory lock by hash (two jobs
may share one), each call of `event` at its next statement, a generator per
client with its cursor, the batch it fetched and the rounds left, and the bytes
yielded and not received. `RollBack` is a writer that dies, `Cut` a connection
that is lost with what was on the wire, `Connect` the reconnection with
`Last-Event-ID`. `StatusChanges` lets the job become terminal at any moment
relative to its last event, because `finish_attempt` precedes it. The refinement
maps the log of a job to its rows in order.

### ArtifactStore

An artifact is a row (`row`) and an object (`object`), each transaction that
holds it `FOR UPDATE` is in `lock`. `creator`, `completer`, `sweeper`, `deleter`
are the handlers in progress at their next statement; `creator` then says in
which of the `Ways` the artifact came to be. `grant` is what a client may still
write: a presigned PUT, as often and of whatever size it likes until the URL
lapses, during and after `complete_upload` too; or parts, which
`complete_multipart` assembles once. `CompleteRead` is `complete_upload` of any
artifact, completed already or not, with the identifier of an upload in parts or
without (`parts`); only what was reserved has an `expected_size` to be measured
by. Every fault (a crash, an error of either store) is drawn from `MaxFaults`.
What is assumed of what is not in this repository: the bucket aborts parts
that are never completed, and refuses a PUT whose URL has lapsed, before the
artifact expires; a transaction whose outcome is unknown to its client is not
modelled. One request completes an artifact at a time. `SELECT ... FOR UPDATE`
takes its locks in one step. Pinning or completing a row that is gone changes
nothing. The development store with files is not modelled.

### ControlPlane and BackgroundTasks

A job's artifacts and its report are made inside the one step `Work` of its
life, and no handler of the artifacts reads the row of a job: the components
share no variable, so that a behaviour of either composition is one of one
`area`, and what is checked of the area is checked of the component.
`ControlPlane` says what holds whatever is scheduled. `BackgroundTasks` adds the
fairness of the Celery tasks, and has `JobLifecycle` twice: a job on its own,
which is lost and retried, and jobs that wait for one another.

### FindingMerge and ReportPipeline

A text is the set of its words; what the code decides with regular expressions
(does it read as praise, as a problem, as a failure of the harness; does it
quote a literal) is membership of a vocabulary that is a constant. What the
ratios of `_similar` and the rest compare is kept: they are ratios of sizes of
sets of words. `from` is a history field: the notes and points a finding was
made of. `Blocks` is `_cluster_by_title` with its moving of clusters,
`MergeSimilarFindings`, `MergeStrengths` the folds over the clusters,
`Synthesized` the eyeson worker's aggregation over a cohort (`aggregate.js`).

`ReportPipeline` walks `_combined_test` stage by stage, one action each: `Load`,
`RunJourney`, `Critique`, `CritiqueRefused`, `Aggregate`, `Compile` or, without
a journey worker, `Infer`, then `Merge`, `DropUnverifiableQuotes`, `Attach`,
`AttachRedesigns`, `Publish`; and the ways each may fail the job. What a worker
answers is drawn from a set of constants. The views of the report (`Summary`,
`FlowGroups`, `PriorityOrder`, `Slides`, `Presentation`, and the client's
`Review`, `Brief`, `ThoughtLog`) are operators over the findings at the end, of
which wording and layout are left out.

### ReasoningCapture

`journey` is each call of `runWithJourneyTest`, `captures` and `activeRunId`
are the module's two globals, `mirrors` are the copies of answers (`tee`) still
being read by `drain`. Only completions that carry reasoning are modelled: the
others leave nothing. `clock` counts answers and stands for `Date.now()`. Two
journeys may have the same run id (a job that is retried after its caller timed
out while the first journey goes on: nothing in the worker stops it), and one
may throw. A report is the capture's thoughts sorted by their time, those of one
time as they were recorded, because JavaScript's sort is stable (`InOrder`).
`overlapped` and `late` are history variables the properties need.

### EvidenceFlow and JourneyWorker

`runs[r]` is a call of the fixture engine's `runJourney`: one synchronous walk
over the tasks, then an await for each answer in the order of the requests.
`calls` is where each analysis is on the eyeson worker's side, `answers` what
the journey worker has heard of it, so that a connection may break before the
request has arrived or after. `pending` and `byRun` are `AnalysisQueue`'s;
`Drain` is part of every action that frees a place or fills the queue.
`AnalyzeBatch`, `BatchFails`, `Flush`, `Flushed` are `/v1/evidence-batches`;
the list of a run is forgotten by `Flushed` with what was added to it since, as
in the code. An input's step has no evidence, evidence, or evidence whose
elements cannot be told apart, which throws in the middle of the walk.
`JourneyWorker` gives a process one of the two engines.

### PersonaPool and PersonaRuntime

`SelectPoolGroup` is `github_pool.py`'s: the nearest entries and the greedy
choice of the one farthest from those selected; distances are given with the
entries, and the space of traits is a line.

A request of `PersonaRuntime` is a record in `calls` with the step it is at:
the batches of people (`People`), the rounds of completions of those compiled
at once (`Complete`), `Save` one by one, `Patch`, `List`, `FetchIndex`, `Adopt`
entry by entry. A profile is an id and a revision. `Mishap`s are lost
connections, errors of the store, timeouts and restarts, within a bound. A
client that has stopped waiting is not noticed: its request goes on.

### Workbench, Adaptation, Recordings, Backup, Gradio

A callback of Gradio captures its inputs at the click, works as long as its
requests take, and then writes whole components: `busy[h]` is the callback, with
what it captured and what it has gathered, and the tab's components are
variables. One run of each callback is under way at a time, different ones
overlap. `Workbench` has the generation of personas (with the pool, a model's
choice among stored ones, and the shortfall), the loading, choosing, editing and
saving in the Persona Studio, the start of an analysis (session, snapshots one
by one, job, wait), and the same workflow asked for over the HTTP API, which may ask for
no persona at all where it names the bundled example (`ClickApiForNone`). The job
itself ends in one way or another or never (`JobEnds`): how is `JobLifecycle`'s
matter.

`Adaptation` is a chat turn per tab: list, fetch the last prototype, create the
job with it, wait; `Execute` and `Store` are the job, and `stamped` the order of
`created_at`, which precedes the commit of the row. `Recordings` has the
components of its tab, the journeys in the worker and their directories, the
job's one publication of all recordings, and the retention; its callbacks are
the change of mode, the poll, the hand-off (two requests), the choice of a
session, the slider and the comparison. A run without a directory of its own is
given the nearest of its job (`Directory`), as `liveRun.js` does; `followed` is a
history field, the run a hand-off followed, which the code does not pass on. `Backup` has
the controls (connect, select, fix) and a push as two calls, read and put;
GitHub accepts a put over the version it names. `done` is a history variable:
the backups over since one was last alone. `Gradio` lets a behaviour be of one
of the four areas: they share no component but the session, which each is given.

## 3. The runs

Every property of a passing run has a mutant of the code under which it fails.

| run | instance | shows |
|---|---|---|
| `control_plane` | jobs: a job and its prerequisite, 2 workers, a client that cancels and retries, with a crash and a redelivery or an error of the store; artifacts: one made, one uploaded either way, 2 sweeps, 1 deletion, 1 fault | `OneOwner`, `StartsAfterDependencies`; `StoreTypeOK`, `ObjectsHaveRows`, `AssembledIsWhole`, `PinnedIsKept` |
| `background_tasks` | 1 job, 2 workers, 2 clients of which one retries, 3 attempts, a crash of each side and a redelivery; two jobs that wait for a third, 1 worker; 2 artifacts, 2 sweeps, 1 fault; a report of 2 personas, 3 kinds of journey, 3 kinds of critique, limits below what they say | `RowsAgree`, `ResultOfLastAttempt`, `DispatchedIsClaimed`; `JobsSettle`; `SweepsReachAll`; `TypeOK`, `AccountedOnce`, `ClustersAreClosed`, `EvidenceIsItsOwn`, `ReasoningIsKept`, `ViewsAgree` |
| `jobs_lost_wakeup` | a job and its prerequisite, 2 workers, fairness | violation of `JobsSettle`: the wake-up falls between the read and the write |
| `jobs_worker_lost` | 1 job, 1 crash, fairness | violation of `JobsSettle`: a claimed job of a lost worker |
| `jobs_diamond` | a job that waits for two, one of which waits for the other | violation of `SettledRowsStay`: a succeeded job runs again |
| `jobs_two_retries` | 1 job, 2 clients that retry, no hazard | violation of `OneOwner`: one attempt in two workers |
| `stream` | 2 jobs on one lock key, 2 writers, 1 client, 1 cut, 1 death | `Sequenced`, the refinement `ImplementsLog`, and `EverythingIsSeen` |
| `artifacts_put_again` | 1 artifact, no fault | violation of `CompleteIsWhole`: a PUT after the check of the size |
| `worker` | either engine: 3 journeys, 2 under one run id, 1 failure; or 1 run of up to three steps and 1 batch of it, one place of analysis | `WorkerTypeOK`, `ThoughtsOnce`, `AloneReportsItsOwn`, `LiveView`; `WorkConserved`, `EvidenceAccounted`, `BatchCovers`, `EveryoneAnswered` |
| `gradio` | workbench: 14 scenes; adaptation: 2 tabs, 3 turns, 1 trouble; recordings: 2 sessions, 6 viewings; backup: 2 tabs, 2 artifacts, 6 clicks, 1 trouble | `TypeOK`, `AnswersAreStored`, `DisplayIsStored`, `JobIsWhole`, `BackupIsNewest`, `TurnsGoForward`, `RowsKeepWorkspace`, `AdoptsRangedGroup`, `AskedForArrive`, `EverythingReturns` |
| `gradio_timer` | the same without the scenes | violation of `TicksOnlyOnScreen`: a late poll starts the timer again |
| `gradio_handoff` | the same | violation of `PlaysTheFollowed`: an earlier persona's recording is played |

**Bounds.** Two workers are enough for each race between two deliveries; one
job at a time is enough for what concerns a job alone, two or three for what
concerns dependencies. A budget of one for a hazard lets it strike at every
point of every handler; two crashes would need a third attempt to matter,
which `background_tasks` has. `Budgets` is a set: a behaviour has one of them, so
that a run need not allow all hazards together. In `control_plane` one client
retries and no job waits for two others; what happens beyond that is
`jobs_two_retries` and `jobs_diamond`. Two sequences and two rounds reach two writers
for one sequence, a fetch that races with the last event, and an end by rounds. Two
sweepers and one deletion reach each pair of transactions over one row. In
`worker` one journey asks twice, so that order matters; one place of analysis
makes everything queue. In the report the three journeys are one that went well
with live reasoning, one that was blocked with an invented quote and a failure
of the harness, and one of which nothing was captured; the limits are below what
they say, so that each cut happens, and the words are chosen so that likeness
is not transitive. In `gradio` the free interleaving of all buttons is too
large: a scene of `Workbench` (`Scenarios`) is a set of buttons, each clicked
once at any time and in any order, with a bound on mishaps, chosen so that each
pair of callbacks that write one component meets; the viewings of `Recordings`
(`Controls`) are the same. The pool's index has nine entries, one more than
the narrowest group of candidates. Two tabs and two artifacts of one path reach
two pushes over one version. The theorems remove the bounds from the safety
properties they state.

**Deadlock.** It is checked for `stream`. The other systems may come to rest:
all jobs over, all artifacts gone, all journeys returned, no button left.

**Fairness.** All is weak fairness. `JobLifecycle`: the statements of a handler
that has begun, of a worker's frames, the delivery of a message to an idle
worker and the acknowledgement; nothing is owed to clients, hazards or to the
success of the work. `EventStream`: the generator's statements (the server's
event loop runs them), the delivery of bytes, and the reconnection of the client
(an `EventSource` reconnects by itself); nothing to writers. `ArtifactStore`: the
statements of a transaction in progress; nothing to clients, and nothing to the
start of a sweep. The hourly beat publishes `aux.retention_sweep` to Celery's
default queue (`tasks.py:9`; only `aux.execute_job` is sent to `jobs`,
`queue.py:16`), and the worker of `docker-compose.yml:64` consumes `-Q jobs`: as
deployed no sweep is ever run, although `docs/stage-1-audit.md:26-27` lists
periodic retention scheduling. `SweepsReachAll` is therefore conditional: if
sweeps are started whenever there is something to sweep, all that has expired is
swept. `BackgroundTasks` joins these conditions, each with those of the other
areas, which are idle; the report may stop at any stage. `EvidenceFlow`: what a handler does once what it
awaits is there, that a request is answered or its connection breaks, that an
analysis ends (calls to models have timeouts); nothing to new runs and batches.
`Gradio`: one condition, that some callback or received request of the workbench
or of the recordings goes on; whose turn it is is left open, no user has to
click, no job has to end, and nothing is owed to backups and adaptations.
`CallbacksReturn` holds because everything else is bounded by the code: the
attempts at the model, and the deadline of `wait_for_job`.

**Findings.** The seven violations are disagreements between the code and what
its comments or documents say; each finding quotes the sentence. More are
recorded as hazards only. A cancellation is requested and never honoured: no
statement reads `cancel_requested`, a worker overwrites it, and a job cancelled
while it is queued can neither be claimed nor retried (`main.py:157`). A job that is over is
reopened by a cancellation that has read it before, and an error of the store
after the success writes `failed` over it (`executor.py:207-213`); so no
property here says that only a retry reopens a job. The sweep is published to a
queue nobody consumes (see Fairness). An artifact created while its session is deleted may leave its object
(`postgres_store.py:137`). A journey that throws stays live for good
(`journeytest.js:99`, against `liveRun.js:103-104`). Two journeys in flight
share one active run, so that the reasoning of one is recorded under the other
(`reasoningCapture.js:132`); `AloneReportsItsOwn` states what remains true. An
answer of the eyeson worker that breaks off fails the whole job, although the
critique is called best-effort (`executor.py:984`). A callback
writes back the list it captured over what another displayed (`app.py:2164`);
`DisplayIsStored` says that nothing is lost from the store by it.

## 4. The theorems

All are proved for every set of jobs, workers, writers, clients, sessions,
artifacts, journeys, batches, workspaces, tabs and repositories and for every
bound, from named assumptions on the constants that TLC evaluates on every run:
`ConstantsAssumption`, `StreamAssumption`, `StoreAssumption`, `CaptureAssumption`
(each journey has a run id and a number of completions), `FixtureAssumption`
(there is a place for an analysis, as `Math.max(1, ...)` provides; runs and
batches are different things; the requests and the steps are of their kinds; no
answer is the mark of none), `LimitAssumption`, `CohortAssumption`, `TasksAssumption`,
`OutcomesAssumption`, `CritiquesAssumption` and `SeenAcrossAssumption` (a cohort is
a finite list of personas, the workers answer with finite lists of texts and with
the severities there are, each issue of a critique has a title),
`AttemptsAssumption` and `CountsAssumption` (attempts and the cap are positive,
the form's number field has a minimum of 1, the HTTP API's has none),
`PublishedAssumption` (an index lists a profile once, as
`scripts/generate_persona_pool_batch.py` merges it by id). Where a
theorem has a hypothesis besides, its name and the reason are below.

`JobLifecycleProofs`

* `TypeCorrect`: `Spec => []TypeOK`. One lemma per group of actions over
  lemmas on the updates of a frame and a row.
* `StartsAfterDependenciesAlways`: for every dependency graph. The property
  alone is not inductive: a worker may be past the read of the prerequisites
  and not have recorded `job.started`. `StartInv` adds that a job whose row says
  `succeeded` has published, and what each frame knows where it stands: past
  `outputs` that it has published itself, while it reads the prerequisites that
  each is unread, or published, or one was unmet, and after them that all have.
* `OneOwnerAlways`: for jobs without dependencies and at most one request that
  retries, one worker owns a job and a succeeded job's result is that of its
  attempt. `OwnerInv` extends ownership to the frames that have claimed the job
  and not returned (`Active`), of which there is one, says what the row shows
  while one is active (never `queued`, `failed`, or another attempt), and that
  no frame is active while a retry is about to write. The restriction is
  needed: with two retriers a job is dispatched twice (`jobs_two_retries`), and with a diamond
  (`jobs_diamond`) it is re-queued after it has run.
* `ResultOfLastAttemptAlways`: the second half of it, by itself.
* `RowsAgreeAlways` and the action property `SettledRowsStayAlways`: under the same
  hypotheses and `NoStoreErrors`. `RowsInv` says what the attempts row of the
  owner is at each of its statements: `finish_attempt` writes it before the
  job's row, and between the two nobody else writes either. An error of the store
  raised there sends the invocation to its handler, which writes `failed` over
  a row that says `succeeded`; hence the hypothesis.
`EventStreamProofs`

* The inductive invariant `IInv` is `TypeOK`, `Dense` (the recorded sequences
  of a job are `1..n`), `WriterInv` (a writer past the lock holds it, and the
  sequence it has computed is still the next) and `ReaderInv` (for each client
  what it has seen, what is on the wire and what its generator still has to
  yield are consecutive rows). `Sequenced` alone says nothing of a writer
  between its read and its insertion, and the refinement needs that what is on
  the wire is the next of the log.
* `TypeCorrectness`, `Sequencing`, and `Implementation`:
  `Spec => ImplementsLog`; an insertion maps to the log's step, a reception to
  a reader's, every other step to a stutter.

`ArtifactStoreProofs`

* The inductive invariant `IInv` adds to the two state properties `RowInv` (a
  row comes from a request that is over; nobody may write the object of a row
  that has expired), `SweepInv` (a sweep holds the locks of its rows, which are
  expired and not pinned, and the objects it has not still to delete are gone),
  `DeleteInv` (a deletion holds rows of its session) and `UploadInv` (only
  what was reserved is written by its client; while parts can be assembled there is
  no object, and no request is past the check of the size). Without
  `SweepInv` nothing says that the rows a sweep deletes have no objects left;
  that nobody writes them again is `RowInv`, which rests on the guard of
  `Expire`: a grant lapses long before the artifact expires. `UploadInv` is what
  makes `AssembledIsWhole` last however often an upload is completed; a presigned
  PUT has nothing of the kind (`artifacts_put_again`). TLC found `IInv`
  to be invariant before it was proved; one lemma per action, one step per
  conjunct.
* `StoreTypeCorrect`, `ObjectsHaveRowsAlways`, `AssembledIsWholeAlways`, and the
  action property `PinnedIsKeptAlways`: a pin waits for the sweep that holds
  the row, and the compensation of a refused row deletes an object that has
  none.

`ReasoningCaptureProofs`

* `CaptureTypeCorrect`, and `LiveViewAlways`, which is inductive with the types.
* `ThoughtsOnceAlways`: `OnceInv` extends "in at most one place" to the copies of
  answers still being read: one wrapper is installed at most, no two copies are
  of one completion, and what is recorded has no copy left.
* `AloneReportsItsOwnAlways`: `AloneInv` follows a journey that shares its time
  with no other through its `Timeline`, the number and the time of each of its
  completions, in copies or in the capture: numbers and times grow together, so
  that the sort by time in `takeRunReasoning` gives the order of the completions
  (`Ranks`).

`JourneyWorkerProofs`

* `WorkerReasoningAlways`: a worker implements `ReasoningCapture` (a step of the
  fixture engine is a stutter of it), so that its three properties hold there.
* `WorkConservedAlways`, `BatchCoversAlways`, `WorkerTypeCorrect`: `FixtureInv` is
  `QueueInv` (what waits is in the queue once, and only while every place is
  taken), `RunInv`, `BatchInv` (what a batch has heard at each of its statements;
  an analysis that has ended stays so) and `CallInv`. `DrainFills` is the lemma
  of `drain`: however many places are free, none is while a job waits.
  `BudgetSelects` says that `selectScreenBudget` takes the most telling of any
  list of candidates.
* `EvidenceAccountedAlways`: whichever analyses end first, fail or are cut off, a
  completed run has the outcome of each request once and in the order of the
  requests, each evidence has its own, and the report says that it is complete
  exactly when every evidence was analysed. `EvidenceInv` is `AnswerInv` (what a
  run has heard of a job is what the eyeson worker says of it) and `WholeInv`: at
  each of its statements a run has asked for exactly what its steps so far ask
  for (`AskedFor`), has reported what it has collected and no more (`Pushed`,
  `Heard`), and its evidence is its own (`Own`). The outcomes are read off the
  list of events by a filter: `ReportedList` says what it returns of any list,
  `ReportedGrows` what one more event adds, `WalkReports` that the synchronous
  walk reports no outcome.

`ReportPipelineProofs`

* The inductive invariant `IInv` is `Typed`, `Journeyed` (a journey is an outcome the
  worker may give, of the persona at its place), `Critiqued` (a pain point is of a run
  there was), `Found` (each finding is `Sound`: its severity is one of the four,
  its evidence is of the runs it was observed in), `Narrated` (the narration
  fits and quotes the log) and `Staged` (what exists at each stage).
  `EvidenceIsItsOwn` and `ReasoningIsKept` say nothing of what is not there yet,
  and a merge preserves the first only because of what holds of both its arguments.
* `TypeInvariant`, `EvidenceOwn`, `ReasoningKept`: the three properties with `IInv`.
* `ClustersClosed`: the clusters of `_cluster_by_title`, which moves whole clusters
  from one title to another as likenesses turn up, are the classes of the
  closure of likeness, in whatever order the issues come. What is shown of the fold
  is that after each pair two issues share a cluster exactly when the pairs
  so far connect them.
* `NothingLost`: every note of a verdict and every pain point is in the provenance
  of a finding, a strength, a diagnostic or a dropped quote (`AllFound`, `AllKept`,
  with what is known of each stage before in `Accounts`). `Accounted` adds the
  other half of `AccountedOnce`, that nothing is an issue and a strength at once,
  under two hypotheses. `IsInjective(Cohort)`: the model knows a run by its
  persona, where the code has a run id besides. `OneWording`, that the pain points of one
  identity are worded alike: the synthesis of the eyeson worker finds a
  point by its identity, and the last with it is the one found (`aggregate.js`), so
  that of two wordings one that reads as praise could be counted with an issue.
* `Views`: the report, its figures, the deck, the page, the review and the brief list
  the same issues in the same order, the gravest first, under `Unmistaken`: nothing
  that was said is worded as the entry `No pain points detected` that is put
  in where there is no issue, and that the views leave out by its title. `Marked` is
  invariant besides: the findings are issues all of them, or that one entry.
* The lists are of any length, and the prover has no induction: what a fold
  or a concatenation returns is shown by the least place at which it would fail
  (`UpTheNumbers`, from the well-ordering of the naturals), a sort by counting what
  is before each element (`Ranks`, `OrderedList`).

`WorkbenchProofs`

* `BenchInv` is `RuntimeInv` (each request is typed and its step says what it has
  stored; what two requests that make profiles have stored or are about to is
  disjoint), `TabInv`, `HandlersInv` (what a callback has captured and gathered
  is stored) and `PlaneInv` (the snapshots of a session under way are those the
  callback captured, as far as it has come, and two callbacks never share a
  session). No property is inductive alone: what is displayed comes from
  callbacks, theirs from answers, and those from rows.
* `BenchTypeCorrect`, `AnswersAreStoredAlways`, `DisplayIsStoredAlways`,
  `JobIsWholeAlways`, and the action property `RowsKeepWorkspaceAlways`: `save` is
  an upsert on the id alone, and a row stays in its workspace because a patch
  saves only what it has found there and every other id is fresh.
* `AdoptsRangedGroupAlways`, an action property: the recursive selection meets the
  reference definition, for an index of any length. The order by distance names
  each position once (`ScoredRanks`), so the candidates are the range
  (`CandidatesRange`); the selection has, after n turns, n ranks and none twice,
  the last of them the widest (`SelectionSamples`, by `UpTheNumbers` again);
  `GroupIsRanged` joins the two. That nothing but `FetchIndex` takes a lookup to its
  adoptions, whatever else goes on, is `OnlyIndexAdopts`.
* `AskedForArriveAlways`, an action property, from `GatheringInv` beside `BenchInv`.
  `Counted`: no request stores more than it asked for, and one that is answered has
  stored as many as its people were. `GatherInv`: while no model is to choose, what
  `handle_generate` has gathered is of other requests than the pending one, none
  twice, and with what that one asks for makes up the number of the click. That a
  request which makes profiles stores none of another's is `RuntimeInv`'s.

`GradioProofs`

* `AreaSteps`: a step of the application is, for each of the three, a step of it or a
  stutter. `WorkbenchAlways` is the above, properties of steps included, under
  the application's specification.
* `TurnsGoForwardAlways`: `ChatInv` says that what a turn or a job is based on was
  stored when it began. `Lineage` is recursive; that every revision in it is
  stored is proved without induction, from the least family of revisions closed
  under "is based on" (`LineageIsRecursive`, `LineageIsStored`).
* `BackupIsNewestAlways`: `BackupInv` looks at what each backup has gone past, be it
  under way or over (`Pasts`). Of a path that one has gone past, one of the same
  repository has failed at something or was the last to write the file, with
  the newest artifact of that path it had come to (`PastInv`). That it is the
  newest rests on the order of the list (`ListedInOrder`); `PastsMove` is the
  lemma for a push.

Model-checked only, because the prover has neither fairness nor `ENABLED`:
`JobsSettle`, `DispatchedIsClaimed`, `EverythingIsSeen`, `SweepsReachAll`,
`EveryoneAnswered`, `EverythingReturns`. Every safety invariant and every action
property that a passing run checks is stated by a theorem. Where jobs have
dependencies, or a hypothesis above fails, the properties of the jobs are TLC's
(`control_plane`), or do not hold (`jobs_diamond`, `jobs_two_retries`). Of the
recordings there is no theorem: what the hand-off should play it does not
(`gradio_handoff`).

## 5. Not modelled

* The SQLite development store: the twin of the PostgreSQL store under one
  process-wide lock, which it releases between the claim and the read.
* Identity, credentials and the import from GitHub: calls to a provider, and
  one transaction that replaces the memberships; nothing interleaves.
* The behaviour controller, the replay and the physical interaction of the
  fixture engine: arithmetic on random samples. One hazard there is worth a
  line: the coping mode set to abandoning for repeated failures is overwritten
  three lines on by the sampled decision (`behavior.js:140`).
* The critique of a picture, the privacy filter, the lineage and the knowledge
  of the eyeson worker: a call to a model and pure lookups.
* The job types that are one stage of `combined_test`, and `persona_preview`.
* In the Gradio application, sign-in, galleries and viewers, which read and
  show; Gradio's own queue beyond one run of a callback at a time.
* Idempotency keys of `create_job`; the deletion of a session under its jobs;
  the expiry of a waiting job's input.
* Migrations, the modules in the root directory, `src/UX` and `src/mcp`
  (declarations, prompt templates, adapters of the superseded application), the
  eyeson engine (upstream code that is not deployed).

What would come next: the deletion of a session composed with
`JobLifecycle` and `ArtifactStore`; idempotency keys; an abstract pool of
`Concurrency` servers that `EvidenceFlow`'s queue implements.

## 6. Running it

`tlc -workers 2 -config stream.cfg MCStream` (each configuration names the
instance module in `PROJECT.json`); `tlapm JobLifecycleProofs.tla`, and the same
for `EventStreamProofs`, `ArtifactStoreProofs`, `ReasoningCaptureProofs`,
`ReportPipelineProofs`, `JourneyWorkerProofs`, `WorkbenchProofs` and `GradioProofs`. The largest run is
`control_plane`, of about two million states, two minutes on two cores.
