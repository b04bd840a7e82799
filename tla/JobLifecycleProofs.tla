------------------------- MODULE JobLifecycleProofs -------------------------
(***************************************************************************)
(* Theorems about JobLifecycle, for every set of jobs, workers and         *)
(* requests, every dependency graph and every number of hazards.           *)
(***************************************************************************)
EXTENDS JobLifecycle, TLAPS

-----------------------------------------------------------------------------
(* Type correctness.                                                       *)

\* The updates of a frame that the actions are built from keep its type.
LEMMA FrameType ==
    ASSUME NEW r \in [Workers -> [Jobs -> Frame]],
           NEW w \in Workers, NEW j \in Jobs, NEW f \in Frame
    PROVE  [r EXCEPT ![w][j] = f] \in [Workers -> [Jobs -> Frame]]
  OBVIOUS

LEMMA GotoType ==
    ASSUME NEW r \in [Workers -> [Jobs -> Frame]],
           NEW w \in Workers, NEW j \in Jobs, NEW pc \in RunPc
    PROVE  [r EXCEPT ![w][j].pc = pc] \in [Workers -> [Jobs -> Frame]]
  BY DEF Frame

LEMMA IdleFrameType ==
    ASSUME NEW j \in Jobs
    PROVE  IdleFrame(j) \in Frame
  BY ConstantsAssumption DEF IdleFrame, Frame, RunPc

LEMMA ClaimedFrameType ==
    ASSUME TypeOK, NEW j \in Jobs
    PROVE  ClaimedFrame(j) \in Frame
  BY ConstantsAssumption DEF ClaimedFrame, Frame, RunPc, BeforeTry, TypeOK, Attempts

LEMMA HavingReadType ==
    ASSUME NEW f \in Frame, NEW d, NEW met
    PROVE  HavingRead(f, d, met) \in Frame
  <1>1. ASSUME NEW unread \in SUBSET Jobs, NEW unmet \in BOOLEAN
        PROVE  [f EXCEPT !.unread = unread, !.unmet = unmet] \in Frame
    BY DEF Frame
  <1>2. f.unread \ {d} \in SUBSET Jobs
    BY DEF Frame
  <1>3. (f.unmet \/ ~met) \in BOOLEAN
    OBVIOUS
  <1>. QED  BY <1>1, <1>2, <1>3 DEF HavingRead

LEMMA ResumingType ==
    ASSUME NEW f \in Frame, NEW found \in SUBSET Jobs
    PROVE  Resuming(f, found) \in Frame
  <1>1. "nextWaiting" \in RunPc
    BY DEF RunPc
  <1>. QED  BY <1>1 DEF Frame, Resuming

LEMMA VisitingType ==
    ASSUME NEW f \in Frame, NEW b \in Jobs
    PROVE  Visiting(f, b) \in Frame
  <1>1. f.todo \ {b} \in SUBSET Jobs
    BY DEF Frame
  <1>2. Deps[b] \in SUBSET Jobs
    BY ConstantsAssumption
  <1>3. "readWaiting" \in RunPc
    BY DEF RunPc, InTry
  <1>. QED  BY <1>1, <1>2, <1>3 DEF Frame, Visiting

LEMMA ReturnType ==
    ASSUME NEW r \in [Workers -> [Jobs -> Frame]],
           NEW w \in Workers, NEW j \in Jobs
    PROVE  [r EXCEPT ![w][j] = IdleFrame(j)] \in [Workers -> [Jobs -> Frame]]
  BY IdleFrameType, FrameType

LEMMA RequestType ==
    ASSUME TypeOK, NEW c \in Clients, NEW j \in Jobs,
           NEW pc \in ApiPc, NEW n \in 0 .. MaxAttempt - 1
    PROVE  /\ Asks(c, pc, j, n) => api' \in [Clients -> Request \cup {NoRequest}]
           /\ Answers(c) => api' \in [Clients -> Request \cup {NoRequest}]
  <1>1. [pc |-> pc, job |-> j, attempt |-> n] \in Request
    BY DEF Request
  <1>. QED  BY <1>1 DEF TypeOK, Asks, Answers

LEMMA StoreType ==
    ASSUME TypeOK, NEW j \in Jobs
    PROVE  /\ \A s \in StatusValue :
                SetStatus(j, s) => status' \in [Jobs -> StatusValue]
           /\ \A e \in EventType :
                Record(j, e) => events' \in [Jobs -> SUBSET EventType]
           /\ \A n \in 0 .. MaxAttempt, s \in RowValue :
                SetRow(j, n, s) => rows' \in [Jobs -> [Attempts -> RowValue]]
           /\ Publish(j) => queue' \in [Jobs -> 0 .. MaxQueue]
           /\ \A h \in Hazards :
                Strike(h) => budget' \in [Hazards -> Nat]
  <1>1. ASSUME NEW n \in 0 .. MaxAttempt, NEW s \in RowValue, SetRow(j, n, s)
        PROVE  rows' \in [Jobs -> [Attempts -> RowValue]]
    <2>1. rows[j] \in [Attempts -> RowValue]
      BY DEF TypeOK
    <2>2. [rows[j] EXCEPT ![n] = s] \in [Attempts -> RowValue]
      BY <2>1
    <2>3. rows' = [rows EXCEPT ![j] = [rows[j] EXCEPT ![n] = s]]
      BY <1>1 DEF SetRow
    <2>. QED  BY <2>2, <2>3 DEF TypeOK
  <1>2. Publish(j) => queue' \in [Jobs -> 0 .. MaxQueue]
    BY ConstantsAssumption DEF TypeOK, Publish
  <1>3. \A h \in Hazards : Strike(h) => budget' \in [Hazards -> Nat]
    BY DEF TypeOK, Strike
  <1>4. \A s \in StatusValue :
            SetStatus(j, s) => status' \in [Jobs -> StatusValue]
    BY DEF TypeOK, SetStatus
  <1>5. \A e \in EventType :
            Record(j, e) => events' \in [Jobs -> SUBSET EventType]
    BY DEF TypeOK, Record
  <1>. QED  BY <1>1, <1>2, <1>3, <1>4, <1>5

LEMMA ClientCallType ==
    ASSUME TypeOK, NEW c \in Clients, ClientCall(c)
    PROVE  TypeOK'
  <1>. USE ConstantsAssumption DEF TypeOK, store, broker
  <1>0. api[c].pc # "idle" =>
            api[c].job \in Jobs /\ api[c].attempt \in 0 .. MaxAttempt - 1
    BY DEF Request, NoRequest
  <1>1. ASSUME NEW j \in Jobs, Submit(c, j) PROVE TypeOK'
    BY <1>1, RequestType, StoreType DEF Submit, ApiPc, StatusValue
  <1>2. ASSUME NEW j \in Jobs, CancelRead(c, j) PROVE TypeOK'
    BY <1>2, RequestType, StoreType DEF CancelRead, ApiPc, Hazards
  <1>3. ASSUME NEW j \in Jobs, RetryRead(c, j) PROVE TypeOK'
    BY <1>3, RequestType, StoreType DEF RetryRead, ApiPc, Attempts
  <1>R. CASE RetryWrite(c)
    <2>1. api[c].job \in Jobs /\ api[c].attempt + 1 \in Attempts
      BY <1>R, <1>0 DEF RetryWrite, Attempts
    <2>2. attempt' \in [Jobs -> Attempts]
      BY <1>R, <2>1 DEF RetryWrite
    <2>. QED
      BY <1>R, <1>0, <2>2, RequestType, StoreType DEF RetryWrite, ApiPc, StatusValue
  <1>4. CASE QueuedEvent(c)
    BY <1>4, <1>0, RequestType, StoreType DEF QueuedEvent, ApiPc, EventType
  <1>5. CASE Enqueue(c)
    BY <1>5, <1>0, RequestType, StoreType DEF Enqueue, ApiPc
  <1>6. CASE CancelWrite(c)
    BY <1>6, <1>0, RequestType, StoreType DEF CancelWrite, ApiPc, StatusValue
  <1>7. CASE CancelEvent(c)
    BY <1>7, <1>0, RequestType, StoreType DEF CancelEvent, ApiPc, EventType
  <1>8. CASE RetryEvent(c)
    BY <1>8, <1>0, RequestType, StoreType DEF RetryEvent, ApiPc, EventType
  <1>9. CASE AbandonRequest(c)
    BY <1>9, <1>0, RequestType, StoreType DEF AbandonRequest, ApiPc, Hazards
  <1>. QED
    BY <1>1, <1>2, <1>3, <1>4, <1>5, <1>6, <1>7, <1>8, <1>9, <1>R DEF ClientCall, ClientStep

LEMMA RunStepType ==
    ASSUME TypeOK, NEW w \in Workers, NEW j \in Jobs, RunStep(w, j)
    PROVE  TypeOK'
  <1>. USE ConstantsAssumption DEF TypeOK, store, broker, Goto, Return, SetFrame,
           RunPc, BeforeTry, InTry, InHandler
  <1>0. /\ run[w][j].attempt \in 0 .. MaxAttempt
        /\ run[w][j].target \in Jobs
    BY DEF Frame
  <1>Receive. CASE Receive(w, j)
    BY <1>Receive, <1>0, GotoType, StoreType DEF Receive, EventType
  <1>Claim. CASE Claim(w, j)
    <2>1. run' \in [Workers -> [Jobs -> Frame]]
      BY <1>Claim, ClaimedFrameType, FrameType DEF Claim
    <2>. QED  BY <1>Claim, <2>1, StoreType DEF Claim, StatusValue
  <1>ClaimNothing. CASE ClaimNothing(w, j)
    BY <1>ClaimNothing, <1>0, ReturnType DEF ClaimNothing
  <1>EnterWaiting. CASE EnterWaiting(w, j)
    BY <1>EnterWaiting, <1>0, GotoType, StoreType DEF EnterWaiting, StatusValue, Terminal
  <1>WaitingEvent. CASE WaitingEvent(w, j)
    BY <1>WaitingEvent, <1>0, ReturnType, StoreType DEF WaitingEvent, EventType
  <1>StartAttemptRow. CASE StartAttemptRow(w, j)
    BY <1>StartAttemptRow, <1>0, GotoType, StoreType DEF StartAttemptRow, RowValue
  <1>StartAttemptJob. CASE StartAttemptJob(w, j)
    BY <1>StartAttemptJob, <1>0, GotoType, StoreType DEF StartAttemptJob, StatusValue, Terminal
  <1>StartedEvent. CASE StartedEvent(w, j)
    BY <1>StartedEvent, <1>0, GotoType, StoreType DEF StartedEvent, EventType
  <1>Work. CASE Work(w, j)
    BY <1>Work, <1>0, GotoType DEF Work
  <1>WorkFails. CASE WorkFails(w, j)
    BY <1>WorkFails, <1>0, GotoType DEF WorkFails
  <1>RecordOutputs. CASE RecordOutputs(w, j)
    BY <1>RecordOutputs, <1>0, GotoType, StoreType DEF RecordOutputs, StatusValue, Terminal
  <1>ArtifactEvent. CASE ArtifactEvent(w, j)
    BY <1>ArtifactEvent, <1>0, GotoType, StoreType DEF ArtifactEvent, EventType
  <1>SucceededRow. CASE SucceededRow(w, j)
    BY <1>SucceededRow, <1>0, GotoType, StoreType DEF SucceededRow, RowValue
  <1>SucceededJob. CASE SucceededJob(w, j)
    BY <1>SucceededJob, <1>0, GotoType, StoreType DEF SucceededJob, StatusValue, Terminal
  <1>SucceededEvent. CASE SucceededEvent(w, j)
    BY <1>SucceededEvent, <1>0, GotoType, StoreType DEF SucceededEvent, EventType
  <1>FindWaiting. CASE FindWaiting(w, j)
    <2>1. Waiting(j) \in SUBSET Jobs
      BY DEF Waiting
    <2>2. Resuming(run[w][j], Waiting(j)) \in Frame
      BY <2>1, ResumingType
    <2>3. run' \in [Workers -> [Jobs -> Frame]]
      BY <1>FindWaiting, <2>2, FrameType DEF FindWaiting
    <2>. QED  BY <1>FindWaiting, <2>3 DEF FindWaiting
  <1>LeaveWaiting. CASE LeaveWaiting(w, j)
    BY <1>LeaveWaiting, <1>0, GotoType DEF LeaveWaiting
  <1>Requeue. CASE Requeue(w, j)
    BY <1>Requeue, <1>0, GotoType, StoreType DEF Requeue, StatusValue, Terminal
  <1>SatisfiedEvent. CASE SatisfiedEvent(w, j)
    <2>. DEFINE r == [run EXCEPT ![w][j].pc = "calling"]
    <2>0. r \in [Workers -> [Jobs -> Frame]]
      BY GotoType
    <2>1. run' \in [Workers -> [Jobs -> Frame]]
      BY <1>SatisfiedEvent, <1>0, <2>0, GotoType DEF SatisfiedEvent
    <2>. QED
      BY <1>SatisfiedEvent, <1>0, <2>1, StoreType DEF SatisfiedEvent, EventType
  <1>CallReturned. CASE CallReturned(w, j)
    BY <1>CallReturned, <1>0, GotoType DEF CallReturned
  <1>ResumeDone. CASE ResumeDone(w, j)
    BY <1>ResumeDone, <1>0, ReturnType DEF ResumeDone
  <1>FailedRow. CASE FailedRow(w, j)
    BY <1>FailedRow, <1>0, GotoType, StoreType DEF FailedRow, RowValue
  <1>FailedJob. CASE FailedJob(w, j)
    BY <1>FailedJob, <1>0, GotoType, StoreType DEF FailedJob, StatusValue, Terminal
  <1>FailedEvent. CASE FailedEvent(w, j)
    BY <1>FailedEvent, <1>0, ReturnType, StoreType DEF FailedEvent, EventType
  <1>ReadDependency. ASSUME NEW d \in Jobs, ReadDependency(w, j, d) PROVE TypeOK'
    <2>1. HavingRead(run[w][j], d, status[d] = "succeeded") \in Frame
      BY HavingReadType
    <2>2. run' \in [Workers -> [Jobs -> Frame]]
      BY <1>ReadDependency, <2>1, FrameType DEF ReadDependency
    <2>. QED  BY <1>ReadDependency, <2>2 DEF ReadDependency
  <1>VisitWaiting. ASSUME NEW b \in Jobs, VisitWaiting(w, j, b) PROVE TypeOK'
    <2>1. Visiting(run[w][j], b) \in Frame
      BY VisitingType
    <2>2. run' \in [Workers -> [Jobs -> Frame]]
      BY <1>VisitWaiting, <2>1, FrameType DEF VisitWaiting
    <2>. QED  BY <1>VisitWaiting, <2>2 DEF VisitWaiting
  <1>. QED
    BY <1>Receive, <1>Claim, <1>ClaimNothing, <1>EnterWaiting,
       <1>WaitingEvent, <1>StartAttemptRow, <1>StartAttemptJob,
       <1>StartedEvent, <1>Work, <1>WorkFails, <1>RecordOutputs,
       <1>ArtifactEvent, <1>SucceededRow, <1>SucceededJob, <1>SucceededEvent,
       <1>FindWaiting, <1>LeaveWaiting, <1>Requeue, <1>SatisfiedEvent,
       <1>CallReturned, <1>ResumeDone, <1>FailedRow, <1>FailedJob,
       <1>FailedEvent, <1>ReadDependency, <1>VisitWaiting
    DEF RunStep

LEMMA BrokerType ==
    ASSUME TypeOK, NEW w \in Workers,
           \/ \E j \in Jobs : Deliver(w, j)
           \/ Acknowledge(w) \/ Crash(w) \/ Redeliver(w)
    PROVE  TypeOK'
  <1>. USE ConstantsAssumption DEF TypeOK, store, broker
  <1>0. held[w] # NoJob => held[w] \in Jobs
    OBVIOUS
  <1>1. ASSUME NEW j \in Jobs, Deliver(w, j) PROVE TypeOK'
    <2>1. queue' \in [Jobs -> 0 .. MaxQueue]
      BY <1>1 DEF Deliver
    <2>2. "receive" \in RunPc
      BY DEF RunPc, BeforeTry
    <2>. QED  BY <1>1, <2>1, <2>2, GotoType DEF Deliver
  <1>2. CASE Acknowledge(w)
    BY <1>2 DEF Acknowledge
  <1>3. CASE Crash(w)
    <2>1. [j \in Jobs |-> IdleFrame(j)] \in [Jobs -> Frame]
      BY IdleFrameType
    <2>. QED  BY <1>3, <1>0, <2>1, StoreType DEF Crash, Hazards
  <1>4. CASE Redeliver(w)
    BY <1>4, <1>0, StoreType DEF Redeliver, Hazards
  <1>. QED  BY <1>1, <1>2, <1>3, <1>4

LEMMA RaiseType ==
    ASSUME TypeOK, NEW w \in Workers, NEW j \in Jobs, Raise(w, j)
    PROVE  TypeOK'
  <1>. USE ConstantsAssumption DEF TypeOK, store, broker
  <1>0. "failedRow" \in RunPc /\ "storeError" \in Hazards
    BY DEF RunPc, InHandler, Hazards
  <1>1. CASE RaiseInTry(w, j)
    BY <1>1, <1>0, GotoType, StoreType DEF RaiseInTry, Goto
  <1>2. ASSUME NEW caller \in Jobs, RaiseToCaller(w, j, caller) PROVE TypeOK'
    <2>. DEFINE r == [run EXCEPT ![w][j] = IdleFrame(j)]
    <2>1. r \in [Workers -> [Jobs -> Frame]]
      BY ReturnType
    <2>2. run' \in [Workers -> [Jobs -> Frame]]
      BY <1>2, <1>0, <2>1, GotoType DEF RaiseToCaller
    <2>. QED  BY <1>2, <1>0, <2>2, StoreType DEF RaiseToCaller
  <1>3. CASE RaiseFromTask(w, j)
    BY <1>3, <1>0, ReturnType, StoreType DEF RaiseFromTask, Return, SetFrame
  <1>. QED  BY <1>1, <1>2, <1>3 DEF Raise

\* Every variable keeps its type, in every behaviour: no step writes a status
\* outside the vocabulary of models.py, an attempt number beyond the ones
\* retries give, or a frame that is no place of JobExecutor.run.
THEOREM TypeCorrect == Spec => []TypeOK
  <1>1. Init => TypeOK
    BY ConstantsAssumption, IdleFrameType
    DEF Init, TypeOK, StatusValue, Attempts, RowValue
  <1>2. TypeOK /\ [Next]_vars => TypeOK'
    <2>. SUFFICES ASSUME TypeOK, [Next]_vars PROVE TypeOK'
      OBVIOUS
    <2>1. ASSUME NEW c \in Clients, ClientCall(c) PROVE TypeOK'
      BY <2>1, ClientCallType
    <2>2. ASSUME NEW w \in Workers, WorkerStep(w) PROVE TypeOK'
      BY <2>2, BrokerType, RunStepType, RaiseType DEF WorkerStep
    <2>3. CASE UNCHANGED vars
      BY <2>3 DEF vars, TypeOK
    <2>. QED  BY <2>1, <2>2, <2>3 DEF Next
  <1>. QED  BY <1>1, <1>2, PTL DEF Spec

-----------------------------------------------------------------------------
(* A job starts only after its prerequisites have published.               *)

\* What the updates of run leave in each frame.
LEMMA GotoStep ==
    ASSUME TypeOK, NEW w \in Workers, NEW j \in Jobs, NEW pc \in RunPc,
           Goto(w, j, pc)
    PROVE  /\ run'[w][j].pc = pc
           /\ run'[w][j].attempt = run[w][j].attempt
           /\ run'[w][j].unread = run[w][j].unread
           /\ run'[w][j].unmet = run[w][j].unmet
           /\ run'[w][j].todo = run[w][j].todo
           /\ \A u \in Workers, k \in Jobs :
                u # w \/ k # j => run'[u][k] = run[u][k]
  BY DEF TypeOK, Goto, Frame

LEMMA SetFrameStep ==
    ASSUME TypeOK, NEW w \in Workers, NEW j \in Jobs, NEW f, SetFrame(w, j, f)
    PROVE  /\ run'[w][j] = f
           /\ \A u \in Workers, k \in Jobs :
                u # w \/ k # j => run'[u][k] = run[u][k]
  BY DEF TypeOK, SetFrame

\* SetStatus and Record, read back.
LEMMA SetStatusStep ==
    ASSUME TypeOK, NEW j \in Jobs, NEW s, SetStatus(j, s)
    PROVE  \A k \in Jobs : status'[k] = IF k = j THEN s ELSE status[k]
  BY DEF TypeOK, SetStatus

LEMMA RecordStep ==
    ASSUME TypeOK, NEW j \in Jobs, NEW e, Record(j, e)
    PROVE  /\ \A k \in Jobs : events[k] \subseteq events'[k]
           /\ \A k \in Jobs : \A x : x \in events'[k] => x \in events[k] \/ x = e
           /\ \A k \in Jobs : k # j => events'[k] = events[k]
           /\ e \in events'[j]
  BY DEF TypeOK, Record

LEMMA HavingReadStep ==
    ASSUME NEW f \in Frame, NEW d, NEW met
    PROVE  /\ HavingRead(f, d, met).pc = f.pc
           /\ HavingRead(f, d, met).unread = f.unread \ {d}
           /\ HavingRead(f, d, met).unmet = (f.unmet \/ ~met)
  <1>1. /\ HavingRead(f, d, met).pc = f.pc
        /\ HavingRead(f, d, met).unread = f.unread \ {d}
    BY DEF HavingRead, Frame
  <1>2. HavingRead(f, d, met).unmet = (f.unmet \/ ~met)
    BY Zenon DEF HavingRead, Frame
  <1>. QED  BY <1>1, <1>2

Published(j) == "artifact.created" \in events[j]

\* What an invocation knows where it stands: that it has published, that the
\* prerequisites it has read and found succeeded have.
Informed(w, j) ==
    /\ run[w][j].pc \in {"succeededRow", "succeededJob"} => Published(j)
    /\ run[w][j].pc = "dependencies" =>
         \A d \in Deps[j] :
             d \in run[w][j].unread \/ run[w][j].unmet \/ Published(d)
    /\ run[w][j].pc \in {"attemptJob", "startedEvent"} =>
         \A d \in Deps[j] : Published(d)

StartInv ==
    /\ \A j \in Jobs : status[j] = "succeeded" => Published(j)
    /\ \A w \in Workers, j \in Jobs : Informed(w, j)
    /\ StartsAfterDependencies

\* No event is deleted, so a step has only to account for the statuses, the
\* job.started events and the frames it changes.
LEMMA StartRule ==
    ASSUME StartInv,
           \A k \in Jobs : events[k] \subseteq events'[k],
           \A k \in Jobs : status'[k] = "succeeded" =>
               status[k] = "succeeded" \/ Published(k)',
           \A k \in Jobs : "job.started" \in events'[k] =>
               "job.started" \in events[k] \/ \A d \in Deps[k] : Published(d)',
           \A u \in Workers, k \in Jobs :
               run'[u][k] = run[u][k] \/ Informed(u, k)'
    PROVE  StartInv'
  <1>1. \A k \in Jobs : Published(k) => Published(k)'
    BY DEF Published
  <1>2. \A k \in Jobs : \A d \in Deps[k] : Published(d) => Published(d)'
    BY <1>1, ConstantsAssumption
  <1>3. \A k \in Jobs : status'[k] = "succeeded" => Published(k)'
    BY <1>1 DEF StartInv
  <1>4. ASSUME NEW u \in Workers, NEW k \in Jobs PROVE Informed(u, k)'
    BY <1>1, <1>2 DEF StartInv, Informed
  <1>5. StartsAfterDependencies'
    BY <1>2 DEF StartInv, StartsAfterDependencies, Published
  <1>. QED  BY <1>3, <1>4, <1>5 DEF StartInv

LEMMA StartInvRun ==
    ASSUME TypeOK, StartInv, NEW w \in Workers, NEW j \in Jobs, RunStep(w, j)
    PROVE  StartInv'
  <1>. USE DEF store, Return
  <1>pcs. {"claim", "waitingEvent", "failedRow", "outputs", "work", "artifactEvent",
           "resume", "nextWaiting", "calling", "satisfiedEvent", "failedJob",
           "failedEvent", "attemptJob", "startedEvent", "succeededRow",
           "succeededJob", "succeededEvent"} \subseteq RunPc
    BY DEF RunPc, BeforeTry, InTry, InHandler
  <1>idle. IdleFrame(j).pc = "idle"
    BY DEF IdleFrame
  <1>Receive. CASE Receive(w, j)
    BY <1>Receive, <1>pcs, GotoStep, SetStatusStep, RecordStep, StartRule DEF Receive, Informed
  <1>EnterWaiting. CASE EnterWaiting(w, j)
    BY <1>EnterWaiting, <1>pcs, GotoStep, SetStatusStep, RecordStep, StartRule DEF EnterWaiting, Informed
  <1>Work. CASE Work(w, j)
    BY <1>Work, <1>pcs, GotoStep, SetStatusStep, RecordStep, StartRule DEF Work, Informed
  <1>WorkFails. CASE WorkFails(w, j)
    BY <1>WorkFails, <1>pcs, GotoStep, SetStatusStep, RecordStep, StartRule DEF WorkFails, Informed
  <1>RecordOutputs. CASE RecordOutputs(w, j)
    BY <1>RecordOutputs, <1>pcs, GotoStep, SetStatusStep, RecordStep, StartRule DEF RecordOutputs, Informed
  <1>SucceededEvent. CASE SucceededEvent(w, j)
    BY <1>SucceededEvent, <1>pcs, GotoStep, SetStatusStep, RecordStep, StartRule DEF SucceededEvent, Informed
  <1>LeaveWaiting. CASE LeaveWaiting(w, j)
    BY <1>LeaveWaiting, <1>pcs, GotoStep, SetStatusStep, RecordStep, StartRule DEF LeaveWaiting, Informed
  <1>Requeue. CASE Requeue(w, j)
    BY <1>Requeue, <1>pcs, GotoStep, SetStatusStep, RecordStep, StartRule DEF Requeue, Informed, TypeOK, Frame
  <1>CallReturned. CASE CallReturned(w, j)
    BY <1>CallReturned, <1>pcs, GotoStep, SetStatusStep, RecordStep, StartRule DEF CallReturned, Informed
  <1>FailedRow. CASE FailedRow(w, j)
    BY <1>FailedRow, <1>pcs, GotoStep, SetStatusStep, RecordStep, StartRule DEF FailedRow, Informed
  <1>FailedJob. CASE FailedJob(w, j)
    BY <1>FailedJob, <1>pcs, GotoStep, SetStatusStep, RecordStep, StartRule DEF FailedJob, Informed
  <1>ClaimNothing. CASE ClaimNothing(w, j)
    BY <1>ClaimNothing, <1>idle, SetFrameStep, SetStatusStep, RecordStep, StartRule DEF ClaimNothing, Informed
  <1>WaitingEvent. CASE WaitingEvent(w, j)
    BY <1>WaitingEvent, <1>idle, SetFrameStep, SetStatusStep, RecordStep, StartRule DEF WaitingEvent, Informed
  <1>ResumeDone. CASE ResumeDone(w, j)
    BY <1>ResumeDone, <1>idle, SetFrameStep, SetStatusStep, RecordStep, StartRule DEF ResumeDone, Informed
  <1>FailedEvent. CASE FailedEvent(w, j)
    BY <1>FailedEvent, <1>idle, SetFrameStep, SetStatusStep, RecordStep, StartRule DEF FailedEvent, Informed
  <1>FindWaiting. CASE FindWaiting(w, j)
    <2>1. Resuming(run[w][j], Waiting(j)).pc = "nextWaiting"
      BY DEF Resuming, TypeOK, Frame
    <2>. QED
      BY <1>FindWaiting, <2>1, SetFrameStep, StartRule DEF FindWaiting, Informed
  <1>VisitWaiting. ASSUME NEW b \in Jobs, VisitWaiting(w, j, b) PROVE StartInv'
    <2>1. Visiting(run[w][j], b).pc = "readWaiting"
      BY DEF Visiting, TypeOK, Frame
    <2>. QED
      BY <1>VisitWaiting, <2>1, SetFrameStep, StartRule DEF VisitWaiting, Informed
  <1>SatisfiedEvent. CASE SatisfiedEvent(w, j)
    <2>1. run[w][j].target \in Jobs
      BY DEF TypeOK, Frame
    <2>2. \A u \in Workers, k \in Jobs :
              run'[u][k] = run[u][k] \/ run'[u][k].pc \in {"calling", "claim"}
      BY <1>SatisfiedEvent, <2>1 DEF SatisfiedEvent, TypeOK, Frame
    <2>3. \A u \in Workers, k \in Jobs : run'[u][k] = run[u][k] \/ Informed(u, k)'
      BY <2>2 DEF Informed
    <2>4. /\ \A k \in Jobs : events[k] \subseteq events'[k]
          /\ \A k \in Jobs : \A x : x \in events'[k] =>
               x \in events[k] \/ x = "job.dependencies_satisfied"
      BY <1>SatisfiedEvent, <2>1, RecordStep DEF SatisfiedEvent
    <2>. QED
      BY <1>SatisfiedEvent, <2>3, <2>4, StartRule DEF SatisfiedEvent
  <1>Claim. CASE Claim(w, j)
    <2>1. ClaimedFrame(j).pc = "dependencies" /\ ClaimedFrame(j).unread = Deps[j]
      BY DEF ClaimedFrame
    <2>2. Informed(w, j)'
      BY <1>Claim, <2>1, SetFrameStep DEF Claim, Informed
    <2>. QED
      BY <1>Claim, <2>2, SetFrameStep, SetStatusStep, RecordStep, StartRule DEF Claim
  <1>ReadDependency. ASSUME NEW d \in Jobs, ReadDependency(w, j, d) PROVE StartInv'
    <2>. DEFINE f == HavingRead(run[w][j], d, status[d] = "succeeded")
    <2>1. /\ f.pc = run[w][j].pc
          /\ f.unread = run[w][j].unread \ {d}
      BY HavingReadStep DEF TypeOK
    <2>2. f.unmet <=> (run[w][j].unmet \/ status[d] # "succeeded")
      <3>1. run[w][j] \in Frame
        BY DEF TypeOK
      <3>. QED  BY <3>1, HavingReadStep
    <2>3. run'[w][j] = f
      BY <1>ReadDependency, SetFrameStep DEF ReadDependency
    <2>4. events' = events /\ status' = status
      BY <1>ReadDependency DEF ReadDependency
    <2>5. status[d] = "succeeded" => Published(d)
      BY DEF StartInv
    <2>6. Informed(w, j)'
      <3>1. Informed(w, j)
        BY DEF StartInv
      <3>2. run[w][j].pc = "dependencies" \/ run[w][j].pc = "readWaiting"
        BY <1>ReadDependency DEF ReadDependency, At
      <3>3. ASSUME run[w][j].pc = "dependencies", NEW e \in Deps[j]
            PROVE  e \in f.unread \/ f.unmet \/ Published(e)
        BY <3>1, <3>3, <2>1, <2>2, <2>5 DEF Informed
      <3>. HIDE DEF f
      <3>. QED  BY <2>1, <2>3, <2>4, <3>2, <3>3 DEF Informed, Published
    <2>. QED
      BY <1>ReadDependency, <2>4, <2>6, SetFrameStep, StartRule DEF ReadDependency
  <1>StartAttemptRow. CASE StartAttemptRow(w, j)
    <2>1. \A d \in Deps[j] : Published(d)
      BY <1>StartAttemptRow
      DEF StartAttemptRow, DependenciesRead, At, StartInv, Informed
    <2>2. Informed(w, j)'
      BY <1>StartAttemptRow, <2>1, <1>pcs, GotoStep
      DEF StartAttemptRow, Informed, Published
    <2>. QED
      BY <1>StartAttemptRow, <2>2, <1>pcs, GotoStep, StartRule DEF StartAttemptRow
  <1>StartAttemptJob. CASE StartAttemptJob(w, j)
    <2>1. \A d \in Deps[j] : Published(d)
      BY <1>StartAttemptJob DEF StartAttemptJob, At, StartInv, Informed
    <2>2. Informed(w, j)'
      BY <1>StartAttemptJob, <2>1, <1>pcs, GotoStep
      DEF StartAttemptJob, Informed, Published
    <2>. QED
      BY <1>StartAttemptJob, <2>2, <1>pcs, GotoStep, SetStatusStep, RecordStep, StartRule
      DEF StartAttemptJob
  <1>StartedEvent. CASE StartedEvent(w, j)
    <2>1. \A d \in Deps[j] : Published(d)
      BY <1>StartedEvent DEF StartedEvent, At, StartInv, Informed
    <2>2. \A k \in Jobs : events[k] \subseteq events'[k]
      BY <1>StartedEvent, SetStatusStep, RecordStep DEF StartedEvent
    <2>3. \A d \in Deps[j] : Published(d)'
      BY <2>1, <2>2, ConstantsAssumption DEF Published
    <2>4. Informed(w, j)'
      BY <1>StartedEvent, <1>pcs, GotoStep DEF StartedEvent, Informed
    <2>. QED
      BY <1>StartedEvent, <2>2, <2>3, <2>4, <1>pcs, GotoStep, SetStatusStep, RecordStep, StartRule
      DEF StartedEvent
  <1>ArtifactEvent. CASE ArtifactEvent(w, j)
    <2>1. Published(j)'
      BY <1>ArtifactEvent, SetStatusStep, RecordStep DEF ArtifactEvent, Published
    <2>2. Informed(w, j)'
      BY <1>ArtifactEvent, <2>1, <1>pcs, GotoStep DEF ArtifactEvent, Informed
    <2>. QED
      BY <1>ArtifactEvent, <2>2, <1>pcs, GotoStep, SetStatusStep, RecordStep, StartRule
      DEF ArtifactEvent
  <1>SucceededRow. CASE SucceededRow(w, j)
    <2>1. Published(j)'
      BY <1>SucceededRow DEF SucceededRow, At, StartInv, Informed, Published
    <2>2. Informed(w, j)'
      BY <1>SucceededRow, <2>1, <1>pcs, GotoStep DEF SucceededRow, Informed
    <2>. QED
      BY <1>SucceededRow, <2>2, <1>pcs, GotoStep, StartRule DEF SucceededRow
  <1>SucceededJob. CASE SucceededJob(w, j)
    <2>1. Published(j)'
      BY <1>SucceededJob DEF SucceededJob, At, StartInv, Informed, Published
    <2>2. Informed(w, j)'
      BY <1>SucceededJob, <1>pcs, GotoStep DEF SucceededJob, Informed
    <2>. QED
      BY <1>SucceededJob, <2>1, <2>2, <1>pcs, GotoStep, SetStatusStep, RecordStep, StartRule
      DEF SucceededJob
  <1>. QED
    BY <1>Receive, <1>Claim, <1>ClaimNothing, <1>EnterWaiting,
       <1>WaitingEvent, <1>StartAttemptRow, <1>StartAttemptJob,
       <1>StartedEvent, <1>Work, <1>WorkFails, <1>RecordOutputs,
       <1>ArtifactEvent, <1>SucceededRow, <1>SucceededJob, <1>SucceededEvent,
       <1>FindWaiting, <1>LeaveWaiting, <1>Requeue, <1>SatisfiedEvent,
       <1>CallReturned, <1>ResumeDone, <1>FailedRow, <1>FailedJob,
       <1>FailedEvent, <1>ReadDependency, <1>VisitWaiting
    DEF RunStep

LEMMA StartInvClient ==
    ASSUME TypeOK, StartInv, NEW c \in Clients, ClientCall(c)
    PROVE  StartInv'
  <1>. USE DEF store, broker
  <1>0. api[c].pc # "idle" => api[c].job \in Jobs
    BY DEF TypeOK, Request, NoRequest
  <1>1. ASSUME NEW j \in Jobs, Submit(c, j) PROVE StartInv'
    BY <1>1, SetStatusStep, StartRule DEF Submit
  <1>2. ASSUME NEW j \in Jobs, CancelRead(c, j) \/ RetryRead(c, j) PROVE StartInv'
    BY <1>2, StartRule DEF CancelRead, RetryRead
  <1>3. CASE QueuedEvent(c)
    BY <1>3, <1>0, RecordStep, StartRule DEF QueuedEvent
  <1>4. CASE Enqueue(c)
    BY <1>4, StartRule DEF Enqueue
  <1>5. CASE CancelWrite(c)
    BY <1>5, <1>0, SetStatusStep, StartRule DEF CancelWrite
  <1>6. CASE CancelEvent(c)
    BY <1>6, <1>0, RecordStep, StartRule DEF CancelEvent
  <1>7. CASE RetryWrite(c)
    BY <1>7, <1>0, SetStatusStep, StartRule DEF RetryWrite
  <1>8. CASE RetryEvent(c)
    BY <1>8, <1>0, RecordStep, StartRule DEF RetryEvent
  <1>9. CASE AbandonRequest(c)
    BY <1>9, StartRule DEF AbandonRequest
  <1>. QED
    BY <1>1, <1>2, <1>3, <1>4, <1>5, <1>6, <1>7, <1>8, <1>9
    DEF ClientCall, ClientStep

LEMMA StartInvBroker ==
    ASSUME TypeOK, StartInv, NEW w \in Workers,
           \/ \E j \in Jobs : Deliver(w, j)
           \/ Acknowledge(w) \/ Crash(w) \/ Redeliver(w)
    PROVE  StartInv'
  <1>. USE DEF store, broker
  <1>1. ASSUME NEW j \in Jobs, Deliver(w, j) PROVE StartInv'
    <2>1. \A u \in Workers, k \in Jobs :
              run'[u][k] = run[u][k] \/ run'[u][k].pc = "receive"
      BY <1>1 DEF Deliver, TypeOK, Frame
    <2>. QED  BY <1>1, <2>1, StartRule DEF Deliver, Informed
  <1>2. CASE Acknowledge(w)
    BY <1>2, StartRule DEF Acknowledge
  <1>3. CASE Crash(w)
    <2>1. \A u \in Workers, k \in Jobs :
              run'[u][k] = run[u][k] \/ run'[u][k].pc = "idle"
      BY <1>3 DEF Crash, TypeOK, IdleFrame
    <2>. QED  BY <1>3, <2>1, StartRule DEF Crash, Informed
  <1>4. CASE Redeliver(w)
    BY <1>4, StartRule DEF Redeliver
  <1>. QED  BY <1>1, <1>2, <1>3, <1>4

LEMMA StartInvRaise ==
    ASSUME TypeOK, StartInv, NEW w \in Workers, NEW j \in Jobs, Raise(w, j)
    PROVE  StartInv'
  <1>. USE DEF store, broker
  <1>1. CASE RaiseInTry(w, j)
    <2>1. \A u \in Workers, k \in Jobs :
              run'[u][k] = run[u][k] \/ run'[u][k].pc = "failedRow"
      BY <1>1 DEF RaiseInTry, Goto, TypeOK, Frame
    <2>. QED  BY <1>1, <2>1, StartRule DEF RaiseInTry, Informed
  <1>2. ASSUME NEW caller \in Jobs, RaiseToCaller(w, j, caller) PROVE StartInv'
    <2>1. \A u \in Workers, k \in Jobs :
              run'[u][k] = run[u][k] \/ run'[u][k].pc \in {"idle", "failedRow"}
      BY <1>2 DEF RaiseToCaller, TypeOK, Frame, IdleFrame
    <2>. QED  BY <1>2, <2>1, StartRule DEF RaiseToCaller, Informed
  <1>3. CASE RaiseFromTask(w, j)
    <2>1. \A u \in Workers, k \in Jobs :
              run'[u][k] = run[u][k] \/ run'[u][k].pc = "idle"
      BY <1>3 DEF RaiseFromTask, Return, SetFrame, TypeOK, IdleFrame
    <2>. QED  BY <1>3, <2>1, StartRule DEF RaiseFromTask, Informed
  <1>. QED  BY <1>1, <1>2, <1>3 DEF Raise

\* Whatever the dependency graph, whatever is retried, cancelled, lost or
\* delivered twice, job.started is recorded for no job before
\* artifact.created is for each of its prerequisites.  The dependency check
\* of run reads the prerequisites one by one and writes nothing under a lock:
\* it is sound because a prerequisite that was once succeeded has published,
\* and what is published stays published.
THEOREM StartsAfterDependenciesAlways == Spec => []StartsAfterDependencies
  <1>1. Init => StartInv
    BY DEF Init, IdleFrame, StartInv, Informed, StartsAfterDependencies, Published
  <1>2. TypeOK /\ StartInv /\ [Next]_vars => StartInv'
    <2>. SUFFICES ASSUME TypeOK, StartInv, [Next]_vars PROVE StartInv'
      OBVIOUS
    <2>1. ASSUME NEW c \in Clients, ClientCall(c) PROVE StartInv'
      BY <2>1, StartInvClient
    <2>2. ASSUME NEW w \in Workers, WorkerStep(w) PROVE StartInv'
      BY <2>2, StartInvBroker, StartInvRun, StartInvRaise DEF WorkerStep
    <2>3. CASE UNCHANGED vars
      BY <2>3, StartRule DEF vars
    <2>. QED  BY <2>1, <2>2, <2>3 DEF Next
  <1>3. StartInv => StartsAfterDependencies
    BY DEF StartInv
  <1>. QED  BY <1>1, <1>2, <1>3, TypeCorrect, PTL DEF Spec

-----------------------------------------------------------------------------
(* One owner at a time, and its artifacts.                                 *)

\* Two hypotheses, each needed: two retries of one attempt dispatch the job
\* twice, and _resume_dependents re-queues a job that has run already.
NoDependencies == \A j \in Jobs : Deps[j] = {}
OneRetrier == \A r, s \in Retriers : r = s

\* An invocation that has claimed the job and has not returned: before the
\* job's row says it is over, and after.
Settling(w, j) ==
    run[w][j].pc \in {"succeededEvent", "resume", "nextWaiting", "failedRow",
                      "failedJob"}
Active(w, j) == Owns(w, j) \/ Settling(w, j)

\* Without dependencies an invocation reads none, and never waits.
Plain(w, j) ==
    /\ Active(w, j) \/ run[w][j].pc \in {"idle", "receive", "claim", "failedEvent"}
    /\ run[w][j].unread = {} /\ run[w][j].todo = {}
    /\ run[w][j].unmet = FALSE

ActiveSound(w, j) ==
    Active(w, j) =>
        /\ status[j] \in {"claimed", "running", "cancel_requested", "succeeded"}
        /\ run[w][j].attempt = attempt[j]
        /\ status[j] = "succeeded" => Settling(w, j)
        /\ run[w][j].pc \in {"artifactEvent", "succeededRow", "succeededJob"} =>
             outputs[j] = attempt[j]

\* While a retry is pending nobody runs the job, so nothing but the retry
\* (or a cancellation) writes its row.
RetrySound(r) ==
    api[r].pc = "retryWrite" =>
        /\ r \in Retriers
        /\ status[api[r].job] \in {"failed", "cancelled", "cancel_requested"}
        /\ api[r].attempt = attempt[api[r].job]
        /\ \A w \in Workers : ~Active(w, api[r].job)

OwnerInv ==
    /\ \A w \in Workers, j \in Jobs : Plain(w, j)
    /\ \A j \in Jobs, u, v \in Workers : Active(u, j) /\ Active(v, j) => u = v
    /\ \A w \in Workers, j \in Jobs : ActiveSound(w, j)
    /\ \A r \in Clients : RetrySound(r)
    /\ ResultOfLastAttempt

\* A step of the job's only active invocation, or its claim, changes nothing
\* that another invocation or a pending retry relies on.
LEMMA OwnerRule ==
    ASSUME TypeOK, OwnerInv, NEW w \in Workers, NEW j \in Jobs,
           Active(w, j) \/ status[j] = "queued",
           \A u \in Workers, k \in Jobs :
               u # w \/ k # j => run'[u][k] = run[u][k],
           \A k \in Jobs :
               k # j => status'[k] = status[k] /\ outputs'[k] = outputs[k],
           attempt' = attempt, api' = api,
           Plain(w, j)', ActiveSound(w, j)',
           status'[j] = "succeeded" => outputs'[j] = attempt[j]
    PROVE  OwnerInv'
  <1>1. \A u \in Workers : u # w => ~Active(u, j)
    BY DEF OwnerInv, ActiveSound
  <1>2. \A u \in Workers, k \in Jobs :
            u # w \/ k # j => (Active(u, k)' <=> Active(u, k))
    BY DEF Active, Owns, Settling
  <1>3. ASSUME NEW u \in Workers, NEW k \in Jobs
        PROVE  Plain(u, k)' /\ ActiveSound(u, k)'
    <2>1. CASE u = w /\ k = j
      BY <2>1
    <2>2. CASE k # j
      BY <1>2, <2>2 DEF OwnerInv, Plain, ActiveSound, Settling
    <2>3. CASE u # w /\ k = j
      BY <1>1, <1>2, <2>3 DEF OwnerInv, Plain, ActiveSound
    <2>. QED  BY <2>1, <2>2, <2>3
  <1>4. ASSUME NEW k \in Jobs, NEW u \in Workers, NEW v \in Workers,
               Active(u, k)', Active(v, k)'
        PROVE  u = v
    BY <1>1, <1>2, <1>4 DEF OwnerInv
  <1>5. ASSUME NEW r \in Clients PROVE RetrySound(r)'
    <2>. SUFFICES ASSUME api[r].pc = "retryWrite" PROVE RetrySound(r)'
      BY DEF RetrySound
    <2>1. api[r].job \in Jobs
      BY DEF TypeOK, Request, NoRequest
    <2>2. api[r].job # j
      BY <2>1 DEF OwnerInv, RetrySound
    <2>. QED  BY <1>2, <2>1, <2>2 DEF OwnerInv, RetrySound
  <1>6. ResultOfLastAttempt'
    BY DEF OwnerInv, ResultOfLastAttempt
  <1>. QED  BY <1>3, <1>4, <1>5, <1>6 DEF OwnerInv

\* A step that writes no row and only ends, or begins, invocations.
LEMMA OwnerQuietRule ==
    ASSUME TypeOK, OwnerInv,
           UNCHANGED <<status, outputs, attempt, api>>,
           \A u \in Workers, k \in Jobs :
               \/ run'[u][k] = run[u][k]
               \/ run'[u][k] = IdleFrame(k)
               \/ Plain(u, k)' /\ ~Active(u, k)'
    PROVE  OwnerInv'
  <1>0. ASSUME NEW u \in Workers, NEW k \in Jobs, run'[u][k] = IdleFrame(k)
        PROVE  Plain(u, k)' /\ ~Active(u, k)'
    <2>1. /\ run'[u][k].pc = "idle" /\ run'[u][k].unread = {}
          /\ run'[u][k].todo = {} /\ run'[u][k].unmet = FALSE
      BY <1>0 DEF IdleFrame
    <2>. QED  BY <2>1 DEF Plain, Active, Owns, Settling
  <1>1. \A u \in Workers, k \in Jobs : Active(u, k)' =>
            Active(u, k) /\ run'[u][k] = run[u][k]
    BY <1>0 DEF Active, Owns, Settling
  <1>2. ASSUME NEW u \in Workers, NEW k \in Jobs
        PROVE  Plain(u, k)' /\ ActiveSound(u, k)'
    <2>1. CASE run'[u][k] = run[u][k]
      BY <2>1 DEF OwnerInv, Plain, ActiveSound, Active, Owns, Settling
    <2>2. CASE Plain(u, k)' /\ ~Active(u, k)'
      BY <2>2 DEF ActiveSound
    <2>. QED  BY <1>0, <2>1, <2>2
  <1>3. ASSUME NEW r \in Clients PROVE RetrySound(r)'
    <2>. SUFFICES ASSUME api[r].pc = "retryWrite" PROVE RetrySound(r)'
      BY DEF RetrySound
    <2>1. api[r].job \in Jobs
      BY DEF TypeOK, Request, NoRequest
    <2>. QED  BY <1>1, <2>1 DEF OwnerInv, RetrySound
  <1>. QED  BY <1>1, <1>2, <1>3 DEF OwnerInv, ResultOfLastAttempt

\* A step of a request.
LEMMA OwnerClientRule ==
    ASSUME TypeOK, OwnerInv, UNCHANGED <<run, outputs>>,
           \A k \in Jobs :
               \/ status'[k] = status[k] /\ attempt'[k] = attempt[k]
               \/ status'[k] = "cancel_requested" /\ attempt'[k] = attempt[k]
               \/ /\ status'[k] = "queued"
                  /\ \A w \in Workers : ~Active(w, k)
                  /\ \A r \in Clients : api'[r].pc = "retryWrite" => api'[r].job # k,
           \A r \in Clients : api'[r].pc = "retryWrite" =>
               api'[r].job \in Jobs /\ (api'[r] = api[r] \/ RetrySound(r)')
    PROVE  OwnerInv'
  <1>1. \A u \in Workers, k \in Jobs : Active(u, k)' <=> Active(u, k)
    BY DEF Active, Owns, Settling
  <1>2. ASSUME NEW u \in Workers, NEW k \in Jobs
        PROVE  Plain(u, k)' /\ ActiveSound(u, k)'
    BY <1>1 DEF OwnerInv, Plain, ActiveSound, Settling
  <1>3. ASSUME NEW r \in Clients PROVE RetrySound(r)'
    BY <1>1 DEF OwnerInv, RetrySound
  <1>4. ResultOfLastAttempt'
    BY DEF OwnerInv, ResultOfLastAttempt
  <1>. QED  BY <1>1, <1>2, <1>3, <1>4 DEF OwnerInv

LEMMA OwnerInvRun ==
    ASSUME TypeOK, NoDependencies, OwnerInv,
           NEW w \in Workers, NEW j \in Jobs, RunStep(w, j)
    PROVE  OwnerInv'
  <1>. USE DEF store, broker, Return, At
  <1>a. Plain(w, j) /\ ActiveSound(w, j)
    BY DEF OwnerInv
  <1>b. status[j] = "succeeded" => outputs[j] = attempt[j]
    BY DEF OwnerInv, ResultOfLastAttempt
  <1>c. DependenciesRead(w, j, "readWaiting") => FALSE
    BY <1>a DEF DependenciesRead, Plain, Active, Owns, Settling
  <1>pcs. {"claim", "failedRow", "outputs", "work", "artifactEvent", "resume",
           "failedJob", "failedEvent", "attemptJob", "startedEvent",
           "succeededRow", "succeededJob", "succeededEvent"} \subseteq RunPc
    BY DEF RunPc, BeforeTry, InTry, InHandler
  <1>Receive. CASE Receive(w, j)
    <2>1. Plain(w, j)' /\ ~Active(w, j)'
      BY <1>Receive, <1>a, <1>pcs, GotoStep DEF Receive, Plain, Active, Owns, Settling
    <2>. QED  BY <1>Receive, <1>pcs, <2>1, GotoStep, OwnerQuietRule DEF Receive
  <1>Claim. CASE Claim(w, j)
    <2>1. /\ ClaimedFrame(j).pc = "dependencies" /\ ClaimedFrame(j).todo = {}
          /\ ClaimedFrame(j).attempt = attempt[j]
      BY DEF ClaimedFrame
    <2>2. ClaimedFrame(j).unread = {} /\ ClaimedFrame(j).unmet = FALSE
      BY DEF ClaimedFrame, NoDependencies
    <2>3. run'[w][j] = ClaimedFrame(j) /\ status'[j] = "claimed"
      BY <1>Claim, SetFrameStep, SetStatusStep DEF Claim
    <2>4. Plain(w, j)' /\ ActiveSound(w, j)'
      BY <1>Claim, <2>1, <2>2, <2>3
      DEF Claim, Plain, ActiveSound, Active, Owns, Settling
    <2>. QED
      BY <1>Claim, <2>3, <2>4, SetFrameStep, SetStatusStep, OwnerRule DEF Claim
  <1>ClaimNothing. CASE ClaimNothing(w, j)
    BY <1>ClaimNothing, SetFrameStep, OwnerQuietRule DEF ClaimNothing
  <1>FailedEvent. CASE FailedEvent(w, j)
    BY <1>FailedEvent, SetFrameStep, OwnerQuietRule DEF FailedEvent
  <1>ResumeDone. CASE ResumeDone(w, j)
    BY <1>ResumeDone, SetFrameStep, OwnerQuietRule DEF ResumeDone
  <1>ReadDependency. ASSUME NEW d \in Jobs, ReadDependency(w, j, d) PROVE OwnerInv'
    BY <1>ReadDependency, <1>a DEF ReadDependency, Plain
  <1>VisitWaiting. ASSUME NEW b \in Jobs, VisitWaiting(w, j, b) PROVE OwnerInv'
    BY <1>VisitWaiting, <1>a DEF VisitWaiting, Plain
  <1>never. CASE \/ EnterWaiting(w, j) \/ WaitingEvent(w, j) \/ LeaveWaiting(w, j)
                 \/ Requeue(w, j) \/ SatisfiedEvent(w, j) \/ CallReturned(w, j)
    BY <1>never, <1>a
    DEF EnterWaiting, WaitingEvent, LeaveWaiting, Requeue, SatisfiedEvent,
        CallReturned, DependenciesRead, Plain, Active, Owns, Settling
  <1>FindWaiting. CASE FindWaiting(w, j)
    <2>1. Waiting(j) = {}
      BY DEF Waiting, NoDependencies
    <2>2. Resuming(run[w][j], {}).pc = "nextWaiting" /\ Resuming(run[w][j], {}).todo = {}
          /\ Resuming(run[w][j], {}).attempt = run[w][j].attempt
          /\ Resuming(run[w][j], {}).unread = run[w][j].unread
          /\ Resuming(run[w][j], {}).unmet = run[w][j].unmet
      BY DEF Resuming, TypeOK, Frame
    <2>3. run'[w][j] = Resuming(run[w][j], {})
      BY <1>FindWaiting, <2>1, SetFrameStep DEF FindWaiting
    <2>4. Plain(w, j)' /\ ActiveSound(w, j)'
      BY <1>FindWaiting, <1>a, <2>2, <2>3
      DEF FindWaiting, Plain, ActiveSound, Active, Owns, Settling
    <2>. QED
      BY <1>FindWaiting, <1>a, <1>b, <2>4, SetFrameStep, OwnerRule
      DEF FindWaiting, Active, Owns, Settling
  <1>StartAttemptRow. CASE StartAttemptRow(w, j)
    <2>1. Plain(w, j)' /\ ActiveSound(w, j)'
      BY <1>StartAttemptRow, <1>a, <1>pcs, GotoStep
      DEF StartAttemptRow, DependenciesRead, Plain, ActiveSound, Active, Owns, Settling
    <2>. QED
      BY <1>StartAttemptRow, <1>a, <1>b, <1>pcs, <2>1, GotoStep, OwnerRule
      DEF StartAttemptRow, DependenciesRead, ActiveSound, Active, Owns, Settling
  <1>StartAttemptJob. CASE StartAttemptJob(w, j)
    <2>1. Plain(w, j)' /\ ActiveSound(w, j)'
      BY <1>StartAttemptJob, <1>a, <1>pcs, GotoStep, SetStatusStep
      DEF StartAttemptJob, Plain, ActiveSound, Active, Owns, Settling
    <2>. QED
      BY <1>StartAttemptJob, <1>a, <1>b, <1>pcs, <2>1, GotoStep, SetStatusStep, OwnerRule
      DEF StartAttemptJob, ActiveSound, Active, Owns, Settling
  <1>StartedEvent. CASE StartedEvent(w, j)
    <2>1. Plain(w, j)' /\ ActiveSound(w, j)'
      BY <1>StartedEvent, <1>a, <1>pcs, GotoStep
      DEF StartedEvent, Plain, ActiveSound, Active, Owns, Settling
    <2>. QED
      BY <1>StartedEvent, <1>a, <1>b, <1>pcs, <2>1, GotoStep, OwnerRule
      DEF StartedEvent, ActiveSound, Active, Owns, Settling
  <1>Work. CASE Work(w, j)
    <2>1. Plain(w, j)' /\ ActiveSound(w, j)'
      BY <1>Work, <1>a, <1>pcs, GotoStep
      DEF Work, Plain, ActiveSound, Active, Owns, Settling
    <2>. QED
      BY <1>Work, <1>a, <1>b, <1>pcs, <2>1, GotoStep, OwnerRule
      DEF Work, ActiveSound, Active, Owns, Settling
  <1>WorkFails. CASE WorkFails(w, j)
    <2>1. Plain(w, j)' /\ ActiveSound(w, j)'
      BY <1>WorkFails, <1>a, <1>pcs, GotoStep
      DEF WorkFails, Plain, ActiveSound, Active, Owns, Settling
    <2>. QED
      BY <1>WorkFails, <1>a, <1>b, <1>pcs, <2>1, GotoStep, OwnerRule
      DEF WorkFails, ActiveSound, Active, Owns, Settling
  <1>ArtifactEvent. CASE ArtifactEvent(w, j)
    <2>1. Plain(w, j)' /\ ActiveSound(w, j)'
      BY <1>ArtifactEvent, <1>a, <1>pcs, GotoStep
      DEF ArtifactEvent, Plain, ActiveSound, Active, Owns, Settling
    <2>. QED
      BY <1>ArtifactEvent, <1>a, <1>b, <1>pcs, <2>1, GotoStep, OwnerRule
      DEF ArtifactEvent, ActiveSound, Active, Owns, Settling
  <1>SucceededRow. CASE SucceededRow(w, j)
    <2>1. Plain(w, j)' /\ ActiveSound(w, j)'
      BY <1>SucceededRow, <1>a, <1>pcs, GotoStep
      DEF SucceededRow, Plain, ActiveSound, Active, Owns, Settling
    <2>. QED
      BY <1>SucceededRow, <1>a, <1>b, <1>pcs, <2>1, GotoStep, OwnerRule
      DEF SucceededRow, ActiveSound, Active, Owns, Settling
  <1>SucceededJob. CASE SucceededJob(w, j)
    <2>1. Plain(w, j)' /\ ActiveSound(w, j)'
      BY <1>SucceededJob, <1>a, <1>pcs, GotoStep, SetStatusStep
      DEF SucceededJob, Plain, ActiveSound, Active, Owns, Settling
    <2>. QED
      BY <1>SucceededJob, <1>a, <1>b, <1>pcs, <2>1, GotoStep, SetStatusStep, OwnerRule
      DEF SucceededJob, ActiveSound, Active, Owns, Settling
  <1>SucceededEvent. CASE SucceededEvent(w, j)
    <2>1. Plain(w, j)' /\ ActiveSound(w, j)'
      BY <1>SucceededEvent, <1>a, <1>pcs, GotoStep
      DEF SucceededEvent, Plain, ActiveSound, Active, Owns, Settling
    <2>. QED
      BY <1>SucceededEvent, <1>a, <1>b, <1>pcs, <2>1, GotoStep, OwnerRule
      DEF SucceededEvent, ActiveSound, Active, Owns, Settling
  <1>FailedRow. CASE FailedRow(w, j)
    <2>1. Plain(w, j)' /\ ActiveSound(w, j)'
      BY <1>FailedRow, <1>a, <1>pcs, GotoStep
      DEF FailedRow, Plain, ActiveSound, Active, Owns, Settling
    <2>. QED
      BY <1>FailedRow, <1>a, <1>b, <1>pcs, <2>1, GotoStep, OwnerRule
      DEF FailedRow, ActiveSound, Active, Owns, Settling
  <1>FailedJob. CASE FailedJob(w, j)
    <2>1. Plain(w, j)' /\ ActiveSound(w, j)'
      BY <1>FailedJob, <1>a, <1>pcs, GotoStep, SetStatusStep
      DEF FailedJob, Plain, ActiveSound, Active, Owns, Settling
    <2>. QED
      BY <1>FailedJob, <1>a, <1>b, <1>pcs, <2>1, GotoStep, SetStatusStep, OwnerRule
      DEF FailedJob, ActiveSound, Active, Owns, Settling
  <1>RecordOutputs. CASE RecordOutputs(w, j)
    <2>1. outputs'[j] = run[w][j].attempt
          /\ \A k \in Jobs : k # j => outputs'[k] = outputs[k]
      BY <1>RecordOutputs DEF RecordOutputs, TypeOK
    <2>2. Plain(w, j)' /\ ActiveSound(w, j)'
      BY <1>RecordOutputs, <1>a, <1>pcs, <2>1, GotoStep, SetStatusStep
      DEF RecordOutputs, Plain, ActiveSound, Active, Owns, Settling
    <2>. QED
      BY <1>RecordOutputs, <1>a, <1>pcs, <2>1, <2>2, GotoStep, SetStatusStep, OwnerRule
      DEF RecordOutputs, Active, Owns
  <1>. QED
    BY <1>Receive, <1>Claim, <1>ClaimNothing, <1>never, <1>StartAttemptRow,
       <1>StartAttemptJob, <1>StartedEvent, <1>Work, <1>WorkFails,
       <1>RecordOutputs, <1>ArtifactEvent, <1>SucceededRow, <1>SucceededJob,
       <1>SucceededEvent, <1>FindWaiting, <1>ResumeDone, <1>FailedRow,
       <1>FailedJob, <1>FailedEvent, <1>ReadDependency, <1>VisitWaiting
    DEF RunStep

LEMMA OwnerInvRaise ==
    ASSUME TypeOK, OwnerInv, NEW w \in Workers, NEW j \in Jobs, Raise(w, j)
    PROVE  OwnerInv'
  <1>. USE DEF store, broker
  <1>a. Plain(w, j) /\ ActiveSound(w, j)
    BY DEF OwnerInv
  <1>1. CASE RaiseInTry(w, j)
    <2>0. Goto(w, j, "failedRow") /\ "failedRow" \in RunPc
      BY <1>1 DEF RaiseInTry, RunPc, InHandler
    <2>1. Active(w, j)
      BY <1>1, <1>a DEF RaiseInTry, InTry, Plain
    <2>2. Plain(w, j)' /\ ActiveSound(w, j)'
      BY <1>1, <1>a, <2>0, <2>1, GotoStep
      DEF RaiseInTry, Plain, ActiveSound, Active, Owns, Settling
    <2>. QED
      BY <1>1, <2>0, <2>1, <2>2, GotoStep, OwnerRule
      DEF RaiseInTry, OwnerInv, ResultOfLastAttempt
  <1>2. ASSUME NEW caller \in Jobs, RaiseToCaller(w, j, caller) PROVE OwnerInv'
    BY <1>2 DEF RaiseToCaller, At, OwnerInv, Plain, Active, Owns, Settling
  <1>3. CASE RaiseFromTask(w, j)
    <2>1. \A u \in Workers, k \in Jobs :
              run'[u][k] = run[u][k] \/ run'[u][k] = IdleFrame(k)
      BY <1>3 DEF RaiseFromTask, Return, SetFrame, TypeOK
    <2>. QED  BY <1>3, <2>1, OwnerQuietRule DEF RaiseFromTask
  <1>. QED  BY <1>1, <1>2, <1>3 DEF Raise

LEMMA OwnerInvBroker ==
    ASSUME TypeOK, OwnerInv, NEW w \in Workers,
           \/ \E j \in Jobs : Deliver(w, j)
           \/ Acknowledge(w) \/ Crash(w) \/ Redeliver(w)
    PROVE  OwnerInv'
  <1>. USE DEF store, broker
  <1>1. ASSUME NEW j \in Jobs, Deliver(w, j) PROVE OwnerInv'
    <2>1. Goto(w, j, "receive") /\ "receive" \in RunPc
      BY <1>1 DEF Deliver, Goto, RunPc, BeforeTry
    <2>2. Plain(w, j)' /\ ~Active(w, j)'
      BY <2>1, GotoStep DEF OwnerInv, Plain, Active, Owns, Settling
    <2>. QED  BY <1>1, <2>1, <2>2, GotoStep, OwnerQuietRule DEF Deliver
  <1>2. CASE Acknowledge(w)
    BY <1>2, OwnerQuietRule DEF Acknowledge
  <1>3. CASE Crash(w)
    <2>1. \A u \in Workers, k \in Jobs :
              run'[u][k] = run[u][k] \/ run'[u][k] = IdleFrame(k)
      BY <1>3 DEF Crash, TypeOK
    <2>. QED  BY <1>3, <2>1, OwnerQuietRule DEF Crash
  <1>4. CASE Redeliver(w)
    BY <1>4, OwnerQuietRule DEF Redeliver
  <1>. QED  BY <1>1, <1>2, <1>3, <1>4

LEMMA AsksStep ==
    ASSUME TypeOK, NEW c \in Clients, NEW pc, NEW k, NEW n, Asks(c, pc, k, n)
    PROVE  /\ api'[c] = [pc |-> pc, job |-> k, attempt |-> n]
           /\ api'[c].pc = pc
           /\ \A r \in Clients : r # c => api'[r] = api[r]
  BY DEF TypeOK, Asks

LEMMA AnswersStep ==
    ASSUME TypeOK, NEW c \in Clients, Answers(c)
    PROVE  /\ api'[c] = NoRequest
           /\ \A r \in Clients : r # c => api'[r] = api[r]
  BY DEF TypeOK, Answers

LEMMA OwnerInvClient ==
    ASSUME TypeOK, OneRetrier, OwnerInv, NEW c \in Clients, ClientCall(c)
    PROVE  OwnerInv'
  <1>. USE DEF store, broker
  <1>0. \A r \in Clients : api[r].pc # "idle" => api[r].job \in Jobs
    BY DEF TypeOK, Request, NoRequest
  <1>1. ASSUME NEW j \in Jobs, Submit(c, j) PROVE OwnerInv'
    <2>1. \A w \in Workers : ~Active(w, j)
      BY <1>1 DEF Submit, OwnerInv, ActiveSound
    <2>2. \A r \in Clients : api'[r].pc = "retryWrite" => api'[r] = api[r]
      BY <1>1, AsksStep DEF Submit
    <2>3. \A r \in Clients : api[r].pc = "retryWrite" => api[r].job # j
      BY <1>1 DEF Submit, OwnerInv, RetrySound
    <2>4. \A k \in Jobs : status'[k] = IF k = j THEN "queued" ELSE status[k]
      BY <1>1, SetStatusStep DEF Submit
    <2>. QED
      BY <1>0, <1>1, <2>1, <2>2, <2>3, <2>4, OwnerClientRule DEF Submit
  <1>2. ASSUME NEW j \in Jobs, CancelRead(c, j) PROVE OwnerInv'
    <2>1. \A r \in Clients : api'[r].pc = "retryWrite" => api'[r] = api[r]
      BY <1>2, AsksStep DEF CancelRead
    <2>. QED  BY <1>0, <1>2, <2>1, OwnerClientRule DEF CancelRead
  <1>3. ASSUME NEW j \in Jobs, RetryRead(c, j) PROVE OwnerInv'
    <2>1. \A w \in Workers : ~Active(w, j)
      BY <1>3 DEF RetryRead, OwnerInv, ActiveSound
    <2>2. \A r \in Clients : r # c => api'[r] = api[r]
      BY <1>3, AsksStep DEF RetryRead
    <2>3. api'[c] = [pc |-> "retryWrite", job |-> j, attempt |-> attempt[j]]
      BY <1>3, AsksStep DEF RetryRead
    <2>4. \A w \in Workers, k \in Jobs : Active(w, k)' <=> Active(w, k)
      BY <1>3 DEF RetryRead, Active, Owns, Settling
    <2>5. RetrySound(c)'
      BY <1>3, <2>1, <2>3, <2>4 DEF RetryRead, RetrySound
    <2>. QED
      BY <1>0, <1>3, <2>2, <2>3, <2>5, OwnerClientRule DEF RetryRead
  <1>4. CASE QueuedEvent(c) \/ Enqueue(c) \/ CancelEvent(c) \/ RetryEvent(c)
               \/ AbandonRequest(c)
    <2>1. \A r \in Clients : api'[r].pc = "retryWrite" => api'[r] = api[r]
      <3>1. CASE Answers(c)
        BY <3>1, AnswersStep DEF NoRequest
      <3>2. CASE Asks(c, "enqueue", api[c].job, 0)
        BY <3>2, AsksStep, ZenonT(30)
      <3>. QED
        BY <1>4, <3>1, <3>2
        DEF QueuedEvent, Enqueue, CancelEvent, RetryEvent, AbandonRequest
    <2>. QED
      BY <1>0, <1>4, <2>1, OwnerClientRule
      DEF QueuedEvent, Enqueue, CancelEvent, RetryEvent, AbandonRequest
  <1>5. CASE CancelWrite(c)
    <2>1. \A r \in Clients : api'[r].pc = "retryWrite" => api'[r] = api[r]
      BY <1>5, AsksStep DEF CancelWrite
    <2>. QED
      BY <1>0, <1>5, <2>1, SetStatusStep, OwnerClientRule DEF CancelWrite
  <1>6. CASE RetryWrite(c)
    <2>. DEFINE j == api[c].job
    <2>1. /\ j \in Jobs
          /\ \A w \in Workers : ~Active(w, j)
          /\ c \in Retriers
      BY <1>0, <1>6 DEF RetryWrite, OwnerInv, RetrySound
    <2>a. api'[c].pc = "retryEvent" /\ \A r \in Clients : r # c => api'[r] = api[r]
      BY <1>6, AsksStep DEF RetryWrite
    <2>2. \A r \in Clients : api'[r].pc = "retryWrite" => api'[r] = api[r] /\ r # c
      BY <2>a
    <2>3. \A r \in Clients : api'[r].pc # "retryWrite"
      BY <2>1, <2>2 DEF OwnerInv, RetrySound, OneRetrier
    <2>4. \A k \in Jobs : k # j => status'[k] = status[k] /\ attempt'[k] = attempt[k]
      BY <1>6, <2>1, SetStatusStep DEF RetryWrite, TypeOK
    <2>5. status'[j] = "queued"
      BY <1>6, <2>1, SetStatusStep DEF RetryWrite
    <2>. QED
      BY <1>6, <2>1, <2>3, <2>4, <2>5, OwnerClientRule DEF RetryWrite
  <1>. QED
    BY <1>1, <1>2, <1>3, <1>4, <1>5, <1>6 DEF ClientCall, ClientStep

LEMMA OwnerInvNext ==
    ASSUME NoDependencies, OneRetrier
    PROVE  TypeOK /\ OwnerInv /\ [Next]_vars => OwnerInv'
  <1>. SUFFICES ASSUME TypeOK, OwnerInv, [Next]_vars PROVE OwnerInv'
    OBVIOUS
  <1>1. ASSUME NEW c \in Clients, ClientCall(c) PROVE OwnerInv'
    BY <1>1, OwnerInvClient
  <1>2. ASSUME NEW w \in Workers, WorkerStep(w) PROVE OwnerInv'
    BY <1>2, OwnerInvBroker, OwnerInvRun, OwnerInvRaise DEF WorkerStep
  <1>3. CASE UNCHANGED vars
    BY <1>3, OwnerQuietRule DEF vars
  <1>. QED  BY <1>1, <1>2, <1>3 DEF Next

\* Jobs without dependencies, retried by one request at a time: one worker at
\* a time owns a job, however often its message is delivered or its workers
\* die, and a job that says succeeded offers the artifacts of its last attempt.
THEOREM OneOwnerAlways ==
    ASSUME NoDependencies, OneRetrier
    PROVE  Spec => [](OneOwner /\ ResultOfLastAttempt)
  <1>1. Init => OwnerInv
    BY DEF Init, IdleFrame, NoRequest, OwnerInv, Plain, ActiveSound, RetrySound,
           Active, Owns, Settling, ResultOfLastAttempt
  <1>2. TypeOK /\ OwnerInv /\ [Next]_vars => OwnerInv'
    BY OwnerInvNext
  <1>3. OwnerInv => OneOwner /\ ResultOfLastAttempt
    BY DEF OwnerInv, OneOwner, Active
  <1>. QED  BY <1>1, <1>2, <1>3, TypeCorrect, PTL DEF Spec

-----------------------------------------------------------------------------
(* The two rows of an attempt.                                             *)

\* Hypotheses of the theorems below, over those of OneOwnerAlways.  A store
\* that raises between the two writes of finish_attempt sends the invocation
\* to its handler, which writes "failed" over what has succeeded.
NoStoreErrors == \A allowed \in Budgets : allowed["storeError"] = 0

\* What an invocation that owns the job knows of the attempts row, by the
\* statement it executes next.
RowKnown(w, j) ==
    /\ run[w][j].pc = "dependencies" => rows[j][attempt[j]] = "none"
    /\ run[w][j].pc \in {"attemptJob", "startedEvent", "work", "outputs", "artifactEvent",
                         "succeededRow", "failedRow"} => rows[j][attempt[j]] = "running"
    /\ run[w][j].pc \in {"succeededJob", "succeededEvent", "resume", "nextWaiting"} =>
         rows[j][attempt[j]] = "succeeded"
    /\ run[w][j].pc = "failedJob" => rows[j][attempt[j]] = "failed"
    /\ run[w][j].pc \in {"failedRow", "failedJob"} => status[j] # "succeeded"

\* A row is written by its own attempt only, and by none before it is claimed.
RowsInv ==
    /\ budget["storeError"] = 0
    /\ RowsAgree
    /\ \A j \in Jobs, n \in Attempts : n > attempt[j] => rows[j][n] = "none"
    /\ \A j \in Jobs : status[j] \in {"absent", "queued"} => rows[j][attempt[j]] = "none"
    /\ \A w \in Workers, j \in Jobs : RowKnown(w, j)

\* SetRow, read back.
LEMMA SetRowStep ==
    ASSUME TypeOK, NEW j \in Jobs, NEW n \in Attempts, NEW s, SetRow(j, n, s)
    PROVE  /\ rows'[j][n] = s
           /\ \A m \in Attempts : m # n => rows'[j][m] = rows[j][m]
           /\ \A k \in Jobs : k # j => rows'[k] = rows[k]
  BY DEF TypeOK, SetRow

\* A step of the job's only active invocation, or its claim, that leaves the
\* two rows in agreement and the invocation informed.
LEMMA RowsRule ==
    ASSUME TypeOK, OwnerInv, RowsInv, NEW w \in Workers, NEW j \in Jobs,
           Active(w, j) \/ status[j] = "queued",
           \A u \in Workers, k \in Jobs :
               u # w \/ k # j => run'[u][k] = run[u][k],
           \A k \in Jobs : k # j => status'[k] = status[k] /\ rows'[k] = rows[k],
           \A n \in Attempts : n # attempt[j] => rows'[j][n] = rows[j][n],
           attempt' = attempt, budget' = budget,
           RowKnown(w, j)',
           status'[j] \in {"succeeded", "failed"} => rows'[j][attempt[j]] = status'[j],
           status'[j] \notin {"absent", "queued"}
    PROVE  RowsInv'
  <1>1. \A u \in Workers : u # w => ~Active(u, j)
    BY DEF OwnerInv, ActiveSound
  <1>2. ASSUME NEW u \in Workers, NEW k \in Jobs PROVE RowKnown(u, k)'
    <2>1. CASE u = w /\ k = j
      BY <2>1
    <2>2. CASE k # j
      BY <2>2 DEF RowsInv, RowKnown
    <2>3. CASE u # w /\ k = j
      BY <1>1, <2>3 DEF RowKnown, Active, Owns, Settling
    <2>. QED  BY <2>1, <2>2, <2>3
  <1>3. RowsAgree'
    BY DEF RowsInv, RowsAgree
  <1>4. ASSUME NEW k \in Jobs, NEW n \in Attempts, n > attempt[k] PROVE rows'[k][n] = "none"
    <2>1. rows[k][n] = "none"
      BY <1>4 DEF RowsInv
    <2>2. CASE k = j
      <3>1. n # attempt[j]
        BY <1>4, <2>2, ConstantsAssumption DEF TypeOK, Attempts
      <3>. QED  BY <2>1, <2>2, <3>1
    <2>. QED  BY <2>1, <2>2
  <1>5. \A k \in Jobs : status'[k] \in {"absent", "queued"} => rows'[k][attempt'[k]] = "none"
    BY DEF RowsInv
  <1>. QED  BY <1>2, <1>3, <1>4, <1>5 DEF RowsInv

\* A step that writes neither row and only ends, or begins, invocations.
LEMMA RowsQuietRule ==
    ASSUME TypeOK, RowsInv,
           UNCHANGED <<status, attempt, rows>>,
           budget'["storeError"] = 0,
           \A u \in Workers, k \in Jobs :
               \/ run'[u][k] = run[u][k]
               \/ run'[u][k].pc \in {"idle", "receive", "claim", "failedEvent"}
    PROVE  RowsInv'
  <1>1. ASSUME NEW u \in Workers, NEW k \in Jobs PROVE RowKnown(u, k)'
    BY DEF RowsInv, RowKnown
  <1>. QED  BY <1>1 DEF RowsInv, RowsAgree

\* A request cancels a job, or (re)opens one that nobody runs and whose next
\* attempt has no row.
LEMMA RowsClientRule ==
    ASSUME TypeOK, RowsInv, UNCHANGED <<run, rows>>, budget'["storeError"] = 0,
           \A k \in Jobs :
               \/ status'[k] = status[k] /\ attempt'[k] = attempt[k]
               \/ status'[k] = "cancel_requested" /\ attempt'[k] = attempt[k]
               \/ /\ status'[k] = "queued"
                  /\ \A w \in Workers : ~Active(w, k)
                  /\ \/ attempt'[k] = attempt[k] /\ status[k] = "absent"
                     \/ attempt'[k] = attempt[k] + 1 /\ attempt'[k] \in Attempts
    PROVE  RowsInv'
  <1>1. ASSUME NEW u \in Workers, NEW k \in Jobs PROVE RowKnown(u, k)'
    BY DEF RowsInv, RowKnown, Active, Owns, Settling
  <1>0. \A k \in Jobs : attempt[k] \in Nat
    BY ConstantsAssumption DEF TypeOK, Attempts
  <1>2. RowsAgree'
    BY DEF RowsInv, RowsAgree
  <1>3. ASSUME NEW k \in Jobs, NEW n \in Attempts, n > attempt'[k] PROVE rows'[k][n] = "none"
    BY <1>0, <1>3, ConstantsAssumption DEF RowsInv, Attempts
  <1>4. \A k \in Jobs : status'[k] \in {"absent", "queued"} => rows'[k][attempt'[k]] = "none"
    BY <1>0 DEF RowsInv
  <1>. QED  BY <1>1, <1>2, <1>3, <1>4 DEF RowsInv

\* No step of an invocation writes a settled row, the status of a job that is
\* over, or a cancellation.
LEMMA RowsInvRun ==
    ASSUME TypeOK, NoDependencies, OwnerInv, RowsInv,
           NEW w \in Workers, NEW j \in Jobs, RunStep(w, j)
    PROVE  /\ RowsInv'
           /\ \A k \in Jobs, n \in Attempts :
                rows[k][n] \in {"succeeded", "failed"} => rows'[k][n] = rows[k][n]
           /\ \A k \in Jobs : status[k] \in Terminal => status'[k] = status[k]
           /\ \A k \in Jobs : status'[k] \in {"cancelled", "cancel_requested"} =>
                status'[k] = status[k]
  <1>. DEFINE Kept ==
          /\ \A k \in Jobs, n \in Attempts :
               rows[k][n] \in {"succeeded", "failed"} => rows'[k][n] = rows[k][n]
          /\ \A k \in Jobs : status[k] \in Terminal => status'[k] = status[k]
          /\ \A k \in Jobs : status'[k] \in {"cancelled", "cancel_requested"} =>
               status'[k] = status[k]
  <1>0. SUFFICES RowsInv' /\ Kept
    OBVIOUS
  <1>. USE DEF store, broker, Return, At
  <1>a. Plain(w, j) /\ ActiveSound(w, j) /\ RowKnown(w, j)
    BY DEF OwnerInv, RowsInv
  <1>b. status[j] \in {"succeeded", "failed"} => rows[j][attempt[j]] = status[j]
    BY DEF RowsInv, RowsAgree
  <1>c. DependenciesRead(w, j, "readWaiting") => FALSE
    BY <1>a DEF DependenciesRead, Plain, Active, Owns, Settling
  <1>d. attempt[j] \in Attempts /\ budget["storeError"] = 0
    BY DEF TypeOK, RowsInv
  <1>pcs. {"claim", "failedRow", "outputs", "work", "artifactEvent", "resume",
           "failedJob", "failedEvent", "attemptJob", "startedEvent",
           "succeededRow", "succeededJob", "succeededEvent"} \subseteq RunPc
    BY DEF RunPc, BeforeTry, InTry, InHandler
  <1>Receive. CASE Receive(w, j)
    BY <1>Receive, <1>d, <1>pcs, GotoStep, RowsQuietRule DEF Receive
  <1>Claim. CASE Claim(w, j)
    <2>1. ClaimedFrame(j).pc = "dependencies"
      BY DEF ClaimedFrame
    <2>2. run'[w][j].pc = "dependencies" /\ status'[j] = "claimed"
      BY <1>Claim, <2>1, SetFrameStep, SetStatusStep DEF Claim
    <2>3. rows[j][attempt[j]] = "none"
      BY <1>Claim DEF Claim, RowsInv
    <2>4. RowKnown(w, j)'
      BY <1>Claim, <2>2, <2>3 DEF Claim, RowKnown
    <2>5. RowsInv'
      BY <1>Claim, <2>2, <2>4, SetFrameStep, SetStatusStep, RowsRule DEF Claim
    <2>6. Kept
      BY <1>Claim, SetStatusStep DEF Claim, Terminal
    <2>. QED  BY <2>5, <2>6
  <1>leave. CASE ClaimNothing(w, j) \/ FailedEvent(w, j) \/ ResumeDone(w, j)
    <2>1. IdleFrame(j).pc = "idle"
      BY DEF IdleFrame
    <2>. QED  BY <1>leave, <1>d, <2>1, SetFrameStep, RowsQuietRule
              DEF ClaimNothing, FailedEvent, ResumeDone
  <1>ReadDependency. ASSUME NEW d \in Jobs, ReadDependency(w, j, d) PROVE FALSE
    BY <1>ReadDependency, <1>a DEF ReadDependency, Plain
  <1>VisitWaiting. ASSUME NEW b \in Jobs, VisitWaiting(w, j, b) PROVE FALSE
    BY <1>VisitWaiting, <1>a DEF VisitWaiting, Plain
  <1>never. ~(\/ EnterWaiting(w, j) \/ WaitingEvent(w, j) \/ LeaveWaiting(w, j)
              \/ Requeue(w, j) \/ SatisfiedEvent(w, j) \/ CallReturned(w, j))
    BY <1>a, <1>c
    DEF EnterWaiting, WaitingEvent, LeaveWaiting, Requeue, SatisfiedEvent,
        CallReturned, DependenciesRead, Plain, Active, Owns, Settling
  <1>FindWaiting. CASE FindWaiting(w, j)
    <2>1. Resuming(run[w][j], Waiting(j)).pc = "nextWaiting"
      BY DEF Resuming, TypeOK, Frame
    <2>2. run'[w][j].pc = "nextWaiting"
      BY <1>FindWaiting, <2>1, SetFrameStep DEF FindWaiting
    <2>3. RowKnown(w, j)'
      BY <1>FindWaiting, <1>a, <2>2 DEF FindWaiting, RowKnown
    <2>4. Active(w, j) /\ status[j] \notin {"absent", "queued"}
      BY <1>FindWaiting, <1>a DEF FindWaiting, ActiveSound, Active, Settling
    <2>. QED
      BY <1>FindWaiting, <1>b, <2>3, <2>4, SetFrameStep, RowsRule DEF FindWaiting
  <1>StartAttemptRow. CASE StartAttemptRow(w, j)
    <2>1. Active(w, j)
      BY <1>StartAttemptRow DEF StartAttemptRow, Active, Owns, Settling, DependenciesRead
    <2>2. run'[w][j].pc = "attemptJob"
      BY <1>StartAttemptRow, <1>pcs, GotoStep DEF StartAttemptRow
    <2>3. /\ rows'[j][attempt[j]] = "running" /\ status' = status
          /\ \A k \in Jobs : k # j => rows'[k] = rows[k]
          /\ \A n \in Attempts : n # attempt[j] => rows'[j][n] = rows[j][n]
      BY <1>StartAttemptRow, <1>a, <1>d, <2>1, SetRowStep DEF StartAttemptRow, ActiveSound
    <2>4. RowKnown(w, j)'
      BY <1>StartAttemptRow, <1>a, <2>1, <2>2, <2>3 DEF StartAttemptRow, RowKnown, ActiveSound, Settling, DependenciesRead
    <2>5. RowsInv'
      BY <1>StartAttemptRow, <1>a, <1>b, <1>pcs, <2>1, <2>3, <2>4, GotoStep, RowsRule
      DEF StartAttemptRow, RowKnown, ActiveSound, Settling, DependenciesRead
    <2>6. Kept
      BY <1>StartAttemptRow, <1>a, <1>d, <2>1, <2>3 DEF StartAttemptRow, RowKnown, ActiveSound, Settling, Terminal, DependenciesRead
    <2>. QED  BY <2>5, <2>6
  <1>StartAttemptJob. CASE StartAttemptJob(w, j)
    <2>1. Active(w, j)
      BY <1>StartAttemptJob DEF StartAttemptJob, Active, Owns, Settling
    <2>2. run'[w][j].pc = "startedEvent"
      BY <1>StartAttemptJob, <1>pcs, GotoStep DEF StartAttemptJob
    <2>3. /\ status'[j] = "running" /\ rows' = rows
          /\ \A k \in Jobs : k # j => status'[k] = status[k]
      BY <1>StartAttemptJob, SetStatusStep DEF StartAttemptJob
    <2>4. RowKnown(w, j)'
      BY <1>StartAttemptJob, <1>a, <2>1, <2>2, <2>3 DEF StartAttemptJob, RowKnown, ActiveSound, Settling
    <2>5. RowsInv'
      BY <1>StartAttemptJob, <1>a, <1>b, <1>pcs, <2>1, <2>3, <2>4, GotoStep, RowsRule
      DEF StartAttemptJob, RowKnown, ActiveSound, Settling
    <2>6. Kept
      BY <1>StartAttemptJob, <1>a, <1>d, <2>1, <2>3 DEF StartAttemptJob, RowKnown, ActiveSound, Settling, Terminal
    <2>. QED  BY <2>5, <2>6
  <1>StartedEvent. CASE StartedEvent(w, j)
    <2>1. Active(w, j)
      BY <1>StartedEvent DEF StartedEvent, Active, Owns, Settling
    <2>2. run'[w][j].pc = "work"
      BY <1>StartedEvent, <1>pcs, GotoStep DEF StartedEvent
    <2>3. status' = status /\ rows' = rows
      BY <1>StartedEvent DEF StartedEvent
    <2>4. RowKnown(w, j)'
      BY <1>StartedEvent, <1>a, <2>1, <2>2, <2>3 DEF StartedEvent, RowKnown, ActiveSound, Settling
    <2>5. RowsInv'
      BY <1>StartedEvent, <1>a, <1>b, <1>pcs, <2>1, <2>3, <2>4, GotoStep, RowsRule
      DEF StartedEvent, RowKnown, ActiveSound, Settling
    <2>6. Kept
      BY <1>StartedEvent, <1>a, <1>d, <2>1, <2>3 DEF StartedEvent, RowKnown, ActiveSound, Settling, Terminal
    <2>. QED  BY <2>5, <2>6
  <1>Work. CASE Work(w, j)
    <2>1. Active(w, j)
      BY <1>Work DEF Work, Active, Owns, Settling
    <2>2. run'[w][j].pc = "outputs"
      BY <1>Work, <1>pcs, GotoStep DEF Work
    <2>3. status' = status /\ rows' = rows
      BY <1>Work DEF Work
    <2>4. RowKnown(w, j)'
      BY <1>Work, <1>a, <2>1, <2>2, <2>3 DEF Work, RowKnown, ActiveSound, Settling
    <2>5. RowsInv'
      BY <1>Work, <1>a, <1>b, <1>pcs, <2>1, <2>3, <2>4, GotoStep, RowsRule
      DEF Work, RowKnown, ActiveSound, Settling
    <2>6. Kept
      BY <1>Work, <1>a, <1>d, <2>1, <2>3 DEF Work, RowKnown, ActiveSound, Settling, Terminal
    <2>. QED  BY <2>5, <2>6
  <1>WorkFails. CASE WorkFails(w, j)
    <2>1. Active(w, j)
      BY <1>WorkFails DEF WorkFails, Active, Owns, Settling
    <2>2. run'[w][j].pc = "failedRow"
      BY <1>WorkFails, <1>pcs, GotoStep DEF WorkFails
    <2>3. status' = status /\ rows' = rows
      BY <1>WorkFails DEF WorkFails
    <2>4. RowKnown(w, j)'
      BY <1>WorkFails, <1>a, <2>1, <2>2, <2>3 DEF WorkFails, RowKnown, ActiveSound, Settling
    <2>5. RowsInv'
      BY <1>WorkFails, <1>a, <1>b, <1>pcs, <2>1, <2>3, <2>4, GotoStep, RowsRule
      DEF WorkFails, RowKnown, ActiveSound, Settling
    <2>6. Kept
      BY <1>WorkFails, <1>a, <1>d, <2>1, <2>3 DEF WorkFails, RowKnown, ActiveSound, Settling, Terminal
    <2>. QED  BY <2>5, <2>6
  <1>RecordOutputs. CASE RecordOutputs(w, j)
    <2>1. Active(w, j)
      BY <1>RecordOutputs DEF RecordOutputs, Active, Owns, Settling
    <2>2. run'[w][j].pc = "artifactEvent"
      BY <1>RecordOutputs, <1>pcs, GotoStep DEF RecordOutputs
    <2>3. /\ status'[j] = "running" /\ rows' = rows
          /\ \A k \in Jobs : k # j => status'[k] = status[k]
      BY <1>RecordOutputs, SetStatusStep DEF RecordOutputs
    <2>4. RowKnown(w, j)'
      BY <1>RecordOutputs, <1>a, <2>1, <2>2, <2>3 DEF RecordOutputs, RowKnown, ActiveSound, Settling
    <2>5. RowsInv'
      BY <1>RecordOutputs, <1>a, <1>b, <1>pcs, <2>1, <2>3, <2>4, GotoStep, RowsRule
      DEF RecordOutputs, RowKnown, ActiveSound, Settling
    <2>6. Kept
      BY <1>RecordOutputs, <1>a, <1>d, <2>1, <2>3 DEF RecordOutputs, RowKnown, ActiveSound, Settling, Terminal
    <2>. QED  BY <2>5, <2>6
  <1>ArtifactEvent. CASE ArtifactEvent(w, j)
    <2>1. Active(w, j)
      BY <1>ArtifactEvent DEF ArtifactEvent, Active, Owns, Settling
    <2>2. run'[w][j].pc = "succeededRow"
      BY <1>ArtifactEvent, <1>pcs, GotoStep DEF ArtifactEvent
    <2>3. status' = status /\ rows' = rows
      BY <1>ArtifactEvent DEF ArtifactEvent
    <2>4. RowKnown(w, j)'
      BY <1>ArtifactEvent, <1>a, <2>1, <2>2, <2>3 DEF ArtifactEvent, RowKnown, ActiveSound, Settling
    <2>5. RowsInv'
      BY <1>ArtifactEvent, <1>a, <1>b, <1>pcs, <2>1, <2>3, <2>4, GotoStep, RowsRule
      DEF ArtifactEvent, RowKnown, ActiveSound, Settling
    <2>6. Kept
      BY <1>ArtifactEvent, <1>a, <1>d, <2>1, <2>3 DEF ArtifactEvent, RowKnown, ActiveSound, Settling, Terminal
    <2>. QED  BY <2>5, <2>6
  <1>SucceededRow. CASE SucceededRow(w, j)
    <2>1. Active(w, j)
      BY <1>SucceededRow DEF SucceededRow, Active, Owns, Settling
    <2>2. run'[w][j].pc = "succeededJob"
      BY <1>SucceededRow, <1>pcs, GotoStep DEF SucceededRow
    <2>3. /\ rows'[j][attempt[j]] = "succeeded" /\ status' = status
          /\ \A k \in Jobs : k # j => rows'[k] = rows[k]
          /\ \A n \in Attempts : n # attempt[j] => rows'[j][n] = rows[j][n]
      BY <1>SucceededRow, <1>a, <1>d, <2>1, SetRowStep DEF SucceededRow, ActiveSound
    <2>4. RowKnown(w, j)'
      BY <1>SucceededRow, <1>a, <2>1, <2>2, <2>3 DEF SucceededRow, RowKnown, ActiveSound, Settling
    <2>5. RowsInv'
      BY <1>SucceededRow, <1>a, <1>b, <1>pcs, <2>1, <2>3, <2>4, GotoStep, RowsRule
      DEF SucceededRow, RowKnown, ActiveSound, Settling
    <2>6. Kept
      BY <1>SucceededRow, <1>a, <1>d, <2>1, <2>3 DEF SucceededRow, RowKnown, ActiveSound, Settling, Terminal
    <2>. QED  BY <2>5, <2>6
  <1>SucceededJob. CASE SucceededJob(w, j)
    <2>1. Active(w, j)
      BY <1>SucceededJob DEF SucceededJob, Active, Owns, Settling
    <2>2. run'[w][j].pc = "succeededEvent"
      BY <1>SucceededJob, <1>pcs, GotoStep DEF SucceededJob
    <2>3. /\ status'[j] = "succeeded" /\ rows' = rows
          /\ \A k \in Jobs : k # j => status'[k] = status[k]
      BY <1>SucceededJob, SetStatusStep DEF SucceededJob
    <2>4. RowKnown(w, j)'
      BY <1>SucceededJob, <1>a, <2>1, <2>2, <2>3 DEF SucceededJob, RowKnown, ActiveSound, Settling
    <2>5. RowsInv'
      BY <1>SucceededJob, <1>a, <1>b, <1>pcs, <2>1, <2>3, <2>4, GotoStep, RowsRule
      DEF SucceededJob, RowKnown, ActiveSound, Settling
    <2>6. Kept
      BY <1>SucceededJob, <1>a, <1>d, <2>1, <2>3 DEF SucceededJob, RowKnown, ActiveSound, Settling, Terminal
    <2>. QED  BY <2>5, <2>6
  <1>SucceededEvent. CASE SucceededEvent(w, j)
    <2>1. Active(w, j)
      BY <1>SucceededEvent DEF SucceededEvent, Active, Owns, Settling
    <2>2. run'[w][j].pc = "resume"
      BY <1>SucceededEvent, <1>pcs, GotoStep DEF SucceededEvent
    <2>3. status' = status /\ rows' = rows
      BY <1>SucceededEvent DEF SucceededEvent
    <2>4. RowKnown(w, j)'
      BY <1>SucceededEvent, <1>a, <2>1, <2>2, <2>3 DEF SucceededEvent, RowKnown, ActiveSound, Settling
    <2>5. RowsInv'
      BY <1>SucceededEvent, <1>a, <1>b, <1>pcs, <2>1, <2>3, <2>4, GotoStep, RowsRule
      DEF SucceededEvent, RowKnown, ActiveSound, Settling
    <2>6. Kept
      BY <1>SucceededEvent, <1>a, <1>d, <2>1, <2>3 DEF SucceededEvent, RowKnown, ActiveSound, Settling, Terminal
    <2>. QED  BY <2>5, <2>6
  <1>FailedRow. CASE FailedRow(w, j)
    <2>1. Active(w, j)
      BY <1>FailedRow DEF FailedRow, Active, Owns, Settling
    <2>2. run'[w][j].pc = "failedJob"
      BY <1>FailedRow, <1>pcs, GotoStep DEF FailedRow
    <2>3. /\ rows'[j][attempt[j]] = "failed" /\ status' = status
          /\ \A k \in Jobs : k # j => rows'[k] = rows[k]
          /\ \A n \in Attempts : n # attempt[j] => rows'[j][n] = rows[j][n]
      BY <1>FailedRow, <1>a, <1>d, <2>1, SetRowStep DEF FailedRow, ActiveSound
    <2>4. RowKnown(w, j)'
      BY <1>FailedRow, <1>a, <2>1, <2>2, <2>3 DEF FailedRow, RowKnown, ActiveSound, Settling
    <2>5. RowsInv'
      BY <1>FailedRow, <1>a, <1>b, <1>pcs, <2>1, <2>3, <2>4, GotoStep, RowsRule
      DEF FailedRow, RowKnown, ActiveSound, Settling
    <2>6. Kept
      BY <1>FailedRow, <1>a, <1>d, <2>1, <2>3 DEF FailedRow, RowKnown, ActiveSound, Settling, Terminal
    <2>. QED  BY <2>5, <2>6
  <1>FailedJob. CASE FailedJob(w, j)
    <2>1. Active(w, j)
      BY <1>FailedJob DEF FailedJob, Active, Owns, Settling
    <2>2. run'[w][j].pc = "failedEvent"
      BY <1>FailedJob, <1>pcs, GotoStep DEF FailedJob
    <2>3. /\ status'[j] = "failed" /\ rows' = rows
          /\ \A k \in Jobs : k # j => status'[k] = status[k]
      BY <1>FailedJob, SetStatusStep DEF FailedJob
    <2>4. RowKnown(w, j)'
      BY <1>FailedJob, <1>a, <2>1, <2>2, <2>3 DEF FailedJob, RowKnown, ActiveSound, Settling
    <2>5. RowsInv'
      BY <1>FailedJob, <1>a, <1>b, <1>pcs, <2>1, <2>3, <2>4, GotoStep, RowsRule
      DEF FailedJob, RowKnown, ActiveSound, Settling
    <2>6. Kept
      BY <1>FailedJob, <1>a, <1>d, <2>1, <2>3 DEF FailedJob, RowKnown, ActiveSound, Settling, Terminal
    <2>. QED  BY <2>5, <2>6
  <1>. HIDE DEF Kept
  <1>. QED
    BY <1>Receive, <1>Claim, <1>leave, <1>ReadDependency, <1>VisitWaiting, <1>never,
       <1>FindWaiting, <1>StartAttemptRow, <1>StartAttemptJob, <1>StartedEvent, <1>Work,
       <1>WorkFails, <1>RecordOutputs, <1>ArtifactEvent, <1>SucceededRow, <1>SucceededJob,
       <1>SucceededEvent, <1>FailedRow, <1>FailedJob
    DEF RunStep


LEMMA RowsInvBroker ==
    ASSUME TypeOK, RowsInv, NEW w \in Workers,
           \/ \E j \in Jobs : Deliver(w, j)
           \/ Acknowledge(w) \/ Crash(w) \/ Redeliver(w)
    PROVE  RowsInv'
  <1>. USE DEF store, broker
  <1>0. ASSUME NEW h \in Hazards, Strike(h)
        PROVE  h # "storeError" /\ budget'["storeError"] = 0
    BY <1>0 DEF Strike, RowsInv, TypeOK, Hazards
  <1>b. budget["storeError"] = 0 /\ {"crash", "visibilityTimeout"} \subseteq Hazards
    BY DEF RowsInv, Hazards
  <1>1. ASSUME NEW j \in Jobs, Deliver(w, j) PROVE RowsInv'
    <2>1. Goto(w, j, "receive") /\ "receive" \in RunPc
      BY <1>1 DEF Deliver, Goto, RunPc, BeforeTry
    <2>. QED  BY <1>1, <1>b, <2>1, GotoStep, RowsQuietRule DEF Deliver
  <1>2. CASE Acknowledge(w)
    BY <1>2, <1>b, RowsQuietRule DEF Acknowledge
  <1>3. CASE Crash(w)
    <2>1. \A u \in Workers, k \in Jobs :
              run'[u][k] = run[u][k] \/ run'[u][k].pc = "idle"
      BY <1>3 DEF Crash, TypeOK, IdleFrame
    <2>. QED  BY <1>0, <1>3, <1>b, <2>1, RowsQuietRule DEF Crash
  <1>4. CASE Redeliver(w)
    BY <1>0, <1>4, <1>b, RowsQuietRule DEF Redeliver
  <1>. QED  BY <1>1, <1>2, <1>3, <1>4

\* Without store errors no statement of run raises.
LEMMA RowsInvRaise ==
    ASSUME RowsInv, NEW w \in Workers, NEW j \in Jobs
    PROVE  ~Raise(w, j)
  BY DEF RowsInv, Raise, RaiseInTry, RaiseToCaller, RaiseFromTask, Strike

LEMMA RowsInvClient ==
    ASSUME TypeOK, OwnerInv, RowsInv, NEW c \in Clients, ClientCall(c)
    PROVE  RowsInv' /\ rows' = rows
  <1>. USE DEF store, broker
  <1>0. api[c].pc # "idle" =>
            api[c].job \in Jobs /\ api[c].attempt \in 0 .. MaxAttempt - 1
    BY DEF TypeOK, Request, NoRequest
  <1>a. ASSUME NEW h \in Hazards, Strike(h) PROVE budget'["storeError"] = 0
    BY <1>a DEF Strike, RowsInv, TypeOK, Hazards
  <1>b. budget["storeError"] = 0 /\ {"cancel", "apiCrash"} \subseteq Hazards
    BY DEF RowsInv, Hazards
  <1>1. ASSUME NEW j \in Jobs, Submit(c, j) PROVE RowsInv' /\ rows' = rows
    <2>1. \A w \in Workers : ~Active(w, j)
      BY <1>1 DEF Submit, OwnerInv, ActiveSound
    <2>2. \A k \in Jobs : status'[k] = IF k = j THEN "queued" ELSE status[k]
      BY <1>1, SetStatusStep DEF Submit
    <2>. QED  BY <1>1, <1>b, <2>1, <2>2, RowsClientRule DEF Submit
  <1>2. ASSUME NEW j \in Jobs, CancelRead(c, j) \/ RetryRead(c, j)
        PROVE  RowsInv' /\ rows' = rows
    BY <1>2, <1>a, <1>b, RowsClientRule DEF CancelRead, RetryRead
  <1>3. CASE QueuedEvent(c) \/ Enqueue(c) \/ CancelEvent(c) \/ RetryEvent(c)
               \/ AbandonRequest(c)
    BY <1>3, <1>a, <1>b, RowsClientRule
    DEF QueuedEvent, Enqueue, CancelEvent, RetryEvent, AbandonRequest
  <1>4. CASE CancelWrite(c)
    BY <1>0, <1>4, <1>b, SetStatusStep, RowsClientRule DEF CancelWrite
  <1>5. CASE RetryWrite(c)
    <2>. DEFINE j == api[c].job
    <2>1. /\ j \in Jobs
          /\ \A w \in Workers : ~Active(w, j)
          /\ api[c].attempt = attempt[j]
      BY <1>0, <1>5 DEF RetryWrite, OwnerInv, RetrySound
    <2>2. attempt[j] + 1 \in Attempts
      BY <1>0, <1>5, <2>1, ConstantsAssumption DEF RetryWrite, Attempts
    <2>3. \A k \in Jobs : status'[k] = IF k = j THEN "queued" ELSE status[k]
      BY <1>5, <2>1, SetStatusStep DEF RetryWrite
    <2>4. \A k \in Jobs : attempt'[k] = IF k = j THEN attempt[j] + 1 ELSE attempt[k]
      BY <1>5, <2>1 DEF RetryWrite, TypeOK
    <2>. QED  BY <1>5, <1>b, <2>1, <2>2, <2>3, <2>4, RowsClientRule DEF RetryWrite
  <1>. QED
    BY <1>1, <1>2, <1>3, <1>4, <1>5 DEF ClientCall, ClientStep

LEMMA RowsInvNext ==
    ASSUME TypeOK, NoDependencies, OwnerInv, RowsInv, [Next]_vars
    PROVE  /\ RowsInv'
           /\ \A k \in Jobs, n \in Attempts :
                rows[k][n] \in {"succeeded", "failed"} => rows'[k][n] = rows[k][n]
  <1>1. ASSUME NEW c \in Clients, ClientCall(c) PROVE RowsInv' /\ rows' = rows
    BY <1>1, RowsInvClient
  <1>2. ASSUME NEW w \in Workers, NEW j \in Jobs, RunStep(w, j)
        PROVE  /\ RowsInv'
               /\ \A k \in Jobs, n \in Attempts :
                    rows[k][n] \in {"succeeded", "failed"} => rows'[k][n] = rows[k][n]
    BY <1>2, RowsInvRun
  <1>3. ASSUME NEW w \in Workers,
               \/ \E j \in Jobs : Deliver(w, j)
               \/ Acknowledge(w) \/ Crash(w) \/ Redeliver(w)
        PROVE  RowsInv' /\ rows' = rows
    BY <1>3, RowsInvBroker DEF Deliver, Acknowledge, Crash, Redeliver, store
  <1>4. CASE UNCHANGED vars
    <2>1. RowsInv'
      BY <1>4, RowsQuietRule DEF vars, RowsInv
    <2>. QED  BY <1>4, <2>1 DEF vars
  <1>. QED  BY <1>1, <1>2, <1>3, <1>4, RowsInvRaise DEF Next, WorkerStep

LEMMA RowsInvInit ==
    ASSUME NoStoreErrors, Init
    PROVE  OwnerInv /\ RowsInv
  <1>1. OwnerInv
    BY DEF Init, IdleFrame, NoRequest, OwnerInv, Plain, ActiveSound, RetrySound,
           Active, Owns, Settling, ResultOfLastAttempt
  <1>2. RowsInv
    BY ConstantsAssumption
    DEF Init, IdleFrame, NoStoreErrors, RowsInv, RowsAgree, RowKnown, Attempts
  <1>. QED  BY <1>1, <1>2

\* The attempts row of a job that is over says what its jobs row says, through
\* crashes, redeliveries, retries and cancellations: finish_attempt writes the
\* attempts row first, and nobody else writes it in between.
THEOREM RowsAgreeAlways ==
    ASSUME NoDependencies, OneRetrier, NoStoreErrors
    PROVE  Spec => []RowsAgree
  <1>1. Init => OwnerInv /\ RowsInv
    BY RowsInvInit
  <1>2. TypeOK /\ OwnerInv /\ RowsInv /\ [Next]_vars => OwnerInv' /\ RowsInv'
    BY OwnerInvNext, RowsInvNext
  <1>3. RowsInv => RowsAgree
    BY DEF RowsInv
  <1>. QED  BY <1>1, <1>2, <1>3, TypeCorrect, PTL DEF Spec

\* Under the same hypotheses the row of an attempt that has succeeded or
\* failed is written by no later step.
THEOREM SettledRowsStayAlways ==
    ASSUME NoDependencies, OneRetrier, NoStoreErrors
    PROVE  Spec => SettledRowsStay
  <1>. DEFINE Stay == \A j \in Jobs, n \in Attempts :
                  rows[j][n] \in {"succeeded", "failed"} => rows'[j][n] = rows[j][n]
  <1>1. Init => OwnerInv /\ RowsInv
    BY RowsInvInit
  <1>2. TypeOK /\ OwnerInv /\ RowsInv /\ [Next]_vars => OwnerInv' /\ RowsInv'
    BY OwnerInvNext, RowsInvNext
  <1>3. TypeOK /\ OwnerInv /\ RowsInv /\ [Next]_vars => Stay
    BY RowsInvNext
  <1>4. Spec => [][Stay]_vars
    <2>. HIDE DEF Stay
    <2>. QED  BY <1>1, <1>2, <1>3, TypeCorrect, PTL DEF Spec
  <1>. QED  BY <1>4 DEF SettledRowsStay

\* A job that says succeeded offers the artifacts of its last attempt.
COROLLARY ResultOfLastAttemptAlways ==
    ASSUME NoDependencies, OneRetrier
    PROVE  Spec => []ResultOfLastAttempt
  BY OneOwnerAlways, PTL

=============================================================================
