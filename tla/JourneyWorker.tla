---------------------------- MODULE JourneyWorker ----------------------------
(***************************************************************************)
(* A journey worker runs one of two engines, which JOURNEY_ENGINE chooses  *)
(* when the process starts (index.js): journeytest drives a browser with a *)
(* model, whose reasoning is captured; the fixture simulates the journey   *)
(* and has its evidence analysed by the eyeson worker.                     *)
(***************************************************************************)
EXTENDS ReasoningCapture

CONSTANTS Runs, Inputs, Batches, BatchRun, Requests, Concurrency, Nothing

\* AnalysisQueue takes at least one analysis at a time.
ASSUME FixtureAssumption ==
    /\ Concurrency \in Nat \ {0}
    /\ Runs \cap Batches = {}
    /\ BatchRun \in [Batches -> Runs]
    /\ Requests \subseteq [candidates : Seq(STRING), budget : Int]
    /\ \A input \in Inputs : input.steps \in Seq({"good", "none", "unusable"})
    /\ Nothing \notin {"pending", "completed", "failed"}

VARIABLES engine, runs, batches, configured, calls, answers, pending, byRun

Fixture == INSTANCE EvidenceFlow

fixtureVars == <<runs, batches, configured, calls, answers, pending, byRun>>
workerVars == <<engine, vars, fixtureVars>>

WorkerInit ==
    /\ engine \in {"fixture", "journeytest"}
    /\ Init /\ Fixture!Init
    /\ engine = "journeytest" => ~configured    \* it asks for no analysis of its own

\* runJourney hands the run to the engine of the process.
WorkerNext ==
    \/ engine = "journeytest" /\ Next /\ UNCHANGED <<engine, fixtureVars>>
    \/ engine = "fixture" /\ Fixture!Next /\ UNCHANGED <<engine, vars>>

\* The fixture engine's conditions of fairness are idle under the other engine.
WorkerSpec == WorkerInit /\ [][WorkerNext]_workerVars /\ Fixture!Fairness

-----------------------------------------------------------------------------
\* The types of both engines (ReasoningCapture, EvidenceFlow).
WorkerTypeOK == TypeOK /\ Fixture!TypeOK

\* The analyses that run, and those that wait (AnalysisQueue).
WorkConserved == Fixture!WorkConserved

\* Each evidence has its own outcome, once and in order (runJourney).
EvidenceAccounted == Fixture!EvidenceAccounted

\* An answered batch is whole (/v1/evidence-batches).
BatchCovers == Fixture!BatchCovers

\* Every journey and every batch is answered.
EveryoneAnswered == Fixture!EveryoneAnswered
=============================================================================
