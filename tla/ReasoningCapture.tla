--------------------------- MODULE ReasoningCapture ---------------------------
(***************************************************************************)
(* The journeys that run in one journey worker and the capture of their    *)
(* model's reasoning (journeytest.js, reasoningCapture.js).                *)
(*                                                                         *)
(* A journey registers a capture under its run id, becomes the one active  *)
(* run of the process, and asks the model for completions.  A wrapper of   *)
(* fetch tees each answer for the run that is active when it arrives; the  *)
(* copy is read on its own time and its reasoning recorded with the time   *)
(* since the capture began.  A journey that returns takes its capture, in  *)
(* order; one that throws leaves it.  The caller does not wait longer than *)
(* a timeout (executor.py), so that journeys overlap, and may start again  *)
(* under a run id already in use.                                          *)
(***************************************************************************)
EXTENDS Integers, Sequences, FiniteSets, SequencesExt

CONSTANTS
    Journeys,    \* calls of runWithJourneyTest
    RunIds,      \* job and persona
    RunId,       \* RunId[j]: the run id of journey j
    Asks,        \* Asks[j]: bound on the completions of j that carry reasoning
    MaxFailures, \* bound on the journeys that throw
    None         \* no capture, no active run

\* The reasoning of the n-th completion of journey by.
Thought == [by : Journeys, n : Nat \ {0}]
Recorded == [by : Journeys, n : Nat \ {0}, elapsedMs : Nat]
Capture == [startedAt : Nat, thoughts : Seq(Recorded)]
Mirror == [by : Journeys, n : Nat \ {0}, runId : RunIds, at : Nat, wrapper : Nat]

ASSUME CaptureAssumption ==
    /\ RunId \in [Journeys -> RunIds]
    /\ Asks \in [Journeys -> Nat]
    /\ MaxFailures \in Nat
    /\ None \notin RunIds \cup Capture

VARIABLES
    journey,     \* where each journey is
    asked,       \* the completions each journey has asked for
    inFlight,    \* is the last of them unanswered?
    installed,   \* the wrappers of fetch
    captures,    \* the capture registered under each run id
    activeRunId,
    clock,       \* Date.now(): the answers so far, of all journeys
    mirrors,     \* the copies of answers that are being read
    report,      \* the reasoning each journey has returned
    failures,
    overlapped,  \* history: the journeys that shared some time with another
    late         \* history: the thoughts not read yet when their journey ended

vars == <<journey, asked, inFlight, installed, captures, activeRunId, clock,
          mirrors, report, failures, overlapped, late>>

-----------------------------------------------------------------------------
TypeOK ==
    /\ journey \in [Journeys -> {"new", "running", "returned", "failed"}]
    /\ asked \in [Journeys -> Nat] /\ \A j \in Journeys : asked[j] <= Asks[j]
    /\ inFlight \in [Journeys -> BOOLEAN]
    /\ installed \in Nat
    /\ captures \in [RunIds -> Capture \cup {None}]
    /\ activeRunId \in RunIds \cup {None}
    /\ clock \in Nat
    /\ mirrors \subseteq Mirror
    /\ report \in [Journeys -> Seq(Recorded)]
    /\ failures \in 0 .. MaxFailures
    /\ overlapped \subseteq Journeys
    /\ late \subseteq Thought

Init ==
    /\ journey = [j \in Journeys |-> "new"]
    /\ asked = [j \in Journeys |-> 0]
    /\ inFlight = [j \in Journeys |-> FALSE]
    /\ installed = 0
    /\ captures = [r \in RunIds |-> None]
    /\ activeRunId = None
    /\ clock = 0
    /\ mirrors = {}
    /\ report = [j \in Journeys |-> <<>>]
    /\ failures = MaxFailures
    /\ overlapped = {}
    /\ late = {}

-----------------------------------------------------------------------------
Running == {j \in Journeys : journey[j] = "running"}

\* Journeys over, of which a completion is still unanswered or unread.
Lingering == {j \in Journeys \ Running : inFlight[j] \/ \E m \in mirrors : m.by = j}

Unread(j) == {[by |-> m.by, n |-> m.n] : m \in {x \in mirrors : x.by = j}}

\* Mutant of InstallReasoningCapture: the wrappers stack.
InstallEachTime == installed' = installed + 1

InstallReasoningCapture == installed' = IF installed = 0 THEN 1 ELSE installed

\* startRunCapture, and the call of journeytest-core's runJourney.
Start(j) ==
    /\ journey[j] = "new"
    /\ journey' = [journey EXCEPT ![j] = "running"]
    /\ InstallReasoningCapture
    /\ captures' = [captures EXCEPT ![RunId[j]] = [startedAt |-> clock, thoughts |-> <<>>]]
    /\ activeRunId' = RunId[j]
    /\ overlapped' = overlapped \cup Running
                       \cup (IF Running \cup Lingering = {} THEN {} ELSE {j})
    /\ UNCHANGED <<asked, inFlight, clock, mirrors, report, failures, late>>

\* The director calls fetch.
Ask(j) ==
    /\ j \in Running
    /\ ~ inFlight[j]
    /\ asked[j] < Asks[j]
    /\ asked' = [asked EXCEPT ![j] = asked[j] + 1]
    /\ inFlight' = [inFlight EXCEPT ![j] = TRUE]
    /\ UNCHANGED <<journey, installed, captures, activeRunId, clock, mirrors, report,
                   failures, overlapped, late>>

\* capturingFetch, after its await: the run that is active now, if registered.
RunToCredit == {r \in RunIds : r = activeRunId /\ captures[r] # None}

\* The answer arrives: every wrapper tees it, and the director goes on.
Answer(j) ==
    /\ inFlight[j]
    /\ inFlight' = [inFlight EXCEPT ![j] = FALSE]
    /\ clock' = clock + 1
    /\ mirrors' = mirrors \cup
         [by : {j}, n : {asked[j]}, runId : RunToCredit, at : {clock + 1},
          wrapper : 1 .. installed]
    /\ UNCHANGED <<journey, asked, installed, captures, activeRunId, report, failures,
                   overlapped, late>>

\* record: the thought, and the time since the capture under its id began.
Elapsed(m) ==
    LET since == captures[m.runId].startedAt
    IN  IF m.at > since THEN m.at - since ELSE 0

Record(m) ==
    captures' = [captures EXCEPT ![m.runId].thoughts =
                   Append(@, [by |-> m.by, n |-> m.n, elapsedMs |-> Elapsed(m)])]

\* drain has read its copy; a capture that is gone records nothing.
Drain(m) ==
    /\ m \in mirrors
    /\ mirrors' = mirrors \ {m}
    /\ IF captures[m.runId] = None THEN UNCHANGED captures ELSE Record(m)
    /\ UNCHANGED <<journey, asked, inFlight, installed, activeRunId, clock, report,
                   failures, overlapped, late>>

Earlier(x, y) == x.elapsedMs < y.elapsedMs

\* Mutant of InOrder: as recorded.
AsRecorded(thoughts) == thoughts

\* sort is stable: thoughts of the same time stay as recorded.
Before(thoughts, i) ==
    {k \in DOMAIN thoughts : \/ Earlier(thoughts[k], thoughts[i])
                             \/ ~ Earlier(thoughts[i], thoughts[k]) /\ k < i}

InOrder(thoughts) ==
    [place \in DOMAIN thoughts |->
        thoughts[CHOOSE i \in DOMAIN thoughts : Cardinality(Before(thoughts, i)) = place - 1]]

\* Mutant of TakeRunReasoning: the capture of the active run is taken.
TakeActive(j, runId) ==
    /\ report' = [report EXCEPT ![j] =
         IF captures[runId] = None THEN <<>> ELSE InOrder(captures[runId].thoughts)]
    /\ captures' = [r \in RunIds |-> IF r = activeRunId THEN None ELSE captures[r]]
    /\ activeRunId' = None

TakeRunReasoning(j, runId) ==
    /\ report' = [report EXCEPT ![j] =
         IF captures[runId] = None THEN <<>> ELSE InOrder(captures[runId].thoughts)]
    /\ captures' = [captures EXCEPT ![runId] = None]
    /\ activeRunId' = IF activeRunId = runId THEN None ELSE activeRunId

\* journeytest-core's runJourney returns: the result carries the reasoning.
Return(j) ==
    /\ j \in Running
    /\ ~ inFlight[j]
    /\ journey' = [journey EXCEPT ![j] = "returned"]
    /\ TakeRunReasoning(j, RunId[j])
    /\ late' = late \cup Unread(j)
    /\ UNCHANGED <<asked, inFlight, installed, clock, mirrors, failures, overlapped>>

\* It throws, perhaps with a completion unanswered: the capture stays.
Throw(j) ==
    /\ j \in Running
    /\ failures > 0
    /\ failures' = failures - 1
    /\ journey' = [journey EXCEPT ![j] = "failed"]
    /\ UNCHANGED <<asked, inFlight, installed, captures, activeRunId, clock, mirrors,
                   report, overlapped, late>>

-----------------------------------------------------------------------------
Next ==
    \/ \E j \in Journeys : Start(j) \/ Ask(j) \/ Answer(j) \/ Return(j) \/ Throw(j)
    \/ \E m \in mirrors : Drain(m)

Spec == Init /\ [][Next]_vars

-----------------------------------------------------------------------------
(* Properties.                                                             *)

ThoughtsOf(s) == [i \in DOMAIN s |-> [by |-> s[i].by, n |-> s[i].n]]
CaptureOf(r) == IF captures[r] = None THEN <<>> ELSE ThoughtsOf(captures[r].thoughts)

\* A completion's reasoning is in at most one place, a capture or a report,
\* and there once, whichever runs it was credited to.
ThoughtsOnce ==
    LET place == [x \in RunIds \cup Journeys |->
                    IF x \in RunIds THEN CaptureOf(x) ELSE ThoughtsOf(report[x])]
    IN  \A x, y \in RunIds \cup Journeys :
          \A i \in DOMAIN place[x], k \in DOMAIN place[y] :
            place[x][i] = place[y][k] => x = y /\ i = k

\* What j has reported is the reasoning of all its completions that was read
\* by then, in the order the model produced it.
OwnReport(j) ==
    LET told == ThoughtsOf(report[j])
    IN  /\ ToSet(told) = [by : {j}, n : 1 .. asked[j]] \ late
        /\ \A i, k \in DOMAIN told : i < k => told[i].n < told[k].n

\* A journey that shared its time with no other returns its own reasoning,
\* whole, and that of no other journey.
AloneReportsItsOwn ==
    \A j \in Journeys \ overlapped : journey[j] = "returned" => OwnReport(j)

\* While a journey runs the live view finds it, whatever other journeys do,
\* unless another with its run id has returned; and what the live view finds
\* is a journey that runs or one that threw.
LiveView ==
    /\ \A j \in Running :
         \/ captures[RunId[j]] # None
         \/ \E k \in Journeys \ {j} : RunId[k] = RunId[j] /\ journey[k] = "returned"
    /\ \A r \in RunIds : captures[r] # None =>
         \E j \in Journeys : RunId[j] = r /\ journey[j] \in {"running", "failed"}
=============================================================================
