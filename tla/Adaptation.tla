------------------------------ MODULE Adaptation ------------------------------
(***************************************************************************)
(* The UI Adaptation tab of the Gradio application (app.py): a chat that   *)
(* revises a prototype turn by turn, and a button that generates one from  *)
(* the solutions selected, each through a ui_adaptation job                *)
(* (apps/api/executor.py).  Several tabs may be open on one session.       *)
(***************************************************************************)
EXTENDS Integers, Sequences, FiniteSets, SequencesExt

CONSTANTS Tabs,
          MaxTurns,        \* bound on the jobs asked for
          MaxTroubles      \* bound on requests and jobs that fail

VARIABLES jobs,            \* the ui_adaptation jobs of the session
          stamped,         \* the prototypes in the order of their created_at, and what each revises
          stored,          \* those whose row is committed
          turn,            \* in each tab, its callback
          shown,           \* in each tab, the prototype it was shown last, 0 for none
          asked, troubles

vars == <<jobs, stamped, stored, turn, shown, asked, troubles>>

Idle == [pc |-> "idle"]

Init ==
    /\ jobs = <<>> /\ stamped = <<>> /\ stored = {}
    /\ turn = [t \in Tabs |-> Idle] /\ shown = [t \in Tabs |-> 0]
    /\ asked = 0 /\ troubles = 0

Ask == asked < MaxTurns /\ asked' = asked + 1
Trouble == troubles < MaxTroubles /\ troubles' = troubles + 1
At(t, pc) == turn[t].pc = pc
Goes(t, callback) == turn' = [turn EXCEPT ![t] = callback]

\* Mutant of Listed: the first of them.
ListedFirst == IF stored = {} THEN 0 ELSE CHOOSE p \in stored : \A q \in stored : p <= q

\* The last of the session's prototypes as list_artifacts orders them, by created_at.
Listed == IF stored = {} THEN 0 ELSE CHOOSE p \in stored : \A q \in stored : q <= p

-----------------------------------------------------------------------------
\* llm_chat_adaptation: a message is sent.
Send(t) ==
    /\ Ask /\ At(t, "idle")
    /\ Goes(t, [pc |-> "list", base |-> 0, job |-> 0, seen |-> shown[t]])
    /\ UNCHANGED <<jobs, stamped, stored, shown, troubles>>

\* generate_full_ui_call: a prototype of its own, which revises none.
Generate(t) ==
    /\ Ask /\ At(t, "idle")
    /\ Goes(t, [pc |-> "create", base |-> 0, job |-> 0, seen |-> 0])
    /\ UNCHANGED <<jobs, stamped, stored, shown, troubles>>

\* The prototypes are listed and the last one's content is fetched.
ReadPrevious(t) ==
    /\ At(t, "list")
    /\ Goes(t, [turn[t] EXCEPT !.pc = "create", !.base = Listed])
    /\ UNCHANGED <<jobs, stamped, stored, shown, asked, troubles>>

\* run_job creates the job, with that content in its metadata.
CreateJob(t) ==
    /\ At(t, "create")
    /\ jobs' = Append(jobs, [base |-> turn[t].base, status |-> "queued", prototype |-> 0])
    /\ Goes(t, [turn[t] EXCEPT !.pc = "wait", !.job = Len(jobs) + 1])
    /\ UNCHANGED <<stamped, stored, shown, asked, troubles>>

\* A request fails, or wait_for_job has waited for too long: the error is
\* shown, and a job that is there goes on.
GivesUp(t) ==
    /\ Trouble /\ turn[t].pc \in {"list", "create", "wait"}
    /\ Goes(t, Idle)
    /\ UNCHANGED <<jobs, stamped, stored, shown, asked>>

\* _ui_adaptation: the model revises the base; without an answer the fallback
\* page, which is designed on nothing, is the result.
Execute(j) ==
    /\ jobs[j].status = "queued"
    /\ \E base \in {0, jobs[j].base} : stamped' = Append(stamped, base)
    /\ jobs' = [jobs EXCEPT ![j] = [@ EXCEPT !.status = "running", !.prototype = Len(stamped) + 1]]
    /\ UNCHANGED <<stored, turn, shown, asked, troubles>>

\* Its artifact's row is committed, after it was given its created_at.
Store(j) ==
    /\ jobs[j].status = "running"
    /\ stored' = stored \cup {jobs[j].prototype}
    /\ jobs' = [jobs EXCEPT ![j].status = "succeeded"]
    /\ UNCHANGED <<stamped, turn, shown, asked, troubles>>

StoreFails(j) ==
    /\ Trouble /\ jobs[j].status = "running"
    /\ jobs' = [jobs EXCEPT ![j].status = "failed"]
    /\ UNCHANGED <<stamped, stored, turn, shown, asked>>

\* The job is over: the reply names its prototype, or the error.
Replies(t) ==
    LET job == jobs[turn[t].job] IN
    /\ At(t, "wait") /\ job.status \in {"succeeded", "failed"}
    /\ shown' = IF job.status = "succeeded" THEN [shown EXCEPT ![t] = job.prototype] ELSE shown
    /\ Goes(t, Idle)
    /\ UNCHANGED <<jobs, stamped, stored, asked, troubles>>

\* poll_for_generated_ui: the newest prototype is shown.
Look(t) ==
    /\ Listed # 0
    /\ shown' = [shown EXCEPT ![t] = Listed]
    /\ UNCHANGED <<jobs, stamped, stored, turn, asked, troubles>>

Next ==
    \/ \E t \in Tabs : Send(t) \/ Generate(t) \/ ReadPrevious(t) \/ CreateJob(t)
                       \/ GivesUp(t) \/ Replies(t) \/ Look(t)
    \/ \E j \in DOMAIN jobs : Execute(j) \/ Store(j) \/ StoreFails(j)

-----------------------------------------------------------------------------
(* Properties *)

\* What a prototype was made from, and what that was made from, and so on.
Lineage ==
    LET of[p \in 0..Len(stamped)] == IF p = 0 THEN {} ELSE {p} \cup of[stamped[p]]
    IN  of

\* "Revise the most recently generated prototype": a turn never goes back
\* behind what its tab had been shown when the message was sent, whatever other
\* tabs and late jobs store meanwhile; and what a prototype descends from was
\* there before it.
TurnsGoForward ==
    /\ \A t \in Tabs : turn[t].pc \in {"create", "wait"} => turn[t].seen <= turn[t].base
    /\ \A p \in stored : Lineage[p] \subseteq stored /\ \A q \in Lineage[p] : q <= p
=============================================================================
