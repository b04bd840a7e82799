------------------------------- MODULE MCJobs -------------------------------
(***************************************************************************)
(* Instances of JobLifecycle for TLC: dependency graphs and budgets.       *)
(***************************************************************************)
EXTENDS JobLifecycle

CONSTANTS a, b, c

\* One job alone; a prerequisite of one job, of two; and a diamond, in which
\* c waits for a and for b, which itself waits for a.
Alone == [j \in Jobs |-> {}]
Chain == [j \in Jobs |-> IF j = b THEN {a} ELSE {}]
Fork == [j \in Jobs |-> IF j = a THEN {} ELSE {a}]
Diamond == [j \in Jobs |-> CASE j = a -> {} [] j = b -> {a} [] j = c -> {a, b}]

Once(hazards) == [h \in Hazards |-> IF h \in hazards THEN 1 ELSE 0]
NoHazard == {Once({})}
CrashOnce == {Once({"crash"})}

\* What may happen to a job beside a job it waits for.
Mishaps == {Once({"cancel", "crash", "visibilityTimeout"}),
            Once({"cancel", "storeError"})}
=============================================================================
