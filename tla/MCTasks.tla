------------------------------- MODULE MCTasks -------------------------------
(***************************************************************************)
(* Instances of BackgroundTasks for TLC: a job on its own; two jobs that   *)
(* wait for a third; an artifact that is made beside one that is uploaded; *)
(* the cohort of MCReport.                                                 *)
(***************************************************************************)
EXTENDS BackgroundTasks, MCReport

CONSTANTS a, b, c, s1, a1, a2

Alone == [j \in Jobs |-> {}]
Fork == [j \in Dependents |-> IF j = a THEN {} ELSE {a}]
Losses == {[crash |-> 1, apiCrash |-> 1, visibilityTimeout |-> 1, storeError |-> 0, cancel |-> 0]}

OneSession == [x \in Artifacts |-> s1]
MadeAndUploaded == [x \in Artifacts |-> IF x = a1 THEN {"made"} ELSE {"presigned"}]
=============================================================================
