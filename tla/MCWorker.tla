------------------------------- MODULE MCWorker -------------------------------
(***************************************************************************)
(* Instances of JourneyWorker for TLC.                                     *)
(***************************************************************************)
EXTENDS JourneyWorker

CONSTANTS j1, j2, j3, id1, id2, r1, r2, b1, b2

\* Two journeys of one run, as after a retried job, and one of another.
Retried == [j \in Journeys |-> IF j = j3 THEN id2 ELSE id1]
Uneven == [j \in Journeys |-> IF j = j1 THEN 2 ELSE 1]

OnFirstRun == [b \in Batches |-> r1]

Policy == [allowPrivateNetworks |-> FALSE, denied |-> FALSE, allowed |-> TRUE, allowIrreversibleActions |-> FALSE]

Visit(steps) == [steps |-> steps, private |-> FALSE, destructive |-> FALSE, policy |-> Policy]

\* Journeys that are photographed at every step, at some, badly, or refused.
Visits ==
    { Visit(<<"good", "good">>),
      Visit(<<"none", "good", "good">>),
      Visit(<<"good", "unusable">>),
      [Visit(<<"good">>) EXCEPT !.private = TRUE] }

Asked ==
    { [candidates |-> <<"bookmark", "explicit_error", "abandonment">>, budget |-> 2],
      [candidates |-> <<"other", "other">>, budget |-> 0],
      [candidates |-> <<"other">>, budget |-> -1] }
=============================================================================
