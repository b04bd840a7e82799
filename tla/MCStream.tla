------------------------------ MODULE MCStream ------------------------------
(***************************************************************************)
(* Instances of EventStream for TLC.                                       *)
(***************************************************************************)
EXTENDS EventStream

CONSTANTS j1, j2, k1

\* Both jobs hash to the same key; every client follows j1.
OneKey == [j \in Jobs |-> k1]
First == [c \in Clients |-> j1]
=============================================================================
