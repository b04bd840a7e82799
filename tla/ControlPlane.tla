---------------------------- MODULE ControlPlane ----------------------------
(***************************************************************************)
(* The control plane: its jobs (JobLifecycle) and its artifacts            *)
(* (ArtifactStore).  A job's artifacts are made inside the step Work of    *)
(* its life, and no handler of the artifacts reads or writes the state of  *)
(* a job, so that a behaviour is of one area.                              *)
(***************************************************************************)
EXTENDS JobLifecycle, ArtifactStore

VARIABLE area

controlVars == <<area, vars, storeVars>>

\* Where no job is run there is one budget, whichever it is.
ControlInit ==
    /\ area \in {"jobs", "artifacts"}
    /\ Init /\ StoreInit
    /\ area = "artifacts" => budget = CHOOSE any \in Budgets : TRUE

ControlNext ==
    \/ area = "jobs" /\ Next /\ UNCHANGED <<area, storeVars>>
    \/ area = "artifacts" /\ StoreNext /\ UNCHANGED <<area, vars>>

ControlSpec == ControlInit /\ [][ControlNext]_controlVars
=============================================================================
