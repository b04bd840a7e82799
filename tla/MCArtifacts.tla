---------------------------- MODULE MCArtifacts ----------------------------
(***************************************************************************)
(* Instances of ArtifactStore for TLC: all artifacts are of one session.   *)
(***************************************************************************)
EXTENDS ArtifactStore

CONSTANTS s1, a1, a2

OneSession == [a \in Artifacts |-> s1]

\* Any artifact in any way; or one that is made beside one that is uploaded.
AnyWay == [a \in Artifacts |-> Ways]
MadeAndUploaded == [a \in Artifacts |-> IF a = a1 THEN {"made"} ELSE Reserved]
=============================================================================
