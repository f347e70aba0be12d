---------------------------- MODULE MCKubeconfig ----------------------------
(* Instances of Kubeconfig for TLC.                                        *)
EXTENDS Kubeconfig, TLC

Symmetry == Permutations(Cli) \cup Permutations(Ctx) \cup Permutations(Own)

(* No step reads the backup, and no property asks for it once commands     *)
(* have overlapped: states that differ in it only are then one state.      *)
View == <<file, IF overlapped THEN Empty ELSE backup, remote, pc, local,
          history>>
=============================================================================
