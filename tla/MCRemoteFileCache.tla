------------------------- MODULE MCRemoteFileCache --------------------------
(* Instances of RemoteFileCache for TLC.                                   *)
EXTENDS RemoteFileCache, TLC

Symmetry == Permutations(Cli)
=============================================================================
