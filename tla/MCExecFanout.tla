---------------------------- MODULE MCExecFanout ----------------------------
EXTENDS ExecFanout

(* 1 and 3 are contexts, 2 is 1-argocd and hashes to the port of 3.        *)
MCPortOf == <<1, 2, 2>>
=============================================================================
