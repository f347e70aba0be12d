----------------------------- MODULE MCTunnels -----------------------------
(* Instances of Tunnels for TLC.                                           *)
EXTENDS TunnelsRefinement, TLC

CONSTANTS a, b

(* Two contexts whose hashes fall on one port of the range.                *)
CollidingHash == a :> 3 @@ b :> 5
(* Two contexts with a port each.                                          *)
DistinctHash  == a :> 3 @@ b :> 4
(* One context.                                                            *)
OneHash       == a :> 3

Symmetry == Permutations(Pid) \cup Permutations(Cli)

(* With CollidingHash the contexts differ in nothing but their names.      *)
CollidingSymmetry == Symmetry \cup Permutations(Ctx)
=============================================================================
