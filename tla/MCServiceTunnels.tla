--------------------------- MODULE MCServiceTunnels ---------------------------
(* ServiceTunnels for TLC: the port ranges of the code, cut to the few     *)
(* ports that tell distinct and colliding ones apart.                      *)
EXTENDS ServiceTunnels, TLC

CONSTANTS a, b

MCRangeStart == [main |-> 100, argocd |-> 200, alertmanager |-> 300,
                 victoriametrics |-> 400]
MCRangeSize  == [k \in Kinds |-> 10]

(* The ports of ArgoCD collide, the others of the two contexts differ.     *)
MCHash == [n \in Names |-> IF Kind(n) # "argocd" /\ Context(n) = a THEN 1 ELSE 2]

Ssh(target) == [via |-> "ssh", target |-> target]
Kubectl     == [via |-> "kubectl", target |-> 9093]

(* A service that is absent is one that discovery does not find, which it  *)
(* may always do.                                                          *)
MCOffers == [argocd |-> {Ssh(1)}, alertmanager |-> {Ssh(1), Kubectl},
             victoriametrics |-> {Ssh(1)}]

Symmetry == Permutations(Pid)

(* States that differ in nothing a later step or a property sees are one:  *)
(* the variables of a command that has ended, which the next one sets      *)
(* anew, and a lost name under which nothing is open, as the next tunnel   *)
(* of that name makes a new beginning.                                     *)
View ==
  <<offer, pidFile, known, proc,
    IF pc \in Ended THEN <<>> ELSE <<pc, cmd>>,
    {n \in lost : \E p \in Pid : Open(p) /\ proc[p].name = n}>>
=============================================================================
