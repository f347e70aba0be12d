-------------------------- MODULE MCServiceDiscovery --------------------------
(* ServiceDiscovery for TLC: for every product Services of each rank, with *)
(* ports of the kinds the port rankings tell apart, with and without a     *)
(* NodePort.                                                               *)
EXTENDS ServiceDiscovery

Look(label, name, ns) == [label |-> label, name |-> name, ns |-> ns]
MCLooks ==
  {Look("own", "other", "other"), Look("app", "other", "other"),
   Look("other", "own", "own"), Look("other", "own", "other"),
   Look("other", "part", "own"), Look("other", "part", "other"),
   Look("other", "other", "own"), Look("other", "other", "part")}

Port(name, port, nodePort) == [name |-> name, port |-> port, nodePort |-> nodePort]
MCPortLists ==
  {<<Port("http", 80, 31080), Port("https", 443, 31443)>>,
   <<Port("other", 9093, 0), Port("http", 8481, 31481)>>,
   <<Port("other", 9093, 31093), Port("other", 8428, 31428)>>,
   <<Port("http", 443, 0)>>}
=============================================================================
