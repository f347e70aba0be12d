--------------------------- MODULE ServiceDiscovery ---------------------------
(***************************************************************************)
(* How connect picks, from the Services of a cluster (`kubectl get svc -A  *)
(* -o json`), the one it opens a tunnel to: discoverArgocdService,         *)
(* discoverAlertmanagerService and discoverVictoriaMetricsService.         *)
(*                                                                         *)
(* The picks are pure functions of the list.  The specification lets the   *)
(* cluster gain and lose Services, at any place of the list, so that its   *)
(* properties compare the picks before and after: a connect that comes     *)
(* back reuses the tunnel to the Service an earlier one picked.            *)
(*                                                                         *)
(* Sources: internal/infrastructure/argocd.go, alertmanager.go,            *)
(* victoriametrics.go.                                                     *)
(***************************************************************************)
EXTENDS Integers, SequencesExt

CONSTANTS
  Looks,        \* the labels, names and namespaces Services may have
  PortLists,    \* the lists of ports a Service may have
  MaxServices   \* a bound on the length of the list

(* A name, a namespace and the labels of a Service, as the heuristics of   *)
(* the product that is looked for tell them apart: the name is the one of  *)
(* the product or contains it; the namespace is the one of the product     *)
(* ("argocd", "monitoring", "victoriametrics" or "vm") or contains its     *)
(* name; the label app.kubernetes.io/name is "own", or app=vmsingle "app". *)
Products == {"argocd", "alertmanager", "victoriametrics"}
AllLooks  == [label : {"own", "app", "other"}, name : {"own", "part", "other"},
              ns : {"own", "part", "other"}]
PortNames == {"https", "http", "other"}
Ports     == [name : PortNames, port : Nat, nodePort : Nat]
Service(look, ports) == [label |-> look.label, name |-> look.name,
                         ns |-> look.ns, ports |-> ports]
Services  == {Service(look, ports) : look \in Looks, ports \in PortLists}

ASSUME DiscoveryAssumption ==
  /\ MaxServices \in Nat /\ Looks \subseteq AllLooks
  /\ \A l \in PortLists : l \in Seq(Ports)

VARIABLES
  product,   \* what is looked for
  services   \* the items of the list

listVars == <<product, services>>

-----------------------------------------------------------------------------
(* The ranks: the conditions are listed from rank 1 up, and the highest    *)
(* one that holds counts.                                                  *)
Highest(conditions) ==
  LET held == {r \in DOMAIN conditions : conditions[r]} IN
  IF held = {} THEN 0 ELSE CHOOSE r \in held : \A q \in held : q <= r

argocdServiceRank(s) ==
  Highest(<<s.ns = "part", s.name = "part", s.ns = "own", s.name = "own",
            s.label = "own">>)

alertmanagerServiceRank(s) ==
  LET contains == s.name \in {"own", "part"} IN
  Highest(<<s.ns = "part", contains, contains /\ s.ns = "own",
            s.name = "own", s.name = "own" /\ s.ns = "own", s.label = "own">>)

victoriaMetricsServiceRank(s) ==
  Highest(<<s.ns = "part", s.name = "part", s.ns = "own", s.name = "own",
            s.label = "app", s.label = "own">>)

(* The switch of argocdPortRank looks at the names first: an http port     *)
(* with number 443 has the rank of http.                                   *)
argocdPortRank(p) ==
  Highest(<<TRUE, p.port = 80, p.name = "http",
            p.port = 443 /\ p.name # "http", p.name = "https">>)

alertmanagerPortRank(p) ==
  Highest(<<TRUE, FALSE, p.name = "http", FALSE, p.port = 9093>>)

victoriaMetricsPortRank(p) ==
  Highest(<<TRUE, p.name = "http", p.port = 8481, FALSE, p.port = 8428>>)

ServiceRank(s) ==
  CASE product = "argocd"          -> argocdServiceRank(s)
    [] product = "alertmanager"    -> alertmanagerServiceRank(s)
    [] product = "victoriametrics" -> victoriaMetricsServiceRank(s)

PortRank(p) ==
  CASE product = "argocd"          -> argocdPortRank(p)
    [] product = "alertmanager"    -> alertmanagerPortRank(p)
    [] product = "victoriametrics" -> victoriaMetricsPortRank(p)

-----------------------------------------------------------------------------
(* Mutant: a port without a NodePort is taken for one.                     *)
UsablePortsAny(s, useKubectl) ==
  {i \in DOMAIN s.ports : useKubectl => PortRank(s.ports[i]) > 1}

(* The ports a tunnel can go to.  ssh needs a NodePort; kubectl            *)
(* port-forward takes the port of the Service, but no port of rank 1.      *)
UsablePorts(s, useKubectl) ==
  {i \in DOMAIN s.ports :
     IF useKubectl THEN PortRank(s.ports[i]) > 1 ELSE s.ports[i].nodePort # 0}

(* bestNodePort and its like: the first of the ports of the highest rank.  *)
BestPort(s, useKubectl) ==
  CHOOSE i \in UsablePorts(s, useKubectl) :
    \A j \in UsablePorts(s, useKubectl) :
      \/ PortRank(s.ports[j]) < PortRank(s.ports[i])
      \/ PortRank(s.ports[j]) = PortRank(s.ports[i]) /\ i <= j

Candidates(items, useKubectl) ==
  {i \in DOMAIN items : /\ ServiceRank(items[i]) > 0
                        /\ UsablePorts(items[i], useKubectl) # {}}

(* Mutant: the rank of the port counts before the rank of the Service.     *)
PrecedesByPort(items, useKubectl, i, j) ==
  LET svcRank(k)  == ServiceRank(items[k])
      portRank(k) == PortRank(items[k].ports[BestPort(items[k], useKubectl)])
  IN \/ portRank(i) > portRank(j)
     \/ portRank(i) = portRank(j) /\ svcRank(i) > svcRank(j)
     \/ portRank(i) = portRank(j) /\ svcRank(i) = svcRank(j) /\ i <= j

(* The order the candidates are sorted by.                                 *)
Precedes(items, useKubectl, i, j) ==
  LET svcRank(k)  == ServiceRank(items[k])
      portRank(k) == PortRank(items[k].ports[BestPort(items[k], useKubectl)])
  IN \/ svcRank(i) > svcRank(j)
     \/ svcRank(i) = svcRank(j) /\ portRank(i) > portRank(j)
     \/ svcRank(i) = svcRank(j) /\ portRank(i) = portRank(j) /\ i <= j

(* What a discovery returns: the Service, the port and the transport.      *)
Nothing == [found |-> FALSE]
PickFrom(items, useKubectl) ==
  LET candidates == Candidates(items, useKubectl) IN
  IF candidates = {} THEN Nothing
  ELSE LET best == CHOOSE i \in candidates :
                     \A j \in candidates : Precedes(items, useKubectl, i, j)
           port == items[best].ports[BestPort(items[best], useKubectl)]
       IN [found |-> TRUE, item |-> items[best], useKubectl |-> useKubectl,
           target |-> IF useKubectl THEN port.port ELSE port.nodePort]

(* Alertmanager falls back to a ClusterIP Service; the others do not.      *)
Pick(items) ==
  IF product = "alertmanager" /\ PickFrom(items, FALSE) = Nothing
  THEN PickFrom(items, TRUE) ELSE PickFrom(items, FALSE)

-----------------------------------------------------------------------------
ListInit == product \in Products /\ services = <<>>

(* The product's own label app exists for VictoriaMetrics only.            *)
Meaningful(s) == s.label = "app" => product = "victoriametrics"

AddService ==
  /\ Len(services) < MaxServices
  /\ \E s \in Services : \E n \in 0..Len(services) :
       /\ Meaningful(s)
       /\ services' = InsertAt(services, n + 1, s)
  /\ UNCHANGED product

RemoveService ==
  /\ \E n \in DOMAIN services :
       services' = RemoveAt(services, n)
  /\ UNCHANGED product

ListNext == AddService \/ RemoveService

ListSpec == ListInit /\ [][ListNext]_listVars

-----------------------------------------------------------------------------
(* Properties.                                                             *)

(* What is picked can be reached with the transport that is picked: an ssh *)
(* tunnel goes to a NodePort, kubectl is used only for Alertmanager and    *)
(* only when no Service that looks like one has a NodePort, and then to a  *)
(* port that is a known one (discoverAlertmanagerService, bestNodePort).   *)
PickIsReachable ==
  LET pick == Pick(services) IN
  pick.found =>
    /\ ServiceRank(pick.item) > 0
    /\ ~pick.useKubectl =>
         \E p \in DOMAIN pick.item.ports :
           /\ pick.item.ports[p].nodePort = pick.target
           /\ pick.target # 0
    /\ pick.useKubectl =>
         /\ product = "alertmanager"
         /\ \A i \in DOMAIN services : ServiceRank(services[i]) > 0 =>
              \A p \in DOMAIN services[i].ports :
                services[i].ports[p].nodePort = 0

(* A Service that looks less like the product than the one picked changes  *)
(* nothing, wherever it appears in the list and whatever ports it has, as  *)
(* long as the transport stays: the tunnel of an earlier connect still     *)
(* leads to what a later one picks (the comparison functions of the three  *)
(* discoveries).                                                           *)
LesserServicesDoNotMatter ==
  [][LET old == Pick(services) IN
     \A n \in DOMAIN services' :
       LET added == services'[n] IN
       /\ RemoveAt(services', n) = services
       /\ old.found /\ ServiceRank(added) < ServiceRank(old.item)
       /\ old.useKubectl => UsablePorts(added, FALSE) = {}
       => Pick(services') = old]_listVars
=============================================================================
