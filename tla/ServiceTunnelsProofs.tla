------------------------- MODULE ServiceTunnelsProofs -------------------------
(***************************************************************************)
(* The auxiliary tunnels, for every set of contexts and of pids, whatever  *)
(* the clusters offer: what holds of their types always, and what holds of *)
(* their pid files and ports when the ports are apart.                     *)
(***************************************************************************)
EXTENDS ServiceTunnels, TLAPS

(* No two contexts have one port for Alertmanager.                         *)
AlertmanagerApart ==
  \A x, y \in Ctx :
    LocalPort(<<x, "alertmanager">>) = LocalPort(<<y, "alertmanager">>) => x = y

(* The port ranges of the kinds do not meet.                               *)
KindsApart ==
  \A m, n \in Names : LocalPort(m) = LocalPort(n) => Kind(m) = Kind(n)

-----------------------------------------------------------------------------
(* What TypeOK says of the state other than the processes, and of those.   *)
LEMMA ServicesInOrder ==
  /\ Len(Order) = 3 /\ Len(Order) \in Nat
  /\ \A i \in 1..Len(Order) : Order[i] \in Services
  /\ \A k \in Services : k \in Kinds /\ k # "main"
  /\ Order[1] = "argocd" /\ Order[2] = "alertmanager"
  /\ "alertmanager" \in Services /\ "argocd" \in Services
BY DEF Order, Services, Kinds

LEMMA NamesHaveParts ==
  /\ \A x \in Ctx : \A k \in Kinds :
       <<x, k>> \in Names /\ Kind(<<x, k>>) = k /\ Context(<<x, k>>) = x
  /\ \A n \in Names : /\ n = <<Context(n), Kind(n)>>
                      /\ Kind(n) \in Kinds /\ Context(n) \in Ctx
BY DEF Names, Kind, Context

LEMMA PortIsNat == \A n \in Names : LocalPort(n) \in Nat
<1> SUFFICES ASSUME NEW n \in Names PROVE LocalPort(n) \in Nat
  OBVIOUS
<1>1. /\ RangeStart[Kind(n)] \in Nat /\ RangeSize[Kind(n)] \in Nat \ {0}
      /\ Hash[n] \in Nat
  BY ServiceAssumption, NamesHaveParts
<1>2. Hash[n] % RangeSize[Kind(n)] \in Nat
  BY <1>1
<1> QED BY <1>1, <1>2 DEF LocalPort, PortIn

LEMMA NoProcIsNone ==
  /\ NoProc.state = "none" /\ NoProc \notin Process
  /\ \A r \in Process : /\ r # NoProc
                        /\ r.state \in {"starting", "up", "dying"}
                        /\ r.name \in Names /\ r.via \in {"ssh", "kubectl"}
BY DEF NoProc, Process

Command == [ctx : Ctx, at : 1..Len(Order), want : AnyOffer,
            report : [Services -> Nat]]

(* The service, its name and its port while a command is under way.        *)
LEMMA CommandNames ==
  ASSUME TypeOK
  PROVE  /\ cmd \in Command
         /\ Service \in Services /\ Service = Order[cmd.at]
         /\ Name \in Names /\ Main \in Names
         /\ Kind(Name) = Service /\ Context(Name) = cmd.ctx
         /\ Kind(Main) = "main" /\ Context(Main) = cmd.ctx
         /\ Name = <<cmd.ctx, Service>>
         /\ LocalPort(Name) \in Nat
<1>1. cmd \in Command
  BY DEF TypeOK, Command
<1>2. Service \in Services /\ Service = Order[cmd.at]
  BY <1>1, ServicesInOrder DEF Service, Command
<1>3. "main" \in Kinds /\ Service \in Kinds /\ cmd.ctx \in Ctx
  BY <1>1, <1>2, ServicesInOrder DEF Kinds, Command
<1> QED
  BY <1>1, <1>2, <1>3, NamesHaveParts, PortIsNat DEF Name, Main

LEMMA NewCmdTyped ==
  NewCmd \in Command /\ \A x \in Ctx : [NewCmd EXCEPT !.ctx = x] \in Command
<1>1. (CHOOSE x \in Ctx : TRUE) \in Ctx
  BY ServiceAssumption
<1>2. NoReport \in [Services -> Nat] /\ NoOffer \in AnyOffer
  BY DEF NoReport, AnyOffer
<1>3. 1 \in 1..Len(Order)
  BY ServicesInOrder
<1> QED BY <1>1, <1>2, <1>3 DEF NewCmd, Command

-----------------------------------------------------------------------------
(* Type correctness.                                                       *)
LEMMA NextServiceTyped ==
  ASSUME TypeOK, NEW reported \in BOOLEAN, NEW first \in Steps,
         NEW last \in Ended, NextService(reported, first, last)
  PROVE  pc' \in Steps \cup Ended /\ cmd' \in Command
<1>1. cmd \in Command /\ LocalPort(Name) \in Nat /\ Service \in Services
  BY CommandNames
<1>2. NoOffer \in AnyOffer
  BY DEF AnyOffer
<1>3. \A i \in 1..Len(Order) :
        (IF i < Len(Order) THEN i + 1 ELSE 1) \in 1..Len(Order)
  BY ServicesInOrder
<1>4. cmd.at \in 1..Len(Order) /\ cmd.report \in [Services -> Nat]
  BY <1>1 DEF Command
<1>5. cmd' \in Command
  BY <1>1, <1>2, <1>3, <1>4 DEF Command, NextService
<1> QED BY <1>5 DEF NextService

LEMMA SetUpTyped ==
  ASSUME TypeOK
  PROVE  /\ \A r \in BOOLEAN :
              SetUp(r) => pc' \in Steps \cup Ended /\ cmd' \in Command
         /\ AfterTunnel => pc' \in Steps \cup Ended /\ cmd' \in Command
<1>1. \A r \in BOOLEAN :
        SetUp(r) => pc' \in Steps \cup Ended /\ cmd' \in Command
  BY NextServiceTyped DEF SetUp, Steps, Ended
<1>2. ASSUME AfterTunnel, Service = "argocd"
      PROVE  pc' \in Steps \cup Ended /\ cmd' \in Command
  <2>1. cmd \in Command /\ LocalPort(Name) \in Nat
    BY CommandNames
  <2>2. cmd' \in Command
    BY <1>2, <2>1 DEF Command, AfterTunnel
  <2> QED BY <1>2, <2>2 DEF AfterTunnel, Steps
<1> QED BY <1>1, <1>2 DEF AfterTunnel

(* What Start, a dial and a signal make of a process.                      *)
LEMMA ProcessesTyped ==
  ASSUME TypeOK
  PROVE  /\ \A n \in Names, t \in Nat, via \in {"ssh", "kubectl"},
               state \in {"starting", "up"} :
              Running(n, via, t, state) \in Process
         /\ \A p \in Pid : Alive(p) => /\ Signalled(p) \in {NoProc} \cup Process
                                       /\ proc[p] \in Process
<1>1. \A n \in Names, t \in Nat, via \in {"ssh", "kubectl"},
        state \in {"starting", "up"} : Running(n, via, t, state) \in Process
  BY DEF Running, Process
<1>2. \A p \in Pid : proc[p] \in {NoProc} \cup Process
  BY DEF TypeOK
<1> QED BY <1>1, <1>2 DEF Signalled, Process, Alive

(* The tunnel a command is to open is one that discovery has offered.      *)
OffersHold == \A x \in Ctx : \A k \in Services : offer[x][k] \in Offers[k]
Wanted ==
  pc \in {"check", "dial", "save"} =>
    cmd.want # NoOffer /\ (cmd.want.via = "kubectl" => Service = "alertmanager")

LEMMA WantedStep ==
  ASSUME TypeOK, OffersHold, Wanted, [Next]_vars
  PROVE  OffersHold' /\ Wanted'
<1>1. offer \in [Ctx -> [Services -> AnyOffer]]
  BY DEF TypeOK
<1>2. CASE ClusterChanges
  <2>1. PICK x \in Ctx, k \in Services : \E o \in Offers[k] :
          offer' = [offer EXCEPT ![x][k] = o]
    BY <1>2 DEF ClusterChanges
  <2>2. OffersHold'
    BY <1>1, <2>1 DEF OffersHold
  <2> QED BY <1>2, <2>2 DEF ClusterChanges, Wanted, Service
<1>3. CASE ~ClusterChanges
  <2>1. UNCHANGED offer
    BY <1>3 DEF Next, vars, Connect, StartConnect, FastPath, SecondaryLivePort,
       ConnectMain, Discover, CheckTunnel, DialFails, Dial, SavePid, Login,
       Interrupt, TunnelKillAll, TunnelKill, KillSet, KubectlBinds, ProcessEnds
  <2>2. OffersHold'
    BY <2>1 DEF OffersHold
  <2>3. /\ \A r \in BOOLEAN : SetUp(r) => pc' \in {"discover", "ok"}
        /\ AfterTunnel => pc' \in {"discover", "ok", "login"}
    BY DEF SetUp, NextService, AfterTunnel
  <2>4. CASE Discover /\ pc' = "check"
    <3>1. offer[cmd.ctx][Service] \in Offers[Service]
      BY CommandNames DEF OffersHold, Command
    <3>2. cmd.ctx \in Ctx /\ Service \in Services /\ cmd \in Command
      BY CommandNames DEF Command
    <3>3. /\ cmd' = [cmd EXCEPT !.want = offer[cmd.ctx][Service]]
          /\ offer[cmd.ctx][Service] # NoOffer
      BY <2>3, <2>4 DEF Discover
    <3>4. cmd'.want = offer[cmd.ctx][Service] /\ cmd'.at = cmd.at
      BY <3>2, <3>3 DEF Command
    <3> QED
      BY <2>2, <3>1, <3>2, <3>3, <3>4, ServiceAssumption DEF Wanted, Service
  <2>5. CASE UNCHANGED <<pc, cmd>> \/ Dial \/ (CheckTunnel /\ pc' = "dial")
    <3>1. /\ UNCHANGED cmd
          /\ pc' \in {"check", "dial", "save"} => pc \in {"check", "dial", "save"}
      BY <2>3, <2>5 DEF Dial, CheckTunnel
    <3> QED BY <2>2, <3>1 DEF Wanted, Service
  <2>6. CASE pc' \notin {"check", "dial", "save"}
    BY <2>2, <2>6 DEF Wanted
  <2> QED
    BY <1>3, <2>3, <2>4, <2>5, <2>6
       DEF Next, vars, Connect, StartConnect, FastPath, SecondaryLivePort,
       NextService, ConnectMain, Discover, CheckTunnel, DialFails, Dial,
       SavePid, Login, Interrupt, TunnelKillAll, TunnelKill, KillSet,
       KubectlBinds, ProcessEnds
<1> QED BY <1>2, <1>3

LEMMA ConnectTyped ==
  ASSUME TypeOK, Wanted, Connect
  PROVE  TypeOK'
<1>1. cmd \in Command /\ Name \in Names /\ Main \in Names /\ cmd.ctx \in Ctx
  BY CommandNames DEF Command
<1>2. /\ offer \in [Ctx -> [Services -> AnyOffer]]
      /\ pidFile \in [Names -> Pid \cup {NoPid}] /\ known \in [Ctx -> BOOLEAN]
      /\ proc \in [Pid -> {NoProc} \cup Process]
      /\ pc \in Steps \cup Ended /\ lost \subseteq Names
      /\ \A n \in Names : LostBesides(n) \subseteq Names
  BY DEF TypeOK, LostBesides
<1>3. \A n \in Names : RemoveIfDead(n) => pidFile' \in [Names -> Pid \cup {NoPid}]
  BY <1>2 DEF RemoveIfDead
<1>4. ASSUME NEW n \in Names, NEW p \in Pid, NEW t \in Nat,
             NEW via \in {"ssh", "kubectl"}, NEW state \in {"starting", "up"},
             proc' = [proc EXCEPT ![p] = Running(n, via, t, state)]
      PROVE  proc' \in [Pid -> {NoProc} \cup Process]
  BY <1>2, <1>4, ProcessesTyped
<1>5. CASE \E x \in Ctx : StartConnect(x)
  BY <1>2, <1>5, NewCmdTyped DEF StartConnect, TypeOK, Command, Steps
<1>6. CASE FastPath
  BY <1>1, <1>2, <1>3, <1>6 DEF FastPath, TypeOK, Command, Steps
<1>7. CASE SecondaryLivePort
  <2>1. pc' \in Steps \cup Ended /\ cmd' \in Command
    BY <1>7, NextServiceTyped DEF SecondaryLivePort, Steps, Ended,
       IsTunnelRunning, PortFree
  <2> QED
    BY <1>1, <1>2, <1>3, <1>7, <2>1 DEF SecondaryLivePort, TypeOK, Command
<1>8. CASE ConnectMain
  <2>1. pc' \in Steps \cup Ended /\ known' \in [Ctx -> BOOLEAN]
    BY <1>1, <1>2, <1>8 DEF ConnectMain, Steps, Ended
  <2>2. /\ pidFile' \in [Names -> Pid \cup {NoPid}]
        /\ proc' \in [Pid -> {NoProc} \cup Process]
        /\ lost' \subseteq Names
    <3>1. CASE EnsureMain
      BY <1>1, <1>2, <1>4, <3>1 DEF EnsureMain
    <3>2. CASE ~EnsureMain
      BY <1>1, <1>2, <1>3, <1>8, <3>2 DEF ConnectMain
    <3> QED BY <3>1, <3>2
  <2> QED BY <1>1, <1>2, <1>8, <2>1, <2>2 DEF ConnectMain, TypeOK, Command
<1>9. CASE Discover
  <2>1. CASE SetUp(FALSE)
    BY <1>2, <1>9, <2>1, SetUpTyped DEF Discover, TypeOK, Command
  <2>2. CASE ~SetUp(FALSE)
    <3>1. offer[cmd.ctx][Service] \in AnyOffer
      BY <1>1, <1>2, CommandNames
    <3>2. cmd' \in Command /\ pc' \in Steps
      BY <1>1, <1>9, <2>2, <3>1 DEF Discover, Command, Steps
    <3> QED BY <1>2, <1>9, <3>2 DEF Discover, TypeOK, Command
  <2> QED BY <2>1, <2>2
<1>10. CASE CheckTunnel
  <2>1. pc' \in Steps \cup Ended /\ cmd' \in Command
    BY <1>1, <1>10, SetUpTyped DEF CheckTunnel, Steps
  <2> QED BY <1>1, <1>2, <1>3, <1>10, <2>1 DEF CheckTunnel, TypeOK, Command
<1>11. CASE DialFails
  BY <1>2, <1>11, SetUpTyped DEF DialFails, TypeOK, Command
<1>12. CASE Dial
  <2>1. cmd.want \in AnyOffer /\ cmd.want # NoOffer
    BY <1>1, <1>12 DEF Dial, Wanted, Command
  <2>2. cmd.want.via \in {"ssh", "kubectl"} /\ cmd.want.target \in Nat
    BY <2>1 DEF AnyOffer
  <2>3. proc' \in [Pid -> {NoProc} \cup Process]
    BY <1>1, <1>4, <1>12, <2>2 DEF Dial
  <2> QED BY <1>1, <1>2, <1>12, <2>3 DEF Dial, TypeOK, Command, Steps
<1>13. CASE SavePid
  <2>1. pc' \in Steps \cup Ended /\ cmd' \in Command
    BY <1>13, SetUpTyped DEF SavePid
  <2>2. pidFile' \in [Names -> Pid \cup {NoPid}]
    BY <1>1, <1>2, <1>13 DEF SavePid, Matching
  <2>3. lost' \subseteq Names
    BY <1>1, <1>2, <1>13 DEF SavePid
  <2> QED BY <1>2, <1>13, <2>3, <2>1, <2>2 DEF SavePid, TypeOK, Command
<1>14. CASE Login
  BY <1>2, <1>14, SetUpTyped DEF Login, TypeOK, Command
<1> QED
  BY <1>5, <1>6, <1>7, <1>8, <1>9, <1>10, <1>11, <1>12, <1>13, <1>14 DEF Connect

LEMMA AroundTyped ==
  ASSUME TypeOK, [Next]_vars, ~Connect
  PROVE  TypeOK'
<1>1. /\ offer \in [Ctx -> [Services -> AnyOffer]]
      /\ pidFile \in [Names -> Pid \cup {NoPid}] /\ known \in [Ctx -> BOOLEAN]
      /\ proc \in [Pid -> {NoProc} \cup Process]
      /\ pc \in Steps \cup Ended /\ lost \subseteq Names /\ cmd \in Command
      /\ Name \in Names
  BY CommandNames DEF TypeOK, Command
<1>2. NewCmd \in Command /\ "idle" \in Ended
  BY NewCmdTyped DEF Ended
<1>3. ASSUME NEW names \in SUBSET Names, KillSet(names)
      PROVE  TypeOK'
  <2>1. proc' \in [Pid -> {NoProc} \cup Process]
    <3>1. \A n \in Names : IsTunnelRunning(n) => Alive(pidFile[n])
      BY DEF IsTunnelRunning
    <3> QED BY <1>1, <1>3, <3>1, ProcessesTyped DEF KillSet
  <2>2. pidFile' \in [Names -> Pid \cup {NoPid}]
    BY <1>1, <1>3 DEF KillSet
  <2> QED BY <1>1, <1>2, <1>3, <2>1, <2>2 DEF KillSet, TypeOK, Command
<1>4. CASE Interrupt
  BY <1>1, <1>2, <1>4 DEF Interrupt, TypeOK, Command
<1>5. CASE ClusterChanges
  BY <1>1, <1>5, ServiceAssumption DEF ClusterChanges, TypeOK, Command
<1>6. CASE TunnelKillAll
  BY <1>3, <1>6 DEF TunnelKillAll
<1>7. CASE \E n \in Names : TunnelKill(n)
  BY <1>3, <1>7 DEF TunnelKill
<1>8. ASSUME NEW p \in Pid, KubectlBinds(p)
      PROVE  TypeOK'
  <2>1. proc[p] \in Process
    BY <1>1, <1>8, NoProcIsNone DEF KubectlBinds
  <2>2. [proc[p] EXCEPT !.state = "up"] \in Process
    BY <2>1 DEF Process
  <2>3. proc' = [proc EXCEPT ![p] = [proc[p] EXCEPT !.state = "up"]]
    BY <1>1, <1>8 DEF KubectlBinds
  <2> QED BY <1>1, <1>8, <2>2, <2>3 DEF KubectlBinds, TypeOK, Command
<1>9. ASSUME NEW p \in Pid, ProcessEnds(p)
      PROVE  TypeOK'
  BY <1>1, <1>9 DEF ProcessEnds, TypeOK, Command
<1>10. CASE UNCHANGED vars
  BY <1>1, <1>10 DEF vars, TypeOK, Command
<1> QED
  BY <1>4, <1>5, <1>6, <1>7, <1>8, <1>9, <1>10 DEF Next

TypeInv == TypeOK /\ OffersHold /\ Wanted

LEMMA TypeInitial == Init => TypeInv
<1> SUFFICES ASSUME Init PROVE TypeInv
  OBVIOUS
<1>1. offer \in [Ctx -> [Services -> AnyOffer]] /\ OffersHold
  BY ServiceAssumption DEF Init, OffersHold
<1>2. /\ pidFile \in [Names -> Pid \cup {NoPid}]
      /\ known \in [Ctx -> BOOLEAN] /\ proc \in [Pid -> {NoProc} \cup Process]
  BY DEF Init
<1>3. cmd \in Command /\ pc = "idle" /\ lost = {}
  BY NewCmdTyped DEF Init
<1> QED BY <1>1, <1>2, <1>3 DEF TypeInv, TypeOK, Wanted, Command, Ended

LEMMA TypeInductive == TypeInv /\ [Next]_vars => TypeInv'
BY WantedStep, ConnectTyped, AroundTyped DEF TypeInv

(* The variables of the auxiliary tunnels keep their types, whatever the   *)
(* clusters offer and whenever a command is killed: no service follows the *)
(* last one (the three Setup calls of Connect in cluster.go).              *)
THEOREM ServiceTyped == Spec => []TypeOK
<1>1. TypeInv => TypeOK
  BY DEF TypeInv
<1> QED BY <1>1, TypeInitial, TypeInductive, PTL DEF Spec

-----------------------------------------------------------------------------
(* The port of a process, and the tunnels.                                 *)
Bound(p) == proc[p].state \in {"up", "dying"}
Port(p)  == LocalPort(proc[p].name)

(* A port has one holder; only kubectl is alive without its port.          *)
OneHolder ==
  \A p, q \in Pid : Bound(p) /\ Bound(q) /\ Port(p) = Port(q) => p = q
SshBinds == \A p \in Pid : Alive(p) /\ proc[p].via = "ssh" => Bound(p)
KubectlForAlertmanager ==
  \A p \in Pid : Alive(p) /\ proc[p].via = "kubectl" =>
    Kind(proc[p].name) = "alertmanager" /\ proc[p].state # "dying"

HolderInv == OneHolder /\ SshBinds /\ KubectlForAlertmanager

(* What becomes of the processes in a step: all as they were, one is gone, *)
(* kubectl binds, some are signalled, or one is new.                       *)
Gone(p) == Alive(p) /\ proc' = [proc EXCEPT ![p] = NoProc]
Binds(p) == /\ proc[p].state = "starting" /\ PortFree(Port(p))
            /\ proc' = [proc EXCEPT ![p].state = "up"]
Told(P) == /\ \A p \in P : Alive(p)
           /\ proc' = [p \in Pid |-> IF p \in P THEN Signalled(p) ELSE proc[p]]
New(p, n, via, t, state) ==
  /\ FreshPid(p)
  /\ proc' = [proc EXCEPT ![p] = Running(n, via, t, state)]
  /\ \/ via = "ssh" /\ state = "up" /\ PortFree(LocalPort(n))
     \/ via = "kubectl" /\ state = "starting" /\ Kind(n) = "alertmanager"

Becomes ==
  \/ UNCHANGED proc
  \/ \E p \in Pid : Gone(p) \/ Binds(p)
  \/ \E P \in SUBSET Pid : Told(P)
  \/ /\ Dial \/ ConnectMain
     /\ \E p \in Pid, n \in Names, t \in Nat, via \in {"ssh", "kubectl"},
          state \in {"starting", "up"} :
          New(p, n, via, t, state) /\ Context(n) = cmd.ctx

LEMMA StepBecomes ==
  ASSUME TypeInv, [Next]_vars
  PROVE  Becomes
<1>1. TypeOK /\ Wanted /\ cmd \in Command
  BY CommandNames DEF TypeInv
<1>2. /\ Name \in Names /\ Main \in Names /\ Kind(Name) = Service
      /\ Context(Name) = cmd.ctx /\ Context(Main) = cmd.ctx
  BY <1>1, CommandNames
<1>3. CASE UNCHANGED proc
  BY <1>3 DEF Becomes
<1>4. ASSUME NEW names \in SUBSET Names, KillSet(names)
      PROVE  Becomes
  <2> DEFINE P == {pidFile[n] : n \in {m \in names : IsTunnelRunning(m)}} \cap Pid
  <2>1. Told(P)
    BY <1>4 DEF KillSet, Told, IsTunnelRunning
  <2> QED BY <2>1 DEF Becomes
<1>5. CASE Dial
  <2>1. cmd.want \in AnyOffer \ {NoOffer}
    BY <1>1, <1>5 DEF Wanted, Dial, Command
  <2>2. cmd.want.via \in {"ssh", "kubectl"} /\ cmd.want.target \in Nat
    BY <2>1 DEF AnyOffer
  <2>3. cmd.want.via = "kubectl" => Kind(Name) = "alertmanager"
    BY <1>1, <1>2, <1>5 DEF Wanted, Dial
  <2>4. PICK p \in Pid :
          New(p, Name, cmd.want.via, cmd.want.target,
              IF cmd.want.via = "ssh" THEN "up" ELSE "starting")
    BY <1>5, <2>2, <2>3 DEF Dial, New
  <2> QED BY <1>2, <1>5, <2>2, <2>4 DEF Becomes
<1>6. CASE ConnectMain /\ proc' # proc
  <2>1. \E p \in Pid : New(p, Main, "ssh", 0, "up")
    BY <1>6 DEF ConnectMain, EnsureMain, New
  <2> QED BY <1>2, <1>6, <2>1 DEF Becomes
<1>7. CASE \E p \in Pid : KubectlBinds(p) \/ ProcessEnds(p)
  BY <1>7 DEF KubectlBinds, ProcessEnds, Becomes, Binds, Gone, Port
<1>8. CASE TunnelKillAll \/ \E n \in Names : TunnelKill(n)
  BY <1>4, <1>8 DEF TunnelKillAll, TunnelKill
<1> QED
  BY <1>3, <1>5, <1>6, <1>7, <1>8
     DEF Next, vars, Connect, StartConnect, FastPath, SecondaryLivePort,
     ConnectMain, Discover, CheckTunnel, DialFails, SavePid, Login,
     Interrupt, ClusterChanges

(* No process but a new one gets a name, a transport or a target.          *)
LEMMA KeepsItsTunnel ==
  ASSUME TypeOK, NEW p \in Pid,
         \/ UNCHANGED proc \/ \E q \in Pid : Gone(q) \/ Binds(q)
         \/ \E P \in SUBSET Pid : Told(P)
  PROVE  /\ Alive(p)' => /\ Alive(p) /\ proc'[p].name = proc[p].name
                         /\ proc'[p].via = proc[p].via
                         /\ proc'[p].target = proc[p].target
         /\ Open(p)' => Open(p)
<1>1. proc \in [Pid -> {NoProc} \cup Process]
  BY DEF TypeOK
<1>2. ASSUME NEW q \in Pid, Binds(q)
      PROVE  /\ proc'[q] = [proc[q] EXCEPT !.state = "up"]
             /\ proc[q] \in Process /\ proc[q].state = "starting"
             /\ p # q => proc'[p] = proc[p]
  BY <1>1, <1>2, NoProcIsNone DEF Binds
<1>3. ASSUME NEW q \in Pid, Binds(q)
      PROVE  /\ Alive(p)' => /\ Alive(p) /\ proc'[p].name = proc[p].name
                             /\ proc'[p].via = proc[p].via
                             /\ proc'[p].target = proc[p].target
             /\ Open(p)' => Open(p)
  <2>1. CASE p = q
    <3>1. proc[p] # NoProc
      BY <1>2, <1>3, <2>1, NoProcIsNone
    <3> QED BY <1>2, <1>3, <2>1, <3>1 DEF Alive, Open, Process
  <2> QED BY <1>2, <1>3, <2>1 DEF Alive, Open
<1>4. CASE \E q \in Pid : Gone(q)
  BY <1>1, <1>4, NoProcIsNone DEF Gone, Alive, Open
<1>5. ASSUME NEW P \in SUBSET Pid, Told(P)
      PROVE  /\ Alive(p)' => /\ Alive(p) /\ proc'[p].name = proc[p].name
                             /\ proc'[p].via = proc[p].via
                             /\ proc'[p].target = proc[p].target
             /\ Open(p)' => Open(p)
  <2>1. p \in P => Alive(p) /\ proc'[p] = Signalled(p) /\ proc[p] \in Process
    BY <1>1, <1>5 DEF Told, Alive
  <2>2. p \notin P => proc'[p] = proc[p]
    BY <1>5 DEF Told
  <2> QED
    BY <2>1, <2>2, NoProcIsNone DEF Alive, Open, Signalled, Process
<1> QED BY <1>3, <1>4, <1>5 DEF Alive, Open

LEMMA HolderInitial == Init => HolderInv
<1> SUFFICES ASSUME Init PROVE HolderInv
  OBVIOUS
<1>1. \A p \in Pid : proc[p] = NoProc
  BY DEF Init
<1> QED
  BY <1>1, NoProcIsNone DEF HolderInv, OneHolder, SshBinds,
     KubectlForAlertmanager, Bound, Alive

LEMMA HolderStep ==
  ASSUME TypeInv, HolderInv, [Next]_vars
  PROVE  HolderInv'
<1>1. proc \in [Pid -> {NoProc} \cup Process] /\ TypeOK
  BY DEF TypeInv, TypeOK
<1>2. Becomes
  BY StepBecomes
<1>3. CASE UNCHANGED proc
  BY <1>3 DEF HolderInv, OneHolder, SshBinds, KubectlForAlertmanager, Bound,
     Alive, Port
<1>4. ASSUME NEW r \in Pid, Gone(r)
      PROVE  HolderInv'
  <2>1. \A p \in Pid : p # r => proc'[p] = proc[p]
    BY <1>1, <1>4 DEF Gone
  <2>2. ~Alive(r)' /\ ~Bound(r)'
    BY <1>1, <1>4, NoProcIsNone DEF Gone, Alive, Bound
  <2> QED
    BY <2>1, <2>2 DEF HolderInv, OneHolder, SshBinds, KubectlForAlertmanager,
       Bound, Alive, Port
<1>5. ASSUME NEW r \in Pid, Binds(r)
      PROVE  HolderInv'
  <2>1. /\ proc'[r] = [proc[r] EXCEPT !.state = "up"] /\ proc[r] \in Process
        /\ \A p \in Pid : p # r => proc'[p] = proc[p]
    BY <1>1, <1>5, NoProcIsNone DEF Binds
  <2>2. /\ proc'[r].state = "up" /\ proc'[r].name = proc[r].name
        /\ proc'[r].via = proc[r].via /\ Alive(r) /\ Alive(r)'
    BY <2>1, NoProcIsNone DEF Process, Alive, NoProc
  <2>3. \A p \in Pid : Bound(p) => Port(p) # Port(r)
    BY <1>5 DEF Binds, PortFree, Holds, Bound, Port
  <2>4. OneHolder'
    <3>1. Port(r)' = Port(r) /\ \A p \in Pid : p # r =>
            (Bound(p)' <=> Bound(p)) /\ Port(p)' = Port(p)
      BY <2>1, <2>2 DEF Bound, Port
    <3> QED BY <2>3, <3>1 DEF HolderInv, OneHolder
  <2>5. SshBinds'
    BY <2>1, <2>2 DEF HolderInv, SshBinds, Bound, Alive
  <2>6. KubectlForAlertmanager'
    BY <2>1, <2>2 DEF HolderInv, KubectlForAlertmanager, Alive
  <2> QED BY <2>4, <2>5, <2>6 DEF HolderInv
<1>6. ASSUME NEW P \in SUBSET Pid, Told(P)
      PROVE  HolderInv'
  <2>1. \A p \in Pid : p \notin P => proc'[p] = proc[p]
    BY <1>6 DEF Told
  <2>2. ASSUME NEW p \in P
        PROVE  /\ proc[p] \in Process
               /\ \/ proc[p].via = "kubectl" /\ proc'[p] = NoProc
                  \/ /\ proc[p].via = "ssh"
                     /\ proc'[p] = [proc[p] EXCEPT !.state = "dying"]
    BY <1>1, <1>6, NoProcIsNone DEF Told, Signalled, Alive
  <2>3. ASSUME NEW p \in P
        PROVE  \/ ~Alive(p)' /\ ~Bound(p)'
               \/ /\ proc'[p].name = proc[p].name /\ proc'[p].via = "ssh"
                  /\ proc[p].via = "ssh" /\ Alive(p) /\ Bound(p)'
    BY <2>2, NoProcIsNone DEF Process, Alive, Bound
  <2>4. \A p \in P : p \in Pid
    OBVIOUS
  <2> QED
    BY <2>1, <2>3, <2>4 DEF HolderInv, OneHolder, SshBinds,
       KubectlForAlertmanager, Bound, Alive, Port
<1>7. ASSUME NEW r \in Pid, NEW n \in Names, NEW t \in Nat,
             NEW via \in {"ssh", "kubectl"}, NEW state \in {"starting", "up"},
             New(r, n, via, t, state)
      PROVE  HolderInv'
  <2>1. /\ proc'[r] = Running(n, via, t, state)
        /\ \A p \in Pid : p # r => proc'[p] = proc[p]
    BY <1>1, <1>7 DEF New
  <2>2. proc'[r].state = state /\ proc'[r].name = n /\ proc'[r].via = via
    BY <2>1 DEF Running
  <2>3. \/ via = "kubectl" /\ state = "starting" /\ Kind(n) = "alertmanager"
        \/ /\ via = "ssh" /\ state = "up"
           /\ \A p \in Pid : Bound(p) => Port(p) # LocalPort(n)
    BY <1>7 DEF New, PortFree, Holds, Bound, Port
  <2> QED
    BY <2>1, <2>2, <2>3 DEF HolderInv, OneHolder, SshBinds,
       KubectlForAlertmanager, Bound, Alive, Port
<1> QED BY <1>2, <1>3, <1>4, <1>5, <1>6, <1>7 DEF Becomes

-----------------------------------------------------------------------------
(* The pid files.                                                          *)

(* At the save the command has a tunnel of its own at most, no pid file    *)
(* names it, and it is the one the command has opened, unless one of the   *)
(* name was lost before.                                                   *)
Recorded(p) == pidFile[proc[p].name] = p
Unsaved ==
  /\ pc \in {"dial", "save"} => pidFile[Name] = NoPid
  /\ pc = "dial" /\ Name \notin lost =>
       \A p \in Pid : Open(p) => proc[p].name # Name
  /\ pc = "save" /\ Name \notin lost =>
       \A p, q \in Pid : Open(p) /\ proc[p].name = Name =>
         /\ proc[p].via = cmd.want.via /\ proc[p].target = cmd.want.target
         /\ Open(q) /\ proc[q].name = Name => p = q

FoundInv == ServiceTunnelIsFound /\ Unsaved

(* A step that opens no tunnel, and loses no record of one that is open.   *)
LEMMA RecordsKept ==
  ASSUME FoundInv, pc # "save", pc' \notin {"dial", "save"}, UNCHANGED lost,
         \A p \in Pid : Open(p)' => /\ Open(p) /\ proc'[p].name = proc[p].name
                                    /\ Recorded(p) => Recorded(p)'
  PROVE  FoundInv'
BY DEF FoundInv, ServiceTunnelIsFound, Unsaved, Recorded

LEMMA RemoveIfDeadKeeps ==
  ASSUME TypeOK, NEW n \in Names, RemoveIfDead(n), UNCHANGED proc
  PROVE  /\ \A p \in Pid :
              Open(p)' => /\ Open(p) /\ proc'[p].name = proc[p].name
                          /\ Recorded(p) => Recorded(p)'
         /\ ~IsTunnelRunning(n) => pidFile'[n] = NoPid
<1>1. /\ pidFile \in [Names -> Pid \cup {NoPid}]
      /\ pidFile' = [pidFile EXCEPT ![n] = IF IsTunnelRunning(n)
                                           THEN pidFile[n] ELSE NoPid]
      /\ NoPid \notin Pid
  BY ServiceAssumption DEF TypeOK, RemoveIfDead
<1>2. ASSUME NEW p \in Pid, Open(p), Recorded(p)
      PROVE  Recorded(p)'
  <2>1. Alive(p)
    BY <1>2, NoProcIsNone DEF Open, Alive
  <2>2. proc[p].name = n => IsTunnelRunning(n)
    BY <1>1, <1>2, <2>1 DEF Recorded, IsTunnelRunning
  <2> QED BY <1>1, <1>2, <2>2 DEF Recorded
<1> QED BY <1>1, <1>2 DEF Open

(* A tunnel that is open under a name runs under it.                       *)
LEMMA OpenRuns ==
  ASSUME FoundInv, pc # "save", NEW p \in Pid, Open(p),
         proc[p].name \notin lost
  PROVE  Recorded(p) /\ IsTunnelRunning(proc[p].name)
<1>1. Recorded(p) /\ Alive(p)
  BY NoProcIsNone DEF FoundInv, ServiceTunnelIsFound, Open, Recorded, Alive
<1> QED BY <1>1, ServiceAssumption DEF Recorded, IsTunnelRunning

LEMMA FoundAround ==
  ASSUME TypeInv, FoundInv, UNCHANGED <<pidFile, pc, cmd, lost>>,
         \/ UNCHANGED proc \/ \E q \in Pid : Gone(q) \/ Binds(q)
  PROVE  FoundInv'
<1>1. \A p \in Pid : Open(p)' =>
        /\ Open(p) /\ proc'[p].name = proc[p].name
        /\ proc'[p].via = proc[p].via /\ proc'[p].target = proc[p].target
  BY KeepsItsTunnel, NoProcIsNone DEF TypeInv, Open, Alive
<1>2. ServiceTunnelIsFound'
  BY <1>1 DEF FoundInv, ServiceTunnelIsFound, Name, Service, Open
<1>3. Name' = Name
  BY DEF Name, Service
<1>4. Unsaved'
  BY <1>1, <1>3 DEF FoundInv, Unsaved
<1> QED BY <1>2, <1>4 DEF FoundInv

LEMMA FoundKilled ==
  ASSUME TypeInv, HolderInv, FoundInv, NEW names \in SUBSET Names,
         KillSet(names), pc \in Ended
  PROVE  /\ FoundInv'
         /\ \A p \in Pid : Open(p)' => proc'[p].name \notin names \ lost
<1> DEFINE targets == {pidFile[n] : n \in {m \in names : IsTunnelRunning(m)}}
<1>1. proc \in [Pid -> {NoProc} \cup Process] /\ TypeOK
  BY DEF TypeInv, TypeOK
<1>2. proc' = [p \in Pid |-> IF p \in targets THEN Signalled(p) ELSE proc[p]]
  BY DEF KillSet
<1>3. \A p \in targets : p \in Pid => Alive(p)
  BY DEF IsTunnelRunning
<1>4. ASSUME NEW p \in Pid, Open(p)'
      PROVE  /\ Open(p) /\ proc'[p] = proc[p] /\ p \notin targets
  <2>1. CASE p \in targets
    <3>1. proc'[p] = Signalled(p) /\ proc[p] \in Process
      BY <1>1, <1>2, <1>3, <2>1 DEF Alive
    <3>2. ~Open(p)'
      BY <3>1, NoProcIsNone DEF Signalled, Open, Process
    <3> QED BY <1>4, <3>2
  <2>2. CASE p \notin targets
    BY <1>2, <1>4, <2>2 DEF Open
  <2> QED BY <2>1, <2>2
<1>5. pc # "save"
  BY DEF Ended
<1>6. ASSUME NEW p \in Pid, Open(p)', proc[p].name \notin lost
      PROVE  proc[p].name \notin names
  <2>1. pidFile[proc[p].name] = p /\ IsTunnelRunning(proc[p].name)
    BY <1>4, <1>5, <1>6, OpenRuns DEF Recorded
  <2> QED BY <1>4, <1>6, <2>1
<1>7. \A p \in Pid : Open(p)' /\ Recorded(p) => Recorded(p)'
  <2>1. ASSUME NEW p \in Pid, Open(p)', Recorded(p)
        PROVE  Recorded(p)'
    <3>1. Open(p) /\ proc'[p] = proc[p] /\ proc[p].name \in Names
      BY <1>1, <1>4, <2>1, NoProcIsNone DEF Open
    <3>2. Alive(p) /\ pidFile[proc[p].name] = p /\ NoPid \notin Pid
      BY <2>1, <3>1, NoProcIsNone, ServiceAssumption DEF Open, Alive, Recorded
    <3>3. proc[p].name \notin names
      BY <1>4, <2>1, <3>2 DEF IsTunnelRunning
    <3> QED BY <3>1, <3>2, <3>3 DEF KillSet, Recorded
  <2> QED BY <2>1
<1>8. FoundInv'
  BY <1>4, <1>5, <1>7, RecordsKept DEF KillSet
<1> QED BY <1>4, <1>6, <1>8

(* A new tunnel, which is not in a pid file yet or is the one the step     *)
(* has put there.                                                          *)
LEMMA NewAlone ==
  ASSUME TypeOK, NEW p \in Pid, NEW n \in Names, NEW t \in Nat,
         NEW via \in {"ssh", "kubectl"}, NEW state \in {"starting", "up"},
         FreshPid(p), proc' = [proc EXCEPT ![p] = Running(n, via, t, state)]
  PROVE  /\ proc'[p] = Running(n, via, t, state)
         /\ proc'[p].name = n /\ proc'[p].via = via /\ proc'[p].target = t
         /\ proc'[p].state = state
         /\ \A q \in Pid : q # p => proc'[q] = proc[q]
         /\ \A m \in Names : pidFile[m] # p
BY DEF TypeOK, Running, FreshPid

LEMMA FoundConnectMain ==
  ASSUME TypeInv, FoundInv, ConnectMain
  PROVE  FoundInv'
<1>1. /\ Main \in Names /\ pidFile \in [Names -> Pid \cup {NoPid}] /\ TypeOK
      /\ \A q \in Pid : proc[q] \in {NoProc} \cup Process
  BY CommandNames DEF TypeInv, TypeOK
<1>2. pc = "main" /\ pc' \notin {"dial", "save"}
  BY DEF ConnectMain
<1>3. CASE UNCHANGED <<pidFile, proc, lost>>
  BY <1>2, <1>3, RecordsKept DEF Open, Recorded
<1>4. CASE RemoveIfDead(Main) /\ UNCHANGED <<proc, lost>>
  BY <1>1, <1>2, <1>4, RecordsKept, RemoveIfDeadKeeps
<1>5. CASE EnsureMain /\ ~UNCHANGED <<pidFile, proc, lost>>
  <2>1. PICK p \in Pid :
          /\ ~IsTunnelRunning(Main) /\ FreshPid(p)
          /\ proc' = [proc EXCEPT ![p] = Running(Main, "ssh", 0, "up")]
          /\ \/ /\ pidFile' = [pidFile EXCEPT ![Main] = p]
                /\ lost' = LostBesides(Main)
             \/ /\ pidFile' = [pidFile EXCEPT ![Main] = NoPid]
                /\ lost' = lost \cup {Main}
    BY <1>5 DEF EnsureMain
  <2>2. proc'[p].name = Main /\ \A q \in Pid : q # p => proc'[q] = proc[q]
    BY <1>1, <2>1, NewAlone
  <2>3. ASSUME NEW q \in Pid, q # p, Open(q), proc[q].name \notin lost'
        PROVE  pidFile'[proc[q].name] = q
    <3>1. proc[q].name \notin lost
      BY <2>1, <2>3 DEF LostBesides
    <3>2. pidFile[proc[q].name] = q /\ proc[q].name # Main
      BY <1>2, <2>1, <2>3, <3>1, OpenRuns DEF Recorded
    <3>3. proc[q].name \in Names
      BY <1>1, <2>3, NoProcIsNone DEF Open
    <3> QED BY <1>1, <2>1, <3>2, <3>3
  <2>4. Main \notin lost' => pidFile'[Main] = p
    BY <1>1, <2>1
  <2>5. ServiceTunnelIsFound'
    BY <2>2, <2>3, <2>4 DEF ServiceTunnelIsFound, Open
  <2> QED BY <1>2, <2>5 DEF FoundInv, Unsaved
<1> QED BY <1>3, <1>4, <1>5 DEF ConnectMain

LEMMA FoundCheckTunnel ==
  ASSUME TypeInv, FoundInv, CheckTunnel
  PROVE  FoundInv'
<1>1. /\ Name \in Names /\ TypeOK /\ pc = "check" /\ UNCHANGED <<proc, lost>>
      /\ RemoveIfDead(Name)
  BY CommandNames DEF TypeInv, CheckTunnel
<1>2. CASE pc' # "dial"
  <2>1. pc' \notin {"dial", "save"}
    BY <1>2 DEF CheckTunnel, AfterTunnel, SetUp, NextService
  <2> QED BY <1>1, <2>1, RecordsKept, RemoveIfDeadKeeps
<1>3. CASE pc' = "dial"
  <2>1. ~IsTunnelRunning(Name) /\ UNCHANGED cmd
    BY <1>3 DEF CheckTunnel, AfterTunnel, SetUp, NextService
  <2>2. Name' = Name /\ pidFile'[Name] = NoPid
    BY <1>1, <2>1, RemoveIfDeadKeeps DEF Name, Service
  <2>3. Name \notin lost => \A p \in Pid : Open(p) => proc[p].name # Name
    BY <1>1, <2>1, OpenRuns
  <2>4. Unsaved'
    BY <1>1, <1>3, <2>2, <2>3 DEF Unsaved, Open
  <2>5. ServiceTunnelIsFound'
    BY <1>1, RemoveIfDeadKeeps
       DEF FoundInv, ServiceTunnelIsFound, Open, Recorded
  <2> QED BY <2>4, <2>5 DEF FoundInv
<1> QED BY <1>2, <1>3

LEMMA FoundDial ==
  ASSUME TypeInv, FoundInv, Dial
  PROVE  FoundInv'
<1>1. Name \in Names /\ TypeOK /\ cmd \in Command
  BY CommandNames DEF TypeInv
<1>2. cmd.want \in AnyOffer \ {NoOffer}
  BY <1>1 DEF TypeInv, Wanted, Dial, Command
<1>3. cmd.want.via \in {"ssh", "kubectl"} /\ cmd.want.target \in Nat
  BY <1>2 DEF AnyOffer
<1>4. PICK p \in Pid :
        /\ FreshPid(p)
        /\ proc' = [proc EXCEPT ![p] =
             Running(Name, cmd.want.via, cmd.want.target,
                     IF cmd.want.via = "ssh" THEN "up" ELSE "starting")]
  BY DEF Dial
<1>5. /\ proc'[p].name = Name /\ proc'[p].via = cmd.want.via
      /\ proc'[p].target = cmd.want.target
      /\ \A q \in Pid : q # p => proc'[q] = proc[q]
  BY <1>1, <1>4 DEF TypeOK, Running
<1>6. pc = "dial" /\ pc' = "save" /\ UNCHANGED <<pidFile, cmd>> /\ Name' = Name
  BY DEF Dial, Name, Service
<1>l. lost' = LostBesides(Name)
  BY DEF Dial
<1>7. ASSUME NEW q \in Pid, q # p, Open(q)', proc'[q].name \notin lost'
      PROVE  pidFile'[proc'[q].name] = q /\ proc'[q].name # Name
  <2>1. Open(q) /\ proc'[q].name = proc[q].name
    BY <1>5, <1>7 DEF Open
  <2>2. proc[q].name \notin lost
    BY <1>l, <1>7, <2>1 DEF LostBesides
  <2>3. proc[q].name # Name
    BY <1>6, <2>1, <2>2 DEF FoundInv, Unsaved
  <2> QED BY <1>6, <2>1, <2>2, <2>3, OpenRuns DEF Recorded
<1>8. ServiceTunnelIsFound'
  BY <1>5, <1>6, <1>7 DEF ServiceTunnelIsFound, Open
<1>9. Unsaved'
  BY <1>5, <1>6, <1>7 DEF FoundInv, Unsaved
<1> QED BY <1>8, <1>9 DEF FoundInv

LEMMA FoundSavePid ==
  ASSUME TypeInv, HolderInv, FoundInv, AlertmanagerApart, SavePid
  PROVE  FoundInv'
<1>1. /\ Name \in Names /\ TypeOK /\ cmd \in Command /\ pc = "save"
      /\ Name = <<cmd.ctx, Service>> /\ cmd.ctx \in Ctx
      /\ pidFile \in [Names -> Pid \cup {NoPid}]
      /\ \A q \in Pid : proc[q] \in {NoProc} \cup Process
  BY CommandNames DEF TypeInv, TypeOK, SavePid, Command
<1>2. /\ cmd.want.via \in {"ssh", "kubectl"}
      /\ cmd.want.via = "kubectl" => Service = "alertmanager"
  BY <1>1 DEF TypeInv, Wanted, Command, AnyOffer
<1>3. ASSUME NEW q \in Pid, Open(q), proc[q].name = Name, Name \notin lost'
      PROVE  pidFile'[Name] = q
  <2>0. /\ Name \notin lost
        /\ \E p \in Matching : pidFile' = [pidFile EXCEPT ![Name] = p]
    BY <1>3 DEF SavePid
  <2>1. q \in Matching
    BY <1>1, <1>3, <2>0, NamesHaveParts, CommandNames, NoProcIsNone
       DEF FoundInv, Unsaved, Matching, Open, Alive
  <2>2. ASSUME NEW p \in Matching
        PROVE  p = q
    <3>1. CASE cmd.want.via = "ssh"
      <4>1. Bound(p) /\ Bound(q) /\ Port(p) = Port(q)
        BY <1>3, <2>1, <2>2, <3>1 DEF HolderInv, SshBinds, Matching, Port
      <4> QED BY <4>1 DEF HolderInv, OneHolder, Matching
    <3>2. CASE cmd.want.via = "kubectl"
      <4>1. /\ Kind(proc[p].name) = "alertmanager" /\ Open(p)
            /\ proc[p].name \in Names
        BY <1>1, <2>2, <3>2, NoProcIsNone
           DEF HolderInv, KubectlForAlertmanager, Matching, Open, Alive, Process
      <4>2. /\ proc[p].name = <<Context(proc[p].name), "alertmanager">>
            /\ Context(proc[p].name) \in Ctx
        BY <4>1, NamesHaveParts
      <4>3. LocalPort(proc[p].name) = LocalPort(Name)
        BY <2>2 DEF Matching
      <4>4. proc[p].name = Name
        BY <1>1, <1>2, <3>2, <4>2, <4>3 DEF AlertmanagerApart
      <4> QED BY <1>1, <1>3, <2>0, <4>1, <4>4 DEF FoundInv, Unsaved, Matching
    <3> QED BY <1>2, <3>1, <3>2
  <2>3. PICK p \in Matching : pidFile' = [pidFile EXCEPT ![Name] = p]
    BY <2>0
  <2> QED BY <1>1, <2>2, <2>3
<1>4. ASSUME NEW q \in Pid, Open(q), proc[q].name # Name,
             proc[q].name \notin lost'
      PROVE  pidFile'[proc[q].name] = q
  <2>0. proc[q].name \notin lost
    BY <1>4 DEF SavePid
  <2>1. pidFile[proc[q].name] = q /\ proc[q].name \in Names
    BY <1>1, <1>4, <2>0, NoProcIsNone DEF FoundInv, ServiceTunnelIsFound, Open
  <2> QED BY <1>1, <1>4, <2>1 DEF SavePid
<1>5. UNCHANGED proc /\ pc' \notin {"dial", "save"}
  BY DEF SavePid, AfterTunnel, SetUp, NextService
<1>6. \A q \in Pid : Open(q)' /\ proc'[q].name \notin lost' =>
        pidFile'[proc'[q].name] = q
  BY <1>3, <1>4, <1>5 DEF Open
<1> QED BY <1>5, <1>6 DEF FoundInv, ServiceTunnelIsFound, Unsaved, Open

LEMMA FoundStep ==
  ASSUME TypeInv, HolderInv, FoundInv, AlertmanagerApart, [Next]_vars
  PROVE  FoundInv'
<1>1. ASSUME UNCHANGED <<pidFile, proc, lost>>, pc # "save",
             pc' \notin {"dial", "save"}
      PROVE  FoundInv'
  BY <1>1, RecordsKept DEF Open, Recorded
<1>2. /\ \A r \in BOOLEAN : SetUp(r) => pc' \in {"discover", "ok"}
      /\ AfterTunnel => pc' \in {"discover", "ok", "login"}
  BY DEF SetUp, NextService, AfterTunnel
<1>3. CASE (\E x \in Ctx : StartConnect(x)) \/ Discover \/ DialFails \/ Login
              \/ (Interrupt /\ pc # "save")
  BY <1>1, <1>2, <1>3
     DEF StartConnect, Discover, DialFails, Login, Interrupt, Ended
<1>4. CASE Interrupt /\ pc = "save"
  <2>1. /\ pc' = "idle" /\ lost' = lost \cup {Name}
        /\ UNCHANGED <<pidFile, proc>>
    BY <1>4, Zenon DEF Interrupt
  <2> QED BY <2>1 DEF FoundInv, ServiceTunnelIsFound, Unsaved, Open
<1>5. CASE FastPath \/ SecondaryLivePort
  <2>1. pc # "save" /\ pc' \notin {"dial", "save"} /\ UNCHANGED <<proc, lost>>
    BY <1>5 DEF FastPath, SecondaryLivePort, NextService
  <2>2. TypeOK /\ Name \in Names /\ Main \in Names
    BY CommandNames DEF TypeInv
  <2>3. RemoveIfDead(Main) \/ RemoveIfDead(Name)
    BY <1>5 DEF FastPath, SecondaryLivePort
  <2> QED BY <2>1, <2>2, <2>3, RemoveIfDeadKeeps, RecordsKept
<1>6. CASE ConnectMain \/ CheckTunnel \/ Dial \/ SavePid
  BY <1>6, FoundConnectMain, FoundCheckTunnel, FoundDial, FoundSavePid
<1>7. CASE TunnelKillAll \/ \E n \in Names : TunnelKill(n)
  BY <1>7, FoundKilled DEF TunnelKillAll, TunnelKill
<1>8. CASE \/ ClusterChanges \/ UNCHANGED vars
           \/ \E p \in Pid : KubectlBinds(p) \/ ProcessEnds(p)
  BY <1>8, FoundAround
     DEF ClusterChanges, vars, KubectlBinds, ProcessEnds, Binds, Gone, Port
<1> QED BY <1>3, <1>4, <1>5, <1>6, <1>7, <1>8 DEF Next, Connect

FoundAll == TypeInv /\ HolderInv /\ FoundInv

LEMMA FoundInitial == Init => FoundAll
<1>1. Init => FoundInv
  <2>1. Init => \A p \in Pid : ~Open(p)
    BY NoProcIsNone DEF Init, Open
  <2> QED BY <2>1 DEF Init, FoundInv, ServiceTunnelIsFound, Unsaved, Open
<1> QED BY <1>1, TypeInitial, HolderInitial DEF FoundAll

LEMMA FoundInductive ==
  ASSUME AlertmanagerApart
  PROVE  FoundAll /\ [Next]_vars => FoundAll'
BY TypeInductive, HolderStep, FoundStep DEF FoundAll

(* Every auxiliary tunnel that is open can be found by its name, but one   *)
(* whose name pgrep did not find a tunnel of, or a command was killed      *)
(* before it saved the pid (the names in lost, of which SaveTunnelPID got  *)
(* a nil pid or was not reached); if no two contexts have one port for     *)
(* Alertmanager, as the pgrep pattern of CreateKubectlPortForward tells    *)
(* contexts apart by the port alone.                                       *)
THEOREM ServiceTunnelsAreFound ==
  ASSUME AlertmanagerApart
  PROVE  Spec => []ServiceTunnelIsFound
<1>1. FoundAll => ServiceTunnelIsFound
  BY DEF FoundAll, FoundInv
<1> QED BY <1>1, FoundInitial, FoundInductive, PTL DEF Spec

(* tunnel-kill-all leaves none open but under those names, then: a miss of *)
(* pgrep or a killed command costs the tunnels of its own name only.       *)
THEOREM KillAllTakesThem ==
  ASSUME AlertmanagerApart
  PROVE  Spec => KillAllTakesServices
<1>1. FoundAll /\ [Next]_vars =>
        [TunnelKillAll =>
           \A p \in Pid : Open(p)' => proc'[p].name \in lost]_vars
  <2> SUFFICES ASSUME FoundAll, TunnelKillAll, NEW p \in Pid, Open(p)'
               PROVE  proc'[p].name \in lost
    OBVIOUS
  <2>1. proc'[p].name \notin Names \ lost
    BY FoundKilled DEF FoundAll, TunnelKillAll
  <2>2. TypeInv'
    BY TypeInductive DEF FoundAll, Next
  <2>3. proc'[p] \in Process
    BY <2>2, NoProcIsNone DEF TypeInv, TypeOK, Open
  <2> QED BY <2>1, <2>3, NoProcIsNone
<1> QED
  BY <1>1, FoundInitial, FoundInductive, PTL DEF Spec, KillAllTakesServices

-----------------------------------------------------------------------------
(* The ports a connect reports.                                            *)

(* Whoever has the port of service k of x is the tunnel to it.             *)
OwnPort(x, k) ==
  \A p \in Pid : Bound(p) /\ Port(p) = LocalPort(<<x, k>>) =>
    proc[p].name = <<x, k>>

NamedByFile ==
  \A n \in Names : IsTunnelRunning(n) =>
    pidFile[n] \in Pid /\ proc[pidFile[n]].name = n
Reported ==
  \A k \in Services : cmd.report[k] # 0 =>
    cmd.report[k] = LocalPort(<<cmd.ctx, k>>) /\ OwnPort(cmd.ctx, k)
OwnWhileOpened == pc \in {"save", "login"} => OwnPort(cmd.ctx, Service)

ReportInv == NamedByFile /\ Reported /\ OwnWhileOpened

PortsApart == AlertmanagerApart /\ KindsApart

LEMMA SameName ==
  ASSUME PortsApart, NEW m \in Names, NEW n \in Names,
         LocalPort(m) = LocalPort(n),
         Kind(n) = "alertmanager" \/ Context(m) = Context(n)
  PROVE  m = n
<1>1. Kind(m) = Kind(n)
  BY DEF PortsApart, KindsApart
<1>2. m = <<Context(m), Kind(m)>> /\ n = <<Context(n), Kind(n)>>
      /\ Context(m) \in Ctx /\ Context(n) \in Ctx
  BY NamesHaveParts
<1>3. Context(m) = Context(n)
  BY <1>1, <1>2 DEF PortsApart, AlertmanagerApart
<1> QED BY <1>1, <1>2, <1>3

LEMMA BoundIsNamed ==
  ASSUME TypeOK
  PROVE  \A p \in Pid : /\ Bound(p) \/ Alive(p) => proc[p] \in Process
                        /\ proc[p] \in Process => proc[p].name \in Names
BY NoProcIsNone DEF TypeOK, Bound, Alive

LEMMA ServiceName ==
  ASSUME NEW x \in Ctx, NEW k \in Services
  PROVE  /\ <<x, k>> \in Names /\ Kind(<<x, k>>) = k /\ Context(<<x, k>>) = x
BY ServicesInOrder, NamesHaveParts

LEMMA AlertmanagerOwn ==
  ASSUME TypeOK, PortsApart, NEW x \in Ctx
  PROVE  OwnPort(x, "alertmanager")
<1>1. "alertmanager" \in Services
  BY ServicesInOrder
<1> QED BY <1>1, ServiceName, SameName, BoundIsNamed DEF OwnPort, Port

(* No step gives that port to another one.                                 *)
LEMMA OwnPortKept ==
  ASSUME TypeInv, HolderInv, PortsApart, [Next]_vars,
         NEW k \in Services, NEW x \in Ctx, x = cmd.ctx, OwnPort(x, k)
  PROVE  OwnPort(x, k)'
<1>1. proc \in [Pid -> {NoProc} \cup Process] /\ TypeOK
  BY DEF TypeInv, TypeOK
<1>2. TypeOK' /\ HolderInv'
  BY TypeInductive, HolderStep DEF TypeInv
<1>3. <<x, k>> \in Names /\ Kind(<<x, k>>) = k /\ Context(<<x, k>>) = x
  BY ServiceName
<1>4. ASSUME NEW p \in Pid, Bound(p)', Port(p)' = LocalPort(<<x, k>>)
      PROVE  proc'[p].name = <<x, k>>
  <2>1. proc'[p].name \in Names
    BY <1>2, <1>4, NoProcIsNone DEF TypeOK, Bound
  <2>2. LocalPort(proc'[p].name) = LocalPort(<<x, k>>)
    BY <1>4 DEF Port
  <2>3. CASE Bound(p) /\ proc'[p].name = proc[p].name
    BY <1>4, <2>3 DEF OwnPort, Port
  <2>4. CASE Context(proc'[p].name) = x
    BY <1>3, <2>1, <2>2, <2>4, SameName
  <2>5. CASE Kind(proc'[p].name) = "alertmanager"
    BY <1>3, <2>1, <2>2, <2>5, SameName
  <2>6. ASSUME NEW q \in Pid, Binds(q), p = q
        PROVE  Kind(proc'[p].name) = "alertmanager"
    <3>1. proc[q] \in Process /\ Alive(q) /\ ~Bound(q)
      BY <1>1, <2>6, NoProcIsNone DEF Binds, Alive, Bound
    <3>2. proc[q].via = "kubectl"
      BY <3>1, NoProcIsNone DEF HolderInv, SshBinds
    <3>3. proc'[q].name = proc[q].name
      BY <1>1, <2>6, <3>1 DEF Binds, Process
    <3> QED
      BY <2>6, <3>1, <3>2, <3>3 DEF HolderInv, KubectlForAlertmanager
  <2>7. ASSUME NEW q \in Pid, Gone(q) \/ (Binds(q) /\ p # q)
        PROVE  Bound(p) /\ proc'[p].name = proc[p].name
    BY <1>1, <1>4, <2>7, NoProcIsNone DEF Gone, Binds, Bound
  <2>8. ASSUME NEW P \in SUBSET Pid, Told(P)
        PROVE  Bound(p) /\ proc'[p].name = proc[p].name
    <3>1. CASE p \in P
      <4>1. /\ proc'[p] = Signalled(p) /\ Alive(p) /\ proc[p] \in Process
        BY <1>1, <2>8, <3>1 DEF Told, Alive
      <4>2. proc[p].via = "ssh" /\ proc'[p] = [proc[p] EXCEPT !.state = "dying"]
        BY <1>4, <4>1, NoProcIsNone DEF Signalled, Bound
      <4> QED BY <4>1, <4>2 DEF HolderInv, SshBinds, Process
    <3>2. CASE p \notin P
      BY <1>4, <2>8, <3>2 DEF Told, Bound
    <3> QED BY <3>1, <3>2
  <2>9. ASSUME NEW q \in Pid, NEW n \in Names, NEW t \in Nat,
               NEW via \in {"ssh", "kubectl"}, NEW state \in {"starting", "up"},
               New(q, n, via, t, state), Context(n) = x
        PROVE  \/ Context(proc'[p].name) = x
               \/ Bound(p) /\ proc'[p].name = proc[p].name
    BY <1>1, <1>4, <2>9 DEF New, Running, Bound
  <2>10. Becomes
    BY StepBecomes
  <2>11. CASE UNCHANGED proc
    BY <1>4, <2>3, <2>11 DEF Bound
  <2> QED
    BY <2>3, <2>4, <2>5, <2>6, <2>7, <2>8, <2>9, <2>10, <2>11 DEF Becomes
<1> QED BY <1>4 DEF OwnPort

(* A process that runs under a name of a command, and has it.              *)
LEMMA RunningIsOwn ==
  ASSUME TypeInv, HolderInv, NamedByFile, PortsApart, IsTunnelRunning(Name)
  PROVE  OwnPort(cmd.ctx, Service)
<1>1. /\ TypeOK /\ Name \in Names /\ Kind(Name) = Service
      /\ Name = <<cmd.ctx, Service>> /\ cmd.ctx \in Ctx
  BY CommandNames DEF TypeInv, Command
<1>2. /\ pidFile[Name] \in Pid /\ proc[pidFile[Name]].name = Name
      /\ Alive(pidFile[Name])
  BY <1>1 DEF NamedByFile, IsTunnelRunning
<1>3. CASE Service = "alertmanager"
  BY <1>1, <1>3, AlertmanagerOwn
<1>4. CASE Service # "alertmanager"
  <2>1. proc[pidFile[Name]].via = "ssh"
    BY <1>1, <1>2, <1>4, BoundIsNamed, NoProcIsNone
       DEF HolderInv, KubectlForAlertmanager
  <2>2. Bound(pidFile[Name])
    BY <1>2, <2>1 DEF HolderInv, SshBinds
  <2> QED BY <1>1, <1>2, <2>2 DEF OwnPort, HolderInv, OneHolder, Port
<1> QED BY <1>3, <1>4

LEMMA MatchingIsNamed ==
  ASSUME TypeInv, HolderInv, PortsApart, pc = "save", NEW p \in Matching
  PROVE  proc[p].name = Name
<1>1. /\ TypeOK /\ Name \in Names /\ Context(Name) = cmd.ctx
      /\ Kind(Name) = Service /\ cmd \in Command
  BY CommandNames DEF TypeInv
<1>2. /\ cmd.want.via \in {"ssh", "kubectl"}
      /\ cmd.want.via = "kubectl" => Kind(Name) = "alertmanager"
  BY <1>1 DEF TypeInv, Wanted, Command, AnyOffer
<1>3. /\ p \in Pid /\ proc[p].name \in Names
      /\ LocalPort(proc[p].name) = LocalPort(Name)
      /\ cmd.want.via = "ssh" => Context(proc[p].name) = cmd.ctx
  BY <1>1, BoundIsNamed DEF Matching
<1> QED BY <1>1, <1>2, <1>3, SameName

LEMMA NamedStep ==
  ASSUME TypeInv, HolderInv, NamedByFile, PortsApart, [Next]_vars
  PROVE  NamedByFile'
<1>1. /\ proc \in [Pid -> {NoProc} \cup Process] /\ TypeOK
      /\ pidFile \in [Names -> Pid \cup {NoPid}] /\ NoPid \notin Pid
      /\ Name \in Names /\ Main \in Names
  BY CommandNames, ServiceAssumption DEF TypeInv, TypeOK
<1>2. pidFile' \in [Names -> Pid \cup {NoPid}]
  BY TypeInductive DEF TypeInv, TypeOK
<1>3. SUFFICES ASSUME NEW n \in Names, NEW p \in Pid,
                       pidFile'[n] = p, Alive(p)'
               PROVE  proc'[p].name = n
  BY <1>2, Zenon DEF NamedByFile, IsTunnelRunning
<1>4. CASE pidFile[n] = p /\ Alive(p) /\ proc'[p].name = proc[p].name
  BY <1>1, <1>3, <1>4 DEF NamedByFile, IsTunnelRunning
<1>5. CASE SavePid
  <2>1. UNCHANGED proc /\ pc = "save"
    BY <1>5 DEF SavePid
  <2>2. (n = Name /\ p \in Matching) \/ p = pidFile[n]
    BY <1>1, <1>3, <1>5 DEF SavePid
  <2> QED BY <1>3, <1>4, <2>1, <2>2, MatchingIsNamed DEF Alive
<1>6. CASE ConnectMain /\ proc' # proc
  <2>1. PICK q \in Pid :
          /\ FreshPid(q) /\ proc' = [proc EXCEPT ![q] = Running(Main, "ssh", 0, "up")]
          /\ \/ pidFile' = [pidFile EXCEPT ![Main] = q]
             \/ pidFile' = [pidFile EXCEPT ![Main] = NoPid]
    BY <1>6 DEF ConnectMain, EnsureMain
  <2>2. /\ proc'[q].name = Main
        /\ \A r \in Pid : r # q => proc'[r] = proc[r]
        /\ \A m \in Names : pidFile[m] # q
    BY <1>1, <2>1, NewAlone
  <2>3. CASE n = Main
    BY <1>1, <1>3, <2>1, <2>2, <2>3
  <2>4. CASE n # Main
    BY <1>1, <1>3, <1>4, <2>1, <2>2, <2>4 DEF Alive
  <2> QED BY <2>3, <2>4
<1>7. ASSUME pidFile'[n] = pidFile[n] \/ pidFile'[n] = NoPid,
             ~(ConnectMain /\ proc' # proc)
      PROVE  proc'[p].name = n
  <2>1. pidFile[n] = p
    BY <1>1, <1>3, <1>7
  <2>2. \A q \in Pid, m \in Names, t \in Nat, via \in {"ssh", "kubectl"},
          state \in {"starting", "up"} : New(q, m, via, t, state) =>
            q # p /\ proc'[p] = proc[p]
    BY <1>1, <1>3, <2>1 DEF New, FreshPid
  <2>3. Alive(p) /\ proc'[p].name = proc[p].name
    <3>1. Becomes
      BY StepBecomes
    <3>2. CASE \/ UNCHANGED proc \/ \E q \in Pid : Gone(q) \/ Binds(q)
               \/ \E P \in SUBSET Pid : Told(P)
      BY <1>1, <1>3, <3>2, KeepsItsTunnel
    <3>3. CASE \E q \in Pid, m \in Names, t \in Nat, via \in {"ssh", "kubectl"},
                 state \in {"starting", "up"} : New(q, m, via, t, state)
      BY <1>3, <2>2, <3>3 DEF Alive
    <3> QED BY <3>1, <3>2, <3>3 DEF Becomes
  <2> QED BY <1>4, <2>1, <2>3
<1>8. \A m \in Names : RemoveIfDead(m) =>
        pidFile'[n] = pidFile[n] \/ pidFile'[n] = NoPid
  BY <1>1 DEF RemoveIfDead
<1>9. \A names \in SUBSET Names : KillSet(names) =>
        pidFile'[n] = pidFile[n] \/ pidFile'[n] = NoPid
  BY <1>1 DEF KillSet
<1>10. \/ pidFile'[n] = pidFile[n] \/ pidFile'[n] = NoPid
       \/ SavePid \/ (ConnectMain /\ proc' # proc)
  <2>1. CASE FastPath \/ SecondaryLivePort \/ CheckTunnel
    BY <1>1, <1>8, <2>1 DEF FastPath, SecondaryLivePort, CheckTunnel
  <2>2. CASE TunnelKillAll \/ \E m \in Names : TunnelKill(m)
    BY <1>9, <2>2 DEF TunnelKillAll, TunnelKill
  <2>3. CASE ConnectMain
    <3>1. ASSUME NEW q \in Pid, FreshPid(q),
                 proc' = [proc EXCEPT ![q] = Running(Main, "ssh", 0, "up")]
          PROVE  proc' # proc
      <4>1. proc[q] = NoProc
        BY <3>1 DEF FreshPid, Alive
      <4>2. proc'[q].state = "up"
        BY <1>1, <3>1 DEF Running
      <4> QED BY <4>1, <4>2, NoProcIsNone
    <3>2. CASE EnsureMain
      BY <2>3, <3>1, <3>2 DEF EnsureMain
    <3> QED BY <1>8, <1>1, <2>3, <3>2 DEF ConnectMain
  <2>4. CASE UNCHANGED pidFile
    BY <2>4
  <2> QED
    BY <2>1, <2>2, <2>3, <2>4
       DEF Next, vars, Connect, StartConnect, Discover, DialFails, Dial, Login,
       Interrupt, ClusterChanges, KubectlBinds, ProcessEnds
<1> QED BY <1>5, <1>6, <1>7, <1>10

(* A report stands as long as the command, or is of its own service.       *)
LEMMA ReportsKept ==
  ASSUME TypeInv, HolderInv, PortsApart, Reported, [Next]_vars,
         cmd'.ctx = cmd.ctx,
         \A k \in Services :
           \/ cmd'.report[k] = cmd.report[k]
           \/ /\ k = Service /\ cmd'.report[k] = LocalPort(Name)
              /\ OwnPort(cmd.ctx, Service)
  PROVE  Reported'
<1>1. cmd.ctx \in Ctx /\ Name = <<cmd.ctx, Service>>
  BY CommandNames DEF TypeInv, Command
<1>2. ASSUME NEW k \in Services, cmd'.report[k] # 0
      PROVE  /\ cmd'.report[k] = LocalPort(<<cmd.ctx, k>>)
             /\ OwnPort(cmd.ctx, k)
  BY <1>1, <1>2 DEF Reported
<1>3. ASSUME NEW k \in Services, NEW x \in Ctx, x = cmd.ctx, OwnPort(cmd.ctx, k)
      PROVE  OwnPort(x, k)'
  BY <1>3, OwnPortKept
<1>4. ASSUME NEW k \in Services, cmd'.report[k] # 0
      PROVE  cmd'.report[k] = LocalPort(<<cmd'.ctx, k>>) /\ OwnPort(cmd.ctx, k)'
  BY <1>1, <1>2, <1>3, <1>4 DEF OwnPort
<1> QED BY <1>4 DEF Reported, OwnPort

(* What the end of a setup does to the report.                             *)
LEMMA NextServiceReports ==
  ASSUME TypeOK, NEW reported \in BOOLEAN, NEW first, NEW last,
         NextService(reported, first, last)
  PROVE  /\ cmd'.ctx = cmd.ctx
         /\ pc' \in {first, last}
         /\ \A k \in Services :
              \/ cmd'.report[k] = cmd.report[k]
              \/ k = Service /\ reported /\ cmd'.report[k] = LocalPort(Name)
<1>1. cmd \in Command
  BY CommandNames
<1> QED BY <1>1 DEF Command, NextService

LEMMA AfterTunnelReports ==
  ASSUME TypeOK, AfterTunnel
  PROVE  /\ cmd'.ctx = cmd.ctx
         /\ pc' = "login" => cmd'.at = cmd.at
         /\ pc' \in {"login", "discover", "ok"}
         /\ \A k \in Services :
              \/ cmd'.report[k] = cmd.report[k]
              \/ k = Service /\ cmd'.report[k] = LocalPort(Name)
<1>1. cmd \in Command
  BY CommandNames
<1>2. CASE Service = "argocd"
  BY <1>1, <1>2 DEF Command, AfterTunnel
<1>3. CASE Service # "argocd"
  <2>1. NextService(TRUE, "discover", "ok")
    BY <1>3 DEF AfterTunnel, SetUp
  <2> QED BY <1>1, <2>1 DEF NextService, Command
<1> QED BY <1>2, <1>3

LEMMA NothingReported ==
  ASSUME cmd' = NewCmd \/ \E x \in Ctx : cmd' = [NewCmd EXCEPT !.ctx = x]
  PROVE  Reported'
<1>1. NewCmd \in Command /\ NewCmd.report = NoReport
  BY NewCmdTyped DEF NewCmd
<1>2. cmd'.report = NoReport
  BY <1>1 DEF Command
<1>3. \A k \in Services : cmd'.report[k] = 0
  BY <1>2 DEF NoReport
<1> QED BY <1>3 DEF Reported

(* What a step of a command does to the report, or to the whole command.   *)
Reports ==
  /\ cmd'.ctx = cmd.ctx
  /\ \A k \in Services :
       \/ cmd'.report[k] = cmd.report[k]
       \/ /\ k = Service /\ cmd'.report[k] = LocalPort(Name)
          /\ OwnPort(cmd.ctx, Service)
Anew == cmd' = NewCmd \/ \E x \in Ctx : cmd' = [NewCmd EXCEPT !.ctx = x]

LEMMA StepReports ==
  ASSUME TypeInv, HolderInv, ReportInv, PortsApart, [Next]_vars
  PROVE  Reports \/ Anew
<1>1. TypeOK /\ cmd \in Command
  BY CommandNames DEF TypeInv
<1>2. IsTunnelRunning(Name) => OwnPort(cmd.ctx, Service)
  BY RunningIsOwn DEF ReportInv
<1>3. pc \in {"save", "login"} => OwnPort(cmd.ctx, Service)
  BY DEF ReportInv, OwnWhileOpened
<1>4. ASSUME NEW r \in BOOLEAN, NEW first, NEW last,
             NextService(r, first, last), r => OwnPort(cmd.ctx, Service)
      PROVE  Reports
  BY <1>1, <1>4, NextServiceReports DEF Reports
<1>5. ASSUME AfterTunnel, OwnPort(cmd.ctx, Service)
      PROVE  Reports
  BY <1>1, <1>5, AfterTunnelReports DEF Reports
<1>6. CASE SecondaryLivePort
  BY <1>2, <1>4, <1>6 DEF SecondaryLivePort, IsTunnelRunning, PortFree
<1>7. CASE Discover
  <2>1. SetUp(FALSE) => Reports
    BY <1>4 DEF SetUp
  <2>2. ASSUME cmd' = [cmd EXCEPT !.want = offer[cmd.ctx][Service]]
        PROVE  Reports
    BY <1>1, <2>2 DEF Reports, Command
  <2> QED BY <1>7, <2>1, <2>2 DEF Discover
<1>8. CASE DialFails \/ Login
  BY <1>3, <1>4, <1>8 DEF DialFails, Login, SetUp
<1>9. CASE CheckTunnel \/ SavePid
  <2>1. AfterTunnel => OwnPort(cmd.ctx, Service) \/ ~IsTunnelRunning(Name)
    BY <1>2
  <2>2. UNCHANGED cmd \/ (AfterTunnel /\ OwnPort(cmd.ctx, Service))
    BY <1>2, <1>3, <1>9 DEF CheckTunnel, SavePid
  <2> QED BY <1>5, <2>2 DEF Reports
<1>10. CASE UNCHANGED cmd
  BY <1>10 DEF Reports
<1> QED
  BY <1>6, <1>7, <1>8, <1>9, <1>10
     DEF Next, vars, Connect, StartConnect, FastPath, ConnectMain, Dial, Anew,
     Interrupt, ClusterChanges, TunnelKillAll, TunnelKill, KillSet,
     KubectlBinds, ProcessEnds

LEMMA OpenedStep ==
  ASSUME TypeInv, HolderInv, ReportInv, PortsApart, [Next]_vars
  PROVE  OwnWhileOpened'
<1>1. /\ TypeOK /\ cmd.ctx \in Ctx /\ Service \in Services /\ cmd \in Command
      /\ Name = <<cmd.ctx, Service>> /\ Name \in Names
  BY CommandNames DEF TypeInv, Command
<1>2. SUFFICES ASSUME pc' \in {"save", "login"}
               PROVE  /\ OwnPort(cmd.ctx, Service)
                      /\ cmd'.ctx = cmd.ctx /\ Service' = Service
  <2>1. ASSUME NEW k \in Services, NEW x \in Ctx, x = cmd.ctx, OwnPort(x, k),
               cmd'.ctx = x, Service' = k, pc' \in {"save", "login"}
        PROVE  OwnWhileOpened'
    <3>1. OwnPort(x, k)'
      BY <2>1, OwnPortKept
    <3> QED BY <2>1, <3>1 DEF OwnWhileOpened, OwnPort
  <2> QED BY <1>1, <1>2, <2>1 DEF OwnWhileOpened
<1>3. /\ \A r \in BOOLEAN : SetUp(r) => pc' \in {"discover", "ok"}
      /\ AfterTunnel => pc' \in {"discover", "ok", "login"}
  BY DEF SetUp, NextService, AfterTunnel
<1>4. ASSUME AfterTunnel, OwnPort(cmd.ctx, Service)
      PROVE  /\ OwnPort(cmd.ctx, Service)
             /\ cmd'.ctx = cmd.ctx /\ Service' = Service
  BY <1>1, <1>2, <1>3, <1>4, AfterTunnelReports DEF Service
<1>5. CASE CheckTunnel
  <2>1. IsTunnelRunning(Name) /\ AfterTunnel
    BY <1>2, <1>5 DEF CheckTunnel
  <2> QED BY <1>4, <2>1, RunningIsOwn DEF ReportInv
<1>6. CASE SavePid
  BY <1>4, <1>6 DEF SavePid, ReportInv, OwnWhileOpened
<1>7. CASE Dial
  <2>1. CASE cmd.want.via = "ssh"
    BY <1>1, <1>7, <2>1
       DEF Dial, PortFree, Holds, OwnPort, Bound, Port, Service
  <2>2. CASE cmd.want.via # "ssh"
    <3>1. cmd.want.via = "kubectl" /\ Service = "alertmanager"
      BY <1>1, <1>7, <2>2 DEF TypeInv, Wanted, Dial, Command, AnyOffer
    <3> QED BY <1>1, <1>7, <3>1, AlertmanagerOwn DEF Dial, Service
  <2> QED BY <2>1, <2>2
<1>8. CASE UNCHANGED <<pc, cmd>>
  BY <1>2, <1>8 DEF ReportInv, OwnWhileOpened, Service
<1> QED
  BY <1>2, <1>3, <1>5, <1>6, <1>7, <1>8
     DEF Next, vars, Connect, StartConnect, FastPath, SecondaryLivePort,
     NextService, ConnectMain, Discover, DialFails, Login, Interrupt,
     ClusterChanges, TunnelKillAll, TunnelKill, KillSet, KubectlBinds,
     ProcessEnds

ReportAll == TypeInv /\ HolderInv /\ ReportInv

LEMMA ReportInitial == Init => ReportAll
<1>1. Init => ReportInv
  BY DEF Init, ReportInv, NamedByFile, IsTunnelRunning, Reported, NewCmd,
     NoReport, OwnWhileOpened
<1> QED BY <1>1, TypeInitial, HolderInitial DEF ReportAll

LEMMA ReportInductive ==
  ASSUME PortsApart
  PROVE  ReportAll /\ [Next]_vars => ReportAll'
<1> SUFFICES ASSUME ReportAll, [Next]_vars PROVE ReportAll'
  OBVIOUS
<1>1. Reported'
  BY StepReports, ReportsKept, NothingReported
     DEF ReportAll, ReportInv, Reports, Anew
<1>2. NamedByFile' /\ OwnWhileOpened'
  BY NamedStep, OpenedStep DEF ReportAll, ReportInv
<1> QED BY <1>1, <1>2, TypeInductive, HolderStep DEF ReportAll, ReportInv

(* A connect reports no port on which a service of another context         *)
(* listens, nor another service, if the port ranges do not meet and no two *)
(* contexts have one port for Alertmanager: the ports of the ssh tunnels   *)
(* may collide (Setup in argocd.go, alertmanager.go, victoriametrics.go).  *)
THEOREM ReportedPortsAreOwn ==
  ASSUME PortsApart
  PROVE  Spec => ReportedPortIsOwn
<1>1. ASSUME ReportAll, [Next]_vars, pc \notin Ended, pc' \in {"ok", "already"},
             NEW k \in Services, NEW p \in Pid,
             cmd'.report[k] # 0, Holds(p, cmd'.report[k])
      PROVE  proc[p].name = <<cmd.ctx, k>>
  <2>1. UNCHANGED proc
    BY <1>1 DEF Next, vars, Connect, StartConnect, FastPath, SecondaryLivePort,
       ConnectMain, Discover, CheckTunnel, DialFails, Dial, SavePid, Login,
       Interrupt, ClusterChanges, TunnelKillAll, TunnelKill, KillSet,
       KubectlBinds, ProcessEnds, Ended
  <2>2. cmd'.ctx = cmd.ctx
    <3>1. CASE Reports
      BY <3>1 DEF Reports
    <3>2. CASE Anew
      <4>1. NewCmd \in Command /\ NewCmd.report = NoReport
        BY NewCmdTyped DEF NewCmd
      <4>2. cmd'.report = NoReport
        BY <3>2, <4>1 DEF Anew, Command
      <4> QED BY <1>1, <4>2 DEF NoReport
    <3> QED BY <1>1, <3>1, <3>2, StepReports DEF ReportAll
  <2>3. ReportAll'
    BY <1>1, ReportInductive
  <2>4. (cmd.report[k] # 0 =>
           cmd.report[k] = LocalPort(<<cmd.ctx, k>>) /\ OwnPort(cmd.ctx, k))'
    BY <1>1, <2>3 DEF ReportAll, ReportInv, Reported
  <2>5. /\ cmd'.report[k] = LocalPort(<<cmd'.ctx, k>>)
        /\ \A q \in Pid : Bound(q)' /\ Port(q)' = LocalPort(<<cmd'.ctx, k>>) =>
             proc'[q].name = <<cmd'.ctx, k>>
    BY <1>1, <2>4 DEF OwnPort
  <2> QED
    BY <1>1, <2>1, <2>2, <2>5 DEF Holds, Bound, Port
<1>2. ReportAll /\ [Next]_vars =>
        [pc \notin Ended /\ pc' \in {"ok", "already"} =>
           \A k \in Services : \A p \in Pid :
             cmd'.report[k] # 0 /\ Holds(p, cmd'.report[k]) =>
               proc[p].name = <<cmd.ctx, k>>]_vars
  BY <1>1
<1> QED
  BY <1>2, ReportInitial, ReportInductive, PTL DEF Spec, ReportedPortIsOwn
=============================================================================
