---------------------------- MODULE ServiceTunnels ----------------------------
(***************************************************************************)
(* The auxiliary tunnels of k3ctx: after a connect has merged the          *)
(* kubeconfig it sets up a tunnel to ArgoCD, to Alertmanager and to        *)
(* VictoriaMetrics, one after the other, each best effort.  They live in   *)
(* the same state directory as the tunnels of module Tunnels, under the    *)
(* names <context>-argocd, <context>-alertmanager, <context>-victoria-     *)
(* metrics, and outlive the command; the one to an Alertmanager without a  *)
(* NodePort is a `kubectl port-forward` process instead of an ssh.         *)
(*                                                                         *)
(* One command runs at a time (module Tunnels interleaves them), so that   *)
(* a check of a pid file or a kill is one step; the processes and the      *)
(* cluster change between the steps.                                       *)
(*                                                                         *)
(* Sources: Setup in internal/infrastructure/argocd.go, alertmanager.go    *)
(* and victoriametrics.go; cluster.go, cluster_steps.go,                   *)
(* internal/tunnel/tunnel.go.                                              *)
(***************************************************************************)
EXTENDS Integers, Sequences, FiniteSets

CONSTANTS
  Ctx,           \* kubectl context names
  Pid,           \* process ids: bounds the tunnel processes alive at once
  NoPid,         \* no pid: an absent pid file, a nil *int
  Hash,          \* Hash[n]: the first 16 bits of MD5 of the tunnel name n
  RangeStart,    \* RangeStart[k], RangeSize[k]: the port range of a kind
  RangeSize,
  Offers,        \* Offers[k]: what a cluster may offer for service k
  OffersChange   \* the Services of a cluster change while k3ctx is used

Order    == <<"argocd", "alertmanager", "victoriametrics">>
Services == {Order[i] : i \in DOMAIN Order}
Kinds    == Services \cup {"main"}
Names    == Ctx \X Kinds
Context(n) == n[1]
Kind(n)    == n[2]

(* What discovery finds: the transport and the port it goes to.  Only the  *)
(* discovery of Alertmanager returns a Service to reach with kubectl.      *)
NoOffer  == [via |-> "none", target |-> 0]
AnyOffer == {NoOffer} \cup [via : {"ssh", "kubectl"}, target : Nat]

ASSUME ServiceAssumption ==
  /\ Ctx # {} /\ NoPid \notin Pid
  /\ Hash \in [Names -> Nat] /\ RangeStart \in [Kinds -> Nat]
  /\ RangeSize \in [Kinds -> Nat \ {0}]
  /\ Offers \in [Services -> SUBSET AnyOffer]
  /\ \A k \in Services : \A o \in Offers[k] :
       o.via = "kubectl" => k = "alertmanager"
  /\ OffersChange \in BOOLEAN

VARIABLES
  offer,     \* offer[x][k]: what the cluster of x offers for service k
  pidFile,   \* pidFile[n]: the content of <n>.pid
  known,     \* known[x]: the kubeconfig has x and <x>.conn.json is there
  proc,      \* proc[p]: the process with pid p
  pc,        \* the next step of the command, "idle" when there is none
  cmd,       \* its local variables
  lost       \* the names under which a tunnel was started whose pid was not
             \* saved: pgrep did not list it, or the command was killed
             \* before; no code knows

vars == <<offer, pidFile, known, proc, pc, cmd, lost>>

-----------------------------------------------------------------------------
(* A process: "starting" is a kubectl that has not bound its port yet,     *)
(* "dying" an ssh that was sent SIGTERM and has not exited.                *)
NoProc == [state |-> "none", name |-> <<>>, via |-> "none", target |-> 0]
Process == [state : {"starting", "up", "dying"}, name : Names,
            via : {"ssh", "kubectl"}, target : Nat]
Running(n, via, target, state) ==
  [state |-> state, name |-> n, via |-> via, target |-> target]

PortIn(n, kind) == RangeStart[kind] + (Hash[n] % RangeSize[kind])
LocalPort(n)    == PortIn(n, Kind(n))

Alive(p)       == proc[p] # NoProc
Open(p)        == proc[p].state \in {"starting", "up"}
Holds(p, port) == /\ proc[p].state \in {"up", "dying"}
                  /\ LocalPort(proc[p].name) = port
PortFree(port) == \A p \in Pid : ~Holds(p, port)

(* Pids are not reused while a file names them (Tunnels looks at that).    *)
FreshPid(p) == ~Alive(p) /\ \A n \in Names : pidFile[n] # p

IsTunnelRunning(n) == pidFile[n] # NoPid /\ Alive(pidFile[n])

(* IsTunnelRunning removes the pid file of a process that is gone.         *)
RemoveIfDead(n) ==
  pidFile' = [pidFile EXCEPT ![n] = IF IsTunnelRunning(n) THEN @ ELSE NoPid]

-----------------------------------------------------------------------------
Steps  == {"fast", "second", "main", "discover", "check", "dial", "save",
           "login"}
Ended  == {"idle", "ok", "already", "failed"}

NoReport == [k \in Services |-> 0]
NewCmd == [ctx |-> CHOOSE x \in Ctx : TRUE, at |-> 1, want |-> NoOffer,
           report |-> NoReport]

TypeOK ==
  /\ offer \in [Ctx -> [Services -> AnyOffer]]
  /\ pidFile \in [Names -> Pid \cup {NoPid}]
  /\ known \in [Ctx -> BOOLEAN]
  /\ proc \in [Pid -> {NoProc} \cup Process]
  /\ pc \in Steps \cup Ended
  /\ cmd \in [ctx : Ctx, at : 1..Len(Order), want : AnyOffer,
              report : [Services -> Nat]]
  /\ lost \subseteq Names

Init ==
  /\ offer \in [Ctx -> {o \in [Services -> UNION {Offers[k] : k \in Services}] :
                          \A k \in Services : o[k] \in Offers[k]}]
  /\ pidFile = [n \in Names |-> NoPid]
  /\ known = [x \in Ctx |-> FALSE]
  /\ proc = [p \in Pid |-> NoProc]
  /\ pc = "idle"
  /\ cmd = NewCmd
  /\ lost = {}

Main    == <<cmd.ctx, "main">>
Service == Order[cmd.at]
Name    == <<cmd.ctx, Service>>

(* Mutant: the last service has a next one.                                *)
NextServiceOverruns(reported, first, last) ==
  /\ pc' = IF cmd.at < Len(Order) THEN first ELSE last
  /\ cmd' = [cmd EXCEPT !.at = @ + 1]

(* The setup of the next service begins where that of this one ends.       *)
NextService(reported, first, last) ==
  /\ pc' = IF cmd.at < Len(Order) THEN first ELSE last
  /\ cmd' = [cmd EXCEPT !.at = IF @ < Len(Order) THEN @ + 1 ELSE 1,
                        !.want = NoOffer,
                        !.report[Service] = IF reported THEN LocalPort(Name)
                                                        ELSE @]

SetUp(reported) == NextService(reported, "discover", "ok")

-----------------------------------------------------------------------------
(* connect.                                                                *)
StartConnect(x) ==
  /\ pc \in Ended
  /\ pc' = "fast" /\ cmd' = [NewCmd EXCEPT !.ctx = x]
  /\ UNCHANGED <<offer, pidFile, known, proc, lost>>

(* defaultCheckAlreadyConnected: a context whose main tunnel accepts is    *)
(* connected already; discovery does not run.                              *)
FastPath ==
  /\ pc = "fast"
  /\ RemoveIfDead(Main)
  /\ pc' = IF /\ IsTunnelRunning(Main) /\ ~PortFree(LocalPort(Main))
              /\ known[cmd.ctx]
           THEN "second" ELSE "main"
  /\ UNCHANGED <<offer, known, proc, cmd, lost>>

SecondaryLivePort ==
  /\ pc = "second"
  /\ RemoveIfDead(Name)
  /\ NextService(IsTunnelRunning(Name) /\ ~PortFree(LocalPort(Name)),
                 "second", "already")
  /\ UNCHANGED <<offer, known, proc, lost>>

(* A tunnel opened when none of its name is there makes a new beginning.   *)
LostBesides(n) ==
  IF \E p \in Pid : Open(p) /\ proc[p].name = n THEN lost ELSE lost \ {n}

(* ensureTunnel: the pid of a new tunnel is saved unless pgrep misses it.  *)
EnsureMain ==
  \/ IsTunnelRunning(Main) /\ UNCHANGED <<pidFile, proc, lost>>
  \/ /\ ~IsTunnelRunning(Main) /\ PortFree(LocalPort(Main))
     /\ \E p \in Pid :
          /\ FreshPid(p)
          /\ proc' = [proc EXCEPT ![p] = Running(Main, "ssh", 0, "up")]
          /\ \/ /\ pidFile' = [pidFile EXCEPT ![Main] = p]
                /\ lost' = LostBesides(Main)
             \/ /\ pidFile' = [pidFile EXCEPT ![Main] = NoPid]
                /\ lost' = lost \cup {Main}

(* From sshConnect to the merge (module Tunnels in detail): the command    *)
(* fails without a tunnel or with one, or the context has one and is       *)
(* merged.  The kill of a tunnel that fails the verification is the one of *)
(* a TunnelKill before or after this step.                                 *)
ConnectMain ==
  /\ pc = "main"
  /\ \/ /\ pc' = "failed" /\ UNCHANGED <<known, proc, lost>>
        /\ RemoveIfDead(Main) \/ UNCHANGED pidFile
     \/ /\ EnsureMain
        /\ \/ pc' = "failed" /\ UNCHANGED known
           \/ pc' = "discover" /\ known' = [known EXCEPT ![cmd.ctx] = TRUE]
  /\ UNCHANGED <<offer, cmd>>

-----------------------------------------------------------------------------
(* Setup of one service.  Nothing of it fails the command.                 *)
Discover ==
  /\ pc = "discover"
  /\ \/ SetUp(FALSE)
     \/ /\ offer[cmd.ctx][Service] # NoOffer
        /\ pc' = "check"
        /\ cmd' = [cmd EXCEPT !.want = offer[cmd.ctx][Service]]
  /\ UNCHANGED <<offer, pidFile, known, proc, lost>>

AfterTunnel == IF Service = "argocd"
               THEN /\ pc' = "login"
                    /\ cmd' = [cmd EXCEPT !.report[Service] = LocalPort(Name)]
               ELSE SetUp(TRUE)

CheckTunnel ==
  /\ pc = "check"
  /\ RemoveIfDead(Name)
  /\ \/ IsTunnelRunning(Name) /\ AfterTunnel
     \/ ~IsTunnelRunning(Name) /\ pc' = "dial" /\ UNCHANGED cmd
  /\ UNCHANGED <<offer, known, proc, lost>>

(* Mutant: the error of createTunnel is ignored.                           *)
DialFailsReports ==
  /\ pc = "dial"
  /\ pc' = "save" /\ UNCHANGED <<offer, pidFile, known, proc, cmd, lost>>

(* createTunnel and createKubectlPortForward.  ssh is back when it has     *)
(* bound the port and fails when it cannot; kubectl is only started.       *)
DialFails ==
  /\ pc = "dial"
  /\ SetUp(FALSE)
  /\ UNCHANGED <<offer, pidFile, known, proc, lost>>

Dial ==
  /\ pc = "dial"
  /\ cmd.want.via = "ssh" => PortFree(LocalPort(Name))
  /\ \E p \in Pid :
       /\ FreshPid(p)
       /\ proc' = [proc EXCEPT ![p] =
                     Running(Name, cmd.want.via, cmd.want.target,
                             IF cmd.want.via = "ssh" THEN "up" ELSE "starting")]
  /\ lost' = LostBesides(Name)
  /\ pc' = "save"
  /\ UNCHANGED <<offer, pidFile, known, cmd>>

(* What pgrep lists.  The pattern for ssh has the internal IP of the       *)
(* context in it, the one for kubectl nothing but the two ports.           *)
Matching ==
  {p \in Pid : /\ Alive(p)
               /\ proc[p].via = cmd.want.via
               /\ proc[p].target = cmd.want.target
               /\ LocalPort(proc[p].name) = LocalPort(Name)
               /\ cmd.want.via = "ssh" => Context(proc[p].name) = cmd.ctx}

(* Mutant: the pid of a kubectl process is not saved.                      *)
SaveSshPid ==
  /\ pc = "save"
  /\ \/ /\ cmd.want.via = "ssh"
        /\ \E p \in Matching : pidFile' = [pidFile EXCEPT ![Name] = p]
        /\ UNCHANGED lost
     \/ cmd.want.via = "kubectl" /\ UNCHANGED <<pidFile, lost>>
     \/ UNCHANGED pidFile /\ lost' = lost \cup {Name}
  /\ AfterTunnel
  /\ UNCHANGED <<offer, known, proc>>

(* pgrep may miss a process that runs; then no file is written and nothing *)
(* fails.  The port is reported whether or not pgrep has found the process.*)
SavePid ==
  /\ pc = "save"
  /\ \/ /\ \E p \in Matching : pidFile' = [pidFile EXCEPT ![Name] = p]
        /\ UNCHANGED lost
     \/ UNCHANGED pidFile /\ lost' = lost \cup {Name}
  /\ AfterTunnel
  /\ UNCHANGED <<offer, known, proc>>

(* The login of argocd, retried in plaintext; its outcome is a message.    *)
Login ==
  /\ pc = "login"
  /\ SetUp(TRUE)
  /\ UNCHANGED <<offer, pidFile, known, proc, lost>>

-----------------------------------------------------------------------------
(* The other commands.                                                     *)

(* kubectl leaves at SIGTERM, ssh may take a while.                        *)
Signalled(p) == IF proc[p].via = "kubectl" THEN NoProc
                ELSE [proc[p] EXCEPT !.state = "dying"]
KillSet(names) ==
  LET targets == {pidFile[n] : n \in {m \in names : IsTunnelRunning(m)}} IN
  /\ proc' = [p \in Pid |-> IF p \in targets THEN Signalled(p) ELSE proc[p]]
  /\ pidFile' = [n \in Names |-> IF n \in names THEN NoPid ELSE pidFile[n]]
  /\ pc' = "idle" /\ cmd' = NewCmd
  /\ UNCHANGED <<offer, known, lost>>

TunnelKill(n) == pc \in Ended /\ KillSet({n})

(* Mutant: kill-all kills what has a context of its own only.              *)
TunnelKillAllMain == pc \in Ended /\ KillSet(Ctx \X {"main"})

TunnelKillAll == pc \in Ended /\ KillSet(Names)

-----------------------------------------------------------------------------
(* What happens around the command.                                        *)
Interrupt ==
  /\ pc \notin Ended
  /\ pc' = "idle" /\ cmd' = NewCmd
  /\ lost' = IF pc = "save" THEN lost \cup {Name} ELSE lost
  /\ UNCHANGED <<offer, pidFile, known, proc>>

ClusterChanges ==
  /\ OffersChange
  /\ \E x \in Ctx : \E k \in Services : \E o \in Offers[k] :
       offer' = [offer EXCEPT ![x][k] = o]
  /\ UNCHANGED <<pidFile, known, proc, pc, cmd, lost>>

KubectlBinds(p) ==
  /\ proc[p].state = "starting" /\ PortFree(LocalPort(proc[p].name))
  /\ proc' = [proc EXCEPT ![p].state = "up"]
  /\ UNCHANGED <<offer, pidFile, known, pc, cmd, lost>>

(* A connection is lost, a pod restarts, a port is taken, ssh has stopped. *)
ProcessEnds(p) ==
  /\ Alive(p)
  /\ proc' = [proc EXCEPT ![p] = NoProc]
  /\ UNCHANGED <<offer, pidFile, known, pc, cmd, lost>>

-----------------------------------------------------------------------------
Connect == \/ \E x \in Ctx : StartConnect(x)
           \/ FastPath \/ SecondaryLivePort \/ ConnectMain \/ Discover
           \/ CheckTunnel \/ DialFails \/ Dial \/ SavePid \/ Login

Next ==
  \/ Connect \/ Interrupt \/ ClusterChanges \/ TunnelKillAll
  \/ \E n \in Names : TunnelKill(n)
  \/ \E p \in Pid : KubectlBinds(p) \/ ProcessEnds(p)

Spec == Init /\ [][Next]_vars

-----------------------------------------------------------------------------
(* Properties.                                                             *)

(* Every tunnel that is open is in the pid file of its name, unless a      *)
(* connect is at work on that name: it can be reused and killed, the       *)
(* kubectl process like the ssh ones (SaveTunnelPID after createTunnel and *)
(* createKubectlPortForward).  Excepted are the names in `lost`: a pid     *)
(* that pgrep does not list is nil and not saved (CreateTunnel, Create-    *)
(* KubectlPortForward), nor is one of a command killed before.  Such a     *)
(* tunnel stays outside the files, and no other name suffers from it.  It  *)
(* needs Alertmanager ports that do not collide.                           *)
ServiceTunnelIsFound ==
  \A p \in Pid : Open(p) /\ proc[p].name \notin lost =>
    pidFile[proc[p].name] = p \/ (pc = "save" /\ proc[p].name = Name)

(* tunnel-kill-all takes the auxiliary tunnels with it                     *)
(* (openspec/specs/alertmanager-auto-discovery/spec.md, DD-3), except one  *)
(* of a name under which pgrep missed a tunnel or a command was killed     *)
(* before it saved the pid, and with the same ports.                       *)
KillAllTakesServices ==
  [][TunnelKillAll => \A p \in Pid : Open(p)' => proc'[p].name \in lost]_vars

(* A connect never reports a port on which the service of another context  *)
(* listens, though ports may collide, tunnels may be left over from killed *)
(* commands and die at any time (the check in Setup, then                  *)
(* ExitOnForwardFailure).  It holds of ssh tunnels.                        *)
ReportedPortIsOwn ==
  [][pc \notin Ended /\ pc' \in {"ok", "already"} =>
       \A k \in Services : \A p \in Pid :
         cmd'.report[k] # 0 /\ Holds(p, cmd'.report[k]) =>
           proc[p].name = <<cmd.ctx, k>>]_vars
=============================================================================
