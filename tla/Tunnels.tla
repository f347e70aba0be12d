------------------------------- MODULE Tunnels -------------------------------
(***************************************************************************)
(* The managed SSH tunnels of k3ctx.                                       *)
(*                                                                         *)
(* Every invocation of the CLI is an operating-system process of its own;  *)
(* the invocations share the tunnel state directory (one <context>.pid and *)
(* one <context>.conn.json per context), the kubeconfig, the local TCP     *)
(* ports and the background `ssh -f -N -L` processes, and take no lock.    *)
(* The module models the commands connect, tunnel-kill, tunnel-kill-all,   *)
(* tunnel-reconnect and status / tunnel-list; one action is one file or    *)
(* process operation of the code, so that the commands interleave where    *)
(* the program does.                                                       *)
(*                                                                         *)
(* Sources: internal/tunnel/tunnel.go, internal/infrastructure/cluster.go, *)
(* cluster_steps.go, tunnelmgr.go, internal/application/usecases.          *)
(***************************************************************************)
EXTENDS Integers, FiniteSets

CONSTANTS
  Ctx,           \* kubectl context names
  Cli,           \* the invocations that may run at the same time
  Pid,           \* process ids: bounds the ssh processes alive at once
  Hash,          \* Hash[x]: the first 16 bits of MD5(x)
  RangeStart,    \* PortRangeStart of the configuration
  RangeSize,     \* PortRangeSize of the configuration
  NoPid,         \* no pid: an absent pid file, a nil *int
  NoCtx,         \* the context of a process that is no tunnel
  VerifyAPI,     \* VerifyAPIReady of the connector
  PgrepMayMiss,  \* pgrep may fail to list a tunnel that is running
  PidReuse,      \* the OS may hand out a pid that a file or a CLI still names
  Interrupts,    \* an invocation may be killed between two of its steps
  Serial         \* the user never overlaps two commands on one context

ASSUME ModelAssumption ==
  /\ Hash \in [Ctx -> Nat] /\ RangeStart \in Nat /\ RangeSize \in Nat \ {0}
  /\ NoPid \notin Pid /\ NoCtx \notin Ctx
  /\ {VerifyAPI, PgrepMayMiss, PidReuse, Interrupts, Serial} \subseteq BOOLEAN

VARIABLES
  pidFile,    \* pidFile[x]: the content of <x>.pid, NoPid when there is none
  conn,       \* conn[x]: <x>.conn.json has been written
  kube,       \* kube[x]: ~/.kube/config has a context named x
  procState,  \* procState[p]: what the process with pid p is doing
  procCtx,    \* procCtx[p]: the context whose tunnel p is, or NoCtx
  pc,         \* pc[c]: the next step of invocation c
  cli         \* cli[c]: the local variables of invocation c

files == <<pidFile, conn, kube>>
procs == <<procState, procCtx>>
vars  == <<pidFile, conn, kube, procState, procCtx, pc, cli>>

-----------------------------------------------------------------------------
(* The processes.  "auth": ssh has started and is not connected yet;       *)
(* "up": it forwards; "stuck": it accepts on the local port and the remote *)
(* end does not answer; "dying": it has been sent SIGTERM and has not      *)
(* exited; "foreign": a process that is no tunnel.                         *)
ProcStates == {"none", "auth", "up", "stuck", "dying", "foreign"}
Live       == {"up", "stuck"}
Listening  == {"up", "stuck", "dying"}

GetUniquePort(x) == RangeStart + (Hash[x] % RangeSize)

Alive(p)       == procState[p] # "none"
Holds(p, port) == /\ procState[p] \in Listening
                  /\ procCtx[p] \in Ctx
                  /\ GetUniquePort(procCtx[p]) = port
PortFree(port) == \A p \in Pid : ~Holds(p, port)
IsPortLive(x)  == ~PortFree(GetUniquePort(x))

(* /version answers for x: a tunnel to the cluster of x forwards (the TLS  *)
(* configuration trusts only the CA of that cluster).                      *)
Serves(x) == \E p \in Pid : procState[p] = "up" /\ procCtx[p] = x

-----------------------------------------------------------------------------
(* The invocations.                                                        *)
Commands == {"none", "connect", "kill", "killall", "reconnect", "status"}
Ended    == {"idle", "ok", "already", "failed"}
Steps    == {"fast", "ensure", "list", "port", "files", "prepare", "read",
             "signal", "remove", "params", "dial", "auth", "pgrep", "save",
             "saveconn", "poll", "merge", "killread", "killsig", "killrm"}

(* What the caller of IsTunnelRunning or of KillTunnel is doing.           *)
Callers == {"fast", "ensure", "list", "fresh", "stale", "kill", "redial",
            "killall"}

Local ==
  [cmd : Commands, ctx : Ctx \cup {NoCtx}, for : Callers,
   pid : Pid \cup {NoPid}, reused : BOOLEAN, second : BOOLEAN,
   todo : SUBSET Ctx, running : SUBSET Ctx]

NewLocal == [cmd |-> "none", ctx |-> NoCtx, for |-> "fast", pid |-> NoPid,
             reused |-> FALSE, second |-> FALSE, todo |-> {},
             running |-> {}]

(* A step finds the local variables it reads: a signal is sent to a pid    *)
(* that was read, a file is removed for a context that is being worked on, *)
(* and a listing holds no pid between two visits.                          *)
ControlOK ==
  \A c \in Cli :
    /\ pc[c] \in Steps \ {"list"} => cli[c].ctx \in Ctx
    /\ pc[c] \in {"signal", "remove", "killsig", "auth", "pgrep"} =>
         cli[c].pid \in Pid
    /\ pc[c] = "list" => cli[c].pid = NoPid

TypeOK ==
  /\ pidFile \in [Ctx -> Pid \cup {NoPid}]
  /\ conn \in [Ctx -> BOOLEAN] /\ kube \in [Ctx -> BOOLEAN]
  /\ procState \in [Pid -> ProcStates]
  /\ procCtx \in [Pid -> Ctx \cup {NoCtx}]
  /\ pc \in [Cli -> Ended \cup Steps]
  /\ cli \in [Cli -> Local]
  /\ ControlOK

Init ==
  /\ pidFile = [x \in Ctx |-> NoPid]
  /\ conn = [x \in Ctx |-> FALSE]
  /\ kube = [x \in Ctx |-> FALSE]
  /\ procState = [p \in Pid |-> "none"]
  /\ procCtx = [p \in Pid |-> NoCtx]
  /\ pc = [c \in Cli |-> "idle"]
  /\ cli = [c \in Cli |-> NewLocal]

(* A pid the OS can give to a new process.  Without PidReuse it is one     *)
(* that no pid file and no invocation names any more.                      *)
Named(p) == (\E x \in Ctx : pidFile[x] = p) \/ (\E c \in Cli : cli[c].pid = p)
FreshPid(p) == procState[p] = "none" /\ (PidReuse \/ ~Named(p))

Goto(c, label) == pc' = [pc EXCEPT ![c] = label]

(* The end of a command: its local variables are gone.                     *)
End(c, result) ==
  /\ Goto(c, result)
  /\ cli' = [cli EXCEPT ![c] = NewLocal]

-----------------------------------------------------------------------------
(* Starting a command.  Two commands overlap when they can touch the same  *)
(* context; the listing commands touch every context.                      *)
Listings == {"killall", "status"}
Busy(c)  == pc[c] \notin Ended
MayStart(c, name, x) ==
  /\ ~Busy(c)
  /\ Serial => \A d \in Cli \ {c} :
       Busy(d) => /\ name \notin Listings /\ cli[d].cmd \notin Listings
                  /\ cli[d].ctx # x

Start(c, name, x, label, why, found) ==
  /\ MayStart(c, name, x)
  /\ Goto(c, label)
  /\ cli' = [cli EXCEPT ![c] = [NewLocal EXCEPT !.cmd = name, !.ctx = x,
                                                !.for = why, !.todo = found]]
  /\ UNCHANGED <<files, procs>>

StartConnect(c, x)   == Start(c, "connect", x, "read", "fast", {})
StartKill(c, x)      == Start(c, "kill", x, "killread", "kill", {})
StartReconnect(c, x) == Start(c, "reconnect", x, "params", "redial", {})

(* ListContextStatus globs the pid files once and then visits each.        *)
PidFiles         == {x \in Ctx : pidFile[x] # NoPid}
StartListing(c, name) == Start(c, name, NoCtx, "list", "list", PidFiles)

-----------------------------------------------------------------------------
(* Mutant: a tunnel that does not answer is not listed as running.         *)
TunnelUpListsHealthy(c) ==
  \/ cli[c].for = "fast" /\ Goto(c, "port")
     /\ cli' = [cli EXCEPT ![c].pid = NoPid]
  \/ cli[c].for = "ensure" /\ Goto(c, IF VerifyAPI THEN "poll" ELSE "merge")
     /\ cli' = [cli EXCEPT ![c].pid = NoPid, ![c].reused = TRUE]
  \/ cli[c].for = "list" /\ Goto(c, "list")
     /\ cli' = [cli EXCEPT ![c].pid = NoPid, ![c].ctx = NoCtx,
                           ![c].running = @ \cup {x \in {cli[c].ctx} : Serves(x)}]

(* IsTunnelRunning: read the pid file, signal 0, remove the file of a dead *)
(* process.  TunnelUp and TunnelDown are the two ways it returns.          *)
TunnelUp(c) ==
  LET me == cli[c] IN
  \/ me.for = "fast" /\ Goto(c, "port")
     /\ cli' = [cli EXCEPT ![c].pid = NoPid]
  \/ me.for = "ensure" /\ Goto(c, IF VerifyAPI THEN "poll" ELSE "merge")
     /\ cli' = [cli EXCEPT ![c].pid = NoPid, ![c].reused = TRUE]
  \/ me.for = "list" /\ Goto(c, "list")
     /\ cli' = [cli EXCEPT ![c].pid = NoPid, ![c].ctx = NoCtx,
                           ![c].running = @ \cup {me.ctx}]

TunnelDown(c) ==
  \/ cli[c].for = "fast" /\ Goto(c, "prepare")
     /\ cli' = [cli EXCEPT ![c].pid = NoPid]
  \/ cli[c].for = "ensure" /\ Goto(c, "dial")
     /\ cli' = [cli EXCEPT ![c].pid = NoPid, ![c].reused = FALSE]
  \/ cli[c].for = "list" /\ Goto(c, "list")
     /\ cli' = [cli EXCEPT ![c].pid = NoPid, ![c].ctx = NoCtx]

ReadPid(c) ==
  /\ pc[c] = "read"
  /\ \/ pidFile[cli[c].ctx] = NoPid /\ TunnelDown(c)
     \/ /\ pidFile[cli[c].ctx] # NoPid
        /\ Goto(c, "signal")
        /\ cli' = [cli EXCEPT ![c].pid = pidFile[cli[c].ctx]]
  /\ UNCHANGED <<files, procs>>

SignalZero(c) ==
  /\ pc[c] = "signal"
  /\ \/ Alive(cli[c].pid) /\ TunnelUp(c)
     \/ ~Alive(cli[c].pid) /\ Goto(c, "remove") /\ UNCHANGED cli
  /\ UNCHANGED <<files, procs>>

RemoveDead(c) ==
  /\ pc[c] = "remove"
  /\ pidFile' = [pidFile EXCEPT ![cli[c].ctx] = NoPid]
  /\ TunnelDown(c)
  /\ UNCHANGED <<conn, kube, procs>>

-----------------------------------------------------------------------------
(* Mutant: the pid file is removed before it is read.                      *)
KillReadAfterRemove(c) ==
  /\ pc[c] = "killread"
  /\ Goto(c, "killrm")
  /\ cli' = [cli EXCEPT ![c].pid = NoPid]
  /\ UNCHANGED <<files, procs>>

(* Mutant: a missing pid file is not noticed, and "no pid" is signalled.   *)
KillReadUnchecked(c) ==
  /\ pc[c] = "killread"
  /\ Goto(c, "killsig")
  /\ cli' = [cli EXCEPT ![c].pid = pidFile[cli[c].ctx]]
  /\ UNCHANGED <<files, procs>>

(* KillTunnel: read the pid file, SIGTERM, and (deferred, so on every      *)
(* path) remove the file.  It does not wait for the process to exit.       *)
KillRead(c) ==
  /\ pc[c] = "killread"
  /\ Goto(c, IF pidFile[cli[c].ctx] = NoPid THEN "killrm" ELSE "killsig")
  /\ cli' = [cli EXCEPT ![c].pid = pidFile[cli[c].ctx]]
  /\ UNCHANGED <<files, procs>>

KillSignal(c) ==
  /\ pc[c] = "killsig"
  /\ \/ /\ procState[cli[c].pid] \in Listening \cup {"foreign"}
        /\ procState' = [procState EXCEPT ![cli[c].pid] = "dying"]
        /\ UNCHANGED procCtx
     \/ /\ procState[cli[c].pid] = "auth"
        /\ procState' = [procState EXCEPT ![cli[c].pid] = "none"]
        /\ procCtx' = [procCtx EXCEPT ![cli[c].pid] = NoCtx]
     \/ procState[cli[c].pid] = "none" /\ UNCHANGED procs
  /\ Goto(c, "killrm")
  /\ UNCHANGED <<files, cli>>

AfterKill(c) ==
  \/ cli[c].for = "kill" /\ End(c, "idle")
  \/ cli[c].for = "fresh" /\ End(c, "failed")
  \/ cli[c].for = "redial" /\ Goto(c, "dial")
     /\ cli' = [cli EXCEPT ![c].pid = NoPid]
  \/ cli[c].for = "stale" /\ Goto(c, "read")
     /\ cli' = [cli EXCEPT ![c].pid = NoPid, ![c].for = "ensure",
                           ![c].second = TRUE]
  \/ cli[c].for = "killall" /\ Goto(c, "list")
     /\ cli' = [cli EXCEPT ![c].pid = NoPid, ![c].for = "list",
                           ![c].ctx = NoCtx]

KillRemove(c) ==
  /\ pc[c] = "killrm"
  /\ pidFile' = [pidFile EXCEPT ![cli[c].ctx] = NoPid]
  /\ AfterKill(c)
  /\ UNCHANGED <<conn, kube, procs>>

-----------------------------------------------------------------------------
(* status, tunnel-list and tunnel-kill-all.  ListContextStatus asks        *)
(* IsTunnelRunning of every file of the glob; tunnel-kill-all then kills   *)
(* the ones found running.  The order of the visits is left open.          *)
VisitNext(c) ==
  /\ pc[c] = "list"
  /\ \E x \in cli[c].todo :
       cli' = [cli EXCEPT ![c].todo = @ \ {x}, ![c].ctx = x]
  /\ Goto(c, "read")
  /\ UNCHANGED <<files, procs>>

KillNext(c) ==
  /\ pc[c] = "list" /\ cli[c].todo = {} /\ cli[c].cmd = "killall"
  /\ \E x \in cli[c].running :
       cli' = [cli EXCEPT ![c].running = @ \ {x}, ![c].ctx = x,
                          ![c].for = "killall"]
  /\ Goto(c, "killread")
  /\ UNCHANGED <<files, procs>>

EndListing(c) ==
  /\ pc[c] = "list" /\ cli[c].todo = {}
  /\ cli[c].cmd = "status" \/ cli[c].running = {}
  /\ End(c, "idle")
  /\ UNCHANGED <<files, procs>>

-----------------------------------------------------------------------------
(* connect: the fast path of defaultCheckAlreadyConnected, which ends the  *)
(* command without SSH and without asking the Kubernetes API.              *)
ProbePort(c) ==
  /\ pc[c] = "port"
  /\ Goto(c, IF IsPortLive(cli[c].ctx) THEN "files" ELSE "prepare")
  /\ UNCHANGED <<files, procs, cli>>

CheckAlreadyConnected(c) ==
  /\ pc[c] = "files"
  /\ \/ kube[cli[c].ctx] /\ conn[cli[c].ctx] /\ End(c, "already")
     \/ ~(kube[cli[c].ctx] /\ conn[cli[c].ctx]) /\ Goto(c, "prepare")
        /\ UNCHANGED cli
  /\ UNCHANGED <<files, procs>>

(* sshConnect and prepareKubeconfig: they leave the tunnels alone and may  *)
(* fail.                                                                   *)
Prepare(c) ==
  /\ pc[c] = "prepare"
  /\ \/ Goto(c, "read") /\ cli' = [cli EXCEPT ![c].for = "ensure"]
     \/ End(c, "failed")
  /\ UNCHANGED <<files, procs>>

-----------------------------------------------------------------------------
(* CreateTunnel: start ssh, which authenticates, binds the local port and  *)
(* goes to the background, or exits with an error (ExitOnForwardFailure);  *)
(* then ask pgrep for the pid.                                             *)
Dial(c) ==
  /\ pc[c] = "dial"
  /\ \/ \E p \in Pid :
          /\ FreshPid(p)
          /\ procState' = [procState EXCEPT ![p] = "auth"]
          /\ procCtx' = [procCtx EXCEPT ![p] = cli[c].ctx]
          /\ cli' = [cli EXCEPT ![c].pid = p]
          /\ Goto(c, "auth")
     \/ End(c, "failed") /\ UNCHANGED procs
  /\ UNCHANGED files

(* Mutant: without ExitOnForwardFailure, ssh stays when the port is taken. *)
DialUpAnyPort(c) ==
  /\ pc[c] = "auth" /\ procState[cli[c].pid] = "auth"
  /\ procCtx[cli[c].pid] = cli[c].ctx
  /\ procState' = [procState EXCEPT ![cli[c].pid] = "up"]
  /\ Goto(c, "pgrep")
  /\ UNCHANGED <<files, procCtx, cli>>

DialUp(c) ==
  /\ pc[c] = "auth" /\ procState[cli[c].pid] = "auth"
  /\ procCtx[cli[c].pid] = cli[c].ctx
  /\ PortFree(GetUniquePort(cli[c].ctx))
  /\ procState' = [procState EXCEPT ![cli[c].pid] = "up"]
  /\ Goto(c, "pgrep")
  /\ UNCHANGED <<files, procCtx, cli>>

DialFails(c) ==
  /\ pc[c] = "auth"
  /\ \/ /\ procState[cli[c].pid] = "auth" /\ procCtx[cli[c].pid] = cli[c].ctx
        /\ procState' = [procState EXCEPT ![cli[c].pid] = "none"]
        /\ procCtx' = [procCtx EXCEPT ![cli[c].pid] = NoCtx]
     \/ ~(procState[cli[c].pid] = "auth" /\ procCtx[cli[c].pid] = cli[c].ctx)
        /\ UNCHANGED procs
  /\ End(c, "failed")
  /\ UNCHANGED files

(* Mutant: the pattern names the local port only.                          *)
MatchingPort(x) == {p \in Pid : /\ procCtx[p] \in Ctx
                                /\ GetUniquePort(procCtx[p]) = GetUniquePort(x)}

(* pgrep -f "ssh.*<port>:<ip>:<remote>" lists every ssh of the context,    *)
(* whoever started it and whatever it is doing; the code takes one.        *)
Matching(x) == {p \in Pid : procCtx[p] = x}

Pgrep(c) ==
  /\ pc[c] = "pgrep"
  /\ \/ \E p \in Matching(cli[c].ctx) : cli' = [cli EXCEPT ![c].pid = p]
     \/ /\ Matching(cli[c].ctx) = {} \/ PgrepMayMiss
        /\ cli' = [cli EXCEPT ![c].pid = NoPid]
  /\ Goto(c, "save")
  /\ UNCHANGED <<files, procs>>

(* Mutant: tunnel-reconnect does not save the pid of the new tunnel.       *)
SavePidOfConnect(c) ==
  /\ pc[c] = "save"
  /\ \/ cli[c].pid = NoPid /\ UNCHANGED pidFile
     \/ /\ cli[c].pid # NoPid /\ cli[c].cmd = "connect"
        /\ pidFile' = [pidFile EXCEPT ![cli[c].ctx] = cli[c].pid]
     \/ cli[c].cmd = "reconnect" /\ UNCHANGED pidFile
  /\ \/ cli[c].cmd = "reconnect" /\ End(c, "ok")
     \/ /\ cli[c].cmd = "connect" /\ Goto(c, "saveconn")
        /\ cli' = [cli EXCEPT ![c].pid = NoPid]
  /\ UNCHANGED <<conn, kube, procs>>

(* SaveTunnelPID does nothing for a nil pid.                               *)
SavePid(c) ==
  /\ pc[c] = "save"
  /\ \/ cli[c].pid = NoPid /\ UNCHANGED pidFile
     \/ /\ cli[c].pid # NoPid
        /\ pidFile' = [pidFile EXCEPT ![cli[c].ctx] = cli[c].pid]
  /\ \/ cli[c].cmd = "reconnect" /\ End(c, "ok")
     \/ /\ cli[c].cmd = "connect" /\ Goto(c, "saveconn")
        /\ cli' = [cli EXCEPT ![c].pid = NoPid]
  /\ UNCHANGED <<conn, kube, procs>>

SaveConnParams(c) ==
  /\ pc[c] = "saveconn"
  /\ conn' = [conn EXCEPT ![cli[c].ctx] = TRUE]
  /\ Goto(c, IF VerifyAPI THEN "poll" ELSE "merge")
  /\ UNCHANGED <<pidFile, kube, procs, cli>>

-----------------------------------------------------------------------------
(* verifyOrRecreateTunnel: a fresh tunnel that does not answer is killed   *)
(* and the command fails; a reused one is killed and replaced, once.       *)
PollReady(c) ==
  /\ pc[c] = "poll" /\ Serves(cli[c].ctx)
  /\ Goto(c, "merge")
  /\ UNCHANGED <<files, procs, cli>>

(* Mutant: a fresh tunnel that fails is replaced, like a reused one.       *)
PollFailsRetries(c) ==
  /\ pc[c] = "poll" /\ ~Serves(cli[c].ctx)
  /\ Goto(c, "killread")
  /\ cli' = [cli EXCEPT ![c].for = "stale"]
  /\ UNCHANGED <<files, procs>>

PollFails(c) ==
  /\ pc[c] = "poll" /\ ~Serves(cli[c].ctx)
  /\ \/ /\ ~cli[c].reused /\ Goto(c, "killread")
        /\ cli' = [cli EXCEPT ![c].for = "fresh"]
     \/ /\ cli[c].reused /\ ~cli[c].second /\ Goto(c, "killread")
        /\ cli' = [cli EXCEPT ![c].for = "stale"]
     \/ cli[c].reused /\ cli[c].second /\ End(c, "failed")
  /\ UNCHANGED <<files, procs>>

Merge(c) ==
  /\ pc[c] = "merge"
  /\ \/ kube' = [kube EXCEPT ![cli[c].ctx] = TRUE] /\ End(c, "ok")
     \/ UNCHANGED kube /\ End(c, "failed")
  /\ UNCHANGED <<pidFile, conn, procs>>

(* tunnel-reconnect needs the connection parameters of an earlier connect. *)
LoadConnParams(c) ==
  /\ pc[c] = "params"
  /\ \/ conn[cli[c].ctx] /\ Goto(c, "killread") /\ UNCHANGED cli
     \/ ~conn[cli[c].ctx] /\ End(c, "failed")
  /\ UNCHANGED <<files, procs>>

-----------------------------------------------------------------------------
(* What happens around the invocations.                                    *)
Interrupt(c) ==
  /\ Interrupts /\ Busy(c)
  /\ End(c, "idle")
  /\ UNCHANGED <<files, procs>>

Becomes(p, s) ==
  /\ procState' = [procState EXCEPT ![p] = s]
  /\ procCtx' = [procCtx EXCEPT ![p] = IF s = "none" THEN NoCtx ELSE @]
  /\ UNCHANGED <<files, pc, cli>>

(* Only the poll tells a stalled tunnel from one that answers.             *)
TunnelDies(p)     == procState[p] \in Live /\ Becomes(p, "none")
TunnelStalls(p)   == VerifyAPI /\ procState[p] = "up" /\ Becomes(p, "stuck")
TunnelRecovers(p) == procState[p] = "stuck" /\ Becomes(p, "up")
DyingExits(p)     == procState[p] = "dying" /\ Becomes(p, "none")

(* An ssh whose invocation was killed goes on alone.                       *)
LoneSsh(p) ==
  /\ procState[p] = "auth"
  /\ \A c \in Cli : ~(pc[c] = "auth" /\ cli[c].pid = p)
  /\ \/ Becomes(p, "none")
     \/ PortFree(GetUniquePort(procCtx[p])) /\ Becomes(p, "up")

ForeignStarts(p) == PidReuse /\ procState[p] = "none" /\ Becomes(p, "foreign")
ForeignExits(p)  == procState[p] = "foreign" /\ Becomes(p, "none")

-----------------------------------------------------------------------------
CliStep(c) ==
  \/ ReadPid(c) \/ SignalZero(c) \/ RemoveDead(c)
  \/ KillRead(c) \/ KillSignal(c) \/ KillRemove(c)
  \/ VisitNext(c) \/ KillNext(c) \/ EndListing(c)
  \/ ProbePort(c) \/ CheckAlreadyConnected(c) \/ Prepare(c)
  \/ Dial(c) \/ DialUp(c) \/ DialFails(c) \/ Pgrep(c)
  \/ SavePid(c) \/ SaveConnParams(c)
  \/ PollReady(c) \/ PollFails(c) \/ Merge(c) \/ LoadConnParams(c)

StartStep(c) ==
  \/ \E x \in Ctx : StartConnect(c, x) \/ StartKill(c, x)
                                       \/ StartReconnect(c, x)
  \/ \E name \in Listings : StartListing(c, name)

ProcStep(p) ==
  \/ TunnelDies(p) \/ TunnelStalls(p) \/ TunnelRecovers(p) \/ DyingExits(p)
  \/ LoneSsh(p) \/ ForeignStarts(p) \/ ForeignExits(p)

Next ==
  \/ \E c \in Cli : CliStep(c) \/ StartStep(c) \/ Interrupt(c)
  \/ \E p \in Pid : ProcStep(p)

Spec == Init /\ [][Next]_vars

(* An invocation that has started takes its steps: nothing it does waits   *)
(* for another one.  Every file operation returns and the poll has a       *)
(* deadline; that ssh connects or gives up is assumed of it (no timeout    *)
(* surrounds it).                                                          *)
FairSpec == Spec /\ \A c \in Cli : WF_vars(CliStep(c))

-----------------------------------------------------------------------------
(* Properties.                                                             *)

(* No pid file ever names the tunnel of another context, however the       *)
(* commands interleave, so a kill or a reuse of x meets a tunnel of x      *)
(* (KillTunnel, IsTunnelRunning, SaveTunnelPID after pgrep).  It needs     *)
(* ~PidReuse.                                                              *)
PidFileNamesOwnTunnel ==
  \A x \in Ctx : pidFile[x] # NoPid =>
    procState[pidFile[x]] = "none" \/ procCtx[pidFile[x]] = x

(* Two commands never leave two tunnels of one context behind, though      *)
(* nothing locks the check in ensureTunnel against the dial that follows:  *)
(* the local port admits one listener (ExitOnForwardFailure=yes in         *)
(* buildSSHTunnelArgs).                                                    *)
OneListenerPerPort ==
  \A p, q \in Pid : \A x \in Ctx :
    Holds(p, GetUniquePort(x)) /\ Holds(q, GetUniquePort(x)) => p = q

(* A SIGTERM goes only to a tunnel of the context the command is killing   *)
(* (README: "terminate managed tunnel processes").                         *)
SignalsOwnTunnel ==
  \A p \in Pid :
    procState[p] # "dying" /\ procState'[p] = "dying" =>
      \E c \in Cli : /\ pc[c] = "killsig" /\ pc'[c] = "killrm"
                     /\ cli[c].ctx = procCtx[p]
SignalsOnlyOwnTunnels == [][SignalsOwnTunnel]_vars

(* A live tunnel is in the pid file of its context once no command on that *)
(* context is under way: it can be found, reused and killed.  It needs     *)
(* Serial, ~Interrupts and ~PgrepMayMiss.                                  *)
Touches(c, x) == Busy(c) /\ (cli[c].ctx = x \/ cli[c].cmd \in Listings)
Orphan(p)     == procState[p] \in Live /\ pidFile[procCtx[p]] # p
NoOrphan      == \A p \in Pid : Orphan(p) =>
                   \E c \in Cli : Touches(c, procCtx[p])

(* When tunnel-kill x, or a connect to x whose fresh tunnel did not        *)
(* answer, has ended, no tunnel of x is left running ("kills that tunnel   *)
(* and returns a retryable error").                                        *)
NoTunnelLeft(x) ==
  \A p \in Pid : procState'[p] \in Live \cup {"auth"} => procCtx'[p] # x
KillLeavesNoTunnel ==
  [][\A c \in Cli :
       /\ pc[c] = "killrm" /\ pc'[c] # pc[c]
       /\ cli[c].for \in {"kill", "fresh"}
       => NoTunnelLeft(cli[c].ctx)]_vars

(* tunnel-kill-all leaves no tunnel at all: the snapshot of the pid files  *)
(* it works from misses none, and the check of each removes no file of a   *)
(* tunnel it should have killed.                                           *)
KillAllLeavesNone ==
  [][\A c \in Cli :
       /\ cli[c].cmd = "killall" /\ pc[c] = "list" /\ pc'[c] = "idle"
       => \A x \in Ctx : NoTunnelLeft(x)]_vars

(* Every command ends: no loop of verifyOrRecreateTunnel or of the listing *)
(* runs for ever, whatever the other commands and the tunnels do.          *)
EveryCommandEnds == \A c \in Cli : Busy(c) ~> ~Busy(c)

-----------------------------------------------------------------------------
(* Inductive strengthenings, proved in the modules Tunnels*Proofs.         *)

(* Whatever a pid file or an invocation names is a tunnel of its context   *)
(* or no process.                                                          *)
OwnInv ==
  /\ \A p \in Pid : /\ procState[p] # "foreign"
                    /\ procState[p] = "none" <=> procCtx[p] = NoCtx
  /\ PidFileNamesOwnTunnel
  /\ \A c \in Cli : cli[c].pid # NoPid =>
       procCtx[cli[c].pid] \in {NoCtx, cli[c].ctx}

(* At most one command at work on a context; a listing command is alone.   *)
SerialInv ==
  /\ \A c \in Cli : Busy(c) =>
       (cli[c].cmd \in Listings <=> cli[c].for \in {"list", "killall"})
  /\ \A c \in Cli : Busy(c) /\ cli[c].cmd \in Listings =>
       pc[c] \in {"list", "read", "signal", "remove",
                 "killread", "killsig", "killrm"}
  /\ \A c \in Cli : pc[c] = "list" => cli[c].cmd \in Listings
  /\ \A c, d \in Cli : c # d /\ Busy(c) /\ Busy(d) =>
       /\ cli[c].cmd \notin Listings
       /\ cli[c].ctx # cli[d].ctx

(* A live tunnel is in the pid file of its context, or in the hands of the *)
(* command that is about to write it there.                                *)
InHand(p) == \E c \in Cli : /\ pc[c] \in {"pgrep", "save"}
                           /\ cli[c].ctx = procCtx[p] /\ cli[c].pid = p
Accounts(c) ==
  /\ pc[c] \in {"signal", "remove", "killsig"} =>
       pidFile[cli[c].ctx] = cli[c].pid
  /\ pc[c] = "remove" => procState[cli[c].pid] = "none"
  /\ pc[c] \in {"killrm", "dial"} =>
       \A p \in Pid : procCtx[p] = cli[c].ctx => procState[p] = "dying"
  /\ pc[c] = "auth" =>
       \A p \in Pid \ {cli[c].pid} :
         procCtx[p] = cli[c].ctx => procState[p] = "dying"
  /\ pc[c] \in {"pgrep", "save"} =>
       \A p \in Pid : procCtx[p] = cli[c].ctx => p = cli[c].pid

Accounted ==
  /\ \A p \in Pid : procState[p] \in Live =>
       pidFile[procCtx[p]] = p \/ InHand(p)
  /\ \A p \in Pid : procState[p] = "auth" =>
       \E c \in Cli : /\ pc[c] = "auth" /\ cli[c].pid = p
                      /\ cli[c].ctx = procCtx[p]
  /\ \A c \in Cli : Accounts(c)

(* tunnel-kill-all still has every live tunnel before it.                  *)
KillAllCovers ==
  \A c \in Cli : Busy(c) /\ cli[c].cmd = "killall" =>
    \A p \in Pid : procState[p] \in Live =>
      \/ procCtx[p] \in cli[c].todo \cup cli[c].running
      \/ pc[c] # "list" /\ procCtx[p] = cli[c].ctx

=============================================================================
