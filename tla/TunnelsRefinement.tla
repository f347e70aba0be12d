-------------------------- MODULE TunnelsRefinement --------------------------
(***************************************************************************)
(* Tunnels, for commands that do not overlap on a context, are not killed  *)
(* and find their pids, implements TunnelService.                          *)
(***************************************************************************)
EXTENDS Tunnels

(* The tunnel of x is what its ssh processes are doing.                    *)
InState(x, states) == \E p \in Pid : procCtx[p] = x /\ procState[p] \in states
TunnelOf(x) == IF InState(x, Live) THEN "up"
               ELSE IF InState(x, {"dying"}) THEN "closing" ELSE "none"

(* The context of a listing command is the one it is visiting.             *)
JobOf(c) == [cmd |-> cli[c].cmd,
             ctx |-> IF cli[c].cmd \in Listings THEN NoCtx ELSE cli[c].ctx]

(* How far a command is follows from its next step and from who called it. *)
Found(c)     == \/ pc[c] \in {"port", "files"}
                \/ pc[c] \in {"poll", "merge"} /\ cli[c].reused
Opened(c)    == \/ pc[c] \in {"pgrep", "save", "saveconn"}
                \/ pc[c] \in {"poll", "merge"} /\ ~cli[c].reused
Kills(c)     == pc[c] \in {"killread", "killsig", "killrm"}
PhaseOf(c) == IF pc[c] \in Ended THEN pc[c]
              ELSE IF Found(c) THEN "found"
              ELSE IF Opened(c) THEN "opened"
              ELSE IF Kills(c) /\ cli[c].for = "stale" THEN "replacing"
              ELSE IF Kills(c) /\ cli[c].for = "fresh" THEN "givingup"
              ELSE "working"

ServiceTunnel == [x \in Ctx |-> TunnelOf(x)]
ServiceJob    == [c \in Cli |-> JobOf(c)]
ServicePhase  == [c \in Cli |-> PhaseOf(c)]

Service == INSTANCE TunnelService WITH
  tunnel <- ServiceTunnel, job <- ServiceJob, phase <- ServicePhase

(* The commands keep what TunnelService promises: a connect that says it   *)
(* is connected has found or opened the tunnel, a command opens one at     *)
(* most and never beside another, none but the commands that are to close  *)
(* a tunnel closes it, and those end with none left (connect, tunnel-kill, *)
(* tunnel-kill-all and tunnel-reconnect over IsTunnelRunning, KillTunnel,  *)
(* CreateTunnel and verifyOrRecreateTunnel).                               *)
KeepsService == Service!Spec

-----------------------------------------------------------------------------
(* What the refinement rests on, proved in TunnelsProofs.            *)

(* The next step tells who called and for which command: an invocation     *)
(* that dials or has dialed holds no tunnel it has reused.                 *)
KillSteps == {"killread", "killsig", "killrm"}
InContext(l, r) ==
  /\ l \in {"read", "signal", "remove"} => r.for \in {"fast", "ensure", "list"}
  /\ l \in {"port", "files", "prepare"} => r.for = "fast"
  /\ l \in KillSteps => r.for \in {"fresh", "stale", "kill", "redial", "killall"}
  /\ l \in {"dial", "auth", "pgrep", "save"} => r.for \in {"ensure", "redial"}
  /\ l \in {"saveconn", "poll", "merge"} => r.for = "ensure"
  /\ l = "params" => r.for = "redial"
  /\ l = "list" => r.for = "list"
  /\ l \in {"dial", "auth", "pgrep", "save", "saveconn"} \/ r.for = "redial" =>
       ~r.reused

ServesCommand(l, r) == l \notin Ended =>
  /\ r.for \in {"fast", "ensure", "fresh", "stale"} => r.cmd = "connect"
  /\ r.for = "kill" => r.cmd = "kill"
  /\ r.for = "redial" => r.cmd = "reconnect"
  /\ r.for = "killall" => r.cmd = "killall"
  /\ r.for = "list" => r.cmd \in Listings

CallersInv ==
  \A c \in Cli : InContext(pc[c], cli[c]) /\ ServesCommand(pc[c], cli[c])

(* A pid file names an ssh that was sent SIGTERM only until the kill has   *)
(* removed the file, and no ssh is going while the next one is recorded.   *)
NoDyingNamed ==
  /\ \A x \in Ctx :
       pidFile[x] # NoPid /\ procState[pidFile[x]] = "dying" =>
         \E c \in Cli : pc[c] = "killrm" /\ cli[c].ctx = x
  /\ \A c \in Cli : pc[c] \in {"pgrep", "save"} =>
       \A p \in Pid : procCtx[p] = cli[c].ctx => procState[p] # "dying"
=============================================================================
