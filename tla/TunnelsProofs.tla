---------------------------- MODULE TunnelsProofs ----------------------------
(***************************************************************************)
(* Theorems about Tunnels, for every set of contexts, of invocations and   *)
(* of pids, every hash and every port range.                               *)
(***************************************************************************)
EXTENDS TunnelsRefinement, TLAPS

-----------------------------------------------------------------------------
(* Type correctness, together with ControlOK: an action reads pidFile at   *)
(* cli[c].ctx, which is a context only because the program counter says so.*)

(* The part of both that speaks of the invocations.                        *)
CliType == /\ pc \in [Cli -> Ended \cup Steps]
           /\ cli \in [Cli -> Local]
           /\ ControlOK

LEMMA NewLocalType == NewLocal \in Local
BY DEF NewLocal, Local, Commands, Callers

(* The updates the actions make keep an invocation's variables in Local.   *)
LEMMA UpdateType ==
  ASSUME NEW r \in Local, NEW p \in Pid \cup {NoPid}
  PROVE  /\ [r EXCEPT !.pid = p] \in Local
         /\ \A b \in BOOLEAN : [r EXCEPT !.pid = p, !.reused = b] \in Local
         /\ [r EXCEPT !.pid = p, !.ctx = NoCtx] \in Local
         /\ \A w \in Callers : [r EXCEPT !.for = w] \in Local
         /\ [r EXCEPT !.pid = p, !.for = "ensure", !.second = TRUE] \in Local
         /\ [r EXCEPT !.pid = p, !.for = "list", !.ctx = NoCtx] \in Local
BY DEF Local, Callers

(* Rewriting one invocation keeps CliType when its new state is in order.  *)
LEMMA OneCliType ==
  ASSUME CliType, NEW c \in Cli, NEW l \in Ended \cup Steps, NEW r \in Local,
         pc' = [pc EXCEPT ![c] = l], cli' = [cli EXCEPT ![c] = r],
         l \in Steps \ {"list"} => r.ctx \in Ctx,
         l \in {"signal", "remove", "killsig", "auth", "pgrep"} => r.pid \in Pid,
         l = "list" => r.pid = NoPid
  PROVE  CliType'
<1>1. pc' \in [Cli -> Ended \cup Steps] /\ cli' \in [Cli -> Local]
  BY DEF CliType
<1>2. ASSUME NEW d \in Cli
      PROVE  /\ pc'[d] \in Steps \ {"list"} => cli'[d].ctx \in Ctx
             /\ pc'[d] \in {"signal", "remove", "killsig", "auth", "pgrep"} =>
                  cli'[d].pid \in Pid
             /\ pc'[d] = "list" => cli'[d].pid = NoPid
  <2>1. CASE d = c
    BY <2>1 DEF CliType
  <2>2. CASE d # c
    BY <2>2 DEF CliType, ControlOK
  <2> QED BY <2>1, <2>2
<1> QED BY <1>1, <1>2 DEF CliType, ControlOK

LEMMA EndType ==
  ASSUME CliType, NEW c \in Cli, NEW l \in Ended, End(c, l)
  PROVE  CliType'
<1>1. l \notin Steps
  BY DEF Ended, Steps
<1> QED BY <1>1, OneCliType, NewLocalType DEF End, Goto, Steps

LEMMA GotoType ==
  ASSUME CliType, NEW c \in Cli, NEW l \in Steps, Goto(c, l), UNCHANGED cli,
         l # "list" => cli[c].ctx \in Ctx,
         l \in {"signal", "remove", "killsig", "auth", "pgrep"} =>
           cli[c].pid \in Pid,
         l = "list" => cli[c].pid = NoPid
  PROVE  CliType'
<1>1. cli' = [cli EXCEPT ![c] = cli[c]] /\ cli[c] \in Local
  BY DEF CliType
<1> QED BY <1>1, OneCliType DEF Goto

LEMMA TunnelUpType ==
  ASSUME CliType, NEW c \in Cli, TunnelUp(c), cli[c].ctx \in Ctx
  PROVE  CliType'
<1>1. cli[c] \in Local
  BY DEF CliType
<1>2. CASE cli[c].for = "fast"
  <2>1. [cli[c] EXCEPT !.pid = NoPid] \in Local
    BY <1>1, UpdateType
  <2>2. /\ pc' = [pc EXCEPT ![c] = "port"]
        /\ cli' = [cli EXCEPT ![c] = [cli[c] EXCEPT !.pid = NoPid]]
    BY <1>2 DEF TunnelUp, Goto
  <2>3. [cli[c] EXCEPT !.pid = NoPid].ctx = cli[c].ctx
    BY <1>1 DEF Local
  <2> QED BY <2>1, <2>2, <2>3, OneCliType DEF Steps
<1>3. CASE cli[c].for = "ensure"
  <2> DEFINE r == [cli[c] EXCEPT !.pid = NoPid, !.reused = TRUE]
             l == IF VerifyAPI THEN "poll" ELSE "merge"
  <2>1. r \in Local
    BY <1>1, UpdateType
  <2>2. pc' = [pc EXCEPT ![c] = l] /\ cli' = [cli EXCEPT ![c] = r]
    BY <1>3 DEF TunnelUp, Goto
  <2>3. r.ctx = cli[c].ctx
    BY <1>1 DEF Local
  <2>4. l \in {"poll", "merge"}
    OBVIOUS
  <2> HIDE DEF r, l
  <2> QED BY <2>1, <2>2, <2>3, <2>4, OneCliType DEF Steps
<1>4. CASE cli[c].for = "list"
  <2> DEFINE r == [cli[c] EXCEPT !.pid = NoPid, !.ctx = NoCtx,
                                 !.running = @ \cup {cli[c].ctx}]
  <2>1. r \in Local /\ r.pid = NoPid
    BY <1>1 DEF Local
  <2>2. pc' = [pc EXCEPT ![c] = "list"] /\ cli' = [cli EXCEPT ![c] = r]
    BY <1>4 DEF TunnelUp, Goto
  <2> HIDE DEF r
  <2> QED BY <2>1, <2>2, OneCliType DEF Steps
<1> QED BY <1>2, <1>3, <1>4 DEF TunnelUp

LEMMA TunnelDownType ==
  ASSUME CliType, NEW c \in Cli, TunnelDown(c), cli[c].ctx \in Ctx
  PROVE  CliType'
<1>1. cli[c] \in Local
  BY DEF CliType
<1>2. CASE cli[c].for = "fast"
  <2>1. [cli[c] EXCEPT !.pid = NoPid] \in Local
    BY <1>1, UpdateType
  <2>2. /\ pc' = [pc EXCEPT ![c] = "prepare"]
        /\ cli' = [cli EXCEPT ![c] = [cli[c] EXCEPT !.pid = NoPid]]
    BY <1>2 DEF TunnelDown, Goto
  <2>3. [cli[c] EXCEPT !.pid = NoPid].ctx = cli[c].ctx
    BY <1>1 DEF Local
  <2> QED BY <2>1, <2>2, <2>3, OneCliType DEF Steps
<1>3. CASE cli[c].for = "ensure"
  <2> DEFINE r == [cli[c] EXCEPT !.pid = NoPid, !.reused = FALSE]
  <2>1. r \in Local
    BY <1>1, UpdateType
  <2>2. pc' = [pc EXCEPT ![c] = "dial"] /\ cli' = [cli EXCEPT ![c] = r]
    BY <1>3 DEF TunnelDown, Goto
  <2>3. r.ctx = cli[c].ctx
    BY <1>1 DEF Local
  <2> HIDE DEF r
  <2> QED BY <2>1, <2>2, <2>3, OneCliType DEF Steps
<1>4. CASE cli[c].for = "list"
  <2> DEFINE r == [cli[c] EXCEPT !.pid = NoPid, !.ctx = NoCtx]
  <2>1. r \in Local /\ r.pid = NoPid
    BY <1>1 DEF Local
  <2>2. pc' = [pc EXCEPT ![c] = "list"] /\ cli' = [cli EXCEPT ![c] = r]
    BY <1>4 DEF TunnelDown, Goto
  <2> HIDE DEF r
  <2> QED BY <2>1, <2>2, OneCliType DEF Steps
<1> QED BY <1>2, <1>3, <1>4 DEF TunnelDown

LEMMA AfterKillType ==
  ASSUME CliType, NEW c \in Cli, AfterKill(c), cli[c].ctx \in Ctx
  PROVE  CliType'
<1>1. cli[c] \in Local
  BY DEF CliType
<1>2. CASE End(c, "idle") \/ End(c, "failed")
  BY <1>2, EndType DEF Ended
<1>3. CASE cli[c].for = "redial"
  <2> DEFINE r == [cli[c] EXCEPT !.pid = NoPid]
  <2>1. r \in Local /\ r.ctx = cli[c].ctx
    BY <1>1 DEF Local
  <2>2. pc' = [pc EXCEPT ![c] = "dial"] /\ cli' = [cli EXCEPT ![c] = r]
    BY <1>3 DEF AfterKill, Goto
  <2> HIDE DEF r
  <2> QED BY <2>1, <2>2, OneCliType DEF Steps
<1>4. CASE cli[c].for = "stale"
  <2> DEFINE r == [cli[c] EXCEPT !.pid = NoPid, !.for = "ensure",
                                 !.second = TRUE]
  <2>1. r \in Local /\ r.ctx = cli[c].ctx
    BY <1>1 DEF Local, Callers
  <2>2. pc' = [pc EXCEPT ![c] = "read"] /\ cli' = [cli EXCEPT ![c] = r]
    BY <1>4 DEF AfterKill, Goto
  <2> HIDE DEF r
  <2> QED BY <2>1, <2>2, OneCliType DEF Steps
<1>5. CASE cli[c].for = "killall"
  <2> DEFINE r == [cli[c] EXCEPT !.pid = NoPid, !.for = "list",
                                 !.ctx = NoCtx]
  <2>1. r \in Local /\ r.pid = NoPid
    BY <1>1 DEF Local, Callers
  <2>2. pc' = [pc EXCEPT ![c] = "list"] /\ cli' = [cli EXCEPT ![c] = r]
    BY <1>5 DEF AfterKill, Goto
  <2> HIDE DEF r
  <2> QED BY <2>1, <2>2, OneCliType DEF Steps
<1> QED BY <1>2, <1>3, <1>4, <1>5 DEF AfterKill

(* The part of TypeOK that speaks of the files and of the processes.       *)
SharedType == /\ pidFile \in [Ctx -> Pid \cup {NoPid}]
              /\ conn \in [Ctx -> BOOLEAN] /\ kube \in [Ctx -> BOOLEAN]
              /\ procState \in [Pid -> ProcStates]
              /\ procCtx \in [Pid -> Ctx \cup {NoCtx}]

LEMMA StartType ==
  ASSUME CliType, NEW c \in Cli, StartStep(c)
  PROVE  CliType'
<1>1. ASSUME NEW name \in Commands, NEW x \in Ctx \cup {NoCtx},
             NEW l \in Steps, NEW w \in Callers, NEW S \in SUBSET Ctx,
             Start(c, name, x, l, w, S),
             l # "list" => x \in Ctx,
             l \notin {"signal", "remove", "killsig", "auth", "pgrep"}
      PROVE  CliType'
  <2> DEFINE r == [NewLocal EXCEPT !.cmd = name, !.ctx = x, !.for = w,
                                   !.todo = S]
  <2>1. r \in Local /\ r.ctx = x /\ r.pid = NoPid
    BY <1>1 DEF NewLocal, Local
  <2>2. pc' = [pc EXCEPT ![c] = l] /\ cli' = [cli EXCEPT ![c] = r]
    BY <1>1 DEF Start, Goto
  <2> HIDE DEF r
  <2> QED BY <1>1, <2>1, <2>2, OneCliType
<1>2. ASSUME NEW x \in Ctx,
             StartConnect(c, x) \/ StartKill(c, x) \/ StartReconnect(c, x)
      PROVE  CliType'
  <2>1. CASE StartConnect(c, x)
    BY <1>1, <2>1 DEF StartConnect, Commands, Steps, Callers
  <2>2. CASE StartKill(c, x)
    BY <1>1, <2>2 DEF StartKill, Commands, Steps, Callers
  <2>3. CASE StartReconnect(c, x)
    BY <1>1, <2>3 DEF StartReconnect, Commands, Steps, Callers
  <2> QED BY <1>2, <2>1, <2>2, <2>3
<1>3. ASSUME NEW name \in Listings, StartListing(c, name)
      PROVE  CliType'
  <2>1. name \in Commands /\ "list" \in Steps /\ "list" \in Callers
    BY DEF Listings, Commands, Steps, Callers
  <2>2. PidFiles \in SUBSET Ctx
    BY DEF PidFiles
  <2> QED BY <1>1, <1>3, <2>1, <2>2 DEF StartListing
<1> QED BY <1>2, <1>3 DEF StartStep

LEMMA ProcStepType ==
  ASSUME SharedType, NEW p \in Pid, ProcStep(p)
  PROVE  SharedType' /\ UNCHANGED <<files, pc, cli>>
<1>1. ASSUME NEW s \in ProcStates, Becomes(p, s)
      PROVE  SharedType' /\ UNCHANGED <<files, pc, cli>>
  BY <1>1 DEF Becomes, SharedType, files
<1> QED
  BY <1>1 DEF ProcStep, TunnelDies, TunnelStalls, TunnelRecovers, DyingExits,
              LoneSsh, ForeignStarts, ForeignExits, ProcStates

LEMMA CliStepShared ==
  ASSUME ModelAssumption, SharedType, CliType, NEW c \in Cli, CliStep(c)
  PROVE  SharedType'
<1>1. pc[c] \in Steps \ {"list"} => cli[c].ctx \in Ctx
  BY DEF CliType, ControlOK
<1>2. cli[c].pid \in Pid \cup {NoPid}
  BY DEF CliType, Local
<1>3. CASE KillSignal(c)
  BY <1>3 DEF KillSignal, SharedType, files, procs, ProcStates
<1>4. CASE Dial(c)
  <2>1. cli[c].ctx \in Ctx
    BY <1>1, <1>4 DEF Dial, Steps
  <2> QED BY <1>4, <2>1 DEF Dial, SharedType, files, procs, ProcStates
<1>5. CASE DialUp(c)
  BY <1>5 DEF DialUp, SharedType, files, ProcStates
<1>6. CASE DialFails(c)
  BY <1>6 DEF DialFails, SharedType, files, procs, ProcStates
<1>7. CASE SavePid(c)
  BY <1>2, <1>7 DEF SavePid, SharedType, procs
<1>8. CASE \/ RemoveDead(c) \/ KillRemove(c) \/ SaveConnParams(c) \/ Merge(c)
  BY <1>8 DEF RemoveDead, KillRemove, SaveConnParams, Merge, SharedType, procs
<1>9. CASE UNCHANGED <<files, procs>>
  BY <1>9 DEF SharedType, files, procs
<1> QED
  BY <1>3, <1>4, <1>5, <1>6, <1>7, <1>8, <1>9
  DEF CliStep, ReadPid, SignalZero, KillRead, VisitNext, KillNext, EndListing,
      ProbePort, CheckAlreadyConnected, Prepare, Pgrep, PollReady, PollFails,
      LoadConnParams

LEMMA CliStepType ==
  ASSUME ModelAssumption, SharedType, CliType, NEW c \in Cli, CliStep(c)
  PROVE  CliType'
<1>1. cli[c] \in Local /\ cli[c].pid \in Pid \cup {NoPid}
  BY DEF CliType, Local
<1>2. pc[c] \in Steps \ {"list"} => cli[c].ctx \in Ctx
  BY DEF CliType, ControlOK
<1>3. \A p \in Pid \cup {NoPid} :
        /\ [cli[c] EXCEPT !.pid = p] \in Local
        /\ [cli[c] EXCEPT !.pid = p].ctx = cli[c].ctx
        /\ [cli[c] EXCEPT !.pid = p].pid = p
  BY <1>1 DEF Local
<1>4. \A w \in Callers : /\ [cli[c] EXCEPT !.for = w] \in Local
                         /\ [cli[c] EXCEPT !.for = w].ctx = cli[c].ctx
  BY <1>1 DEF Local
<1>ended. {"idle", "ok", "already", "failed"} \subseteq Ended
  BY DEF Ended
<1>5. CASE ReadPid(c)
  <2>1. cli[c].ctx \in Ctx
    BY <1>2, <1>5 DEF ReadPid, Steps
  <2>2. pidFile[cli[c].ctx] \in Pid \cup {NoPid}
    BY <2>1 DEF SharedType
  <2> DEFINE r == [cli[c] EXCEPT !.pid = pidFile[cli[c].ctx]]
  <2>3. CASE TunnelDown(c)
    BY <2>1, <2>3, TunnelDownType
  <2>4. CASE /\ pidFile[cli[c].ctx] # NoPid
             /\ Goto(c, "signal") /\ cli' = [cli EXCEPT ![c] = r]
    <3>1. /\ r \in Local /\ r.ctx = cli[c].ctx
          /\ r.pid = pidFile[cli[c].ctx]
      BY <1>3, <2>2
    <3> HIDE DEF r
    <3> QED BY <2>1, <2>2, <2>4, <3>1, OneCliType DEF Goto, Steps
  <2> QED BY <1>5, <2>3, <2>4 DEF ReadPid
<1>6. CASE SignalZero(c)
  <2>1. cli[c].ctx \in Ctx /\ cli[c].pid \in Pid
    BY <1>2, <1>6 DEF SignalZero, Steps, CliType, ControlOK
  <2>2. CASE TunnelUp(c)
    BY <2>1, <2>2, TunnelUpType
  <2>3. CASE Goto(c, "remove") /\ UNCHANGED cli
    BY <2>1, <2>3, GotoType DEF Steps
  <2> QED BY <1>6, <2>2, <2>3 DEF SignalZero
<1>7. CASE RemoveDead(c)
  BY <1>2, <1>7, TunnelDownType DEF RemoveDead, Steps
<1>8. CASE KillRead(c)
  <2>1. cli[c].ctx \in Ctx
    BY <1>2, <1>8 DEF KillRead, Steps
  <2>2. pidFile[cli[c].ctx] \in Pid \cup {NoPid}
    BY <2>1 DEF SharedType
  <2> DEFINE r == [cli[c] EXCEPT !.pid = pidFile[cli[c].ctx]]
             l == IF pidFile[cli[c].ctx] = NoPid THEN "killrm" ELSE "killsig"
  <2>3. /\ r \in Local /\ r.ctx = cli[c].ctx
        /\ r.pid = pidFile[cli[c].ctx]
    BY <1>3, <2>2
  <2>4. pc' = [pc EXCEPT ![c] = l] /\ cli' = [cli EXCEPT ![c] = r]
    BY <1>8 DEF KillRead, Goto
  <2>5. l = "killrm" \/ (l = "killsig" /\ pidFile[cli[c].ctx] \in Pid)
    BY <2>2
  <2> HIDE DEF r, l
  <2> QED BY <2>1, <2>3, <2>4, <2>5, OneCliType DEF Steps
<1>9. CASE KillSignal(c)
  <2>1. cli[c].ctx \in Ctx /\ Goto(c, "killrm") /\ UNCHANGED cli
    BY <1>2, <1>9 DEF KillSignal, Steps
  <2> QED BY <2>1, GotoType DEF Steps
<1>10. CASE KillRemove(c)
  BY <1>2, <1>10, AfterKillType DEF KillRemove, Steps
<1>11. CASE VisitNext(c)
  <2>1. PICK x \in cli[c].todo :
          cli' = [cli EXCEPT ![c].todo = @ \ {x}, ![c].ctx = x]
    BY <1>11 DEF VisitNext
  <2> DEFINE r == [cli[c] EXCEPT !.todo = @ \ {x}, !.ctx = x]
  <2>2. x \in Ctx
    BY <1>1 DEF Local
  <2>3. r \in Local /\ r.ctx = x
    BY <1>1, <2>2 DEF Local
  <2>4. pc' = [pc EXCEPT ![c] = "read"] /\ cli' = [cli EXCEPT ![c] = r]
    BY <1>11, <2>1 DEF VisitNext, Goto
  <2> HIDE DEF r
  <2> QED BY <2>2, <2>3, <2>4, OneCliType DEF Steps
<1>12. CASE KillNext(c)
  <2>1. PICK x \in cli[c].running :
          cli' = [cli EXCEPT ![c].running = @ \ {x}, ![c].ctx = x,
                             ![c].for = "killall"]
    BY <1>12 DEF KillNext
  <2> DEFINE r == [cli[c] EXCEPT !.running = @ \ {x}, !.ctx = x,
                                 !.for = "killall"]
  <2>2. x \in Ctx
    BY <1>1 DEF Local
  <2>3. r \in Local /\ r.ctx = x
    BY <1>1, <2>2 DEF Local, Callers
  <2>4. pc' = [pc EXCEPT ![c] = "killread"] /\ cli' = [cli EXCEPT ![c] = r]
    BY <1>12, <2>1 DEF KillNext, Goto
  <2> HIDE DEF r
  <2> QED BY <2>2, <2>3, <2>4, OneCliType DEF Steps
<1>13. CASE EndListing(c)
  BY <1>ended, <1>13, EndType DEF EndListing
<1>14. CASE ProbePort(c)
  <2>1. PICK l \in {"files", "prepare"} : Goto(c, l)
    BY <1>14 DEF ProbePort
  <2> QED BY <1>2, <1>14, <2>1, GotoType DEF ProbePort, Steps
<1>15. CASE CheckAlreadyConnected(c)
  <2>1. CASE End(c, "already")
    BY <1>ended, <2>1, EndType
  <2>2. CASE Goto(c, "prepare") /\ UNCHANGED cli
    BY <1>2, <1>15, <2>2, GotoType DEF CheckAlreadyConnected, Steps
  <2> QED BY <1>15, <2>1, <2>2 DEF CheckAlreadyConnected
<1>16. CASE Prepare(c)
  <2>1. CASE End(c, "failed")
    BY <1>ended, <2>1, EndType
  <2> DEFINE r == [cli[c] EXCEPT !.for = "ensure"]
  <2>2. CASE Goto(c, "read") /\ cli' = [cli EXCEPT ![c] = r]
    <3>1. r \in Local /\ r.ctx = cli[c].ctx
      BY <1>4 DEF Callers
    <3>2. cli[c].ctx \in Ctx
      BY <1>2, <1>16 DEF Prepare, Steps
    <3> HIDE DEF r
    <3> QED BY <2>2, <3>1, <3>2, OneCliType DEF Goto, Steps
  <2> QED BY <1>16, <2>1, <2>2 DEF Prepare
<1>17. CASE Dial(c)
  <2>1. CASE End(c, "failed")
    BY <1>ended, <2>1, EndType
  <2>2. ASSUME NEW p \in Pid, cli' = [cli EXCEPT ![c].pid = p], Goto(c, "auth")
        PROVE  CliType'
    <3> DEFINE r == [cli[c] EXCEPT !.pid = p]
    <3>1. r \in Local /\ r.ctx = cli[c].ctx /\ r.pid = p
      BY <1>3
    <3>2. cli[c].ctx \in Ctx /\ cli' = [cli EXCEPT ![c] = r]
      BY <1>2, <1>17, <2>2 DEF Dial, Steps
    <3> HIDE DEF r
    <3> QED BY <2>2, <3>1, <3>2, OneCliType DEF Goto, Steps
  <2> QED BY <1>17, <2>1, <2>2 DEF Dial
<1>18. CASE DialUp(c)
  <2>1. cli[c].ctx \in Ctx /\ cli[c].pid \in Pid
    BY <1>2, <1>18 DEF DialUp, Steps, CliType, ControlOK
  <2> QED BY <1>18, <2>1, GotoType DEF DialUp, Steps
<1>19. CASE DialFails(c)
  BY <1>ended, <1>19, EndType DEF DialFails
<1>20. CASE Pgrep(c)
  <2>1. PICK p \in Pid \cup {NoPid} : cli' = [cli EXCEPT ![c].pid = p]
    BY <1>20 DEF Pgrep, Matching
  <2> DEFINE r == [cli[c] EXCEPT !.pid = p]
  <2>2. r \in Local /\ r.ctx = cli[c].ctx
    BY <1>3
  <2>3. cli[c].ctx \in Ctx /\ cli' = [cli EXCEPT ![c] = r]
    BY <1>2, <1>20, <2>1 DEF Pgrep, Steps
  <2> HIDE DEF r
  <2> QED BY <1>20, <2>2, <2>3, OneCliType DEF Pgrep, Goto, Steps
<1>21. CASE SavePid(c)
  <2>1. CASE End(c, "ok")
    BY <1>ended, <2>1, EndType
  <2> DEFINE r == [cli[c] EXCEPT !.pid = NoPid]
  <2>2. CASE Goto(c, "saveconn") /\ cli' = [cli EXCEPT ![c] = r]
    <3>1. r \in Local /\ r.ctx = cli[c].ctx
      BY <1>3
    <3>2. cli[c].ctx \in Ctx
      BY <1>2, <1>21 DEF SavePid, Steps
    <3> HIDE DEF r
    <3> QED BY <2>2, <3>1, <3>2, OneCliType DEF Goto, Steps
  <2> QED BY <1>21, <2>1, <2>2 DEF SavePid
<1>22. CASE SaveConnParams(c)
  <2>1. PICK l \in {"poll", "merge"} : Goto(c, l)
    BY <1>22 DEF SaveConnParams
  <2> QED BY <1>2, <1>22, <2>1, GotoType DEF SaveConnParams, Steps
<1>23. CASE PollReady(c)
  <2>1. cli[c].ctx \in Ctx
    BY <1>2, <1>23 DEF PollReady, Steps
  <2> QED BY <1>23, <2>1, GotoType DEF PollReady, Steps
<1>24. CASE PollFails(c)
  <2>1. CASE End(c, "failed")
    BY <1>ended, <2>1, EndType
  <2>2. ASSUME NEW w \in {"fresh", "stale"}, Goto(c, "killread"),
               cli' = [cli EXCEPT ![c].for = w]
        PROVE  CliType'
    <3> DEFINE r == [cli[c] EXCEPT !.for = w]
    <3>1. r \in Local /\ r.ctx = cli[c].ctx
      BY <1>4, <2>2 DEF Callers
    <3>2. cli[c].ctx \in Ctx /\ cli' = [cli EXCEPT ![c] = r]
      BY <1>2, <1>24, <2>2 DEF PollFails, Steps
    <3> HIDE DEF r
    <3> QED BY <2>2, <3>1, <3>2, OneCliType DEF Goto, Steps
  <2> QED BY <1>24, <2>1, <2>2 DEF PollFails
<1>25. CASE Merge(c)
  BY <1>ended, <1>25, EndType DEF Merge
<1>26. CASE LoadConnParams(c)
  <2>1. CASE End(c, "failed")
    BY <1>ended, <2>1, EndType
  <2>2. CASE Goto(c, "killread") /\ UNCHANGED cli
    BY <1>2, <1>26, <2>2, GotoType DEF LoadConnParams, Steps
  <2> QED BY <1>26, <2>1, <2>2 DEF LoadConnParams
<1> QED
  BY <1>5, <1>6, <1>7, <1>8, <1>9, <1>10, <1>11, <1>12, <1>13, <1>14, <1>15,
     <1>16, <1>17, <1>18, <1>19, <1>20, <1>21, <1>22, <1>23, <1>24, <1>25,
     <1>26 DEF CliStep

LEMMA TypeInit == ASSUME ModelAssumption, Init PROVE SharedType /\ CliType
<1>1. cli \in [Cli -> Local]
  BY NewLocalType DEF Init
<1>2. \A c \in Cli : cli[c] = NewLocal /\ pc[c] \notin Steps
  BY DEF Init, Steps
<1> QED
  BY <1>1, <1>2 DEF Init, SharedType, CliType, ControlOK, Ended, Steps,
                    ProcStates

LEMMA TypeStep ==
  ASSUME ModelAssumption, SharedType, CliType, [Next]_vars
  PROVE  SharedType' /\ CliType'
<1>1. ASSUME NEW c \in Cli, CliStep(c)
      PROVE  SharedType' /\ CliType'
  BY <1>1, CliStepShared, CliStepType
<1>2. ASSUME NEW c \in Cli, StartStep(c)
      PROVE  SharedType' /\ CliType'
  <2>1. UNCHANGED <<files, procs>>
    BY <1>2 DEF StartStep, StartConnect, StartKill, StartReconnect,
                StartListing, Start
  <2> QED BY <1>2, <2>1, StartType DEF SharedType, files, procs
<1>3. ASSUME NEW c \in Cli, Interrupt(c)
      PROVE  SharedType' /\ CliType'
  BY <1>3, EndType DEF Interrupt, Ended, SharedType, files, procs
<1>4. ASSUME NEW p \in Pid, ProcStep(p)
      PROVE  SharedType' /\ CliType'
  BY <1>4, ProcStepType DEF CliType, ControlOK
<1>5. CASE UNCHANGED vars
  BY <1>5 DEF vars, SharedType, CliType, ControlOK
<1> QED BY <1>1, <1>2, <1>3, <1>4, <1>5 DEF Next

(* Every variable keeps its type in every behaviour, and an invocation     *)
(* that reads or removes a pid file, signals or dials does so for a        *)
(* context and with a pid.                                                 *)
THEOREM TypeCorrect == Spec => []TypeOK
<1>1. Init => SharedType /\ CliType
  BY ModelAssumption, TypeInit
<1>2. SharedType /\ CliType /\ [Next]_vars => (SharedType /\ CliType)'
  BY ModelAssumption, TypeStep
<1>3. SharedType /\ CliType => TypeOK
  BY DEF SharedType, CliType, TypeOK
<1> QED BY <1>1, <1>2, <1>3, PTL DEF Spec

-----------------------------------------------------------------------------
(* One listener per local port, and pid files that name only tunnels of    *)
(* their own context, however many invocations run at once.                *)

(* How a step can change the processes: not at all, or one of them.        *)
Set(p, s, x) == /\ procState' = [procState EXCEPT ![p] = s]
                /\ procCtx' = [procCtx EXCEPT ![p] = x]

ProcChange(p) ==
  \/ Set(p, "none", NoCtx)
  \/ \E s \in Listening : procState[p] \in Listening /\ Set(p, s, procCtx[p])
  \/ \E x \in Ctx : FreshPid(p) /\ Set(p, "auth", x)
  \/ /\ procState[p] = "auth" /\ PortFree(GetUniquePort(procCtx[p]))
     /\ Set(p, "up", procCtx[p])
  \/ PidReuse /\ procState[p] = "none" /\ Set(p, "foreign", procCtx[p])
  \/ procState[p] = "foreign" /\ Set(p, "dying", procCtx[p])

LEMMA CliStepProcs ==
  ASSUME SharedType, CliType, NEW c \in Cli, CliStep(c)
  PROVE  UNCHANGED procs \/ \E p \in Pid : ProcChange(p)
<1> DEFINE p == cli[c].pid
<1>1. pc[c] \in {"killsig", "auth"} => p \in Pid
  BY DEF CliType, ControlOK
<1>2. pc[c] = "dial" => cli[c].ctx \in Ctx
  BY DEF CliType, ControlOK, Steps
<1>3. CASE KillSignal(c)
  <2>1. p \in Pid
    BY <1>1, <1>3 DEF KillSignal
  <2>2. CASE /\ procState[p] \in Listening \cup {"foreign"}
             /\ procState' = [procState EXCEPT ![p] = "dying"]
             /\ UNCHANGED procCtx
    <3>1. Set(p, "dying", procCtx[p])
      BY <2>1, <2>2 DEF Set, SharedType
    <3> QED BY <2>1, <2>2, <3>1 DEF ProcChange, Listening
  <2>3. CASE /\ procState' = [procState EXCEPT ![p] = "none"]
             /\ procCtx' = [procCtx EXCEPT ![p] = NoCtx]
    BY <2>1, <2>3 DEF ProcChange, Set
  <2> QED BY <1>3, <2>2, <2>3 DEF KillSignal
<1>4. CASE Dial(c)
  BY <1>2, <1>4 DEF Dial, ProcChange, Set
<1>5. CASE DialUp(c)
  <2>1. p \in Pid
    BY <1>1, <1>5 DEF DialUp
  <2>2. Set(p, "up", procCtx[p])
    BY <1>5, <2>1 DEF DialUp, Set, SharedType
  <2> QED BY <1>5, <2>1, <2>2 DEF DialUp, ProcChange
<1>6. CASE DialFails(c)
  <2>1. p \in Pid
    BY <1>1, <1>6 DEF DialFails
  <2> QED BY <1>6, <2>1 DEF DialFails, ProcChange, Set
<1> QED
  BY <1>3, <1>4, <1>5, <1>6
  DEF CliStep, ReadPid, SignalZero, RemoveDead, KillRead, KillRemove,
      VisitNext, KillNext, EndListing, ProbePort, CheckAlreadyConnected,
      Prepare, Pgrep, SavePid, SaveConnParams, PollReady, PollFails, Merge,
      LoadConnParams

LEMMA ProcStepProcs ==
  ASSUME SharedType, NEW p \in Pid, ProcStep(p)
  PROVE  ProcChange(p)
<1>1. ASSUME NEW s \in ProcStates \ {"none"}, Becomes(p, s)
      PROVE  Set(p, s, procCtx[p])
  BY <1>1 DEF Becomes, Set, SharedType
<1>2. ASSUME Becomes(p, "none")
      PROVE  ProcChange(p)
  BY <1>2 DEF Becomes, Set, ProcChange
<1>3. CASE TunnelStalls(p) \/ TunnelRecovers(p)
  BY <1>1, <1>3
  DEF TunnelStalls, TunnelRecovers, ProcChange, Listening, ProcStates
<1>4. CASE LoneSsh(p)
  BY <1>1, <1>2, <1>4 DEF LoneSsh, ProcChange, ProcStates
<1>5. CASE ForeignStarts(p)
  BY <1>1, <1>5 DEF ForeignStarts, ProcChange, ProcStates
<1>6. CASE TunnelDies(p) \/ DyingExits(p) \/ ForeignExits(p)
  BY <1>2, <1>6 DEF TunnelDies, DyingExits, ForeignExits
<1> QED BY <1>3, <1>4, <1>5, <1>6 DEF ProcStep

LEMMA NextProcs ==
  ASSUME SharedType, CliType, [Next]_vars
  PROVE  UNCHANGED procs \/ \E p \in Pid : ProcChange(p)
<1>1. ASSUME NEW c \in Cli, StartStep(c) \/ Interrupt(c)
      PROVE  UNCHANGED procs
  BY <1>1 DEF StartStep, StartConnect, StartKill, StartReconnect,
              StartListing, Start, Interrupt
<1>2. CASE UNCHANGED vars
  BY <1>2 DEF vars, procs
<1> QED BY <1>1, <1>2, CliStepProcs, ProcStepProcs DEF Next

-----------------------------------------------------------------------------
(* Only a tunnel has a context.                                            *)
NoTunnelNoCtx ==
  \A p \in Pid : procState[p] \in {"none", "foreign"} => procCtx[p] = NoCtx

LEMMA PortStep ==
  ASSUME ModelAssumption, SharedType, NoTunnelNoCtx, OneListenerPerPort,
         UNCHANGED procs \/ \E p \in Pid : ProcChange(p)
  PROVE  NoTunnelNoCtx' /\ OneListenerPerPort'
<1>1. CASE UNCHANGED procs
  BY <1>1 DEF procs, NoTunnelNoCtx, OneListenerPerPort, Holds, GetUniquePort
<1>2. ASSUME NEW p \in Pid, ProcChange(p)
      PROVE  NoTunnelNoCtx' /\ OneListenerPerPort'
  <2>1. NoTunnelNoCtx'
    BY <1>2 DEF ProcChange, Set, NoTunnelNoCtx, SharedType, Listening
  <2>2. \A q \in Pid \ {p} : \A n : Holds(q, n)' => Holds(q, n)
    BY <1>2 DEF ProcChange, Set, Holds, SharedType, GetUniquePort
  <2>3. ASSUME NEW n, Holds(p, n)'
        PROVE  Holds(p, n) \/ PortFree(n)
    <3>1. CASE Set(p, "none", NoCtx)
      BY <2>3, <3>1 DEF Set, Holds, SharedType, Listening
    <3>2. ASSUME NEW s \in Listening, procState[p] \in Listening,
                 Set(p, s, procCtx[p])
          PROVE  Holds(p, n)
      BY <2>3, <3>2 DEF Set, Holds, SharedType, GetUniquePort
    <3>3. ASSUME NEW x \in Ctx, Set(p, "auth", x)
          PROVE  FALSE
      BY <2>3, <3>3 DEF Set, Holds, SharedType, Listening
    <3>4. CASE /\ PortFree(GetUniquePort(procCtx[p]))
               /\ Set(p, "up", procCtx[p])
      BY <2>3, <3>4 DEF Set, Holds, SharedType, GetUniquePort
    <3>5. CASE Set(p, "foreign", procCtx[p])
      BY <2>3, <3>5 DEF Set, Holds, SharedType, Listening
    <3>6. CASE procState[p] = "foreign" /\ Set(p, "dying", procCtx[p])
      BY <2>3, <3>6, ModelAssumption
      DEF Set, Holds, SharedType, NoTunnelNoCtx, ModelAssumption
    <3> QED BY <1>2, <3>1, <3>2, <3>3, <3>4, <3>5, <3>6 DEF ProcChange
  <2>4. OneListenerPerPort'
    <3> SUFFICES ASSUME NEW q \in Pid, NEW r \in Pid, NEW x \in Ctx,
                        Holds(q, GetUniquePort(x))',
                        Holds(r, GetUniquePort(x))'
                 PROVE  q = r
      BY DEF OneListenerPerPort
    <3> DEFINE n == GetUniquePort(x)
    <3>1. Holds(q, n)' /\ Holds(r, n)'
      BY DEF GetUniquePort
    <3>2. CASE q # p /\ r # p
      BY <2>2, <3>1, <3>2 DEF OneListenerPerPort
    <3>3. CASE q = p /\ r # p
      BY <2>2, <2>3, <3>1, <3>3 DEF OneListenerPerPort, PortFree
    <3>4. CASE q # p /\ r = p
      BY <2>2, <2>3, <3>1, <3>4 DEF OneListenerPerPort, PortFree
    <3> QED BY <3>2, <3>3, <3>4
  <2> QED BY <2>1, <2>4
<1> QED BY <1>1, <1>2

(* At most one process listens on the port of a context, in every          *)
(* behaviour: the race of two connects between the check of the pid file   *)
(* and the dial (defaultEnsureTunnel) cannot leave two tunnels behind.     *)
THEOREM PortIsExclusive == Spec => []OneListenerPerPort
<1> DEFINE Inv == /\ SharedType /\ CliType
                  /\ NoTunnelNoCtx /\ OneListenerPerPort
<1>1. Init => Inv
  <2> SUFFICES ASSUME Init PROVE Inv
    OBVIOUS
  <2>1. NoTunnelNoCtx /\ OneListenerPerPort
    BY DEF Init, NoTunnelNoCtx, OneListenerPerPort, Holds, Listening
  <2> QED BY <2>1, TypeInit, ModelAssumption
<1>2. Inv /\ [Next]_vars => Inv'
  BY ModelAssumption, TypeStep, NextProcs, PortStep
<1>3. Inv => OneListenerPerPort
  OBVIOUS
<1> QED BY <1>1, <1>2, <1>3, PTL DEF Spec

-----------------------------------------------------------------------------
(* How a step can change one pid file, and the pid of one invocation.      *)
FileChange(x) ==
  \/ pidFile'[x] \in {NoPid, pidFile[x]}
  \/ \E c \in Cli : cli[c].ctx = x /\ pidFile'[x] = cli[c].pid

PidChange(c) ==
  \/ cli'[c].pid = NoPid
  \/ /\ cli'[c].ctx = cli[c].ctx
     /\ \/ cli'[c].pid = cli[c].pid
        \/ cli[c].ctx \in Ctx /\ cli'[c].pid = pidFile[cli[c].ctx]
        \/ procCtx'[cli'[c].pid] = cli[c].ctx

LEMMA EndPid ==
  ASSUME CliType, NEW c \in Cli, NEW l, End(c, l)
  PROVE  cli'[c].pid = NoPid /\ \A d \in Cli \ {c} : cli'[d] = cli[d]
BY DEF End, CliType, NewLocal

LEMMA CliStepFiles ==
  ASSUME SharedType, CliType, NEW c \in Cli, CliStep(c)
  PROVE  \A x \in Ctx : FileChange(x)
<1>1. CASE RemoveDead(c) \/ KillRemove(c)
  BY <1>1 DEF RemoveDead, KillRemove, FileChange, SharedType
<1>2. CASE SavePid(c)
  BY <1>2 DEF SavePid, FileChange, SharedType
<1>3. CASE UNCHANGED pidFile
  BY <1>3 DEF FileChange
<1> QED
  BY <1>1, <1>2, <1>3
  DEF CliStep, ReadPid, SignalZero, KillRead, KillSignal, VisitNext, KillNext,
      EndListing, ProbePort, CheckAlreadyConnected, Prepare, Dial, DialUp,
      DialFails, Pgrep, SaveConnParams, PollReady, PollFails, Merge,
      LoadConnParams, files

LEMMA CliStepPid ==
  ASSUME SharedType, CliType, NEW c \in Cli, CliStep(c)
  PROVE  PidChange(c) /\ \A d \in Cli \ {c} : cli'[d] = cli[d]
<1>1. cli \in [Cli -> Local] /\ cli[c] \in Local
  BY DEF CliType
<1>2. pc[c] \in Steps \ {"list"} => cli[c].ctx \in Ctx
  BY DEF CliType, ControlOK
<1>3. ASSUME NEW l, End(c, l)
      PROVE  PidChange(c) /\ \A d \in Cli \ {c} : cli'[d] = cli[d]
  BY <1>3, EndPid DEF PidChange
<1>4. CASE UNCHANGED cli
  BY <1>4 DEF PidChange
<1>5. ASSUME TunnelUp(c) \/ TunnelDown(c)
      PROVE  PidChange(c) /\ \A d \in Cli \ {c} : cli'[d] = cli[d]
  BY <1>1, <1>5 DEF TunnelUp, TunnelDown, PidChange, Local
<1>6. CASE ReadPid(c)
  <2>1. CASE TunnelDown(c)
    BY <1>5, <2>1
  <2>2. CASE cli' = [cli EXCEPT ![c].pid = pidFile[cli[c].ctx]]
    <3>1. cli[c].ctx \in Ctx
      BY <1>2, <1>6 DEF ReadPid, Steps
    <3> QED BY <1>1, <2>2, <3>1 DEF PidChange, Local
  <2> QED BY <1>6, <2>1, <2>2 DEF ReadPid
<1>7. CASE SignalZero(c) \/ RemoveDead(c)
  BY <1>4, <1>5, <1>7 DEF SignalZero, RemoveDead
<1>8. CASE KillRead(c)
  <2>1. cli[c].ctx \in Ctx
    BY <1>2, <1>8 DEF KillRead, Steps
  <2> QED BY <1>1, <1>8, <2>1 DEF KillRead, PidChange, Local
<1>9. CASE KillRemove(c)
  <2>1. ASSUME cli[c].for \in {"redial", "stale", "killall"}
        PROVE  PidChange(c) /\ \A d \in Cli \ {c} : cli'[d] = cli[d]
    BY <1>1, <1>9, <2>1 DEF KillRemove, AfterKill, PidChange, Local
  <2> QED BY <1>3, <1>9, <2>1 DEF KillRemove, AfterKill
<1>10. CASE VisitNext(c)
  <2>1. cli[c].pid = NoPid
    BY <1>10 DEF VisitNext, CliType, ControlOK
  <2> QED BY <1>1, <1>10, <2>1 DEF VisitNext, PidChange, Local
<1>11. CASE KillNext(c)
  <2>1. cli[c].pid = NoPid
    BY <1>11 DEF KillNext, CliType, ControlOK
  <2> QED BY <1>1, <1>11, <2>1 DEF KillNext, PidChange, Local
<1>12. CASE Prepare(c)
  <2>1. CASE cli' = [cli EXCEPT ![c].for = "ensure"]
    BY <1>1, <2>1 DEF PidChange, Local
  <2> QED BY <1>3, <1>12, <2>1 DEF Prepare
<1>13. CASE Dial(c)
  <2>1. ASSUME NEW p \in Pid, procCtx' = [procCtx EXCEPT ![p] = cli[c].ctx],
               cli' = [cli EXCEPT ![c].pid = p]
        PROVE  PidChange(c) /\ \A d \in Cli \ {c} : cli'[d] = cli[d]
    BY <1>1, <2>1 DEF PidChange, Local, SharedType
  <2> QED BY <1>3, <1>13, <2>1 DEF Dial
<1>14. CASE Pgrep(c)
  <2>1. ASSUME NEW p \in Pid, procCtx[p] = cli[c].ctx, UNCHANGED procCtx,
               cli' = [cli EXCEPT ![c].pid = p]
        PROVE  PidChange(c) /\ \A d \in Cli \ {c} : cli'[d] = cli[d]
    BY <1>1, <2>1 DEF PidChange, Local
  <2>2. CASE cli' = [cli EXCEPT ![c].pid = NoPid]
    BY <1>1, <2>2 DEF PidChange, Local
  <2> QED BY <1>14, <2>1, <2>2 DEF Pgrep, Matching, procs
<1>15. CASE SavePid(c)
  <2>1. CASE cli' = [cli EXCEPT ![c].pid = NoPid]
    BY <1>1, <2>1 DEF PidChange, Local
  <2> QED BY <1>3, <1>15, <2>1 DEF SavePid
<1>16. CASE PollReady(c)
  BY <1>1, <1>16 DEF PollReady, PidChange, Local
<1>17. CASE PollFails(c)
  <2>1. ASSUME NEW w, cli' = [cli EXCEPT ![c].for = w]
        PROVE  PidChange(c) /\ \A d \in Cli \ {c} : cli'[d] = cli[d]
    BY <1>1, <2>1 DEF PidChange, Local
  <2> QED BY <1>3, <1>17, <2>1 DEF PollFails
<1> QED
  BY <1>3, <1>4, <1>6, <1>7, <1>8, <1>9, <1>10, <1>11, <1>12, <1>13, <1>14,
     <1>15, <1>16, <1>17
  DEF CliStep, KillSignal, EndListing, ProbePort, CheckAlreadyConnected,
      DialUp, DialFails, SaveConnParams, Merge, LoadConnParams

LEMMA NextNames ==
  ASSUME SharedType, CliType, [Next]_vars
  PROVE  (\A x \in Ctx : FileChange(x)) /\ (\A c \in Cli : PidChange(c))
<1>1. ASSUME NEW c \in Cli, CliStep(c)
      PROVE  (\A x \in Ctx : FileChange(x)) /\ (\A d \in Cli : PidChange(d))
  BY <1>1, CliStepFiles, CliStepPid DEF PidChange
<1>2. ASSUME NEW c \in Cli, StartStep(c) \/ Interrupt(c)
      PROVE  (\A x \in Ctx : FileChange(x)) /\ (\A d \in Cli : PidChange(d))
  <2>1. UNCHANGED pidFile
    BY <1>2 DEF StartStep, StartConnect, StartKill, StartReconnect,
                StartListing, Start, Interrupt, files
  <2>2. cli'[c].pid = NoPid /\ \A d \in Cli \ {c} : cli'[d] = cli[d]
    BY <1>2, EndPid
    DEF StartStep, StartConnect, StartKill, StartReconnect, StartListing,
        Start, Interrupt, NewLocal, CliType
  <2> QED BY <2>1, <2>2 DEF FileChange, PidChange
<1>3. ASSUME NEW p \in Pid, ProcStep(p)
      PROVE  (\A x \in Ctx : FileChange(x)) /\ (\A d \in Cli : PidChange(d))
  BY <1>3, ProcStepType DEF FileChange, PidChange, files
<1>4. CASE UNCHANGED vars
  BY <1>4 DEF vars, FileChange, PidChange
<1> QED BY <1>1, <1>2, <1>3, <1>4 DEF Next

LEMMA OwnStep ==
  ASSUME ModelAssumption, ~PidReuse, SharedType, CliType, OwnInv,
         UNCHANGED procs \/ \E p \in Pid : ProcChange(p),
         \A x \in Ctx : FileChange(x), \A c \in Cli : PidChange(c),
         SharedType', CliType'
  PROVE  OwnInv'
<1>1. /\ \A p \in Pid : /\ procState'[p] # "foreign"
                        /\ procState'[p] = "none" <=> procCtx'[p] = NoCtx
      /\ \A q \in Pid : Named(q) => procCtx'[q] \in {NoCtx, procCtx[q]}
  <2>1. CASE UNCHANGED procs
    BY <2>1 DEF procs, OwnInv
  <2>2. ASSUME NEW p \in Pid, ProcChange(p)
        PROVE  <1>1
    <3>1. CASE Set(p, "none", NoCtx)
      BY <3>1 DEF Set, OwnInv, SharedType
    <3>2. ASSUME NEW s \in Listening, procState[p] \in Listening,
                 Set(p, s, procCtx[p])
          PROVE  <1>1
      BY <3>2 DEF Set, OwnInv, SharedType, Listening
    <3>3. ASSUME NEW x \in Ctx, FreshPid(p), Set(p, "auth", x)
          PROVE  <1>1
      BY <3>3 DEF Set, OwnInv, SharedType, FreshPid, ModelAssumption
    <3>4. CASE procState[p] = "auth" /\ Set(p, "up", procCtx[p])
      BY <3>4 DEF Set, OwnInv, SharedType
    <3>5. procState[p] # "foreign"
      BY DEF OwnInv
    <3> QED BY <2>2, <3>1, <3>2, <3>3, <3>4, <3>5 DEF ProcChange
  <2> QED BY <2>1, <2>2
<1>2. \A x \in Ctx : pidFile[x] # NoPid => procCtx[pidFile[x]] \in {NoCtx, x}
  BY DEF OwnInv, PidFileNamesOwnTunnel, SharedType
<1>3. \A c \in Cli : cli[c].pid \in Pid \cup {NoPid}
  BY DEF CliType, Local
<1>4. \A x \in Ctx : pidFile[x] # NoPid => procCtx'[pidFile[x]] \in {NoCtx, x}
  BY <1>1, <1>2 DEF Named, SharedType
<1>5. \A c \in Cli : cli[c].pid # NoPid =>
                      procCtx'[cli[c].pid] \in {NoCtx, cli[c].ctx}
  BY <1>1, <1>3 DEF Named, OwnInv
<1>6. \A x \in Ctx : pidFile'[x] # NoPid =>
                      procCtx'[pidFile'[x]] \in {NoCtx, x}
  BY <1>4, <1>5 DEF FileChange
<1>7. PidFileNamesOwnTunnel'
  BY <1>1, <1>6 DEF PidFileNamesOwnTunnel, SharedType
<1>8. \A c \in Cli : cli'[c].pid # NoPid =>
                      procCtx'[cli'[c].pid] \in {NoCtx, cli'[c].ctx}
  BY <1>4, <1>5 DEF PidChange
<1> QED BY <1>1, <1>7, <1>8 DEF OwnInv

LEMMA OwnInitial == ASSUME ModelAssumption, Init PROVE OwnInv
<1>1. \A c \in Cli : cli[c].pid = NoPid
  BY DEF Init, NewLocal
<1> QED BY <1>1 DEF Init, OwnInv, PidFileNamesOwnTunnel

OwnIInv == SharedType /\ CliType /\ OwnInv

LEMMA OwnInductive ==
  ASSUME ~PidReuse PROVE Spec => []OwnIInv
<1>1. Init => OwnIInv
  BY ModelAssumption, TypeInit, OwnInitial DEF OwnIInv
<1>2. OwnIInv /\ [Next]_vars => OwnIInv'
  BY ModelAssumption, TypeStep, NextProcs, NextNames, OwnStep DEF OwnIInv
<1> QED BY <1>1, <1>2, PTL DEF Spec

(* Where the OS does not hand a pid out again while something names it, a  *)
(* pid file never names the tunnel of another context, whatever commands   *)
(* interleave on the state directory.                                      *)
THEOREM PidFilesNameOwnTunnels ==
  ASSUME ~PidReuse PROVE Spec => []PidFileNamesOwnTunnel
<1>1. OwnIInv => PidFileNamesOwnTunnel
  BY DEF OwnIInv, OwnInv
<1> QED BY <1>1, OwnInductive, PTL

LEMMA SignalStep ==
  ASSUME OwnIInv, Next PROVE SignalsOwnTunnel
<1> SUFFICES ASSUME NEW p \in Pid, procState[p] # "dying",
                    procState'[p] = "dying"
             PROVE  \E c \in Cli : /\ pc[c] = "killsig" /\ pc'[c] = "killrm"
                                  /\ cli[c].ctx = procCtx[p]
  BY DEF SignalsOwnTunnel
<1> USE DEF OwnIInv
<1>1. ASSUME NEW c \in Cli, KillSignal(c)
      PROVE  /\ pc[c] = "killsig" /\ pc'[c] = "killrm"
             /\ cli[c].ctx = procCtx[p]
  <2>1. cli[c].pid \in Pid /\ cli[c].pid # NoPid
    BY <1>1, ModelAssumption
    DEF KillSignal, CliType, ControlOK, ModelAssumption
  <2>2. cli[c].pid = p
    BY <1>1, <2>1 DEF KillSignal, SharedType, procs
  <2>3. procState[p] # "none"
    BY <1>1, <2>2 DEF KillSignal, Listening, SharedType, procs
  <2>4. procCtx[p] = cli[c].ctx
    BY <2>1, <2>2, <2>3 DEF OwnInv
  <2>5. pc'[c] = "killrm"
    BY <1>1 DEF KillSignal, Goto, CliType
  <2> QED BY <1>1, <2>4, <2>5 DEF KillSignal
<1>2. ASSUME NEW c \in Cli, CliStep(c), ~KillSignal(c)
      PROVE  FALSE
  <2>1. CASE Dial(c) \/ DialUp(c) \/ DialFails(c)
    BY <2>1 DEF Dial, DialUp, DialFails, SharedType, procs
  <2>2. CASE UNCHANGED procState
    BY <2>2
  <2> QED
    BY <1>2, <2>1, <2>2
    DEF CliStep, ReadPid, SignalZero, RemoveDead, KillRead, KillRemove,
        VisitNext, KillNext, EndListing, ProbePort, CheckAlreadyConnected,
        Prepare, Pgrep, SavePid, SaveConnParams, PollReady, PollFails, Merge,
        LoadConnParams, procs
<1>3. ASSUME NEW c \in Cli, StartStep(c) \/ Interrupt(c)
      PROVE  FALSE
  BY <1>3 DEF StartStep, StartConnect, StartKill, StartReconnect,
              StartListing, Start, Interrupt, procs
<1>4. ASSUME NEW q \in Pid, ProcStep(q)
      PROVE  FALSE
  <2>1. PICK s \in ProcStates \ {"dying"} : Becomes(q, s)
    BY <1>4 DEF ProcStep, TunnelDies, TunnelStalls, TunnelRecovers,
                DyingExits, LoneSsh, ForeignStarts, ForeignExits, ProcStates
  <2> QED BY <2>1 DEF Becomes, SharedType
<1> QED BY <1>1, <1>2, <1>3, <1>4 DEF Next

(* A SIGTERM reaches only a tunnel of the context being killed, however    *)
(* many kills, connects and reconnects run at once, where the OS does not  *)
(* hand a pid out again while something names it.                          *)
THEOREM KillsSignalOwnTunnels ==
  ASSUME ~PidReuse PROVE Spec => SignalsOnlyOwnTunnels
<1>1. OwnIInv /\ [Next]_vars => [SignalsOwnTunnel]_vars
  BY SignalStep
<1> QED BY <1>1, OwnInductive, PTL DEF Spec, SignalsOnlyOwnTunnels

-----------------------------------------------------------------------------
(***************************************************************************)
(* What holds when no two commands overlap on one context, none is         *)
(* interrupted and pgrep finds the tunnel: no live tunnel is lost, the     *)
(* kill commands leave none behind and, when no pid is reused, Tunnels     *)
(* implements TunnelService.                                               *)
(***************************************************************************)

-----------------------------------------------------------------------------
(* A step of c leaves the other invocations alone, and c goes on with the  *)
(* same command, on the same context unless it lists, or ends.             *)
ListingSteps == {"list", "read", "signal", "remove",
                 "killread", "killsig", "killrm"}
Visits == {"list", "killall"}

GoesOn(c) ==
  /\ cli'[c].cmd = cli[c].cmd
  /\ cli'[c].for \in Visits <=> cli[c].for \in Visits
  /\ pc'[c] = "list" => cli[c].for \in Visits
  /\ cli[c].for \in Visits => pc'[c] \in ListingSteps
  /\ cli'[c].ctx = cli[c].ctx \/ cli[c].for \in Visits
  /\ pc'[c] \in Steps

LEMMA CliStepBusy ==
  ASSUME SharedType, CliType, NEW c \in Cli, CliStep(c)
  PROVE  /\ Busy(c)
         /\ \A d \in Cli \ {c} : pc'[d] = pc[d] /\ cli'[d] = cli[d]
<1>1. Busy(c)
  BY DEF Busy, Ended, CliStep, ReadPid, SignalZero, RemoveDead, KillRead,
         KillSignal, KillRemove, VisitNext, KillNext, EndListing, ProbePort,
         CheckAlreadyConnected, Prepare, Dial, DialUp, DialFails, Pgrep,
         SavePid, SaveConnParams, PollReady, PollFails, Merge, LoadConnParams
<1>2. \A d \in Cli \ {c} : pc'[d] = pc[d]
  BY DEF CliType, CliStep, ReadPid, SignalZero, RemoveDead, KillRead,
         KillSignal, KillRemove, VisitNext, KillNext, EndListing, ProbePort,
         CheckAlreadyConnected, Prepare, Dial, DialUp, DialFails, Pgrep,
         SavePid, SaveConnParams, PollReady, PollFails, Merge, LoadConnParams,
         End, Goto, TunnelUp, TunnelDown, AfterKill
<1> QED BY <1>1, <1>2, CliStepPid

LEMMA CliStepGoesOn ==
  ASSUME SharedType, CliType, SerialInv, NEW c \in Cli, CliStep(c)
  PROVE  ~Busy(c)' \/ GoesOn(c)
<1>1. pc \in [Cli -> Ended \cup Steps] /\ cli \in [Cli -> Local]
  BY DEF CliType
<1>2. cli[c] \in Local
  BY <1>1
<1>3. /\ cli[c].cmd \in Listings <=> cli[c].for \in Visits
      /\ cli[c].for \in Visits => pc[c] \in ListingSteps
  BY CliStepBusy DEF SerialInv, Visits, ListingSteps
<1>4. pc[c] = "list" => cli[c].for \in Visits
  BY <1>3 DEF SerialInv
<1>5. ASSUME NEW l \in Ended, End(c, l)
      PROVE  ~Busy(c)'
  BY <1>1, <1>5 DEF End, Goto, Busy
<1>6. {"idle", "ok", "already", "failed"} \subseteq Ended
  BY DEF Ended
<1>7. ASSUME NEW l \in Steps, Goto(c, l), UNCHANGED cli,
             l = "list" => cli[c].for \in Visits,
             cli[c].for \in Visits => l \in ListingSteps
      PROVE  GoesOn(c)
  BY <1>1, <1>7 DEF Goto, GoesOn
<1>8. ASSUME NEW l \in Steps, NEW p, Goto(c, l),
             cli' = [cli EXCEPT ![c].pid = p],
             l # "list", cli[c].for \in Visits => l \in ListingSteps
      PROVE  GoesOn(c)
  BY <1>1, <1>2, <1>8 DEF Goto, GoesOn, Local
<1>9. CASE ReadPid(c)
  BY <1>1, <1>2, <1>9
  DEF ReadPid, TunnelDown, Goto, GoesOn, Local, Visits, ListingSteps, Steps
<1>10. CASE SignalZero(c)
  BY <1>1, <1>2, <1>10
  DEF SignalZero, TunnelUp, Goto, GoesOn, Local, Visits, ListingSteps, Steps
<1>11. CASE RemoveDead(c)
  BY <1>1, <1>2, <1>11
  DEF RemoveDead, TunnelDown, Goto, GoesOn, Local, Visits, ListingSteps, Steps
<1>12. CASE KillRead(c)
  <2>1. PICK l \in {"killrm", "killsig"} : Goto(c, l)
    BY <1>12 DEF KillRead
  <2> QED BY <1>8, <1>12, <2>1 DEF KillRead, Steps, ListingSteps
<1>13. CASE KillSignal(c)
  BY <1>7, <1>13 DEF KillSignal, Steps, ListingSteps
<1>14. CASE KillRemove(c)
  <2>1. CASE cli[c].for \in {"kill", "fresh"}
    BY <1>5, <1>6, <1>14, <2>1 DEF KillRemove, AfterKill
  <2>2. CASE cli[c].for = "redial"
    BY <1>8, <1>14, <2>2 DEF KillRemove, AfterKill, Visits, Steps
  <2>3. CASE cli[c].for = "stale"
    BY <1>1, <1>2, <1>14, <2>3
    DEF KillRemove, AfterKill, Goto, GoesOn, Local, Visits, Steps
  <2>4. CASE cli[c].for = "killall"
    BY <1>1, <1>2, <1>14, <2>4
    DEF KillRemove, AfterKill, Goto, GoesOn, Local, Visits, ListingSteps, Steps
  <2> QED BY <1>14, <2>1, <2>2, <2>3, <2>4 DEF KillRemove, AfterKill
<1>15. CASE VisitNext(c)
  BY <1>1, <1>2, <1>4, <1>15
  DEF VisitNext, Goto, GoesOn, Local, Visits, ListingSteps, Steps
<1>16. CASE KillNext(c)
  BY <1>1, <1>2, <1>4, <1>16
  DEF KillNext, Goto, GoesOn, Local, Visits, ListingSteps, Steps
<1>17. CASE EndListing(c)
  BY <1>5, <1>6, <1>17 DEF EndListing
<1>18. CASE ProbePort(c)
  <2>1. PICK l \in {"files", "prepare"} : Goto(c, l)
    BY <1>18 DEF ProbePort
  <2> QED BY <1>3, <1>7, <1>18, <2>1 DEF ProbePort, Steps, ListingSteps
<1>19. CASE CheckAlreadyConnected(c)
  BY <1>3, <1>5, <1>6, <1>7, <1>19
  DEF CheckAlreadyConnected, Steps, ListingSteps
<1>20. CASE Prepare(c)
  <2>1. cli[c].for \notin Visits
    BY <1>3, <1>20 DEF Prepare, ListingSteps
  <2>2. CASE Goto(c, "read") /\ cli' = [cli EXCEPT ![c].for = "ensure"]
    BY <1>1, <1>2, <2>1, <2>2 DEF Goto, GoesOn, Local, Visits, Steps
  <2> QED BY <1>5, <1>6, <1>20, <2>2 DEF Prepare
<1>21. CASE Dial(c)
  BY <1>3, <1>5, <1>6, <1>8, <1>21 DEF Dial, Steps, ListingSteps
<1>22. CASE DialUp(c)
  BY <1>3, <1>7, <1>22 DEF DialUp, Steps, ListingSteps
<1>23. CASE DialFails(c)
  BY <1>5, <1>6, <1>23 DEF DialFails
<1>24. CASE Pgrep(c)
  BY <1>3, <1>8, <1>24 DEF Pgrep, Steps, ListingSteps
<1>25. CASE SavePid(c)
  BY <1>3, <1>5, <1>6, <1>8, <1>25 DEF SavePid, Steps, ListingSteps
<1>26. CASE SaveConnParams(c)
  <2>1. PICK l \in {"poll", "merge"} : Goto(c, l)
    BY <1>26 DEF SaveConnParams
  <2> QED BY <1>3, <1>7, <1>26, <2>1 DEF SaveConnParams, Steps, ListingSteps
<1>27. CASE PollReady(c)
  <2>1. cli[c].for \notin Visits
    BY <1>3, <1>27 DEF PollReady, ListingSteps
  <2> QED BY <1>1, <1>2, <1>27, <2>1 DEF PollReady, Goto, GoesOn, Local, Steps
<1>28. CASE PollFails(c)
  <2>1. cli[c].for \notin Visits
    BY <1>3, <1>28 DEF PollFails, ListingSteps
  <2>2. ASSUME NEW w \in {"fresh", "stale"}, Goto(c, "killread"),
               cli' = [cli EXCEPT ![c].for = w]
        PROVE  GoesOn(c)
    BY <1>1, <1>2, <2>1, <2>2 DEF Goto, GoesOn, Local, Visits, Steps
  <2> QED BY <1>5, <1>6, <1>28, <2>2 DEF PollFails
<1>29. CASE Merge(c)
  BY <1>5, <1>6, <1>29 DEF Merge
<1>30. CASE LoadConnParams(c)
  BY <1>3, <1>5, <1>6, <1>7, <1>30 DEF LoadConnParams, Steps, ListingSteps
<1> QED
  BY <1>9, <1>10, <1>11, <1>12, <1>13, <1>14, <1>15, <1>16, <1>17, <1>18,
     <1>19, <1>20, <1>21, <1>22, <1>23, <1>24, <1>25, <1>26, <1>27, <1>28,
     <1>29, <1>30 DEF CliStep

(* SerialInv as a condition on the label l and the local variables r of    *)
(* one invocation, and on those of two.                                    *)
InOrder(l, r) ==
  /\ l \notin Ended => /\ r.cmd \in Listings <=> r.for \in Visits
                       /\ r.cmd \in Listings => l \in ListingSteps
  /\ l = "list" => r.cmd \in Listings

Apart(l, r, m, s) ==
  l \notin Ended /\ m \notin Ended => /\ r.cmd \notin Listings
                                     /\ s.cmd \notin Listings
                                     /\ r.ctx # s.ctx

LEMMA SerialByPairs ==
  SerialInv <=> /\ \A c \in Cli : InOrder(pc[c], cli[c])
                /\ \A c, d \in Cli : c # d =>
                                    Apart(pc[c], cli[c], pc[d], cli[d])
BY DEF SerialInv, InOrder, Apart, Visits, ListingSteps, Busy

LEMMA SerialByPairsPrime ==
  SerialInv' <=> /\ \A c \in Cli : InOrder(pc'[c], cli'[c])
                 /\ \A c, d \in Cli : c # d =>
                                     Apart(pc'[c], cli'[c], pc'[d], cli'[d])
BY DEF SerialInv, InOrder, Apart, Visits, ListingSteps, Busy

LEMMA OneSerial ==
  ASSUME SerialInv, NEW c \in Cli,
         \A d \in Cli \ {c} : pc'[d] = pc[d] /\ cli'[d] = cli[d],
         InOrder(pc'[c], cli'[c]),
         \A d \in Cli \ {c} : Apart(pc'[c], cli'[c], pc[d], cli[d])
  PROVE  SerialInv'
<1>1. \A d \in Cli : InOrder(pc'[d], cli'[d])
  BY SerialByPairs
<1>2. \A d, e \in Cli \ {c} : d # e => Apart(pc'[d], cli'[d], pc'[e], cli'[e])
  BY SerialByPairs
<1>3. \A d \in Cli \ {c} : /\ Apart(pc'[c], cli'[c], pc'[d], cli'[d])
                          /\ Apart(pc'[d], cli'[d], pc'[c], cli'[c])
  BY DEF Apart
<1> QED BY <1>1, <1>2, <1>3, SerialByPairsPrime

LEMMA SerialStep ==
  ASSUME Serial, ~Interrupts, SharedType, CliType, SerialInv, [Next]_vars
  PROVE  SerialInv'
<1>1. ASSUME NEW c \in Cli, CliStep(c)
      PROVE  SerialInv'
  <2>1. /\ Busy(c)
        /\ \A d \in Cli \ {c} : pc'[d] = pc[d] /\ cli'[d] = cli[d]
    BY <1>1, CliStepBusy
  <2>2. /\ cli[c].cmd \in Listings <=> cli[c].for \in Visits
        /\ cli[c].for \in Visits => pc[c] \in ListingSteps
    BY <2>1 DEF SerialInv, Visits, ListingSteps
  <2>3. CASE ~Busy(c)'
    <3>1. /\ InOrder(pc'[c], cli'[c])
          /\ \A d \in Cli \ {c} : Apart(pc'[c], cli'[c], pc[d], cli[d])
      BY <2>3 DEF InOrder, Apart, Busy, Ended
    <3> QED BY <2>1, <3>1, OneSerial
  <2>4. CASE GoesOn(c)
    <3>1. InOrder(pc'[c], cli'[c])
      BY <2>2, <2>4 DEF InOrder, GoesOn
    <3>2. \A d \in Cli \ {c} : Apart(pc[c], cli[c], pc[d], cli[d])
      BY SerialByPairs
    <3>3. \A d \in Cli \ {c} : Apart(pc'[c], cli'[c], pc[d], cli[d])
      BY <2>1, <2>2, <2>4, <3>2 DEF Apart, GoesOn, Busy
    <3> QED BY <2>1, <3>1, <3>3, OneSerial
  <2> QED BY <1>1, <2>3, <2>4, CliStepGoesOn
<1>2. ASSUME NEW c \in Cli, NEW name \in Commands, NEW x \in Ctx \cup {NoCtx},
             NEW l \in {"read", "killread", "params", "list"},
             NEW w \in Callers, NEW S, Start(c, name, x, l, w, S),
             name \in Listings <=> w \in Visits,
             name \in Listings <=> l = "list"
      PROVE  SerialInv'
  <2>1. /\ pc'[c] = l /\ cli'[c].cmd = name
        /\ cli'[c].ctx = x /\ cli'[c].for = w
    BY <1>2 DEF Start, Goto, NewLocal, CliType
  <2>2. \A d \in Cli \ {c} : pc'[d] = pc[d] /\ cli'[d] = cli[d]
    BY <1>2 DEF Start, Goto, CliType
  <2>3. \A d \in Cli \ {c} : Busy(d) =>
          /\ name \notin Listings /\ cli[d].cmd \notin Listings
          /\ cli[d].ctx # x
    BY <1>2 DEF Start, MayStart
  <2>4. /\ InOrder(pc'[c], cli'[c])
        /\ \A d \in Cli \ {c} : Apart(pc'[c], cli'[c], pc[d], cli[d])
    BY <1>2, <2>1, <2>2, <2>3 DEF InOrder, Apart, ListingSteps, Busy
  <2> QED BY <2>2, <2>4, OneSerial
<1>3. ASSUME NEW c \in Cli, StartStep(c)
      PROVE  SerialInv'
  <2>1. ASSUME NEW x \in Ctx, StartConnect(c, x)
        PROVE  SerialInv'
    BY <1>2, <2>1 DEF StartConnect, Commands, Callers, Listings, Visits
  <2>2. ASSUME NEW x \in Ctx, StartKill(c, x)
        PROVE  SerialInv'
    BY <1>2, <2>2 DEF StartKill, Commands, Callers, Listings, Visits
  <2>3. ASSUME NEW x \in Ctx, StartReconnect(c, x)
        PROVE  SerialInv'
    BY <1>2, <2>3 DEF StartReconnect, Commands, Callers, Listings, Visits
  <2>4. ASSUME NEW name \in Listings, StartListing(c, name)
        PROVE  SerialInv'
    BY <1>2, <2>4 DEF StartListing, Commands, Callers, Listings, Visits
  <2> QED BY <1>3, <2>1, <2>2, <2>3, <2>4 DEF StartStep
<1>4. ASSUME NEW c \in Cli, Interrupt(c)
      PROVE  FALSE
  BY <1>4 DEF Interrupt
<1>5. ASSUME NEW p \in Pid, ProcStep(p)
      PROVE  SerialInv'
  BY <1>5, ProcStepType DEF SerialInv, Busy
<1>6. CASE UNCHANGED vars
  BY <1>6 DEF vars, SerialInv, Busy
<1> QED BY <1>1, <1>3, <1>4, <1>5, <1>6 DEF Next

-----------------------------------------------------------------------------
(* Accounted, as a condition on values: l and r are the label and the      *)
(* local variables of an invocation, F the pid files, S and X the states   *)
(* and the contexts of the processes.                                      *)
AccountsAt(l, r, F, S, X) ==
  /\ l \in {"signal", "remove", "killsig"} => F[r.ctx] = r.pid
  /\ l = "remove" => S[r.pid] = "none"
  /\ l \in {"killrm", "dial"} => \A p \in Pid : X[p] = r.ctx => S[p] = "dying"
  /\ l = "auth" =>
       \A p \in Pid \ {r.pid} : X[p] = r.ctx => S[p] = "dying"
  /\ l \in {"pgrep", "save"} => \A p \in Pid : X[p] = r.ctx => p = r.pid

(* p is a tunnel of the context of r that r or the pid file accounts for.  *)
HeldAt(p, x, l, r, F, S) ==
  /\ S[p] \in Live =>
       F[x] = p \/ (l \in {"pgrep", "save"} /\ r.ctx = x /\ r.pid = p)
  /\ S[p] = "auth" => l = "auth" /\ r.ctx = x /\ r.pid = p

LEMMA AccountedNow ==
  ASSUME Accounted
  PROVE  /\ \A c \in Cli : AccountsAt(pc[c], cli[c], pidFile, procState, procCtx)
         /\ \A p \in Pid : procState[p] \in Live =>
              \/ pidFile[procCtx[p]] = p
              \/ \E c \in Cli : /\ pc[c] \in {"pgrep", "save"}
                               /\ cli[c].ctx = procCtx[p] /\ cli[c].pid = p
         /\ \A p \in Pid : procState[p] = "auth" =>
              \E c \in Cli : /\ pc[c] = "auth" /\ cli[c].pid = p
                             /\ cli[c].ctx = procCtx[p]
BY DEF Accounted, Accounts, AccountsAt, InHand

LEMMA AccountedThen ==
  ASSUME \A c \in Cli : AccountsAt(pc'[c], cli'[c], pidFile', procState', procCtx'),
         \A p \in Pid : procState'[p] \in Live =>
           \/ pidFile'[procCtx'[p]] = p
           \/ \E c \in Cli : /\ pc'[c] \in {"pgrep", "save"}
                            /\ cli'[c].ctx = procCtx'[p] /\ cli'[c].pid = p,
         \A p \in Pid : procState'[p] = "auth" =>
           \E c \in Cli : /\ pc'[c] = "auth" /\ cli'[c].pid = p
                          /\ cli'[c].ctx = procCtx'[p]
  PROVE  Accounted'
BY DEF Accounted, Accounts, AccountsAt, InHand

(* Two commands under way are on different contexts.                       *)
LEMMA DifferentContexts ==
  ASSUME SerialInv, NEW c \in Cli, NEW d \in Cli, c # d, Busy(c), Busy(d)
  PROVE  cli[c].ctx # cli[d].ctx
BY DEF SerialInv

(* While c is not dialing, the tunnels of its context are dying or in the  *)
(* pid file.                                                               *)
LEMMA TunnelsOfContext ==
  ASSUME ModelAssumption, SharedType, CliType, OwnInv, SerialInv, Accounted,
         NEW c \in Cli, Busy(c), pc[c] \notin {"auth", "pgrep", "save"},
         cli[c].ctx \in Ctx, NEW p \in Pid, procCtx[p] = cli[c].ctx
  PROVE  \/ procState[p] = "dying"
         \/ procState[p] \in Live /\ pidFile[cli[c].ctx] = p
<1>1. \A d \in Cli : Busy(d) /\ cli[d].ctx = cli[c].ctx => d = c
  BY DifferentContexts
<1>2. \A d \in Cli : pc[d] \in {"auth", "pgrep", "save"} => Busy(d)
  BY DEF Busy, Ended
<1>3. procState[p] # "none" /\ procState[p] # "foreign"
  BY ModelAssumption DEF OwnInv, ModelAssumption
<1>4. procState[p] # "auth"
  BY <1>1, <1>2, AccountedNow
<1>5. procState[p] \in Live => pidFile[cli[c].ctx] = p
  BY <1>1, <1>2, AccountedNow
<1> QED BY <1>3, <1>4, <1>5 DEF SharedType, ProcStates, Live

(* A step of c touches the pid file and the processes of its context only. *)
LEMMA CliTouches ==
  ASSUME ModelAssumption, ~PidReuse, SharedType, CliType, OwnInv,
         NEW c \in Cli, CliStep(c)
  PROVE  /\ \A y \in Ctx : y # cli[c].ctx => pidFile'[y] = pidFile[y]
         /\ \A p \in Pid :
              \/ procState'[p] = procState[p] /\ procCtx'[p] = procCtx[p]
              \/ /\ procCtx[p] \in {NoCtx, cli[c].ctx}
                 /\ procCtx'[p] \in {NoCtx, cli[c].ctx}
                 /\ procState[p] = "none" => ~Named(p)
<1>1. \A y \in Ctx : y # cli[c].ctx => pidFile'[y] = pidFile[y]
  BY DEF SharedType, CliStep, ReadPid, SignalZero, RemoveDead, KillRead,
         KillSignal, KillRemove, VisitNext, KillNext, EndListing, ProbePort,
         CheckAlreadyConnected, Prepare, Dial, DialUp, DialFails, Pgrep,
         SavePid, SaveConnParams, PollReady, PollFails, Merge, LoadConnParams,
         files
<1>2. CASE KillSignal(c)
  <2>1. cli[c].pid \in Pid /\ cli[c].pid # NoPid
    BY <1>2, ModelAssumption
    DEF KillSignal, CliType, ControlOK, ModelAssumption
  <2>2. procCtx[cli[c].pid] \in {NoCtx, cli[c].ctx}
    BY <2>1 DEF OwnInv
  <2> QED BY <1>1, <1>2, <2>1, <2>2 DEF KillSignal, SharedType, procs, Listening
<1>3. CASE Dial(c)
  <2>1. \A p \in Pid : FreshPid(p) => /\ procCtx[p] = NoCtx /\ ~Named(p)
    BY DEF FreshPid, OwnInv
  <2> QED BY <1>1, <1>3, <2>1 DEF Dial, SharedType, procs
<1>4. CASE DialUp(c)
  BY <1>1, <1>4 DEF DialUp, SharedType
<1>5. CASE DialFails(c)
  BY <1>1, <1>5 DEF DialFails, SharedType, procs
<1>6. CASE UNCHANGED procs
  BY <1>1, <1>6 DEF procs
<1> QED
  BY <1>2, <1>3, <1>4, <1>5, <1>6
  DEF CliStep, ReadPid, SignalZero, RemoveDead, KillRead, KillRemove,
      VisitNext, KillNext, EndListing, ProbePort, CheckAlreadyConnected,
      Prepare, Pgrep, SavePid, SaveConnParams, PollReady, PollFails, Merge,
      LoadConnParams

(* What the invocation that takes the step accounts for.                   *)
LEMMA OwnAccounts ==
  ASSUME ModelAssumption, ~PidReuse, ~PgrepMayMiss, SharedType, CliType,
         OwnInv, SerialInv, Accounted, NEW c \in Cli, CliStep(c)
  PROVE  /\ AccountsAt(pc'[c], cli'[c], pidFile', procState', procCtx')
         /\ \A p \in Pid : cli[c].ctx \in Ctx /\ procCtx'[p] = cli[c].ctx =>
              HeldAt(p, cli[c].ctx, pc'[c], cli'[c], pidFile', procState')
<1> DEFINE x == cli[c].ctx
           P == AccountsAt(pc'[c], cli'[c], pidFile', procState', procCtx')
           Q(p) == x \in Ctx /\ procCtx'[p] = x =>
                     HeldAt(p, x, pc'[c], cli'[c], pidFile', procState')
<1>1. /\ pc \in [Cli -> Ended \cup Steps] /\ cli \in [Cli -> Local]
      /\ cli[c] \in Local /\ Busy(c) /\ cli[c].pid \in Pid \cup {NoPid}
  BY CliStepBusy DEF CliType, Local
<1>2. AccountsAt(pc[c], cli[c], pidFile, procState, procCtx)
  BY AccountedNow
<1>3. pc[c] \in Steps \ {"list"} => x \in Ctx
  BY DEF CliType, ControlOK
<1>4. \A p \in Pid : x \in Ctx /\ procCtx[p] = x
                     /\ pc[c] \notin {"auth", "pgrep", "save"} =>
        procState[p] = "dying" \/ (procState[p] \in Live /\ pidFile[x] = p)
  BY <1>1, TunnelsOfContext
<1>5. ASSUME UNCHANGED <<files, procs>>,
             pc[c] \notin {"auth", "pgrep", "save"}
      PROVE  \A p \in Pid : Q(p)
  BY <1>4, <1>5 DEF HeldAt, files, procs, Live
<1>6. ASSUME pc'[c] \notin {"signal", "remove", "killsig", "killrm", "dial",
                           "auth", "pgrep", "save"}
      PROVE  P
  BY <1>6 DEF AccountsAt
<1>7. ASSUME NEW l \in Ended, End(c, l)
      PROVE  P
  <2>1. pc'[c] = l
    BY <1>1, <1>7 DEF End, Goto
  <2> QED BY <1>6, <2>1 DEF Ended
<1>8. CASE ReadPid(c)
  <2>1. \A p \in Pid : Q(p)
    BY <1>5, <1>8 DEF ReadPid
  <2>2. x \in Ctx
    BY <1>3, <1>8 DEF ReadPid, Steps
  <2>3. CASE pidFile[x] = NoPid /\ TunnelDown(c)
    <3>1. pc'[c] = "dial" => /\ cli'[c].ctx = x
                            /\ \A p \in Pid : procCtx'[p] = x => procState'[p] = "dying"
      BY <1>1, <1>4, <1>8, <2>2, <2>3, ModelAssumption
      DEF ReadPid, TunnelDown, Goto, Local, procs, ModelAssumption
    <3>2. pc'[c] \in {"prepare", "dial", "list"}
      BY <1>1, <2>3 DEF TunnelDown, Goto
    <3> QED BY <2>1, <3>1, <3>2 DEF AccountsAt
  <2>4. CASE Goto(c, "signal") /\ cli' = [cli EXCEPT ![c].pid = pidFile[x]]
    <3>1. pc'[c] = "signal" /\ cli'[c].pid = pidFile[x] /\ cli'[c].ctx = x
      BY <1>1, <2>4 DEF Goto, Local
    <3> QED BY <1>8, <2>1, <3>1 DEF ReadPid, files, AccountsAt
  <2> QED BY <1>8, <2>3, <2>4 DEF ReadPid
<1>9. CASE SignalZero(c)
  <2>1. \A p \in Pid : Q(p)
    BY <1>5, <1>9 DEF SignalZero
  <2>2. CASE TunnelUp(c)
    <3>1. pc'[c] \in {"port", "poll", "merge", "list"}
      BY <1>1, <2>2 DEF TunnelUp, Goto
    <3> QED BY <1>6, <2>1, <3>1
  <2>3. CASE ~Alive(cli[c].pid) /\ Goto(c, "remove") /\ UNCHANGED cli
    <3>1. pc'[c] = "remove" /\ cli'[c] = cli[c]
      BY <1>1, <2>3 DEF Goto
    <3> QED
      BY <1>2, <1>9, <2>1, <2>3, <3>1
      DEF SignalZero, files, procs, AccountsAt, Alive
  <2> QED BY <1>9, <2>2, <2>3 DEF SignalZero
<1>10. CASE RemoveDead(c)
  <2>1. x \in Ctx
    BY <1>3, <1>10 DEF RemoveDead, Steps
  <2>2. procState[pidFile[x]] = "none"
    BY <1>2, <1>10 DEF RemoveDead, AccountsAt
  <2>3. \A p \in Pid : procCtx[p] = x => procState[p] = "dying"
    BY <1>4, <1>10, <2>1, <2>2 DEF RemoveDead, Live
  <2>4. \A p \in Pid : Q(p)
    BY <1>10, <2>3 DEF RemoveDead, HeldAt, procs, Live
  <2>5. pc'[c] \in {"prepare", "dial", "list"}
        /\ (pc'[c] = "dial" => cli'[c].ctx = x)
    BY <1>1, <1>10 DEF RemoveDead, TunnelDown, Goto, Local
  <2> QED BY <1>10, <2>3, <2>4, <2>5 DEF RemoveDead, AccountsAt, procs
<1>11. CASE KillRead(c)
  <2>1. \A p \in Pid : Q(p)
    BY <1>5, <1>11 DEF KillRead
  <2>2. x \in Ctx
    BY <1>3, <1>11 DEF KillRead, Steps
  <2>3. cli'[c].ctx = x /\ cli'[c].pid = pidFile[x]
    BY <1>1, <1>11 DEF KillRead, Local
  <2>4. CASE pidFile[x] = NoPid
    <3>1. pc'[c] = "killrm"
      BY <1>1, <1>11, <2>4 DEF KillRead, Goto
    <3>2. \A p \in Pid : procCtx[p] = x => procState[p] = "dying"
      BY <1>4, <1>11, <2>2, <2>4, ModelAssumption
      DEF KillRead, ModelAssumption
    <3> QED BY <1>11, <2>1, <2>3, <3>1, <3>2 DEF KillRead, AccountsAt, procs
  <2>5. CASE pidFile[x] # NoPid
    <3>1. pc'[c] = "killsig"
      BY <1>1, <1>11, <2>5 DEF KillRead, Goto
    <3> QED BY <1>11, <2>1, <2>3, <3>1 DEF KillRead, AccountsAt, files
  <2> QED BY <2>4, <2>5
<1>12. CASE KillSignal(c)
  <2>1. x \in Ctx /\ cli[c].pid \in Pid
    BY <1>3, <1>12 DEF KillSignal, Steps, CliType, ControlOK
  <2>2. pidFile[x] = cli[c].pid
    BY <1>2, <1>12 DEF KillSignal, AccountsAt
  <2>3. pc'[c] = "killrm" /\ cli'[c] = cli[c]
    BY <1>1, <1>12 DEF KillSignal, Goto
  <2>4. \A p \in Pid : procCtx[p] = x => procState'[p] \in {"dying", "none"}
    BY <1>4, <1>12, <2>1, <2>2
    DEF KillSignal, SharedType, Live, Listening, procs
  <2>5. \A p \in Pid : procCtx'[p] = x =>
          procCtx[p] = x /\ procState'[p] # "none"
    BY <1>12, <2>1, ModelAssumption
    DEF KillSignal, SharedType, OwnInv, procs, ModelAssumption
  <2>6. \A p \in Pid : procCtx'[p] = x => procState'[p] = "dying"
    BY <2>4, <2>5
  <2>7. \A p \in Pid : Q(p)
    BY <2>6 DEF HeldAt, Live
  <2> QED BY <2>3, <2>6, <2>7 DEF AccountsAt
<1>13. CASE KillRemove(c)
  <2>1. \A p \in Pid : procCtx[p] = x => procState[p] = "dying"
    BY <1>2, <1>13 DEF KillRemove, AccountsAt
  <2>2. \A p \in Pid : Q(p)
    BY <1>13, <2>1 DEF KillRemove, HeldAt, procs, Live
  <2>3. CASE End(c, "idle") \/ End(c, "failed")
    BY <1>7, <2>2, <2>3 DEF Ended
  <2>4. CASE cli[c].for \notin {"kill", "fresh"}
    <3>1. pc'[c] \in {"dial", "read", "list"}
          /\ (pc'[c] = "dial" => cli'[c].ctx = x)
      BY <1>1, <1>13, <2>4 DEF KillRemove, AfterKill, Goto, Local
    <3> QED BY <1>13, <2>1, <2>2, <3>1 DEF KillRemove, AccountsAt, procs
  <2> QED BY <1>13, <2>3, <2>4 DEF KillRemove, AfterKill
<1>14. CASE Dial(c)
  <2>1. x \in Ctx /\ x # NoCtx
    BY <1>3, <1>14, ModelAssumption DEF Dial, Steps, ModelAssumption
  <2>2. \A p \in Pid : procCtx[p] = x => procState[p] = "dying"
    BY <1>2, <1>14 DEF Dial, AccountsAt
  <2>3. CASE End(c, "failed") /\ UNCHANGED procs
    BY <1>5, <1>7, <1>14, <2>3 DEF Dial, Ended
  <2>4. ASSUME NEW p \in Pid, procState' = [procState EXCEPT ![p] = "auth"],
               procCtx' = [procCtx EXCEPT ![p] = x],
               cli' = [cli EXCEPT ![c].pid = p], Goto(c, "auth")
        PROVE  P /\ \A q \in Pid : Q(q)
    <3>1. pc'[c] = "auth" /\ cli'[c].pid = p /\ cli'[c].ctx = x
      BY <1>1, <2>4 DEF Goto, Local
    <3>2. \A q \in Pid \ {p} : procCtx'[q] = x => procState'[q] = "dying"
      BY <2>2, <2>4 DEF SharedType
    <3>3. procState'[p] = "auth"
      BY <2>4 DEF SharedType
    <3> QED BY <3>1, <3>2, <3>3 DEF AccountsAt, HeldAt, Live
  <2> QED BY <1>14, <2>3, <2>4 DEF Dial
<1>15. CASE DialUp(c)
  <2>1. x \in Ctx /\ cli[c].pid \in Pid
    BY <1>3, <1>15 DEF DialUp, Steps, CliType, ControlOK
  <2>2. pc'[c] = "pgrep" /\ cli'[c] = cli[c]
    BY <1>1, <1>15 DEF DialUp, Goto
  <2>3. \A p \in Pid \ {cli[c].pid} : procCtx[p] # x
    <3>1. \A p \in Pid \ {cli[c].pid} : procCtx[p] = x => procState[p] = "dying"
      BY <1>2, <1>15 DEF DialUp, AccountsAt
    <3> QED BY <1>15, <2>1, <3>1 DEF DialUp, PortFree, Holds, Listening
  <2>4. procState'[cli[c].pid] = "up" /\ UNCHANGED procCtx
    BY <1>15, <2>1 DEF DialUp, SharedType
  <2> QED BY <2>1, <2>2, <2>3, <2>4 DEF AccountsAt, HeldAt
<1>16. CASE DialFails(c)
  <2>1. cli[c].pid \in Pid /\ x \in Ctx
    BY <1>3, <1>16 DEF DialFails, Steps, CliType, ControlOK
  <2>2. \A p \in Pid \ {cli[c].pid} : procCtx[p] = x => procState[p] = "dying"
    BY <1>2, <1>16 DEF DialFails, AccountsAt
  <2>3. \A p \in Pid : procCtx[p] = x /\ procState[p] \in Live => pidFile[x] = p
    <3> SUFFICES ASSUME NEW p \in Pid, procCtx[p] = x, procState[p] \in Live,
                        pidFile[x] # p
                 PROVE  FALSE
      OBVIOUS
    <3>1. PICK d \in Cli : pc[d] \in {"pgrep", "save"} /\ cli[d].ctx = x
      BY AccountedNow
    <3>2. d # c /\ Busy(d)
      BY <1>16, <3>1 DEF DialFails, Busy, Ended
    <3> QED BY <1>1, <3>1, <3>2, DifferentContexts
  <2>4. \A p \in Pid : procCtx[p] = x /\ procState[p] = "auth" =>
          p = cli[c].pid
    BY <2>2
  <2>5. \A p \in Pid : procCtx'[p] = x => /\ procCtx[p] = x
                                         /\ procState'[p] = procState[p]
                                         /\ procState[p] # "auth"
    BY <1>16, <2>1, <2>4, ModelAssumption
    DEF DialFails, SharedType, procs, ModelAssumption
  <2>6. \A p \in Pid : Q(p)
    BY <1>16, <2>3, <2>5 DEF DialFails, HeldAt, files
  <2> QED BY <1>7, <1>16, <2>6 DEF DialFails, Ended
<1>17. CASE Pgrep(c)
  <2>1. \A p \in Pid : procCtx[p] = x => p = cli[c].pid
    BY <1>2, <1>17 DEF Pgrep, AccountsAt
  <2>2. pc'[c] = "save" /\ cli'[c].ctx = x
    BY <1>1, <1>17 DEF Pgrep, Goto, Local
  <2>3. \A p \in Pid : procCtx[p] = x => p = cli'[c].pid
    BY <1>1, <1>17, <2>1 DEF Pgrep, Matching, Local
  <2>4. x \in Ctx
    BY <1>3, <1>17 DEF Pgrep, Steps
  <2>5. \A p \in Pid : procCtx[p] = x => procState[p] # "auth"
    <3> SUFFICES ASSUME NEW p \in Pid, procCtx[p] = x, procState[p] = "auth"
                 PROVE  FALSE
      OBVIOUS
    <3>1. PICK d \in Cli : pc[d] = "auth" /\ cli[d].ctx = x
      BY AccountedNow
    <3>2. d # c /\ Busy(d)
      BY <1>17, <3>1 DEF Pgrep, Busy, Ended
    <3> QED BY <1>1, <3>1, <3>2, DifferentContexts
  <2> QED
    BY <1>17, <2>2, <2>3, <2>5 DEF Pgrep, AccountsAt, HeldAt, procs
<1>18. CASE SavePid(c)
  <2>1. \A p \in Pid : procCtx[p] = x => p = cli[c].pid
    BY <1>2, <1>18 DEF SavePid, AccountsAt
  <2>2. x \in Ctx
    BY <1>3, <1>18 DEF SavePid, Steps
  <2>3. \A p \in Pid : procCtx[p] = x => pidFile'[x] = p
    BY <1>18, <2>1, <2>2, ModelAssumption
    DEF SavePid, SharedType, ModelAssumption
  <2>4. \A p \in Pid : procCtx[p] = x => procState[p] # "auth"
    <3> SUFFICES ASSUME NEW p \in Pid, procCtx[p] = x, procState[p] = "auth"
                 PROVE  FALSE
      OBVIOUS
    <3>1. PICK d \in Cli : pc[d] = "auth" /\ cli[d].ctx = x
      BY AccountedNow
    <3>2. d # c /\ Busy(d)
      BY <1>18, <3>1 DEF SavePid, Busy, Ended
    <3> QED BY <1>1, <3>1, <3>2, DifferentContexts
  <2>5. \A p \in Pid : Q(p)
    BY <1>18, <2>3, <2>4 DEF SavePid, HeldAt, procs
  <2>6. pc'[c] \in {"ok", "saveconn"}
    BY <1>1, <1>18 DEF SavePid, End, Goto
  <2> QED BY <1>6, <2>5, <2>6
<1>19. CASE \/ VisitNext(c) \/ KillNext(c) \/ EndListing(c) \/ ProbePort(c)
            \/ CheckAlreadyConnected(c) \/ Prepare(c) \/ PollReady(c)
            \/ PollFails(c) \/ LoadConnParams(c)
  <2>1. UNCHANGED <<files, procs>> /\ pc[c] \notin {"auth", "pgrep", "save"}
    BY <1>19 DEF VisitNext, KillNext, EndListing, ProbePort,
                 CheckAlreadyConnected, Prepare, PollReady, PollFails,
                 LoadConnParams
  <2>2. pc'[c] \in {"idle", "ok", "already", "failed", "read", "killread",
                   "files", "prepare", "merge"}
    BY <1>1, <1>19
    DEF VisitNext, KillNext, EndListing, ProbePort, CheckAlreadyConnected,
        Prepare, PollReady, PollFails, LoadConnParams, Goto, End
  <2> QED BY <1>5, <1>6, <2>1, <2>2
<1>20. CASE SaveConnParams(c) \/ Merge(c)
  <2>1. /\ UNCHANGED <<pidFile, procs>>
        /\ pc[c] \notin {"auth", "pgrep", "save"}
    BY <1>20 DEF SaveConnParams, Merge
  <2>2. pc'[c] \in {"ok", "failed", "poll", "merge"}
    BY <1>1, <1>20 DEF SaveConnParams, Merge, Goto, End
  <2>3. \A p \in Pid : Q(p)
    BY <1>4, <2>1 DEF HeldAt, procs, Live
  <2> QED BY <1>6, <2>2, <2>3
<1> QED
  BY <1>8, <1>9, <1>10, <1>11, <1>12, <1>13, <1>14, <1>15, <1>16, <1>17,
     <1>18, <1>19, <1>20 DEF CliStep

LEMMA AccountedCliStep ==
  ASSUME ModelAssumption, ~PidReuse, ~PgrepMayMiss, SharedType, CliType,
         OwnInv, SerialInv, Accounted, NEW c \in Cli, CliStep(c), SharedType'
  PROVE  Accounted'
<1> DEFINE x == cli[c].ctx
<1>1. /\ Busy(c)
      /\ \A d \in Cli \ {c} : pc'[d] = pc[d] /\ cli'[d] = cli[d]
  BY CliStepBusy
<1>2. \A y \in Ctx : y # x => pidFile'[y] = pidFile[y]
  BY CliTouches
<1>3. \A p \in Pid : procCtx'[p] \in Ctx /\ procCtx'[p] # x =>
        procState'[p] = procState[p] /\ procCtx'[p] = procCtx[p]
  BY CliTouches, ModelAssumption DEF ModelAssumption
<1>4. \A p \in Pid : procState'[p] \in Live \cup {"auth"} =>
                     procCtx'[p] # NoCtx
  <2>1. OwnInv'
    <3>1. (\A y \in Ctx : FileChange(y)) /\ CliType'
      BY CliStepFiles, CliStepType
    <3>2. \A d \in Cli : PidChange(d)
      BY CliStepPid DEF PidChange
    <3>3. UNCHANGED procs \/ \E p \in Pid : ProcChange(p)
      BY CliStepProcs
    <3> QED BY <3>1, <3>2, <3>3, OwnStep
  <2> QED BY <2>1 DEF OwnInv, Live
<1>5. \A d \in Cli : AccountsAt(pc'[d], cli'[d], pidFile', procState', procCtx')
  <2> SUFFICES ASSUME NEW d \in Cli \ {c}, Busy(d)
               PROVE  AccountsAt(pc[d], cli[d], pidFile', procState', procCtx')
    BY <1>1, OwnAccounts DEF AccountsAt, Busy, Ended
  <2>1. cli[d].ctx # x
    BY <1>1, DifferentContexts
  <2>2. AccountsAt(pc[d], cli[d], pidFile, procState, procCtx)
    BY AccountedNow
  <2>3. /\ pc[d] \in Steps \ {"list"} => cli[d].ctx \in Ctx
        /\ pc[d] = "remove" => cli[d].pid \in Pid
    BY DEF CliType, ControlOK
  <2>4. \A p \in Pid : cli[d].ctx \in Ctx /\ procCtx'[p] = cli[d].ctx =>
          procState'[p] = procState[p] /\ procCtx[p] = cli[d].ctx
    BY <1>3, <2>1
  <2>5. pc[d] = "remove" => procState'[cli[d].pid] = "none"
    <3> SUFFICES ASSUME pc[d] = "remove"
                 PROVE  procState'[cli[d].pid] = "none"
      OBVIOUS
    <3>1. procState[cli[d].pid] = "none" /\ Named(cli[d].pid)
      BY <2>2 DEF AccountsAt, Named
    <3> QED BY <2>3, <3>1, CliTouches
  <2> QED BY <1>2, <2>1, <2>2, <2>3, <2>4, <2>5 DEF AccountsAt, Steps
<1>6. \A p \in Pid : procState'[p] \in Live \cup {"auth"} =>
        \/ procCtx'[p] = x /\ x \in Ctx
        \/ /\ procCtx'[p] \in Ctx /\ procCtx'[p] # x
           /\ procState'[p] = procState[p] /\ procCtx'[p] = procCtx[p]
  BY <1>3, <1>4 DEF SharedType
<1>7. ASSUME NEW p \in Pid, procState'[p] \in Live
      PROVE  \/ pidFile'[procCtx'[p]] = p
             \/ \E d \in Cli : /\ pc'[d] \in {"pgrep", "save"}
                              /\ cli'[d].ctx = procCtx'[p] /\ cli'[d].pid = p
  <2>1. CASE procCtx'[p] = x /\ x \in Ctx
    BY <1>7, <2>1, OwnAccounts DEF HeldAt
  <2>2. CASE /\ procCtx'[p] \in Ctx /\ procCtx'[p] # x
             /\ procState'[p] = procState[p] /\ procCtx'[p] = procCtx[p]
    <3>1. CASE pidFile[procCtx[p]] = p
      BY <1>2, <2>2, <3>1
    <3>2. ASSUME NEW d \in Cli, pc[d] \in {"pgrep", "save"},
                 cli[d].ctx = procCtx[p], cli[d].pid = p
          PROVE  \E e \in Cli : /\ pc'[e] \in {"pgrep", "save"}
                               /\ cli'[e].ctx = procCtx'[p]
                               /\ cli'[e].pid = p
      <4>1. d # c
        BY <2>2, <3>2
      <4> QED BY <1>1, <2>2, <3>2, <4>1
    <3> QED BY <1>7, <2>2, <3>1, <3>2, AccountedNow
  <2> QED BY <1>6, <1>7, <2>1, <2>2
<1>8. ASSUME NEW p \in Pid, procState'[p] = "auth"
      PROVE  \E d \in Cli : /\ pc'[d] = "auth" /\ cli'[d].pid = p
                           /\ cli'[d].ctx = procCtx'[p]
  <2>1. CASE procCtx'[p] = x /\ x \in Ctx
    BY <1>8, <2>1, OwnAccounts DEF HeldAt
  <2>2. CASE /\ procCtx'[p] \in Ctx /\ procCtx'[p] # x
             /\ procState'[p] = procState[p] /\ procCtx'[p] = procCtx[p]
    <3>1. PICK d \in Cli : /\ pc[d] = "auth" /\ cli[d].pid = p
                          /\ cli[d].ctx = procCtx[p]
      BY <1>8, <2>2, AccountedNow
    <3>2. d # c
      BY <2>2, <3>1
    <3> QED BY <1>1, <2>2, <3>1, <3>2
  <2> QED BY <1>6, <1>8, <2>1, <2>2
<1> QED BY <1>5, <1>7, <1>8, AccountedThen

LEMMA AccountedProcStep ==
  ASSUME ModelAssumption, ~PidReuse, SharedType, CliType, OwnInv, Accounted,
         NEW p \in Pid, ProcStep(p)
  PROVE  Accounted'
<1>1. UNCHANGED <<files, pc, cli>>
  BY ProcStepType
<1>2. \A q \in Pid \ {p} : procState'[q] = procState[q] /\ procCtx'[q] = procCtx[q]
  BY DEF ProcStep, TunnelDies, TunnelStalls, TunnelRecovers, DyingExits,
         LoneSsh, ForeignStarts, ForeignExits, Becomes, SharedType
<1>3. procState[p] \notin {"none", "auth", "foreign"}
  <2>1. ~LoneSsh(p)
    BY AccountedNow DEF LoneSsh
  <2> QED
    BY <2>1 DEF ProcStep, TunnelDies, TunnelStalls, TunnelRecovers, DyingExits,
                ForeignStarts, ForeignExits, OwnInv, Live
<1>4. \/ procState'[p] = "none" /\ procCtx'[p] = NoCtx
      \/ /\ procState[p] \in Live /\ procState'[p] \in Live
         /\ procCtx'[p] = procCtx[p]
  BY <1>3 DEF ProcStep, TunnelDies, TunnelStalls, TunnelRecovers, DyingExits,
              LoneSsh, ForeignStarts, ForeignExits, Becomes, SharedType, Live
<1>5. \A c \in Cli : AccountsAt(pc'[c], cli'[c], pidFile', procState', procCtx')
  <2> SUFFICES ASSUME NEW c \in Cli
               PROVE  AccountsAt(pc[c], cli[c], pidFile, procState', procCtx')
    BY <1>1 DEF files
  <2>1. AccountsAt(pc[c], cli[c], pidFile, procState, procCtx)
    BY AccountedNow
  <2>2. pc[c] \in Steps \ {"list"} => cli[c].ctx \in Ctx
    BY DEF CliType, ControlOK
  <2>3. pc[c] = "remove" => cli[c].pid \in Pid
    BY DEF CliType, ControlOK
  <2>4. \A q \in Pid : cli[c].ctx \in Ctx /\ procCtx'[q] = cli[c].ctx =>
          /\ procCtx[q] = cli[c].ctx
          /\ procState[q] = "dying" => procState'[q] = "dying"
    BY <1>2, <1>4, ModelAssumption DEF ModelAssumption, Live
  <2>5. \A q \in Pid : procState[q] = "none" => procState'[q] = "none"
    BY <1>2, <1>3
  <2> QED BY <2>1, <2>2, <2>3, <2>4, <2>5 DEF AccountsAt, Steps
<1>6. \A q \in Pid : procState'[q] \in Live =>
        procState[q] \in Live /\ procCtx'[q] = procCtx[q]
  BY <1>2, <1>4 DEF Live
<1>7. \A q \in Pid : procState'[q] = "auth" =>
        procState[q] = "auth" /\ procCtx'[q] = procCtx[q]
  BY <1>2, <1>4 DEF Live
<1> QED BY <1>1, <1>5, <1>6, <1>7, AccountedNow, AccountedThen DEF files

LEMMA AccountedStartStep ==
  ASSUME SharedType, CliType, Accounted, NEW c \in Cli, StartStep(c)
  PROVE  Accounted'
<1>1. UNCHANGED <<files, procs>> /\ ~Busy(c)
  BY DEF StartStep, StartConnect, StartKill, StartReconnect, StartListing,
         Start, MayStart
<1>2. \A d \in Cli \ {c} : pc'[d] = pc[d] /\ cli'[d] = cli[d]
  BY DEF StartStep, StartConnect, StartKill, StartReconnect, StartListing,
         Start, Goto, CliType
<1>3. pc'[c] \in {"read", "killread", "params", "list"}
  BY DEF StartStep, StartConnect, StartKill, StartReconnect, StartListing,
         Start, Goto, CliType
<1>4. \A d \in Cli : pc[d] \in {"auth", "pgrep", "save"} => d # c
  BY <1>1 DEF Busy, Ended
<1>5. \A d \in Cli : AccountsAt(pc'[d], cli'[d], pidFile', procState', procCtx')
  <2>1. AccountsAt(pc'[c], cli'[c], pidFile', procState', procCtx')
    BY <1>3 DEF AccountsAt
  <2> QED BY <1>1, <1>2, <2>1, AccountedNow DEF files, procs
<1>6. UNCHANGED <<pidFile, procState, procCtx>>
  BY <1>1 DEF files, procs
<1>7. ASSUME NEW p \in Pid, procState'[p] \in Live, pidFile'[procCtx'[p]] # p
      PROVE  \E d \in Cli : /\ pc'[d] \in {"pgrep", "save"}
                           /\ cli'[d].ctx = procCtx'[p] /\ cli'[d].pid = p
  <2>1. PICK d \in Cli : /\ pc[d] \in {"pgrep", "save"}
                        /\ cli[d].ctx = procCtx[p] /\ cli[d].pid = p
    BY <1>6, <1>7, AccountedNow
  <2> QED BY <1>2, <1>4, <1>6, <2>1
<1>8. ASSUME NEW p \in Pid, procState'[p] = "auth"
      PROVE  \E d \in Cli : /\ pc'[d] = "auth" /\ cli'[d].pid = p
                           /\ cli'[d].ctx = procCtx'[p]
  <2>1. PICK d \in Cli : /\ pc[d] = "auth" /\ cli[d].pid = p
                        /\ cli[d].ctx = procCtx[p]
    BY <1>6, <1>8, AccountedNow
  <2> QED BY <1>2, <1>4, <1>6, <2>1
<1> QED BY <1>5, <1>7, <1>8, AccountedThen

LEMMA AccountedStep ==
  ASSUME ModelAssumption, ~PidReuse, ~PgrepMayMiss, ~Interrupts,
         SharedType, CliType, OwnInv, SerialInv, Accounted,
         [Next]_vars, SharedType'
  PROVE  Accounted'
<1>1. ASSUME NEW c \in Cli, CliStep(c) PROVE Accounted'
  BY <1>1, AccountedCliStep
<1>2. ASSUME NEW c \in Cli, StartStep(c) PROVE Accounted'
  BY <1>2, AccountedStartStep
<1>3. ASSUME NEW c \in Cli, Interrupt(c) PROVE FALSE
  BY <1>3 DEF Interrupt
<1>4. ASSUME NEW p \in Pid, ProcStep(p) PROVE Accounted'
  BY <1>4, AccountedProcStep
<1>5. CASE UNCHANGED vars
  BY <1>5 DEF vars, Accounted, Accounts, InHand
<1> QED BY <1>1, <1>2, <1>3, <1>4, <1>5 DEF Next

-----------------------------------------------------------------------------
(* The inductive invariant of the serial use, and the theorems.            *)
SerialUse == Serial /\ ~Interrupts /\ ~PgrepMayMiss /\ ~PidReuse

SerialIInv == OwnIInv /\ SerialInv /\ Accounted

LEMMA SerialInitial ==
  ASSUME ModelAssumption, Init
  PROVE  SerialInv /\ Accounted
<1>1. SerialInv
  BY DEF Init, SerialInv, Busy, Ended
<1>2. Accounted
  BY DEF Init, Accounted, Accounts, Live
<1> QED BY <1>1, <1>2

LEMMA SerialInductive ==
  ASSUME SerialUse
  PROVE  Spec => []SerialIInv
<1> USE DEF SerialUse
<1>1. Init => SerialIInv
  BY ModelAssumption, SerialInitial, OwnInitial, TypeInit
  DEF SerialIInv, OwnIInv
<1>2. SerialIInv /\ OwnIInv' /\ [Next]_vars => SerialIInv'
  <2> SUFFICES ASSUME SerialIInv, OwnIInv', [Next]_vars
               PROVE  SerialInv' /\ Accounted'
    BY DEF SerialIInv
  <2>1. SharedType /\ CliType /\ OwnInv /\ SharedType'
    BY DEF SerialIInv, OwnIInv
  <2>2. SerialInv'
    BY <2>1, SerialStep DEF SerialIInv
  <2>3. Accounted'
    BY <2>1, AccountedStep, ModelAssumption DEF SerialIInv
  <2> QED BY <2>2, <2>3
<1>3. Spec => []OwnIInv
  BY OwnInductive
<1> QED BY <1>1, <1>2, <1>3, PTL DEF Spec

(* Where commands do not overlap on a context and none is interrupted, no  *)
(* live tunnel is ever lost: the pid file of its context names it, or a    *)
(* command on that context is still under way (ensureTunnel between        *)
(* CreateTunnel and SaveTunnelPID, KillTunnel, IsTunnelRunning).           *)
THEOREM NoTunnelIsLost ==
  ASSUME SerialUse PROVE Spec => []NoOrphan
<1>1. SerialIInv => NoOrphan
  <2> SUFFICES ASSUME SerialIInv, NEW p \in Pid, Orphan(p)
               PROVE  \E c \in Cli : Touches(c, procCtx[p])
    BY DEF NoOrphan
  <2>1. PICK c \in Cli : /\ pc[c] \in {"pgrep", "save"}
                        /\ cli[c].ctx = procCtx[p] /\ cli[c].pid = p
    BY AccountedNow DEF SerialIInv, Orphan
  <2> QED BY <2>1 DEF Touches, Busy, Ended
<1> QED BY <1>1, SerialInductive, PTL

(* A step that takes c from the removal of the pid file is KillRemove.     *)
LEMMA LeavesKillRemove ==
  ASSUME ~Interrupts, SharedType, CliType, NEW c \in Cli, pc[c] = "killrm",
         pc'[c] # pc[c], Next
  PROVE  KillRemove(c)
<1>1. ASSUME NEW d \in Cli, CliStep(d)
      PROVE  CliStep(c)
  BY <1>1, CliStepBusy
<1>2. ASSUME NEW d \in Cli, StartStep(d)
      PROVE  FALSE
  <2>1. ~Busy(d)
    BY <1>2 DEF StartStep, StartConnect, StartKill, StartReconnect,
                StartListing, Start, MayStart
  <2>2. d # c
    BY <2>1 DEF Busy, Ended
  <2> QED
    BY <1>2, <2>2 DEF StartStep, StartConnect, StartKill, StartReconnect,
                      StartListing, Start, Goto, CliType
<1>3. CliStep(c)
  BY <1>1, <1>2, ProcStepType DEF Next, Interrupt
<1> QED
  BY <1>3 DEF CliStep, ReadPid, SignalZero, RemoveDead, KillRead, KillSignal,
       VisitNext, KillNext, EndListing, ProbePort, CheckAlreadyConnected,
       Prepare, Dial, DialUp, DialFails, Pgrep, SavePid, SaveConnParams,
       PollReady, PollFails, Merge, LoadConnParams

(* Where commands do not overlap on a context and none is interrupted, no  *)
(* tunnel of x survives tunnel-kill x, nor the kill of a fresh tunnel that *)
(* did not answer (KillTunnel, verifyOrRecreateTunnel).                    *)
THEOREM KillsLeaveNoTunnel ==
  ASSUME SerialUse PROVE Spec => KillLeavesNoTunnel
<1>1. SerialIInv /\ [Next]_vars =>
        [\A c \in Cli :
           /\ pc[c] = "killrm" /\ pc'[c] # pc[c]
           /\ cli[c].for \in {"kill", "fresh"}
           => NoTunnelLeft(cli[c].ctx)]_vars
  <2> SUFFICES ASSUME SerialIInv, Next, NEW c \in Cli, pc[c] = "killrm",
                      pc'[c] # pc[c], NEW p \in Pid,
                      procState'[p] \in Live \cup {"auth"}
               PROVE  procCtx'[p] # cli[c].ctx
    BY DEF NoTunnelLeft
  <2>1. KillRemove(c)
    BY LeavesKillRemove DEF SerialUse, SerialIInv, OwnIInv
  <2>2. procCtx[p] = cli[c].ctx => procState[p] = "dying"
    BY AccountedNow DEF AccountsAt, SerialIInv
  <2> QED BY <2>1, <2>2 DEF KillRemove, procs, Live
<1> QED BY <1>1, SerialInductive, PTL DEF Spec, KillLeavesNoTunnel

-----------------------------------------------------------------------------
(* tunnel-kill-all: the snapshot of the pid files it works from keeps      *)
(* every live tunnel before it, so that none is left when it ends.         *)

(* KillAllCovers, as a condition on the label l and the local variables r  *)
(* of one tunnel-kill-all, for the process states S and contexts X.        *)
Covers(l, r, S, X) ==
  \A p \in Pid : S[p] \in Live =>
    \/ X[p] \in r.todo \cup r.running
    \/ l # "list" /\ X[p] = r.ctx

LEMMA CoversNow ==
  ASSUME KillAllCovers, NEW c \in Cli, Busy(c), cli[c].cmd = "killall"
  PROVE  Covers(pc[c], cli[c], procState, procCtx)
BY DEF KillAllCovers, Covers

LEMMA CoversThen ==
  ASSUME \A c \in Cli : pc'[c] \notin Ended /\ cli'[c].cmd = "killall" =>
           Covers(pc'[c], cli'[c], procState', procCtx')
  PROVE  KillAllCovers'
BY DEF KillAllCovers, Covers, Busy

(* Beside a tunnel-kill-all nothing runs: every live tunnel is in the pid  *)
(* file of its context.                                                    *)
LEMMA FilesBesideListing ==
  ASSUME SerialIInv, NEW c \in Cli,
         \A d \in Cli : Busy(d) => d = c,
         pc[c] \notin {"auth", "pgrep", "save"}, NEW p \in Pid
  PROVE  /\ procState[p] \in Live => pidFile[procCtx[p]] = p
         /\ procState[p] # "auth"
<1>1. \A d \in Cli : pc[d] \notin {"auth", "pgrep", "save"}
  BY DEF Busy, Ended
<1> QED BY <1>1, AccountedNow DEF SerialIInv

(* No step makes a tunnel live but the dial of a connect or a reconnect.   *)
LEMMA LiveStays ==
  ASSUME ModelAssumption, SerialUse, SerialIInv, NEW c \in Cli, Busy(c),
         cli[c].cmd = "killall", [Next]_vars, NEW p \in Pid,
         procState'[p] \in Live
  PROVE  procState[p] \in Live /\ procCtx'[p] = procCtx[p]
<1>1. pc[c] \in ListingSteps /\ \A d \in Cli : Busy(d) => d = c
  BY DEF SerialIInv, SerialInv, Listings, ListingSteps
<1>2. procState[p] # "auth"
  BY <1>1, FilesBesideListing DEF ListingSteps
<1>3. SharedType /\ CliType /\ OwnInv
  BY DEF SerialIInv, OwnIInv
<1>4. ASSUME NEW d \in Cli, CliStep(d)
      PROVE  procState[p] \in Live /\ procCtx'[p] = procCtx[p]
  <2>1. CliStep(c)
    BY <1>1, <1>3, <1>4, CliStepBusy
  <2>2. UNCHANGED procs \/ KillSignal(c)
    BY <1>1, <2>1
    DEF CliStep, ReadPid, SignalZero, RemoveDead, KillRead, KillRemove,
        VisitNext, KillNext, EndListing, ProbePort, CheckAlreadyConnected,
        Prepare, Dial, DialUp, DialFails, Pgrep, SavePid, SaveConnParams,
        PollReady, PollFails, Merge, LoadConnParams, ListingSteps
  <2>3. CASE KillSignal(c)
    BY <1>3, <2>3 DEF KillSignal, Live, SharedType, procs
  <2> QED BY <2>2, <2>3 DEF procs
<1>5. ASSUME NEW d \in Cli, StartStep(d)
      PROVE  procState[p] \in Live /\ procCtx'[p] = procCtx[p]
  BY <1>5 DEF StartStep, StartConnect, StartKill, StartReconnect,
              StartListing, Start, procs
<1>6. ASSUME NEW q \in Pid, ProcStep(q)
      PROVE  procState[p] \in Live /\ procCtx'[p] = procCtx[p]
  BY <1>2, <1>3, <1>6
  DEF ProcStep, TunnelDies, TunnelStalls, TunnelRecovers, DyingExits, LoneSsh,
      ForeignStarts, ForeignExits, Becomes, SharedType, Live
<1> QED BY <1>4, <1>5, <1>6 DEF Next, Interrupt, SerialUse, vars

(* The steps of tunnel-kill-all itself.                                    *)
LEMMA CoversOwnStep ==
  ASSUME ModelAssumption, SerialUse, SerialIInv, NEW c \in Cli, CliStep(c),
         cli[c].cmd = "killall", pc'[c] \notin Ended,
         Covers(pc[c], cli[c], procState, procCtx)
  PROVE  Covers(pc'[c], cli'[c], procState', procCtx')
<1> DEFINE x == cli[c].ctx
           Keeps(S) == \A p \in Pid : procState[p] \in Live =>
                         procCtx[p] \in cli[c].todo \cup cli[c].running \cup S
<1>1. /\ pc \in [Cli -> Ended \cup Steps] /\ cli \in [Cli -> Local]
      /\ cli[c] \in Local
      /\ SharedType /\ CliType /\ OwnInv /\ SerialInv /\ Accounted
  BY DEF SerialIInv, OwnIInv, CliType
<1>2. /\ Busy(c) /\ pc[c] \in ListingSteps /\ cli[c].for \in Visits
      /\ \A d \in Cli : Busy(d) => d = c
  BY <1>1, CliStepBusy DEF SerialInv, Listings, ListingSteps, Visits
<1>3. \A p \in Pid : procState'[p] \in Live =>
                     procState[p] \in Live /\ procCtx'[p] = procCtx[p]
  BY <1>2, LiveStays DEF Next
<1>4. Keeps({x})
  BY DEF Covers
<1>5. pc[c] = "list" => Keeps({})
  BY DEF Covers
<1>6. ASSUME cli'[c].todo = cli[c].todo, cli'[c].running = cli[c].running,
             cli'[c].ctx = x, pc'[c] # "list"
      PROVE  Covers(pc'[c], cli'[c], procState', procCtx')
  BY <1>3, <1>4, <1>6 DEF Covers
<1>7. ASSUME Keeps({}), cli'[c].todo = cli[c].todo,
             cli'[c].running = cli[c].running
      PROVE  Covers(pc'[c], cli'[c], procState', procCtx')
  BY <1>3, <1>7 DEF Covers
<1>8. ASSUME NEW p \in Pid, procState[p] \in Live
      PROVE  pidFile[procCtx[p]] = p /\ procCtx[p] \in Ctx
  BY <1>1, <1>2, <1>8, FilesBesideListing
  DEF SerialIInv, OwnInv, SharedType, ListingSteps, Live
<1>9. CASE ReadPid(c)
  <2>1. CASE pidFile[x] = NoPid /\ TunnelDown(c)
    <3>1. Keeps({})
      BY <1>4, <1>8, <2>1, ModelAssumption DEF ModelAssumption
    <3>2. cli'[c].todo = cli[c].todo /\ cli'[c].running = cli[c].running
      BY <1>1, <2>1 DEF TunnelDown, Local
    <3> QED BY <1>7, <3>1, <3>2
  <2>2. CASE Goto(c, "signal") /\ cli' = [cli EXCEPT ![c].pid = pidFile[x]]
    BY <1>1, <1>6, <2>2 DEF Goto, Local
  <2> QED BY <1>9, <2>1, <2>2 DEF ReadPid
<1>10. CASE SignalZero(c)
  <2>1. CASE TunnelUp(c)
    <3>1. /\ cli'[c].todo = cli[c].todo
          /\ cli'[c].running = cli[c].running \cup {x}
      BY <1>1, <1>2, <2>1 DEF TunnelUp, Local, Visits
    <3> QED BY <1>3, <1>4, <3>1 DEF Covers
  <2>2. CASE Goto(c, "remove") /\ UNCHANGED cli
    BY <1>1, <1>6, <2>2 DEF Goto
  <2> QED BY <1>10, <2>1, <2>2 DEF SignalZero
<1>11. CASE RemoveDead(c)
  <2>1. procState[pidFile[x]] = "none"
    BY <1>1, <1>11, AccountedNow DEF RemoveDead, AccountsAt
  <2>2. Keeps({})
    BY <1>4, <1>8, <2>1 DEF Live
  <2>3. cli'[c].todo = cli[c].todo /\ cli'[c].running = cli[c].running
    BY <1>1, <1>11 DEF RemoveDead, TunnelDown, Local
  <2> QED BY <1>7, <2>2, <2>3
<1>12. CASE KillRead(c)
  BY <1>1, <1>6, <1>12 DEF KillRead, Goto, Local
<1>13. CASE KillSignal(c)
  BY <1>1, <1>6, <1>13 DEF KillSignal, Goto
<1>14. CASE KillRemove(c)
  <2>1. \A p \in Pid : procCtx[p] = x => procState[p] = "dying"
    BY <1>1, <1>14, AccountedNow DEF KillRemove, AccountsAt
  <2>2. Keeps({})
    BY <1>4, <2>1 DEF Live
  <2>3. cli'[c].todo = cli[c].todo /\ cli'[c].running = cli[c].running
    BY <1>1, <1>2, <1>14 DEF KillRemove, AfterKill, Visits, Local
  <2> QED BY <1>7, <2>2, <2>3
<1>15. CASE VisitNext(c)
  <2>1. PICK y \in cli[c].todo :
          cli' = [cli EXCEPT ![c].todo = @ \ {y}, ![c].ctx = y]
    BY <1>15 DEF VisitNext
  <2>2. /\ cli'[c].todo = cli[c].todo \ {y}
        /\ cli'[c].running = cli[c].running /\ cli'[c].ctx = y
    BY <1>1, <2>1 DEF Local
  <2>3. pc'[c] = "read" /\ Keeps({})
    BY <1>1, <1>5, <1>15 DEF VisitNext, Goto
  <2> QED BY <1>3, <2>2, <2>3 DEF Covers
<1>16. CASE KillNext(c)
  <2>1. PICK y \in cli[c].running :
          cli' = [cli EXCEPT ![c].running = @ \ {y}, ![c].ctx = y,
                             ![c].for = "killall"]
    BY <1>16 DEF KillNext
  <2>2. /\ cli'[c].todo = cli[c].todo
        /\ cli'[c].running = cli[c].running \ {y} /\ cli'[c].ctx = y
    BY <1>1, <2>1 DEF Local
  <2>3. pc'[c] = "killread" /\ Keeps({})
    BY <1>1, <1>5, <1>16 DEF KillNext, Goto
  <2> QED BY <1>3, <2>2, <2>3 DEF Covers
<1>17. ~EndListing(c)
  BY <1>1 DEF EndListing, End, Goto, Ended
<1> QED
  BY <1>2, <1>9, <1>10, <1>11, <1>12, <1>13, <1>14, <1>15, <1>16, <1>17
  DEF CliStep, ProbePort, CheckAlreadyConnected, Prepare, Dial, DialUp,
      DialFails, Pgrep, SavePid, SaveConnParams, PollReady, PollFails, Merge,
      LoadConnParams, ListingSteps

LEMMA CoversStep ==
  ASSUME ModelAssumption, SerialUse, SerialIInv, KillAllCovers, [Next]_vars
  PROVE  KillAllCovers'
<1>1. SharedType /\ CliType /\ OwnInv /\ SerialInv
  BY DEF SerialIInv, OwnIInv
<1> SUFFICES ASSUME NEW c \in Cli, pc'[c] \notin Ended,
                    cli'[c].cmd = "killall"
             PROVE  Covers(pc'[c], cli'[c], procState', procCtx')
  BY CoversThen
<1>2. CASE CliStep(c)
  <2>1. GoesOn(c) /\ Busy(c)
    BY <1>1, <1>2, CliStepGoesOn, CliStepBusy DEF Busy
  <2> QED BY <1>2, <2>1, CoversNow, CoversOwnStep DEF GoesOn
<1>3. CASE StartStep(c)
  <2>1. PICK name \in Listings : StartListing(c, name)
    BY <1>1, <1>3 DEF StartStep, StartConnect, StartKill, StartReconnect,
                      Start, NewLocal, CliType
  <2>2. cli'[c].todo = PidFiles /\ UNCHANGED procs
    BY <1>1, <2>1 DEF StartListing, Start, NewLocal, CliType
  <2>3. \A d \in Cli : Busy(d) => d = c
    BY <2>1 DEF StartListing, Start, MayStart, SerialUse
  <2>4. pc[c] \in Ended
    BY <2>1 DEF StartListing, Start, MayStart, Busy
  <2>5. \A p \in Pid : procState[p] \in Live =>
          pidFile[procCtx[p]] = p /\ procCtx[p] \in Ctx
    BY <1>1, <2>3, <2>4, FilesBesideListing DEF OwnInv, SharedType, Ended, Live
  <2> QED
    BY <2>2, <2>5, ModelAssumption
    DEF Covers, PidFiles, procs, ModelAssumption
<1>4. CASE ~CliStep(c) /\ ~StartStep(c)
  <2>1. pc'[c] = pc[c] /\ cli'[c] = cli[c]
    <3>1. ASSUME NEW d \in Cli \ {c}, CliStep(d)
          PROVE  pc'[c] = pc[c] /\ cli'[c] = cli[c]
      BY <1>1, <3>1, CliStepBusy
    <3>2. ASSUME NEW d \in Cli \ {c}, StartStep(d)
          PROVE  pc'[c] = pc[c] /\ cli'[c] = cli[c]
      BY <1>1, <3>2 DEF StartStep, StartConnect, StartKill, StartReconnect,
                        StartListing, Start, Goto, CliType
    <3> QED
      BY <1>4, <3>1, <3>2, <1>1, ProcStepType
      DEF Next, Interrupt, SerialUse, vars
  <2>2. Busy(c) /\ cli[c].cmd = "killall"
    BY <2>1 DEF Busy
  <2>3. Covers(pc[c], cli[c], procState, procCtx)
    BY <2>2, CoversNow
  <2>4. \A p \in Pid : procState'[p] \in Live =>
          procState[p] \in Live /\ procCtx'[p] = procCtx[p]
    BY <2>2, LiveStays
  <2> QED BY <2>1, <2>3, <2>4 DEF Covers
<1> QED BY <1>2, <1>3, <1>4

(* Where commands do not overlap on a context and none is interrupted, no  *)
(* tunnel is left when tunnel-kill-all ends (KillAllTunnels over           *)
(* ListContextStatus).                                                     *)
THEOREM KillAllLeavesNoTunnel ==
  ASSUME SerialUse PROVE Spec => KillAllLeavesNone
<1>1. Init => KillAllCovers
  BY DEF Init, KillAllCovers, Busy, Ended
<1>2. SerialIInv /\ KillAllCovers /\ [Next]_vars => KillAllCovers'
  BY CoversStep, ModelAssumption
<1>3. SerialIInv /\ KillAllCovers /\ [Next]_vars =>
        [\A c \in Cli :
           /\ cli[c].cmd = "killall" /\ pc[c] = "list" /\ pc'[c] = "idle"
           => \A x \in Ctx : NoTunnelLeft(x)]_vars
  <2> SUFFICES ASSUME SerialIInv, KillAllCovers, Next, NEW c \in Cli,
                      cli[c].cmd = "killall", pc[c] = "list", pc'[c] = "idle",
                      NEW p \in Pid
               PROVE  procState'[p] \notin Live \cup {"auth"}
    BY DEF NoTunnelLeft
  <2>1. /\ SharedType /\ CliType /\ SerialInv /\ ModelAssumption
        /\ Busy(c) /\ \A d \in Cli : Busy(d) => d = c
    BY ModelAssumption
    DEF SerialIInv, OwnIInv, SerialInv, Listings, Busy, Ended
  <2>2. EndListing(c)
    <3>1. ASSUME NEW d \in Cli, StartStep(d)
          PROVE  FALSE
      <4>1. d # c
        BY <2>1, <3>1 DEF StartStep, StartConnect, StartKill, StartReconnect,
                          StartListing, Start, MayStart
      <4> QED
        BY <2>1, <3>1, <4>1
        DEF StartStep, StartConnect, StartKill, StartReconnect, StartListing,
            Start, Goto, CliType
    <3>2. ASSUME NEW d \in Cli, CliStep(d)
          PROVE  d = c
      BY <2>1, <3>2, CliStepBusy
    <3>3. CliStep(c)
      BY <2>1, <3>1, <3>2, ProcStepType DEF Next, Interrupt, SerialUse
    <3> QED
      BY <2>1, <3>3
      DEF CliStep, ReadPid, SignalZero, RemoveDead, KillRead, KillSignal,
          KillRemove, VisitNext, KillNext, ProbePort, CheckAlreadyConnected,
          Prepare, Dial, DialUp, DialFails, Pgrep, SavePid, SaveConnParams,
          PollReady, PollFails, Merge, LoadConnParams, Goto, CliType
  <2>3. cli[c].todo = {} /\ cli[c].running = {} /\ UNCHANGED procs
    BY <2>2 DEF EndListing
  <2>4. procState[p] \notin Live
    BY <2>1, <2>3, CoversNow DEF Covers
  <2>5. procState[p] # "auth"
    BY <2>1, FilesBesideListing
  <2> QED BY <2>3, <2>4, <2>5 DEF procs
<1> QED BY <1>1, <1>2, <1>3, SerialInductive, PTL DEF Spec, KillAllLeavesNone


-----------------------------------------------------------------------------
(* Tunnels implements TunnelService.                                       *)

(* CallersInv: who called, and for which command.                          *)
Placed(l, r) == InContext(l, r) /\ ServesCommand(l, r)

(* Two commands are the listing ones, the others are not.                  *)
LEMMA ListingCommands ==
  /\ {"killall", "status"} = Listings
  /\ \A cmd \in {"connect", "kill", "reconnect"} : cmd \notin Listings
BY DEF Listings

LEMMA OnePlaced ==
  ASSUME CallersInv, NEW c \in Cli,
         \A d \in Cli \ {c} : pc'[d] = pc[d] /\ cli'[d] = cli[d],
         Placed(pc'[c], cli'[c])
  PROVE  CallersInv'
<1>1. \A d \in Cli : Placed(pc'[d], cli'[d])
  BY DEF CallersInv, Placed
<1> QED BY <1>1 DEF CallersInv, Placed

LEMMA PlacedOnceEnded ==
  ASSUME CliType, NEW c \in Cli, NEW l \in Ended, End(c, l)
  PROVE  Placed(pc'[c], cli'[c])
<1>1. pc'[c] = l /\ cli'[c] = NewLocal
  BY DEF CliType, End, Goto
<1> QED
  BY <1>1 DEF Placed, InContext, ServesCommand, KillSteps, Ended, NewLocal

LEMMA PlacedNext ==
  ASSUME CliType, CallersInv, SerialInv, NEW c \in Cli, CliStep(c)
  PROVE  Placed(pc'[c], cli'[c])
<1>1. /\ pc \in [Cli -> Ended \cup Steps] /\ cli \in [Cli -> Local]
      /\ cli[c] \in Local
  BY DEF CliType
<1>2. InContext(pc[c], cli[c]) /\ ServesCommand(pc[c], cli[c])
  BY DEF CallersInv
<1>3. \A l \in {"idle", "ok", "already", "failed"} :
        End(c, l) => Placed(pc'[c], cli'[c])
  BY PlacedOnceEnded DEF Ended
<1>4. ASSUME NEW l \in Steps, Goto(c, l), UNCHANGED cli, pc[c] \notin Ended,
             InContext(l, cli[c])
      PROVE  Placed(pc'[c], cli'[c])
  BY <1>1, <1>2, <1>4 DEF Goto, Placed, ServesCommand
<1>5. ASSUME NEW l \in Steps, NEW p, Goto(c, l),
             cli' = [cli EXCEPT ![c].pid = p], pc[c] \notin Ended,
             InContext(l, cli[c])
      PROVE  Placed(pc'[c], cli'[c])
  <2>1. /\ pc'[c] = l /\ cli'[c].for = cli[c].for /\ cli'[c].cmd = cli[c].cmd
        /\ cli'[c].reused = cli[c].reused
    BY <1>1, <1>5 DEF Goto, Local
  <2> QED BY <1>2, <1>5, <2>1 DEF Placed, ServesCommand, InContext
<1>6. CASE ReadPid(c)
  BY <1>1, <1>2, <1>6
  DEF ReadPid, TunnelDown, Goto, Placed, InContext, ServesCommand, KillSteps,
      Ended, Local
<1>7. CASE SignalZero(c)
  BY <1>1, <1>2, <1>7
  DEF SignalZero, TunnelUp, Goto, Placed, InContext, ServesCommand, KillSteps,
      Ended, Local
<1>8. CASE RemoveDead(c)
  BY <1>1, <1>2, <1>8
  DEF RemoveDead, TunnelDown, Goto, Placed, InContext, ServesCommand, KillSteps,
      Ended, Local
<1>9. CASE KillRead(c)
  BY <1>1, <1>2, <1>9
  DEF KillRead, Goto, Placed, InContext, ServesCommand, KillSteps, Ended, Local
<1>10. CASE KillSignal(c)
  BY <1>1, <1>2, <1>10
  DEF KillSignal, Goto, Placed, InContext, ServesCommand, KillSteps, Ended
<1>11. CASE KillRemove(c)
  <2>1. CASE cli[c].for \in {"kill", "fresh"}
    BY <1>3, <1>11, <2>1 DEF KillRemove, AfterKill
  <2>2. CASE cli[c].for \in {"redial", "stale", "killall"}
    BY <1>1, <1>2, <1>11, <2>2
    DEF KillRemove, AfterKill, Goto, Placed, InContext, ServesCommand,
        KillSteps, Ended, Local, Listings
  <2> QED BY <1>11, <2>1, <2>2 DEF KillRemove, AfterKill
<1>12. CASE VisitNext(c)
  BY <1>1, <1>2, <1>12
  DEF VisitNext, Goto, Placed, InContext, ServesCommand, KillSteps, Ended, Local
<1>13. CASE KillNext(c)
  BY <1>1, <1>2, <1>13
  DEF KillNext, Goto, Placed, InContext, ServesCommand, KillSteps, Ended, Local
<1>14. CASE EndListing(c)
  BY <1>3, <1>14 DEF EndListing
<1>15. CASE ProbePort(c) \/ CheckAlreadyConnected(c)
  BY <1>1, <1>2, <1>3, <1>15
  DEF ProbePort, CheckAlreadyConnected, Goto, Placed, InContext, ServesCommand,
      KillSteps, Ended
<1>16. CASE Prepare(c)
  BY <1>1, <1>2, <1>3, <1>16
  DEF Prepare, Goto, Placed, InContext, ServesCommand, KillSteps, Ended, Local
<1>17. CASE Dial(c)
  BY <1>2, <1>3, <1>5, <1>17
  DEF Dial, InContext, KillSteps, Ended, Steps
<1>18. CASE DialUp(c)
  BY <1>2, <1>4, <1>18 DEF DialUp, InContext, KillSteps, Ended, Steps
<1>19. CASE DialFails(c)
  BY <1>3, <1>19 DEF DialFails
<1>20. CASE Pgrep(c)
  BY <1>2, <1>5, <1>20 DEF Pgrep, InContext, KillSteps, Ended, Steps
<1>21. CASE SavePid(c)
  <2>1. cli[c].cmd = "connect" => cli[c].for = "ensure"
    BY <1>2, <1>21 DEF SavePid, InContext, ServesCommand, Ended
  <2> QED
    BY <1>2, <1>3, <1>5, <1>21, <2>1
    DEF SavePid, InContext, KillSteps, Ended, Steps
<1>22. CASE SaveConnParams(c)
  BY <1>1, <1>2, <1>22
  DEF SaveConnParams, Goto, Placed, InContext, ServesCommand, KillSteps, Ended
<1>23. CASE PollReady(c)
  BY <1>1, <1>2, <1>23
  DEF PollReady, Goto, Placed, InContext, ServesCommand, KillSteps, Ended
<1>24. CASE PollFails(c)
  BY <1>1, <1>2, <1>3, <1>24
  DEF PollFails, Goto, Placed, InContext, ServesCommand, KillSteps, Ended, Local
<1>25. CASE Merge(c)
  BY <1>3, <1>25 DEF Merge
<1>26. CASE LoadConnParams(c)
  BY <1>1, <1>2, <1>3, <1>26
  DEF LoadConnParams, Goto, Placed, InContext, ServesCommand, KillSteps, Ended
<1> QED
  BY <1>6, <1>7, <1>8, <1>9, <1>10, <1>11, <1>12, <1>13, <1>14, <1>15, <1>16,
     <1>17, <1>18, <1>19, <1>20, <1>21, <1>22, <1>23, <1>24, <1>25, <1>26
  DEF CliStep

LEMMA PlacedAtStart ==
  ASSUME CliType, NEW c \in Cli, StartStep(c)
  PROVE  /\ Placed(pc'[c], cli'[c])
         /\ \A d \in Cli \ {c} : pc'[d] = pc[d] /\ cli'[d] = cli[d]
<1>1. \A d \in Cli \ {c} : pc'[d] = pc[d] /\ cli'[d] = cli[d]
  BY DEF CliType, StartStep, StartConnect, StartKill, StartReconnect,
         StartListing, Start, Goto
<1>2. \/ pc'[c] = "read" /\ cli'[c].for = "fast" /\ cli'[c].cmd = "connect"
      \/ pc'[c] = "killread" /\ cli'[c].for = "kill" /\ cli'[c].cmd = "kill"
      \/ /\ pc'[c] = "params" /\ cli'[c].for = "redial"
         /\ cli'[c].cmd = "reconnect" /\ ~cli'[c].reused
      \/ pc'[c] = "list" /\ cli'[c].for = "list" /\ cli'[c].cmd \in Listings
  <2>1. ASSUME NEW x \in Ctx, StartConnect(c, x)
        PROVE  pc'[c] = "read" /\ cli'[c].for = "fast" /\ cli'[c].cmd = "connect"
    BY <2>1 DEF StartConnect, Start, Goto, CliType, NewLocal
  <2>2. ASSUME NEW x \in Ctx, StartKill(c, x)
        PROVE  pc'[c] = "killread" /\ cli'[c].for = "kill" /\ cli'[c].cmd = "kill"
    BY <2>2 DEF StartKill, Start, Goto, CliType, NewLocal
  <2>3. ASSUME NEW x \in Ctx, StartReconnect(c, x)
        PROVE  /\ pc'[c] = "params" /\ cli'[c].for = "redial"
               /\ cli'[c].cmd = "reconnect" /\ ~cli'[c].reused
    BY <2>3 DEF StartReconnect, Start, Goto, CliType, NewLocal
  <2>4. ASSUME NEW name \in Listings, StartListing(c, name)
        PROVE  pc'[c] = "list" /\ cli'[c].for = "list" /\ cli'[c].cmd \in Listings
    BY <2>4 DEF StartListing, Start, Goto, CliType, NewLocal
  <2> QED BY <2>1, <2>2, <2>3, <2>4 DEF StartStep
<1> QED BY <1>1, <1>2 DEF Placed, InContext, ServesCommand, KillSteps

LEMMA CallersStep ==
  ASSUME ~Interrupts, SharedType, CliType, SerialInv, CallersInv, [Next]_vars
  PROVE  CallersInv'
<1>1. ASSUME NEW c \in Cli, CliStep(c) PROVE CallersInv'
  BY <1>1, CliStepBusy, PlacedNext, OnePlaced
<1>2. ASSUME NEW c \in Cli, StartStep(c) PROVE CallersInv'
  BY <1>2, PlacedAtStart, OnePlaced
<1>3. ASSUME NEW c \in Cli, Interrupt(c) PROVE FALSE
  BY <1>3 DEF Interrupt
<1>4. ASSUME NEW p \in Pid, ProcStep(p) PROVE CallersInv'
  BY <1>4, ProcStepType DEF CallersInv
<1>5. CASE UNCHANGED vars
  BY <1>5 DEF vars, CallersInv
<1> QED BY <1>1, <1>2, <1>3, <1>4, <1>5 DEF Next

-----------------------------------------------------------------------------
(* NoDyingNamed: only KillSignal makes a process die.                      *)
LEMMA NoNewDying ==
  ASSUME SharedType, CliType, OwnInv, NEW c \in Cli, CliStep(c), ~KillSignal(c),
         NEW p \in Pid, procState'[p] = "dying"
  PROVE  procState[p] = "dying" /\ procCtx'[p] = procCtx[p]
<1>1. CASE UNCHANGED procs
  BY <1>1 DEF procs
<1>2. CASE Dial(c) \/ DialUp(c) \/ DialFails(c)
  BY <1>2 DEF Dial, DialUp, DialFails, SharedType, procs
<1> QED
  BY <1>1, <1>2
  DEF CliStep, ReadPid, SignalZero, RemoveDead, KillRead, KillRemove,
      VisitNext, KillNext, EndListing, ProbePort, CheckAlreadyConnected,
      Prepare, Pgrep, SavePid, SaveConnParams, PollReady, PollFails, Merge,
      LoadConnParams

LEMMA FilesNotDying ==
  ASSUME ModelAssumption, ~PidReuse, SharedType, CliType, OwnInv, SerialInv,
         NoDyingNamed, NEW c \in Cli, CliStep(c), NEW y \in Ctx,
         pidFile'[y] # NoPid, pidFile'[y] \in Pid,
         procState'[pidFile'[y]] = "dying"
  PROVE  \E d \in Cli : pc'[d] = "killrm" /\ cli'[d].ctx = y
<1> DEFINE p == pidFile'[y]
<1>1. /\ Busy(c)
      /\ \A d \in Cli \ {c} : pc'[d] = pc[d] /\ cli'[d] = cli[d]
  BY CliStepBusy
<1>2. CASE y # cli[c].ctx
  <2>1. pidFile[y] = p
    BY <1>2, CliTouches
  <2>2. Named(p) /\ (procState[p] = "none" \/ procCtx[p] = y)
    BY <2>1 DEF Named, OwnInv, PidFileNamesOwnTunnel
  <2>3. procState[p] = "dying"
    BY <1>2, <2>2, CliTouches, ModelAssumption DEF OwnInv, ModelAssumption
  <2>4. PICK d \in Cli : pc[d] = "killrm" /\ cli[d].ctx = y
    BY <2>1, <2>3 DEF NoDyingNamed
  <2> QED BY <1>1, <1>2, <2>4
<1>3. CASE y = cli[c].ctx
  <2>1. CASE KillSignal(c)
    BY <1>3, <2>1 DEF KillSignal, Goto, CliType
  <2>2. CASE SavePid(c)
    <3>1. procState[p] = "dying"
      BY <2>2 DEF SavePid, procs
    <3>2. CASE p = cli[c].pid
      <4>1. procCtx[p] = y
        BY <1>3, <3>1, <3>2 DEF OwnInv
      <4> QED BY <1>3, <2>2, <3>1, <4>1 DEF SavePid, NoDyingNamed
    <3>3. CASE pidFile' = pidFile
      <4>1. PICK d \in Cli : pc[d] = "killrm" /\ cli[d].ctx = y
        BY <3>1, <3>3 DEF NoDyingNamed
      <4>2. d # c /\ Busy(d)
        BY <2>2, <4>1 DEF SavePid, Busy, Ended
      <4> QED BY <1>1, <4>1, <4>2
    <3> QED BY <1>3, <2>2, <3>2, <3>3 DEF SavePid, SharedType
  <2>3. CASE RemoveDead(c) \/ KillRemove(c)
    BY <1>3, <2>3 DEF RemoveDead, KillRemove, SharedType
  <2>4. CASE UNCHANGED pidFile /\ ~KillSignal(c) /\ ~KillRemove(c)
    <3>1. procState[p] = "dying"
      BY <2>4, NoNewDying
    <3>2. PICK d \in Cli : pc[d] = "killrm" /\ cli[d].ctx = y
      BY <2>4, <3>1 DEF NoDyingNamed
    <3>3. pc[c] # "killrm"
      BY <2>4
      DEF CliStep, ReadPid, SignalZero, RemoveDead, KillRead, VisitNext,
          KillNext, EndListing, ProbePort, CheckAlreadyConnected, Prepare,
          Dial, DialUp, DialFails, Pgrep, SavePid, SaveConnParams, PollReady,
          PollFails, Merge, LoadConnParams
    <3> QED BY <1>1, <3>2, <3>3
  <2> QED
    BY <2>1, <2>2, <2>3, <2>4
    DEF CliStep, ReadPid, SignalZero, KillRead, VisitNext, KillNext, EndListing,
        ProbePort, CheckAlreadyConnected, Prepare, Dial, DialUp, DialFails,
        Pgrep, SaveConnParams, PollReady, PollFails, Merge, LoadConnParams,
        files, RemoveDead, KillRemove
<1> QED BY <1>2, <1>3

LEMMA RecordedNotDying ==
  ASSUME ModelAssumption, ~PidReuse, SharedType, CliType, OwnInv, SerialInv,
         NoDyingNamed, NEW c \in Cli, CliStep(c),
         NEW d \in Cli, pc'[d] \in {"pgrep", "save"},
         NEW p \in Pid, procCtx'[p] = cli'[d].ctx
  PROVE  procState'[p] # "dying"
<1>1. /\ Busy(c)
      /\ \A e \in Cli \ {c} : pc'[e] = pc[e] /\ cli'[e] = cli[e]
  BY CliStepBusy
<1>2. CASE d # c
  <2>1. Busy(d) /\ cli[d].ctx # cli[c].ctx
    BY <1>1, <1>2, DifferentContexts DEF Busy, Ended
  <2>2. cli[d].ctx \in Ctx
    BY <1>1, <1>2 DEF CliType, ControlOK, Steps
  <2>3. procState'[p] = procState[p] /\ procCtx[p] = cli[d].ctx
    BY <1>1, <1>2, <2>1, <2>2, CliTouches, ModelAssumption DEF ModelAssumption
  <2> QED BY <1>1, <1>2, <2>3 DEF NoDyingNamed
<1>3. CASE d = c
  <2>1. DialUp(c) \/ Pgrep(c)
    BY <1>3
    DEF CliType, CliStep, ReadPid, SignalZero, RemoveDead, KillRead,
        KillSignal, KillRemove, VisitNext, KillNext, EndListing, ProbePort,
        CheckAlreadyConnected, Prepare, Dial, DialFails, SavePid,
        SaveConnParams, PollReady, PollFails, Merge, LoadConnParams, End, Goto,
        TunnelUp, TunnelDown, AfterKill
  <2>2. CASE DialUp(c)
    <3>1. /\ cli'[c].ctx = cli[c].ctx /\ cli[c].ctx \in Ctx
          /\ UNCHANGED procCtx /\ PortFree(GetUniquePort(cli[c].ctx))
      BY <2>2 DEF DialUp, CliType, ControlOK, Steps
    <3>2. procState[p] # "dying"
      BY <1>3, <3>1 DEF PortFree, Holds, Listening
    <3> QED BY <2>2, <3>2 DEF DialUp, SharedType
  <2>3. CASE Pgrep(c)
    <3>1. cli'[c].ctx = cli[c].ctx /\ UNCHANGED procs /\ pc[c] = "pgrep"
      <4>1. cli[c] \in Local
        BY DEF CliType
      <4> QED BY <2>3, <4>1 DEF Pgrep, CliType, Local
    <3> QED BY <1>3, <3>1 DEF NoDyingNamed, procs
  <2> QED BY <2>1, <2>2, <2>3
<1> QED BY <1>2, <1>3

LEMMA DyingStep ==
  ASSUME ModelAssumption, ~PidReuse, ~Interrupts, SharedType, CliType, OwnInv,
         SerialInv, NoDyingNamed, [Next]_vars, SharedType'
  PROVE  NoDyingNamed'
<1>1. ASSUME NEW c \in Cli, CliStep(c) PROVE NoDyingNamed'
  BY <1>1, FilesNotDying, RecordedNotDying DEF NoDyingNamed, SharedType
<1>2. ASSUME NEW c \in Cli, StartStep(c) PROVE NoDyingNamed'
  <2>1. UNCHANGED <<files, procs>> /\ ~Busy(c)
    BY <1>2 DEF StartStep, StartConnect, StartKill, StartReconnect,
                StartListing, Start, MayStart
  <2>2. /\ \A d \in Cli \ {c} : pc'[d] = pc[d] /\ cli'[d] = cli[d]
        /\ pc'[c] \notin {"pgrep", "save"}
    BY <1>2 DEF StartStep, StartConnect, StartKill, StartReconnect,
                StartListing, Start, Goto, CliType
  <2> QED BY <2>1, <2>2 DEF NoDyingNamed, files, procs, Busy, Ended
<1>3. ASSUME NEW c \in Cli, Interrupt(c) PROVE FALSE
  BY <1>3 DEF Interrupt
<1>4. ASSUME NEW p \in Pid, ProcStep(p) PROVE NoDyingNamed'
  <2>1. UNCHANGED <<files, pc, cli>>
    BY <1>4, ProcStepType
  <2>2. \A q \in Pid : procState'[q] = "dying" =>
          procState[q] = "dying" /\ procCtx'[q] = procCtx[q]
    BY <1>4 DEF ProcStep, TunnelDies, TunnelStalls, TunnelRecovers, DyingExits,
                LoneSsh, ForeignStarts, ForeignExits, Becomes, SharedType
  <2> QED BY <2>1, <2>2 DEF NoDyingNamed, files, SharedType
<1>5. CASE UNCHANGED vars
  BY <1>5 DEF vars, NoDyingNamed
<1> QED BY <1>1, <1>2, <1>3, <1>4, <1>5 DEF Next

-----------------------------------------------------------------------------
(* The invariant under which every step is a step of the service.          *)
ServiceIInv ==
  /\ SerialIInv /\ KillAllCovers /\ NoTunnelNoCtx /\ OneListenerPerPort
  /\ CallersInv /\ NoDyingNamed

LEMMA ServiceInitial ==
  ASSUME ModelAssumption, SerialUse, Init
  PROVE  ServiceIInv
<1>1. SerialIInv
  BY SerialInitial, OwnInitial, TypeInit DEF SerialIInv, OwnIInv, SerialUse
<1>2. NoTunnelNoCtx /\ OneListenerPerPort /\ KillAllCovers /\ NoDyingNamed
  BY DEF Init, NoTunnelNoCtx, OneListenerPerPort, Holds, Listening,
         KillAllCovers, Busy, Ended, NoDyingNamed
<1>3. CallersInv
  BY DEF Init, CallersInv, InContext, ServesCommand, KillSteps, Ended, NewLocal
<1> QED BY <1>1, <1>2, <1>3 DEF ServiceIInv

LEMMA ServiceInductive ==
  ASSUME SerialUse PROVE Spec => []ServiceIInv
<1>1. Init => ServiceIInv
  BY ServiceInitial, ModelAssumption
<1>2. ServiceIInv /\ SerialIInv' /\ [Next]_vars => ServiceIInv'
  <2> SUFFICES ASSUME ServiceIInv, SerialIInv', [Next]_vars
               PROVE  ServiceIInv'
    OBVIOUS
  <2>1. /\ SharedType /\ CliType /\ OwnInv /\ SerialInv /\ SharedType'
        /\ SerialIInv
    BY DEF ServiceIInv, SerialIInv, OwnIInv
  <2>2. KillAllCovers'
    BY <2>1, CoversStep, ModelAssumption DEF ServiceIInv
  <2>3. NoTunnelNoCtx' /\ OneListenerPerPort'
    BY <2>1, NextProcs, PortStep, ModelAssumption DEF ServiceIInv
  <2>4. CallersInv'
    BY <2>1, CallersStep DEF ServiceIInv, SerialUse
  <2>5. NoDyingNamed'
    BY <2>1, DyingStep, ModelAssumption DEF ServiceIInv, SerialUse
  <2> QED BY <2>2, <2>3, <2>4, <2>5 DEF ServiceIInv
<1> QED BY <1>1, <1>2, SerialInductive, PTL DEF Spec

-----------------------------------------------------------------------------
(* The service's variables after a step.                                   *)
ServiceStep == Service!Next \/ UNCHANGED <<ServiceTunnel, ServiceJob, ServicePhase>>

LEMMA WorksIsBusy ==
  ASSUME NEW c \in Cli PROVE Service!Works(c) <=> Busy(c)
BY DEF Service!Works, Service!Outcomes, ServicePhase, PhaseOf, Busy, Ended

LEMMA SameTunnel ==
  ASSUME NEW x,
         \A p \in Pid : procCtx'[p] = x \/ procCtx[p] = x =>
           /\ procCtx'[p] = x /\ procState'[p] \in Live <=>
                procCtx[p] = x /\ procState[p] \in Live
           /\ procCtx'[p] = x /\ procState'[p] = "dying" <=>
                procCtx[p] = x /\ procState[p] = "dying"
  PROVE  TunnelOf(x)' = TunnelOf(x)
<1>1. InState(x, Live)' <=> InState(x, Live)
  BY DEF InState
<1>2. InState(x, {"dying"})' <=> InState(x, {"dying"})
  BY DEF InState
<1> QED BY <1>1, <1>2 DEF TunnelOf, Live

LEMMA SameTunnels ==
  ASSUME UNCHANGED procs PROVE ServiceTunnel' = ServiceTunnel
<1>1. \A x \in Ctx : TunnelOf(x)' = TunnelOf(x)
  BY SameTunnel DEF procs
<1> QED BY <1>1 DEF ServiceTunnel

(* A listener is the only one of its context.                              *)
LEMMA OneTunnel ==
  ASSUME SharedType, OneListenerPerPort, NEW p \in Pid, NEW q \in Pid,
         procCtx[p] \in Ctx, procCtx[q] = procCtx[p],
         procState[p] \in Listening, procState[q] \in Listening
  PROVE  p = q
<1>1. Holds(p, GetUniquePort(procCtx[p])) /\ Holds(q, GetUniquePort(procCtx[p]))
  BY DEF Holds
<1> QED BY <1>1 DEF OneListenerPerPort

(* c goes on with its command, or ends it.                                 *)
LEMMA JobGoesOn ==
  ASSUME CallersInv, SerialInv, NEW c \in Cli, Busy(c), GoesOn(c),
         \A d \in Cli \ {c} : pc'[d] = pc[d] /\ cli'[d] = cli[d]
  PROVE  /\ ServiceJob' = ServiceJob
         /\ ServicePhase' = [ServicePhase EXCEPT ![c] = PhaseOf(c)']
<1>1. \A d \in Cli \ {c} : JobOf(d)' = JobOf(d) /\ PhaseOf(d)' = PhaseOf(d)
  BY DEF JobOf, PhaseOf, Found, Opened, Kills
<1>2. cli[c].cmd \in Listings <=> cli[c].for \in Visits
  BY DEF SerialInv, Visits
<1>3. JobOf(c)' = JobOf(c)
  BY <1>2 DEF GoesOn, JobOf
<1>4. ServiceJob' = ServiceJob
  BY <1>1, <1>3 DEF ServiceJob
<1>5. ServicePhase' = [ServicePhase EXCEPT ![c] = PhaseOf(c)']
  BY <1>1 DEF ServicePhase
<1> QED BY <1>4, <1>5

LEMMA JobEnds ==
  ASSUME CliType, NEW c \in Cli, NEW out \in Ended, End(c, out)
  PROVE  /\ ServiceJob' = [ServiceJob EXCEPT ![c] = Service!NoJob]
         /\ ServicePhase' = [ServicePhase EXCEPT ![c] = out]
<1>1. /\ pc'[c] = out /\ cli'[c] = NewLocal
      /\ \A d \in Cli \ {c} : pc'[d] = pc[d] /\ cli'[d] = cli[d]
  BY DEF CliType, End, Goto
<1>2. \A d \in Cli \ {c} : JobOf(d)' = JobOf(d) /\ PhaseOf(d)' = PhaseOf(d)
  BY <1>1 DEF JobOf, PhaseOf, Found, Opened, Kills
<1>3. JobOf(c)' = Service!NoJob /\ PhaseOf(c)' = out
  BY <1>1 DEF JobOf, PhaseOf, Service!NoJob, NewLocal, Listings
<1>4. ServiceJob' = [ServiceJob EXCEPT ![c] = Service!NoJob]
  BY <1>2, <1>3 DEF ServiceJob
<1>5. ServicePhase' = [ServicePhase EXCEPT ![c] = out]
  BY <1>2, <1>3 DEF ServicePhase
<1> QED BY <1>4, <1>5

LEMMA StepFinishes ==
  ASSUME CliType, NEW c \in Cli, Busy(c), NEW out \in Ended, End(c, out),
         ServiceTunnel' = ServiceTunnel, Service!Result(c, out)
  PROVE  ServiceStep
<1>1. Service!Finish(c, out)
  BY JobEnds, WorksIsBusy DEF Service!Finish, Service!Reach
<1>2. out \in Service!Outcomes
  BY DEF Ended, Service!Outcomes
<1> QED BY <1>1, <1>2 DEF ServiceStep, Service!Next

LEMMA StepIsHidden ==
  ASSUME CallersInv, SerialInv, NEW c \in Cli, Busy(c), GoesOn(c),
         \A d \in Cli \ {c} : pc'[d] = pc[d] /\ cli'[d] = cli[d],
         ServiceTunnel' = ServiceTunnel, PhaseOf(c)' = PhaseOf(c)
  PROVE  ServiceStep
BY JobGoesOn DEF ServiceStep, ServicePhase

(* The tunnel of x is up exactly when one of its processes is live.        *)
LEMMA UpIsLive ==
  ASSUME NEW x \in Ctx
  PROVE  ServiceTunnel[x] = "up" <=>
           \E p \in Pid : procCtx[p] = x /\ procState[p] \in Live
BY DEF ServiceTunnel, TunnelOf, InState

-----------------------------------------------------------------------------
(* The steps of an invocation.                                             *)
LEMMA CliStepServes ==
  ASSUME ModelAssumption, SerialUse, ServiceIInv, NEW c \in Cli, CliStep(c),
         NEW x, x = cli[c].ctx
  PROVE  ServiceStep
<1>1. /\ SharedType /\ CliType /\ OwnInv /\ SerialInv /\ Accounted
      /\ CallersInv /\ KillAllCovers /\ NoDyingNamed /\ OneListenerPerPort
  BY DEF ServiceIInv, SerialIInv, OwnIInv
<1>2. /\ pc \in [Cli -> Ended \cup Steps] /\ cli \in [Cli -> Local]
      /\ cli[c] \in Local /\ Busy(c) /\ pc[c] \in Steps \ Ended
      /\ pc[c] # "list" => x \in Ctx
      /\ \A d \in Cli \ {c} : pc'[d] = pc[d] /\ cli'[d] = cli[d]
  BY <1>1, CliStepBusy DEF CliType, ControlOK, Busy
<1>3. InContext(pc[c], cli[c]) /\ ServesCommand(pc[c], cli[c])
  BY <1>1 DEF CallersInv
<1>4. /\ ServiceJob[c].cmd = cli[c].cmd
      /\ cli[c].cmd \notin Listings => ServiceJob[c].ctx = x
      /\ ServicePhase[c] = PhaseOf(c)
  BY DEF ServiceJob, JobOf, ServicePhase
<1>5. pc'[c] \in Steps \ Ended => GoesOn(c)
  BY <1>1, CliStepGoesOn DEF Busy
<1>6. ASSUME pc'[c] \in Steps \ Ended, UNCHANGED procs, PhaseOf(c)' = PhaseOf(c)
      PROVE  ServiceStep
  BY <1>1, <1>2, <1>5, <1>6, SameTunnels, StepIsHidden
<1>7. ASSUME pc'[c] \in Steps \ Ended
      PROVE  /\ ServiceJob' = ServiceJob
             /\ ServicePhase' = [ServicePhase EXCEPT ![c] = PhaseOf(c)']
  BY <1>1, <1>2, <1>5, <1>7, JobGoesOn
<1>8. ASSUME NEW out \in Ended, End(c, out), UNCHANGED procs,
             Service!Result(c, out)
      PROVE  ServiceStep
  BY <1>1, <1>2, <1>8, SameTunnels, StepFinishes
<1>9. {"idle", "ok", "already", "failed"} \subseteq Ended
  BY DEF Ended
<1>10. CASE ReadPid(c)
  <2>1. /\ pc'[c] \in {"prepare", "dial", "list", "signal"}
        /\ pc[c] = "read" /\ UNCHANGED procs
    BY <1>2, <1>10 DEF ReadPid, TunnelDown, Goto
  <2>2. PhaseOf(c)' = PhaseOf(c)
    BY <2>1 DEF PhaseOf, Found, Opened, Kills, Ended
  <2> QED BY <1>6, <2>1, <2>2 DEF Steps, Ended
<1>11. CASE SignalZero(c)
  <2>1. /\ pc[c] = "signal" /\ UNCHANGED procs /\ PhaseOf(c) = "working"
    BY <1>11 DEF SignalZero, PhaseOf, Found, Opened, Kills, Ended
  <2>2. CASE pc'[c] \in {"remove", "list"}
    <3>1. PhaseOf(c)' = PhaseOf(c)
      BY <2>1, <2>2 DEF PhaseOf, Found, Opened, Kills, Ended
    <3> QED BY <1>6, <2>1, <2>2, <3>1 DEF Steps, Ended
  <2>3. CASE TunnelUp(c) /\ cli[c].for \in {"fast", "ensure"} /\ Alive(cli[c].pid)
    <3>1. /\ pc'[c] \in {"port", "poll", "merge"}
          /\ pc'[c] \in {"poll", "merge"} => cli'[c].reused
      BY <1>2, <2>3 DEF TunnelUp, Goto, Local
    <3>2. PhaseOf(c)' = "found"
      BY <3>1 DEF PhaseOf, Found, Opened, Kills, Ended
    <3>3. cli[c].cmd = "connect" /\ x \in Ctx
      BY <1>2, <1>3, <2>1, <2>3 DEF ServesCommand
    <3>4. ServiceTunnel[x] = "up"
      <4> DEFINE p == cli[c].pid
      <4>1. p \in Pid /\ pidFile[x] = p /\ p # NoPid
        BY <1>1, <2>1, AccountedNow, ModelAssumption
        DEF AccountsAt, CliType, ControlOK, ModelAssumption
      <4>2. procCtx[p] = x
        BY <1>1, <2>3, <3>3, <4>1 DEF OwnInv, PidFileNamesOwnTunnel, Alive
      <4>3. procState[p] # "dying"
        <5>1. \A d \in Cli : pc[d] = "killrm" /\ cli[d].ctx = x => FALSE
          BY <1>1, <1>2, <2>1, DifferentContexts DEF Busy, Ended
        <5> QED BY <1>1, <3>3, <4>1, <5>1 DEF NoDyingNamed
      <4>4. procState[p] \in Live
        BY <1>1, <1>2, <2>1, <3>3, <4>1, <4>2, <4>3, TunnelsOfContext
      <4> QED BY <3>3, <4>1, <4>2, <4>4, UpIsLive
    <3>5. Service!Find(c)
      BY <1>4, <1>7, <2>1, <3>1, <3>2, <3>3, <3>4, SameTunnels
      DEF Service!Find, Service!Reach, Steps, Ended, Listings
    <3> QED BY <3>5 DEF ServiceStep, Service!Next
  <2> QED
    BY <1>2, <1>3, <1>11, <2>1, <2>2, <2>3
    DEF SignalZero, TunnelUp, Goto, InContext
<1>12. CASE RemoveDead(c)
  <2>1. /\ pc'[c] \in {"prepare", "dial", "list"}
        /\ pc[c] = "remove" /\ UNCHANGED procs
    BY <1>2, <1>12 DEF RemoveDead, TunnelDown, Goto
  <2>2. PhaseOf(c)' = PhaseOf(c)
    BY <2>1 DEF PhaseOf, Found, Opened, Kills, Ended
  <2> QED BY <1>6, <2>1, <2>2 DEF Steps, Ended
<1>13. CASE KillRead(c)
  <2>1. /\ pc'[c] \in {"killrm", "killsig"} /\ cli'[c].for = cli[c].for
        /\ pc[c] = "killread" /\ UNCHANGED procs
    BY <1>2, <1>13 DEF KillRead, Goto, Local
  <2>2. PhaseOf(c)' = PhaseOf(c)
    BY <2>1 DEF PhaseOf, Found, Opened, Kills, Ended
  <2> QED BY <1>6, <2>1, <2>2 DEF Steps, Ended
<1>14. CASE EndListing(c)
  <2>1. /\ pc[c] = "list" /\ End(c, "idle") /\ UNCHANGED procs
        /\ cli[c].todo = {}
        /\ cli[c].cmd = "status" \/ (cli[c].cmd = "killall" /\ cli[c].running = {})
    BY <1>3, <1>14 DEF EndListing, InContext, ServesCommand, Listings, Ended
  <2>2. CASE cli[c].cmd = "killall" /\ cli[c].running = {}
    <3>1. \A p \in Pid : procState[p] \notin Live
      BY <1>1, <1>2, <2>1, <2>2 DEF KillAllCovers
    <3>2. \A y \in Ctx : ServiceTunnel[y] # "up"
      BY <3>1, UpIsLive
    <3> QED BY <1>4, <1>8, <1>9, <2>1, <2>2, <3>2 DEF Service!Result
  <2> QED BY <1>4, <1>8, <1>9, <2>1, <2>2 DEF Service!Result
<1>15. CASE VisitNext(c) \/ KillNext(c)
  <2>1. /\ pc'[c] \in {"read", "killread"} /\ pc[c] = "list" /\ UNCHANGED procs
        /\ pc'[c] = "killread" => cli'[c].for = "killall"
    <3>1. CASE VisitNext(c)
      BY <1>2, <3>1 DEF VisitNext, Goto
    <3>2. CASE KillNext(c)
      BY <1>2, <3>2 DEF KillNext, Goto, Local
    <3> QED BY <1>15, <3>1, <3>2
  <2>2. PhaseOf(c)' = PhaseOf(c)
    BY <2>1 DEF PhaseOf, Found, Opened, Kills, Ended
  <2> QED BY <1>6, <2>1, <2>2 DEF Steps, Ended
<1>16. CASE ProbePort(c) \/ CheckAlreadyConnected(c)
  <2>1. /\ pc[c] \in {"port", "files"} /\ UNCHANGED procs
        /\ cli[c].cmd = "connect" /\ PhaseOf(c) = "found"
    BY <1>3, <1>16
    DEF ProbePort, CheckAlreadyConnected, InContext, ServesCommand, Ended,
        PhaseOf, Found
  <2>2. CASE End(c, "already")
    BY <1>4, <1>8, <1>9, <2>1, <2>2 DEF Service!Result
  <2>3. CASE Goto(c, "files")
    <3>1. pc'[c] = "files"
      BY <1>2, <2>3 DEF Goto
    <3>2. PhaseOf(c)' = PhaseOf(c)
      BY <2>1, <3>1 DEF PhaseOf, Found, Ended
    <3> QED BY <1>6, <2>1, <3>1, <3>2 DEF Steps, Ended
  <2>4. CASE Goto(c, "prepare")
    <3>1. pc'[c] = "prepare"
      BY <1>2, <2>4 DEF Goto
    <3>2. PhaseOf(c)' = "working"
      BY <3>1 DEF PhaseOf, Found, Opened, Kills, Ended
    <3>3. Service!Miss(c)
      BY <1>4, <1>7, <2>1, <3>1, <3>2, SameTunnels
      DEF Service!Miss, Service!Reach, Steps, Ended
    <3> QED BY <3>3 DEF ServiceStep, Service!Next
  <2> QED
    BY <1>16, <2>2, <2>3, <2>4 DEF ProbePort, CheckAlreadyConnected
<1>17. CASE Prepare(c)
  <2>1. /\ pc[c] = "prepare" /\ UNCHANGED procs /\ cli[c].cmd = "connect"
        /\ PhaseOf(c) = "working"
    BY <1>3, <1>17
    DEF Prepare, InContext, ServesCommand, Ended, PhaseOf, Found, Opened, Kills
  <2>2. CASE End(c, "failed")
    BY <1>4, <1>8, <1>9, <2>1, <2>2 DEF Service!Result
  <2>3. CASE Goto(c, "read")
    <3>1. pc'[c] = "read"
      BY <1>2, <2>3 DEF Goto
    <3>2. PhaseOf(c)' = PhaseOf(c)
      BY <2>1, <3>1 DEF PhaseOf, Found, Opened, Kills, Ended
    <3> QED BY <1>6, <2>1, <3>1, <3>2 DEF Steps, Ended
  <2> QED BY <1>17, <2>2, <2>3 DEF Prepare
<1>18. CASE LoadConnParams(c)
  <2>1. /\ pc[c] = "params" /\ UNCHANGED procs /\ cli[c].cmd = "reconnect"
        /\ cli[c].for = "redial" /\ PhaseOf(c) = "working"
    BY <1>3, <1>18
    DEF LoadConnParams, InContext, ServesCommand, Ended, PhaseOf, Found, Opened,
        Kills
  <2>2. CASE End(c, "failed")
    BY <1>4, <1>8, <1>9, <2>1, <2>2 DEF Service!Result
  <2>3. CASE Goto(c, "killread") /\ UNCHANGED cli
    <3>1. pc'[c] = "killread"
      BY <1>2, <2>3 DEF Goto
    <3>2. PhaseOf(c)' = PhaseOf(c)
      BY <2>1, <2>3, <3>1 DEF PhaseOf, Found, Opened, Kills, Ended
    <3> QED BY <1>6, <2>1, <3>1, <3>2 DEF Steps, Ended
  <2> QED BY <1>18, <2>2, <2>3 DEF LoadConnParams
<1>19. CASE Pgrep(c) \/ SaveConnParams(c)
  <2>1. /\ pc[c] \in {"pgrep", "saveconn"} /\ UNCHANGED procs
        /\ PhaseOf(c) = "opened"
    BY <1>19
    DEF Pgrep, SaveConnParams, PhaseOf, Found, Opened, Kills, Ended
  <2>2. /\ pc'[c] \in {"save", "poll", "merge"}
        /\ pc'[c] \in {"poll", "merge"} => ~cli'[c].reused
    BY <1>2, <1>3, <1>19 DEF Pgrep, SaveConnParams, Goto, InContext
  <2>3. PhaseOf(c)' = PhaseOf(c)
    BY <2>1, <2>2 DEF PhaseOf, Found, Opened, Kills, Ended
  <2> QED BY <1>6, <2>1, <2>2, <2>3 DEF Steps, Ended
<1>20. CASE SavePid(c)
  <2>1. pc[c] = "save" /\ UNCHANGED procs /\ PhaseOf(c) = "opened"
    BY <1>20 DEF SavePid, PhaseOf, Found, Opened, Kills, Ended
  <2>2. CASE cli[c].cmd = "reconnect" /\ End(c, "ok")
    BY <1>4, <1>8, <1>9, <2>1, <2>2 DEF Service!Result
  <2>3. CASE Goto(c, "saveconn")
    <3>1. pc'[c] = "saveconn"
      BY <1>2, <2>3 DEF Goto
    <3>2. PhaseOf(c)' = PhaseOf(c)
      BY <2>1, <3>1 DEF PhaseOf, Found, Opened, Kills, Ended
    <3> QED BY <1>6, <2>1, <3>1, <3>2 DEF Steps, Ended
  <2> QED BY <1>20, <2>2, <2>3 DEF SavePid
<1>21. CASE PollReady(c)
  <2>1. /\ pc[c] = "poll" /\ pc'[c] = "merge" /\ cli'[c] = cli[c]
        /\ UNCHANGED procs
    BY <1>2, <1>21 DEF PollReady, Goto
  <2>2. PhaseOf(c)' = PhaseOf(c)
    BY <2>1 DEF PhaseOf, Found, Opened, Ended
  <2> QED BY <1>6, <2>1, <2>2 DEF Steps, Ended
<1>22. CASE PollFails(c)
  <2>1. /\ pc[c] = "poll" /\ UNCHANGED procs /\ cli[c].cmd = "connect"
        /\ PhaseOf(c) = IF cli[c].reused THEN "found" ELSE "opened"
    BY <1>3, <1>22
    DEF PollFails, InContext, ServesCommand, Ended, PhaseOf, Found, Opened
  <2>2. CASE End(c, "failed")
    BY <1>4, <1>8, <1>9, <2>1, <2>2 DEF Service!Result
  <2>3. CASE ~cli[c].reused /\ Goto(c, "killread")
             /\ cli' = [cli EXCEPT ![c].for = "fresh"]
    <3>1. pc'[c] = "killread" /\ cli'[c].for = "fresh"
      BY <1>2, <2>3 DEF Goto, Local
    <3>2. PhaseOf(c)' = "givingup"
      BY <3>1 DEF PhaseOf, Found, Opened, Kills, Ended
    <3>3. Service!GiveUp(c)
      BY <1>4, <1>7, <2>1, <2>3, <3>1, <3>2, SameTunnels
      DEF Service!GiveUp, Service!Reach, Steps, Ended
    <3> QED BY <3>3 DEF ServiceStep, Service!Next
  <2>4. CASE cli[c].reused /\ Goto(c, "killread")
             /\ cli' = [cli EXCEPT ![c].for = "stale"]
    <3>1. pc'[c] = "killread" /\ cli'[c].for = "stale"
      BY <1>2, <2>4 DEF Goto, Local
    <3>2. PhaseOf(c)' = "replacing"
      BY <3>1 DEF PhaseOf, Found, Opened, Kills, Ended
    <3>3. Service!Replace(c)
      BY <1>4, <1>7, <2>1, <2>4, <3>1, <3>2, SameTunnels
      DEF Service!Replace, Service!Reach, Steps, Ended
    <3> QED BY <3>3 DEF ServiceStep, Service!Next
  <2> QED BY <1>22, <2>2, <2>3, <2>4 DEF PollFails
<1>23. CASE Merge(c)
  <2>1. /\ pc[c] = "merge" /\ UNCHANGED procs /\ cli[c].cmd = "connect"
        /\ PhaseOf(c) \in {"found", "opened"}
    BY <1>3, <1>23
    DEF Merge, InContext, ServesCommand, Ended, PhaseOf, Found, Opened
  <2> QED BY <1>4, <1>8, <1>9, <1>23, <2>1 DEF Merge, Service!Result
<1>24. CASE KillRemove(c)
  <2>1. pc[c] = "killrm" /\ UNCHANGED procs
    BY <1>24 DEF KillRemove
  <2>2. ServiceTunnel[x] # "up"
    <3>1. \A p \in Pid : procCtx[p] = x => procState[p] = "dying"
      BY <1>1, <2>1, AccountedNow DEF AccountsAt
    <3> QED BY <1>2, <2>1, <3>1, UpIsLive DEF Live
  <2>3. CASE cli[c].for = "kill" /\ End(c, "idle")
    <3>1. cli[c].cmd = "kill" /\ cli[c].cmd \notin Listings
      BY <1>3, <2>1, <2>3 DEF ServesCommand, Ended, Listings
    <3> QED BY <1>4, <1>8, <1>9, <2>1, <2>2, <2>3, <3>1 DEF Service!Result
  <2>4. CASE cli[c].for = "fresh" /\ End(c, "failed")
    <3>1. cli[c].cmd = "connect" /\ cli[c].cmd \notin Listings
      BY <1>3, <2>1, <2>4 DEF ServesCommand, Ended, Listings
    <3>2. PhaseOf(c) = "givingup"
      BY <2>1, <2>4 DEF PhaseOf, Found, Opened, Kills, Ended
    <3> QED BY <1>4, <1>8, <1>9, <2>1, <2>2, <2>4, <3>1, <3>2 DEF Service!Result
  <2>5. CASE \/ cli[c].for = "redial" /\ Goto(c, "dial")
             \/ cli[c].for = "killall" /\ Goto(c, "list")
    <3>1. pc'[c] \in {"dial", "list"}
      BY <1>2, <2>5 DEF Goto
    <3>2. PhaseOf(c)' = PhaseOf(c)
      BY <2>1, <2>5, <3>1 DEF PhaseOf, Found, Opened, Kills, Ended
    <3> QED BY <1>6, <2>1, <3>1, <3>2 DEF Steps, Ended
  <2>6. CASE cli[c].for = "stale" /\ Goto(c, "read")
    <3>1. pc'[c] = "read"
      BY <1>2, <2>6 DEF Goto
    <3>2. PhaseOf(c)' = "working" /\ PhaseOf(c) = "replacing"
      BY <2>1, <2>6, <3>1 DEF PhaseOf, Found, Opened, Kills, Ended
    <3>3. cli[c].cmd \notin Listings
      BY <1>3, <2>1, <2>6 DEF ServesCommand, Ended, Listings
    <3>4. Service!Replaced(c)
      BY <1>4, <1>7, <2>1, <2>2, <3>1, <3>2, <3>3, SameTunnels
      DEF Service!Replaced, Service!Reach, Steps, Ended
    <3> QED BY <3>4 DEF ServiceStep, Service!Next
  <2> QED BY <1>24, <2>3, <2>4, <2>5, <2>6 DEF KillRemove, AfterKill
<1>25. CASE KillSignal(c)
  <2> DEFINE p == cli[c].pid
  <2>1. /\ pc[c] = "killsig" /\ pc'[c] = "killrm" /\ cli'[c] = cli[c]
        /\ p \in Pid /\ p # NoPid /\ x \in Ctx
    BY <1>1, <1>2, <1>25, ModelAssumption
    DEF KillSignal, Goto, CliType, ControlOK, ModelAssumption
  <2>2. PhaseOf(c)' = PhaseOf(c) /\ pc'[c] \in Steps \ Ended
    BY <2>1 DEF PhaseOf, Found, Opened, Kills, Steps, Ended
  <2>3. ASSUME ServiceTunnel' = ServiceTunnel
        PROVE  ServiceStep
    BY <1>1, <1>2, <1>5, <2>2, <2>3, StepIsHidden
  <2>4. CASE procState[p] \in Live
    <3>1. procState' = [procState EXCEPT ![p] = "dying"] /\ UNCHANGED procCtx
      BY <1>25, <2>4 DEF KillSignal, Live, Listening
    <3>2. procCtx[p] = x
      BY <1>1, <2>1, <2>4 DEF OwnInv, Live
    <3>3. ServiceTunnel[x] = "up"
      BY <2>1, <2>4, <3>2, UpIsLive
    <3>4. TunnelOf(x)' = "closing"
      <4>1. InState(x, {"dying"})'
        BY <1>1, <2>1, <3>1, <3>2 DEF InState, SharedType
      <4>2. ASSUME NEW q \in Pid, procCtx'[q] = x, procState'[q] \in Live
            PROVE  FALSE
        <5>1. q # p /\ procState[q] \in Live /\ procCtx[q] = x
          BY <1>1, <2>1, <3>1, <4>2 DEF SharedType, Live
        <5> QED BY <1>1, <2>1, <2>4, <3>2, <5>1, OneTunnel DEF Live, Listening
      <4>3. ~InState(x, Live)'
        BY <4>2 DEF InState, Live
      <4> QED BY <4>1, <4>3 DEF TunnelOf
    <3>5. ASSUME NEW y \in Ctx \ {x}
          PROVE  TunnelOf(y)' = TunnelOf(y)
      <4>1. \A q \in Pid : procCtx[q] = y => procState'[q] = procState[q]
        BY <1>1, <3>1, <3>2 DEF SharedType
      <4> QED BY <3>1, <4>1, SameTunnel
    <3>6. ServiceTunnel' = [ServiceTunnel EXCEPT ![x] = "closing"]
      BY <2>1, <3>4, <3>5 DEF ServiceTunnel
    <3>7. Service!MayClose(c, x)
      <4>1. /\ cli[c].for \in {"kill", "redial"} => PhaseOf(c) = "working"
            /\ cli[c].for = "stale" => PhaseOf(c) = "replacing"
            /\ cli[c].for = "fresh" => PhaseOf(c) = "givingup"
        BY <2>1 DEF PhaseOf, Found, Opened, Kills, Ended
      <4> QED
        BY <1>3, <1>4, <2>1, <4>1
        DEF Service!MayClose, InContext, ServesCommand, KillSteps, Ended, Listings
    <3>8. UNCHANGED <<ServiceJob, ServicePhase>>
      BY <1>4, <1>7, <2>2 DEF ServicePhase
    <3>9. Service!Close(c, x)
      BY <1>2, <3>3, <3>6, <3>7, <3>8, WorksIsBusy DEF Service!Close
    <3> QED BY <2>1, <3>9 DEF ServiceStep, Service!Next
  <2>5. CASE procState[p] \notin Live
    <3>1. \A q \in Pid :
            /\ procState'[q] \in Live <=> procState[q] \in Live
            /\ procState'[q] = "dying" <=> procState[q] = "dying"
            /\ procCtx'[q] = procCtx[q] \/ procState[q] = "auth"
      <4>1. procState[p] # "foreign"
        BY <1>1, <2>1 DEF OwnInv
      <4> QED
        BY <1>1, <1>25, <2>1, <2>5, <4>1
        DEF KillSignal, SharedType, Live, Listening, procs
    <3>2. \A y \in Ctx : TunnelOf(y)' = TunnelOf(y)
      BY <3>1, SameTunnel DEF Live
    <3> QED BY <2>3, <3>2 DEF ServiceTunnel
  <2> QED BY <2>4, <2>5
<1>26. CASE Dial(c) \/ DialUp(c) \/ DialFails(c)
  <2>1. /\ pc[c] \in {"dial", "auth"} /\ x \in Ctx /\ PhaseOf(c) = "working"
        /\ cli[c].cmd \in {"connect", "reconnect"} /\ cli[c].cmd \notin Listings
    BY <1>2, <1>3, <1>26
    DEF Dial, DialUp, DialFails, InContext, ServesCommand, Ended, PhaseOf,
        Found, Opened, Kills, Listings
  <2>2. Service!Result(c, "failed")
    BY <1>4, <2>1 DEF Service!Result
  <2>3. CASE DialUp(c)
    <3> DEFINE p == cli[c].pid
    <3>1. /\ p \in Pid /\ procState[p] = "auth" /\ procCtx[p] = x
          /\ procState' = [procState EXCEPT ![p] = "up"] /\ UNCHANGED procCtx
          /\ pc'[c] = "pgrep"
      BY <1>1, <1>2, <2>3 DEF DialUp, Goto, CliType, ControlOK
    <3>2. \A q \in Pid : procCtx[q] = x => procState[q] \notin Listening
      BY <2>1, <2>3 DEF DialUp, PortFree, Holds
    <3>3. ServiceTunnel[x] = "none"
      BY <2>1, <3>2 DEF ServiceTunnel, TunnelOf, InState, Live, Listening
    <3>4. TunnelOf(x)' = "up"
      BY <1>1, <3>1 DEF TunnelOf, InState, SharedType, Live
    <3>5. ASSUME NEW y \in Ctx \ {x}
          PROVE  TunnelOf(y)' = TunnelOf(y)
      <4>1. \A q \in Pid : procCtx[q] = y => procState'[q] = procState[q]
        BY <1>1, <3>1 DEF SharedType
      <4> QED BY <3>1, <4>1, SameTunnel
    <3>6. ServiceTunnel' = [ServiceTunnel EXCEPT ![x] = "up"]
      BY <2>1, <3>4, <3>5 DEF ServiceTunnel
    <3>7. PhaseOf(c)' = "opened"
      BY <3>1 DEF PhaseOf, Found, Opened, Ended
    <3>8. Service!Open(c)
      BY <1>4, <1>7, <2>1, <3>1, <3>3, <3>6, <3>7
      DEF Service!Open, Service!Reach, Steps, Ended
    <3> QED BY <3>8 DEF ServiceStep, Service!Next
  <2>4. CASE Dial(c) \/ DialFails(c)
    <3>1. \A q \in Pid :
            /\ procState'[q] \in Live <=> procState[q] \in Live
            /\ procState'[q] = "dying" <=> procState[q] = "dying"
            /\ procCtx'[q] = procCtx[q] \/ procState[q] \in {"none", "auth"}
      BY <1>1, <2>4 DEF Dial, DialFails, FreshPid, SharedType, Live, procs
    <3>2. \A y \in Ctx : TunnelOf(y)' = TunnelOf(y)
      BY <3>1, SameTunnel DEF Live
    <3>3. ServiceTunnel' = ServiceTunnel
      BY <3>2 DEF ServiceTunnel
    <3>4. CASE End(c, "failed")
      BY <1>1, <1>2, <1>9, <2>2, <3>3, <3>4, StepFinishes
    <3>5. CASE Goto(c, "auth")
      <4>1. pc'[c] = "auth"
        BY <1>2, <3>5 DEF Goto
      <4>2. PhaseOf(c)' = PhaseOf(c) /\ pc'[c] \in Steps \ Ended
        BY <2>1, <4>1 DEF PhaseOf, Found, Opened, Kills, Steps, Ended
      <4> QED BY <1>1, <1>2, <1>5, <3>3, <4>2, StepIsHidden
    <3> QED BY <2>4, <3>4, <3>5 DEF Dial, DialFails
  <2> QED BY <1>26, <2>3, <2>4
<1> QED
  BY <1>10, <1>11, <1>12, <1>13, <1>14, <1>15, <1>16, <1>17, <1>18, <1>19,
     <1>20, <1>21, <1>22, <1>23, <1>24, <1>25, <1>26
  DEF CliStep

-----------------------------------------------------------------------------
(* The other steps.                                                        *)
LEMMA StartStepServes ==
  ASSUME ModelAssumption, SerialUse, ServiceIInv, NEW c \in Cli, StartStep(c)
  PROVE  ServiceStep
<1>1. /\ pc \in [Cli -> Ended \cup Steps] /\ cli \in [Cli -> Local]
  BY DEF ServiceIInv, SerialIInv, OwnIInv, CliType
<1>2. ASSUME NEW name \in Commands, NEW x, NEW l, NEW w, NEW S,
             l \in {"read", "killread", "params", "list"},
             w \in {"fast", "kill", "redial", "list"},
             Start(c, name, x, l, w, S)
      PROVE  /\ ~Service!Works(c) /\ ServiceTunnel' = ServiceTunnel
             /\ ServiceJob' = [ServiceJob EXCEPT ![c] =
                  [cmd |-> name, ctx |-> IF name \in Listings THEN NoCtx ELSE x]]
             /\ ServicePhase' = [ServicePhase EXCEPT ![c] = "working"]
             /\ \A d \in Cli : Service!Works(d) =>
                  /\ name \notin Listings /\ cli[d].cmd \notin Listings
                  /\ ServiceJob[d].cmd = cli[d].cmd /\ ServiceJob[d].ctx # x
  <2>1. /\ pc'[c] = l /\ cli'[c].cmd = name /\ cli'[c].ctx = x
        /\ cli'[c].for = w /\ UNCHANGED procs /\ ~Busy(c)
        /\ \A d \in Cli \ {c} : pc'[d] = pc[d] /\ cli'[d] = cli[d]
    BY <1>1, <1>2 DEF Start, MayStart, Goto, NewLocal
  <2>2. \A d \in Cli \ {c} : JobOf(d)' = JobOf(d) /\ PhaseOf(d)' = PhaseOf(d)
    BY <2>1 DEF JobOf, PhaseOf, Found, Opened, Kills
  <2>3. PhaseOf(c)' = "working"
    BY <1>2, <2>1 DEF PhaseOf, Found, Opened, Kills, Ended
  <2>4. JobOf(c)' = [cmd |-> name, ctx |-> IF name \in Listings THEN NoCtx ELSE x]
    BY <2>1 DEF JobOf
  <2>5. \A d \in Cli : Busy(d) => /\ name \notin Listings
                                 /\ cli[d].cmd \notin Listings /\ cli[d].ctx # x
    BY <1>2, <2>1 DEF Start, MayStart, SerialUse
  <2>6. \A d \in Cli : Service!Works(d) =>
          /\ name \notin Listings /\ cli[d].cmd \notin Listings
          /\ ServiceJob[d].cmd = cli[d].cmd /\ ServiceJob[d].ctx # x
    BY <2>5, WorksIsBusy DEF ServiceJob, JobOf
  <2>7. ServiceJob' = [ServiceJob EXCEPT ![c] =
          [cmd |-> name, ctx |-> IF name \in Listings THEN NoCtx ELSE x]]
    BY <2>2, <2>4 DEF ServiceJob
  <2>8. ServicePhase' = [ServicePhase EXCEPT ![c] = "working"]
    BY <2>2, <2>3 DEF ServicePhase
  <2> QED BY <2>1, <2>6, <2>7, <2>8, SameTunnels, WorksIsBusy
<1>3. ASSUME NEW x \in Ctx, NEW name \in {"connect", "kill", "reconnect"},
             NEW l, NEW w, NEW S,
             l \in {"read", "killread", "params", "list"},
             w \in {"fast", "kill", "redial", "list"},
             Start(c, name, x, l, w, S)
      PROVE  ServiceStep
  <2>1. name \in Commands /\ name \notin Listings
    BY DEF Commands, Listings
  <2>2. Service!Begin(c, name, x)
    BY <1>2, <1>3, <2>1
    DEF Service!Begin, Service!All, Service!Reach, Listings
  <2> QED BY <2>2 DEF ServiceStep, Service!Next
<1>4. ASSUME NEW x \in Ctx,
             StartConnect(c, x) \/ StartKill(c, x) \/ StartReconnect(c, x)
      PROVE  ServiceStep
  BY <1>3, <1>4 DEF StartConnect, StartKill, StartReconnect
<1>5. ASSUME NEW name \in Listings, StartListing(c, name)
      PROVE  ServiceStep
  <2>1. name \in Commands /\ name \in Service!All
    BY DEF Commands, Listings, Service!All
  <2>2. Service!BeginAll(c, name)
    BY <1>2, <1>5, <2>1 DEF StartListing, Service!BeginAll, Service!Reach
  <2> QED BY <2>1, <2>2 DEF ServiceStep, Service!Next
<1> QED BY <1>4, <1>5 DEF StartStep

LEMMA ProcStepServes ==
  ASSUME ModelAssumption, SerialUse, ServiceIInv, NEW p \in Pid, ProcStep(p)
  PROVE  ServiceStep
<1>1. /\ SharedType /\ OwnInv /\ Accounted /\ OneListenerPerPort
      /\ UNCHANGED <<pc, cli>>
  BY ProcStepType DEF ServiceIInv, SerialIInv, OwnIInv
<1>2. UNCHANGED <<ServiceJob, ServicePhase>>
  BY <1>1 DEF ServiceJob, ServicePhase, JobOf, PhaseOf, Found, Opened, Kills
<1>3. procState[p] \notin {"none", "auth", "foreign"}
  <2>1. ~LoneSsh(p)
    BY <1>1, AccountedNow DEF LoneSsh
  <2> QED
    BY <1>1, <2>1
    DEF ProcStep, TunnelDies, TunnelStalls, TunnelRecovers, DyingExits,
        ForeignStarts, ForeignExits, OwnInv, Live, SerialUse
<1>4. /\ procState[p] \in Listening /\ procCtx[p] \in Ctx
      /\ \A q \in Pid \ {p} : procState'[q] = procState[q] /\ procCtx'[q] = procCtx[q]
      /\ \/ procState'[p] = "none" /\ procCtx'[p] = NoCtx
         \/ /\ procState[p] \in Live /\ procState'[p] \in Live
            /\ procCtx'[p] = procCtx[p]
  BY <1>1, <1>3
  DEF ProcStep, TunnelDies, TunnelStalls, TunnelRecovers, DyingExits, LoneSsh,
      ForeignStarts, ForeignExits, Becomes, SharedType, ProcStates, Live,
      Listening, OwnInv
<1>5. CASE procState[p] \in Live /\ procState'[p] \in Live
           /\ procCtx'[p] = procCtx[p]
  <2>1. \A y \in Ctx : TunnelOf(y)' = TunnelOf(y)
    BY <1>4, <1>5, SameTunnel DEF Live
  <2> QED BY <1>2, <2>1 DEF ServiceStep, ServiceTunnel
<1>6. CASE procState'[p] = "none" /\ procCtx'[p] = NoCtx
  <2> PICK x \in Ctx : x = procCtx[p]
    BY <1>4
  <2>1. \A q \in Pid : procCtx'[q] = x => procState'[q] \notin Listening
    BY <1>1, <1>4, <1>6, OneTunnel, ModelAssumption DEF ModelAssumption, Listening
  <2>2. TunnelOf(x)' = "none"
    BY <2>1 DEF TunnelOf, InState, Live, Listening
  <2>3. ServiceTunnel[x] # "none"
    BY <1>4 DEF ServiceTunnel, TunnelOf, InState, Live, Listening
  <2>4. \A y \in Ctx \ {x} : TunnelOf(y)' = TunnelOf(y)
    BY <1>4, <1>6, SameTunnel, ModelAssumption DEF ModelAssumption
  <2>5. ServiceTunnel' = [ServiceTunnel EXCEPT ![x] = "none"]
    BY <1>4, <2>2, <2>4 DEF ServiceTunnel
  <2>6. Service!Ends(x)
    BY <1>2, <2>3, <2>5 DEF Service!Ends
  <2> QED BY <1>4, <2>6 DEF ServiceStep, Service!Next
<1> QED BY <1>4, <1>5, <1>6

(* The commands implement the service: where they do not overlap on a      *)
(* context and none is interrupted, every step of one of them, and of the  *)
(* ssh processes, is a step TunnelService allows or changes nothing it     *)
(* speaks of (connect, tunnel-kill, tunnel-kill-all, tunnel-reconnect and  *)
(* status over internal/tunnel).                                           *)
THEOREM CommandsKeepService ==
  ASSUME SerialUse PROVE Spec => KeepsService
<1>1. Init => Service!Init
  <2> SUFFICES ASSUME Init PROVE Service!Init
    OBVIOUS
  <2>1. \A x \in Ctx : TunnelOf(x) = "none"
    BY ModelAssumption DEF Init, TunnelOf, InState, Live
  <2>2. \A c \in Cli : JobOf(c) = Service!NoJob /\ PhaseOf(c) = "idle"
    BY DEF Init, JobOf, PhaseOf, NewLocal, Listings, Ended, Service!NoJob
  <2> QED BY <2>1, <2>2 DEF Service!Init, ServiceTunnel, ServiceJob, ServicePhase
<1>2. ServiceIInv /\ [Next]_vars => [Service!Next]_(Service!vars)
  <2> SUFFICES ASSUME ServiceIInv, [Next]_vars PROVE ServiceStep
    BY DEF ServiceStep, Service!vars
  <2>1. ASSUME NEW c \in Cli, CliStep(c) \/ StartStep(c) PROVE ServiceStep
    BY <2>1, CliStepServes, StartStepServes, ModelAssumption
  <2>2. ASSUME NEW p \in Pid, ProcStep(p) PROVE ServiceStep
    BY <2>2, ProcStepServes, ModelAssumption
  <2>3. CASE UNCHANGED vars
    BY <2>3 DEF vars, ServiceStep, ServiceTunnel, ServiceJob, ServicePhase,
                TunnelOf, InState, JobOf, PhaseOf, Found, Opened, Kills
  <2>4. \A c \in Cli : ~Interrupt(c)
    BY DEF Interrupt, SerialUse
  <2> QED BY <2>1, <2>2, <2>3, <2>4 DEF Next
<1> QED
  BY <1>1, <1>2, ServiceInductive, PTL DEF Spec, KeepsService, Service!Spec
=============================================================================
