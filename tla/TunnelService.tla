---------------------------- MODULE TunnelService ----------------------------
(***************************************************************************)
(* What the tunnel commands of k3ctx promise to a user who does not run    *)
(* two of them on one context at a time: a context has no tunnel or one,   *)
(* and what each command may do to it, and must have done when it ends.    *)
(* The files, the signals and the pids by which the commands do it are in  *)
(* the module Tunnels, which implements this one (TunnelsRefinement).      *)
(***************************************************************************)
CONSTANTS
  Ctx,    \* kubectl context names
  Cli,    \* the invocations that may run at the same time
  NoCtx   \* the context of an invocation that works on all or on none

VARIABLES
  tunnel,  \* tunnel[x]: "none", "up", or "closing" until ssh has gone
  job,     \* job[c]: the command c runs, and the context it works on
  phase    \* phase[c]: how far it is, or how the last one ended

vars == <<tunnel, job, phase>>

NoJob    == [cmd |-> "none", ctx |-> NoCtx]
Outcomes == {"idle", "ok", "already", "failed"}
Works(c) == phase[c] \notin Outcomes
All      == {"killall", "status"}

Init ==
  /\ tunnel = [x \in Ctx |-> "none"]
  /\ job = [c \in Cli |-> NoJob]
  /\ phase = [c \in Cli |-> "idle"]

Reach(c, s) == phase' = [phase EXCEPT ![c] = s]

-----------------------------------------------------------------------------
(* A command begins when none is at work on its context.                   *)
Begin(c, cmd, x) ==
  /\ ~Works(c)
  /\ \A d \in Cli : Works(d) => job[d].cmd \notin All /\ job[d].ctx # x
  /\ job' = [job EXCEPT ![c] = [cmd |-> cmd, ctx |-> x]]
  /\ Reach(c, "working")
  /\ UNCHANGED tunnel

BeginAll(c, cmd) ==
  /\ \A d \in Cli : ~Works(d)
  /\ job' = [job EXCEPT ![c] = [cmd |-> cmd, ctx |-> NoCtx]]
  /\ Reach(c, "working")
  /\ UNCHANGED tunnel

(* A connect finds a tunnel to use, and may find later that it is gone.    *)
Find(c) ==
  /\ job[c].cmd = "connect" /\ phase[c] = "working"
  /\ tunnel[job[c].ctx] = "up"
  /\ Reach(c, "found")
  /\ UNCHANGED <<tunnel, job>>

Miss(c) == phase[c] = "found" /\ Reach(c, "working") /\ UNCHANGED <<tunnel, job>>

(* A command opens one tunnel at most, when there is none.                 *)
Open(c) ==
  /\ job[c].cmd \in {"connect", "reconnect"} /\ phase[c] = "working"
  /\ tunnel[job[c].ctx] = "none"
  /\ tunnel' = [tunnel EXCEPT ![job[c].ctx] = "up"]
  /\ Reach(c, "opened")
  /\ UNCHANGED job

(* A tunnel that does not answer is replaced when it was found, and given  *)
(* up when it was opened.                                                  *)
Replace(c) == phase[c] = "found" /\ Reach(c, "replacing") /\ UNCHANGED <<tunnel, job>>
Replaced(c) ==
  /\ phase[c] = "replacing" /\ tunnel[job[c].ctx] # "up"
  /\ Reach(c, "working")
  /\ UNCHANGED <<tunnel, job>>
GiveUp(c) ==
  /\ job[c].cmd = "connect" /\ phase[c] = "opened"
  /\ Reach(c, "givingup")
  /\ UNCHANGED <<tunnel, job>>

(* Only a command that is to close a tunnel closes it.                     *)
MayClose(c, x) ==
  \/ job[c].cmd = "killall"
  \/ job[c].ctx = x /\ job[c].cmd \in {"kill", "reconnect"} /\ phase[c] = "working"
  \/ job[c].ctx = x /\ phase[c] \in {"replacing", "givingup"}
Close(c, x) ==
  /\ Works(c) /\ MayClose(c, x) /\ tunnel[x] = "up"
  /\ tunnel' = [tunnel EXCEPT ![x] = "closing"]
  /\ UNCHANGED <<job, phase>>

(* The end of a command, and what it has then achieved.                    *)
Result(c, out) ==
  \/ job[c].cmd = "status" /\ out = "idle"
  \/ job[c].cmd = "killall" /\ out = "idle" /\ \A x \in Ctx : tunnel[x] # "up"
  \/ job[c].cmd = "kill" /\ out = "idle" /\ tunnel[job[c].ctx] # "up"
  \/ job[c].cmd = "reconnect" /\ <<phase[c], out>> \in {<<"opened", "ok">>,
                                                      <<"working", "failed">>}
  \/ /\ job[c].cmd = "connect"
     /\ \/ out = "already" /\ phase[c] = "found"
        \/ out = "ok" /\ phase[c] \in {"found", "opened"}
        \/ out = "failed" /\ phase[c] \in {"working", "found", "opened"}
        \/ out = "failed" /\ phase[c] = "givingup" /\ tunnel[job[c].ctx] # "up"

Finish(c, out) ==
  /\ Works(c) /\ Result(c, out)
  /\ job' = [job EXCEPT ![c] = NoJob]
  /\ Reach(c, out)
  /\ UNCHANGED tunnel

(* A tunnel breaks at any time; one that is closing goes in the end.       *)
Ends(x) ==
  /\ tunnel[x] # "none"
  /\ tunnel' = [tunnel EXCEPT ![x] = "none"]
  /\ UNCHANGED <<job, phase>>

Next ==
  \/ \E c \in Cli :
       \/ \E x \in Ctx : \/ \E cmd \in {"connect", "kill", "reconnect"} : Begin(c, cmd, x)
                         \/ Close(c, x)
       \/ \E cmd \in All : BeginAll(c, cmd)
       \/ Find(c) \/ Miss(c) \/ Open(c) \/ Replace(c) \/ Replaced(c) \/ GiveUp(c)
       \/ \E out \in Outcomes : Finish(c, out)
  \/ \E x \in Ctx : Ends(x)

Spec == Init /\ [][Next]_vars
=============================================================================
