----------------------------- MODULE ExecFanout -----------------------------
(***************************************************************************)
(* `k3ctx exec -- ARGS` lists the tunnels, runs kubectl in every context   *)
(* whose tunnel is live, each in a goroutine with a deadline of its own,   *)
(* waits for all of them and prints their results. Meanwhile other         *)
(* commands open tunnels and tunnels die; a kubectl may answer, hang, or   *)
(* leave a child behind that holds its output pipe.                        *)
(***************************************************************************)
EXTENDS Integers, Sequences, FiniteSets

CONSTANTS
  Name,      \* the names of pid files, numbered in the order of a glob
  Context,   \* those that are contexts; the others are auxiliary tunnels
  portOf,    \* portOf[n]: the port in the main range that n hashes to
  MaxEvents  \* bound on what happens to tunnels, and on children left behind

ASSUME ExecAssumption ==
  /\ Name \subseteq Nat /\ IsFiniteSet(Name) /\ Context \subseteq Name
  /\ DOMAIN portOf = Name
  /\ MaxEvents \in Nat

VARIABLES
  file,     \* the names that have a pid file
  up,       \* the names whose tunnel is running and accepts connections
  pc,       \* "idle", "running", "port", "remove" while it lists, then
            \* "wait" for the goroutines, and "ended"
  todo,     \* the names still to visit
  targets,  \* the contexts found live, in order
  step,     \* step[i]: goroutine i is at "start", "wait", "drain" or "done"
  kubectl,  \* kubectl[i]: "none", "runs", "exit0", "exit1" or "killed"
  expired,  \* expired[i]: the deadline of i has passed before i had reaped it
  held,     \* held[i]: a child of kubectl i holds the output pipe
  results,  \* results[i]: what goroutine i has written
  events,   \* how many of the bounded events there have been
  lit,      \* the names whose tunnel was up at some time since the glob
  steady    \* the names that had a pid file and a tunnel up ever since

listing == <<pc, todo, targets>>
fan     == <<step, kubectl, expired, held, results>>
env     == <<file, up, events>>
seen    == <<lit, steady>>
vars    == <<listing, fan, env, seen>>

Slot     == DOMAIN targets   \* a goroutine for each
NoResult == [ctx |-> 0, ok |-> FALSE, code |-> 0]

-----------------------------------------------------------------------------
(* The listing (ListContextStatus), as every status command makes it.      *)
Exec ==
  /\ pc \in {"idle", "ended"}
  /\ todo' = file
  /\ pc' = "running" /\ targets' = <<>>
  /\ step' = <<>> /\ kubectl' = <<>> /\ expired' = <<>>
  /\ held' = <<>> /\ results' = <<>>
  /\ lit' = up /\ steady' = up \cap file
  /\ UNCHANGED env

First(n)    == n \in todo /\ \A m \in todo : n <= m

(* Mutant: a tunnel that is not live ends the loop.                        *)
VisitedLast(n) == pc' = "running" /\ todo' = {}

Visited(n) == pc' = "running" /\ todo' = todo \ {n}

(* IsTunnelRunning: the pid file is read and its process signalled.        *)
CheckRunning(n) ==
  /\ pc = "running" /\ First(n)
  /\ IF n \notin file
     THEN Visited(n)
     ELSE /\ pc' = IF n \in up THEN "port" ELSE "remove"
          /\ UNCHANGED todo
  /\ UNCHANGED <<targets, fan, env, seen>>

(* A dead one loses its pid file, whatever it names by now.                *)
RemoveDead(n) ==
  /\ pc = "remove" /\ First(n) /\ Visited(n)
  /\ file' = file \ {n}
  /\ steady' = steady \ {n}
  /\ UNCHANGED <<targets, fan, up, events, lit>>

(* IsPortLive: the tunnel of any context with this port will do.           *)
PortLive(n) == \E m \in Context \cap up : portOf[m] = portOf[n]

(* Mutant: whatever is not dead is taken.                                  *)
TakesRunning(n) == TRUE

(* runExec takes the live ones and no other.                               *)
Takes(n) == PortLive(n)

CheckPort(n) ==
  /\ pc = "port" /\ First(n) /\ Visited(n)
  /\ targets' = IF Takes(n) THEN Append(targets, n) ELSE targets
  /\ UNCHANGED <<fan, env, seen>>

(* One goroutine for each live context; none, and the command has ended.   *)
FanOut ==
  /\ pc = "running" /\ todo = {}
  /\ pc' = IF targets = <<>> THEN "ended" ELSE "wait"
  /\ step' = [i \in Slot |-> "start"] /\ kubectl' = [i \in Slot |-> "none"]
  /\ expired' = [i \in Slot |-> FALSE] /\ held' = [i \in Slot |-> FALSE]
  /\ results' = [i \in Slot |-> NoResult]
  /\ UNCHANGED <<todo, targets, env, seen>>

-----------------------------------------------------------------------------
(* A goroutine: cmd.Start, cmd.Wait, and the result.                       *)
At(i, s)   == step' = [step EXCEPT ![i] = s]
Answer(i, ok, code) ==
  results' = [results EXCEPT ![i] = [ctx |-> targets[i], ok |-> ok, code |-> code]]

StartFails(i) ==   \* no kubectl, or the deadline has passed already
  /\ step[i] = "start"
  /\ Answer(i, FALSE, 1)
  /\ At(i, "done")
  /\ UNCHANGED <<listing, kubectl, expired, held, env, seen>>

Start(i) ==
  /\ step[i] = "start" /\ ~expired[i]
  /\ kubectl' = [kubectl EXCEPT ![i] = "runs"]
  /\ At(i, "wait")
  /\ UNCHANGED <<listing, expired, held, results, env, seen>>

(* The deadline: SIGKILL for kubectl, a zombie that no one reaped included *)
DeadlineBeforeStart(i) ==   \* mutant: exec.Command, not CommandContext
  /\ step[i] = "start" /\ ~expired[i]
  /\ expired' = [expired EXCEPT ![i] = TRUE]
  /\ UNCHANGED <<listing, step, kubectl, held, results, env, seen>>

Deadline(i) ==
  /\ step[i] \in {"start", "wait"} /\ ~expired[i]
  /\ expired' = [expired EXCEPT ![i] = TRUE]
  /\ kubectl' = [kubectl EXCEPT ![i] = IF @ = "runs" THEN "killed" ELSE @]
  /\ UNCHANGED <<listing, step, held, results, env, seen>>

(* kubectl is reaped; its output is copied until the pipe is closed.       *)
ReapEarly(i) ==   \* mutant: it does not wait for the process
  /\ step[i] = "wait"
  /\ At(i, "drain")
  /\ UNCHANGED <<listing, kubectl, expired, held, results, env, seen>>

Reap(i) ==
  /\ step[i] = "wait" /\ kubectl[i] \in {"exit0", "exit1", "killed"}
  /\ At(i, "drain")
  /\ UNCHANGED <<listing, kubectl, expired, held, results, env, seen>>

(* An error of the deadline counts only when kubectl itself gave none; -1  *)
(* is the exit code of a process that was killed.                          *)
Err(i) == IF kubectl[i] = "killed" THEN "signal"
          ELSE IF kubectl[i] = "exit1" THEN "exit"
          ELSE IF expired[i] THEN "deadline" ELSE "nil"

(* Mutant: an error that is no ExitError leaves the exit code 0.           *)
CodeOfExitOnly(err) == [signal |-> -1, exit |-> 1, deadline |-> 0, nil |-> 0][err]

Code(err) == [signal |-> -1, exit |-> 1, deadline |-> 1, nil |-> 0][err]

Drain(i) ==
  /\ step[i] = "drain" /\ ~held[i]
  /\ Answer(i, Err(i) = "nil", Code(Err(i)))
  /\ At(i, "done")
  /\ UNCHANGED <<listing, kubectl, expired, held, env, seen>>

(* wg.Wait, then the results are printed in the order of the contexts.     *)
AllDoneStarted ==   \* mutant: wg.Add inside the goroutine
  \A i \in Slot : step[i] \in {"start", "done"}

AllDone == \A i \in Slot : step[i] = "done"

Collect ==
  /\ pc = "wait" /\ AllDone
  /\ pc' = "ended"
  /\ UNCHANGED <<todo, targets, fan, env, seen>>

-----------------------------------------------------------------------------
(* kubectl and its children.                                               *)
KubectlExits(i, how) ==
  /\ kubectl[i] = "runs"
  /\ kubectl' = [kubectl EXCEPT ![i] = how]
  /\ UNCHANGED <<listing, step, expired, held, results, env, seen>>

LeavesChild(i) ==
  /\ kubectl[i] = "runs" /\ ~held[i] /\ events < MaxEvents
  /\ held' = [held EXCEPT ![i] = TRUE]
  /\ events' = events + 1
  /\ UNCHANGED <<listing, step, kubectl, expired, results, file, up, seen>>

ChildEnds(i) ==
  /\ held[i]
  /\ held' = [held EXCEPT ![i] = FALSE]
  /\ UNCHANGED <<listing, step, kubectl, expired, results, env, seen>>

(* Other commands, and the network.                                        *)
TunnelOpens(n) ==
  /\ n \notin up /\ events < MaxEvents
  /\ n \in Context => ~PortLive(n)
  /\ up' = up \cup {n} /\ file' = file \cup {n}
  /\ lit' = lit \cup {n}
  /\ events' = events + 1
  /\ UNCHANGED <<listing, fan, steady>>

TunnelDies(n) ==
  /\ n \in up /\ events < MaxEvents
  /\ up' = up \ {n} /\ steady' = steady \ {n}
  /\ events' = events + 1
  /\ UNCHANGED <<listing, fan, file, lit>>

-----------------------------------------------------------------------------
Init ==
  /\ file \in SUBSET Name
  /\ up \in {U \in SUBSET file :
               \A n, m \in U \cap Context : portOf[n] = portOf[m] => n = m}
  /\ pc = "idle" /\ todo = {} /\ targets = <<>>
  /\ step = <<>> /\ kubectl = <<>> /\ expired = <<>>
  /\ held = <<>> /\ results = <<>>
  /\ events = 0 /\ lit = {} /\ steady = {}

Fanned       == pc \in {"wait", "ended"}
Visit(n)     == CheckRunning(n) \/ RemoveDead(n) \/ CheckPort(n)
ListStep     == (\E n \in Name : Visit(n)) \/ FanOut \/ Collect
Goroutine(i) == StartFails(i) \/ Start(i) \/ Deadline(i) \/ Reap(i) \/ Drain(i)

Next ==
  \/ Exec \/ ListStep
  \/ Fanned /\ \E i \in Slot :
       \/ Goroutine(i)
       \/ \E how \in {"exit0", "exit1"} : KubectlExits(i, how)
       \/ LeavesChild(i) \/ ChildEnds(i)
  \/ \E n \in Name : TunnelOpens(n) \/ TunnelDies(n)

Spec     == Init /\ [][Next]_vars
FairSpec == /\ Spec /\ WF_vars(ListStep)
            /\ \A i \in 1..Cardinality(Name) :
                 WF_vars(Fanned /\ i \in Slot /\ Goroutine(i))

-----------------------------------------------------------------------------
TypeOK ==
  /\ file \subseteq Name /\ up \subseteq Name /\ lit \subseteq Name
  /\ steady \subseteq file \cap up \cap lit
  /\ events \in 0..MaxEvents
  /\ pc \in {"idle", "running", "port", "remove", "wait", "ended"}
  /\ todo \subseteq Name /\ targets \in Seq(Name)
  /\ pc \in {"port", "remove"} => todo # {}
  /\ Fanned =>
       /\ step \in [Slot -> {"start", "wait", "drain", "done"}]
       /\ kubectl \in [Slot -> {"none", "runs", "exit0", "exit1", "killed"}]
       /\ expired \in [Slot -> BOOLEAN] /\ held \in [Slot -> BOOLEAN]
       /\ DOMAIN results = Slot
       /\ \A i \in Slot :
            /\ step[i] = "wait" => kubectl[i] # "none"
            /\ step[i] = "drain" => kubectl[i] \in {"exit0", "exit1", "killed"}
            /\ results[i] # NoResult <=> step[i] = "done"

(* exec runs in every context whose tunnel was up from the glob of the pid *)
(* files on, whatever other tunnels are opened or die during the visit     *)
(* ("runs the given kubectl command against every k3ctx-managed context    *)
(* whose tunnel liveness is live", multi-cluster-exec/spec.md).            *)
TargetSet    == {targets[i] : i \in DOMAIN targets}
CoversSteady == Fanned => steady \cap Context \subseteq TargetSet

(* It runs only in names whose tunnel was up meanwhile, once in each and   *)
(* in their order; in the name of an auxiliary tunnel, which is no         *)
(* context, only when the tunnel of a context has the port to which that   *)
(* name hashes (GetUniquePort over every pid file, ListContextStatus).     *)
LeavesOthers ==
  Fanned =>
    /\ \A i, j \in DOMAIN targets : i < j => targets[i] < targets[j]
    /\ \A n \in TargetSet :
         n \in lit /\ \E m \in Context \cap lit : portOf[m] = portOf[n]

(* When exec ends every target has a result of its own, in the order of    *)
(* the status, and no kubectl is left running (ExecOnContexts).            *)
EndsWithAll ==
  pc = "ended" =>
    \A i \in Slot : results[i].ctx = targets[i] /\ kubectl[i] # "runs"

(* A result is ok only if kubectl itself succeeded, and is so whenever it  *)
(* did before its deadline, whatever the other contexts do; ok and exit    *)
(* code 0 are one (LocalClusterExec.ExecOnContext over os/exec).           *)
AnswerKept ==
  Fanned => \A i \in Slot : step[i] = "done" =>
    /\ results[i].ok => kubectl[i] = "exit0"
    /\ kubectl[i] = "exit0" /\ ~expired[i] => results[i].ok
    /\ results[i].ok <=> results[i].code = 0

(* exec ends however kubectl hangs, unless a child that kubectl has left   *)
(* holds the output pipe: the deadline kills kubectl only, and cmd.Wait    *)
(* waits for the pipe.                                                     *)
ExecEnds == []<>(pc \in {"idle", "ended"} \/ (Fanned /\ \E i \in Slot : held[i]))
=============================================================================
