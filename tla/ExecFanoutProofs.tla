-------------------------- MODULE ExecFanoutProofs --------------------------
(***************************************************************************)
(* exec runs where it should, and its results are those of its kubectls,   *)
(* for any tunnels, ports and numbers of contexts.                         *)
(***************************************************************************)
EXTENDS ExecFanout, TLAPS

(* A tunnel that has been up since the glob is still to be visited or has  *)
(* been taken; what is taken comes before what is still to be visited.     *)
ListInv ==
  /\ pc # "idle" => up \subseteq lit
  /\ steady \cap Context \subseteq todo \cup TargetSet
  /\ \A n \in todo :
       /\ pc = "remove" /\ First(n) => n \notin steady
       /\ pc = "port" /\ First(n) => n \in lit
       /\ \A i \in DOMAIN targets : targets[i] < n
  /\ Fanned => todo = {}
  /\ \A i, j \in DOMAIN targets : i < j => targets[i] < targets[j]
  /\ \A n \in TargetSet :
       n \in lit /\ \E m \in Context \cap lit : portOf[m] = portOf[n]

(* A goroutine has a kubectl running only while it waits for it.           *)
GoroutineInv ==
  /\ Fanned => \A i \in Slot :
       /\ step[i] = "start" => kubectl[i] = "none"
       /\ kubectl[i] = "runs" => step[i] = "wait"
       /\ step[i] = "done" => results[i].ctx = targets[i]
  /\ pc = "ended" => \A i \in Slot : step[i] = "done"

(* The conjuncts of TypeOK that say where a goroutine is.                  *)
FanTyped ==
  /\ step \in [Slot -> {"start", "wait", "drain", "done"}]
  /\ kubectl \in [Slot -> {"none", "runs", "exit0", "exit1", "killed"}]
  /\ expired \in [Slot -> BOOLEAN] /\ held \in [Slot -> BOOLEAN]
  /\ DOMAIN results = Slot
  /\ \A i \in Slot :
       /\ step[i] = "wait" => kubectl[i] # "none"
       /\ step[i] = "drain" => kubectl[i] \in {"exit0", "exit1", "killed"}
       /\ results[i] # NoResult <=> step[i] = "done"

EnvTyped ==
  /\ file \subseteq Name /\ up \subseteq Name /\ lit \subseteq Name
  /\ steady \subseteq file \cap up \cap lit
  /\ events \in 0..MaxEvents

ListTyped ==
  /\ pc \in {"idle", "running", "port", "remove", "wait", "ended"}
  /\ todo \subseteq Name /\ targets \in Seq(Name)
  /\ pc \in {"port", "remove"} => todo # {}

(* The inductive invariant; its first three conjuncts are TypeOK.          *)
ExecIInv ==
  /\ EnvTyped /\ ListTyped /\ (Fanned => FanTyped)
  /\ ListInv /\ GoroutineInv /\ AnswerKept

LEMMA TypeParts == TypeOK <=> EnvTyped /\ ListTyped /\ (Fanned => FanTyped)
PROOF BY DEF TypeOK, EnvTyped, ListTyped, FanTyped

-----------------------------------------------------------------------------
(* Goroutines and their kubectls change nothing of the list.               *)
LEMMA FanKeepsList ==
  ASSUME EnvTyped, ListTyped, ListInv,
         UNCHANGED listing, UNCHANGED <<file, up>>, UNCHANGED seen,
         events' \in 0..MaxEvents
  PROVE  EnvTyped' /\ ListTyped' /\ ListInv'
PROOF BY DEF EnvTyped, ListTyped, ListInv, listing, seen, First, TargetSet, Fanned

LEMMA ListInit == ASSUME Init PROVE ExecIInv
PROOF
<1>1. EnvTyped
  <2>1. events \in 0..MaxEvents
    BY ExecAssumption DEF Init
  <2> QED BY <2>1 DEF Init, EnvTyped
<1>2. ListTyped /\ ~Fanned /\ pc = "idle"
  BY DEF Init, ListTyped, Fanned
<1>3. ListInv
  BY <1>2 DEF Init, ListInv, Fanned, TargetSet, Slot
<1>4. GoroutineInv /\ AnswerKept
  BY <1>2 DEF GoroutineInv, AnswerKept
<1> QED BY <1>1, <1>2, <1>3, <1>4 DEF ExecIInv

-----------------------------------------------------------------------------
(* The steps of the list.                                                  *)
LEMMA ListKeeps ==
  ASSUME ExecIInv, Exec \/ (\E n \in Name : Visit(n)) \/ FanOut \/ Collect
  PROVE  ExecIInv'
PROOF
<1>0. EnvTyped /\ ListTyped /\ (Fanned => FanTyped) /\ ListInv
  BY DEF ExecIInv
<1>1. CASE Exec
  <2>1. ~Fanned' /\ pc' = "running" /\ targets' = <<>> /\ todo' = file
    BY <1>1 DEF Exec, Fanned
  <2>2. EnvTyped' /\ ListTyped'
    BY <1>0, <1>1, <2>1 DEF Exec, EnvTyped, ListTyped, env
  <2>3. ListInv'
    BY <1>0, <1>1, <2>1 DEF Exec, EnvTyped, ListInv, TargetSet, env
  <2> QED BY <2>1, <2>2, <2>3 DEF ExecIInv, GoroutineInv, AnswerKept
<1>2. ASSUME NEW n \in Name, CheckRunning(n)
      PROVE  ExecIInv'
  <2>1. /\ pc = "running" /\ First(n) /\ ~Fanned'
        /\ UNCHANGED <<targets, env, seen>>
        /\ \/ pc' = "running" /\ todo' = todo \ {n} /\ n \notin file
           \/ pc' = "port" /\ todo' = todo /\ n \in up
           \/ pc' = "remove" /\ todo' = todo /\ n \notin up
    BY <1>2 DEF CheckRunning, Visited, Fanned
  <2>2. EnvTyped' /\ ListTyped'
    BY <1>0, <2>1 DEF EnvTyped, ListTyped, First, env, seen
  <2>3. \A m \in todo : First(m) => m = n
    BY <1>0, <2>1, ExecAssumption DEF First, ListTyped
  <2>4. ListInv'
    <3>1. (pc' # "idle" => up' \subseteq lit') /\ ~Fanned'
      BY <1>0, <2>1 DEF ListInv, env, seen
    <3>2. (steady \cap Context \subseteq todo \cup TargetSet)'
      BY <1>0, <2>1 DEF ListInv, EnvTyped, TargetSet, env, seen
    <3>3. ASSUME NEW m \in todo' PROVE m \in todo /\ \A i \in DOMAIN targets' : targets'[i] < m
      BY <1>0, <2>1, <3>3 DEF ListInv
    <3>4. ASSUME NEW m \in todo', pc' = "remove", First(m)' PROVE m \notin steady'
      BY <1>0, <2>1, <2>3, <3>3, <3>4 DEF EnvTyped, First, env, seen
    <3>5. ASSUME NEW m \in todo', pc' = "port", First(m)' PROVE m \in lit'
      BY <1>0, <2>1, <2>3, <3>3, <3>5 DEF ListInv, First, env, seen
    <3> QED BY <1>0, <2>1, <3>1, <3>2, <3>3, <3>4, <3>5 DEF ListInv, TargetSet, seen
  <2> QED BY <2>1, <2>2, <2>4 DEF ExecIInv, GoroutineInv, AnswerKept, Fanned
<1>3. ASSUME NEW n \in Name, RemoveDead(n)
      PROVE  ExecIInv'
  <2>1. /\ pc = "remove" /\ First(n) /\ pc' = "running" /\ todo' = todo \ {n}
        /\ file' = file \ {n} /\ steady' = steady \ {n}
        /\ UNCHANGED <<targets, up, events, lit>> /\ ~Fanned'
    BY <1>3 DEF RemoveDead, Visited, Fanned
  <2>2. EnvTyped' /\ ListTyped'
    BY <1>0, <2>1 DEF EnvTyped, ListTyped
  <2>3. ListInv'
    BY <1>0, <2>1 DEF ListInv, TargetSet
  <2> QED BY <2>1, <2>2, <2>3 DEF ExecIInv, GoroutineInv, AnswerKept
<1>4. ASSUME NEW n \in Name, CheckPort(n)
      PROVE  ExecIInv'
  <2>1. /\ pc = "port" /\ First(n) /\ pc' = "running" /\ todo' = todo \ {n}
        /\ UNCHANGED <<env, seen>> /\ ~Fanned'
        /\ n \in lit /\ \A i \in DOMAIN targets : targets[i] < n
    BY <1>0, <1>4 DEF CheckPort, Visited, Fanned, ListInv, First
  <2>2. CASE ~PortLive(n)
    <3>1. targets' = targets /\ n \notin steady \cap Context
      BY <1>0, <1>4, <2>2 DEF CheckPort, Takes, PortLive, EnvTyped
    <3>2. EnvTyped' /\ ListTyped' /\ ListInv'
      BY <1>0, <2>1, <3>1 DEF EnvTyped, ListTyped, ListInv, TargetSet, env, seen
    <3> QED BY <2>1, <3>2 DEF ExecIInv, GoroutineInv, AnswerKept
  <2>3. CASE PortLive(n)
    <3>1. targets' = Append(targets, n) /\ targets \in Seq(Name)
      BY <1>0, <1>4, <2>3 DEF CheckPort, Takes, ListTyped
    <3>2. /\ targets' \in Seq(Name) /\ Len(targets) \in Nat
          /\ DOMAIN targets = 1..Len(targets)
          /\ DOMAIN targets' = 1..(Len(targets) + 1)
          /\ targets'[Len(targets) + 1] = n
          /\ \A i \in DOMAIN targets : targets'[i] = targets[i]
      BY <3>1
    <3>3. TargetSet' = TargetSet \cup {n}
      BY <3>2 DEF TargetSet
    <3>4. EnvTyped' /\ ListTyped'
      BY <1>0, <2>1, <3>2 DEF EnvTyped, ListTyped, env, seen
    <3>5. \A i, j \in DOMAIN targets' : i < j => targets'[i] < targets'[j]
      BY <1>0, <2>1, <3>2 DEF ListInv
    <3>6. \A m \in todo' : n < m
      BY <1>0, <2>1, ExecAssumption DEF First, ListTyped
    <3>7. \A m \in todo' : \A i \in DOMAIN targets' : targets'[i] < m
      BY <1>0, <2>1, <3>2, <3>6 DEF ListInv
    <3>8. \E m \in Context \cap lit : portOf[m] = portOf[n]
      BY <1>0, <2>1, <2>3 DEF PortLive, ListInv
    <3>9. ListInv'
      BY <1>0, <2>1, <3>3, <3>5, <3>7, <3>8 DEF ListInv, env, seen
    <3> QED BY <2>1, <3>4, <3>9 DEF ExecIInv, GoroutineInv, AnswerKept
  <2> QED BY <2>2, <2>3
<1>5. CASE FanOut
  <2>1. /\ pc = "running" /\ todo = {} /\ pc' \in {"wait", "ended"}
        /\ UNCHANGED <<todo, targets, env, seen>>
        /\ pc' = "ended" => Slot = {}
    BY <1>5 DEF FanOut, Slot
  <2>2. EnvTyped' /\ ListTyped'
    BY <1>0, <2>1 DEF EnvTyped, ListTyped, env, seen
  <2>3. ListInv'
    BY <1>0, <2>1 DEF ListInv, TargetSet, Fanned, env, seen
  <2>4. /\ step' = [i \in Slot |-> "start"] /\ kubectl' = [i \in Slot |-> "none"]
        /\ expired' = [i \in Slot |-> FALSE] /\ held' = [i \in Slot |-> FALSE]
        /\ results' = [i \in Slot |-> NoResult] /\ Slot' = Slot
    BY <1>5 DEF FanOut, Slot
  <2>5. FanTyped'
    BY <2>4 DEF FanTyped
  <2>6. GoroutineInv' /\ AnswerKept'
    BY <2>1, <2>4 DEF GoroutineInv, AnswerKept, Fanned
  <2> QED BY <2>2, <2>3, <2>5, <2>6 DEF ExecIInv
<1>6. CASE Collect
  <2>1. /\ pc = "wait" /\ pc' = "ended" /\ \A i \in Slot : step[i] = "done"
        /\ UNCHANGED <<todo, targets, fan, env, seen>> /\ Fanned /\ Fanned'
    BY <1>6 DEF Collect, AllDone, Fanned
  <2>2. EnvTyped' /\ ListTyped' /\ ListInv'
    BY <1>0, <2>1 DEF EnvTyped, ListTyped, ListInv, First, TargetSet, env, seen
  <2>3. FanTyped' /\ GoroutineInv' /\ AnswerKept'
    BY <1>0, <2>1 DEF ExecIInv, FanTyped, GoroutineInv, AnswerKept, Slot, fan
  <2> QED BY <2>2, <2>3 DEF ExecIInv
<1> QED BY <1>1, <1>2, <1>3, <1>4, <1>5, <1>6 DEF Visit

-----------------------------------------------------------------------------
(* The steps of the goroutines and of what they started.                   *)
FanStep(i) ==
  \/ Goroutine(i)
  \/ \E how \in {"exit0", "exit1"} : KubectlExits(i, how)
  \/ LeavesChild(i) \/ ChildEnds(i)

(* A step that writes goroutine i alone keeps what is said of the others.  *)
LEMMA OneGoroutine ==
  ASSUME Fanned, FanTyped, GoroutineInv, AnswerKept, UNCHANGED listing,
         NEW i \in Slot, pc = "ended" => step'[i] = "done",
         step' \in [Slot -> {"start", "wait", "drain", "done"}],
         kubectl' \in [Slot -> {"none", "runs", "exit0", "exit1", "killed"}],
         expired' \in [Slot -> BOOLEAN], held' \in [Slot -> BOOLEAN],
         DOMAIN results' = Slot,
         \A j \in Slot \ {i} : /\ step'[j] = step[j] /\ kubectl'[j] = kubectl[j]
                               /\ expired'[j] = expired[j]
                               /\ results'[j] = results[j],
         step'[i] = "wait" => kubectl'[i] # "none",
         step'[i] = "drain" => kubectl'[i] \in {"exit0", "exit1", "killed"},
         results'[i] # NoResult <=> step'[i] = "done",
         step'[i] = "start" => kubectl'[i] = "none",
         kubectl'[i] = "runs" => step'[i] = "wait",
         step'[i] = "done" =>
           /\ results'[i].ctx = targets[i]
           /\ results'[i].ok => kubectl'[i] = "exit0"
           /\ kubectl'[i] = "exit0" /\ ~expired'[i] => results'[i].ok
           /\ results'[i].ok <=> results'[i].code = 0
  PROVE  FanTyped' /\ GoroutineInv' /\ AnswerKept'
PROOF
<1>1. Fanned' /\ Slot' = Slot /\ targets' = targets /\ pc' = pc
  BY DEF Fanned, Slot, listing
<1>2. FanTyped'
  BY <1>1 DEF FanTyped
<1>3. GoroutineInv'
  BY <1>1 DEF GoroutineInv
<1>4. AnswerKept'
  BY <1>1 DEF AnswerKept
<1> QED BY <1>2, <1>3, <1>4

LEMMA GoroutineKeeps ==
  ASSUME ExecIInv, Fanned, NEW i \in Slot, FanStep(i)
  PROVE  ExecIInv'
PROOF
<1>0. EnvTyped /\ ListTyped /\ FanTyped /\ ListInv /\ GoroutineInv /\ AnswerKept
  BY DEF ExecIInv
<1>1. UNCHANGED listing /\ UNCHANGED <<file, up>> /\ UNCHANGED seen /\ events' \in 0..MaxEvents
  <2>1. CASE LeavesChild(i)
    BY <1>0, <2>1, ExecAssumption DEF LeavesChild, EnvTyped
  <2>2. CASE ~LeavesChild(i)
    BY <1>0, <2>2 DEF FanStep, Goroutine, StartFails, Start, Deadline, Reap, Drain,
                      KubectlExits, ChildEnds, EnvTyped, env
  <2> QED BY <2>1, <2>2
<1>2. EnvTyped' /\ ListTyped' /\ ListInv'
  BY <1>0, <1>1, FanKeepsList
<1>3. pc = "ended" => step[i] = "done"
  BY <1>0 DEF GoroutineInv
<1>4. FanTyped' /\ GoroutineInv' /\ AnswerKept'
  <2>1. CASE StartFails(i)
    <3>1. /\ step[i] = "start" /\ step' = [step EXCEPT ![i] = "done"]
          /\ results' = [results EXCEPT ![i] = [ctx |-> targets[i], ok |-> FALSE, code |-> 1]]
          /\ UNCHANGED <<kubectl, expired, held>>
      BY <2>1 DEF StartFails, Answer, At
    <3>2. kubectl[i] = "none"
      BY <1>0, <3>1 DEF GoroutineInv
    <3> QED BY <1>0, <1>1, <1>3, <3>1, <3>2, OneGoroutine DEF FanTyped, NoResult
  <2>2. CASE Start(i)
    <3>1. /\ step[i] = "start" /\ step' = [step EXCEPT ![i] = "wait"]
          /\ kubectl' = [kubectl EXCEPT ![i] = "runs"]
          /\ UNCHANGED <<expired, held, results>>
      BY <2>2 DEF Start, At
    <3> QED BY <1>0, <1>1, <1>3, <3>1, OneGoroutine DEF FanTyped
  <2>3. CASE Deadline(i)
    <3>1. /\ step[i] \in {"start", "wait"} /\ UNCHANGED <<step, held, results>>
          /\ expired' = [expired EXCEPT ![i] = TRUE]
          /\ kubectl' = [kubectl EXCEPT ![i] = IF kubectl[i] = "runs" THEN "killed" ELSE kubectl[i]]
      BY <2>3 DEF Deadline
    <3>2. step[i] = "start" => kubectl[i] = "none"
      BY <1>0 DEF GoroutineInv
    <3> QED BY <1>0, <1>1, <1>3, <3>1, <3>2, OneGoroutine DEF FanTyped
  <2>4. CASE Reap(i)
    <3>1. /\ step[i] = "wait" /\ step' = [step EXCEPT ![i] = "drain"]
          /\ kubectl[i] \in {"exit0", "exit1", "killed"}
          /\ UNCHANGED <<kubectl, expired, held, results>>
      BY <2>4 DEF Reap, At
    <3> QED BY <1>0, <1>1, <1>3, <3>1, OneGoroutine DEF FanTyped
  <2>5. CASE Drain(i)
    <3>1. /\ step[i] = "drain" /\ step' = [step EXCEPT ![i] = "done"]
          /\ results' = [results EXCEPT ![i] =
               [ctx |-> targets[i], ok |-> Err(i) = "nil", code |-> Code(Err(i))]]
          /\ UNCHANGED <<kubectl, expired, held>>
      BY <2>5 DEF Drain, Answer, At
    <3>2. kubectl[i] \in {"exit0", "exit1", "killed"}
      BY <1>0, <3>1 DEF FanTyped
    <3>3. /\ Err(i) = "nil" <=> kubectl[i] = "exit0" /\ ~expired[i]
          /\ Err(i) \in {"signal", "exit", "deadline", "nil"}
      BY <3>2 DEF Err
    <3>4. Err(i) = "nil" <=> Code(Err(i)) = 0
      BY <3>3 DEF Code
    <3>5. DOMAIN results = Slot
      BY <1>0 DEF FanTyped
    <3>6. /\ results'[i].ctx = targets[i] /\ results'[i].ok = (Err(i) = "nil")
          /\ results'[i].code = Code(Err(i)) /\ DOMAIN results' = Slot
          /\ \A j \in Slot \ {i} : results'[j] = results[j]
      BY <3>1, <3>5
    <3>7. results'[i] # NoResult
      <4>1. CASE Err(i) = "nil"
        <5>1. results'[i].ok = TRUE
          BY <3>6, <4>1
        <5>2. NoResult.ok = FALSE
          BY DEF NoResult
        <5> QED BY <5>1, <5>2
      <4>2. CASE Err(i) # "nil"
        <5>1. results'[i].code # 0
          BY <3>4, <3>6, <4>2
        <5> QED BY <5>1 DEF NoResult
      <4> QED BY <4>1, <4>2
    <3>8. /\ results'[i].ok => kubectl'[i] = "exit0"
          /\ kubectl'[i] = "exit0" /\ ~expired'[i] => results'[i].ok
          /\ results'[i].ok <=> results'[i].code = 0
      BY <3>1, <3>3, <3>4, <3>6, Zenon
    <3>9. /\ step' \in [Slot -> {"start", "wait", "drain", "done"}]
          /\ step'[i] = "done" /\ kubectl'[i] \in {"exit0", "exit1", "killed"}
          /\ \A j \in Slot \ {i} : step'[j] = step[j]
      BY <1>0, <3>1, <3>2 DEF FanTyped
    <3> QED BY <1>0, <1>1, <3>1, <3>6, <3>7, <3>8, <3>9, OneGoroutine DEF FanTyped
  <2>6. ASSUME NEW how \in {"exit0", "exit1"}, KubectlExits(i, how)
        PROVE  FanTyped' /\ GoroutineInv' /\ AnswerKept'
    <3>1. /\ kubectl[i] = "runs" /\ kubectl' = [kubectl EXCEPT ![i] = how]
          /\ UNCHANGED <<step, expired, held, results>>
      BY <2>6 DEF KubectlExits
    <3>2. step[i] = "wait"
      BY <1>0, <3>1 DEF GoroutineInv
    <3> QED BY <1>0, <1>1, <1>3, <3>1, <3>2, OneGoroutine DEF FanTyped
  <2>7. CASE LeavesChild(i) \/ ChildEnds(i)
    <3>1. /\ UNCHANGED <<step, kubectl, expired, results>>
          /\ held' = [held EXCEPT ![i] = TRUE] \/ held' = [held EXCEPT ![i] = FALSE]
      BY <2>7 DEF LeavesChild, ChildEnds
    <3>2. FanTyped'
      BY <1>0, <1>1, <3>1 DEF FanTyped, Slot, listing
    <3>3. GoroutineInv' /\ AnswerKept'
      BY <1>0, <1>1, <3>1 DEF GoroutineInv, AnswerKept, Fanned, Slot, listing
    <3> QED BY <3>2, <3>3
  <2> QED BY <2>1, <2>2, <2>3, <2>4, <2>5, <2>6, <2>7 DEF FanStep, Goroutine
<1> QED BY <1>2, <1>4 DEF ExecIInv

-----------------------------------------------------------------------------
(* Other commands, and the network.                                        *)
LEMMA TunnelsKeep ==
  ASSUME ExecIInv, NEW n \in Name, TunnelOpens(n) \/ TunnelDies(n)
  PROVE  ExecIInv'
PROOF
<1>0. EnvTyped /\ ListTyped /\ (Fanned => FanTyped) /\ ListInv /\ GoroutineInv /\ AnswerKept
  BY DEF ExecIInv
<1>1. UNCHANGED <<listing, fan>> /\ events' \in 0..MaxEvents
      /\ up' \subseteq up \cup {n} /\ steady' \subseteq steady
      /\ lit \subseteq lit' /\ up' \subseteq up \cup lit'
  BY <1>0, ExecAssumption DEF TunnelOpens, TunnelDies, EnvTyped
<1>2. EnvTyped'
  BY <1>0, <1>1 DEF TunnelOpens, TunnelDies, EnvTyped
<1>3. ListTyped' /\ (Fanned' => FanTyped') /\ GoroutineInv' /\ AnswerKept'
  BY <1>0, <1>1 DEF ListTyped, FanTyped, GoroutineInv, AnswerKept, Fanned, Slot,
                    listing, fan
<1>4. ListInv'
  BY <1>0, <1>1 DEF ListInv, First, TargetSet, Fanned, listing
<1> QED BY <1>2, <1>3, <1>4 DEF ExecIInv

LEMMA ExecStep == ASSUME ExecIInv, [Next]_vars PROVE ExecIInv'
PROOF
<1>1. CASE Next
  <2>1. CASE Exec \/ ListStep
    BY <2>1, ListKeeps DEF ListStep
  <2>2. CASE Fanned /\ \E i \in Slot : FanStep(i)
    BY <2>2, GoroutineKeeps
  <2>3. CASE \E n \in Name : TunnelOpens(n) \/ TunnelDies(n)
    BY <2>3, TunnelsKeep
  <2> QED BY <1>1, <2>1, <2>2, <2>3 DEF Next, FanStep
<1>2. CASE UNCHANGED vars
  <2>1. UNCHANGED <<pc, todo, targets, file, up, events, lit, steady>> /\ UNCHANGED fan
    BY <1>2 DEF vars, listing, env, seen
  <2> QED BY <2>1 DEF ExecIInv, EnvTyped, ListTyped, FanTyped, ListInv, GoroutineInv,
                      AnswerKept, First, TargetSet, Fanned, Slot, fan
<1> QED BY <1>1, <1>2

LEMMA ExecInvariant == Spec => []ExecIInv
PROOF BY ListInit, ExecStep, PTL DEF Spec

-----------------------------------------------------------------------------
(* What a listing and the goroutines hold has its type.                    *)
THEOREM FanoutTyped == Spec => []TypeOK
PROOF
<1>1. ExecIInv => TypeOK
  BY TypeParts DEF ExecIInv
<1> QED BY <1>1, ExecInvariant, PTL

(* exec runs in every context whose tunnel was up from the glob on, for    *)
(* any number of pid files and any tunnels opened or lost meanwhile.       *)
THEOREM ExecCoversSteady == Spec => []CoversSteady
PROOF
<1>1. ExecIInv => CoversSteady
  BY DEF ExecIInv, ListInv, CoversSteady
<1> QED BY <1>1, ExecInvariant, PTL

(* It runs nowhere else, but where a name that is no context hashes to the *)
(* port of a context that was up.                                          *)
THEOREM ExecLeavesOthers == Spec => []LeavesOthers
PROOF
<1>1. ExecIInv => LeavesOthers
  BY DEF ExecIInv, ListInv, LeavesOthers
<1> QED BY <1>1, ExecInvariant, PTL

(* When it ends, each target has its own result and no kubectl runs.       *)
THEOREM ExecEndsWithAll == Spec => []EndsWithAll
PROOF
<1>1. ExecIInv => EndsWithAll
  BY DEF ExecIInv, GoroutineInv, EndsWithAll, Fanned
<1> QED BY <1>1, ExecInvariant, PTL

(* A result says what kubectl did, but for a deadline that races its exit. *)
THEOREM ExecAnswerKept == Spec => []AnswerKept
PROOF
<1>1. ExecIInv => AnswerKept
  BY DEF ExecIInv
<1> QED BY <1>1, ExecInvariant, PTL
=============================================================================
