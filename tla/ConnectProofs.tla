---------------------------- MODULE ConnectProofs ----------------------------
(***************************************************************************)
(* connect reaches only hosts that NetBird reported ready and that the     *)
(* user meant, and reports each of them, for any peers and identifiers.    *)
(***************************************************************************)
EXTENDS Connect, FiniteSetTheorems, TLAPS

-----------------------------------------------------------------------------
(* How often the command has run `netbird status` by the time of a step.   *)
RunsSoFar ==
  /\ pc = "daemon" => seen.runs = 0
  /\ pc \in {"resolve", "list"} => seen.runs <= 1
  /\ pc = "find" => seen.runs <= 2

(* After the preflight the checker keeps the list that NetBird gave it.    *)
Connecting == {"peer", "connect", "report"}
CheckerInv ==
  /\ pc = "daemon" => ~checker.skipped
  /\ pc \in {"resolve", "list", "find"} \cup Connecting =>
       /\ checker.skipped => cmd.skip \/ ~binary
       /\ ~checker.skipped =>
            /\ seen.daemon = "Connected" /\ checker.peers = seen.peers
            /\ pc = "connect" => seen.peers[Target] = "Connected"

(* What was resolved, and what the targets have to do with it.             *)
TargetsInv ==
  /\ pc \in {"resolve", "find"} => ~cmd.all
  /\ pc = "list" => cmd.all
  /\ pc \in {"find"} \cup Connecting /\ ~cmd.all =>
       Cardinality(matches) = 1 /\ matches \subseteq cmd.query
  /\ pc \in Connecting /\ ~cmd.all =>
       Len(targets) = 1 /\ ContextOf[targets[1]] = Resolved
  /\ pc \in Connecting /\ cmd.all =>
       /\ \A i \in DOMAIN targets : ClientOf[targets[i]] = cmd.client
       /\ \A i, j \in DOMAIN targets : targets[i] = targets[j] => i = j

(* The results so far are those of the first targets.                      *)
ResultsInv ==
  /\ pc \notin Connecting \cup {"ok", "failed"} => results = <<>>
  /\ pc \in {"peer", "connect"} => Len(results) < Len(targets)
  /\ pc = "report" => Len(results) = Len(targets)
  /\ pc \in Connecting =>
       \A i \in DOMAIN results : results[i].host = targets[i]

ConnectIInv == TypeOK /\ RunsSoFar /\ CheckerInv /\ TargetsInv /\ ResultsInv

-----------------------------------------------------------------------------
LEMMA TargetType ==
  ASSUME TypeOK, Len(results) < Len(targets)
  PROVE  Target \in Fqdn /\ Len(results) + 1 \in DOMAIN targets
PROOF
<1>1. Len(results) \in Nat /\ Len(targets) \in Nat /\ DOMAIN targets = 1..Len(targets)
  BY DEF TypeOK
<1> QED BY <1>1 DEF TypeOK, Target

LEMMA ConnectInit == ASSUME Init PROVE ConnectIInv
PROOF
<1>1. TypeOK
  <2>1. checker \in [skipped : BOOLEAN, peers : PeerList]
        /\ seen \in [daemon : DaemonStates, peers : PeerList, runs : 0..3]
    BY DEF Init, NewChecker, NotSeen, Nobody, PeerList, PeerStates, DaemonStates
  <2> QED BY <2>1 DEF Init, TypeOK, Ended, PeerList, DaemonStates
<1>2. RunsSoFar /\ CheckerInv /\ TargetsInv /\ ResultsInv
  BY DEF Init, RunsSoFar, CheckerInv, TargetsInv, ResultsInv, Connecting
<1> QED BY <1>1, <1>2 DEF ConnectIInv

(* The result of a target, whatever it is.                                 *)
LEMMA AddResultKeeps ==
  ASSUME ConnectIInv, pc \in {"peer", "connect"},
         NEW ok \in BOOLEAN, AddResult(ok)
  PROVE  ConnectIInv'
PROOF
<1>0. TypeOK /\ CheckerInv /\ TargetsInv /\ ResultsInv
  BY DEF ConnectIInv
<1>1. Target \in Fqdn /\ Len(results) < Len(targets)
  BY <1>0, TargetType DEF ResultsInv
<1>2. /\ results' = Append(results, [host |-> Target, ok |-> ok])
      /\ results \in Seq([host : Fqdn, ok : BOOLEAN])
      /\ [host |-> Target, ok |-> ok] \in [host : Fqdn, ok : BOOLEAN]
  BY <1>0, <1>1 DEF AddResult, TypeOK
<1>3. /\ Len(results) \in Nat /\ Len(targets) \in Nat
      /\ results' \in Seq([host : Fqdn, ok : BOOLEAN])
      /\ Len(results') = Len(results) + 1
      /\ DOMAIN results' = 1..(Len(results) + 1)
      /\ \A i \in DOMAIN results : results'[i] = results[i]
      /\ results'[Len(results) + 1] = [host |-> Target, ok |-> ok]
      /\ DOMAIN results = 1..Len(results)
  BY <1>0, <1>2 DEF TypeOK
<1>4. /\ UNCHANGED <<env, cmd, checker, matches, targets, seen>>
      /\ pc' = IF Len(results) + 1 < Len(targets) THEN "peer" ELSE "report"
      /\ pc' \in {"peer", "report"}
  BY DEF AddResult
<1>5. TypeOK'
  BY <1>0, <1>1, <1>3, <1>4 DEF TypeOK, Steps, env
<1>6. RunsSoFar' /\ CheckerInv' /\ TargetsInv'
  BY <1>0, <1>4 DEF RunsSoFar, CheckerInv, TargetsInv, Connecting, Resolved, env
<1>7. ResultsInv'
  <2>1. \A i \in DOMAIN results' : results'[i].host = targets'[i]
    BY <1>0, <1>3, <1>4 DEF ResultsInv, Connecting, Target
  <2> QED BY <1>1, <1>3, <1>4, <2>1 DEF ResultsInv, Connecting
<1> QED BY <1>5, <1>6, <1>7 DEF ConnectIInv

-----------------------------------------------------------------------------
(* The resolution: the catalog, listed once more.                          *)
LEMMA FetchKeeps ==
  ASSUME TypeOK, NEW d \in DaemonStates, FetchPeers(d), seen.runs <= 2
  PROVE  /\ UNCHANGED <<binary, peers>> /\ daemon' \in DaemonStates
         /\ seen' \in [daemon : DaemonStates, peers : PeerList, runs : 0..3]
         /\ seen'.runs = seen.runs + 1
         /\ seen'.daemon = seen.daemon /\ seen'.peers = seen.peers
         /\ Listed(d) \subseteq Fqdn
PROOF
BY DEF FetchPeers, TypeOK, Listed

LEMMA ResolveKeeps == ASSUME ConnectIInv, ResolveHost PROVE ConnectIInv'
PROOF
<1>0. TypeOK /\ RunsSoFar /\ CheckerInv /\ TargetsInv /\ ResultsInv /\ pc = "resolve"
  BY DEF ConnectIInv, ResolveHost
<1>1. PICK d \in DaemonStates :
        /\ FetchPeers(d)
        /\ UNCHANGED <<targets, results, cmd, checker>>
        /\ \/ pc' = "failed" /\ UNCHANGED matches
           \/ /\ pc' = "find" /\ matches' = Listed(d) \cap cmd.query
              /\ Cardinality(matches') = 1
  BY DEF ResolveHost, Fail
<1>2. seen.runs <= 1 /\ seen.runs \in 0..3
  BY <1>0 DEF RunsSoFar, TypeOK
<1>3. /\ UNCHANGED <<binary, peers>> /\ daemon' \in DaemonStates
      /\ seen' \in [daemon : DaemonStates, peers : PeerList, runs : 0..3]
      /\ seen'.runs = seen.runs + 1
      /\ seen'.daemon = seen.daemon /\ seen'.peers = seen.peers
      /\ Listed(d) \subseteq Fqdn
  BY <1>0, <1>1, <1>2, FetchKeeps
<1>4. TypeOK'
  BY <1>0, <1>1, <1>3 DEF TypeOK, Steps, Ended
<1>5. RunsSoFar' /\ CheckerInv' /\ TargetsInv' /\ ResultsInv'
  BY <1>0, <1>1, <1>2, <1>3 DEF RunsSoFar, CheckerInv, TargetsInv, ResultsInv, Connecting
<1> QED BY <1>4, <1>5 DEF ConnectIInv

LEMMA FindTargetKeeps == ASSUME ConnectIInv, FindTarget PROVE ConnectIInv'
PROOF
<1>0. TypeOK /\ RunsSoFar /\ CheckerInv /\ TargetsInv /\ ResultsInv /\ pc = "find"
  BY DEF ConnectIInv, FindTarget
<1>1. PICK d \in DaemonStates :
        /\ FetchPeers(d)
        /\ UNCHANGED <<matches, results, cmd, checker>>
        /\ \/ pc' = "failed" /\ UNCHANGED targets
           \/ /\ pc' \in {"ok", "peer"}
              /\ \E f \in Listed(d) : ContextOf[f] = Resolved /\ targets' = <<f>>
  BY DEF FindTarget, Fail
<1>2. seen.runs <= 2 /\ results = <<>>
  BY <1>0 DEF RunsSoFar, ResultsInv, Connecting
<1>3. /\ UNCHANGED <<binary, peers>> /\ daemon' \in DaemonStates
      /\ seen' \in [daemon : DaemonStates, peers : PeerList, runs : 0..3]
      /\ seen'.daemon = seen.daemon /\ seen'.peers = seen.peers
      /\ Listed(d) \subseteq Fqdn
  BY <1>0, <1>1, <1>2, FetchKeeps
<1>4. pc' # "failed" =>
        /\ targets' \in Seq(Fqdn) /\ Len(targets') = 1
        /\ ContextOf[targets'[1]] = Resolved
  <2> SUFFICES ASSUME pc' # "failed"
               PROVE  /\ targets' \in Seq(Fqdn) /\ Len(targets') = 1
                      /\ ContextOf[targets'[1]] = Resolved
    OBVIOUS
  <2>1. PICK f \in Listed(d) : ContextOf[f] = Resolved /\ targets' = <<f>>
    BY <1>1
  <2>2. f \in Fqdn
    BY <1>3, <2>1
  <2>3. <<f>> \in Seq(Fqdn) /\ Len(<<f>>) = 1 /\ <<f>>[1] = f
    BY <2>2
  <2> QED BY <2>1, <2>3
<1>5. TypeOK'
  BY <1>0, <1>1, <1>2, <1>3, <1>4 DEF TypeOK, Steps, Ended
<1>6. Resolved' = Resolved
  BY <1>1 DEF Resolved
<1>7. RunsSoFar' /\ CheckerInv' /\ TargetsInv' /\ ResultsInv'
  BY <1>0, <1>1, <1>2, <1>3, <1>4, <1>6
     DEF RunsSoFar, CheckerInv, TargetsInv, ResultsInv, Connecting
<1> QED BY <1>5, <1>7 DEF ConnectIInv

LEMMA FindTargetsKeeps == ASSUME ConnectIInv, FindTargets PROVE ConnectIInv'
PROOF
<1>0. TypeOK /\ RunsSoFar /\ CheckerInv /\ TargetsInv /\ ResultsInv /\ pc = "list"
  BY DEF ConnectIInv, FindTargets
<1>1. PICK d \in DaemonStates :
        LET found == {f \in Listed(d) : ClientOf[f] = cmd.client} IN
        /\ FetchPeers(d)
        /\ UNCHANGED <<matches, results, cmd, checker>>
        /\ \/ pc' = "failed" /\ UNCHANGED targets
           \/ pc' = "peer" /\ found # {} /\ targets' \in SetToSeqs(found)
  BY DEF FindTargets, Fail
<1>2. seen.runs <= 1 /\ seen.runs \in 0..3 /\ results = <<>> /\ cmd.all
  BY <1>0 DEF RunsSoFar, TypeOK, ResultsInv, TargetsInv, Connecting
<1>3. /\ UNCHANGED <<binary, peers>> /\ daemon' \in DaemonStates
      /\ seen' \in [daemon : DaemonStates, peers : PeerList, runs : 0..3]
      /\ seen'.daemon = seen.daemon /\ seen'.peers = seen.peers
      /\ Listed(d) \subseteq Fqdn
  BY <1>0, <1>1, <1>2, FetchKeeps
<1>4. pc' # "failed" =>
        /\ targets' \in Seq(Fqdn) /\ Len(targets') > 0
        /\ \A i \in DOMAIN targets' : ClientOf[targets'[i]] = cmd.client
        /\ \A i, j \in DOMAIN targets' : targets'[i] = targets'[j] => i = j
  <2> SUFFICES ASSUME pc' # "failed"
               PROVE  /\ targets' \in Seq(Fqdn) /\ Len(targets') > 0
                      /\ \A i \in DOMAIN targets' : ClientOf[targets'[i]] = cmd.client
                      /\ \A i, j \in DOMAIN targets' : targets'[i] = targets'[j] => i = j
    OBVIOUS
  <2> DEFINE found == {f \in Listed(d) : ClientOf[f] = cmd.client}
  <2>1. found # {} /\ targets' \in SetToSeqs(found) /\ found \subseteq Fqdn
    BY <1>1, <1>3
  <2>2. IsFiniteSet(found)
    BY <2>1, ConnectAssumption, FS_Subset
  <2>3. Cardinality(found) \in Nat /\ Cardinality(found) # 0
    BY <2>1, <2>2, FS_CardinalityType, FS_EmptySet
  <2>4. /\ targets' \in [1..Cardinality(found) -> found]
        /\ \A i, j \in 1..Cardinality(found) : i # j => targets'[i] # targets'[j]
    BY <2>1 DEF SetToSeqs
  <2>5. targets' \in Seq(Fqdn) /\ Len(targets') = Cardinality(found)
    BY <2>1, <2>3, <2>4
  <2> QED BY <2>3, <2>4, <2>5
<1>5. TypeOK'
  BY <1>0, <1>1, <1>2, <1>3, <1>4 DEF TypeOK, Steps, Ended
<1>6. RunsSoFar' /\ CheckerInv' /\ TargetsInv' /\ ResultsInv'
  BY <1>0, <1>1, <1>2, <1>3, <1>4
     DEF RunsSoFar, CheckerInv, TargetsInv, ResultsInv, Connecting
<1> QED BY <1>5, <1>6 DEF ConnectIInv

-----------------------------------------------------------------------------
LEMMA DaemonCheckKeeps == ASSUME ConnectIInv, CheckDaemonReady PROVE ConnectIInv'
PROOF
<1>0. TypeOK /\ RunsSoFar /\ ResultsInv /\ pc = "daemon"
  BY DEF ConnectIInv, CheckDaemonReady
<1>1. UNCHANGED <<env, cmd, matches, targets, results>> /\ results = <<>>
  BY <1>0 DEF CheckDaemonReady, ResultsInv, Connecting
<1>2. \/ /\ cmd.skip \/ ~binary
         /\ checker' = [checker EXCEPT !.skipped = TRUE] /\ UNCHANGED seen
      \/ /\ seen' = [daemon |-> daemon, peers |-> peers, runs |-> 1]
         /\ \/ pc' = "failed" /\ UNCHANGED checker
            \/ checker' = [checker EXCEPT !.peers = peers] /\ pc' = "failed"
            \/ checker' = [checker EXCEPT !.peers = peers] /\ daemon = "Connected"
  BY DEF CheckDaemonReady, AfterDaemon
<1>3. pc' \in {"list", "resolve", "failed"}
      /\ (pc' = "list" => cmd.all) /\ (pc' = "resolve" => ~cmd.all)
  BY DEF CheckDaemonReady, AfterDaemon
<1>4. TypeOK'
  <2>1. checker' \in [skipped : BOOLEAN, peers : PeerList]
    BY <1>0, <1>2 DEF TypeOK
  <2>2. seen' \in [daemon : DaemonStates, peers : PeerList, runs : 0..3]
    BY <1>0, <1>2 DEF TypeOK
  <2> QED BY <1>0, <1>1, <1>3, <2>1, <2>2 DEF TypeOK, Steps, Ended, env
<1>5. RunsSoFar'
  BY <1>0, <1>2, <1>3 DEF RunsSoFar
<1>6. CheckerInv'
  <2>1. CASE pc' = "failed"
    BY <2>1 DEF CheckerInv, Connecting
  <2>2. CASE (cmd.skip \/ ~binary) /\ UNCHANGED seen
             /\ checker' = [checker EXCEPT !.skipped = TRUE]
    <3>1. checker'.skipped = TRUE
      BY <1>0, <2>2 DEF TypeOK
    <3> QED BY <1>1, <1>3, <2>2, <3>1 DEF CheckerInv, Connecting, env
  <2>3. CASE /\ pc' # "failed" /\ daemon = "Connected"
             /\ seen' = [daemon |-> daemon, peers |-> peers, runs |-> 1]
             /\ checker' = [checker EXCEPT !.peers = peers]
    <3>1. /\ seen'.daemon = "Connected" /\ checker'.peers = seen'.peers
          /\ checker'.skipped = checker.skipped
      BY <1>0, <2>3 DEF TypeOK
    <3>2. ~checker.skipped
      BY <1>0 DEF ConnectIInv, CheckerInv
    <3> QED BY <1>3, <3>1, <3>2 DEF CheckerInv, Connecting
  <2> QED BY <1>2, <2>1, <2>2, <2>3
<1>7. TargetsInv' /\ ResultsInv'
  BY <1>1, <1>3 DEF TargetsInv, ResultsInv, Connecting
<1> QED BY <1>4, <1>5, <1>6, <1>7 DEF ConnectIInv

-----------------------------------------------------------------------------
(* A command that starts or ends, and one that goes from target to target. *)
LEMMA StartKeeps == ASSUME ConnectIInv, StartConnect PROVE ConnectIInv'
PROOF
<1>1. /\ pc' = "daemon" /\ cmd' \in Arguments /\ UNCHANGED env
      /\ checker' = NewChecker /\ seen' = NotSeen
      /\ matches' = {} /\ targets' = <<>> /\ results' = <<>>
  BY DEF StartConnect
<1>2. /\ checker' \in [skipped : BOOLEAN, peers : PeerList]
      /\ seen' \in [daemon : DaemonStates, peers : PeerList, runs : 0..3]
      /\ seen'.runs = 0 /\ ~checker'.skipped
  BY <1>1 DEF NewChecker, NotSeen, Nobody, PeerList, PeerStates, DaemonStates
<1>3. TypeOK'
  BY <1>1, <1>2 DEF ConnectIInv, TypeOK, Steps, env
<1>4. RunsSoFar' /\ CheckerInv' /\ TargetsInv' /\ ResultsInv'
  BY <1>1, <1>2 DEF RunsSoFar, CheckerInv, TargetsInv, ResultsInv, Connecting
<1> QED BY <1>3, <1>4 DEF ConnectIInv

LEMMA CheckPeerKeeps == ASSUME ConnectIInv, CheckPeerReady PROVE ConnectIInv'
PROOF
<1>1. CASE AddResult(FALSE)
  BY <1>1, AddResultKeeps DEF CheckPeerReady
<1>2. CASE ~AddResult(FALSE)
  <2>1. /\ pc = "peer" /\ pc' = "connect" /\ UNCHANGED <<env, local>>
        /\ checker.skipped \/ checker.peers[Target] = "Connected"
    BY <1>2 DEF CheckPeerReady
  <2>2. /\ UNCHANGED <<binary, daemon, peers, cmd, checker, matches, targets, results, seen>>
        /\ Target' = Target /\ Resolved' = Resolved
    BY <2>1 DEF env, local, Target, Resolved
  <2> QED BY <2>1, <2>2 DEF ConnectIInv, TypeOK, Steps, RunsSoFar, CheckerInv,
                            TargetsInv, ResultsInv, Connecting
<1> QED BY <1>1, <1>2

LEMMA ConnectHostKeeps == ASSUME ConnectIInv, ConnectHost PROVE ConnectIInv'
PROOF BY AddResultKeeps DEF ConnectHost

LEMMA ReportKeeps == ASSUME ConnectIInv, Report PROVE ConnectIInv'
PROOF
<1>1. pc' \in {"ok", "failed"}
      /\ UNCHANGED <<binary, daemon, peers, cmd, checker, matches, targets, results, seen>>
  BY DEF Report, env, local
<1> QED BY <1>1 DEF ConnectIInv, TypeOK, Ended, RunsSoFar, CheckerInv, TargetsInv,
                    ResultsInv, Connecting

(* NetBird changes what the command has not asked yet.                     *)
LEMMA NetBirdKeeps ==
  ASSUME ConnectIInv, DaemonChanges \/ PeerChanges
  PROVE  ConnectIInv'
PROOF
<1>1. /\ UNCHANGED <<binary, pc, cmd, checker, matches, targets, results, seen>>
      /\ daemon' \in DaemonStates /\ peers' \in PeerList
  BY DEF DaemonChanges, PeerChanges, local, ConnectIInv, TypeOK, PeerList
<1>2. Target' = Target /\ Resolved' = Resolved
  BY <1>1 DEF Target, Resolved
<1> QED BY <1>1, <1>2 DEF ConnectIInv, TypeOK, RunsSoFar, CheckerInv, TargetsInv,
                          ResultsInv

LEMMA ConnectStep == ASSUME ConnectIInv, [Next]_vars PROVE ConnectIInv'
PROOF
<1>1. CASE Next
  BY <1>1, StartKeeps, DaemonCheckKeeps, ResolveKeeps, FindTargetKeeps,
     FindTargetsKeeps, CheckPeerKeeps, ConnectHostKeeps, ReportKeeps, NetBirdKeeps
     DEF Next, Command
<1>2. CASE UNCHANGED vars
  <2>1. UNCHANGED <<binary, daemon, peers, pc, cmd, checker, matches, targets, results, seen>>
        /\ Target' = Target /\ Resolved' = Resolved
    BY <1>2 DEF vars, env, local, Target, Resolved
  <2> QED BY <2>1 DEF ConnectIInv, TypeOK, RunsSoFar, CheckerInv, TargetsInv, ResultsInv
<1> QED BY <1>1, <1>2

LEMMA ConnectInvariant == Spec => []ConnectIInv
PROOF BY ConnectInit, ConnectStep, PTL DEF Spec

-----------------------------------------------------------------------------
(* The state of a command has its type: no command asks NetBird more than  *)
(* three times, and none has more results than targets.                    *)
THEOREM ConnectTyped == Spec => []TypeOK
PROOF
<1>1. ConnectIInv => TypeOK
  BY DEF ConnectIInv
<1> QED BY <1>1, ConnectInvariant, PTL

(* Only hosts that NetBird reported connected are connected to, for any    *)
(* peers and any change of them between the three times it is asked.       *)
THEOREM ConnectReachesReadyPeers == Spec => []ConnectsToReadyPeers
PROOF
<1>1. ConnectIInv => ConnectsToReadyPeers
  BY DEF ConnectIInv, CheckerInv, Connecting, ConnectsToReadyPeers
<1> QED BY <1>1, ConnectInvariant, PTL

(* What is connected to has the context of the one host that was resolved. *)
THEOREM ConnectReachesUniqueContext == Spec => []ConnectsToUniqueContext
PROOF
<1>1. ASSUME ConnectIInv PROVE ConnectsToUniqueContext
  <2>1. CASE pc = "connect" /\ ~cmd.all
    <3>1. /\ Cardinality(matches) = 1 /\ matches \subseteq cmd.query
          /\ Len(targets) = 1 /\ ContextOf[targets[1]] = Resolved
          /\ Len(results) < Len(targets) /\ Len(results) \in Nat
      BY <1>1, <2>1 DEF ConnectIInv, TargetsInv, ResultsInv, Connecting, TypeOK
    <3>2. Target = targets[1]
      BY <3>1 DEF Target
    <3> QED BY <3>1, <3>2 DEF ConnectsToUniqueContext
  <2> QED BY <2>1 DEF ConnectsToUniqueContext
<1> QED BY <1>1, ConnectInvariant, PTL

(* --all-hosts reports every host of the client once and in order.         *)
THEOREM AllHostsReported == Spec => []AllHostsReportsEach
PROOF
<1>1. ASSUME ConnectIInv PROVE AllHostsReportsEach
  <2>1. CASE pc = "report"
    <3>1. /\ Len(results) = Len(targets)
          /\ results \in Seq([host : Fqdn, ok : BOOLEAN]) /\ targets \in Seq(Fqdn)
          /\ \A i \in DOMAIN results : results[i].host = targets[i]
      BY <1>1, <2>1 DEF ConnectIInv, ResultsInv, Connecting, TypeOK
    <3>2. [i \in DOMAIN results |-> results[i].host] = targets
      BY <3>1
    <3>3. cmd.all => /\ \A i \in DOMAIN targets : ClientOf[targets[i]] = cmd.client
                     /\ \A i, j \in DOMAIN targets : targets[i] = targets[j] => i = j
      BY <1>1, <2>1 DEF ConnectIInv, TargetsInv, Connecting
    <3> QED BY <3>2, <3>3 DEF AllHostsReportsEach
  <2> QED BY <2>1 DEF AllHostsReportsEach
<1> QED BY <1>1, ConnectInvariant, PTL
=============================================================================
