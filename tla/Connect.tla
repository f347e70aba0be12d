-------------------------------- MODULE Connect --------------------------------
(***************************************************************************)
(* The connect command from its arguments to the connection: the NetBird   *)
(* preflight, the resolution of the host, and one connection, or with      *)
(* --all-hosts one per host of a client.  What a connection does is in the *)
(* modules Tunnels, RemoteFileCache, Kubeconfig and ServiceTunnels.        *)
(*                                                                         *)
(* One command asks NetBird up to three times: the preflight, and the      *)
(* catalog once or twice.  In between the daemon and the peers change.     *)
(*                                                                         *)
(* A host of the catalog has a DNS name and no VPN flag, so the network    *)
(* requirement that ConnectCluster derives from it is always empty.        *)
(*                                                                         *)
(* Sources: cli/connect.go, internal/application/usecases/connect.go and   *)
(* inventory.go, internal/infrastructure/netbirdpreflight.go and           *)
(* netbirdcatalog.go, internal/netbird, internal/domain/discovery.go.      *)
(***************************************************************************)
EXTENDS Integers, Sequences, FiniteSets, SequencesExt

CONSTANTS
  Fqdn,        \* the NetBird peers that pass netbird_host_filter
  ClientOf,    \* ClientOf[f]: the second label of the name f
  ContextOf,   \* ContextOf[f]: <client>-<host>, the context of f
  Queries,     \* the identifiers a user gives, each as the peers it matches
  NoContext

Clients  == {ClientOf[f] : f \in Fqdn}
Contexts == {ContextOf[f] : f \in Fqdn}

ASSUME ConnectAssumption ==
  /\ IsFiniteSet(Fqdn) /\ DOMAIN ClientOf = Fqdn /\ DOMAIN ContextOf = Fqdn
  /\ NoContext \notin Contexts /\ Queries \subseteq SUBSET Fqdn

VARIABLES
  binary,    \* the netbird binary is in the PATH
  daemon,    \* the daemon: "down", "hangs", or its status
  peers,     \* peers[f]: the status of peer f, "absent" when not enrolled
  pc,        \* the next step of the command
  cmd,       \* its arguments
  checker,   \* the NetBirdPreflightChecker
  matches,   \* the hosts that the resolution has returned
  targets,   \* the hosts to connect to, in order
  results,   \* the results so far
  seen       \* what `netbird status` said to the checker, and how often
             \* the command has run it

env   == <<binary, daemon, peers>>
local == <<cmd, checker, matches, targets, results, seen>>
vars  == <<env, pc, local>>

-----------------------------------------------------------------------------
DaemonStates == {"down", "hangs", "NeedsLogin", "Connected"}
PeerStates   == {"absent", "Idle", "Connected"}
PeerList     == [Fqdn -> PeerStates]
Nobody       == [f \in Fqdn |-> "absent"]

Steps == {"daemon", "resolve", "find", "list", "peer", "connect", "report"}
Ended == {"idle", "ok", "failed"}

Arguments == [all : BOOLEAN, client : Clients, query : Queries,
              dryRun : BOOLEAN, skip : BOOLEAN]

TypeOK ==
  /\ binary \in BOOLEAN /\ daemon \in DaemonStates /\ peers \in PeerList
  /\ pc \in Steps \cup Ended
  /\ cmd \in Arguments
  /\ checker \in [skipped : BOOLEAN, peers : PeerList]
  /\ matches \subseteq Fqdn
  /\ targets \in Seq(Fqdn)
  /\ results \in Seq([host : Fqdn, ok : BOOLEAN])
  /\ Len(results) <= Len(targets)
  /\ seen \in [daemon : DaemonStates, peers : PeerList, runs : 0..3]

NewChecker == [skipped |-> FALSE, peers |-> Nobody]
NotSeen    == [daemon |-> "down", peers |-> Nobody, runs |-> 0]

Init ==
  /\ binary \in BOOLEAN /\ daemon \in DaemonStates /\ peers \in PeerList
  /\ pc = "idle" /\ cmd \in Arguments
  /\ checker = NewChecker /\ seen = NotSeen
  /\ matches = {} /\ targets = <<>> /\ results = <<>>

(* A command is a process of its own: nothing is left of the one before.   *)
StartConnect ==
  /\ pc \in Ended
  /\ pc' = "daemon" /\ cmd' \in Arguments
  /\ checker' = NewChecker /\ seen' = NotSeen
  /\ matches' = {} /\ targets' = <<>> /\ results' = <<>>
  /\ UNCHANGED env

Fail == pc' = "failed" /\ UNCHANGED <<matches, targets, results>>

-----------------------------------------------------------------------------
(* CheckDaemonReady.  The status command has 3 seconds.                    *)
AfterDaemon == pc' = IF cmd.all THEN "list" ELSE "resolve"

(* Mutant: a daemon that needs a login is let through.                     *)
CheckDaemonLenient ==
  /\ pc = "daemon"
  /\ \/ /\ cmd.skip \/ ~binary
        /\ checker' = [checker EXCEPT !.skipped = TRUE]
        /\ AfterDaemon /\ UNCHANGED seen
     \/ /\ ~cmd.skip /\ binary
        /\ seen' = [daemon |-> daemon, peers |-> peers, runs |-> 1]
        /\ \/ daemon \in {"down", "hangs"} /\ pc' = "failed" /\ UNCHANGED checker
           \/ /\ daemon \in {"NeedsLogin", "Connected"}
              /\ checker' = [checker EXCEPT !.peers = peers] /\ AfterDaemon
  /\ UNCHANGED <<env, cmd, matches, targets, results>>

CheckDaemonReady ==
  /\ pc = "daemon"
  /\ \/ /\ cmd.skip \/ ~binary
        /\ checker' = [checker EXCEPT !.skipped = TRUE]
        /\ AfterDaemon /\ UNCHANGED seen
     \/ /\ ~cmd.skip /\ binary
        /\ seen' = [daemon |-> daemon, peers |-> peers, runs |-> 1]
        /\ \/ daemon \in {"down", "hangs"} /\ pc' = "failed" /\ UNCHANGED checker
           \/ /\ daemon \in {"NeedsLogin", "Connected"}
              /\ checker' = [checker EXCEPT !.peers = peers]
              /\ \/ daemon = "NeedsLogin" /\ pc' = "failed"
                 \/ daemon = "Connected" /\ AfterDaemon
  /\ UNCHANGED <<env, cmd, matches, targets, results>>

(* fetchPeers: `netbird up`, whose outcome is ignored and which may bring  *)
(* the daemon up, then `netbird status`, without a deadline.  A daemon     *)
(* that hangs keeps the command where it is; one that is not connected has *)
(* no peers to list.                                                       *)
FetchPeers(d) ==
  /\ d \in {daemon, "Connected"} /\ d # "hangs"
  /\ ~binary => d = daemon
  /\ daemon' = d /\ UNCHANGED <<binary, peers>>
  /\ seen' = [seen EXCEPT !.runs = @ + 1]

Listed(d)      == IF d = "Connected" THEN {f \in Fqdn : peers[f] # "absent"}
                                     ELSE {}
ListFails(d)   == ~binary \/ d = "down"

-----------------------------------------------------------------------------
(* Mutant: of several matches the first is taken.                          *)
ResolveFirst ==
  /\ pc = "resolve"
  /\ \E d \in DaemonStates :
       /\ FetchPeers(d)
       /\ \/ /\ ListFails(d) \/ Listed(d) \cap cmd.query = {}
             /\ Fail
          \/ /\ ~ListFails(d) /\ Listed(d) \cap cmd.query # {}
             /\ matches' = Listed(d) \cap cmd.query
             /\ pc' = "find" /\ UNCHANGED <<targets, results>>
  /\ UNCHANGED <<cmd, checker>>

(* ResolveHost: exactly one host of the catalog matches.                   *)
ResolveHost ==
  /\ pc = "resolve"
  /\ \E d \in DaemonStates :
       /\ FetchPeers(d)
       /\ \/ /\ ListFails(d) \/ Cardinality(Listed(d) \cap cmd.query) # 1
             /\ Fail
          \/ /\ ~ListFails(d) /\ Cardinality(Listed(d) \cap cmd.query) = 1
             /\ matches' = Listed(d) \cap cmd.query
             /\ pc' = "find" /\ UNCHANGED <<targets, results>>
  /\ UNCHANGED <<cmd, checker>>

Resolved == IF matches = {} THEN NoContext
            ELSE ContextOf[CHOOSE f \in matches : TRUE]

(* FindTargetByContextName: the first host of the catalog, listed again,   *)
(* that has the context which was resolved.  --dry-run ends here.          *)
FindTarget ==
  /\ pc = "find"
  /\ \E d \in DaemonStates :
       LET found == {f \in Listed(d) : ContextOf[f] = Resolved} IN
       /\ FetchPeers(d)
       /\ \/ (ListFails(d) \/ found = {}) /\ Fail
          \/ /\ ~ListFails(d)
             /\ \E f \in found : targets' = <<f>>
             /\ pc' = IF cmd.dryRun THEN "ok" ELSE "peer"
             /\ UNCHANGED <<matches, results>>
  /\ UNCHANGED <<cmd, checker>>

(* FindTargetsByClient, for --all-hosts; the order is that of NetBird.     *)
FindTargets ==
  /\ pc = "list"
  /\ \E d \in DaemonStates :
       LET found == {f \in Listed(d) : ClientOf[f] = cmd.client} IN
       /\ FetchPeers(d)
       /\ \/ (ListFails(d) \/ found = {}) /\ Fail
          \/ /\ ~ListFails(d) /\ found # {}
             /\ targets' \in SetToSeqs(found)
             /\ pc' = "peer" /\ UNCHANGED <<matches, results>>
  /\ UNCHANGED <<cmd, checker>>

-----------------------------------------------------------------------------
(* ConnectMultiple, and ConnectCluster of one host: a target after the     *)
(* other, whatever becomes of each.                                        *)
Target == targets[Len(results) + 1]

(* Mutant: the first failure ends the loop.                                *)
AddResultStops(ok) ==
  /\ results' = Append(results, [host |-> Target, ok |-> ok])
  /\ pc' = IF ok /\ Len(results) + 1 < Len(targets) THEN "peer" ELSE "report"
  /\ UNCHANGED <<env, cmd, checker, matches, targets, seen>>

AddResult(ok) ==
  /\ results' = Append(results, [host |-> Target, ok |-> ok])
  /\ pc' = IF Len(results) + 1 < Len(targets) THEN "peer" ELSE "report"
  /\ UNCHANGED <<env, cmd, checker, matches, targets, seen>>

(* Mutant: the checker asks NetBird again for every host.                  *)
CheckPeerAsks ==
  /\ pc = "peer"
  /\ \/ /\ checker.skipped
        /\ pc' = "connect" /\ UNCHANGED <<env, local>>
     \/ /\ ~checker.skipped /\ peers[Target] = "Connected"
        /\ seen' = [seen EXCEPT !.peers = peers, !.runs = @ + 1]
        /\ pc' = "connect"
        /\ UNCHANGED <<env, cmd, checker, matches, targets, results>>
     \/ /\ ~checker.skipped /\ peers[Target] # "Connected"
        /\ AddResult(FALSE)

(* CheckPeerReady, in the list the checker has kept.                       *)
CheckPeerReady ==
  /\ pc = "peer"
  /\ \/ /\ checker.skipped \/ checker.peers[Target] = "Connected"
        /\ pc' = "connect" /\ UNCHANGED <<env, local>>
     \/ /\ ~checker.skipped /\ checker.peers[Target] # "Connected"
        /\ AddResult(FALSE)

ConnectHost == pc = "connect" /\ \E ok \in BOOLEAN : AddResult(ok)

(* --all-hosts reports and succeeds whatever the results are.              *)
Report ==
  /\ pc = "report"
  /\ pc' = IF cmd.all \/ results[1].ok THEN "ok" ELSE "failed"
  /\ UNCHANGED <<env, local>>

-----------------------------------------------------------------------------
DaemonChanges == daemon' \in DaemonStates /\ UNCHANGED <<binary, peers, pc, local>>
PeerChanges ==
  /\ \E f \in Fqdn : \E s \in PeerStates : peers' = [peers EXCEPT ![f] = s]
  /\ UNCHANGED <<binary, daemon, pc, local>>

Command == \/ StartConnect \/ CheckDaemonReady \/ ResolveHost \/ FindTarget
           \/ FindTargets \/ CheckPeerReady \/ ConnectHost \/ Report
Next == Command \/ DaemonChanges \/ PeerChanges

Spec == Init /\ [][Next]_vars

-----------------------------------------------------------------------------
(* Properties.                                                             *)

(* No connection is attempted to a host that NetBird has not reported      *)
(* connected, by a connected daemon, to this command, unless the user said *)
(* --skip-netbird-check or has no netbird (CheckDaemonReady and            *)
(* CheckPeerReady), though the catalog is listed later than the peers are. *)
ConnectsToReadyPeers ==
  pc = "connect" /\ ~cmd.skip /\ binary =>
    seen.daemon = "Connected" /\ seen.peers[Target] = "Connected"

(* "connect succeeds only when the resolver finds one unique host"         *)
(* (README.md:65), and what it connects to has the context of that host,   *)
(* though the catalog is listed twice and may differ.  It may be another   *)
(* host with that context (acme + us-1 and acme-us + 1).                   *)
ConnectsToUniqueContext ==
  pc = "connect" /\ ~cmd.all =>
    /\ Cardinality(matches) = 1 /\ matches \subseteq cmd.query
    /\ ContextOf[Target] = Resolved

(* --all-hosts reports every host of the client once, in order, the ones   *)
(* that failed included (ConnectMultiple), and only hosts of that client.  *)
AllHostsReportsEach ==
  pc = "report" =>
    /\ [i \in DOMAIN results |-> results[i].host] = targets
    /\ cmd.all => /\ \A i \in DOMAIN targets : ClientOf[targets[i]] = cmd.client
                  /\ \A i, j \in DOMAIN targets :
                       targets[i] = targets[j] => i = j
=============================================================================
