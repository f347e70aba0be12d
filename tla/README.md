# A TLA+ model of k3ctx

k3ctx is a command line tool that connects a workstation to K3s clusters behind a NetBird
network: it resolves a host, fetches the kubeconfig of its cluster over SSH, opens an SSH tunnel
in the background, merges the kubeconfig into `~/.kube/config` and opens tunnels to ArgoCD,
Alertmanager and VictoriaMetrics. There is no daemon. **Every invocation is a process of its own;
what invocations share are files, local ports, background `ssh` and `kubectl` processes, a
NetBird daemon and remote clusters, and nothing locks any of them.** That is what this project is
about: what stays true when commands overlap, are killed between two of their steps, or find that
the file, process or peer they looked at has changed.

Paths below are relative to the repository's root.

## 1. The system: an inventory

| component | state it keeps | operations | interacts with |
|---|---|---|---|
| managed tunnels (`internal/tunnel`) | `<ctx>.pid`, `<ctx>.conn.json`, background ssh, local ports | create, check, kill, kill-all, reconnect | every command, by files and signals |
| cluster connector (`infrastructure/cluster*.go`) | none of its own | fast path, ssh check, kubeconfig, tunnel, API poll, merge, auxiliary tunnels | all the others, in that order |
| auxiliary tunnels (`argocd.go`, `alertmanager.go`, `victoriametrics.go`) | `<ctx>-argocd.pid` etc., ssh and `kubectl port-forward` processes | Setup of each, reuse, login | the tunnel state directory |
| service discovery (same files) | none, a pure function of a list of Services | rank, pick | auxiliary tunnels |
| user kubeconfig (`internal/kubeconfig`, `contextswitcher.go`) | `~/.kube/config`, `config.bak` | merge, backup, switch | the user and kubectl write it too |
| remote kubeconfig cache (`internal/ssh`) | one copy per context | hash, compare, read, download, store | the host, which may rewrite the file |
| telemetry log (`internal/telemetry`, `cli/root.go`) | `telemetry.jsonl`, `.1`, ... | open at start, append at end, rotate, tail, stats | every command of the CLI |
| connect command and preflight (`cli/connect.go`, `netbirdpreflight.go`, `netbirdcatalog.go`, `usecases/connect.go`) | the list of peers, for one command | preflight, resolve, dry run, all hosts | NetBird, asked up to three times |
| status and tunnel commands (`cli/tunnel.go`, `status.go`, `statusreader.go`) | none | list, kill, reconnect | the tunnel state directory |
| host catalog and resolution (`netbirdcatalog.go`, `usecases/discovery.go`, `domain/discovery.go`, `cli/hosts.go`, `cli/clients.go`) | none; the cursor that the user hands on | match, resolve, page | NetBird, asked anew for every page |
| exec fan-out (`cli/exec.go`, `usecases/exec.go`, `infrastructure/exec.go`) | one result per goroutine | list the live tunnels, run kubectl in each, collect | the tunnel state directory, kubectl |
| network requirements, configuration, paths, wiring, output | none | read once, print | |

What makes each hard, and what makes it correct:

- *Managed tunnels.* A pid file is read, the process is signalled, and the file removed in three
  steps; a tunnel is started, looked up with `pgrep`, and written to its file in three more. In
  between tunnels die, stall, recover and exit late after SIGTERM, other commands do the same, and
  invocations are killed. Correct: no tunnel is lost, none is doubled, a kill leaves none and hits
  no other context's, and every command ends.
- *User kubeconfig.* Read, back up, truncate, write, without a lock and not atomically, then
  kubectl switches the context. Correct: the user's entries survive, what was fetched is what is
  selected, the file never selects what it lacks, and the backup has what a failed write lost.
- *Telemetry.* A file stays open over the whole command while others rotate the names; rotation is
  a chain of renames. Correct: no gap, right order, bounded files, rotation of full files only.
- *Cache.* Hash and content are fetched in different SSH sessions. Correct: what is returned is
  what the host had during the call.
- *Auxiliary tunnels.* Best effort, many failure paths, reused by name, ports that collide. Correct:
  each can be found and killed, and no port reported belongs to another context.
- *Discovery.* Two ranks, a stable order and a second transport. Correct: what is picked can be
  reached, and a lesser Service that appears never moves the pick.
- *Connect.* Preflight, resolution and target lookup see different lists. Correct: a connection is
  attempted only to a ready peer and to the one resolved context, and `--all-hosts` reports each.

- *Host pages.* Every page is cut from a list of its own, and only a name links it to the page
  before. Correct: no row of every list is skipped, none is repeated while nothing changes, and the
  pages come to an end.
- *Exec.* Tunnels open and die under the listing, a deadline races each kubectl, a child may hold
  the pipe. Correct: every tunnel that stays up is reached and no other context, no answer is lost
  or made up, and exec ends.

The list of hazards, each with its line and the properties about it, is in `PROJECT.json`.

## 2. Modules

Each module extends only standard and community modules (`TunnelsRefinement` extends `Tunnels`); the `MC*` modules give the constants
values; the `*Proofs` modules hold theorems, each about the module it is named for, except
`HostReadsProofs`, which is about the two that say what a connect reads of a host, `RemoteFileCache`
and `ServiceDiscovery` (whose specification is called `ListSpec`, so that both can be extended).

| module | models | one action is |
|---|---|---|
| `Tunnels` | connect, tunnel-kill, tunnel-kill-all, tunnel-reconnect, status / tunnel-list over the main tunnels | one file, signal or process operation |
| `TunnelService` | what these commands promise, without files, pids and signals | one promise of a command: find, open, replace, close, finish |
| `TunnelsRefinement` | the mapping of `Tunnels` to `TunnelService` | |
| `Kubeconfig` | `MergeKubeconfig`, `SwitchContext`, the fast path | one file operation |
| `Telemetry` | `NewWriter`, `Record`, `rotate`, `ReadLastN` | one file operation |
| `RemoteFileCache` | `FetchRemoteFileCached` | one SSH session or file operation |
| `ServiceTunnels` | the three `Setup` methods, fast path, kill | one call of `Setup`'s helpers |
| `ServiceDiscovery` | the three discoveries, as operators over a list | the list gains or loses a Service |
| `Connect` | `runConnect`, `runConnectAllHosts`, checker, catalog | one look at NetBird, or one host |
| `HostCatalog` | `ListTargets`, `filterRecords`, `SearchHostRecords`, `BuildClientPage`, `runHosts`, `runClients` | one command, which shows one page |
| `ExecFanout` | `runExec`, `ListContextStatus`, `ExecOnContexts`, `ExecOnContext` over os/exec | one file, signal or dial of the listing, or one step of a goroutine or a kubectl |

The modules cut the path of one connect at the places where it hands over: `Connect` ends where a
host is connected; `RemoteFileCache` is `prepareKubeconfig`; `Tunnels` is the tunnel and its
verification; `Kubeconfig` the merge and the switch; `ServiceTunnels` the rest, with
`ServiceDiscovery` as what it finds. Where a module meets another's part it keeps its effect and
leaves its outcome open: in `Tunnels` the step `Prepare` fails or not and `Merge` sets `kube[x]`;
in `Kubeconfig` the fast path is taken or not; in `ServiceTunnels` `ConnectMain` is one step.

### State and code

- `Tunnels`: `pidFile` and `conn` are the two files of a context, `kube` its entry in the
  kubeconfig. `procState[p]` is what the process with pid `p` does: `auth` (ssh has started),
  `up`, `stuck` (accepts locally, the remote end is gone), `dying` (sent SIGTERM, not gone),
  `foreign` (another program). `pc` and `cli` are the program counter and locals of each invocation.
  `IsTunnelRunning` and `KillTunnel`, called from several places, are written once; the field `for`
  says who called and so where they return. `Holds` derives the ports from the processes.
- `Kubeconfig`: a file is a record of entries (versions, 0 for none) and a current context; a file
  that is truncated or does not parse reads as `Empty`, as `MergeKubeconfig` takes it.
- `Telemetry`: `name[k]` maps the names to files, `fd[c]` is the file an invocation has open, so a
  rename moves the name and not the descriptor.
- `RemoteFileCache`: a hash is the content it is of; `Trimmed` is what the runner does to output.
- `ServiceTunnels`: `offer[x][k]` is what discovery finds, `proc` the ssh and kubectl processes.
- `Connect`: the environment (`daemon`, `peers`) against what one command has seen of it (`checker`,
  `matches`, `targets`).
- `TunnelService`: `tunnel[x]` is "up" as long as some ssh of `x` serves or is about to, `phase[c]`
  how far a command is; `TunnelsRefinement` reads both off the processes, the program counter and
  the caller (`for`) of a shared step.
- `HostCatalog`: a list is the set of its rows, numbered in its order (peers as NetBird lists them,
  clients as `sort.Strings` does), so a page is a set too and "after the cursor" a comparison.
  `shown`, `always`, `again` and `moved` say what the pages of a browse have shown and met.
- `ExecFanout`: `todo` is what is left of the glob, `targets` the live contexts in order, and the
  functions `step`, `kubectl`, `expired`, `held` and `results` have one entry per goroutine. `lit`
  and `steady` are history variables: the tunnels that were up at some time, and all the time.
- `overlapped` (`Kubeconfig`, `Telemetry`), `damaged` (`Kubeconfig`) and `lost` (`ServiceTunnels`)
  are history variables: what the user has done or met so far. No action reads them; properties that
  the code keeps only for a user who does not overlap commands, or until something fails at the one
  wrong place, say so with them, and one run covers the careful and the careless user. `damaged`: a
  merge was killed, failed, or mixed with another text after its truncation. `lost`: the names under
  which a tunnel was started whose pid was not saved, because `pgrep` did not list it
  (`tunnel.go:136`, `:168`: a nil pid, no error) or the command was killed before; a name leaves
  `lost` when a tunnel is opened under it while no other is open there.

### Assumptions of the models

- A pid file is written in one step; a failed write of the sidecar file is dropped, as in the code.
- The fork of `ssh -f` keeps one pid: the model has the process that stays. Two contexts with the
  same port have different internal IPs, which the pattern for `pgrep` contains.
- ssh may take a while to exit after SIGTERM; kubectl exits at once.
- That ssh connects or gives up is assumed (nothing bounds it), file operations return.
- A kubeconfig that was written in part reads as `Empty`, and may do so when it was written over a
  text of another content, or of kubectl. Two texts that k3ctx writes of one content are the same
  bytes, so that one over the other is that content (`MayMix`).
- In `ServiceTunnels` one command runs at a time (`Tunnels` interleaves them), a check or a kill is
  one step, and the login to ArgoCD is one step without an outcome. `pgrep` may miss any process, as
  in `Tunnels` with `PgrepMayMiss`, and a connect may fail with or without its main tunnel open.
- A host of the catalog has no network requirement, as the catalog sets none. The peer status
  "Connecting" is one with "Idle": the code tells only "Connected" from the rest.
- NetBird lists peers in a fixed order, and a browse keeps its filters from page to page.
- `ExecFanout` takes the pid file and the tunnel of a name as one (`Tunnels` has the races between
  them), and an exec is not interrupted: it would leave nothing behind. A pid that is signalled at
  its deadline when kubectl has exited and was not reaped counts as expired: os/exec reports the
  error of the context for it, and takes it back only for an error of kubectl's own.

## 3. Runs

| run | asks | bounds, and why they are enough |
|---|---|---|
| `tunnels_serial` | with commands that do not overlap on one context: typing; no live tunnel outside its pid file (`NoOrphan`); a kill, a failed fresh connect and kill-all leave none; the commands implement `TunnelService` (`KeepsService`) | 2 contexts, 2 invocations (different contexts may be worked on together), 3 pids: a dying, a new and another context's tunnel at once |
| `tunnels_shared` | overlapping, killed commands whose `pgrep` may miss: pid files and kills stay within their context; one listener per port | 2 contexts with one port, 2 invocations, 2 pids: the collision is the case, two processes suffice to meet in it; the contexts are symmetric because `Hash` only matters through the port. Without `VerifyAPI` no step tells a stalled tunnel from a healthy one, so tunnels do not stall here (`TunnelStalls`) |
| `tunnels_ends` | every command ends | 1 context, 2 invocations that disturb each other and are killed at any step, 1 pid that tunnels and foreign programs take in turn (a second connect finds the tunnel of the first, or no pid; the safety runs have more pids) |
| `kubeconfig_commands` | the file never selects what it lacks; own entries, fetched versions and last copies survive | 2 overlapping connects of 2 contexts, 1 entry of the user, 2 versions per cluster, every step may fail; after an overlap the states are compared without the backup (`View`), which no step reads and no property then asks for |
| `kubeconfig_overlap` | *violated*: a connect that succeeded is in the file, though every write left exactly its content (no write mixes, fails or is killed) | the same; the connects are of two contexts |
| `telemetry_commands` | no gap, newest first, bounded size, only full files rotate | 2 overlapping commands, 3 names, lines of 1 and 3 of 3 bytes (one longer than the scanner takes), 6 invocations: the oldest file is removed |
| `remotefilecache_serial` | what is returned is what the host had during the call | 2 invocations in turn, 4 versions with and without final newline, failing writes, kills |
| `discovery_picks` | the pick can be reached; lesser Services do not matter | lists of up to 3 of 32 Services, one look per rank, all three products |
| `services_commands` | auxiliary tunnels are found, killed by kill-all (both but for names in `lost`), reported under their own port | 2 contexts whose ArgoCD ports collide, 3 pids, ssh and kubectl transports, Services that change or are not found, a `pgrep` that may miss, kills at any step; states that differ only in the variables of a command that has ended, or in a lost name with nothing open, are one (`View`) |
| `connect_commands` | only ready peers, only the resolved context, each host reported | 3 peers, 2 clients, two hosts with one context name, 3 queries (unique, ambiguous, all); daemon and peers change at every step |
| `hosts_pages` | no row of every list is skipped, none shown twice while peers rest, and the pages end | 7 peers, two of them namesakes, one without a client, one that the filter drops; pages of 1, 2 and all rows, 2 queries, 3 changes of the peers between pages: enough to remove the host of a cursor, bring it back and change another |
| `exec_fanout` | every tunnel that stays up is reached, no other context, no answer lost or made up, exec ends | 3 pid files: two contexts and an auxiliary tunnel whose name hashes to the port of one of them; 2 of the bounded events (a tunnel opens or dies, a child holds the pipe); kubectl may hang in each |

Symmetry is used over pids, invocations and contexts where all members play one role, and not in
the runs that check liveness or where rows are numbered. Only `telemetry_commands` turns deadlock checking off: its
number of invocations is bounded by `MaxEvents`, and the bound may be reached.

**Fairness** is assumed in three runs.

- `tunnels_ends`: weak fairness of each invocation's own steps. The OS runs a process that can run;
  no step waits for another invocation; the API poll has a deadline (`PollFails` is always possible
  when the API does not answer). Starting a command, processes that die or recover, and foreign
  programs get no fairness. What the property says is that the loop of `verifyOrRecreateTunnel` and
  the visits of a listing are finite whoever interferes.
- `hosts_pages`: weak fairness of `Continue`, a user who asks for the next page as long as a cursor
  is printed. The peers come to rest because their changes are bounded: while they change at will,
  a browse may begin again for ever, and no code promises otherwise.
- `exec_fanout`: weak fairness of the listing and of each goroutine, its timer included (the Go
  scheduler and the OS run what can run). kubectl gets none: it may hang, and only the deadline
  ends it; nor has the child that holds the pipe any, which is why `ExecEnds` excepts it.

Each property of a passing run is checked against a mutant of the code's definition (comments
"Mutant:" in the modules), which violates it under the same constants.

## 4. Proofs

Checked by TLAPS for every number of contexts, invocations, pids, names, versions, peers, pages, log
files and Services. Every property the runs check is a theorem, except the three about liveness and
the one that is violated. The typing of `RemoteFileCache` is proved (`CacheTyped`) and not run.

| theorem | says | assumes |
|---|---|---|
| `TunnelsProofs!TypeCorrect` | typing of `Tunnels`, with `ControlOK`: each step finds the locals it reads | |
| `TunnelsProofs!PortIsExclusive` | one listener per port | |
| `TunnelsProofs!PidFilesNameOwnTunnels`, `KillsSignalOwnTunnels` | no pid file names, and no kill hits, another context's tunnel | no pid reuse |
| `TunnelsProofs!NoTunnelIsLost`, `KillsLeaveNoTunnel` | no live tunnel is outside its pid file; a kill leaves none | commands do not overlap on a context, are not killed, find their pids; no pid reuse |
| `TunnelsProofs!KillAllLeavesNoTunnel` | kill-all leaves none | the same |
| `TunnelsProofs!CommandsKeepService` | `Tunnels` implements `TunnelService` | the same |
| `HostCatalogProofs!CatalogTyped`, `NoRowIsSkipped`, `RowsAreShownOnce` | typing; no row of every list is skipped; none is repeated while peers rest | inside the properties: namesakes |
| `ExecFanoutProofs!FanoutTyped`, `ExecCoversSteady`, `ExecLeavesOthers`, `ExecEndsWithAll`, `ExecAnswerKept` | typing; what exec reaches; what its results say | |
| `ServiceTunnelsProofs!ServiceTyped` | typing of the auxiliary tunnels | |
| `ServiceTunnelsProofs!ServiceTunnelsAreFound`, `KillAllTakesThem` | an open auxiliary tunnel is in its pid file; kill-all takes it | no two contexts have one port for Alertmanager (`AlertmanagerApart`); inside the properties: the names in `lost`, of which `pgrep` missed a tunnel or a command was killed before the save |
| `ServiceTunnelsProofs!ReportedPortsAreOwn` | no port reported belongs to another tunnel | the same, and the port ranges of the kinds do not meet (`KindsApart`, which `argocd.go`, `alertmanager.go`, `victoriametrics.go` and the default of the main range give) |
| `TelemetryProofs!TelemetryTyped`, `FilesAreBounded` | typing of the log; a file is too large by at most one line of each other invocation | |
| `TelemetryProofs!LogIsWhole`, `TailShowsNewest` | the files hold the newest events without a gap; tail shows the newest | inside the properties: `~overlapped`, and for the second that the scanner takes every line |
| `TelemetryProofs!OnlyFullFilesRotate` | a file is rotated only when it is full, whenever an invocation is killed | inside the property: `~overlapped` |
| `ConnectProofs!ConnectTyped`, `ConnectReachesReadyPeers`, `ConnectReachesUniqueContext`, `AllHostsReported` | typing; only ready peers, only the resolved context, each host reported | |
| `KubeconfigProofs!KubeconfigTyped`, `FileSelectsWhatItHas` | typing; the file never selects a context it lacks | |
| `KubeconfigProofs!OwnEntriesSurvive`, `ConnectSelectsFetched`, `LastCopySurvives` | own entries, fetched versions and last copies survive | inside the properties: `~overlapped`, and `~damaged` for the first |
| `HostReadsProofs!CacheTyped`, `FetchIsFresh` | typing; freshness | one connect of the context at a time, for the second |
| `HostReadsProofs!PickReachable`, `LesserServicesChangeNothing` | what is picked can be reached; a lesser Service never moves the pick | inside the second: the transport stays |

The arguments:

- *Ownership* (`OwnInv`). Whatever a pid file or an invocation names is a tunnel of its context or
  no process. `NoOrphan` cannot be inductive alone: a pid travels from `pgrep` through a local
  variable to the file, so the local must carry the same claim.
- *No tunnel is lost* (`Accounted`, with `SerialInv`). A live tunnel is in its pid file or in the
  hands of the one command that will write it; a command between the check and the dial knows that
  every tunnel of its context is dying; an `auth` process has an invocation that waits for it.
  `SerialInv` derives from the use that at most one command works on a context, and a listing alone.
- *kill-all* (`KillAllCovers`). Every live tunnel is still to be visited, found running, or the one
  in work.
- *Kubeconfig* (`MergeInv`, `CopyInv`). As long as commands have not overlapped one command is at
  work, the file is what it has read until it truncates it, and from then on the backup has it.
- *Freshness* (`FreshIInv`). The hash an invocation holds is of a content the host had during the
  call, and a copy found equal stays equal until it is read.
- *Service* (`ServiceIInv`). On top of `Accounted`: `CallersInv`, which caller a shared step works
  for, since the phase of a command is read off it; and `NoDyingNamed`, that a pid file names an ssh
  that was sent SIGTERM only until the kill has removed it, since a connect that finds one would
  otherwise find a closing tunnel. Each step of `Tunnels` is then one action of `TunnelService` or
  leaves its three variables as they are.
- *Auxiliary tunnels* (`HolderInv`, `FoundInv`, `ReportInv`). A tunnel that is open is in its pid
  file or is the one the command is about to save, or its name is in `lost`: the claim is made name
  by name, so that a tunnel which `pgrep` misses takes no other one with it. That a save which gets a
  pid gets this one, and not another, needs two facts: a port has one holder (`HolderInv`: a dial of ssh asks for a free port, and a kubectl
  that finds it taken ends), and the pattern for `pgrep` names one context. For ssh the pattern has the address
  of the cluster; for kubectl it has the ports only, whence `AlertmanagerApart`. The ports of
  ArgoCD and VictoriaMetrics may collide, and the proof says that the connect which finds its port
  taken reports none.
- *Size of the log* (`RoomInv`). Between the look at a size and the append others may append too.
  A file has room for one line of each invocation that has looked at it and not yet written
  (`Pending`), whatever names it has had since: the one that looked last saw that its own line fits,
  and an invocation that rotates opens whatever the log then is, without another look.
- *Order of the log* (`LogInv`, with `KeptDense`). That the whole log has no gap says nothing about
  a log whose oldest file is about to be removed. The invariant is that the events under the names
  0 to k have none and end with the newest, for every k (`KeptDense`), and that three things hold of
  the names while commands do not overlap: no file has two (`OneName`), the name that a
  rename is about to fill is free (`MovesUp`), and what an invocation has open is the log
  (`OpensLog`). Then a rename changes each of these concatenations into itself
  or into the one of the names below (`DenseStep`), and an append adds to all of them.
- *Rotation* (`FullInv`). The log an invocation is about to move is too large for the line in its hand.
  After the first rename the log is gone, so a kill and a second rotation move only files that were full.
- *tail* (`TailInv`). After k files it has the newest events of the names below k, as many as it
  asked for or all of them; a file that has fewer than it still needs is taken whole.
- *Recursion*. `Kept` is a recursive function. The library's theorems of induction and of recursive
  definitions take operators; its theorem that a well-founded relation has least elements takes a
  set, and suffices: `SetInduction` is induction over the members of a set, and `KeptUnfolds` shows
  with it that a function that satisfies the equation exists, so that `Kept` is one.
- *Pick* (`BestExists`, `BestIsUnique`). The pick is a choice: the best candidate has to exist (ranks
  are bounded, `HighestRank`; of equals the first is taken, `FirstOfHighest`) and be the only one
  (the order is antisymmetric). To take an item out of a list moves the indices of the others
  without changing their order (`Shift`, `Removed`), and so the best candidate stays the best.
- *Pages* (`NoneSkippedTo`). A row that was in every list so far and comes before the last row
  shown has been shown, or stands behind a namesake that is gone. The cursor alone does not say
  where the browse is, so the invariant speaks of the row it was taken from.
- *Exec* (`ListInv`, `GoroutineInv`). A steady tunnel is still to be visited or is a target; what
  was taken comes before what is left. A goroutine has a kubectl running only while it waits.
- *Connect* (`ConnectIInv`). The checker holds what NetBird said to this command; the targets are
  those of what was resolved; the results are those of the first targets.

The constants are assumed to be what the code's are: at least one context; finite sets of
invocations and files, with files enough for all names and descriptors at once; lines of bounded
size (the events of the CLI have a fixed set of fields). TLC evaluates each assumption in a run.

Model-checked only: liveness (`EveryCommandEnds`, `PagingEnds`, `ExecEnds`), which needs fairness and
ENABLED and is out of TLAPS's reach.

## 5. Disagreements between documents and code

One is a run: `kubeconfig_overlap` (see "findings" in `PROJECT.json`). These others were met while
modelling; the code does the first part, the document quoted says the second. They are not checked
by a run.

- `ssh.go:214` trims the output of `cat`, so that the copy lacks the final newline of the file and
  its hash, compared at `ssh.go:260`, is never the one of `sha256sum`: the copy is never used /
  `ssh.go:246`: "with SHA256-based caching"; `cluster-connection/spec.md:47`: "SHALL fetch or reuse".
- `statusreader.go:48` probes the port of every pid file in the range of the main tunnels, so a live
  auxiliary tunnel is reported stale / `tunnel-management/spec.md:11-12`: liveness `live` for a
  "running managed tunnel whose local port responds". When a context listens on that port the name
  is reported live, and exec runs kubectl for a context that does not exist (`LeavesOthers`) /
  `multi-cluster-exec/spec.md`: "every k3ctx-managed context".
- `tunnelmgr.go:36` does not wait for the exit of the ssh it has killed, so the dial of
  tunnel-reconnect may find the port taken / `openspec/changes/archive/2026-05-31-tunnel-resilience/design.md:72`:
  "to ensure the port is free".
- `tunnel.go:137`: a tunnel whose pid `pgrep` did not list has no pid file, and a failed
  verification leaves it running / `openspec/specs/cluster-connection/spec.md:81`: "the system kills
  that tunnel".
- `cluster.go:82`: the fast path ends a connect on a TCP accept /
  `cluster-connection/spec.md:73`: "SHALL verify the local Kubernetes API endpoint by default".
- `cluster_steps.go:91`: a reused tunnel gets no sidecar file / `tunnel-management/spec.md:31`: the
  system writes it when a connection completes.
- `tunnel.go:74`: a stale pid file makes a kill hit whatever has the pid now / `README.md:151`:
  "terminate managed tunnel processes".
- `telemetry.go:118`, `:112`: with overlapping commands events are out of order, and almost empty
  files are rotated / `telemetry-inspect/spec.md:8`: "newest-first order";
  `cli-telemetry/spec.md:41`: renamed when an event "would cause" it "to exceed 10 MB".
- `reader.go:148`: one line of more than 64 KB hides its file / `telemetry-inspect/spec.md:49`:
  "those lines are ignored and valid events are still included".
- `alertmanager.go:205`: a label, or the exact name, in another namespace ranks higher /
  `alertmanager-auto-discovery/spec.md:31`: "prefers the Service in a namespace named `monitoring`".
- `cluster.go:82`: the fast path reopens no auxiliary tunnel / `alertmanager-auto-discovery/spec.md:87`:
  run `connect` again to reopen it.
- `argocd.go:141`: a tunnel is reused whatever NodePort it leads to / `argocd-auto-discovery/spec.md:36`:
  "to the discovered NodePort".
- `tunnel.go:167`: the pattern for `kubectl port-forward` has two ports only, and may find the
  process of another context / `alertmanager-auto-discovery/spec.md:56`: "tracks the kubectl process PID".
- `cli/connect.go:99`: the host is looked up by its context name, which two hosts may share /
  `cluster-connection/spec.md:10`: "connects to that target".
- `cli/connect.go:188`: `--all-hosts` ignores `--dry-run` / `cli/connect.go:43`: "without opening a tunnel".
- `netbirdcatalog.go:72`: with `--skip-netbird-check` the catalog runs `netbird status` /
  `netbird-preflight/spec.md:54`: "does not execute `netbird status`".
- `discovery.go:181`: of two hosts of a client with one context name the cursor stands for the first,
  so that pages which end at the second repeat for ever / `README.md:52`: `--limit` and `--cursor`
  paginate.
- `netbirdcatalog.go:52` sets no `systemframe_id`, so `--id` matches no host / `README.md:62`: `k3ctx
  connect --id sf-1042`.
- `cli/clients.go:33` builds a query that is not used / `cli/clients.go:14`: "clients [query]".
- `infrastructure/exec.go:20`: output goes through a pipe that a child of kubectl may hold, beyond the
  deadline / `multi-cluster-exec/spec.md`: the per-context timeout "prevents hanging".

## 6. Not modelled, and what is left

Not modelled, and why:

- the configuration and its sources, paths, wiring, network requirements: each is read or derived
  once, sequentially, and no later step of a command depends on when. A specification would repeat
  the assignments. For the hosts of the catalog the network requirement is always empty. The
  settings are the constants of the modules, so that a port range that changes while tunnels run,
  or a size of 0, is outside the models;
- ssh config parsing and target resolution, the text of telemetry events, printed output: text
  processing, without state;
- the derivation of a TLS configuration (abstracted to which tunnel answers for a context);
- `ValidateContextNetwork` and `tunnel.KillAllTunnels`: no command calls them;
- telemetry stats: it reads as tail does.

Left to do: `ServiceTunnels` with commands that overlap (its steps are calls, not file operations);
the steps of the login to ArgoCD.
