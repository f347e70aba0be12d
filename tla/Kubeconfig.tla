----------------------------- MODULE Kubeconfig ------------------------------
(***************************************************************************)
(* The user's kubeconfig, ~/.kube/config, under `k3ctx connect`.           *)
(*                                                                         *)
(* A connect fetches the kubeconfig of the cluster, rewrites its server,   *)
(* and merges it into the user's file: read, back up to config.bak,        *)
(* truncate, write.  Nothing locks the file between the read and the write *)
(* against another invocation, and the write is neither atomic nor synced. *)
(* Then kubectl is asked to select the context.  One action is one file    *)
(* operation of the code.                                                  *)
(*                                                                         *)
(* Sources: internal/kubeconfig/kubeconfig.go, internal/infrastructure/    *)
(* cluster.go, cluster_steps.go, contextswitcher.go, cli/connect.go.       *)
(***************************************************************************)
EXTENDS Integers, FiniteSets

CONSTANTS
  Cli,         \* the invocations that may run at the same time
  Ctx,         \* the contexts k3ctx manages
  Own,         \* other contexts, which the user keeps in the file
  NoCtx,       \* no current context
  MaxVersion   \* bound on the versions of a cluster's kubeconfig

ASSUME KubeconfigAssumption ==
  /\ Ctx \cap Own = {} /\ NoCtx \notin Ctx \cup Own
  /\ MaxVersion \in Nat \ {0}

Name    == Ctx \cup Own
Version == 0..MaxVersion    \* 0: the file has no entry of that name

(* The content of a kubeconfig.  An entry stands for the cluster, the user *)
(* and the context of one name, which the code adds and removes together.  *)
Content == [entry : [Name -> Version], current : Name \cup {NoCtx}]
Empty   == [entry |-> [x \in Name |-> 0], current |-> NoCtx]

VARIABLES
  exists,   \* ~/.kube/config is there
  config,   \* its content; Empty when it is truncated or cannot be parsed
  author,   \* who wrote its text last; "none" since a truncation
  backup,   \* the content of ~/.kube/config.bak
  remote,   \* remote[x]: the version of the kubeconfig of cluster x
  pc,       \* pc[c]: the next step of invocation c
  ctx,      \* ctx[c]: the context c connects
  fetched,  \* fetched[c]: the version c fetched
  loaded,   \* loaded[c]: the content c read, to merge into

  (* What the user has done and met so far; the program does not know.     *)
  overlapped,  \* two commands have run at the same time
  damaged      \* after the truncation of a merge something else than its
               \* content got into the file: it was killed, its write
               \* failed, or two texts mixed

file    == <<exists, config, author>>
local   == <<ctx, fetched, loaded>>
history == <<overlapped, damaged>>
vars    == <<file, backup, remote, pc, local, history>>

(* "ok": the last command merged; "idle": it did not, or there was none.   *)
Ended == {"idle", "ok"}
Steps == {"exists", "fetch", "load", "stat", "copy", "truncate", "write",
          "switch", "switchold"}

TypeOK ==
  /\ exists \in BOOLEAN /\ author \in {"none", "k3ctx", "kubectl"}
  /\ config \in Content /\ backup \in Content
  /\ remote \in [Ctx -> 1..MaxVersion]
  /\ pc \in [Cli -> Ended \cup Steps] /\ ctx \in [Cli -> Ctx \cup {NoCtx}]
  /\ fetched \in [Cli -> Version] /\ loaded \in [Cli -> Content]
  /\ overlapped \in BOOLEAN /\ damaged \in BOOLEAN

(* The user starts with a file of the contexts in Own, or without one.     *)
Init ==
  /\ exists = (Own # {}) /\ author = IF Own = {} THEN "none" ELSE "kubectl"
  /\ config = [Empty EXCEPT !.entry = [x \in Name |-> IF x \in Own THEN 1 ELSE 0]]
  /\ backup = Empty
  /\ remote = [x \in Ctx |-> 1]
  /\ pc = [c \in Cli |-> "idle"] /\ ctx = [c \in Cli |-> NoCtx]
  /\ fetched = [c \in Cli |-> 0] /\ loaded = [c \in Cli |-> Empty]
  /\ overlapped = FALSE /\ damaged = FALSE

Busy(c) == pc[c] \notin Ended
Goto(c, label) == pc' = [pc EXCEPT ![c] = label]
Has(content, x) == content.entry[x] # 0

(* A command begins, perhaps while another one runs.                       *)
Begin == overlapped' = (overlapped \/ \E c \in Cli : Busy(c))

(* The end of an invocation forgets what it fetched and read; the context  *)
(* of one that merged is remembered.                                       *)
End(c, result) ==
  /\ Goto(c, result)
  /\ ctx' = [ctx EXCEPT ![c] = IF result = "ok" THEN @ ELSE NoCtx]
  /\ fetched' = [fetched EXCEPT ![c] = 0]
  /\ loaded' = [loaded EXCEPT ![c] = Empty]

StartConnect(c, x) ==
  /\ ~Busy(c)
  /\ Begin
  /\ Goto(c, "exists")
  /\ ctx' = [ctx EXCEPT ![c] = x]
  /\ UNCHANGED <<file, backup, remote, fetched, loaded, damaged>>

-----------------------------------------------------------------------------
(* The fast path of connect: when the tunnel is live (left open here) and  *)
(* the file has the context, nothing is fetched or merged.                 *)
ContextExists(c) ==
  /\ pc[c] = "exists"
  /\ \/ Has(config, ctx[c]) /\ Goto(c, "switchold")
     \/ Goto(c, "fetch")
  /\ UNCHANGED <<file, backup, remote, local, history>>

(* prepareKubeconfig: any step up to the tunnel may fail.                  *)
Fetch(c) ==
  /\ pc[c] = "fetch"
  /\ \/ /\ fetched' = [fetched EXCEPT ![c] = remote[ctx[c]]]
        /\ Goto(c, "load") /\ UNCHANGED <<ctx, loaded>>
     \/ End(c, "idle")
  /\ UNCHANGED <<file, backup, remote, history>>

-----------------------------------------------------------------------------
(* MergeKubeconfig.  A file that is missing, empty or not parsable reads   *)
(* as empty; the error of the parser is dropped.                           *)
Load(c) ==
  /\ pc[c] = "load"
  /\ loaded' = [loaded EXCEPT ![c] = config]
  /\ Goto(c, "stat")
  /\ UNCHANGED <<file, backup, remote, ctx, fetched, history>>

(* os.Stat, and os.Create of config.bak, which empties an older backup.    *)
StatFile(c) ==
  /\ pc[c] = "stat"
  /\ \/ exists /\ backup' = Empty /\ Goto(c, "copy")
     \/ ~exists /\ Goto(c, "truncate") /\ UNCHANGED backup
  /\ UNCHANGED <<file, remote, local, history>>

(* Mutant: the backup is not written.                                      *)
CopyNothing(c) ==
  /\ pc[c] = "copy"
  /\ Goto(c, "truncate")
  /\ UNCHANGED <<file, backup, remote, local, history>>

Copy(c) ==
  /\ pc[c] = "copy"
  /\ \/ backup' = config /\ Goto(c, "truncate") /\ UNCHANGED local
     \/ UNCHANGED backup /\ End(c, "idle")
  /\ UNCHANGED <<file, remote, history>>

(* os.WriteFile opens the file with O_TRUNC ...                            *)
Truncate(c) ==
  /\ pc[c] = "truncate"
  /\ exists' = TRUE /\ config' = Empty /\ author' = "none"
  /\ Goto(c, "write")
  /\ UNCHANGED <<backup, remote, local, history>>

(* Mutant: the entries of the same name are removed after the append.      *)
MergedThenFiltered(c) ==
  [entry   |-> [loaded[c].entry EXCEPT ![ctx[c]] = 0],
   current |-> ctx[c]]

(* Mutant: the file that was read is left out.                             *)
MergedAlone(c) ==
  [entry   |-> [Empty.entry EXCEPT ![ctx[c]] = fetched[c]],
   current |-> ctx[c]]

(* Mutant: an entry that is there already is kept.                         *)
MergedKeepsOld(c) ==
  [entry   |-> [loaded[c].entry EXCEPT ![ctx[c]] =
                  IF @ = 0 THEN fetched[c] ELSE @],
   current |-> ctx[c]]

(* Mutant: the merged file says nothing of a current context.              *)
MergedSelectsNothing(c) ==
  [entry |-> [loaded[c].entry EXCEPT ![ctx[c]] = fetched[c]]]

(* What the merge writes: the content it read, with its own entry instead  *)
(* of one of the same name, and the new context selected.                  *)
Merged(c) ==
  [entry   |-> [loaded[c].entry EXCEPT ![ctx[c]] = fetched[c]],
   current |-> ctx[c]]

(* ... and writes it from the start.  Over a longer text that another one  *)
(* wrote meanwhile, the end of that text stays and the file may be broken; *)
(* a text of k3ctx with the same content has the same length.              *)
MayMix(c) == \/ author = "kubectl"
             \/ author = "k3ctx" /\ config # Merged(c)

Written(c) ==
  /\ Goto(c, "switch")
  /\ loaded' = [loaded EXCEPT ![c] = Empty]
  /\ UNCHANGED <<ctx, fetched>>

Write(c) ==
  /\ pc[c] = "write"
  /\ author' = "k3ctx"
  /\ \/ config' = Merged(c) /\ Written(c) /\ UNCHANGED damaged
     \/ MayMix(c) /\ config' = Empty /\ Written(c) /\ damaged' = TRUE
     \/ config' = Empty /\ End(c, "idle") /\ damaged' = TRUE
  /\ UNCHANGED <<exists, backup, remote, overlapped>>

-----------------------------------------------------------------------------
(* SwitchContext: `kubectl config use-context`, which locks the file and   *)
(* fails when it has no such context, and writes it only when another one  *)
(* was selected.  A failure is only reported.                              *)
UseContext(x) ==
  /\ config' = IF Has(config, x) THEN [config EXCEPT !.current = x] ELSE config
  /\ author' = IF config' = config THEN author ELSE "kubectl"

Switch(c) ==
  /\ pc[c] \in {"switch", "switchold"}
  /\ UseContext(ctx[c])
  /\ End(c, IF pc[c] = "switch" THEN "ok" ELSE "idle")
  /\ UNCHANGED <<exists, backup, remote, history>>

-----------------------------------------------------------------------------
(* The rest of the world.                                                  *)
UserSwitches(x) ==
  /\ Begin
  /\ UseContext(x)
  /\ UNCHANGED <<exists, backup, remote, pc, local, damaged>>

ClusterRotates(x) ==
  /\ remote[x] < MaxVersion
  /\ remote' = [remote EXCEPT ![x] = @ + 1]
  /\ UNCHANGED <<file, backup, pc, local, history>>

Interrupt(c) ==
  /\ Busy(c)
  /\ End(c, "idle")
  /\ damaged' = (damaged \/ pc[c] = "write")
  /\ UNCHANGED <<file, backup, remote, overlapped>>

CliStep(c) ==
  \/ ContextExists(c) \/ Fetch(c) \/ Load(c) \/ StatFile(c) \/ Copy(c)
  \/ Truncate(c) \/ Write(c) \/ Switch(c)

Next ==
  \/ \E c \in Cli : \/ CliStep(c) \/ Interrupt(c)
                    \/ \E x \in Ctx : StartConnect(c, x)
  \/ \E x \in Name : UserSwitches(x)
  \/ \E x \in Ctx : ClusterRotates(x)

Spec == Init /\ [][Next]_vars

-----------------------------------------------------------------------------
(* Properties.                                                             *)

(* The context the file selects is one it has, at every moment: also while *)
(* several merges interleave, are killed or fail.                          *)
CurrentExists == config.current # NoCtx => Has(config, config.current)

(* The user's own entries survive every connect (TestMergeKubeconfig_      *)
(* MergesIntoExisting), as long as commands do not overlap and no merge    *)
(* leaves a damaged file: between its truncation and its write they are    *)
(* missing from the file, and then the merge holds them.                   *)
OwnEntriesKept ==
  ~overlapped /\ ~damaged =>
    \A x \in Own : \/ Has(config, x)
                   \/ \E c \in Cli : pc[c] = "write" /\ Has(loaded[c], x)

(* When a connect that merged ends, the file has the version it fetched    *)
(* and selects it, whatever the cluster does meanwhile and however earlier *)
(* commands failed, as long as commands do not overlap.                    *)
MergesWhatItFetched ==
  [][\A c \in Cli : pc[c] = "switch" /\ pc'[c] = "ok" /\ ~overlapped =>
       /\ config'.entry[ctx[c]] = fetched[c]
       /\ config'.current = ctx[c]]_vars

(* A merge that has read an entry of the user never destroys its last      *)
(* copy: when it is killed or its write fails, config.bak has the entry.   *)
(* A later merge, which reads the damaged file, may destroy it.            *)
Somewhere(x) == Has(config, x) \/ Has(backup, x)
LastCopyKept ==
  [][\A x \in Own : Somewhere(x) /\ ~Somewhere(x)' /\ ~overlapped =>
       \E c \in Cli : Busy(c) /\ ~Has(loaded[c], x)]_vars

(* README.md:67: "On success: kubeconfig is merged into ~/.kube/config".   *)
(* A merge that overlaps another one writes what it read before, and the   *)
(* entry of a connect that succeeded is gone, though every write left in   *)
(* the file exactly what it had to write.                                  *)
SuccessIsMerged ==
  ~damaged /\ (\A c \in Cli : ~Busy(c)) =>
    \A c \in Cli : pc[c] = "ok" => Has(config, ctx[c])

-----------------------------------------------------------------------------
(* Inductive strengthenings, proved in KubeconfigProofs.  An invocation    *)
(* that has started works on a context k3ctx manages, and one that merges  *)
(* has an entry to merge.                                                  *)
ControlOK ==
  \A c \in Cli :
    /\ pc[c] \in Steps => ctx[c] \in Ctx
    /\ pc[c] \in {"load", "stat", "copy", "truncate", "write", "switch"} =>
         fetched[c] # 0

(* Commands that do not overlap: between its truncation and its end a      *)
(* merge has the file to itself.                                           *)
SoleInv ==
  ~overlapped =>
    /\ \A c, d \in Cli : Busy(c) /\ Busy(d) => c = d
    /\ \A c \in Cli :
         /\ pc[c] = "write" => author = "none"
         /\ pc[c] = "switch" => config.entry[ctx[c]] = fetched[c]

(* And when none left a damaged file, what a merge has read has the        *)
(* entries of the user.                                                    *)
ReadInv ==
  ~overlapped /\ ~damaged =>
    \A c \in Cli : pc[c] \in {"stat", "copy", "truncate", "write"} =>
      \A x \in Own : Has(loaded[c], x)

MergeInv == SoleInv /\ OwnEntriesKept /\ ReadInv

(* Commands that do not overlap: the file stays as a merge has read it     *)
(* until the merge truncates it, and from then on the backup has what was  *)
(* read.                                                                   *)
CopyInv ==
  /\ ~exists => \A x \in Name : ~Has(config, x)
  /\ \A c \in Cli : pc[c] = "write" => exists
  /\ ~overlapped =>
       \A c \in Cli :
         /\ pc[c] \in {"stat", "copy", "truncate"} => loaded[c] = config
         /\ pc[c] \in {"truncate", "write"} =>
              \A x \in Own : Has(loaded[c], x) => Has(backup, x)
         /\ pc[c] = "write" => \A x \in Own : ~Has(config, x)
=============================================================================
