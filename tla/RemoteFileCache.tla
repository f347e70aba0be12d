--------------------------- MODULE RemoteFileCache ---------------------------
(***************************************************************************)
(* The cached copy of a cluster's kubeconfig that `k3ctx connect` keeps in *)
(* ~/.local/share/k3ctx/yaml/kubeconfigs/<context>.yml.                    *)
(*                                                                         *)
(* FetchRemoteFileCached asks the host for the SHA-256 of the file, and    *)
(* reads the local copy instead of the remote file when its hash is the    *)
(* same.  The hash, the read of the copy and the download are separate SSH *)
(* sessions and file operations: the remote file may change, the copy may  *)
(* be rewritten by another invocation for the same context, or the         *)
(* invocation be killed, between any two of them.                          *)
(*                                                                         *)
(* A hash is modelled by the content it is the hash of (SHA-256 has no     *)
(* collisions here).                                                       *)
(*                                                                         *)
(* Sources: internal/ssh/ssh.go, internal/infrastructure/cluster_steps.go. *)
(***************************************************************************)
EXTENDS Integers, FiniteSets

CONSTANTS
  Cli,         \* the invocations that connect the same context
  MaxVersion,  \* bound on the versions of the remote file
  Absent,      \* there is no cached copy; the hash of no file
  Broken,      \* a copy that was truncated or written in part
  Serial,      \* the user runs one connect of the context at a time
  Failures     \* an invocation may be killed, and a local write may fail

(* What a file holds: a version of the kubeconfig, which ends with a       *)
(* newline or not.                                                         *)
Content == [version : 1..MaxVersion, newline : BOOLEAN]

ASSUME CacheAssumption ==
  /\ MaxVersion \in Nat \ {0}
  /\ Absent \notin Content \cup {Broken} /\ Broken \notin Content
  /\ {Serial, Failures} \subseteq BOOLEAN

VARIABLES
  remote,  \* the remote file
  cache,   \* the cached copy
  pc,      \* pc[c]: the next step of invocation c
  want,    \* want[c]: the remote hash c got
  got,     \* got[c]: the content c is about to return
  since    \* since[c]: what the remote file has held since c started

local == <<want, got, since>>
vars  == <<remote, cache, pc, local>>

Ended == {"idle", "done", "failed"}
Steps == {"hash", "compare", "readcopy", "download", "direct", "truncate",
          "write"}
Busy(c) == pc[c] \notin Ended
Goto(c, label) == pc' = [pc EXCEPT ![c] = label]

TypeOK ==
  /\ remote \in Content /\ cache \in Content \cup {Absent, Broken}
  /\ pc \in [Cli -> Ended \cup Steps]
  /\ want \in [Cli -> Content \cup {Absent}]
  /\ got \in [Cli -> Content \cup {Absent, Broken}]
  /\ since \in [Cli -> SUBSET Content]

Init ==
  /\ remote \in {k \in Content : k.version = 1} /\ cache = Absent
  /\ pc = [c \in Cli |-> "idle"]
  /\ want = [c \in Cli |-> Absent] /\ got = [c \in Cli |-> Absent]
  /\ since = [c \in Cli |-> {}]

(* The runner of MakeRemoteRunner returns its output without the white     *)
(* space at either end.                                                    *)
Trimmed(content) == [content EXCEPT !.newline = FALSE]

Start(c) ==
  /\ ~Busy(c)
  /\ Serial => \A d \in Cli : ~Busy(d)
  /\ Goto(c, "hash")
  /\ want' = [want EXCEPT ![c] = Absent] /\ got' = [got EXCEPT ![c] = Absent]
  /\ since' = [since EXCEPT ![c] = {remote}]
  /\ UNCHANGED <<remote, cache>>

(* The end of an invocation: only what it returns is left of it.           *)
End(c, result) ==
  /\ Goto(c, result)
  /\ want' = [want EXCEPT ![c] = Absent]
  /\ UNCHANGED <<got, since>>

-----------------------------------------------------------------------------
(* RemoteFileHash: sha256sum, or else shasum, on the host.  When neither   *)
(* answers, the file is downloaded and not cached.                         *)
RemoteFileHash(c) ==
  /\ pc[c] = "hash"
  /\ \/ want' = [want EXCEPT ![c] = remote] /\ Goto(c, "compare")
     \/ Goto(c, "direct") /\ UNCHANGED want
  /\ UNCHANGED <<remote, cache, got, since>>

(* Mutant: any copy whose hash can be computed is used.                    *)
CompareAnything(c) ==
  /\ pc[c] = "compare"
  /\ Goto(c, IF cache # Absent THEN "readcopy" ELSE "download")
  /\ UNCHANGED <<remote, cache, local>>

(* LocalFileHash of the copy, and the comparison.                          *)
CompareHash(c) ==
  /\ pc[c] = "compare"
  /\ Goto(c, IF cache = want[c] THEN "readcopy" ELSE "download")
  /\ UNCHANGED <<remote, cache, local>>

(* The copy is read again after it has been hashed.                        *)
ReadCopy(c) ==
  /\ pc[c] = "readcopy"
  /\ \/ cache = Absent /\ Goto(c, "download") /\ UNCHANGED local
     \/ /\ cache # Absent
        /\ got' = [got EXCEPT ![c] = cache]
        /\ Goto(c, "done")
        /\ want' = [want EXCEPT ![c] = Absent] /\ UNCHANGED since
  /\ UNCHANGED <<remote, cache>>

(* FetchRemoteFile: `cat` on the host.                                     *)
FetchRemoteFile(c) ==
  /\ pc[c] \in {"download", "direct"}
  /\ \/ /\ got' = [got EXCEPT ![c] = Trimmed(remote)]
        /\ Goto(c, IF pc[c] = "direct" THEN "done" ELSE "truncate")
        /\ UNCHANGED <<want, since>>
     \/ End(c, "failed")
  /\ UNCHANGED <<remote, cache>>

(* os.WriteFile truncates the copy, then writes it from the start; over    *)
(* what another invocation wrote meanwhile, the end of a longer text stays.*)
(* Its errors are ignored.                                                 *)
TruncateCopy(c) ==
  /\ pc[c] = "truncate"
  /\ \/ cache' = Broken /\ Goto(c, "write") /\ UNCHANGED local
     \/ Failures /\ End(c, "done") /\ UNCHANGED cache
  /\ UNCHANGED remote

WriteCopy(c) ==
  /\ pc[c] = "write"
  /\ \/ cache' = got[c]
     \/ (Failures \/ cache # Broken) /\ cache' = Broken
  /\ End(c, "done")
  /\ UNCHANGED remote

-----------------------------------------------------------------------------
(* The host writes another version, with or without a final newline; the   *)
(* user clears the cache; an invocation is killed.                         *)
RemoteChanges ==
  /\ remote.version < MaxVersion
  /\ \E newline \in BOOLEAN :
       remote' = [version |-> remote.version + 1, newline |-> newline]
  /\ since' = [c \in Cli |-> IF Busy(c) THEN since[c] \cup {remote'}
                                        ELSE since[c]]
  /\ UNCHANGED <<cache, pc, want, got>>

CacheCleared == cache' = Absent /\ UNCHANGED <<remote, pc, local>>

Interrupt(c) ==
  /\ Failures /\ Busy(c)
  /\ End(c, "failed")
  /\ UNCHANGED <<remote, cache>>

CliStep(c) ==
  \/ RemoteFileHash(c) \/ CompareHash(c) \/ ReadCopy(c) \/ FetchRemoteFile(c)
  \/ TruncateCopy(c) \/ WriteCopy(c)

Next ==
  \/ \E c \in Cli : Start(c) \/ CliStep(c) \/ Interrupt(c)
  \/ RemoteChanges \/ CacheCleared

Spec == Init /\ [][Next]_vars

-----------------------------------------------------------------------------
(* Properties.                                                             *)

(* What FetchRemoteFileCached returns is what the remote file held at some *)
(* moment of the call, whether it was downloaded or read from a copy that  *)
(* an earlier invocation may have left half written.  It needs Serial: the *)
(* copy is read again after its hash was compared.                         *)
ResultIsFresh ==
  \A c \in Cli : pc[c] = "done" =>
    \E k \in since[c] : got[c] \in {k, Trimmed(k)}

(* The inductive form, proved in RemoteFileCacheProofs: one invocation at  *)
(* work, the hash it has is that of a recent content, and a copy that was  *)
(* found equal stays so until it is read.                                  *)
FreshOf(c, content) == \E k \in since[c] : content \in {k, Trimmed(k)}
FreshIInv ==
  /\ \A c, d \in Cli : Busy(c) /\ Busy(d) => c = d
  /\ \A c \in Cli : /\ Busy(c) => remote \in since[c]
                    /\ pc[c] \in {"compare", "readcopy"} => want[c] \in since[c]
                    /\ pc[c] = "readcopy" => cache \in {want[c], Absent}
                    /\ pc[c] \in {"truncate", "write", "done"} =>
                         FreshOf(c, got[c])
=============================================================================
