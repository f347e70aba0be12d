------------------------------ MODULE Telemetry ------------------------------
(***************************************************************************)
(* The telemetry log of k3ctx: telemetry.jsonl and its rotated files .1,   *)
(* .2, ...                                                                 *)
(*                                                                         *)
(* Every invocation of the CLI opens the log when it starts, appends one   *)
(* event to it when it ends, and rotates the files first when the event    *)
(* would make the log too large.  The mutex of the Writer orders the       *)
(* goroutines of one process only: between invocations there is no lock,   *)
(* and an invocation keeps the file it opened however the names move.      *)
(* One action is one file operation of the code.  `telemetry tail` reads   *)
(* the files one after another before it appends its own event.            *)
(*                                                                         *)
(* Sources: internal/telemetry/telemetry.go, reader.go, cli/root.go.       *)
(***************************************************************************)
EXTENDS Integers, Sequences, FiniteSets

CONSTANTS
  Cli,         \* the invocations that may run at the same time
  File,        \* the files on disk (inodes), whatever their names
  NoFile,      \* no file has that name; no open file
  MaxBytes,    \* maxBytes of NewWriter
  MaxFiles,    \* maxFiles of NewWriter
  LineSizes,   \* the sizes of an event's line
  ScanLimit,   \* the longest line bufio.Scanner accepts
  TailN,       \* --n of telemetry tail
  MaxEvents    \* bound on the invocations of a behaviour

ASSUME TelemetryAssumption ==
  /\ NoFile \notin File
  /\ MaxBytes \in Nat /\ TailN \in Nat \ {0} /\ MaxEvents \in Nat
  /\ MaxFiles \in Nat \ {0, 1}
  /\ LineSizes \subseteq 1..MaxBytes
  /\ \E s \in LineSizes : \A t \in LineSizes : t <= s
  /\ ScanLimit \in Nat
  /\ IsFiniteSet(Cli) /\ IsFiniteSet(File)   \* a file is free when one is made
  /\ Cardinality(File) >= MaxFiles + Cardinality(Cli) - 1

VARIABLES
  name,     \* name[k]: the file called telemetry.jsonl.k (k = 0: the log)
  data,     \* data[f]: the events in file f, oldest first
  size,     \* size[f]: the bytes in file f
  pc,       \* pc[c]: the next step of invocation c
  fd,       \* fd[c]: the file c has open for appending
  line,     \* line[c]: the size of the line c is about to append
  step,     \* step[c]: the index c is at in its loop over the names
  seen,     \* seen[c]: what telemetry tail has collected
  written,  \* how many events have been appended, ever
  overlapped  \* two commands have run at the same time; no code knows

disk  == <<name, data, size, written>>
local == <<fd, line, step, seen>>
vars  == <<disk, pc, local, overlapped>>

Names == 0..(MaxFiles - 1)
Event == [n : 1..MaxEvents, len : LineSizes]
Steps == {"idle", "read", "run", "remove", "rename", "reopen", "append"}

TypeOK ==
  /\ name \in [Names -> File \cup {NoFile}]
  /\ data \in [File -> Seq(Event)] /\ size \in [File -> Nat]
  /\ pc \in [Cli -> Steps]
  /\ fd \in [Cli -> File \cup {NoFile}]
  /\ line \in [Cli -> LineSizes \cup {0}] /\ step \in [Cli -> Names]
  /\ seen \in [Cli -> Seq(Event)]
  /\ written \in 0..MaxEvents /\ overlapped \in BOOLEAN

Init ==
  /\ name = [k \in Names |-> NoFile]
  /\ data = [f \in File |-> <<>>] /\ size = [f \in File |-> 0]
  /\ pc = [c \in Cli |-> "idle"]
  /\ fd = [c \in Cli |-> NoFile] /\ line = [c \in Cli |-> 0]
  /\ step = [c \in Cli |-> 0] /\ seen = [c \in Cli |-> <<>>]
  /\ written = 0 /\ overlapped = FALSE

Busy(c) == pc[c] # "idle"
Goto(c, label) == pc' = [pc EXCEPT ![c] = label]

(* A file no name and no invocation refers to: it can be made anew.        *)
Free == {f \in File : (\A k \in Names : name[k] # f) /\ (\A c \in Cli : fd[c] # f)}

NewFile == CHOOSE f \in Free : TRUE

(* os.OpenFile with O_CREATE|O_APPEND.                                     *)
OpenLog(c) ==
  \/ /\ name[0] # NoFile
     /\ fd' = [fd EXCEPT ![c] = name[0]]
     /\ UNCHANGED disk
  \/ /\ name[0] = NoFile
     /\ LET f == NewFile IN
        /\ name' = [name EXCEPT ![0] = f]
        /\ data' = [data EXCEPT ![f] = <<>>]
        /\ size' = [size EXCEPT ![f] = 0]
        /\ fd' = [fd EXCEPT ![c] = f]
     /\ UNCHANGED written

(* PersistentPreRunE: NewWriter.  telemetry tail then reads the files.     *)
Start(c, label) ==
  /\ ~Busy(c)
  /\ written + Cardinality({d \in Cli : Busy(d)}) < MaxEvents
  /\ overlapped' = (overlapped \/ \E d \in Cli : Busy(d))
  /\ OpenLog(c)
  /\ Goto(c, label)
  /\ UNCHANGED <<line, step, seen>>

StartCommand(c) == Start(c, "run")
StartTail(c)    == Start(c, "read")

-----------------------------------------------------------------------------
(* ReadLastN: the newest lines of each file, the log first.  A file with a *)
(* line that is too long for the scanner is skipped as a whole.            *)
AtMost(m, n) == IF m <= n THEN m ELSE n
Readable(f)  == /\ f # NoFile
                /\ \A i \in 1..Len(data[f]) : data[f][i].len <= ScanLimit

(* Mutant: the oldest lines of each file.                                  *)
NewestOldest(f, need) ==
  LET have == AtMost(need, Len(data[f]))
  IN  [i \in 1..have |-> data[f][have + 1 - i]]

(* The newest lines of f, at most need of them, newest first.              *)
Newest(f, need) ==
  [i \in 1..AtMost(need, Len(data[f])) |-> data[f][Len(data[f]) + 1 - i]]

ReadFile(c) ==
  /\ pc[c] = "read"
  /\ LET f == name[step[c]] IN
     seen' = [seen EXCEPT ![c] =
       IF Readable(f) THEN @ \o Newest(f, TailN - Len(@)) ELSE @]
  /\ \/ /\ step[c] + 1 \in Names
        /\ step' = [step EXCEPT ![c] = @ + 1] /\ UNCHANGED pc
     \/ /\ step[c] + 1 \notin Names
        /\ step' = [step EXCEPT ![c] = 0] /\ Goto(c, "run")
  /\ UNCHANGED <<disk, fd, line, overlapped>>

-----------------------------------------------------------------------------
(* Mutant: a line that would just fill the file rotates it already.        *)
TooLargeAtLimit(f, len) == size[f] + len >= MaxBytes

(* Record: the size of the open file, whatever its name is now, decides.   *)
TooLarge(f, len) == size[f] + len > MaxBytes

(* Mutant: the line to append is left out of the size.                     *)
StatFileOnly(c) ==
  /\ pc[c] = "run"
  /\ \E len \in LineSizes :
       /\ line' = [line EXCEPT ![c] = len]
       /\ Goto(c, IF size[fd[c]] > MaxBytes THEN "remove" ELSE "append")
  /\ UNCHANGED <<disk, fd, step, seen, overlapped>>

Stat(c) ==
  /\ pc[c] = "run"
  /\ \E len \in LineSizes :
       /\ line' = [line EXCEPT ![c] = len]
       /\ Goto(c, IF TooLarge(fd[c], len) THEN "remove" ELSE "append")
  /\ UNCHANGED <<disk, fd, step, seen, overlapped>>

(* rotate: close, remove the oldest, move the names up from the oldest to  *)
(* the log, open the log again.  Removing or renaming a name that is not   *)
(* there is an error the code ignores.                                     *)
RemoveOldest(c) ==
  /\ pc[c] = "remove"
  /\ name' = [name EXCEPT ![MaxFiles - 1] = NoFile]
  /\ fd' = [fd EXCEPT ![c] = NoFile]
  /\ step' = [step EXCEPT ![c] = MaxFiles - 2]
  /\ Goto(c, "rename")
  /\ UNCHANGED <<data, size, written, line, seen, overlapped>>

(* Mutant: the loop over the names runs one step past the log.             *)
RenameTooFar(c) ==
  /\ pc[c] = "rename"
  /\ LET k == step[c] IN
     \/ /\ name[k] # NoFile
        /\ name' = [name EXCEPT ![k] = NoFile, ![k + 1] = name[k]]
     \/ name[k] = NoFile /\ UNCHANGED name
  /\ \/ step[c] >= 0 /\ step' = [step EXCEPT ![c] = @ - 1] /\ UNCHANGED pc
     \/ step[c] < 0 /\ UNCHANGED step /\ Goto(c, "reopen")
  /\ UNCHANGED <<data, size, written, fd, line, seen, overlapped>>

Rename(c) ==
  /\ pc[c] = "rename"
  /\ LET k == step[c] IN
     \/ /\ name[k] # NoFile
        /\ name' = [name EXCEPT ![k] = NoFile, ![k + 1] = name[k]]
     \/ name[k] = NoFile /\ UNCHANGED name
  /\ \/ step[c] > 0 /\ step' = [step EXCEPT ![c] = @ - 1] /\ UNCHANGED pc
     \/ step[c] = 0 /\ UNCHANGED step /\ Goto(c, "reopen")
  /\ UNCHANGED <<data, size, written, fd, line, seen, overlapped>>

Reopen(c) ==
  /\ pc[c] = "reopen"
  /\ OpenLog(c)
  /\ Goto(c, "append")
  /\ UNCHANGED <<line, step, seen, overlapped>>

(* The end of an invocation: what it had open and collected is gone.       *)
Leave(c) ==
  /\ Goto(c, "idle")
  /\ fd' = [fd EXCEPT ![c] = NoFile] /\ line' = [line EXCEPT ![c] = 0]
  /\ step' = [step EXCEPT ![c] = 0] /\ seen' = [seen EXCEPT ![c] = <<>>]

(* Mutant: Record returns when it has rotated, without writing the event.  *)
WriteLineLost(c) ==
  /\ pc[c] = "append"
  /\ IF size[fd[c]] = 0 /\ name[1] # NoFile THEN UNCHANGED <<data, size>>
     ELSE /\ data' = [data EXCEPT ![fd[c]] =
                        Append(@, [n |-> written + 1, len |-> line[c]])]
          /\ size' = [size EXCEPT ![fd[c]] = @ + line[c]]
  /\ written' = written + 1
  /\ Leave(c)
  /\ UNCHANGED <<name, overlapped>>

WriteLine(c) ==
  /\ pc[c] = "append"
  /\ data' = [data EXCEPT ![fd[c]] =
                Append(@, [n |-> written + 1, len |-> line[c]])]
  /\ size' = [size EXCEPT ![fd[c]] = @ + line[c]]
  /\ written' = written + 1
  /\ Leave(c)
  /\ UNCHANGED <<name, overlapped>>

Interrupt(c) == Busy(c) /\ Leave(c) /\ UNCHANGED <<disk, overlapped>>

CliStep(c) == \/ StartCommand(c) \/ StartTail(c) \/ ReadFile(c) \/ Stat(c)
              \/ RemoveOldest(c) \/ Rename(c) \/ Reopen(c) \/ WriteLine(c)
              \/ Interrupt(c)

Next == \E c \in Cli : CliStep(c)

Spec == Init /\ [][Next]_vars

-----------------------------------------------------------------------------
(* Properties.                                                             *)

(* The events kept under the names 0..k, oldest first.                     *)
Kept[k \in Names] ==
  (IF name[k] = NoFile THEN <<>> ELSE data[name[k]])
    \o (IF k = 0 THEN <<>> ELSE Kept[k - 1])
Log == Kept[MaxFiles - 1]

(* What the files hold is always the newest events that were written, in   *)
(* their order and with none missing in between: also while rotate is      *)
(* moving the names, and when the process is killed between two renames,   *)
(* as long as commands do not overlap.                                     *)
LogHasNoGap ==
  ~overlapped =>
    /\ \A i \in 1..(Len(Log) - 1) : Log[i + 1].n = Log[i].n + 1
    /\ Log # <<>> => Log[Len(Log)].n = written

(* telemetry tail shows the newest events, newest first: as many as were   *)
(* asked for, or all that are kept, as long as commands do not overlap and *)
(* the scanner accepts every line (the error of a longer one makes         *)
(* readValidLines give up its whole file).                                 *)
TailIsNewest ==
  ~overlapped /\ (\A i \in 1..Len(Log) : Log[i].len <= ScanLimit) =>
    \A c \in Cli : pc[c] = "run" /\ seen[c] # <<>> =>
      /\ \A i \in 1..Len(seen[c]) : seen[c][i].n = written + 1 - i
      /\ Len(seen[c]) = AtMost(TailN, Len(Log))

LongestLine == CHOOSE s \in LineSizes : \A t \in LineSizes : t <= s

(* However the invocations interleave between the size check and the       *)
(* append, a file is too large by at most one line of each other one.      *)
SizeBounded ==
  \A f \in File : size[f] <= MaxBytes + (Cardinality(Cli) - 1) * LongestLine

(* A file that was rotated is full: the longest line would not have fitted *)
(* into it.  So a kill between two renames, after which the next command   *)
(* rotates what is left once more, makes no file rotate early, as long as  *)
(* commands do not overlap (Record: an event would have made it exceed the *)
(* limit).                                                                 *)
RotatedAreFull ==
  ~overlapped =>
    \A k \in Names \ {0} : name[k] # NoFile =>
      size[name[k]] + LongestLine > MaxBytes
=============================================================================
