---------------------------- MODULE TelemetryProofs ----------------------------
(***************************************************************************)
(* The telemetry log, for every number of invocations at once and every    *)
(* limit of the files: its types; how large a file becomes however the     *)
(* invocations interleave; that the files of commands that do not overlap  *)
(* hold the newest events without a gap, and only full ones are rotated;   *)
(* and what telemetry tail shows.                                          *)
(***************************************************************************)
EXTENDS Telemetry, FiniteSetTheorems, SequenceTheorems, WellFoundedInduction,
        TLAPS

-----------------------------------------------------------------------------
(* What an invocation holds follows from its next step.                    *)
HasOpen ==
  \A c \in Cli : /\ pc[c] \in {"read", "run", "append"} => fd[c] \in File
                 /\ pc[c] \in {"idle", "rename", "reopen"} => fd[c] = NoFile
HasLine ==
  \A c \in Cli : pc[c] \in {"remove", "rename", "reopen", "append"} =>
    line[c] \in LineSizes
Moves == \A c \in Cli : pc[c] = "rename" => step[c] \in 0..(MaxFiles - 2)
BusyCli == {c \in Cli : Busy(c)}
Budget  == written + Cardinality(BusyCli) <= MaxEvents

TypeInv == TypeOK /\ HasOpen /\ HasLine /\ Moves /\ Budget

LEMMA SetsOfCli ==
  ASSUME NEW S \in SUBSET Cli
  PROVE  /\ IsFiniteSet(S) /\ Cardinality(S) \in Nat
         /\ Cardinality(S) <= Cardinality(Cli) /\ Cardinality(Cli) \in Nat
         /\ \A c \in Cli : c \notin S =>
              /\ Cardinality(S \cup {c}) = Cardinality(S) + 1
              /\ Cardinality(S) + 1 <= Cardinality(Cli)
         /\ \A c \in S : Cardinality(S \ {c}) = Cardinality(S) - 1
<1>1. IsFiniteSet(Cli)
  BY TelemetryAssumption
<1>2. /\ IsFiniteSet(S) /\ Cardinality(S) <= Cardinality(Cli)
  BY <1>1, FS_Subset
<1>3. Cardinality(S) \in Nat /\ Cardinality(Cli) \in Nat
  BY <1>1, <1>2, FS_CardinalityType
<1>4. ASSUME NEW c \in Cli, c \notin S
      PROVE  /\ Cardinality(S \cup {c}) = Cardinality(S) + 1
             /\ Cardinality(S) + 1 <= Cardinality(Cli)
  <2>1. Cardinality(S \cup {c}) = Cardinality(S) + 1
    BY <1>2, <1>4, FS_AddElement
  <2>2. S \cup {c} \in SUBSET Cli
    BY <1>4
  <2>3. Cardinality(S \cup {c}) <= Cardinality(Cli)
    BY <1>1, <2>2, FS_Subset
  <2> QED BY <2>1, <2>3
<1>5. \A c \in S : Cardinality(S \ {c}) = Cardinality(S) - 1
  BY <1>2, FS_RemoveElement
<1> QED BY <1>2, <1>3, <1>4, <1>5

(* There are files enough.                                                 *)
LEMMA SomeFree ==
  ASSUME TypeOK, NEW c \in Cli, name[0] = NoFile, fd[c] = NoFile
  PROVE  NewFile \in File /\ NewFile \in Free
<1> DEFINE K == 1..(MaxFiles - 1)
           A == {name[k] : k \in K}
           D == Cli \ {c}
           B == {fd[d] : d \in D}
<1>1. /\ MaxFiles \in Nat /\ MaxFiles >= 2 /\ NoFile \notin File
      /\ IsFiniteSet(Cli) /\ IsFiniteSet(File)
      /\ Cardinality(File) >= MaxFiles + Cardinality(Cli) - 1
  BY TelemetryAssumption
<1>2. IsFiniteSet(K) /\ Cardinality(K) = MaxFiles - 1
  BY <1>1, FS_Interval
<1>3. /\ IsFiniteSet(D) /\ Cardinality(D) = Cardinality(Cli) - 1
      /\ Cardinality(Cli) \in Nat
  BY <1>1, FS_RemoveElement, FS_CardinalityType
<1>4. IsFiniteSet(A) /\ Cardinality(A) <= Cardinality(K)
  <2>1. [k \in K |-> name[k]] \in Surjection(K, A)
    BY DEF Surjection
  <2> QED BY <1>2, <2>1, FS_Surjection
<1>5. IsFiniteSet(B) /\ Cardinality(B) <= Cardinality(D)
  <2>1. [d \in D |-> fd[d]] \in Surjection(D, B)
    BY DEF Surjection
  <2> QED BY <1>3, <2>1, FS_Surjection
<1>6. /\ IsFiniteSet(A \cup B)
      /\ Cardinality(A \cup B) <= Cardinality(A) + Cardinality(B)
  <2>1. /\ IsFiniteSet(A \cup B)
        /\ Cardinality(A \cup B) =
             Cardinality(A) + Cardinality(B) - Cardinality(A \cap B)
    BY <1>4, <1>5, FS_Union
  <2>2. Cardinality(A \cap B) \in Nat
    <3>1. IsFiniteSet(A \cap B)
      BY <1>4, FS_Subset
    <3> QED BY <3>1, FS_CardinalityType
  <2>3. Cardinality(A) \in Nat /\ Cardinality(B) \in Nat
    BY <1>4, <1>5, FS_CardinalityType
  <2> QED BY <2>1, <2>2, <2>3
<1>7. Free # {}
  <2>1. SUFFICES ASSUME Free = {} PROVE FALSE
    OBVIOUS
  <2>2. ASSUME NEW f \in File PROVE f \in A \cup B
    <3>1. (\E k \in Names : name[k] = f) \/ (\E d \in Cli : fd[d] = f)
      BY <2>1 DEF Free
    <3>2. \A k \in Names : k = 0 \/ k \in K
      BY <1>1 DEF Names
    <3> QED BY <1>1, <3>1, <3>2
  <2>3. Cardinality(File) <= Cardinality(A \cup B)
    <3>1. File \in SUBSET (A \cup B)
      BY <2>2
    <3> QED BY <1>6, <3>1, FS_Subset
  <2>4. /\ Cardinality(A) \in Nat /\ Cardinality(B) \in Nat
        /\ Cardinality(A \cup B) \in Nat /\ Cardinality(File) \in Nat
    BY <1>1, <1>4, <1>5, <1>6, FS_CardinalityType
  <2> HIDE DEF A, B, K, D
  <2> QED BY <1>1, <1>2, <1>3, <1>4, <1>5, <1>6, <2>3, <2>4
<1> QED BY <1>7 DEF NewFile, Free

LEMMA OpenLogOpens ==
  ASSUME TypeOK, NEW c \in Cli, fd[c] = NoFile, OpenLog(c)
  PROVE  /\ name' \in [Names -> File \cup {NoFile}]
         /\ data' \in [File -> Seq(Event)] /\ size' \in [File -> Nat]
         /\ written' = written
         /\ fd' \in [Cli -> File \cup {NoFile}] /\ fd'[c] \in File
         /\ \A d \in Cli \ {c} : fd'[d] = fd[d]
<1>1. /\ name \in [Names -> File \cup {NoFile}] /\ 0 \in Names
      /\ data \in [File -> Seq(Event)] /\ size \in [File -> Nat]
      /\ fd \in [Cli -> File \cup {NoFile}]
  BY TelemetryAssumption DEF TypeOK, Names
<1>2. CASE name[0] # NoFile
  BY <1>1, <1>2 DEF OpenLog, disk
<1>3. CASE name[0] = NoFile
  <2>1. NewFile \in File
    BY <1>3, SomeFree
  <2>2. <<>> \in Seq(Event) /\ 0 \in Nat
    OBVIOUS
  <2> QED BY <1>1, <1>3, <2>1, <2>2 DEF OpenLog
<1> QED BY <1>2, <1>3

LEMMA TypeInitial == Init => TypeInv
<1> SUFFICES ASSUME Init PROVE TypeInv
  OBVIOUS
<1>1. /\ 0 \in Names /\ NoFile \in File \cup {NoFile} /\ MaxEvents \in Nat
      /\ <<>> \in Seq(Event)
  BY TelemetryAssumption DEF Names
<1>2. TypeOK
  <2>1. /\ name \in [Names -> File \cup {NoFile}]
        /\ data \in [File -> Seq(Event)] /\ size \in [File -> Nat]
        /\ written \in 0..MaxEvents
    BY <1>1 DEF Init
  <2>2. overlapped \in BOOLEAN
    BY DEF Init
  <2>3. /\ pc \in [Cli -> Steps] /\ fd \in [Cli -> File \cup {NoFile}]
        /\ line \in [Cli -> LineSizes \cup {0}] /\ step \in [Cli -> Names]
        /\ seen \in [Cli -> Seq(Event)]
    BY <1>1 DEF Init, Steps
  <2> QED BY <2>1, <2>2, <2>3 DEF TypeOK
<1>3. Budget
  <2>1. BusyCli = {}
    BY DEF Init, BusyCli, Busy
  <2> QED BY <1>1, <2>1, FS_EmptySet DEF Init, Budget
<1> QED BY <1>2, <1>3 DEF Init, TypeInv, HasOpen, HasLine, Moves

(* A step of c is the concern of c alone.                                  *)
LEMMA OthersStay ==
  ASSUME TypeInv, NEW c \in Cli, CliStep(c)
  PROVE  \A d \in Cli \ {c} : /\ pc'[d] = pc[d] /\ fd'[d] = fd[d]
                              /\ line'[d] = line[d] /\ step'[d] = step[d]
<1>1. /\ \A l : Goto(c, l) => \A d \in Cli \ {c} : pc'[d] = pc[d]
      /\ OpenLog(c) => \A d \in Cli \ {c} : fd'[d] = fd[d]
      /\ Leave(c) => \A d \in Cli \ {c} :
           /\ pc'[d] = pc[d] /\ fd'[d] = fd[d]
           /\ line'[d] = line[d] /\ step'[d] = step[d]
  BY DEF TypeInv, TypeOK, Goto, Leave, OpenLog
<1> QED
  BY <1>1 DEF TypeInv, TypeOK, CliStep, StartCommand, StartTail, Start,
     ReadFile, Stat, RemoveOldest, Rename, Reopen, WriteLine, Interrupt

LEMMA BudgetStep ==
  ASSUME TypeInv, NEW c \in Cli, CliStep(c)
  PROVE  Budget' /\ written' \in 0..MaxEvents /\ (Busy(c) => written + 1 <= MaxEvents)
<1>1. /\ written \in Nat /\ MaxEvents \in Nat /\ BusyCli \in SUBSET Cli
      /\ written + Cardinality(BusyCli) <= MaxEvents /\ pc \in [Cli -> Steps]
  BY TelemetryAssumption DEF TypeInv, TypeOK, Budget, BusyCli
<1>2. \A d \in Cli \ {c} : Busy(d)' <=> Busy(d)
  BY OthersStay DEF Busy
<1>3. /\ Cardinality(BusyCli) \in Nat
      /\ c \notin BusyCli => Cardinality(BusyCli \cup {c}) = Cardinality(BusyCli) + 1
      /\ c \in BusyCli => Cardinality(BusyCli \ {c}) = Cardinality(BusyCli) - 1
      /\ Cardinality(BusyCli \ {c}) \in Nat
  <2>1. BusyCli \ {c} \in SUBSET Cli
    BY <1>1
  <2> QED BY <1>1, <2>1, SetsOfCli
<1>4. CASE \E l \in {"run", "read"} : Start(c, l)
  <2>1. c \notin BusyCli /\ BusyCli' = BusyCli \cup {c}
    BY <1>1, <1>2, <1>4 DEF Start, Goto, BusyCli, Busy
  <2>2. written + Cardinality(BusyCli) < MaxEvents /\ ~Busy(c)
    BY <1>4 DEF Start, BusyCli
  <2>3. written' = written
    BY <1>4 DEF Start, OpenLog, disk
  <2> QED BY <1>1, <1>3, <2>1, <2>2, <2>3 DEF Budget
<1>5. CASE Leave(c) /\ Busy(c) /\ written' \in {written, written + 1}
  <2>1. c \in BusyCli /\ BusyCli' = BusyCli \ {c}
    BY <1>1, <1>2, <1>5 DEF Leave, Goto, BusyCli, Busy
  <2> QED BY <1>1, <1>3, <1>5, <2>1 DEF Budget
<1>6. CASE Busy(c) /\ Busy(c)' /\ written' = written
  <2>1. c \in BusyCli /\ BusyCli' = BusyCli
    BY <1>2, <1>6 DEF BusyCli
  <2>2. written + 1 <= MaxEvents
    BY <1>1, <1>3, <2>1
  <2> QED BY <1>1, <1>6, <2>1, <2>2 DEF Budget
<1>7. CASE ReadFile(c) \/ Stat(c) \/ RemoveOldest(c) \/ Rename(c) \/ Reopen(c)
  <2>1. Busy(c) /\ Busy(c)'
    BY <1>1, <1>7 DEF ReadFile, Stat, RemoveOldest, Rename, Reopen, Goto, Busy
  <2>2. written' = written
    BY <1>7 DEF ReadFile, Stat, RemoveOldest, Rename, Reopen, OpenLog, disk
  <2> QED BY <1>6, <2>1, <2>2
<1>8. CASE WriteLine(c) \/ Interrupt(c)
  BY <1>5, <1>8 DEF WriteLine, Interrupt, Busy, disk
<1> QED
  BY <1>4, <1>7, <1>8 DEF CliStep, StartCommand, StartTail

(* What the code holds between its steps, invocation by invocation.        *)
Holding(c) ==
  /\ pc[c] \in {"read", "run", "append"} => fd[c] \in File
  /\ pc[c] \in {"idle", "rename", "reopen"} => fd[c] = NoFile
  /\ pc[c] \in {"remove", "rename", "reopen", "append"} => line[c] \in LineSizes
  /\ pc[c] = "rename" => step[c] \in 0..(MaxFiles - 2)

LEMMA HoldingStep ==
  ASSUME TypeInv, NEW c \in Cli, CliStep(c), Holding(c)'
  PROVE  HasOpen' /\ HasLine' /\ Moves'
<1>1. \A d \in Cli : Holding(d)
  BY DEF TypeInv, HasOpen, HasLine, Moves, Holding
<1>2. \A d \in Cli \ {c} : Holding(d)'
  BY <1>1, OthersStay DEF Holding
<1> QED BY <1>2 DEF HasOpen, HasLine, Moves, Holding

LEMMA NewestTyped ==
  ASSUME TypeOK, NEW f \in File, NEW need \in Int
  PROVE  Newest(f, need) \in Seq(Event)
<1>1. data[f] \in Seq(Event) /\ Len(data[f]) \in Nat
  BY DEF TypeOK
<1> DEFINE n == AtMost(need, Len(data[f]))
<1>2. n \in Int /\ n <= Len(data[f])
  BY <1>1 DEF AtMost
<1> HIDE DEF n
<1>3. \A i \in 1..n : data[f][Len(data[f]) + 1 - i] \in Event
  BY <1>1, <1>2
<1>4. \E m \in Nat : 1..n = 1..m
  <2>1. CASE n \in Nat
    BY <2>1
  <2>2. CASE n \notin Nat
    <3>1. 1..n = 1..0
      BY <1>2, <2>2
    <3> QED BY <3>1
  <2> QED BY <2>1, <2>2
<1>5. [i \in 1..n |-> data[f][Len(data[f]) + 1 - i]] \in Seq(Event)
  <2>1. PICK m \in Nat : 1..n = 1..m
    BY <1>4
  <2>2. [i \in 1..n |-> data[f][Len(data[f]) + 1 - i]] \in [1..m -> Event]
    BY <1>3, <2>1
  <2>3. [1..m -> Event] \in {[1..k -> Event] : k \in Nat}
    OBVIOUS
  <2>4. Seq(Event) = UNION {[1..k -> Event] : k \in Nat}
    BY SeqDef, Zenon
  <2> QED BY <2>2, <2>3, <2>4, Zenon
<1> QED BY <1>5 DEF Newest, n

LEMMA TypeStep ==
  ASSUME TypeInv, NEW c \in Cli, CliStep(c)
  PROVE  TypeInv'
<1>1. /\ name \in [Names -> File \cup {NoFile}]
      /\ data \in [File -> Seq(Event)] /\ size \in [File -> Nat]
      /\ pc \in [Cli -> Steps] /\ fd \in [Cli -> File \cup {NoFile}]
      /\ line \in [Cli -> LineSizes \cup {0}] /\ step \in [Cli -> Names]
      /\ seen \in [Cli -> Seq(Event)] /\ overlapped \in BOOLEAN
      /\ written \in 0..MaxEvents /\ Holding(c) /\ TypeOK
  BY DEF TypeInv, TypeOK, HasOpen, HasLine, Moves, Holding
<1>2. /\ MaxFiles \in Nat /\ MaxFiles >= 2 /\ NoFile \notin File
      /\ LineSizes \subseteq Nat /\ MaxEvents \in Nat /\ MaxBytes \in Nat
      /\ 0 \in Names /\ MaxFiles - 1 \in Names /\ MaxFiles - 2 \in Names
      /\ MaxFiles - 2 \in 0..(MaxFiles - 2)
  BY TelemetryAssumption DEF Names
<1>0. \A l \in Steps : Goto(c, l) => pc' \in [Cli -> Steps] /\ pc'[c] = l
  BY <1>1 DEF Goto
<1>3. Budget' /\ written' \in 0..MaxEvents /\ (Busy(c) => written + 1 <= MaxEvents)
  BY BudgetStep
<1>4. SUFFICES TypeOK' /\ Holding(c)'
  BY <1>3, HoldingStep DEF TypeInv
<1>5. ASSUME NEW l \in {"run", "read"}, Start(c, l)
      PROVE  TypeOK' /\ Holding(c)'
  <2>1. fd[c] = NoFile
    BY <1>1, <1>5 DEF Start, Busy, Holding
  <2>2. overlapped' \in BOOLEAN
    BY <1>1, <1>5 DEF Start
  <2>3. pc' \in [Cli -> Steps] /\ pc'[c] = l
    BY <1>1, <1>5 DEF Start, Goto, Steps
  <2> QED
    BY <1>1, <1>3, <1>5, <2>1, <2>2, <2>3, OpenLogOpens
       DEF Start, TypeOK, Holding
<1>6. CASE ReadFile(c)
  <2>1. fd[c] \in File /\ TailN - Len(seen[c]) \in Int
    BY <1>1, <1>6, TelemetryAssumption DEF ReadFile, Holding
  <2>2. seen' \in [Cli -> Seq(Event)]
    <3>1. ASSUME Readable(name[step[c]])
          PROVE  seen[c] \o Newest(name[step[c]], TailN - Len(seen[c]))
                   \in Seq(Event)
      <4>1. name[step[c]] \in File
        BY <1>1, <3>1 DEF Readable
      <4>2. Newest(name[step[c]], TailN - Len(seen[c])) \in Seq(Event)
        BY <1>1, <2>1, <4>1, NewestTyped
      <4> QED BY <1>1, <4>2
    <3>2. seen' = [seen EXCEPT ![c] =
            IF Readable(name[step[c]])
            THEN seen[c] \o Newest(name[step[c]], TailN - Len(seen[c]))
            ELSE seen[c]]
      BY <1>6 DEF ReadFile
    <3> QED BY <1>1, <3>1, <3>2
  <2>3. /\ pc' \in [Cli -> Steps] /\ pc'[c] \in {"read", "run"}
        /\ step' \in [Cli -> Names]
    <3>1. pc' \in [Cli -> Steps] /\ pc'[c] \in {"read", "run"}
      BY <1>0, <1>1, <1>6 DEF ReadFile, Steps
    <3>2. step' \in [Cli -> Names]
      BY <1>1, <1>2, <1>6 DEF ReadFile
    <3> QED BY <3>1, <3>2
  <2> QED
    BY <1>1, <1>3, <1>6, <2>1, <2>2, <2>3
       DEF ReadFile, TypeOK, Holding, disk
<1>7. CASE Stat(c)
  <2>1. /\ pc' \in [Cli -> Steps] /\ pc'[c] \in {"remove", "append"}
        /\ line' \in [Cli -> LineSizes \cup {0}] /\ line'[c] \in LineSizes
    BY <1>1, <1>7 DEF Stat, Goto, Steps
  <2>2. fd[c] \in File
    BY <1>1, <1>7 DEF Stat, Holding
  <2> QED BY <1>1, <1>3, <1>7, <2>1, <2>2 DEF Stat, TypeOK, Holding, disk
<1>8. CASE RemoveOldest(c)
  <2>1. /\ pc' \in [Cli -> Steps] /\ pc'[c] = "rename"
        /\ fd' \in [Cli -> File \cup {NoFile}] /\ fd'[c] = NoFile
        /\ step' \in [Cli -> Names] /\ step'[c] = MaxFiles - 2
        /\ name' \in [Names -> File \cup {NoFile}]
    <3>1. pc' \in [Cli -> Steps] /\ pc'[c] = "rename"
      BY <1>0, <1>8 DEF RemoveOldest, Steps
    <3> QED BY <1>1, <1>2, <1>8, <3>1 DEF RemoveOldest
  <2>2. line[c] \in LineSizes
    BY <1>1, <1>8 DEF RemoveOldest, Holding
  <2> QED
    BY <1>1, <1>2, <1>3, <1>8, <2>1, <2>2 DEF RemoveOldest, TypeOK, Holding
<1>9. CASE Rename(c)
  <2>1. /\ line[c] \in LineSizes /\ fd[c] = NoFile
        /\ step[c] \in 0..(MaxFiles - 2)
    BY <1>1, <1>9 DEF Rename, Holding
  <2>2. step[c] \in Names /\ step[c] + 1 \in Names
    BY <1>2, <2>1 DEF Names
  <2>3. name' \in [Names -> File \cup {NoFile}]
    BY <1>1, <1>9, <2>2 DEF Rename
  <2>4. /\ pc' \in [Cli -> Steps] /\ pc'[c] \in {"rename", "reopen"}
        /\ step' \in [Cli -> Names]
        /\ pc'[c] = "rename" => step'[c] \in 0..(MaxFiles - 2)
    <3>1. CASE step[c] > 0
      <4>1. step[c] - 1 \in Names /\ step[c] - 1 \in 0..(MaxFiles - 2)
        BY <1>2, <2>1, <3>1 DEF Names
      <4>2. step' = [step EXCEPT ![c] = step[c] - 1] /\ UNCHANGED pc
        BY <1>9, <2>1, <3>1 DEF Rename
      <4> QED BY <1>1, <1>9, <4>1, <4>2 DEF Rename
    <3>2. CASE step[c] = 0
      <4>1. Goto(c, "reopen") /\ UNCHANGED step
        BY <1>9, <3>2 DEF Rename
      <4> QED BY <1>0, <1>1, <4>1 DEF Steps
    <3> QED BY <2>1, <3>1, <3>2
  <2> QED BY <1>1, <1>3, <1>9, <2>1, <2>3, <2>4 DEF Rename, TypeOK, Holding
<1>10. CASE Reopen(c)
  <2>1. fd[c] = NoFile /\ line[c] \in LineSizes
    BY <1>1, <1>10 DEF Reopen, Holding
  <2>2. pc' \in [Cli -> Steps] /\ pc'[c] = "append"
    BY <1>1, <1>10 DEF Reopen, Goto, Steps
  <2> QED
    BY <1>1, <1>3, <1>10, <2>1, <2>2, OpenLogOpens DEF Reopen, TypeOK, Holding
<1>11. ASSUME Leave(c), UNCHANGED <<name, overlapped>>,
              data' \in [File -> Seq(Event)], size' \in [File -> Nat]
       PROVE  TypeOK' /\ Holding(c)'
  <2>1. /\ pc' \in [Cli -> Steps] /\ pc'[c] = "idle"
        /\ fd' \in [Cli -> File \cup {NoFile}] /\ fd'[c] = NoFile
        /\ line' \in [Cli -> LineSizes \cup {0}]
        /\ step' \in [Cli -> Names] /\ seen' \in [Cli -> Seq(Event)]
    <3>1. pc' \in [Cli -> Steps] /\ pc'[c] = "idle"
      BY <1>0, <1>11 DEF Leave, Steps
    <3>2. <<>> \in Seq(Event)
      OBVIOUS
    <3> QED BY <1>1, <1>2, <1>11, <3>1, <3>2 DEF Leave
  <2> QED BY <1>1, <1>3, <1>11, <2>1 DEF TypeOK, Holding
<1>12. CASE WriteLine(c)
  <2>1. fd[c] \in File /\ line[c] \in LineSizes /\ line[c] \in Nat
    BY <1>1, <1>2, <1>12 DEF WriteLine, Holding
  <2>2. [n |-> written + 1, len |-> line[c]] \in Event
    <3>1. Busy(c)
      BY <1>12 DEF WriteLine, Busy
    <3> QED BY <1>1, <1>2, <1>3, <2>1, <3>1 DEF Event
  <2>3. /\ data' \in [File -> Seq(Event)]
        /\ size' \in [File -> Nat]
    BY <1>1, <1>12, <2>1, <2>2 DEF WriteLine
  <2> QED BY <1>11, <1>12, <2>3 DEF WriteLine
<1>13. CASE Interrupt(c)
  BY <1>1, <1>11, <1>13 DEF Interrupt, disk
<1> QED
  BY <1>5, <1>6, <1>7, <1>8, <1>9, <1>10, <1>12, <1>13
     DEF CliStep, StartCommand, StartTail

LEMMA TypeInductive == TypeInv /\ [Next]_vars => TypeInv'
<1>1. CASE UNCHANGED vars
  BY <1>1 DEF vars, disk, local, TypeInv, TypeOK, HasOpen, HasLine, Moves,
     Budget, BusyCli, Busy
<1> QED BY <1>1, TypeStep DEF Next

(* The variables of the log keep their types: an invocation has a file     *)
(* open and a line whenever it needs them, and the renames never leave the *)
(* names there are (Record and rotate in telemetry.go).                    *)
THEOREM TelemetryTyped == Spec => []TypeOK
<1>1. TypeInv => TypeOK
  BY DEF TypeInv
<1> QED BY <1>1, TypeInitial, TypeInductive, PTL DEF Spec

-----------------------------------------------------------------------------
(* How large a file becomes.                                               *)

(* The invocations that will append to f without a look at its size: they  *)
(* have looked, or have rotated and are to open what the log is then.      *)
Pending(f) == {c \in Cli : \/ pc[c] = "append" /\ fd[c] = f
                           \/ pc[c] = "reopen" /\ name[0] = f}

Lines(n) == n * LongestLine
Limit    == MaxBytes + Lines(Cardinality(Cli) - 1)

(* There is room for a line of each of them: the one that looked last saw  *)
(* that its own fits.                                                      *)
Room(f) ==
  \/ size[f] + Lines(Cardinality(Pending(f))) <= Limit
  \/ \E c \in Pending(f) :
       size[f] + line[c] + Lines(Cardinality(Pending(f)) - 1) <= Limit
RoomInv == \A f \in File : Room(f)

LEMMA LineLengths ==
  /\ LongestLine \in Nat /\ 1 <= LongestLine /\ LongestLine <= MaxBytes
  /\ \A s \in LineSizes : s \in Nat /\ 1 <= s /\ s <= LongestLine
  /\ MaxBytes \in Nat
<1>1. LongestLine \in LineSizes /\ \A t \in LineSizes : t <= LongestLine
  BY TelemetryAssumption DEF LongestLine
<1> QED BY <1>1, TelemetryAssumption

LEMMA LinesAddUp ==
  /\ \A n \in Int : /\ Lines(n) \in Int
                    /\ Lines(n + 1) = Lines(n) + LongestLine
                    /\ Lines(n - 1) = Lines(n) - LongestLine
  /\ \A m, n \in Int : m <= n => Lines(m) <= Lines(n)
  /\ Lines(0) = 0
  /\ Limit \in Int /\ Limit = MaxBytes + Lines(Cardinality(Cli)) - LongestLine
  /\ Limit = MaxBytes + Lines(Cardinality(Cli) - 1)
<1>1. LongestLine \in Nat /\ MaxBytes \in Nat /\ Cardinality(Cli) \in Nat
  BY LineLengths, TelemetryAssumption, FS_CardinalityType
<1>2. \A n \in Int : /\ Lines(n) \in Int
                     /\ Lines(n + 1) = Lines(n) + LongestLine
                     /\ Lines(n - 1) = Lines(n) - LongestLine
  BY <1>1 DEF Lines
<1>3. ASSUME NEW m \in Int, NEW n \in Int, m <= n
      PROVE  Lines(m) <= Lines(n)
  <2>1. (n - m) \in Nat
    BY <1>3
  <2>2. (n - m) * LongestLine \in Nat
    BY <1>1, <2>1
  <2>3. n * LongestLine = m * LongestLine + (n - m) * LongestLine
    BY <1>1
  <2>4. m * LongestLine \in Int
    BY <1>1
  <2> QED BY <2>2, <2>3, <2>4 DEF Lines
<1>4. Lines(0) = 0
  BY <1>1 DEF Lines
<1>5. /\ Lines(Cardinality(Cli) - 1) = Lines(Cardinality(Cli)) - LongestLine
      /\ Lines(Cardinality(Cli) - 1) \in Int /\ Lines(Cardinality(Cli)) \in Int
  <2>1. Cardinality(Cli) \in Int /\ Cardinality(Cli) - 1 \in Int
    BY <1>1
  <2> QED BY <1>2, <2>1
<1>6. /\ Limit \in Int /\ Limit = MaxBytes + Lines(Cardinality(Cli) - 1)
      /\ Limit = MaxBytes + Lines(Cardinality(Cli)) - LongestLine
  BY <1>1, <1>5 DEF Limit
<1> QED BY <1>2, <1>3, <1>4, <1>6

LEMMA PendingSets ==
  /\ \A f : /\ Pending(f) \in SUBSET Cli
            /\ Cardinality(Pending(f)) \in Nat
            /\ Cardinality(Pending(f)) <= Cardinality(Cli)
            /\ \A c \in Cli : c \notin Pending(f) =>
                 /\ Cardinality(Pending(f) \cup {c}) = Cardinality(Pending(f)) + 1
                 /\ Cardinality(Pending(f)) + 1 <= Cardinality(Cli)
            /\ \A c \in Pending(f) :
                 Cardinality(Pending(f) \ {c}) = Cardinality(Pending(f)) - 1
  /\ Cardinality(Cli) \in Nat
<1>1. \A f : Pending(f) \in SUBSET Cli
  BY DEF Pending
<1>2. Cardinality(Cli) \in Nat
  BY TelemetryAssumption, FS_CardinalityType
<1> QED BY <1>1, <1>2, SetsOfCli

LEMMA PendingLines ==
  ASSUME TypeInv, NEW f, NEW c \in Pending(f)
  PROVE  line[c] \in Nat /\ 1 <= line[c] /\ line[c] <= LongestLine
BY LineLengths DEF TypeInv, HasLine, Pending

LEMMA RoomBounds ==
  ASSUME TypeInv, RoomInv
  PROVE  SizeBounded
<1> SUFFICES ASSUME NEW f \in File
             PROVE  size[f] <= MaxBytes + (Cardinality(Cli) - 1) * LongestLine
  BY DEF SizeBounded
<1>1. size[f] \in Nat /\ Room(f)
  BY DEF TypeInv, TypeOK, RoomInv
<1> DEFINE n == Cardinality(Pending(f))
<1>2. n \in Nat /\ n >= 0
  BY PendingSets
<1>3. size[f] <= Limit
  <2>1. CASE size[f] + Lines(n) <= Limit
    <3>1. Lines(n) \in Int /\ Lines(n) >= 0 /\ Limit \in Int
      BY <1>2, LinesAddUp
    <3> HIDE DEF n
    <3> QED BY <1>1, <2>1, <3>1
  <2>2. ASSUME NEW c \in Pending(f), size[f] + line[c] + Lines(n - 1) <= Limit
        PROVE  size[f] <= Limit
    <3>1. line[c] \in Nat
      BY PendingLines
    <3>2. n - 1 >= 0 /\ n - 1 \in Int
      <4>1. Cardinality(Pending(f) \ {c}) = n - 1
        BY PendingSets
      <4>2. Pending(f) \ {c} \in SUBSET Cli
        BY PendingSets
      <4> QED BY <1>2, <4>1, <4>2, SetsOfCli
    <3>3. Lines(n - 1) >= 0 /\ Lines(n - 1) \in Int /\ Limit \in Int
      BY <3>2, LinesAddUp
    <3> HIDE DEF n
    <3> QED BY <1>1, <2>2, <3>1, <3>3
  <2> QED BY <1>1, <2>1, <2>2 DEF Room
<1> QED BY <1>3 DEF Limit, Lines

-----------------------------------------------------------------------------
(* Room is left when a pending invocation goes, when it has written its    *)
(* line, and in a file that is new.                                        *)
LEMMA RoomShrinks ==
  ASSUME TypeInv, TypeInv', NEW f \in File, Room(f),
         Pending(f)' \subseteq Pending(f), size'[f] = size[f],
         \A c \in Pending(f)' : line'[c] = line[c]
  PROVE  Room(f)'
<1> DEFINE m == Cardinality(Pending(f)')
           n == Cardinality(Pending(f))
<1>1. /\ size[f] \in Nat /\ n \in Nat /\ Pending(f) \in SUBSET Cli
      /\ IsFiniteSet(Pending(f)) /\ m \in Nat /\ Limit \in Int
  BY PendingSets, SetsOfCli, LinesAddUp DEF TypeInv, TypeOK
<1>2. m <= n
  BY <1>1, FS_Subset
<1>3. Lines(m) \in Int /\ Lines(n) \in Int /\ Lines(m) <= Lines(n)
  BY <1>1, <1>2, LinesAddUp
<1>4. Lines(m - 1) = Lines(m) - LongestLine /\ Lines(n - 1) = Lines(n) - LongestLine
  <2>1. m \in Int /\ n \in Int
    BY <1>1
  <2> HIDE DEF m, n
  <2> QED BY <2>1, LinesAddUp
<1>5. LongestLine \in Nat
  BY LineLengths
<1>6. CASE size[f] + Lines(n) <= Limit
  <2>1. size'[f] + Lines(m) <= Limit
    <3> HIDE DEF m, n
    <3> QED BY <1>1, <1>3, <1>6
  <2> QED BY <2>1 DEF Room, Limit, Lines, LongestLine
<1>7. ASSUME NEW c \in Pending(f), size[f] + line[c] + Lines(n - 1) <= Limit
      PROVE  Room(f)'
  <2>1. line[c] \in Nat
    BY PendingLines
  <2>2. CASE c \in Pending(f)'
    <3>1. size'[f] + line'[c] + Lines(m - 1) <= Limit
      <4>1. line'[c] = line[c]
        BY <2>2
      <4> HIDE DEF m, n
      <4> QED BY <1>1, <1>3, <1>4, <1>5, <1>7, <2>1, <4>1
    <3> QED BY <2>2, <3>1 DEF Room, Limit, Lines, LongestLine
  <2>3. CASE c \notin Pending(f)'
    <3>1. m <= n - 1
      <4>1. Pending(f)' \in SUBSET (Pending(f) \ {c})
        BY <2>3
      <4>2. /\ IsFiniteSet(Pending(f) \ {c})
            /\ Cardinality(Pending(f) \ {c}) = n - 1
        BY <1>1, <1>7, FS_RemoveElement
      <4> QED BY <4>1, <4>2, FS_Subset
    <3>2. Lines(m) <= Lines(n - 1)
      BY <1>1, <3>1, LinesAddUp
    <3>3. size'[f] + Lines(m) <= Limit
      <4> HIDE DEF m, n
      <4> QED BY <1>1, <1>3, <1>4, <1>5, <1>7, <2>1, <3>2
    <3> QED BY <3>3 DEF Room, Limit, Lines, LongestLine
  <2> QED BY <2>2, <2>3
<1> QED BY <1>6, <1>7 DEF Room

LEMMA RoomAfterWrite ==
  ASSUME TypeInv, TypeInv', NEW f \in File, Room(f), NEW c \in Pending(f),
         Pending(f)' = Pending(f) \ {c}, size'[f] = size[f] + line[c],
         \A d \in Pending(f)' : line'[d] = line[d]
  PROVE  Room(f)'
<1> DEFINE m == Cardinality(Pending(f)')
           n == Cardinality(Pending(f))
<1>1. /\ size[f] \in Nat /\ n \in Nat /\ Limit \in Int /\ m = n - 1
  BY PendingSets, LinesAddUp DEF TypeInv, TypeOK
<1>2. /\ Lines(m) \in Int /\ Lines(n) \in Int
      /\ Lines(m) = Lines(n) - LongestLine
      /\ Lines(m - 1) = Lines(m) - LongestLine /\ Lines(n - 1) = Lines(m)
  BY <1>1, LinesAddUp
<1>3. LongestLine \in Nat /\ line[c] \in Nat /\ line[c] <= LongestLine
  BY LineLengths, PendingLines
<1>4. CASE size[f] + Lines(n) <= Limit
  <2>1. size'[f] + Lines(m) <= Limit
    <3> HIDE DEF m, n
    <3> QED BY <1>1, <1>2, <1>3, <1>4
  <2> QED BY <2>1 DEF Room, Limit, Lines, LongestLine
<1>5. ASSUME NEW d \in Pending(f), size[f] + line[d] + Lines(n - 1) <= Limit
      PROVE  Room(f)'
  <2>1. line[d] \in Nat
    BY PendingLines
  <2>2. CASE d = c
    <3>1. size'[f] + Lines(m) <= Limit
      <4> HIDE DEF m, n
      <4> QED BY <1>1, <1>2, <1>3, <1>5, <2>2
    <3> QED BY <3>1 DEF Room, Limit, Lines, LongestLine
  <2>3. CASE d # c
    <3>1. d \in Pending(f)' /\ line'[d] = line[d]
      BY <2>3
    <3>2. size'[f] + line'[d] + Lines(m - 1) <= Limit
      <4> HIDE DEF m, n
      <4> QED BY <1>1, <1>2, <1>3, <1>5, <2>1, <3>1
    <3> QED BY <3>1, <3>2 DEF Room, Limit, Lines, LongestLine
  <2> QED BY <2>2, <2>3
<1> QED BY <1>4, <1>5 DEF Room

LEMMA RoomInNewFile ==
  ASSUME NEW f \in File, size'[f] = 0
  PROVE  Room(f)'
<1> DEFINE m == Cardinality(Pending(f)')
<1>1. m \in Nat /\ m <= Cardinality(Cli) /\ Cardinality(Cli) \in Nat
  <2>1. Pending(f)' \in SUBSET Cli
    BY DEF Pending
  <2> QED BY <2>1, SetsOfCli
<1>2. Lines(m) <= Lines(Cardinality(Cli)) /\ Lines(m) \in Int
  <2>1. m \in Int /\ Cardinality(Cli) \in Int
    BY <1>1
  <2> HIDE DEF m
  <2> QED BY <1>1, <2>1, LinesAddUp
<1>3. /\ Limit = MaxBytes + Lines(Cardinality(Cli)) - LongestLine
      /\ Lines(Cardinality(Cli)) \in Int /\ Limit \in Int
      /\ LongestLine \in Nat /\ MaxBytes \in Nat /\ LongestLine <= MaxBytes
  BY <1>1, LineLengths, LinesAddUp
<1>4. size'[f] + Lines(m) <= Limit
  <2> HIDE DEF m
  <2> QED BY <1>2, <1>3
<1> QED BY <1>4 DEF Room, Limit, Lines, LongestLine

(* An invocation that looks and finds room.                                *)
LEMMA RoomSeen ==
  ASSUME TypeInv, NEW f \in File, NEW c \in Cli, c \notin Pending(f),
         Pending(f)' = Pending(f) \cup {c}, size'[f] = size[f],
         line'[c] \in Nat, size[f] + line'[c] <= MaxBytes
  PROVE  Room(f)'
<1> DEFINE m == Cardinality(Pending(f)')
           n == Cardinality(Pending(f))
<1>1. m = n + 1 /\ n \in Nat /\ n + 1 <= Cardinality(Cli)
  BY PendingSets
<1>2. Cardinality(Cli) \in Nat /\ size[f] \in Nat /\ n <= Cardinality(Cli) - 1
  <2>1. Cardinality(Cli) \in Nat /\ size[f] \in Nat
    BY PendingSets DEF TypeInv, TypeOK
  <2> HIDE DEF n
  <2> QED BY <1>1, <2>1
<1>3. size'[f] + line'[c] + Lines(m - 1) <= Limit
  <2>1. m - 1 = n
    BY <1>1
  <2>2. n \in Int /\ Cardinality(Cli) - 1 \in Int
    BY <1>1, <1>2
  <2>3. /\ Lines(n) <= Lines(Cardinality(Cli) - 1) /\ Lines(n) \in Int
        /\ Lines(Cardinality(Cli) - 1) \in Int
    <3> HIDE DEF n
    <3> QED BY <1>2, <2>2, LinesAddUp
  <2>4. /\ Limit = MaxBytes + Lines(Cardinality(Cli) - 1) /\ Limit \in Int
        /\ MaxBytes \in Nat
    BY LineLengths, LinesAddUp
  <2> HIDE DEF m, n
  <2> QED BY <1>2, <2>1, <2>3, <2>4
<1>4. c \in Pending(f)'
  OBVIOUS
<1> QED BY <1>3, <1>4 DEF Room, Limit, Lines, LongestLine

(* A step of c that neither writes to f nor makes c pending, and makes f   *)
(* the log only if it was.                                                 *)
LEMMA RoomKept ==
  ASSUME TypeInv, TypeInv', NEW c \in Cli, CliStep(c),
         NEW f \in File, Room(f), size'[f] = size[f],
         name'[0] = f => name[0] = f,
         c \in Pending(f)' => c \in Pending(f) /\ line'[c] = line[c]
  PROVE  Room(f)'
<1>1. \A d \in Pending(f)' : d \in Pending(f) /\ line'[d] = line[d]
  BY OthersStay DEF Pending
<1> QED BY <1>1, RoomShrinks

LEMMA RoomOpenLog ==
  ASSUME TypeInv, TypeInv', NEW c \in Cli, CliStep(c), OpenLog(c),
         pc[c] \in {"idle", "reopen"}, UNCHANGED line,
         pc'[c] = IF pc[c] = "idle" THEN pc'[c] ELSE "append",
         pc'[c] = "append" => pc[c] = "reopen", pc'[c] # "reopen",
         NEW f \in File, Room(f)
  PROVE  Room(f)'
<1>1. /\ fd[c] = NoFile /\ TypeOK /\ NoFile \notin File
      /\ name \in [Names -> File \cup {NoFile}] /\ 0 \in Names
      /\ size \in [File -> Nat] /\ fd \in [Cli -> File \cup {NoFile}]
  <2>1. TypeOK /\ fd[c] = NoFile
    BY DEF TypeInv, HasOpen
  <2>2. NoFile \notin File /\ 0 \in Names
    BY TelemetryAssumption DEF Names
  <2> QED BY <2>1, <2>2 DEF TypeOK
<1>2. CASE name[0] # NoFile
  <2>1. fd'[c] = name[0] /\ UNCHANGED disk
    BY <1>1, <1>2 DEF OpenLog
  <2>2. c \in Pending(f)' => c \in Pending(f)
    BY <2>1 DEF Pending
  <2> QED BY <2>1, <2>2, RoomKept DEF disk
<1>3. CASE name[0] = NoFile
  <2>1. NewFile \in File
    BY <1>1, <1>3, SomeFree
  <2>2. /\ name'[0] = NewFile /\ fd'[c] = NewFile /\ size'[NewFile] = 0
        /\ f # NewFile => size'[f] = size[f]
    BY <1>1, <1>3, <2>1 DEF OpenLog
  <2>3. CASE f = NewFile
    BY <2>2, <2>3, RoomInNewFile
  <2>4. CASE f # NewFile
    <3>1. c \notin Pending(f)'
      BY <2>2, <2>4 DEF Pending
    <3> QED BY <2>2, <2>4, <3>1, RoomKept
  <2> QED BY <2>3, <2>4
<1> QED BY <1>2, <1>3

LEMMA RoomStep ==
  ASSUME TypeInv, RoomInv, NEW c \in Cli, CliStep(c)
  PROVE  RoomInv'
<1>1. TypeInv'
  BY TypeStep
<1> SUFFICES ASSUME NEW f \in File PROVE Room(f)'
  BY DEF RoomInv
<1>2. /\ Room(f) /\ NoFile \notin File /\ MaxFiles \in Nat /\ MaxFiles >= 2
      /\ name \in [Names -> File \cup {NoFile}] /\ 0 \in Names
      /\ size \in [File -> Nat] /\ fd \in [Cli -> File \cup {NoFile}]
      /\ pc \in [Cli -> Steps] /\ line \in [Cli -> LineSizes \cup {0}]
      /\ step \in [Cli -> Names]
  BY TelemetryAssumption DEF RoomInv, TypeInv, TypeOK, Names
<1>3. CASE \E l \in {"run", "read"} : Start(c, l)
  <2>1. OpenLog(c) /\ pc[c] = "idle" /\ pc'[c] \in {"run", "read"}
        /\ UNCHANGED line
    BY <1>2, <1>3 DEF Start, Busy, Goto
  <2> QED BY <1>1, <1>2, <2>1, RoomOpenLog
<1>4. CASE Reopen(c)
  <2>1. OpenLog(c) /\ pc[c] = "reopen" /\ pc'[c] = "append" /\ UNCHANGED line
    BY <1>2, <1>4 DEF Reopen, Goto
  <2> QED BY <1>1, <1>2, <2>1, RoomOpenLog
<1>5. CASE ReadFile(c)
  <2>1. pc'[c] \in {"read", "run"} /\ UNCHANGED disk
    BY <1>2, <1>5 DEF ReadFile, Goto
  <2>2. c \notin Pending(f)'
    BY <2>1 DEF Pending
  <2> QED BY <1>1, <1>2, <2>1, <2>2, RoomKept DEF disk
<1>6. CASE Stat(c)
  <2>1. /\ pc[c] = "run" /\ UNCHANGED <<disk, fd>> /\ line'[c] \in LineSizes
        /\ pc'[c] = IF TooLarge(fd[c], line'[c]) THEN "remove" ELSE "append"
    BY <1>2, <1>6 DEF Stat, Goto
  <2>2. c \notin Pending(f) /\ UNCHANGED <<name, size>>
    BY <2>1 DEF Pending, disk
  <2>3. CASE pc'[c] = "append" /\ fd[c] = f
    <3>1. size[f] + line'[c] <= MaxBytes
      <4>1. ~TooLarge(f, line'[c])
        BY <2>1, <2>3
      <4>2. line'[c] \in Nat /\ MaxBytes \in Nat /\ size[f] \in Nat
        BY <1>2, <2>1, LineLengths
      <4> QED BY <4>1, <4>2 DEF TooLarge
    <3>2. Pending(f)' = Pending(f) \cup {c}
      BY <2>1, <2>2, <2>3, OthersStay DEF Pending
    <3>3. line'[c] \in Nat
      BY <2>1, LineLengths
    <3> QED BY <2>2, <3>1, <3>2, <3>3, RoomSeen
  <2>4. CASE ~(pc'[c] = "append" /\ fd[c] = f)
    <3>1. c \notin Pending(f)'
      BY <2>1, <2>4 DEF Pending
    <3> QED BY <1>1, <1>2, <2>2, <3>1, RoomKept
  <2> QED BY <2>3, <2>4
<1>7. CASE RemoveOldest(c)
  <2>1. pc'[c] = "rename" /\ name'[0] = name[0] /\ UNCHANGED size
    BY <1>2, <1>7 DEF RemoveOldest, Goto
  <2>2. c \notin Pending(f)'
    BY <2>1 DEF Pending
  <2> QED BY <1>1, <1>2, <2>1, <2>2, RoomKept
<1>8. CASE Rename(c)
  <2>1. step[c] \in Nat /\ UNCHANGED size
    BY <1>2, <1>8 DEF Rename, Names
  <2>2. CASE step[c] > 0
    <3>1. pc'[c] = "rename" /\ name'[0] = name[0]
      BY <1>2, <1>8, <2>1, <2>2 DEF Rename
    <3>2. c \notin Pending(f)'
      BY <3>1 DEF Pending
    <3> QED BY <1>1, <1>2, <2>1, <3>1, <3>2, RoomKept
  <2>3. CASE step[c] = 0
    <3>1. name'[0] = NoFile /\ pc'[c] = "reopen"
      BY <1>2, <1>8, <2>3 DEF Rename, Goto
    <3>2. c \notin Pending(f)'
      BY <1>2, <3>1 DEF Pending
    <3> QED BY <1>1, <1>2, <2>1, <3>1, <3>2, RoomKept
  <2> QED BY <2>1, <2>2, <2>3
<1>9. ASSUME Leave(c)
      PROVE  pc'[c] = "idle" /\ c \notin Pending(f)'
  <2>1. pc'[c] = "idle"
    BY <1>2, <1>9 DEF Leave, Goto
  <2> QED BY <2>1 DEF Pending
<1>10. CASE WriteLine(c)
  <2>1. /\ pc[c] = "append" /\ fd[c] \in File /\ UNCHANGED name
        /\ size' = [size EXCEPT ![fd[c]] = @ + line[c]] /\ Leave(c)
    BY <1>10 DEF WriteLine, TypeInv, HasOpen
  <2>2. CASE f = fd[c]
    <3>1. c \in Pending(f) /\ size'[f] = size[f] + line[c]
      BY <1>2, <2>1, <2>2 DEF Pending
    <3>2. Pending(f)' = Pending(f) \ {c}
      BY <1>9, <2>1, OthersStay DEF Pending
    <3>3. \A d \in Pending(f)' : line'[d] = line[d]
      BY <3>2, OthersStay DEF Pending
    <3> QED BY <1>1, <1>2, <3>1, <3>2, <3>3, RoomAfterWrite
  <2>3. CASE f # fd[c]
    <3>1. size'[f] = size[f]
      BY <1>2, <2>1, <2>3
    <3> QED BY <1>1, <1>2, <1>9, <2>1, <3>1, RoomKept
  <2> QED BY <2>2, <2>3
<1>11. CASE Interrupt(c)
  BY <1>1, <1>2, <1>9, <1>11, RoomKept DEF Interrupt, disk
<1> QED
  BY <1>3, <1>4, <1>5, <1>6, <1>7, <1>8, <1>10, <1>11
     DEF CliStep, StartCommand, StartTail

LEMMA RoomInductive == TypeInv /\ RoomInv /\ [Next]_vars => RoomInv'
<1>1. ASSUME TypeInv, RoomInv, UNCHANGED vars
      PROVE  RoomInv'
  BY <1>1 DEF vars, disk, local, RoomInv, Room, Pending
<1> QED BY <1>1, RoomStep DEF Next

(* However many invocations look at the size of the log, rotate it and     *)
(* append to it in whatever order, and wherever one is killed, a file is   *)
(* too large by at most one line of each other one (Record and rotate in   *)
(* telemetry.go, whose mutex is of one process only).                      *)
THEOREM FilesAreBounded == Spec => []SizeBounded
<1>1. Init => RoomInv
  <2> SUFFICES ASSUME Init, NEW f \in File PROVE Room(f)
    BY DEF RoomInv
  <2>1. Pending(f) = {} /\ size[f] = 0
    BY DEF Init, Pending
  <2>2. Cardinality(Pending(f)) = 0 /\ Cardinality(Cli) \in Nat
    BY <2>1, FS_EmptySet, PendingSets
  <2>3. 0 <= Limit /\ Lines(0) = 0
    <3>1. /\ Limit = MaxBytes + Lines(Cardinality(Cli)) - LongestLine
          /\ Lines(Cardinality(Cli)) \in Int /\ Limit \in Int
          /\ Lines(Cardinality(Cli)) >= Lines(0) /\ Lines(0) = 0
      BY <2>2, LinesAddUp
    <3>2. LongestLine \in Nat /\ MaxBytes \in Nat /\ LongestLine <= MaxBytes
      BY LineLengths
    <3> QED BY <3>1, <3>2
  <2> QED BY <2>1, <2>2, <2>3 DEF Room
<1>2. TypeInv /\ RoomInv => SizeBounded
  BY RoomBounds
<1> QED
  BY <1>1, <1>2, TypeInitial, TypeInductive, RoomInductive, PTL DEF Spec

-----------------------------------------------------------------------------
(* Kept is defined by recursion over the names.  The library's induction   *)
(* theorems take an operator; its theorem about least elements takes a     *)
(* set, and gives induction over the members of a set.                     *)
LEMMA LessThan == \A x, y \in Nat : <<x, y>> \in OpToRel(<, Nat) <=> x < y
BY Zenon DEF OpToRel

LEMMA LeastOf ==
  ASSUME NEW T \in SUBSET Nat, T # {}
  PROVE  \E x \in T : \A y \in T : x <= y
<1>1. PICK x \in T : \A y \in T : ~ (<<y, x>> \in OpToRel(<, Nat))
  BY NatLessThanWellFounded, WFMin, Zenon
<1>2. \A y \in T : ~(y < x)
  BY <1>1, LessThan, Zenon
<1> QED BY <1>2

LEMMA SetInduction ==
  ASSUME NEW T, 0 \in T, \A n \in Nat : n \in T => n + 1 \in T
  PROVE  Nat \subseteq T
<1>1. SUFFICES ASSUME Nat \ T # {} PROVE FALSE
  OBVIOUS
<1>2. PICK x \in Nat \ T : \A y \in Nat \ T : x <= y
  BY <1>1, LeastOf
<1>3. x # 0 /\ x - 1 \in Nat /\ x - 1 \notin Nat \ T
  BY <1>2
<1> QED BY <1>2, <1>3

LEMMA NameInduction ==
  ASSUME NEW T, 0 \in T, \A k \in Names : k # 0 /\ k - 1 \in T => k \in T
  PROVE  \A k \in Names : k \in T
<1> DEFINE S == {n \in Nat : n \in Names => n \in T}
<1>1. 0 \in S
  OBVIOUS
<1>2. ASSUME NEW n \in Nat, n \in S PROVE n + 1 \in S
  <2> SUFFICES ASSUME n + 1 \in Names PROVE n + 1 \in T
    OBVIOUS
  <2>1. n \in Names /\ n + 1 # 0 /\ (n + 1) - 1 = n
    BY TelemetryAssumption DEF Names
  <2> QED BY <1>2, <2>1
<1>3. Nat \subseteq S
  <2> HIDE DEF S
  <2> QED BY <1>1, <1>2, SetInduction
<1> QED BY <1>3 DEF Names

(* What the file of one name adds to the log, and what is kept before it.  *)
Part(k)   == IF name[k] = NoFile THEN <<>> ELSE data[name[k]]
Before(k) == IF k = 0 THEN <<>> ELSE Kept[k - 1]

LEMMA KeptUnfolds == \A k \in Names : Kept[k] = Part(k) \o Before(k)
<1> DEFINE Rec(g, k) == Part(k) \o (IF k = 0 THEN <<>> ELSE g[k - 1])
           S == {n \in Nat : \E g : \A k \in 0..n : g[k] = Rec(g, k)}
<1>1. 0 \in S
  <2> DEFINE g == [k \in {0} |-> Rec(<<>>, 0)]
  <2>1. g[0] = Rec(<<>>, 0) /\ Rec(g, 0) = Rec(<<>>, 0) /\ 0..0 = {0}
    OBVIOUS
  <2>2. \A k \in 0..0 : g[k] = Rec(g, k)
    <3> HIDE DEF g, Rec
    <3> QED BY <2>1
  <2>3. \E e : \A k \in 0..0 : e[k] = Rec(e, k)
    <3> HIDE DEF g
    <3> QED BY <2>2, Zenon
  <2> HIDE DEF Rec
  <2> QED BY <2>3
<1>2. ASSUME NEW n \in Nat, n \in S PROVE n + 1 \in S
  <2>1. PICK g : \A k \in 0..n : g[k] = Rec(g, k)
    BY <1>2
  <2> DEFINE h == [k \in 0..(n + 1) |-> IF k = n + 1 THEN Rec(g, k) ELSE g[k]]
  <2>2. ASSUME NEW k \in 0..(n + 1) PROVE h[k] = Rec(h, k)
    <3>1. k # 0 => k - 1 \in 0..n /\ h[k - 1] = g[k - 1]
      OBVIOUS
    <3>2. Rec(h, k) = Rec(g, k)
      BY <3>1
    <3>3. h[k] = Rec(g, k)
      <4>1. CASE k = n + 1
        BY <4>1
      <4>2. CASE k # n + 1
        BY <2>1, <4>2
      <4> QED BY <4>1, <4>2
    <3> QED BY <3>2, <3>3
  <2>3. \E f : \A k \in 0..(n + 1) : f[k] = Rec(f, k)
    <3> HIDE DEF h
    <3> QED BY <2>2, Zenon
  <2> HIDE DEF Rec
  <2> QED BY <2>3
<1>3. Nat \subseteq S
  <2> HIDE DEF S
  <2> QED BY <1>1, <1>2, SetInduction
<1>4. MaxFiles - 1 \in Nat /\ Names = 0..(MaxFiles - 1)
  BY TelemetryAssumption DEF Names
<1>5. PICK g : \A k \in Names : g[k] = Rec(g, k)
  BY <1>3, <1>4
<1> DEFINE f == [k \in Names |-> g[k]]
<1>6. f = [k \in Names |-> Rec(f, k)]
  <2>1. ASSUME NEW k \in Names PROVE f[k] = Rec(f, k)
    <3>1. k # 0 => k - 1 \in Names
      BY <1>4
    <3> QED BY <1>5, <3>1
  <2> QED BY <2>1
<1>7. \E e : e = [k \in Names |-> Rec(e, k)]
  <2> HIDE DEF f
  <2> QED BY <1>6
<1>8. Kept = [k \in Names |-> Rec(Kept, k)]
  BY <1>7, Zenon DEF Kept, Part
<1> QED BY <1>8, Zenon DEF Before

LEMMA KeptUnfoldsNext == (\A k \in Names : Kept[k] = Part(k) \o Before(k))'
BY KeptUnfolds, PTL

LEMMA Joins ==
  /\ \A s \in Seq(Event) : <<>> \o s = s /\ s \o <<>> = s
  /\ \A s, t \in Seq(Event) : s \o t \in Seq(Event)
<1>1. ASSUME NEW s \in Seq(Event) PROVE <<>> \o s = s /\ s \o <<>> = s
  OBVIOUS
<1>2. ASSUME NEW s \in Seq(Event), NEW t \in Seq(Event)
      PROVE  s \o t \in Seq(Event)
  OBVIOUS
<1> QED BY <1>1, <1>2, Zenon

LEMMA KeptTyped ==
  ASSUME TypeOK
  PROVE  \A k \in Names : /\ Part(k) \in Seq(Event) /\ Before(k) \in Seq(Event)
                          /\ Kept[k] \in Seq(Event)
<1>1. \A k \in Names : Part(k) \in Seq(Event)
  BY DEF TypeOK, Part
<1> DEFINE T == {k \in Names : Kept[k] \in Seq(Event)}
<1>2. 0 \in T
  <2>1. 0 \in Names /\ Before(0) = <<>>
    BY TelemetryAssumption DEF Names, Before
  <2>2. Kept[0] = Part(0) \o <<>>
    BY <2>1, KeptUnfolds
  <2> QED BY <1>1, <2>1, <2>2
<1>3. ASSUME NEW k \in Names, k # 0, k - 1 \in T PROVE k \in T
  <2>1. Kept[k] = Part(k) \o Kept[k - 1]
    BY <1>3, KeptUnfolds DEF Before
  <2>2. Kept[k] \in Seq(Event)
    BY <1>1, <1>3, <2>1, Joins
  <2> QED BY <2>2
<1>4. \A k \in Names : Kept[k] \in Seq(Event)
  <2>1. \A k \in Names : k \in T
    <3> HIDE DEF T
    <3> QED BY <1>2, <1>3, NameInduction
  <2> QED BY <2>1
<1>5. ASSUME NEW k \in Names PROVE Before(k) \in Seq(Event)
  <2>1. k # 0 => k - 1 \in Names
    BY TelemetryAssumption DEF Names
  <2> QED BY <1>4, <2>1 DEF Before
<1> QED BY <1>1, <1>4, <1>5

(* How a step changes what is kept: one name is emptied under which there  *)
(* was nothing or the oldest file, a file moves up to an empty name, or an *)
(* event is appended to the log.                                           *)
LEMMA KeptSame ==
  ASSUME \A k \in Names : Part(k)' = Part(k)
  PROVE  \A k \in Names : Kept'[k] = Kept[k]
<1> DEFINE T == {k \in Names : Kept'[k] = Kept[k]}
<1>1. /\ \A k \in Names : Kept[k] = Part(k) \o Before(k)
      /\ \A k \in Names : Kept'[k] = Part(k)' \o Before(k)'
      /\ 0 \in Names
  BY KeptUnfolds, KeptUnfoldsNext, TelemetryAssumption DEF Names
<1>2. 0 \in T
  BY <1>1 DEF Before
<1>3. ASSUME NEW k \in Names, k # 0, k - 1 \in T PROVE k \in T
  BY <1>1, <1>3 DEF Before
<1>4. \A k \in Names : k \in T
  <2> HIDE DEF T
  <2> QED BY <1>2, <1>3, NameInduction
<1> QED BY <1>4

LEMMA KeptAppended ==
  ASSUME TypeOK, NEW e \in Event, Part(0)' = Append(Part(0), e),
         \A k \in Names : k # 0 => Part(k)' = Part(k)
  PROVE  \A k \in Names : Kept'[k] = Append(Kept[k], e)
<1> DEFINE T == {k \in Names : Kept'[k] = Append(Kept[k], e)}
<1>1. /\ \A k \in Names : Kept[k] = Part(k) \o Before(k)
      /\ \A k \in Names : Kept'[k] = Part(k)' \o Before(k)'
      /\ 0 \in Names
  BY KeptUnfolds, KeptUnfoldsNext, TelemetryAssumption DEF Names
<1>2. \A k \in Names : Part(k) \in Seq(Event) /\ Kept[k] \in Seq(Event)
  BY KeptTyped
<1>3. 0 \in T
  <2>1. Kept[0] = Part(0) \o <<>> /\ Kept'[0] = Append(Part(0), e) \o <<>>
    BY <1>1 DEF Before
  <2>2. Kept[0] = Part(0) /\ Kept'[0] = Append(Part(0), e)
    BY <1>1, <1>2, <2>1
  <2> QED BY <1>1, <2>2
<1>4. ASSUME NEW k \in Names, k # 0, k - 1 \in T PROVE k \in T
  <2>1. Kept[k] = Part(k) \o Kept[k - 1] /\ Kept'[k] = Part(k) \o Append(Kept[k - 1], e)
    BY <1>1, <1>4 DEF Before
  <2>2. Part(k) \in Seq(Event) /\ Kept[k - 1] \in Seq(Event)
    BY <1>2, <1>4
  <2>3. Part(k) \o Append(Kept[k - 1], e) = Append(Part(k) \o Kept[k - 1], e)
    <3> DEFINE s == Part(k)
               t == Kept[k - 1]
    <3>1. s \in Seq(Event) /\ t \in Seq(Event)
      BY <2>2
    <3> HIDE DEF s, t
    <3>2. s \o Append(t, e) = Append(s \o t, e)
      BY <3>1
    <3> QED BY <3>2 DEF s, t
  <2> QED BY <2>1, <2>3
<1>5. \A k \in Names : k \in T
  <2> HIDE DEF T
  <2> QED BY <1>3, <1>4, NameInduction
<1> QED BY <1>5

LEMMA KeptMoved ==
  ASSUME TypeOK, NEW m \in Names, m + 1 \in Names, Part(m + 1) = <<>>,
         Part(m)' = <<>>, Part(m + 1)' = Part(m),
         \A k \in Names \ {m, m + 1} : Part(k)' = Part(k)
  PROVE  \A k \in Names : Kept'[k] = IF k = m THEN Before(m) ELSE Kept[k]
<1> DEFINE T == {k \in Names : Kept'[k] = IF k = m THEN Before(m) ELSE Kept[k]}
<1>1. /\ \A k \in Names : Kept[k] = Part(k) \o Before(k)
      /\ \A k \in Names : Kept'[k] = Part(k)' \o Before(k)'
      /\ 0 \in Names /\ Names \subseteq Nat
  BY KeptUnfolds, KeptUnfoldsNext, TelemetryAssumption DEF Names
<1>2. \A k \in Names : Part(k) \in Seq(Event) /\ Before(k) \in Seq(Event)
                       /\ Kept[k] \in Seq(Event)
  BY KeptTyped
<1>3. ASSUME NEW k \in Names, k # 0 => k - 1 \in T PROVE k \in T
  <2>1. CASE k = m
    <3>1. Before(k)' = Before(k)
      BY <1>1, <1>3, <2>1 DEF Before
    <3>2. Kept'[k] = <<>> \o Before(k)
      BY <1>1, <2>1, <3>1
    <3>3. Kept'[k] = Before(k)
      BY <1>2, <3>2, Joins
    <3> QED BY <2>1, <3>3
  <2>2. CASE k = m + 1
    <3>1. k # 0 /\ k - 1 = m /\ Kept'[m] = Before(m)
      BY <1>1, <1>3, <2>2
    <3>2. Kept'[k] = Part(m) \o Before(m)
      BY <1>1, <2>2, <3>1 DEF Before
    <3>3. Kept[k] = <<>> \o Kept[m]
      BY <1>1, <2>2, <3>1 DEF Before
    <3>4. Kept[k] = Kept[m] /\ Kept[m] = Part(m) \o Before(m)
      BY <1>1, <1>2, <3>3, Joins
    <3>5. k # m
      BY <1>1, <2>2
    <3>6. Kept'[k] = Kept[k]
      BY <3>2, <3>4
    <3> QED BY <3>5, <3>6
  <2>3. CASE k \notin {m, m + 1}
    <3>1. Before(k)' = Before(k)
      BY <1>1, <1>3, <2>3 DEF Before
    <3> QED BY <1>1, <2>3, <3>1
  <2> QED BY <2>1, <2>2, <2>3
<1>4. \A k \in Names : k \in T
  <2>1. 0 \in T
    BY <1>1, <1>3
  <2> HIDE DEF T
  <2> QED BY <1>3, <2>1, NameInduction
<1> QED BY <1>4

LEMMA KeptCut ==
  ASSUME TypeOK, Part(MaxFiles - 1)' = <<>>,
         \A k \in Names \ {MaxFiles - 1} : Part(k)' = Part(k)
  PROVE  \A k \in Names :
           Kept'[k] = IF k = MaxFiles - 1 THEN Before(k) ELSE Kept[k]
<1> DEFINE T == {k \in Names :
                   Kept'[k] = IF k = MaxFiles - 1 THEN Before(k) ELSE Kept[k]}
<1>1. /\ \A k \in Names : Kept[k] = Part(k) \o Before(k)
      /\ \A k \in Names : Kept'[k] = Part(k)' \o Before(k)'
      /\ 0 \in Names /\ Names = 0..(MaxFiles - 1) /\ MaxFiles \in Nat
  BY KeptUnfolds, KeptUnfoldsNext, TelemetryAssumption DEF Names
<1>2. \A k \in Names : Before(k) \in Seq(Event)
  BY KeptTyped
<1>3. ASSUME NEW k \in Names, k # 0 => k - 1 \in T PROVE k \in T
  <2>1. Before(k)' = Before(k)
    <3>1. k # 0 => k - 1 # MaxFiles - 1
      BY <1>1
    <3> QED BY <1>3, <3>1 DEF Before
  <2>2. CASE k = MaxFiles - 1
    <3>1. Kept'[k] = <<>> \o Before(k)
      BY <1>1, <2>1, <2>2
    <3>2. Kept'[k] = Before(k)
      BY <1>2, <3>1, Joins
    <3> QED BY <2>2, <3>2
  <2>3. CASE k # MaxFiles - 1
    BY <1>1, <2>1, <2>3
  <2> QED BY <2>2, <2>3
<1>4. \A k \in Names : k \in T
  <2>1. 0 \in T
    BY <1>1, <1>3
  <2> HIDE DEF T
  <2> QED BY <1>3, <2>1, NameInduction
<1> QED BY <1>4

-----------------------------------------------------------------------------
(* What a user meets whose commands do not overlap: one command at work,   *)
(* which has the file open that is called the log, and moves files to      *)
(* names that are free.                                                    *)
OneName   == \A j, k \in Names : name[j] = name[k] => j = k \/ name[j] = NoFile
Rested    == \A c \in Cli : pc[c] = "idle" => step[c] = 0 /\ seen[c] = <<>>
OneAtWork == \A c, d \in Cli : Busy(c) /\ Busy(d) => c = d
OpensLog  == \A c \in Cli : pc[c] \in {"read", "run", "append"} => fd[c] = name[0]
MovesUp   == \A c \in Cli : pc[c] = "rename" => name[step[c] + 1] = NoFile

(* The last event of s is the newest, and before it they are in order.     *)
Dense(s)  == \A i \in 1..Len(s) : s[i].n = written - Len(s) + i
KeptDense == \A k \in Names : Dense(Kept[k])

SerialLog == ~overlapped => OneAtWork /\ OpensLog /\ MovesUp /\ KeptDense

LogInv == OneName /\ Rested /\ SerialLog

(* What telemetry tail has when it is about to read the file of name k.    *)
Collected(c, k) ==
  /\ Len(seen[c]) = AtMost(TailN, Len(Before(k)))
  /\ \A i \in 1..Len(seen[c]) : seen[c][i].n = written + 1 - i
Scannable == \A i \in 1..Len(Log) : Log[i].len <= ScanLimit
TailInv ==
  ~overlapped /\ Scannable => \A c \in Cli :
    /\ pc[c] = "read" => Collected(c, step[c])
    /\ pc[c] = "run" /\ seen[c] # <<>> => Collected(c, MaxFiles)

LEMMA LogInitial == Init => LogInv /\ TailInv
<1> SUFFICES ASSUME Init PROVE LogInv /\ TailInv
  OBVIOUS
<1>1. 0 \in Names /\ \A k \in Names : Part(k) = <<>>
  BY TelemetryAssumption DEF Init, Part, Names
<1> DEFINE T == {k \in Names : Kept[k] = <<>>}
<1>2. 0 \in T
  <2>1. Kept[0] = <<>> \o <<>>
    BY <1>1, KeptUnfolds DEF Before
  <2> QED BY <1>1, <2>1
<1>3. ASSUME NEW k \in Names, k # 0, k - 1 \in T PROVE k \in T
  <2>1. Kept[k] = <<>> \o <<>>
    BY <1>1, <1>3, KeptUnfolds DEF Before
  <2> QED BY <2>1
<1>4. \A k \in Names : k \in T
  <2> HIDE DEF T
  <2> QED BY <1>2, <1>3, NameInduction
<1>5. KeptDense
  BY <1>4 DEF KeptDense, Dense
<1>6. OneName /\ Rested /\ OneAtWork /\ OpensLog /\ MovesUp
  BY DEF Init, OneName, Rested, OneAtWork, OpensLog, MovesUp, Busy
<1>7. TailInv
  BY DEF Init, TailInv
<1> QED BY <1>5, <1>6, <1>7 DEF LogInv, SerialLog

LEMMA OthersRest ==
  ASSUME TypeInv, NEW c \in Cli, CliStep(c)
  PROVE  \A d \in Cli \ {c} : seen'[d] = seen[d]
BY DEF TypeInv, TypeOK, Leave, CliStep, StartCommand, StartTail, Start,
   ReadFile, Stat, RemoveOldest, Rename, Reopen, WriteLine, Interrupt

(* As long as commands do not overlap the others have nothing in hand.     *)
LEMMA Alone ==
  ASSUME TypeInv, LogInv, NEW c \in Cli, CliStep(c), ~overlapped'
  PROVE  /\ ~overlapped /\ OneAtWork /\ OpensLog /\ MovesUp /\ KeptDense
         /\ \A d \in Cli \ {c} : pc[d] = "idle" /\ pc'[d] = "idle"
<1>1. /\ overlapped \in BOOLEAN
      /\ \A d \in Cli \ {c} : pc'[d] = pc[d]
  BY OthersStay DEF TypeInv, TypeOK
<1>2. CASE StartCommand(c) \/ StartTail(c)
  BY <1>1, <1>2 DEF StartCommand, StartTail, Start, Busy, LogInv, SerialLog
<1>3. CASE Busy(c) /\ overlapped' = overlapped
  BY <1>1, <1>3 DEF LogInv, SerialLog, OneAtWork, Busy
<1> QED
  BY <1>2, <1>3 DEF CliStep, Busy, ReadFile, Stat, RemoveOldest, Rename,
     Reopen, WriteLine, Interrupt, disk

(* Opening the log changes nothing that is kept.                           *)
LEMMA OpenLogKeeps ==
  ASSUME TypeInv, OneName, NEW c \in Cli, fd[c] = NoFile, OpenLog(c)
  PROVE  /\ OneName' /\ fd'[c] = name'[0] /\ written' = written
         /\ \A k \in Names : Part(k)' = Part(k)
<1>1. /\ name \in [Names -> File \cup {NoFile}] /\ 0 \in Names
      /\ data \in [File -> Seq(Event)] /\ fd \in [Cli -> File \cup {NoFile}]
      /\ NoFile \notin File /\ TypeOK
  BY TelemetryAssumption DEF TypeInv, TypeOK, Names
<1>2. CASE name[0] # NoFile
  BY <1>1, <1>2 DEF OpenLog, disk, OneName, Part
<1>3. CASE name[0] = NoFile
  <2>1. NewFile \in File /\ NewFile \in Free
    BY <1>1, <1>3, SomeFree
  <2>2. \A k \in Names : name[k] # NewFile
    BY <2>1 DEF Free
  <2>3. /\ name' = [name EXCEPT ![0] = NewFile]
        /\ data' = [data EXCEPT ![NewFile] = <<>>]
        /\ fd' = [fd EXCEPT ![c] = NewFile] /\ written' = written
    BY <1>3 DEF OpenLog
  <2>4. OneName'
    BY <1>1, <1>3, <2>1, <2>2, <2>3 DEF OneName
  <2>5. \A k \in Names : Part(k)' = Part(k)
    BY <1>1, <1>3, <2>1, <2>2, <2>3 DEF Part
  <2> QED BY <1>1, <2>3, <2>4, <2>5
<1> QED BY <1>2, <1>3

(* What is kept stays dense.                                               *)
LEMMA DenseStep ==
  ASSUME TypeInv, KeptDense, written' = written,
         \A k \in Names : Kept'[k] = Kept[k] \/ Kept'[k] = Before(k)
  PROVE  KeptDense'
<1>1. ASSUME NEW k \in Names PROVE Dense(Before(k))
  <2>1. k # 0 => k - 1 \in Names
    BY TelemetryAssumption DEF Names
  <2>2. CASE k = 0
    BY <2>2 DEF Before, Dense
  <2> QED BY <2>1, <2>2 DEF KeptDense, Before
<1>2. ASSUME NEW k \in Names PROVE Dense(Kept[k])'
  BY <1>1 DEF KeptDense, Dense
<1> QED BY <1>2 DEF KeptDense

LEMMA DenseAppend ==
  ASSUME TypeInv, KeptDense, written' = written + 1, NEW e \in Event,
         e.n = written + 1,
         \A k \in Names : Kept'[k] = Append(Kept[k], e)
  PROVE  KeptDense'
<1>1. ASSUME NEW k \in Names PROVE Dense(Kept[k])'
  <2> DEFINE s == Kept[k]
             t == Kept'[k]
  <2>0. written \in Nat
    BY TelemetryAssumption DEF TypeInv, TypeOK
  <2>1. s \in Seq(Event) /\ t = Append(s, e)
        /\ \A i \in 1..Len(s) : s[i].n = written - Len(s) + i
    BY KeptTyped DEF KeptDense, Dense, TypeInv
  <2> HIDE DEF s, t
  <2>2. /\ Len(t) = Len(s) + 1 /\ Len(s) \in Nat
        /\ \A i \in 1..Len(s) : t[i] = s[i]
        /\ t[Len(s) + 1] = e
    BY <2>1, AppendProperties, LenProperties
  <2>3. ASSUME NEW i \in 1..Len(t) PROVE t[i].n = written' - Len(t) + i
    <3>1. CASE i = Len(s) + 1
      BY <2>0, <2>1, <2>2, <3>1
    <3>2. CASE i # Len(s) + 1
      <4>1. i \in 1..Len(s)
        BY <2>2, <3>2
      <4> QED BY <2>0, <2>1, <2>2, <4>1
    <3> QED BY <3>1, <3>2
  <2> QED BY <2>3 DEF Dense, t
<1> QED BY <1>1 DEF KeptDense

LEMMA LogStep ==
  ASSUME TypeInv, LogInv, NEW c \in Cli, CliStep(c)
  PROVE  LogInv'
<1>1. /\ name \in [Names -> File \cup {NoFile}] /\ 0 \in Names
      /\ data \in [File -> Seq(Event)] /\ fd \in [Cli -> File \cup {NoFile}]
      /\ pc \in [Cli -> Steps] /\ step \in [Cli -> Names]
      /\ seen \in [Cli -> Seq(Event)]
      /\ NoFile \notin File /\ TypeOK /\ Names = 0..(MaxFiles - 1)
      /\ MaxFiles \in Nat /\ MaxFiles >= 2
  BY TelemetryAssumption DEF TypeInv, TypeOK, Names
<1>2. OneName /\ Rested
  BY DEF LogInv
<1>3. SUFFICES /\ OneName'
               /\ pc'[c] = "idle" => step'[c] = 0 /\ seen'[c] = <<>>
               /\ ~overlapped' =>
                    /\ pc'[c] \in {"read", "run", "append"} => fd'[c] = name'[0]
                    /\ pc'[c] = "rename" => name'[step'[c] + 1] = NoFile
                    /\ KeptDense'
  <2>1. Rested'
    BY <1>2, <1>3, OthersStay, OthersRest DEF Rested
  <2>2. ASSUME ~overlapped' PROVE OneAtWork' /\ OpensLog' /\ MovesUp'
    BY <1>3, <2>2, Alone DEF OneAtWork, OpensLog, MovesUp, Busy
  <2> QED BY <1>3, <2>1, <2>2 DEF LogInv, SerialLog
<1>4. ASSUME written' = written, \A k \in Names : Part(k)' = Part(k),
             ~overlapped'
      PROVE  KeptDense'
  BY <1>4, KeptSame, DenseStep, Alone
<1>5. ASSUME OpenLog(c), fd[c] = NoFile, pc'[c] \in {"read", "run", "append"}
      PROVE  /\ OneName' /\ fd'[c] = name'[0]
             /\ ~overlapped' => KeptDense'
  BY <1>2, <1>4, <1>5, OpenLogKeeps
<1>6. ASSUME NEW l \in {"run", "read"}, Start(c, l)
      PROVE  /\ OneName' /\ pc'[c] = l /\ fd'[c] = name'[0]
             /\ ~overlapped' => KeptDense'
  <2>1. fd[c] = NoFile /\ pc'[c] = l
    BY <1>1, <1>6 DEF Start, Goto, Busy, TypeInv, HasOpen
  <2> QED BY <1>5, <1>6, <2>1 DEF Start
<1>7. CASE ReadFile(c) \/ Stat(c) \/ Interrupt(c)
  <2>1. UNCHANGED disk
    BY <1>7 DEF ReadFile, Stat, Interrupt
  <2>2. OneName' /\ (~overlapped' => KeptDense')
    BY <1>2, <1>4, <2>1 DEF OneName, Part, disk
  <2>3. CASE Interrupt(c)
    BY <1>1, <2>2, <2>3 DEF Interrupt, Leave, Goto
  <2>4. CASE ReadFile(c) \/ Stat(c)
    <3>1. /\ pc'[c] \in {"read", "run", "remove", "append"}
          /\ pc[c] \in {"read", "run"} /\ fd' = fd
      BY <1>1, <2>4 DEF ReadFile, Stat, Goto
    <3>2. ~overlapped' => fd[c] = name[0]
      BY <3>1, Alone DEF OpensLog
    <3> QED BY <2>1, <2>2, <3>1, <3>2 DEF disk
  <2> QED BY <1>7, <2>3, <2>4
<1>8. CASE RemoveOldest(c)
  <2>1. /\ name' = [name EXCEPT ![MaxFiles - 1] = NoFile] /\ data' = data
        /\ step'[c] = MaxFiles - 2 /\ pc'[c] = "rename" /\ written' = written
        /\ MaxFiles - 1 \in Names
    BY <1>1, <1>8 DEF RemoveOldest, Goto
  <2>2. OneName'
    BY <1>1, <1>2, <2>1 DEF OneName
  <2>3. name'[step'[c] + 1] = NoFile
    <3>1. step'[c] + 1 = MaxFiles - 1
      BY <1>1, <2>1
    <3> QED BY <1>1, <2>1, <3>1
  <2>4. ASSUME ~overlapped' PROVE KeptDense'
    <3>1. /\ Part(MaxFiles - 1)' = <<>>
          /\ \A k \in Names \ {MaxFiles - 1} : Part(k)' = Part(k)
      BY <1>1, <2>1 DEF Part
    <3>2. \A k \in Names : Kept'[k] = Kept[k] \/ Kept'[k] = Before(k)
      BY <1>1, <3>1, KeptCut
    <3> QED BY <2>1, <2>4, <3>2, Alone, DenseStep
  <2> QED BY <2>1, <2>2, <2>3, <2>4
<1>9. CASE Rename(c)
  <2>0. PICK m : m = step[c]
    OBVIOUS
  <2>1. /\ m \in 0..(MaxFiles - 2) /\ m \in Names /\ m + 1 \in Names
        /\ pc[c] = "rename" /\ UNCHANGED <<data, written>>
    BY <1>1, <1>9, <2>0 DEF Rename, TypeInv, Moves
  <2>2. \/ /\ name[m] # NoFile
           /\ name' = [name EXCEPT ![m] = NoFile, ![m + 1] = name[m]]
        \/ name[m] = NoFile /\ name' = name
    BY <1>9, <2>0 DEF Rename
  <2>3. name'[m] = NoFile /\ OneName'
    <3>1. CASE name' = name
      <4>1. name[m] = NoFile
        BY <1>1, <2>1, <2>2, <3>1
      <4> QED BY <1>2, <3>1, <4>1 DEF OneName
    <3>2. CASE name' = [name EXCEPT ![m] = NoFile, ![m + 1] = name[m]]
      <4>1. m # m + 1
        BY <2>1
      <4>2. /\ name'[m] = NoFile /\ name'[m + 1] = name[m]
            /\ \A k \in Names \ {m, m + 1} : name'[k] = name[k]
        BY <1>1, <2>1, <3>2, <4>1
      <4>3. OneName'
        BY <1>2, <2>1, <4>1, <4>2 DEF OneName
      <4> QED BY <4>2, <4>3
    <3> QED BY <2>2, <3>1, <3>2
  <2>4. /\ pc'[c] \in {"rename", "reopen"}
        /\ pc'[c] = "rename" => step'[c] + 1 = m
    <3>1. CASE m > 0
      <4>1. step' = [step EXCEPT ![c] = m - 1] /\ pc' = pc
        BY <1>9, <2>0, <2>1, <3>1 DEF Rename
      <4> QED BY <1>1, <2>1, <4>1
    <3>2. CASE m = 0
      BY <1>1, <1>9, <2>0, <2>1, <3>2 DEF Rename, Goto
    <3> QED BY <2>1, <3>1, <3>2
  <2>5. ASSUME ~overlapped' PROVE KeptDense'
    <3>1. name[m + 1] = NoFile
      BY <2>0, <2>1, <2>5, Alone DEF MovesUp
    <3>2. CASE name' = name
      BY <1>4, <2>1, <2>5, <3>2 DEF Part
    <3>3. CASE name' # name
      <4>1. /\ Part(m + 1) = <<>> /\ Part(m)' = <<>>
            /\ Part(m + 1)' = Part(m)
            /\ \A k \in Names \ {m, m + 1} : Part(k)' = Part(k)
        <5>1. /\ name[m] # NoFile /\ data' = data /\ m # m + 1
              /\ name' = [name EXCEPT ![m] = NoFile, ![m + 1] = name[m]]
          BY <2>1, <2>2, <3>3
        <5>2. /\ name'[m] = NoFile /\ name'[m + 1] = name[m]
              /\ \A k \in Names \ {m, m + 1} : name'[k] = name[k]
          BY <1>1, <2>1, <5>1
        <5>3. Part(m + 1) = <<>> /\ Part(m)' = <<>> /\ Part(m + 1)' = Part(m)
          BY <3>1, <5>1, <5>2 DEF Part
        <5>4. ASSUME NEW k \in Names \ {m, m + 1} PROVE Part(k)' = Part(k)
          <6>1. name'[k] = name[k] /\ data' = data
            BY <5>1, <5>2, <5>4
          <6> QED BY <6>1 DEF Part
        <5> QED BY <5>3, <5>4
      <4>2. \A k \in Names : Kept'[k] = IF k = m THEN Before(m) ELSE Kept[k]
        <5>1. TypeOK /\ m \in Names /\ m + 1 \in Names
          BY <1>1, <2>1
        <5> QED BY <4>1, <5>1, KeptMoved
      <4>3. \A k \in Names : Kept'[k] = Kept[k] \/ Kept'[k] = Before(k)
        BY <4>2
      <4> QED BY <2>1, <2>5, <4>3, Alone, DenseStep
    <3> QED BY <3>2, <3>3
  <2> QED BY <2>3, <2>4, <2>5
<1>10. CASE Reopen(c)
  <2>1. fd[c] = NoFile /\ pc'[c] = "append"
    BY <1>1, <1>10 DEF Reopen, Goto, TypeInv, HasOpen
  <2> QED BY <1>5, <1>10, <2>1 DEF Reopen
<1>11. CASE WriteLine(c)
  <2> DEFINE e == [n |-> written + 1, len |-> line[c]]
  <2>1. /\ pc[c] = "append" /\ fd[c] \in File /\ name' = name
        /\ data' = [data EXCEPT ![fd[c]] = Append(data[fd[c]], e)]
        /\ written' = written + 1
        /\ pc'[c] = "idle" /\ step'[c] = 0 /\ seen'[c] = <<>>
    BY <1>1, <1>11 DEF WriteLine, Leave, Goto, TypeInv, HasOpen
  <2>2. OneName'
    BY <1>2, <2>1 DEF OneName
  <2>3. ASSUME ~overlapped' PROVE KeptDense'
    <3>1. fd[c] = name[0]
      BY <2>1, <2>3, Alone DEF OpensLog
    <3>2. /\ Part(0)' = Append(Part(0), e)
          /\ \A k \in Names : k # 0 => Part(k)' = Part(k)
      BY <1>1, <1>2, <2>1, <3>1 DEF OneName, Part
    <3>3. e \in Event
      <4>1. /\ written \in Nat /\ MaxEvents \in Nat /\ written + 1 <= MaxEvents
            /\ line[c] \in LineSizes
        BY <2>1, BudgetStep, TelemetryAssumption
           DEF TypeInv, TypeOK, Busy, HasLine
      <4> QED BY <4>1 DEF Event
    <3>4. \A k \in Names : Kept'[k] = Append(Kept[k], e)
      <4> HIDE DEF e
      <4> QED BY <1>1, <3>2, <3>3, KeptAppended
    <3>5. e.n = written + 1
      OBVIOUS
    <3> HIDE DEF e
    <3> QED BY <2>1, <2>3, <3>3, <3>4, <3>5, Alone, DenseAppend
  <2> QED BY <2>1, <2>2, <2>3
<1> QED
  BY <1>6, <1>7, <1>8, <1>9, <1>10, <1>11 DEF CliStep, StartCommand, StartTail

LEMMA LogInductive == TypeInv /\ LogInv /\ [Next]_vars => LogInv'
<1>1. CASE UNCHANGED vars
  <2>1. \A k \in Names : Kept'[k] = Kept[k]
    BY <1>1, KeptSame DEF vars, disk, Part
  <2> QED
    BY <1>1, <2>1 DEF vars, disk, local, LogInv, OneName, Rested, SerialLog,
       OneAtWork, OpensLog, MovesUp, KeptDense, Dense, Busy
<1> QED BY <1>1, LogStep DEF Next

(* What the files hold is the newest events in their order, without a gap, *)
(* also while rotate is moving the names and when a command is killed      *)
(* between two renames, as long as commands do not overlap (Record and     *)
(* rotate in telemetry.go).                                                *)
THEOREM LogIsWhole == Spec => []LogHasNoGap
<1>1. TypeInv /\ LogInv => LogHasNoGap
  <2> SUFFICES ASSUME TypeInv, LogInv, ~overlapped
               PROVE  /\ \A i \in 1..(Len(Log) - 1) : Log[i + 1].n = Log[i].n + 1
                      /\ Log # <<>> => Log[Len(Log)].n = written
    BY DEF LogHasNoGap
  <2>1. /\ Log \in Seq(Event) /\ Dense(Log) /\ written \in Nat
    <3>1. MaxFiles - 1 \in Names
      BY TelemetryAssumption DEF Names
    <3>2. written \in Nat
      BY TelemetryAssumption DEF TypeInv, TypeOK
    <3> QED BY <3>1, <3>2, KeptTyped DEF Log, LogInv, SerialLog, KeptDense, TypeInv
  <2> DEFINE s == Log
  <2>2. /\ s \in Seq(Event)
        /\ \A i \in 1..Len(s) : s[i].n = written - Len(s) + i
    BY <2>1 DEF Dense
  <2> HIDE DEF s
  <2>3. Len(s) \in Nat /\ (s # <<>> => Len(s) # 0)
    BY <2>2
  <2>4. ASSUME NEW i \in 1..(Len(s) - 1) PROVE s[i + 1].n = s[i].n + 1
    <3>1. i \in 1..Len(s) /\ i + 1 \in 1..Len(s)
      BY <2>3
    <3>2. /\ s[i].n = written - Len(s) + i
          /\ s[i + 1].n = written - Len(s) + (i + 1)
      BY <2>2, <3>1
    <3> QED BY <2>1, <2>3, <3>2
  <2>5. s # <<>> => s[Len(s)].n = written
    BY <2>1, <2>2, <2>3
  <2> QED BY <2>4, <2>5 DEF s
<1> QED
  BY <1>1, TypeInitial, TypeInductive, LogInitial, LogInductive, PTL DEF Spec

-----------------------------------------------------------------------------
(* What telemetry tail collects.                                           *)

(* When every line of the log can be scanned, so can those of each file.   *)
LEMMA ScannableParts ==
  ASSUME TypeOK, Scannable, NEW k \in Names
  PROVE  \A i \in 1..Len(Kept[k]) : Kept[k][i].len <= ScanLimit
<1> DEFINE Scans(s) == \A i \in 1..Len(s) : s[i].len <= ScanLimit
           S == {n \in Nat : n < MaxFiles => Scans(Kept[MaxFiles - 1 - n])}
<1>1. Names = 0..(MaxFiles - 1) /\ MaxFiles \in Nat
  BY TelemetryAssumption DEF Names
<1>2. 0 \in S
  <2>1. MaxFiles - 1 - 0 = MaxFiles - 1
    BY <1>1
  <2> QED BY <2>1 DEF Scannable, Log
<1>3. ASSUME NEW n \in Nat, n \in S PROVE n + 1 \in S
  <2> SUFFICES ASSUME n + 1 < MaxFiles
               PROVE  Scans(Kept[MaxFiles - 1 - (n + 1)])
    BY DEF S
  <2> DEFINE j == MaxFiles - 1 - n
             p == Part(j)
             b == Kept[j - 1]
  <2>1. j \in Names /\ j # 0 /\ j - 1 \in Names /\ j - 1 = MaxFiles - 1 - (n + 1)
        /\ Scans(Kept[j])
    BY <1>1, <1>3
  <2>2. Kept[j] = p \o b
    BY <2>1, KeptUnfolds DEF Before
  <2>3. p \in Seq(Event) /\ b \in Seq(Event)
    BY <2>1, KeptTyped
  <2>4. Scans(p \o b)
    BY <2>1, <2>2
  <2>5. Scans(b)
    <3> HIDE DEF p, b, j, S
    <3>1. /\ Len(p) \in Nat /\ Len(b) \in Nat /\ Len(p \o b) = Len(p) + Len(b)
          /\ \A i \in 1..(Len(p) + Len(b)) :
               (p \o b)[i] = IF i <= Len(p) THEN p[i] ELSE b[i - Len(p)]
      BY <2>3, ConcatProperties, LenProperties
    <3>2. ASSUME NEW i \in 1..Len(b) PROVE b[i].len <= ScanLimit
      <4>1. /\ i + Len(p) \in 1..Len(p \o b) /\ (i + Len(p)) - Len(p) = i
            /\ ~(i + Len(p) <= Len(p))
        BY <3>1
      <4>2. (p \o b)[i + Len(p)] = b[i]
        BY <3>1, <4>1
      <4> QED BY <2>4, <4>1, <4>2
    <3> QED BY <3>2
  <2> QED BY <2>1, <2>5
<1>4. Nat \subseteq S
  <2> HIDE DEF S
  <2> QED BY <1>2, <1>3, SetInduction
<1>5. PICK n \in Nat : n < MaxFiles /\ MaxFiles - 1 - n = k
  <2>1. MaxFiles - 1 - k \in Nat /\ MaxFiles - 1 - k < MaxFiles
    BY <1>1
  <2> QED BY <1>1, <2>1
<1>6. n \in S
  BY <1>4, <1>5
<1>7. Scans(Kept[MaxFiles - 1 - n])
  BY <1>5, <1>6
<1> QED BY <1>5, <1>7

LEMMA AtMostLeast ==
  ASSUME NEW m \in Int, NEW n \in Int
  PROVE  /\ AtMost(m, n) \in Int /\ AtMost(m, n) <= m /\ AtMost(m, n) <= n
         /\ AtMost(m, n) = m \/ AtMost(m, n) = n
BY DEF AtMost

(* The events of s number down from w, or up to w.                         *)
CountsDown(s, w) == \A i \in 1..Len(s) : s[i].n = w + 1 - i
CountsUp(s, w)   == \A i \in 1..Len(s) : s[i].n = w - Len(s) + i

(* The newest of p put after s, when s holds the newest that follow p, lb  *)
(* of them.                                                                *)
LEMMA NewestJoined ==
  ASSUME NEW s \in Seq(Event), NEW p \in Seq(Event), NEW q \in Seq(Event),
         NEW lb \in Nat, NEW w \in Nat,
         Len(s) = AtMost(TailN, lb),
         CountsDown(s, w), CountsUp(p, w - lb),
         Len(q) = AtMost(TailN - Len(s), Len(p)),
         \A i \in 1..Len(q) : q[i] = p[Len(p) + 1 - i]
  PROVE  Len(s \o q) = AtMost(TailN, Len(p) + lb) /\ CountsDown(s \o q, w)
<1>1. PICK ls, lp, h :
        ls = Len(s) /\ lp = Len(p) /\ h = AtMost(TailN - Len(s), Len(p))
  OBVIOUS
<1>2. TailN \in Nat /\ ls \in Nat /\ lp \in Nat
  BY <1>1, TelemetryAssumption, LenProperties
<1>3. /\ ls <= TailN
      /\ (ls = TailN /\ TailN <= lb) \/ (ls = lb /\ lb <= TailN)
      /\ h \in Nat /\ h <= lp /\ h <= TailN - ls
      /\ (h = TailN - ls) \/ (h = lp)
  <2>1. ls = AtMost(TailN, lb) /\ h = AtMost(TailN - ls, lp)
    BY <1>1
  <2>2. ls <= TailN /\ ((ls = TailN /\ TailN <= lb) \/ (ls = lb /\ lb <= TailN))
    BY <1>2, <2>1 DEF AtMost
  <2> QED BY <1>2, <2>1, <2>2 DEF AtMost
<1>4. Len(q) = h /\ \A i \in 1..h : q[i] = p[lp + 1 - i]
  BY <1>1
<1>5. /\ Len(s \o q) = ls + h
      /\ \A i \in 1..(ls + h) :
           (s \o q)[i] = IF i <= ls THEN s[i] ELSE q[i - ls]
  <2>1. /\ Len(s \o q) = Len(s) + Len(q)
        /\ \A i \in 1..(Len(s) + Len(q)) :
             (s \o q)[i] = IF i <= Len(s) THEN s[i] ELSE q[i - Len(s)]
    BY ConcatProperties
  <2> QED BY <1>1, <1>4, <2>1
<1>6. ls + h = AtMost(TailN, lp + lb)
  BY <1>2, <1>3 DEF AtMost
<1>7. ASSUME NEW i \in 1..(ls + h) PROVE (s \o q)[i].n = w + 1 - i
  <2>1. CASE i <= ls
    <3>1. i \in 1..Len(s) /\ (s \o q)[i] = s[i]
      BY <1>1, <1>2, <1>3, <1>5, <2>1
    <3> QED BY <3>1 DEF CountsDown
  <2>2. CASE ~(i <= ls)
    <3>1. PICK j : j = lp + 1 - (i - ls)
      OBVIOUS
    <3>2. i - ls \in 1..h /\ j \in 1..lp /\ ls = lb
      BY <1>2, <1>3, <2>2, <3>1
    <3>3. (s \o q)[i] = p[j]
      <4>1. (s \o q)[i] = q[i - ls] /\ q[i - ls] = p[lp + 1 - (i - ls)]
        BY <1>4, <1>5, <2>2, <3>2
      <4> QED BY <3>1, <4>1
    <3>4. p[j].n = w - lb - lp + j
      BY <1>1, <3>2 DEF CountsUp
    <3>5. w - lb - lp + j = w + 1 - i
      BY <1>2, <1>3, <3>1, <3>2
    <3> QED BY <3>3, <3>4, <3>5
  <2> QED BY <2>1, <2>2
<1> QED BY <1>1, <1>5, <1>6, <1>7 DEF CountsDown

(* One file more.                                                          *)
LEMMA FileCollected ==
  ASSUME TypeInv, KeptDense, Scannable, NEW c \in Cli, NEW k \in Names,
         Collected(c, k), NEW t,
         t = IF Readable(name[k])
             THEN seen[c] \o Newest(name[k], TailN - Len(seen[c])) ELSE seen[c]
  PROVE  Len(t) = AtMost(TailN, Len(Kept[k])) /\ CountsDown(t, written)
<1>1. PICK s, p, b, w : s = seen[c] /\ p = Part(k) /\ b = Before(k) /\ w = written
  OBVIOUS
<1>2. /\ s \in Seq(Event) /\ p \in Seq(Event) /\ b \in Seq(Event)
      /\ Kept[k] = p \o b /\ TailN \in Nat /\ TypeOK /\ w \in Nat
  <2>1. TypeOK
    BY DEF TypeInv
  <2>2. s \in Seq(Event) /\ w \in Nat /\ TailN \in Nat
    BY <1>1, <2>1, TelemetryAssumption DEF TypeOK
  <2>3. p \in Seq(Event) /\ b \in Seq(Event) /\ Kept[k] = p \o b
    BY <1>1, <2>1, KeptUnfolds, KeptTyped
  <2> QED BY <2>1, <2>2, <2>3
<1>3. NoFile \notin File /\ name[k] \in File \cup {NoFile}
  BY TelemetryAssumption DEF TypeInv, TypeOK
<1>4. Len(s) = AtMost(TailN, Len(b)) /\ CountsDown(s, w)
  BY <1>1 DEF Collected, CountsDown
<1>5. /\ \A i \in 1..Len(p \o b) : (p \o b)[i].n = w - Len(p \o b) + i
      /\ \A i \in 1..Len(p \o b) : (p \o b)[i].len <= ScanLimit
  BY <1>1, <1>2, ScannableParts DEF KeptDense, Dense
<1>6. /\ Len(p) \in Nat /\ Len(b) \in Nat
      /\ Len(p \o b) = Len(p) + Len(b)
      /\ \A i \in 1..(Len(p) + Len(b)) :
           (p \o b)[i] = IF i <= Len(p) THEN p[i] ELSE b[i - Len(p)]
  BY <1>2, ConcatProperties, LenProperties
<1>7. ASSUME NEW i \in 1..Len(p)
      PROVE  /\ p[i].n = w - (Len(p) + Len(b)) + i
             /\ p[i].len <= ScanLimit
  <2>1. i \in 1..(Len(p) + Len(b)) /\ (p \o b)[i] = p[i]
    BY <1>6
  <2> QED BY <1>5, <1>6, <2>1
<1>8. CASE name[k] = NoFile
  <2>1. p = <<>> /\ t = s
    BY <1>1, <1>8 DEF Part, Readable
  <2>2. Kept[k] = b
    BY <1>2, <2>1, Joins
  <2> QED BY <1>1, <1>4, <2>1, <2>2
<1>9. CASE name[k] # NoFile
  <2>1. p = data[name[k]] /\ name[k] \in File
    BY <1>1, <1>3, <1>9 DEF Part
  <2>2. Readable(name[k])
    BY <1>7, <1>9, <2>1 DEF Readable
  <2>3. PICK q : q = Newest(name[k], TailN - Len(s))
    OBVIOUS
  <2>4. /\ t = s \o q
        /\ q = [i \in 1..AtMost(TailN - Len(s), Len(p)) |-> p[Len(p) + 1 - i]]
    BY <1>1, <2>1, <2>2, <2>3 DEF Newest
  <2>5. q \in Seq(Event)
    <3>1. TailN - Len(s) \in Int
      BY <1>2, LenProperties
    <3> QED BY <1>2, <1>6, <2>1, <2>3, <3>1, NewestTyped
  <2>6. Len(s \o q) = AtMost(TailN, Len(p) + Len(b)) /\ CountsDown(s \o q, w)
    <3>1. CountsUp(p, w - Len(b))
      <4>1. ASSUME NEW i \in 1..Len(p)
            PROVE  p[i].n = w - Len(b) - Len(p) + i
        <5>1. w - (Len(p) + Len(b)) + i = w - Len(b) - Len(p) + i
          BY <1>2, <1>6
        <5> QED BY <1>7, <5>1
      <4> QED BY <4>1 DEF CountsUp
    <3>2. /\ Len(q) = AtMost(TailN - Len(s), Len(p))
          /\ \A i \in 1..Len(q) : q[i] = p[Len(p) + 1 - i]
      <4>1. PICK h : h = AtMost(TailN - Len(s), Len(p))
        OBVIOUS
      <4>2. Len(s) \in Nat /\ Len(s) <= TailN
        BY <1>2, <1>4, <1>6, LenProperties, AtMostLeast
      <4>3. h \in Nat
        BY <1>2, <1>6, <4>1, <4>2 DEF AtMost
      <4>4. Len(q) = h
        BY <2>4, <2>5, <4>1, <4>3, LenProperties
      <4> QED BY <2>4, <4>1, <4>4
    <3>3. /\ s \in Seq(Event) /\ p \in Seq(Event) /\ w \in Nat
          /\ Len(b) \in Nat
          /\ Len(s) = AtMost(TailN, Len(b)) /\ CountsDown(s, w)
      BY <1>2, <1>4, <1>6
    <3> QED BY ONLY <2>5, <3>1, <3>2, <3>3, NewestJoined
  <2> QED BY <1>1, <1>2, <1>6, <2>4, <2>6
<1> QED BY <1>8, <1>9

LEMMA TailStep ==
  ASSUME TypeInv, LogInv, TailInv, NEW c \in Cli, CliStep(c)
  PROVE  TailInv'
<1>1. /\ pc \in [Cli -> Steps] /\ step \in [Cli -> Names]
      /\ seen \in [Cli -> Seq(Event)] /\ Names = 0..(MaxFiles - 1)
      /\ MaxFiles \in Nat /\ TailN \in Nat /\ 0 \in Names
      /\ TypeOK /\ Rested
  BY TelemetryAssumption DEF TypeInv, TypeOK, Names, LogInv
<1>2. SUFFICES ASSUME ~overlapped', Scannable'
               PROVE  /\ pc'[c] = "read" => Collected(c, step[c])'
                      /\ pc'[c] = "run" /\ seen'[c] # <<>> =>
                           Collected(c, MaxFiles)'
  BY Alone DEF TailInv
<1>3. CASE StartCommand(c) \/ StartTail(c)
  <2>1. /\ step'[c] = 0 /\ seen'[c] = <<>>
    BY <1>1, <1>3 DEF StartCommand, StartTail, Start, Busy, Rested
  <2>2. Collected(c, step[c])'
    <3>1. Before(step[c])' = <<>>
      BY <2>1 DEF Before
    <3>2. AtMost(TailN, 0) = 0
      BY <1>1 DEF AtMost
    <3> QED BY <2>1, <3>1, <3>2 DEF Collected
  <2> QED BY <2>1, <2>2
<1>4. CASE ReadFile(c)
  <2>0. PICK k : k = step[c]
    OBVIOUS
  <2>1. /\ pc[c] = "read" /\ k \in Names /\ UNCHANGED disk
        /\ seen'[c] = IF Readable(name[k])
                      THEN seen[c] \o Newest(name[k], TailN - Len(seen[c]))
                      ELSE seen[c]
    BY <1>1, <1>4, <2>0 DEF ReadFile
  <2>2. \A j \in Names : Kept'[j] = Kept[j]
    BY <2>1, KeptSame DEF disk, Part
  <2>3. Scannable /\ ~overlapped /\ KeptDense
    <3>1. Log' = Log
      <4>1. MaxFiles - 1 \in Names
        BY <1>1
      <4> QED BY <2>2, <4>1 DEF Log
    <3> QED BY <1>2, <3>1, Alone DEF Scannable
  <2>4. Collected(c, k)
    BY <2>0, <2>1, <2>3 DEF TailInv
  <2>5. PICK t : t = seen'[c]
    OBVIOUS
  <2>6. Len(t) = AtMost(TailN, Len(Kept[k])) /\ CountsDown(t, written)
    <3>1. t = IF Readable(name[k])
              THEN seen[c] \o Newest(name[k], TailN - Len(seen[c]))
              ELSE seen[c]
      BY <2>1, <2>5
    <3> QED BY <2>1, <2>3, <2>4, <3>1, FileCollected
  <2>7. Collected(c, k + 1)'
    <3>1. Before(k + 1)' = Kept[k]
      <4>1. k + 1 # 0 /\ (k + 1) - 1 = k
        BY <1>1, <2>1
      <4> QED BY <2>1, <2>2, <4>1 DEF Before
    <3>2. written' = written
      BY <2>1 DEF disk
    <3> QED BY <2>5, <2>6, <3>1, <3>2 DEF Collected, CountsDown
  <2>8. CASE k + 1 \in Names
    <3>1. step'[c] = k + 1 /\ pc'[c] = "read"
      BY <1>1, <1>4, <2>0, <2>1, <2>8 DEF ReadFile
    <3>2. Collected(c, step[c])'
      <4>1. Before(step[c])' = Before(k + 1)'
        BY <3>1 DEF Before
      <4> QED BY <2>7, <4>1 DEF Collected
    <3> QED BY <3>1, <3>2
  <2>9. CASE k + 1 \notin Names
    <3>1. pc'[c] = "run" /\ k + 1 = MaxFiles
      BY <1>1, <1>4, <2>0, <2>1, <2>9 DEF ReadFile, Goto
    <3> QED BY <2>7, <3>1
  <2> QED BY <2>8, <2>9
<1>5. CASE ~(StartCommand(c) \/ StartTail(c) \/ ReadFile(c))
  <2>1. pc'[c] \notin {"read", "run"}
    BY <1>1, <1>5 DEF CliStep, Stat, RemoveOldest, Rename, Reopen, WriteLine,
       Interrupt, Leave, Goto
  <2> QED BY <2>1
<1> QED BY <1>3, <1>4, <1>5

LEMMA TailInductive == TypeInv /\ LogInv /\ TailInv /\ [Next]_vars => TailInv'
<1>1. CASE UNCHANGED vars
  <2>1. \A k \in Names : Kept'[k] = Kept[k]
    BY <1>1, KeptSame DEF vars, disk, Part
  <2>2. ASSUME NEW k \in Names \cup {MaxFiles} PROVE Before(k)' = Before(k)
    <3>1. k # 0 => k - 1 \in Names
      BY TelemetryAssumption DEF Names
    <3> QED BY <2>1, <3>1 DEF Before
  <2>3. Log' = Log
    <3>1. MaxFiles - 1 \in Names
      BY TelemetryAssumption DEF Names
    <3> QED BY <2>1, <3>1 DEF Log
  <2> QED
    BY <1>1, <2>2, <2>3 DEF vars, disk, local, TailInv, Scannable, Collected,
       TypeInv, TypeOK
<1> QED BY <1>1, TailStep DEF Next

(* telemetry tail shows the newest events, newest first, as many as were   *)
(* asked for or all there are, as long as commands do not overlap and the  *)
(* scanner accepts every line (ReadLastN in reader.go).                    *)
THEOREM TailShowsNewest == Spec => []TailIsNewest
<1>1. TailInv => TailIsNewest
  <2> SUFFICES ASSUME TailInv, ~overlapped, Scannable, NEW c \in Cli,
                      pc[c] = "run", seen[c] # <<>>
               PROVE  /\ \A i \in 1..Len(seen[c]) : seen[c][i].n = written + 1 - i
                      /\ Len(seen[c]) = AtMost(TailN, Len(Log))
    BY DEF TailIsNewest, Scannable
  <2>1. Before(MaxFiles) = Log
    BY TelemetryAssumption DEF Before, Log
  <2> QED BY <2>1 DEF TailInv, Collected
<1> QED
  BY <1>1, TypeInitial, TypeInductive, LogInitial, LogInductive, TailInductive,
     PTL DEF Spec

-----------------------------------------------------------------------------
(* Which files are moved: those that the line in hand would make too large. *)
FullFile(f)  == size[f] + LongestLine > MaxBytes
MovesFullLog ==
  \A c \in Cli : pc[c] \in {"remove", "rename"} /\ name[0] # NoFile =>
    size[name[0]] + line[c] > MaxBytes

FullInv == RotatedAreFull /\ (~overlapped => MovesFullLog)

LEMMA FullInitial == Init => FullInv
BY DEF Init, FullInv, RotatedAreFull, MovesFullLog

(* Opening the log makes no file a rotated one.                            *)
LEMMA OpenLogKeepsFull ==
  ASSUME TypeInv, NEW c \in Cli, fd[c] = NoFile, OpenLog(c)
  PROVE  \A k \in Names \ {0} :
           name'[k] = name[k] /\ (name[k] # NoFile => size'[name[k]] = size[name[k]])
<1>1. /\ name \in [Names -> File \cup {NoFile}] /\ 0 \in Names
      /\ size \in [File -> Nat] /\ NoFile \notin File /\ TypeOK
  BY TelemetryAssumption DEF TypeInv, TypeOK, Names
<1>2. CASE name[0] # NoFile
  BY <1>1, <1>2 DEF OpenLog, disk
<1>3. CASE name[0] = NoFile
  <2>1. NewFile \in File /\ NewFile \in Free
    BY <1>1, <1>3, SomeFree
  <2>2. \A k \in Names : name[k] # NewFile
    BY <2>1 DEF Free
  <2>3. /\ name' = [name EXCEPT ![0] = NewFile]
        /\ size' = [size EXCEPT ![NewFile] = 0]
    BY <1>3 DEF OpenLog
  <2> QED BY <1>1, <2>1, <2>2, <2>3
<1> QED BY <1>2, <1>3

LEMMA FullStep ==
  ASSUME TypeInv, TypeInv', LogInv, FullInv, NEW c \in Cli, CliStep(c)
  PROVE  FullInv'
<1>1. /\ name \in [Names -> File \cup {NoFile}] /\ size \in [File -> Nat]
      /\ pc \in [Cli -> Steps] /\ step \in [Cli -> Names]
      /\ line \in [Cli -> LineSizes \cup {0}]
      /\ NoFile \notin File /\ Names = 0..(MaxFiles - 1) /\ 0 \in Names
      /\ MaxFiles \in Nat \ {0, 1} /\ MaxBytes \in Nat
  BY TelemetryAssumption DEF TypeInv, TypeOK, Names
<1>2. SUFFICES ASSUME ~overlapped'
               PROVE  /\ \A k \in Names \ {0} : name'[k] # NoFile => FullFile(name[k])'
                      /\ pc'[c] \in {"remove", "rename"} /\ name'[0] # NoFile =>
                           size'[name'[0]] + line'[c] > MaxBytes
  <2>1. ASSUME ~overlapped' PROVE \A d \in Cli \ {c} : pc'[d] = "idle"
    BY <2>1, Alone
  <2>2. ASSUME ~overlapped' PROVE MovesFullLog'
    BY <1>2, <2>1, <2>2 DEF MovesFullLog
  <2>3. RotatedAreFull'
    BY <1>2 DEF RotatedAreFull, FullFile
  <2> QED BY <2>2, <2>3 DEF FullInv
<1>3. /\ ~overlapped /\ OpensLog
      /\ \A k \in Names \ {0} : name[k] # NoFile => FullFile(name[k])
      /\ pc[c] \in {"remove", "rename"} /\ name[0] # NoFile =>
           size[name[0]] + line[c] > MaxBytes
  BY <1>2, Alone DEF FullInv, RotatedAreFull, MovesFullLog, FullFile
<1>4. CASE /\ OpenLog(c) /\ fd[c] = NoFile
           /\ pc'[c] \notin {"remove", "rename"}
  <2>1. \A k \in Names \ {0} : /\ name'[k] = name[k]
                               /\ name[k] # NoFile => size'[name[k]] = size[name[k]]
    BY <1>4, OpenLogKeepsFull
  <2> QED BY <1>3, <1>4, <2>1 DEF FullFile
<1>5. CASE StartCommand(c) \/ StartTail(c)
  <2>1. OpenLog(c) /\ fd[c] = NoFile /\ pc'[c] \in {"run", "read"}
    BY <1>1, <1>5
       DEF StartCommand, StartTail, Start, Goto, Busy, TypeInv, HasOpen
  <2> QED BY <1>4, <2>1
<1>6. CASE Reopen(c)
  <2>1. OpenLog(c) /\ fd[c] = NoFile /\ pc'[c] = "append"
    BY <1>1, <1>6 DEF Reopen, Goto, TypeInv, HasOpen
  <2> QED BY <1>4, <2>1
<1>7. CASE ReadFile(c) \/ Interrupt(c)
  <2>1. UNCHANGED disk /\ pc'[c] \notin {"remove", "rename"}
    BY <1>1, <1>7 DEF ReadFile, Interrupt, Leave, Goto
  <2> QED BY <1>3, <2>1 DEF disk, FullFile
<1>8. CASE Stat(c)
  <2>1. PICK len \in LineSizes :
          /\ line'[c] = len /\ pc[c] = "run" /\ UNCHANGED disk
          /\ pc'[c] = IF TooLarge(fd[c], len) THEN "remove" ELSE "append"
    BY <1>1, <1>8 DEF Stat, Goto
  <2>2. fd[c] = name[0]
    BY <1>3, <2>1 DEF OpensLog
  <2> QED BY <1>3, <2>1, <2>2 DEF disk, FullFile, TooLarge
<1>9. CASE RemoveOldest(c)
  <2>1. /\ name' = [name EXCEPT ![MaxFiles - 1] = NoFile] /\ size' = size
        /\ line' = line /\ pc[c] = "remove"
    BY <1>9 DEF RemoveOldest
  <2>2. \A k \in Names : name'[k] = name[k] \/ name'[k] = NoFile
    BY <1>1, <2>1
  <2> QED BY <1>1, <1>3, <2>1, <2>2 DEF FullFile
<1>10. CASE Rename(c)
  <2>0. PICK m : m = step[c]
    OBVIOUS
  <2>1. /\ pc[c] = "rename" /\ m \in Names /\ m + 1 \in Names /\ m + 1 # 0
        /\ size' = size /\ line' = line
        /\ \/ /\ name[m] # NoFile
              /\ name' = [name EXCEPT ![m] = NoFile, ![m + 1] = name[m]]
           \/ name[m] = NoFile /\ name' = name
    BY <1>1, <1>10, <2>0 DEF Rename, TypeInv, Moves
  <2>2. \A k \in Names \ {m + 1} : name'[k] = name[k] \/ name'[k] = NoFile
    BY <1>1, <2>1
  <2>3. name'[m + 1] = name[m] \/ name'[m + 1] = name[m + 1]
    BY <1>1, <2>1
  <2>4. name[m] # NoFile => FullFile(name[m])
    <3>1. CASE m = 0
      <4>1. line[c] \in LineSizes
        BY <2>1 DEF TypeInv, HasLine
      <4>2. line[c] \in Nat /\ line[c] <= LongestLine /\ LongestLine \in Nat
        BY <4>1, LineLengths
      <4>3. name[m] # NoFile => size[name[m]] \in Nat
        BY <1>1, <2>1
      <4> QED BY <1>1, <1>3, <2>1, <3>1, <4>2, <4>3 DEF FullFile
    <3>2. CASE m # 0
      BY <1>3, <2>1, <3>2
    <3> QED BY <3>1, <3>2
  <2>5. ASSUME NEW k \in Names \ {0}, name'[k] # NoFile PROVE FullFile(name[k])'
    <3>1. FullFile(name'[k])
      BY <1>3, <2>2, <2>3, <2>4, <2>5
    <3> QED BY <2>1, <3>1 DEF FullFile
  <2>6. name'[0] = name[0] \/ name'[0] = NoFile
    BY <1>1, <2>1, <2>2
  <2> QED BY <1>3, <2>1, <2>5, <2>6
<1>11. CASE WriteLine(c)
  <2>1. /\ name' = name /\ pc'[c] = "idle" /\ pc[c] = "append"
        /\ size' = [size EXCEPT ![fd[c]] = size[fd[c]] + line[c]]
    BY <1>1, <1>11 DEF WriteLine, Leave, Goto
  <2>2. line[c] \in Nat /\ LongestLine \in Nat
    BY <2>1, LineLengths DEF TypeInv, HasLine
  <2>3. \A f \in File : size'[f] >= size[f] /\ size'[f] \in Nat /\ size[f] \in Nat
    BY <1>1, <2>1, <2>2
  <2>4. ASSUME NEW k \in Names \ {0}, name'[k] # NoFile PROVE FullFile(name[k])'
    <3>1. name[k] \in File /\ FullFile(name[k])
      BY <1>1, <1>3, <2>1, <2>4
    <3> QED BY <1>1, <2>1, <2>2, <2>3, <3>1 DEF FullFile
  <2> QED BY <2>1, <2>4
<1> QED
  BY <1>5, <1>6, <1>7, <1>8, <1>9, <1>10, <1>11 DEF CliStep

LEMMA FullInductive ==
  TypeInv /\ TypeInv' /\ LogInv /\ FullInv /\ [Next]_vars => FullInv'
<1>1. CASE UNCHANGED vars
  BY <1>1 DEF vars, disk, local, FullInv, RotatedAreFull, MovesFullLog
<1> QED BY <1>1, FullStep DEF Next

(* A file is rotated only when the next event would have made it exceed    *)
(* the limit, also when invocations are killed while they move the names,  *)
(* as long as commands do not overlap (Record and rotate in telemetry.go). *)
THEOREM OnlyFullFilesRotate == Spec => []RotatedAreFull
<1>1. FullInv => RotatedAreFull
  BY DEF FullInv
<1> QED
  BY <1>1, TypeInitial, TypeInductive, LogInitial, LogInductive, FullInitial,
     FullInductive, PTL DEF Spec
===============================================================================
