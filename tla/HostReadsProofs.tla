--------------------------- MODULE HostReadsProofs ---------------------------
(***************************************************************************)
(* What a connect reads of a host: its kubeconfig, through the local copy, *)
(* and the list of its Services.                                           *)
(*                                                                         *)
(* RemoteFileCache: its typing, and that a serial user is never handed a   *)
(* stale or damaged copy, for every number of versions.                    *)
(* ServiceDiscovery: what is picked can be reached and lesser Services     *)
(* change nothing, for lists of Services and of ports of every length.     *)
(***************************************************************************)
EXTENDS RemoteFileCache, ServiceDiscovery, SequenceTheorems,
        WellFoundedInduction, TLAPS

LEMMA ConstantFacts ==
  /\ MaxVersion \in Nat \ {0} /\ Absent # Broken
  /\ Absent \notin Content /\ Broken \notin Content
BY CacheAssumption

LEMMA TrimmedType == ASSUME NEW k \in Content PROVE Trimmed(k) \in Content
BY DEF Trimmed, Content

-----------------------------------------------------------------------------
(* The variables stay of their types, however the invocations interleave   *)
(* (FetchRemoteFileCached and what happens around it).                     *)
THEOREM CacheTyped == Spec => []TypeOK
<1>1. Init => TypeOK
  BY ConstantFacts DEF Init, TypeOK, Content, Ended
<1>2. TypeOK /\ [Next]_vars => TypeOK'
  <2> SUFFICES ASSUME TypeOK, [Next]_vars PROVE TypeOK'
    OBVIOUS
  <2> USE DEF TypeOK, Ended, Steps
  <2>1. CASE UNCHANGED vars
    BY <2>1 DEF vars, local
  <2>2. CASE RemoteChanges
    <3>1. PICK newline \in BOOLEAN :
            remote' = [version |-> remote.version + 1, newline |-> newline]
      BY <2>2 DEF RemoteChanges
    <3>2. remote' \in Content
      BY <2>2, <3>1, ConstantFacts DEF RemoteChanges, Content
    <3> QED BY <2>2, <3>2 DEF RemoteChanges
  <2>3. CASE CacheCleared
    BY <2>3 DEF CacheCleared, local
  <2>4. ASSUME NEW c \in Cli, Start(c) PROVE TypeOK'
    BY <2>4 DEF Start, Goto
  <2>5. ASSUME NEW c \in Cli, Interrupt(c) PROVE TypeOK'
    BY <2>5 DEF Interrupt, End, Goto
  <2>6. ASSUME NEW c \in Cli, CliStep(c) PROVE TypeOK'
    <3>1. CASE RemoteFileHash(c)
      BY <3>1 DEF RemoteFileHash, Goto
    <3>2. CASE CompareHash(c)
      BY <3>2 DEF CompareHash, Goto, local
    <3>3. CASE ReadCopy(c)
      BY <3>3 DEF ReadCopy, Goto, local
    <3>4. CASE FetchRemoteFile(c)
      <4>1. Trimmed(remote) \in Content
        BY TrimmedType
      <4> QED BY <3>4, <4>1 DEF FetchRemoteFile, End, Goto
    <3>5. CASE TruncateCopy(c)
      BY <3>5 DEF TruncateCopy, End, Goto, local
    <3>6. CASE WriteCopy(c)
      BY <3>6 DEF WriteCopy, End, Goto
    <3> QED BY <2>6, <3>1, <3>2, <3>3, <3>4, <3>5, <3>6 DEF CliStep
  <2> QED BY <2>1, <2>2, <2>3, <2>4, <2>5, <2>6 DEF Next
<1> QED BY <1>1, <1>2, PTL DEF Spec

-----------------------------------------------------------------------------
LEMMA FreshStep ==
  ASSUME Serial, TypeOK, FreshIInv, [Next]_vars
  PROVE  FreshIInv'
<1> USE DEF Busy, Ended, FreshOf
<1>1. CASE UNCHANGED vars
  BY <1>1 DEF vars, local, FreshIInv
<1>2. CASE RemoteChanges
  BY <1>2 DEF RemoteChanges, FreshIInv, TypeOK
<1>3. CASE CacheCleared
  BY <1>3 DEF CacheCleared, local, FreshIInv
<1>4. ASSUME NEW c \in Cli, Start(c) PROVE FreshIInv'
  BY <1>4 DEF Start, Goto, FreshIInv, TypeOK
<1>5. ASSUME NEW c \in Cli, Interrupt(c) PROVE FreshIInv'
  BY <1>5 DEF Interrupt, End, Goto, FreshIInv, TypeOK
<1>6. ASSUME NEW c \in Cli, CliStep(c) PROVE FreshIInv'
  <2>1. CASE RemoteFileHash(c)
    BY <1>6, <2>1 DEF RemoteFileHash, Goto, FreshIInv, TypeOK
  <2>2. CASE CompareHash(c)
    BY <1>6, <2>2 DEF CompareHash, Goto, local, FreshIInv, TypeOK
  <2>3. CASE ReadCopy(c)
    BY <1>6, <2>3 DEF ReadCopy, Goto, local, FreshIInv, TypeOK
  <2>4. CASE FetchRemoteFile(c)
    BY <1>6, <2>4 DEF FetchRemoteFile, End, Goto, FreshIInv, TypeOK
  <2>5. CASE TruncateCopy(c)
    BY <1>6, <2>5 DEF TruncateCopy, End, Goto, local, FreshIInv, TypeOK
  <2>6. CASE WriteCopy(c)
    BY <1>6, <2>6 DEF WriteCopy, End, Goto, FreshIInv, TypeOK
  <2> QED BY <1>6, <2>1, <2>2, <2>3, <2>4, <2>5, <2>6 DEF CliStep
<1> QED BY <1>1, <1>2, <1>3, <1>4, <1>5, <1>6 DEF Next

(* One connect of a context at a time is handed what the remote file held  *)
(* during the call, though copies are left half written by interrupted     *)
(* ones and the file changes at any moment (FetchRemoteFileCached).        *)
THEOREM FetchIsFresh == ASSUME Serial PROVE Spec => []ResultIsFresh
<1>1. Init => FreshIInv
  BY DEF Init, FreshIInv, Busy, Ended
<1>2. TypeOK /\ FreshIInv /\ [Next]_vars => FreshIInv'
  BY FreshStep
<1>3. FreshIInv => ResultIsFresh
  BY DEF FreshIInv, ResultIsFresh, FreshOf
<1> QED BY <1>1, <1>2, <1>3, CacheTyped, PTL DEF Spec

-----------------------------------------------------------------------------
(* The best of a set: the library's theorem about least elements takes a   *)
(* set of numbers.                                                         *)
LEMMA LessThan == \A x, y \in Nat : <<x, y>> \in OpToRel(<, Nat) <=> x < y
BY Zenon DEF OpToRel

LEMMA LeastOf ==
  ASSUME NEW T \in SUBSET Nat, T # {}
  PROVE  \E x \in T : \A y \in T : x <= y
<1>1. PICK x \in T : \A y \in T : ~ (<<y, x>> \in OpToRel(<, Nat))
  BY NatLessThanWellFounded, WFMin, Zenon
<1>2. \A y \in T : ~(y < x)
  BY <1>1, LessThan, Zenon
<1> QED BY <1>2

(* A rank that is bounded has a largest value.                             *)
LEMMA HighestRank ==
  ASSUME NEW S, S # {}, NEW b \in Nat, NEW f \in [S -> 0..b]
  PROVE  \E i \in S : \A j \in S : f[j] <= f[i]
<1> DEFINE T == {b - f[i] : i \in S}
<1>1. T \in SUBSET Nat /\ T # {}
  OBVIOUS
<1>2. PICK x \in T : \A y \in T : x <= y
  <2> HIDE DEF T
  <2> QED BY <1>1, LeastOf
<1>3. PICK i \in S : x = b - f[i]
  BY <1>2
<1>4. ASSUME NEW j \in S PROVE f[j] <= f[i]
  <2>1. b - f[j] \in T
    OBVIOUS
  <2>2. b - f[i] <= b - f[j]
    BY <1>2, <1>3, <2>1
  <2>3. f[i] \in 0..b /\ f[j] \in 0..b
    OBVIOUS
  <2> QED BY <2>2, <2>3
<1> QED BY <1>4

(* The highest condition that holds.                                       *)
LEMMA HighestHolds ==
  ASSUME NEW n \in Nat, NEW c, DOMAIN c = 1..n
  PROVE  /\ Highest(c) \in 0..n
         /\ Highest(c) > 0 => c[Highest(c)]
<1> DEFINE held == {r \in DOMAIN c : c[r]}
<1>1. CASE held = {}
  <2>1. Highest(c) = 0
    BY <1>1 DEF Highest
  <2> QED BY <2>1
<1>2. CASE held # {}
  <2>1. held \subseteq 1..n /\ \A r \in held : c[r]
    OBVIOUS
  <2>2. Highest(c) = CHOOSE r \in held : \A q \in held : q <= r
    BY <1>2 DEF Highest
  <2> HIDE DEF held
  <2>3. \E r \in held : \A q \in held : q <= r
    <3> DEFINE f == [r \in held |-> r]
    <3>1. f \in [held -> 0..n]
      BY <2>1
    <3>2. \E r \in held : \A q \in held : f[q] <= f[r]
      <4> HIDE DEF f
      <4> QED BY <1>2, <3>1, HighestRank
    <3> QED BY <3>2
  <2>4. Highest(c) \in held
    BY <2>2, <2>3
  <2>5. Highest(c) \in 1..n
    BY <2>1, <2>4
  <2>6. c[Highest(c)]
    BY <2>1, <2>4, Zenon
  <2> QED BY <2>5, <2>6
<1> QED BY <1>1, <1>2

LEMMA RankTypes ==
  ASSUME product \in Products
  PROVE  /\ \A s : ServiceRank(s) \in 0..6
         /\ \A p : PortRank(p) \in 0..6
<1>1. ASSUME NEW s PROVE ServiceRank(s) \in 0..6
  <2>1. CASE product = "argocd"
    <3> DEFINE c == <<s.ns = "part", s.name = "part", s.ns = "own",
                      s.name = "own", s.label = "own">>
    <3>1. DOMAIN c = 1..5
      OBVIOUS
    <3>2. ServiceRank(s) = Highest(c)
      BY <2>1 DEF ServiceRank, argocdServiceRank
    <3> HIDE DEF c
    <3>3. Highest(c) \in 0..5
      BY <3>1, HighestHolds
    <3> QED BY <3>2, <3>3
  <2>2. CASE product = "alertmanager"
    <3> DEFINE contains == s.name \in {"own", "part"}
               c == <<s.ns = "part", contains, contains /\ s.ns = "own",
                      s.name = "own", s.name = "own" /\ s.ns = "own",
                      s.label = "own">>
    <3>1. DOMAIN c = 1..6
      OBVIOUS
    <3>2. ServiceRank(s) = Highest(c)
      BY <2>2 DEF ServiceRank, alertmanagerServiceRank
    <3> HIDE DEF c
    <3>3. Highest(c) \in 0..6
      BY <3>1, HighestHolds
    <3> QED BY <3>2, <3>3
  <2>3. CASE product = "victoriametrics"
    <3> DEFINE c == <<s.ns = "part", s.name = "part", s.ns = "own",
                      s.name = "own", s.label = "app", s.label = "own">>
    <3>1. DOMAIN c = 1..6
      OBVIOUS
    <3>2. ServiceRank(s) = Highest(c)
      BY <2>3 DEF ServiceRank, victoriaMetricsServiceRank
    <3> HIDE DEF c
    <3>3. Highest(c) \in 0..6
      BY <3>1, HighestHolds
    <3> QED BY <3>2, <3>3
  <2> QED BY <2>1, <2>2, <2>3 DEF Products
<1>2. ASSUME NEW p PROVE PortRank(p) \in 0..6
  <2>1. CASE product = "argocd"
    <3> DEFINE c == <<TRUE, p.port = 80, p.name = "http",
                      p.port = 443 /\ p.name # "http", p.name = "https">>
    <3>1. DOMAIN c = 1..5
      OBVIOUS
    <3>2. PortRank(p) = Highest(c)
      BY <2>1 DEF PortRank, argocdPortRank
    <3> HIDE DEF c
    <3>3. Highest(c) \in 0..5
      BY <3>1, HighestHolds
    <3> QED BY <3>2, <3>3
  <2>2. CASE product = "alertmanager"
    <3> DEFINE c == <<TRUE, FALSE, p.name = "http", FALSE, p.port = 9093>>
    <3>1. DOMAIN c = 1..5
      OBVIOUS
    <3>2. PortRank(p) = Highest(c)
      BY <2>2 DEF PortRank, alertmanagerPortRank
    <3> HIDE DEF c
    <3>3. Highest(c) \in 0..5
      BY <3>1, HighestHolds
    <3> QED BY <3>2, <3>3
  <2>3. CASE product = "victoriametrics"
    <3> DEFINE c == <<TRUE, p.name = "http", p.port = 8481, FALSE,
                      p.port = 8428>>
    <3>1. DOMAIN c = 1..5
      OBVIOUS
    <3>2. PortRank(p) = Highest(c)
      BY <2>3 DEF PortRank, victoriaMetricsPortRank
    <3> HIDE DEF c
    <3>3. Highest(c) \in 0..5
      BY <3>1, HighestHolds
    <3> QED BY <3>2, <3>3
  <2> QED BY <2>1, <2>2, <2>3 DEF Products
<1> QED BY <1>1, <1>2

(* Of the members with the highest rank the first.                         *)
LEMMA FirstOfHighest ==
  ASSUME NEW S \in SUBSET Nat, S # {}, NEW b \in Nat, NEW f \in [S -> 0..b]
  PROVE  \E i \in S : \A j \in S : f[j] < f[i] \/ (f[j] = f[i] /\ i <= j)
<1>1. PICK m \in S : \A j \in S : f[j] <= f[m]
  BY HighestRank
<1> DEFINE T == {i \in S : f[i] = f[m]}
<1>2. T \in SUBSET Nat /\ T # {}
  OBVIOUS
<1>3. PICK i \in T : \A j \in T : i <= j
  <2> HIDE DEF T
  <2> QED BY <1>2, LeastOf
<1>4. ASSUME NEW j \in S PROVE f[j] < f[i] \/ (f[j] = f[i] /\ i <= j)
  <2>1. f[j] \in 0..b /\ f[m] \in 0..b /\ f[i] = f[m] /\ f[j] <= f[m]
    BY <1>1
  <2>2. f[j] = f[m] => i <= j
    BY <1>3
  <2> QED BY <2>1, <2>2
<1> QED BY <1>4

LEMMA BestPortUsable ==
  ASSUME product \in Products, NEW s, DOMAIN s.ports \subseteq Nat,
         NEW k \in BOOLEAN, UsablePorts(s, k) # {}
  PROVE  BestPort(s, k) \in UsablePorts(s, k)
<1> DEFINE S == UsablePorts(s, k)
           f == [i \in S |-> PortRank(s.ports[i])]
<1>1. S \in SUBSET Nat
  BY DEF UsablePorts
<1> HIDE DEF S
<1>2. f \in [S -> 0..6]
  BY RankTypes
<1>3. \E i \in S : \A j \in S : f[j] < f[i] \/ (f[j] = f[i] /\ i <= j)
  <2> HIDE DEF f
  <2> QED BY <1>1, <1>2, FirstOfHighest DEF S
<1>4. \E i \in S : \A j \in S :
        \/ PortRank(s.ports[j]) < PortRank(s.ports[i])
        \/ PortRank(s.ports[j]) = PortRank(s.ports[i]) /\ i <= j
  BY <1>3
<1> QED BY <1>4 DEF BestPort, S

-----------------------------------------------------------------------------
(* The best candidate exists and is the only one.                          *)
PortRankOf(item, k) == PortRank(item.ports[BestPort(item, k)])

LEMMA PrecedesMeans ==
  ASSUME NEW items, NEW k, NEW i, NEW j
  PROVE  Precedes(items, k, i, j) <=>
           \/ ServiceRank(items[i]) > ServiceRank(items[j])
           \/ /\ ServiceRank(items[i]) = ServiceRank(items[j])
              /\ PortRankOf(items[i], k) > PortRankOf(items[j], k)
           \/ /\ ServiceRank(items[i]) = ServiceRank(items[j])
              /\ PortRankOf(items[i], k) = PortRankOf(items[j], k)
              /\ i <= j
BY Zenon DEF Precedes, PortRankOf

LEMMA BestExists ==
  ASSUME product \in Products, NEW items, DOMAIN items \subseteq Nat,
         NEW k \in BOOLEAN, Candidates(items, k) # {}
  PROVE  \E i \in Candidates(items, k) : \A j \in Candidates(items, k) :
           Precedes(items, k, i, j)
<1> DEFINE C == Candidates(items, k)
           rank(i) == ServiceRank(items[i])
           portRank(i) == PortRankOf(items[i], k)
<1>1. C \in SUBSET Nat /\ C # {}
  BY DEF Candidates
<1>2. \A i : rank(i) \in 0..6 /\ portRank(i) \in 0..6
  BY RankTypes DEF PortRankOf
<1> HIDE DEF C, rank, portRank
<1>3. PICK m \in C : \A j \in C : rank(j) <= rank(m)
  <2> DEFINE f == [i \in C |-> rank(i)]
  <2>1. f \in [C -> 0..6]
    BY <1>2
  <2>2. \E m \in C : \A j \in C : f[j] <= f[m]
    <3> HIDE DEF f
    <3> QED BY <1>1, <2>1, HighestRank
  <2> QED BY <2>2
<1> DEFINE S == {i \in C : rank(i) = rank(m)}
<1>4. PICK i \in S : \A j \in S :
        portRank(j) < portRank(i) \/ (portRank(j) = portRank(i) /\ i <= j)
  <2> DEFINE f == [i \in S |-> portRank(i)]
  <2>1. f \in [S -> 0..6] /\ S \in SUBSET Nat /\ S # {}
    BY <1>1, <1>2
  <2>2. \E i \in S : \A j \in S : f[j] < f[i] \/ (f[j] = f[i] /\ i <= j)
    <3> HIDE DEF f, S
    <3> QED BY <2>1, FirstOfHighest
  <2> QED BY <2>2
<1>5. ASSUME NEW j \in C PROVE Precedes(items, k, i, j)
  <2>1. rank(j) <= rank(i) /\ rank(i) \in 0..6 /\ rank(j) \in 0..6
        /\ portRank(i) \in 0..6 /\ portRank(j) \in 0..6
    BY <1>2, <1>3
  <2>2. rank(j) = rank(i) =>
          portRank(j) < portRank(i) \/ (portRank(j) = portRank(i) /\ i <= j)
    BY <1>4
  <2>3. \/ rank(i) > rank(j)
        \/ rank(i) = rank(j) /\ portRank(i) > portRank(j)
        \/ rank(i) = rank(j) /\ portRank(i) = portRank(j) /\ i <= j
    BY <2>1, <2>2
  <2> QED BY <2>3, PrecedesMeans DEF rank, portRank
<1> QED BY <1>5 DEF C

LEMMA BestIsUnique ==
  ASSUME product \in Products, NEW items, NEW k,
         NEW i \in Nat, NEW j \in Nat,
         Precedes(items, k, i, j), Precedes(items, k, j, i)
  PROVE  i = j
<1>1. /\ ServiceRank(items[i]) \in 0..6 /\ ServiceRank(items[j]) \in 0..6
      /\ PortRankOf(items[i], k) \in 0..6 /\ PortRankOf(items[j], k) \in 0..6
  BY RankTypes DEF PortRankOf
<1> QED BY <1>1, PrecedesMeans

(* What a discovery returns for the Service it picks.                      *)
Picked(item, k) ==
  [found |-> TRUE, item |-> item, useKubectl |-> k,
   target |-> IF k THEN item.ports[BestPort(item, k)].port
              ELSE item.ports[BestPort(item, k)].nodePort]

LEMMA PickFromBest ==
  ASSUME product \in Products, NEW items, DOMAIN items \subseteq Nat,
         NEW k \in BOOLEAN
  PROVE  /\ Candidates(items, k) = {} => PickFrom(items, k) = Nothing
         /\ \A b \in Candidates(items, k) :
              (\A j \in Candidates(items, k) : Precedes(items, k, b, j))
                => PickFrom(items, k) = Picked(items[b], k)
<1> DEFINE C == Candidates(items, k)
           best == CHOOSE i \in C : \A j \in C : Precedes(items, k, i, j)
<1>1. ASSUME NEW b \in C, \A j \in C : Precedes(items, k, b, j)
      PROVE  PickFrom(items, k) = Picked(items[b], k)
  <2>1. best \in C /\ \A j \in C : Precedes(items, k, best, j)
    BY <1>1, Zenon
  <2>2. PickFrom(items, k) = Picked(items[best], k)
    BY <1>1, Zenon DEF PickFrom, Picked
  <2> HIDE DEF best
  <2>3. best = b
    <3>1. b \in Nat /\ best \in Nat
      BY <2>1 DEF Candidates
    <3> QED BY <1>1, <2>1, <3>1, BestIsUnique
  <2> QED BY <2>2, <2>3
<1>2. C = {} => PickFrom(items, k) = Nothing
  BY DEF PickFrom
<1> QED BY <1>1, <1>2

-----------------------------------------------------------------------------
(* A list without one of its items.                                        *)
Shift(n, i) == IF i < n THEN i ELSE i + 1

LEMMA Removed ==
  ASSUME NEW S, NEW t \in Seq(S), NEW n \in 1..Len(t)
  PROVE  /\ RemoveAt(t, n) \in Seq(S)
         /\ Len(RemoveAt(t, n)) = Len(t) - 1
         /\ \A i \in 1..(Len(t) - 1) : RemoveAt(t, n)[i] = t[Shift(n, i)]
<1> DEFINE p == SubSeq(t, 1, n - 1)
           q == SubSeq(t, n + 1, Len(t))
<1>1. /\ Len(t) \in Nat /\ n \in Nat /\ 1 <= n /\ n <= Len(t)
      /\ \A i \in 1..Len(t) : t[i] \in S
  BY LenProperties
<1>2. /\ p \in Seq(S) /\ Len(p) = n - 1
      /\ \A i \in 1..(n - 1) : p[i] = t[i]
  <2>1. \A i \in 1..(n - 1) : t[i] \in S
    BY <1>1
  <2>2. /\ p \in Seq(S) /\ Len(p) = IF 1 <= n - 1 THEN (n - 1) - 1 + 1 ELSE 0
        /\ \A i \in 1..((n - 1) - 1 + 1) : p[i] = t[1 + i - 1]
    BY <1>1, <2>1, SubSeqProperties
  <2> HIDE DEF p
  <2> QED BY <1>1, <2>2
<1>3. /\ q \in Seq(S) /\ Len(q) = Len(t) - n
      /\ \A i \in 1..(Len(t) - n) : q[i] = t[n + i]
  <2>1. \A i \in (n + 1)..Len(t) : t[i] \in S
    BY <1>1
  <2>2. /\ q \in Seq(S)
        /\ Len(q) = IF n + 1 <= Len(t) THEN Len(t) - (n + 1) + 1 ELSE 0
        /\ \A i \in 1..(Len(t) - (n + 1) + 1) : q[i] = t[(n + 1) + i - 1]
    BY <1>1, <2>1, SubSeqProperties
  <2> HIDE DEF q
  <2>3. ASSUME NEW i \in 1..(Len(t) - n) PROVE q[i] = t[n + i]
    <3>1. i \in 1..(Len(t) - (n + 1) + 1) /\ (n + 1) + i - 1 = n + i
      BY <1>1
    <3> QED BY <2>2, <3>1
  <2> QED BY <1>1, <2>2, <2>3
<1>4. RemoveAt(t, n) = p \o q
  BY DEF RemoveAt
<1> HIDE DEF p, q
<1>5. /\ p \o q \in Seq(S) /\ Len(p \o q) = Len(p) + Len(q)
      /\ \A i \in 1..(Len(p) + Len(q)) :
           (p \o q)[i] = IF i <= Len(p) THEN p[i] ELSE q[i - Len(p)]
  BY <1>2, <1>3, ConcatProperties
<1>6. ASSUME NEW i \in 1..(Len(t) - 1) PROVE (p \o q)[i] = t[Shift(n, i)]
  <2>1. i \in 1..(Len(p) + Len(q))
    BY <1>1, <1>2, <1>3
  <2>2. CASE i < n
    BY <1>1, <1>2, <1>5, <2>1, <2>2 DEF Shift
  <2>3. CASE ~(i < n)
    <3>1. /\ i - (n - 1) \in 1..(Len(t) - n) /\ n + (i - (n - 1)) = i + 1
          /\ ~(i <= Len(p))
      BY <1>1, <1>2, <2>3
    <3>2. (p \o q)[i] = q[i - (n - 1)] /\ q[i - (n - 1)] = t[i + 1]
      BY <1>2, <1>3, <1>5, <2>1, <3>1
    <3> QED BY <2>3, <3>2 DEF Shift
  <2> QED BY <2>2, <2>3
<1> QED BY <1>1, <1>2, <1>3, <1>4, <1>5, <1>6

(* The candidates of a list are those of the list without one item, at     *)
(* their new places, and perhaps that item.                                *)
LEMMA CandidatesShift ==
  ASSUME NEW S, NEW s \in Seq(S), NEW t \in Seq(S), NEW n \in 1..Len(t),
         RemoveAt(t, n) = s, NEW k \in BOOLEAN
  PROVE  /\ \A i \in Candidates(s, k) :
              Shift(n, i) \in Candidates(t, k) /\ t[Shift(n, i)] = s[i]
         /\ \A j \in Candidates(t, k) : j # n =>
              \E i \in Candidates(s, k) : j = Shift(n, i) /\ t[j] = s[i]
<1>1. /\ Len(t) \in Nat /\ n \in Nat /\ 1 <= n /\ n <= Len(t)
      /\ DOMAIN t = 1..Len(t) /\ DOMAIN s = 1..(Len(t) - 1)
      /\ \A i \in 1..(Len(t) - 1) : s[i] = t[Shift(n, i)]
  BY Removed, LenProperties
<1>2. ASSUME NEW i \in Candidates(s, k)
      PROVE  Shift(n, i) \in Candidates(t, k) /\ t[Shift(n, i)] = s[i]
  <2>1. i \in 1..(Len(t) - 1)
    BY <1>1 DEF Candidates
  <2>2. Shift(n, i) \in 1..Len(t)
    BY <1>1, <2>1 DEF Shift
  <2> QED BY <1>1, <2>1, <2>2 DEF Candidates
<1>3. ASSUME NEW j \in Candidates(t, k), j # n
      PROVE  \E i \in Candidates(s, k) : j = Shift(n, i) /\ t[j] = s[i]
  <2>1. j \in 1..Len(t)
    BY <1>1 DEF Candidates
  <2>2. PICK i : i = IF j < n THEN j ELSE j - 1
    OBVIOUS
  <2>3. i \in 1..(Len(t) - 1) /\ Shift(n, i) = j
    BY <1>1, <1>3, <2>1, <2>2 DEF Shift
  <2>4. s[i] = t[j]
    BY <1>1, <2>3
  <2>5. i \in Candidates(s, k)
    BY <1>1, <2>3, <2>4 DEF Candidates
  <2> QED BY <2>3, <2>4, <2>5
<1> QED BY <1>2, <1>3

(* An item that looks less like the product than what is picked changes    *)
(* nothing.                                                                *)
LEMMA LesserKeepsPick ==
  ASSUME product \in Products, NEW S, NEW s \in Seq(S), NEW t \in Seq(S),
         NEW n \in 1..Len(t), RemoveAt(t, n) = s, NEW k \in BOOLEAN,
         PickFrom(s, k).found,
         ServiceRank(t[n]) < ServiceRank(PickFrom(s, k).item)
  PROVE  PickFrom(t, k) = PickFrom(s, k)
<1> DEFINE C == Candidates(s, k)
           D == Candidates(t, k)
<1>1. DOMAIN s \subseteq Nat /\ DOMAIN t \subseteq Nat
  BY LenProperties
<1>2. C # {}
  <2>1. Nothing.found = FALSE
    BY DEF Nothing
  <2> QED BY <1>1, <2>1, PickFromBest
<1>3. PICK b \in C : \A i \in C : Precedes(s, k, b, i)
  BY <1>1, <1>2, BestExists
<1>4. PickFrom(s, k) = Picked(s[b], k) /\ PickFrom(s, k).item = s[b]
  <2>1. PickFrom(s, k) = Picked(s[b], k)
    BY <1>1, <1>3, PickFromBest
  <2> QED BY <2>1 DEF Picked
<1>5. PICK m : m = Shift(n, b)
  OBVIOUS
<1>6. m \in D /\ t[m] = s[b]
  BY <1>5, CandidatesShift
<1>7. ASSUME NEW j \in D PROVE Precedes(t, k, m, j)
  <2>1. CASE j = n
    <3>1. ServiceRank(t[m]) > ServiceRank(t[j])
      <4>1. ServiceRank(t[n]) \in 0..6 /\ ServiceRank(s[b]) \in 0..6
        BY RankTypes
      <4> QED BY <1>4, <1>6, <2>1, <4>1
    <3> QED BY <3>1, PrecedesMeans
  <2>2. CASE j # n
    <3>1. PICK i \in C : j = Shift(n, i) /\ t[j] = s[i]
      BY <2>2, CandidatesShift
    <3>2. Precedes(s, k, b, i)
      BY <1>3
    <3>3. b <= i => m <= j
      <4>1. b \in Nat /\ i \in Nat /\ n \in Nat
        BY <1>1, LenProperties DEF Candidates
      <4> QED BY <1>5, <3>1, <4>1 DEF Shift
    <3> QED BY <1>6, <3>1, <3>2, <3>3, PrecedesMeans
  <2> QED BY <2>1, <2>2
<1>8. PickFrom(t, k) = Picked(t[m], k)
  <2> HIDE DEF C
  <2> QED BY <1>1, <1>6, <1>7, PickFromBest
<1> QED BY <1>4, <1>6, <1>8

LEMMA PickFromFound ==
  ASSUME product \in Products, NEW S, NEW s \in Seq(S), NEW k \in BOOLEAN,
         Candidates(s, k) # {}
  PROVE  \E b \in Candidates(s, k) :
           PickFrom(s, k) = Picked(s[b], k) /\ PickFrom(s, k) # Nothing
<1>1. DOMAIN s \subseteq Nat
  BY LenProperties
<1>2. PICK b \in Candidates(s, k) :
        \A i \in Candidates(s, k) : Precedes(s, k, b, i)
  BY <1>1, BestExists
<1>3. PickFrom(s, k) = Picked(s[b], k)
  BY <1>1, <1>2, PickFromBest
<1>4. Picked(s[b], k).found # Nothing.found
  BY DEF Picked, Nothing
<1> QED BY <1>3, <1>4

LEMMA LesserKeeps ==
  ASSUME product \in Products, NEW S, NEW s \in Seq(S), NEW t \in Seq(S),
         NEW n \in 1..Len(t), RemoveAt(t, n) = s,
         Pick(s).found, ServiceRank(t[n]) < ServiceRank(Pick(s).item),
         Pick(s).useKubectl => UsablePorts(t[n], FALSE) = {}
  PROVE  Pick(t) = Pick(s)
<1>1. DOMAIN s \subseteq Nat /\ DOMAIN t \subseteq Nat
  BY LenProperties
<1>2. PickFrom(s, TRUE) # Nothing => PickFrom(s, TRUE).useKubectl
  <2>1. \A k \in BOOLEAN : \A item : Picked(item, k).useKubectl = k
    BY DEF Picked
  <2> QED BY <1>1, <2>1, PickFromBest, PickFromFound
<1>3. Nothing.found = FALSE
  BY DEF Nothing
<1>4. CASE product = "alertmanager" /\ PickFrom(s, FALSE) = Nothing
  <2>1. Pick(s) = PickFrom(s, TRUE)
    BY <1>4 DEF Pick
  <2>2. PickFrom(t, TRUE) = PickFrom(s, TRUE)
    BY <2>1, LesserKeepsPick
  <2>3. UsablePorts(t[n], FALSE) = {}
    BY <1>2, <1>3, <2>1
  <2>4. Candidates(s, FALSE) = {}
    BY <1>4, PickFromFound
  <2>5. Candidates(t, FALSE) = {}
    <3> SUFFICES ASSUME NEW j \in Candidates(t, FALSE) PROVE FALSE
      OBVIOUS
    <3>1. j # n
      BY <2>3 DEF Candidates
    <3> QED BY <2>4, <3>1, CandidatesShift
  <2>6. PickFrom(t, FALSE) = Nothing
    BY <1>1, <2>5, PickFromBest
  <2> QED BY <1>4, <2>1, <2>2, <2>6 DEF Pick
<1>5. CASE ~(product = "alertmanager" /\ PickFrom(s, FALSE) = Nothing)
  <2>1. Pick(s) = PickFrom(s, FALSE)
    BY <1>5 DEF Pick
  <2>2. PickFrom(t, FALSE) = PickFrom(s, FALSE)
    BY <2>1, LesserKeepsPick
  <2>3. PickFrom(t, FALSE) # Nothing
    BY <1>3, <2>1, <2>2
  <2> QED BY <2>1, <2>2, <2>3 DEF Pick
<1> QED BY <1>4, <1>5

-----------------------------------------------------------------------------
ListTyped == product \in Products /\ services \in Seq(Services)

LEMMA ListInductive ==
  /\ ListInit => ListTyped
  /\ ListTyped /\ [ListNext]_listVars => ListTyped'
<1>1. ListInit => ListTyped
  BY DEF ListInit, ListTyped
<1>2. ASSUME ListTyped, AddService PROVE ListTyped'
  <2>1. PICK e \in Services, n \in 0..Len(services) :
          services' = InsertAt(services, n + 1, e)
    BY <1>2 DEF AddService
  <2>2. PICK s : s = services
    OBVIOUS
  <2>3. s \in Seq(Services) /\ Len(s) \in Nat /\ n \in 0..Len(s)
    BY <1>2, <2>2, LenProperties DEF ListTyped
  <2>4. \A i \in 1..Len(s) : s[i] \in Services
    BY <2>3
  <2>5. /\ \A i \in 1..((n + 1) - 1) : s[i] \in Services
        /\ \A i \in (n + 1)..Len(s) : s[i] \in Services
    BY <2>3, <2>4
  <2>6. /\ SubSeq(s, 1, (n + 1) - 1) \in Seq(Services)
        /\ SubSeq(s, n + 1, Len(s)) \in Seq(Services)
        /\ <<e>> \in Seq(Services)
    BY <2>3, <2>5, SubSeqProperties
  <2>7. InsertAt(s, n + 1, e) \in Seq(Services)
    BY <2>6, ConcatProperties DEF InsertAt
  <2> QED BY <1>2, <2>1, <2>2, <2>7 DEF AddService, ListTyped
<1>3. ASSUME ListTyped, RemoveService PROVE ListTyped'
  <2>1. PICK n \in DOMAIN services : services' = RemoveAt(services, n)
    BY <1>3 DEF RemoveService
  <2>2. n \in 1..Len(services)
    BY <1>3, <2>1, LenProperties DEF ListTyped
  <2>3. RemoveAt(services, n) \in Seq(Services)
    BY <1>3, <2>2, Removed DEF ListTyped
  <2> QED BY <1>3, <2>1, <2>3 DEF RemoveService, ListTyped
<1>4. ListTyped /\ UNCHANGED listVars => ListTyped'
  BY DEF ListTyped, listVars
<1> QED BY <1>1, <1>2, <1>3, <1>4 DEF ListNext

(* What a discovery picks can be reached with the transport it picks: an   *)
(* ssh tunnel goes to a NodePort; kubectl is used for Alertmanager only,   *)
(* and only when no Service that looks like one has a NodePort, for every  *)
(* list of Services (discoverAlertmanagerService and bestNodePort).        *)
THEOREM PickReachable == ListSpec => []PickIsReachable
<1>1. ListTyped => PickIsReachable
  <2> SUFFICES ASSUME ListTyped, Pick(services).found
               PROVE  /\ ServiceRank(Pick(services).item) > 0
                      /\ ~Pick(services).useKubectl =>
                           \E p \in DOMAIN Pick(services).item.ports :
                             /\ Pick(services).item.ports[p].nodePort =
                                  Pick(services).target
                             /\ Pick(services).target # 0
                      /\ Pick(services).useKubectl =>
                           /\ product = "alertmanager"
                           /\ \A i \in DOMAIN services :
                                ServiceRank(services[i]) > 0 =>
                                  \A p \in DOMAIN services[i].ports :
                                    services[i].ports[p].nodePort = 0
    BY DEF PickIsReachable
  <2>1. /\ product \in Products /\ services \in Seq(Services)
        /\ DOMAIN services \subseteq Nat
    BY LenProperties DEF ListTyped
  <2>2. PICK k \in BOOLEAN :
          /\ Pick(services) = PickFrom(services, k)
          /\ k => product = "alertmanager" /\ PickFrom(services, FALSE) = Nothing
    BY Zenon DEF Pick
  <2>3. Candidates(services, k) # {}
    BY <2>1, <2>2, PickFromBest DEF Nothing
  <2>4. PICK b \in Candidates(services, k) :
          Pick(services) = Picked(services[b], k)
    BY <2>1, <2>2, <2>3, PickFromFound
  <2>5. PICK s, p : s = services[b] /\ p = BestPort(s, k)
    OBVIOUS
  <2>6. /\ Pick(services).item = s /\ Pick(services).useKubectl = k
        /\ ~k => Pick(services).target = s.ports[p].nodePort
    BY <2>4, <2>5 DEF Picked
  <2>7. s \in Services /\ ServiceRank(s) > 0 /\ UsablePorts(s, k) # {}
    BY <2>1, <2>5 DEF Candidates
  <2>8. p \in UsablePorts(s, k)
    <3>1. DOMAIN s.ports \subseteq Nat
      <4>1. PICK l \in PortLists : s.ports = l
        BY <2>7 DEF Services, Service
      <4>2. l \in Seq(Ports)
        BY DiscoveryAssumption
      <4> QED BY <4>1, <4>2, LenProperties
    <3> QED BY <2>1, <2>5, <2>7, <3>1, BestPortUsable
  <2>9. ASSUME ~k
        PROVE  \E q \in DOMAIN s.ports : /\ s.ports[q].nodePort = Pick(services).target
                                         /\ Pick(services).target # 0
    <3>1. p \in DOMAIN s.ports /\ s.ports[p].nodePort # 0
      BY <2>8, <2>9 DEF UsablePorts
    <3> QED BY <2>6, <2>9, <3>1
  <2>10. ASSUME k, NEW i \in DOMAIN services, ServiceRank(services[i]) > 0,
                NEW q \in DOMAIN services[i].ports
         PROVE  services[i].ports[q].nodePort = 0
    <3>1. Candidates(services, FALSE) = {}
      BY <2>1, <2>2, <2>10, PickFromFound
    <3>2. UsablePorts(services[i], FALSE) = {}
      BY <2>10, <3>1 DEF Candidates
    <3> QED BY <3>2 DEF UsablePorts
  <2> QED BY <2>2, <2>6, <2>7, <2>9, <2>10
<1> QED BY <1>1, ListInductive, PTL DEF ListSpec

(* A Service that looks less like the product than the one picked changes  *)
(* nothing, wherever it appears in a list of any length and whatever ports *)
(* it has, as long as the transport stays (the comparisons of the three    *)
(* discoveries).                                                           *)
THEOREM LesserServicesChangeNothing == ListSpec => LesserServicesDoNotMatter
<1>1. ListTyped /\ ListTyped' =>
        \A n \in DOMAIN services' :
          /\ RemoveAt(services', n) = services
          /\ Pick(services).found
             /\ ServiceRank(services'[n]) < ServiceRank(Pick(services).item)
          /\ Pick(services).useKubectl => UsablePorts(services'[n], FALSE) = {}
          => Pick(services') = Pick(services)
  <2> SUFFICES ASSUME ListTyped, ListTyped', NEW n \in DOMAIN services',
                 RemoveAt(services', n) = services, Pick(services).found,
                 ServiceRank(services'[n]) < ServiceRank(Pick(services).item),
                 Pick(services).useKubectl =>
                   UsablePorts(services'[n], FALSE) = {}
               PROVE  Pick(services') = Pick(services)
    OBVIOUS
  <2>1. /\ product \in Products /\ services \in Seq(Services)
        /\ services' \in Seq(Services) /\ n \in 1..Len(services')
    BY LenProperties DEF ListTyped
  <2> QED BY <2>1, LesserKeeps
<1>2. ListTyped /\ ListTyped' /\ [ListNext]_listVars =>
        [LET old == Pick(services) IN
         \A n \in DOMAIN services' :
           LET added == services'[n] IN
           /\ RemoveAt(services', n) = services
           /\ old.found /\ ServiceRank(added) < ServiceRank(old.item)
           /\ old.useKubectl => UsablePorts(added, FALSE) = {}
           => Pick(services') = old]_listVars
  BY <1>1
<1> QED BY <1>2, ListInductive, PTL DEF ListSpec, LesserServicesDoNotMatter
===============================================================================
