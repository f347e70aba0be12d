-------------------------- MODULE KubeconfigProofs ---------------------------
(***************************************************************************)
(* Proofs about Kubeconfig: its typing, that the file always selects a     *)
(* context it has (with no assumption on the use), and that a user whose   *)
(* commands do not overlap keeps his own entries and gets the ones that    *)
(* were fetched.                                                           *)
(***************************************************************************)
EXTENDS Kubeconfig, TLAPS

LEMMA ConstantFacts ==
  /\ MaxVersion \in Nat \ {0} /\ NoCtx \notin Name
  /\ Ctx \subseteq Name /\ Own \subseteq Name /\ Ctx \cap Own = {}
  /\ 0 \in Version /\ 1 \in Version /\ 1..MaxVersion \subseteq Version
BY KubeconfigAssumption DEF Name, Version

-----------------------------------------------------------------------------
(* What the contents the code builds look like.                            *)
LEMMA EmptyFacts ==
  /\ Empty \in Content /\ Empty.current = NoCtx
  /\ \A x \in Name : Empty.entry[x] = 0
BY ConstantFacts DEF Empty, Content

LEMMA MergedFacts ==
  ASSUME TypeOK, NEW c \in Cli, ctx[c] \in Ctx
  PROVE  /\ Merged(c) \in Content
         /\ Merged(c).current = ctx[c]
         /\ Merged(c).entry[ctx[c]] = fetched[c]
         /\ \A x \in Own : Merged(c).entry[x] = loaded[c].entry[x]
<1>1. ctx[c] \in Name /\ ctx[c] \notin Own
  BY ConstantFacts
<1>2. loaded[c] \in Content /\ fetched[c] \in Version
  BY DEF TypeOK
<1>3. loaded[c].entry \in [Name -> Version]
  BY <1>2 DEF Content
<1> QED BY <1>1, <1>2, <1>3, ConstantFacts DEF Merged, Content

LEMMA UseFacts ==
  ASSUME TypeOK, NEW x \in Name, UseContext(x)
  PROVE  /\ config' \in Content
         /\ config'.entry = config.entry
         /\ Has(config, x) => config'.current = x
         /\ ~Has(config, x) => config' = config
         /\ author' \in {"none", "k3ctx", "kubectl"}
<1>1. config \in Content
  BY DEF TypeOK
<1>2. config \in Content => [config EXCEPT !.current = x] \in Content
  BY DEF Content
<1> QED BY <1>1, <1>2 DEF UseContext, Content, TypeOK

-----------------------------------------------------------------------------
(* The variables stay of their types, and the steps of a command find the  *)
(* local variables they read, however the commands interleave or fail.     *)
Typed == TypeOK /\ ControlOK

LEMMA TypedInit == Init => Typed
<1> SUFFICES ASSUME Init PROVE Typed
  OBVIOUS
<1>1. config \in Content
  <2>1. [x \in Name |-> IF x \in Own THEN 1 ELSE 0] \in [Name -> Version]
    BY ConstantFacts
  <2> QED BY <2>1, ConstantFacts DEF Init, Empty, Content
<1>2. TypeOK
  <2>1. /\ exists \in BOOLEAN /\ author \in {"none", "k3ctx", "kubectl"}
        /\ overlapped \in BOOLEAN /\ damaged \in BOOLEAN
    BY DEF Init
  <2> QED BY <1>1, <2>1, EmptyFacts, ConstantFacts DEF Init, TypeOK, Ended
<1>3. ControlOK
  BY DEF Init, ControlOK, Steps
<1> QED BY <1>2, <1>3 DEF Typed

(* Every way an invocation ends.                                           *)
LEMMA TypedEnd ==
  ASSUME TypeOK, ControlOK, NEW c \in Cli, NEW result \in Ended, End(c, result)
  PROVE  /\ pc' \in [Cli -> Ended \cup Steps] /\ ctx' \in [Cli -> Ctx \cup {NoCtx}]
         /\ fetched' \in [Cli -> Version] /\ loaded' \in [Cli -> Content]
         /\ ControlOK'
<1> USE EmptyFacts, ConstantFacts DEF TypeOK, End, Goto, Ended, Steps
<1>1. /\ pc' \in [Cli -> Ended \cup Steps] /\ ctx' \in [Cli -> Ctx \cup {NoCtx}]
      /\ fetched' \in [Cli -> Version] /\ loaded' \in [Cli -> Content]
  OBVIOUS
<1>2. ControlOK'
  BY DEF ControlOK
<1> QED BY <1>1, <1>2

LEMMA TypedStep == Typed /\ [Next]_vars => Typed'
<1> SUFFICES ASSUME TypeOK, ControlOK, [Next]_vars PROVE TypeOK' /\ ControlOK'
  BY DEF Typed
<1>e. \A r \in {"idle", "ok"} : r \in Ended
  BY DEF Ended
<1>1. CASE UNCHANGED vars
  BY <1>1 DEF vars, file, local, history, TypeOK, ControlOK
<1>2. ASSUME NEW x \in Name, UserSwitches(x) PROVE TypeOK' /\ ControlOK'
  BY <1>2, UseFacts DEF UserSwitches, Begin, local, TypeOK, ControlOK
<1>3. ASSUME NEW x \in Ctx, ClusterRotates(x) PROVE TypeOK' /\ ControlOK'
  <2>1. remote' \in [Ctx -> 1..MaxVersion]
    BY <1>3, ConstantFacts DEF ClusterRotates, TypeOK
  <2> QED BY <1>3, <2>1 DEF ClusterRotates, file, local, history, TypeOK, ControlOK
<1>4. ASSUME NEW c \in Cli, NEW x \in Ctx, StartConnect(c, x)
      PROVE TypeOK' /\ ControlOK'
  BY <1>4 DEF StartConnect, Begin, Goto, file, TypeOK, ControlOK, Steps
<1>5. ASSUME NEW c \in Cli, Interrupt(c) PROVE TypeOK' /\ ControlOK'
  <2>1. End(c, "idle")
    BY <1>5 DEF Interrupt
  <2> QED BY <1>5, <2>1, <1>e, TypedEnd DEF Interrupt, file, TypeOK
<1>6. ASSUME NEW c \in Cli, CliStep(c) PROVE TypeOK' /\ ControlOK'
  <2>1. CASE ContextExists(c)
    BY <2>1 DEF ContextExists, Goto, file, local, history, TypeOK,
        ControlOK, Steps
  <2>2. CASE Fetch(c)
    <3>1. CASE End(c, "idle")
      BY <2>2, <3>1, <1>e, TypedEnd DEF Fetch, file, history, TypeOK
    <3>2. CASE /\ fetched' = [fetched EXCEPT ![c] = remote[ctx[c]]]
               /\ Goto(c, "load") /\ UNCHANGED <<ctx, loaded>>
      <4>1. ctx[c] \in Ctx
        BY <2>2 DEF Fetch, ControlOK, Steps
      <4>2. remote[ctx[c]] \in Version /\ remote[ctx[c]] # 0
        BY <4>1, ConstantFacts DEF TypeOK
      <4> QED BY <2>2, <3>2, <4>1, <4>2
              DEF Fetch, Goto, file, history, TypeOK, ControlOK, Steps
    <3> QED BY <2>2, <3>1, <3>2 DEF Fetch
  <2>3. CASE Load(c)
    BY <2>3 DEF Load, Goto, file, history, TypeOK, ControlOK, Steps
  <2>4. CASE StatFile(c)
    BY <2>4, EmptyFacts DEF StatFile, Goto, file, local, history, TypeOK,
        ControlOK, Steps
  <2>5. CASE Copy(c)
    <3>1. CASE End(c, "idle")
      BY <2>5, <3>1, <1>e, TypedEnd DEF Copy, file, history, TypeOK
    <3>2. CASE backup' = config /\ Goto(c, "truncate") /\ UNCHANGED local
      BY <2>5, <3>2 DEF Copy, Goto, file, local, history, TypeOK,
        ControlOK, Steps
    <3> QED BY <2>5, <3>1, <3>2 DEF Copy
  <2>6. CASE Truncate(c)
    BY <2>6, EmptyFacts DEF Truncate, Goto, local, history, TypeOK, ControlOK, Steps
  <2>7. CASE Write(c)
    <3>1. config' \in Content
      BY <2>7, MergedFacts, EmptyFacts DEF Write, TypeOK, ControlOK, Steps
    <3>4. author' = "k3ctx" /\ damaged' \in BOOLEAN
      BY <2>7 DEF Write, Written, TypeOK
    <3>2. CASE End(c, "idle")
      BY <2>7, <3>1, <3>2, <3>4, <1>e, TypedEnd DEF Write, TypeOK
    <3>3. CASE Written(c)
      BY <2>7, <3>1, <3>3, <3>4, EmptyFacts
      DEF Write, Written, Goto, TypeOK, ControlOK, Steps
    <3> QED BY <2>7, <3>2, <3>3 DEF Write
  <2>8. CASE Switch(c)
    <3>1. ctx[c] \in Name
      BY <2>8, ConstantFacts DEF Switch, ControlOK, Steps
    <3>2. config' \in Content /\ author' \in {"none", "k3ctx", "kubectl"}
      BY <2>8, <3>1, UseFacts DEF Switch
    <3>3. PICK result \in Ended : End(c, result)
      BY <2>8, <1>e DEF Switch
    <3> QED BY <2>8, <3>2, <3>3, TypedEnd DEF Switch, history, TypeOK
  <2> QED BY <1>6, <2>1, <2>2, <2>3, <2>4, <2>5, <2>6, <2>7, <2>8 DEF CliStep
<1> QED BY <1>1, <1>2, <1>3, <1>4, <1>5, <1>6 DEF Next

LEMMA TypedAlways == Spec => []Typed
BY TypedInit, TypedStep, PTL DEF Spec

(* The typing of the model of MergeKubeconfig, for every set of contexts.  *)
THEOREM KubeconfigTyped == Spec => []TypeOK
<1>1. Typed => TypeOK
  BY DEF Typed
<1> QED BY <1>1, TypedAlways, PTL

-----------------------------------------------------------------------------
(* The context ~/.kube/config selects is one it has, though merges         *)
(* interleave, overwrite each other, fail or are killed (MergeKubeconfig   *)
(* and SwitchContext).                                                     *)
THEOREM FileSelectsWhatItHas == Spec => []CurrentExists
<1>1. Init => CurrentExists
  BY EmptyFacts, ConstantFacts DEF Init, CurrentExists, Empty
<1>2. Typed /\ CurrentExists /\ [Next]_vars => CurrentExists'
  <2> SUFFICES ASSUME TypeOK, ControlOK, CurrentExists, [Next]_vars
               PROVE  CurrentExists'
    BY DEF Typed
  <2>1. CASE config' = config
    BY <2>1 DEF CurrentExists, Has
  <2>2. CASE config' = Empty
    BY <2>2, EmptyFacts DEF CurrentExists
  <2>3. ASSUME NEW x \in Name, UseContext(x) PROVE CurrentExists'
    <3>1. CASE Has(config, x)
      BY <2>3, <3>1, UseFacts DEF CurrentExists, Has
    <3>2. CASE ~Has(config, x)
      BY <2>1, <2>3, <3>2 DEF UseContext
    <3> QED BY <3>1, <3>2
  <2>4. ASSUME NEW c \in Cli, Write(c) PROVE CurrentExists'
    <3>1. ctx[c] \in Ctx /\ fetched[c] # 0
      BY <2>4 DEF Write, ControlOK, Steps
    <3>2. CASE config' = Merged(c)
      BY <3>1, <3>2, MergedFacts DEF CurrentExists, Has
    <3> QED BY <2>2, <2>4, <3>2 DEF Write
  <2>5. ASSUME NEW c \in Cli, Switch(c) PROVE CurrentExists'
    BY <2>3, <2>5, ConstantFacts DEF Switch, ControlOK, Steps
  <2>6. ASSUME NEW c \in Cli, CliStep(c) PROVE CurrentExists'
    BY <2>1, <2>2, <2>4, <2>5, <2>6
    DEF CliStep, ContextExists, Fetch, Load, StatFile, Copy, Truncate, file
  <2> QED BY <2>1, <2>3, <2>6
          DEF Next, StartConnect, Interrupt, UserSwitches, ClusterRotates,
              vars, file
<1> QED BY <1>1, <1>2, TypedAlways, PTL DEF Spec

-----------------------------------------------------------------------------
(* Commands that do not overlap.                                           *)
LEMMA MergeInit == Init => MergeInv
<1> SUFFICES ASSUME Init PROVE MergeInv
  OBVIOUS
<1>1. OwnEntriesKept
  BY ConstantFacts DEF Init, OwnEntriesKept, Has, Empty
<1> QED BY <1>1 DEF Init, MergeInv, SoleInv, ReadInv, Busy, Ended

(* A step that leaves the file alone and ends the command, or takes it to  *)
(* a step before the merge.                                                *)
LEMMA MergeQuiet ==
  ASSUME TypeOK, ControlOK, MergeInv, ~overlapped, NEW c \in Cli, Busy(c),
         UNCHANGED <<config, author, overlapped>>,
         damaged' = (damaged \/ pc[c] = "write"),
         NEW l \in Ended \cup {"fetch", "load", "switchold"}, Goto(c, l),
         loaded' = [loaded EXCEPT ![c] = loaded'[c]]
  PROVE  MergeInv'
<1> USE DEF TypeOK, MergeInv, SoleInv, ReadInv, Goto, Busy, Ended, Steps, Has
<1>1. \A d \in Cli \ {c} : pc[d] \in Ended /\ pc'[d] \in Ended
  OBVIOUS
<1>2. OwnEntriesKept'
  BY <1>1 DEF OwnEntriesKept
<1> QED BY <1>1, <1>2

LEMMA MergeStep ==
  ASSUME Typed, MergeInv, [Next]_vars
  PROVE  MergeInv'
<1> USE DEF Typed
<1>1. CASE UNCHANGED vars
  BY <1>1 DEF vars, file, local, history, MergeInv, SoleInv, ReadInv,
              OwnEntriesKept, Busy, Has
<1>o. CASE overlapped'
  BY <1>o DEF MergeInv, SoleInv, ReadInv, OwnEntriesKept
<1>2. ASSUME ~overlapped', NEW x \in Name, UserSwitches(x) PROVE MergeInv'
  <2>1. config'.entry = config.entry
    BY <1>2, UseFacts DEF UserSwitches
  <2>2. ~overlapped /\ \A c \in Cli : pc[c] \in Ended
    BY <1>2 DEF UserSwitches, Begin, Busy
  <2> QED BY <1>2, <2>1, <2>2
          DEF UserSwitches, local, MergeInv, SoleInv, ReadInv,
              OwnEntriesKept, Busy, Ended, Has
<1>3. ASSUME NEW x \in Ctx, ClusterRotates(x) PROVE MergeInv'
  BY <1>3 DEF ClusterRotates, file, local, history, MergeInv, SoleInv,
              ReadInv, OwnEntriesKept, Busy, Has
<1>4. ASSUME ~overlapped', NEW c \in Cli, NEW x \in Ctx, StartConnect(c, x)
      PROVE  MergeInv'
  BY <1>4 DEF StartConnect, Begin, Goto, file, TypeOK, MergeInv, SoleInv,
              ReadInv, OwnEntriesKept, Busy, Ended, Steps, Has
<1>5. ASSUME ~overlapped', NEW c \in Cli, CliStep(c) PROVE MergeInv'
  <2>1. pc[c] \in Steps /\ Busy(c)
    BY <1>5 DEF CliStep, ContextExists, Fetch, Load, StatFile, Copy, Truncate,
                Write, Switch, Busy, Ended, Steps
  <2>o. ~overlapped /\ UNCHANGED overlapped
    BY <1>5 DEF CliStep, ContextExists, Fetch, Load, StatFile, Copy, Truncate,
                Write, Switch, history
  <2>2. \A d \in Cli \ {c} : pc[d] \in Ended
    BY <2>1, <2>o DEF MergeInv, SoleInv, Busy
  <2> USE <2>o DEF MergeInv, SoleInv, ReadInv, Busy, Ended
  <2>3. CASE ContextExists(c)
    BY <2>1, <2>3, MergeQuiet
    DEF ContextExists, file, local, history, TypeOK
  <2>4. CASE Fetch(c)
    BY <2>1, <2>4, MergeQuiet DEF Fetch, file, history, End, TypeOK
  <2>5. CASE Load(c)
    <3>1. ~damaged => \A x \in Own : Has(config, x)
      BY <2>2, <2>5 DEF Load, OwnEntriesKept
    <3> QED BY <2>2, <2>5, <3>1
            DEF Load, Goto, file, history, TypeOK, OwnEntriesKept, Steps, Has
  <2>6. CASE StatFile(c)
    BY <2>2, <2>6 DEF StatFile, Goto, file, local, history, TypeOK,
                      OwnEntriesKept, Steps, Has
  <2>7. CASE Copy(c)
    <3>1. CASE End(c, "idle")
      BY <2>1, <2>7, <3>1, MergeQuiet DEF Copy, file, history, End, TypeOK
    <3>2. CASE Goto(c, "truncate") /\ UNCHANGED local
      BY <2>2, <2>7, <3>2 DEF Copy, Goto, file, local, history, TypeOK,
                              OwnEntriesKept, Steps, Has
    <3> QED BY <2>7, <3>1, <3>2 DEF Copy
  <2>8. CASE Truncate(c)
    <3>1. ~damaged => \A x \in Own : Has(loaded[c], x)
      BY <2>8 DEF Truncate
    <3> QED BY <2>2, <2>8, <3>1
            DEF Truncate, Goto, local, history, TypeOK, OwnEntriesKept, Steps,
                Has
  <2>9. CASE Write(c)
    <3>1. \A d \in Cli \ {c} : pc'[d] \in Ended
      BY <2>2, <2>9 DEF Write, Written, End, Goto, TypeOK
    <3>w. author = "none"
      BY <2>9 DEF Write
    <3>2. CASE config' = Merged(c) /\ Written(c) /\ UNCHANGED damaged
      <4>1. ctx[c] \in Ctx
        BY <2>9 DEF Write, ControlOK, Steps
      <4>2. config'.entry[ctx[c]] = fetched[c]
        BY <3>2, <4>1, MergedFacts
      <4>3. ~damaged => \A x \in Own : Has(config', x)
        BY <2>9, <3>2, <4>1, MergedFacts DEF Write, Has
      <4> QED BY <3>1, <3>2, <4>2, <4>3
              DEF Written, Goto, TypeOK, OwnEntriesKept, Steps
    <3>3. CASE End(c, "idle") /\ damaged'
      <4>1. \A d \in Cli : pc'[d] \in Ended
        BY <3>1, <3>3 DEF End, Goto, TypeOK
      <4> QED BY <3>3, <4>1 DEF OwnEntriesKept
    <3> QED BY <2>9, <3>w, <3>2, <3>3 DEF Write, MayMix
  <2>10. CASE Switch(c)
    <3>1. config'.entry = config.entry
      BY <2>10, UseFacts, ConstantFacts DEF Switch, ControlOK, Steps
    <3>2. ~damaged => \A x \in Own : Has(config', x)
      BY <2>2, <2>10, <3>1 DEF Switch, OwnEntriesKept, Has
    <3>3. PICK result \in Ended : Goto(c, result)
      BY <2>10 DEF Switch, End
    <3>4. \A d \in Cli : pc'[d] \in Ended
      BY <2>2, <3>3 DEF Goto, TypeOK
    <3> QED BY <2>10, <3>2, <3>4 DEF Switch, history, OwnEntriesKept
  <2> QED BY <1>5, <2>3, <2>4, <2>5, <2>6, <2>7, <2>8, <2>9, <2>10 DEF CliStep
<1>6. ASSUME ~overlapped', NEW c \in Cli, Interrupt(c) PROVE MergeInv'
  BY <1>6, MergeQuiet DEF Interrupt, file, End, Ended, TypeOK
<1> QED BY <1>1, <1>o, <1>2, <1>3, <1>4, <1>5, <1>6 DEF Next

LEMMA MergeAlways == Spec => [](Typed /\ MergeInv)
<1>1. Typed /\ MergeInv /\ [Next]_vars => MergeInv'
  BY MergeStep
<1> QED BY <1>1, MergeInit, TypedAlways, PTL DEF Spec

(* No sequence of connects, and no cluster that changes between them,      *)
(* loses an entry the user keeps in the file (MergeKubeconfig: what is     *)
(* read is written back).                                                  *)
THEOREM OwnEntriesSurvive == Spec => []OwnEntriesKept
<1>1. MergeInv => OwnEntriesKept
  BY DEF MergeInv
<1> QED BY <1>1, MergeAlways, PTL

(* A connect that merged leaves the file with the version it fetched, and  *)
(* selected (MergeKubeconfig, then SwitchContext), also after merges that  *)
(* were cut off.                                                           *)
THEOREM ConnectSelectsFetched == Spec => MergesWhatItFetched
<1> DEFINE A == \A c \in Cli : pc[c] = "switch" /\ pc'[c] = "ok" /\ ~overlapped =>
                  /\ config'.entry[ctx[c]] = fetched[c]
                  /\ config'.current = ctx[c]
<1>1. Typed /\ MergeInv /\ [Next]_vars => [A]_vars
  <2> SUFFICES ASSUME Typed, MergeInv, Next, NEW c \in Cli,
                      pc[c] = "switch", pc'[c] = "ok", ~overlapped
               PROVE  /\ config'.entry[ctx[c]] = fetched[c]
                      /\ config'.current = ctx[c]
    OBVIOUS
  <2>1. Switch(c)
    BY DEF Next, CliStep, ContextExists, Fetch, Load, StatFile, Copy, Truncate,
           Write, Written, Switch, Interrupt, StartConnect, UserSwitches,
           ClusterRotates, End, Goto, local, Typed, TypeOK
  <2>2. ctx[c] \in Name /\ fetched[c] # 0 /\ config.entry[ctx[c]] = fetched[c]
    BY ConstantFacts DEF Typed, ControlOK, MergeInv, SoleInv, Steps
  <2> QED BY <2>1, <2>2, UseFacts DEF Switch, Typed, Has
<1>2. Spec => [][A]_vars
  BY <1>1, MergeAlways, PTL DEF Spec
<1> QED BY <1>2 DEF MergesWhatItFetched

-----------------------------------------------------------------------------
(* The backup.                                                             *)
LEMMA CopyInit == Init => CopyInv
<1> SUFFICES ASSUME Init PROVE CopyInv
  OBVIOUS
<1>1. \A x \in Name : Has(config, x) => Own # {}
  BY ConstantFacts DEF Init, Has, Empty
<1> QED BY <1>1 DEF Init, CopyInv

LEMMA CopyStep ==
  ASSUME Typed, MergeInv, CopyInv, [Next]_vars
  PROVE  CopyInv'
<1> USE DEF Typed, Has
<1>1. CASE UNCHANGED vars
  BY <1>1 DEF vars, file, local, history, CopyInv
<1>2. ASSUME NEW x \in Name, UserSwitches(x) PROVE CopyInv'
  <2>1. config'.entry = config.entry
    BY <1>2, UseFacts DEF UserSwitches
  <2>2. ~overlapped' => ~overlapped /\ \A c \in Cli : pc[c] \in Ended
    BY <1>2 DEF UserSwitches, Begin, Busy
  <2> QED BY <1>2, <2>1, <2>2 DEF UserSwitches, local, CopyInv, Ended
<1>3. ASSUME NEW x \in Ctx, ClusterRotates(x) PROVE CopyInv'
  BY <1>3 DEF ClusterRotates, file, local, history, CopyInv
<1>4. ASSUME NEW c \in Cli, NEW x \in Ctx, StartConnect(c, x) PROVE CopyInv'
  <2>1. ~overlapped' => ~overlapped
    BY <1>4 DEF StartConnect, Begin
  <2> QED BY <1>4, <2>1 DEF StartConnect, Goto, file, TypeOK, CopyInv
<1>5. ASSUME NEW c \in Cli, CliStep(c) PROVE CopyInv'
  <2>1. Busy(c) /\ UNCHANGED overlapped
    BY <1>5 DEF CliStep, ContextExists, Fetch, Load, StatFile, Copy, Truncate,
                Write, Switch, history, Busy, Ended
  <2>2. ~overlapped => \A d \in Cli \ {c} : pc[d] \in Ended
    BY <2>1 DEF MergeInv, SoleInv, Busy
  <2> USE <2>1, <2>2 DEF CopyInv, TypeOK, Ended, Steps
  <2>3. CASE ContextExists(c)
    BY <2>3 DEF ContextExists, file, local, Goto
  <2>4. CASE Fetch(c)
    BY <2>4 DEF Fetch, file, End, Goto
  <2>5. CASE Load(c)
    BY <2>5 DEF Load, file, Goto
  <2>6. CASE StatFile(c)
    BY <2>6, ConstantFacts DEF StatFile, file, local, Goto
  <2>7. CASE Copy(c)
    BY <2>7 DEF Copy, file, local, End, Goto
  <2>8. CASE Truncate(c)
    BY <2>8, EmptyFacts, ConstantFacts DEF Truncate, local, Goto
  <2>9. CASE Write(c)
    <3>1. exists /\ exists' /\ UNCHANGED backup
      BY <2>9 DEF Write
    <3>2. CASE Written(c)
      BY <2>9, <3>1, <3>2 DEF Written, Goto
    <3>3. CASE End(c, "idle")
      BY <2>9, <3>1, <3>3 DEF End, Goto
    <3> QED BY <2>9, <3>2, <3>3 DEF Write
  <2>10. CASE Switch(c)
    <3>1. config'.entry = config.entry
      BY <2>10, UseFacts, ConstantFacts DEF Switch, ControlOK
    <3> QED BY <2>10, <3>1 DEF Switch, End, Goto
  <2> QED BY <1>5, <2>3, <2>4, <2>5, <2>6, <2>7, <2>8, <2>9, <2>10 DEF CliStep
<1>6. ASSUME NEW c \in Cli, Interrupt(c) PROVE CopyInv'
  BY <1>6 DEF Interrupt, End, Goto, file, TypeOK, CopyInv
<1> QED BY <1>1, <1>2, <1>3, <1>4, <1>5, <1>6 DEF Next

(* A merge that is killed or cannot write never destroys the last copy of  *)
(* an entry it has read (MergeKubeconfig: copyFile before WriteFile), as   *)
(* long as commands do not overlap.                                        *)
THEOREM LastCopySurvives == Spec => LastCopyKept
<1> DEFINE A == \A x \in Own : Somewhere(x) /\ ~Somewhere(x)' /\ ~overlapped =>
                  \E c \in Cli : Busy(c) /\ ~Has(loaded[c], x)
<1>1. Typed /\ MergeInv /\ CopyInv /\ [Next]_vars => [A]_vars
  <2> SUFFICES ASSUME Typed, MergeInv, CopyInv, Next, ~overlapped, NEW x \in Own,
                      Has(config, x) \/ Has(backup, x),
                      ~Has(config', x) /\ ~Has(backup', x)
               PROVE  \E c \in Cli : Busy(c) /\ ~Has(loaded[c], x)
    BY DEF Somewhere, Has
  <2>1. ~(config' = config /\ backup' = backup)
    OBVIOUS
  <2>2. ASSUME NEW y \in Name, UserSwitches(y) PROVE FALSE
    BY <2>2, UseFacts DEF UserSwitches, Typed, Has
  <2>3. PICK c \in Cli : CliStep(c)
    BY <2>1, <2>2 DEF Next, StartConnect, Interrupt, ClusterRotates, file
  <2> USE DEF Busy, Ended, Has, CopyInv
  <2>4. CASE StatFile(c)
    BY <2>4 DEF StatFile, file
  <2>5. CASE Copy(c)
    BY <2>5 DEF Copy, file
  <2>6. CASE Truncate(c)
    BY <2>6 DEF Truncate
  <2>7. CASE Write(c)
    <3>1. ctx[c] \in Ctx
      BY <2>7 DEF Write, Typed, ControlOK, Steps
    <3>2. Has(backup, x)
      BY <2>7 DEF Write
    <3> QED BY <2>7, <3>2 DEF Write
  <2>8. CASE Switch(c)
    BY <2>8, UseFacts, ConstantFacts DEF Switch, Typed, ControlOK, Steps
  <2>9. CASE ContextExists(c) \/ Fetch(c) \/ Load(c)
    BY <2>1, <2>9 DEF ContextExists, Fetch, Load, file
  <2> QED BY <2>3, <2>4, <2>5, <2>6, <2>7, <2>8, <2>9 DEF CliStep
<1>2. Spec => [][A]_vars
  BY <1>1, CopyInit, CopyStep, MergeAlways, PTL DEF Spec
<1> QED BY <1>2 DEF LastCopyKept
=============================================================================
