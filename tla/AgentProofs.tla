---------------------------- MODULE AgentProofs ----------------------------
(***************************************************************************)
(* Theorems about Agent, for every set of pods and every way to run it:    *)
(* its state is well formed, and an orderly stop leaves the host clean.    *)
(***************************************************************************)
EXTENDS Agent, SequenceTheorems, TLAPS

USE DEF hostVars, podVars

(***************************************************************************)
(* Types.  A pod that is being deployed from a file is the first of todo.  *)
(***************************************************************************)
HasFile == pc = "preloadVM" => todo # <<>>

TypeInv == TypeOK /\ HasFile

LEMMA SettingTyped ==
    ASSUME TypeOK
    PROVE  /\ opts.networkMode \in NetworkModes /\ opts.fljson \in Seq(Pods)
           /\ VMs \subseteq Pods /\ LateRequests \in BOOLEAN
           /\ setting.maxCrashes \in Nat /\ setting.maxSignals \in Nat
BY AgentAssumption DEF TypeOK, SettingType, OptionType, opts, VMs, LateRequests

\* What the network calls do to the state of a pod.
PodTyped ==
    /\ netns \subseteq Pods /\ podNamespaces \subseteq Pods
    /\ bridges \in [Pods -> SUBSET {"entry", "lost"}]
    /\ taps \in [Pods -> SUBSET {"entry", "lost"}]
    /\ podDevices \in [Pods -> {"none", "partial", "routed"}]
    /\ outcome \in [Pods -> {"none", "up", "failed", "panicked", "stopped"}]

LEMMA InitTyped == Init => TypeInv
<1> SUFFICES ASSUME Init PROVE TypeInv
  OBVIOUS
<1>1. setting.maxCrashes \in Nat /\ setting.maxSignals \in Nat
  BY AgentAssumption DEF Init, SettingType
<1>2. PodTyped
  BY DEF Init, PodTyped
<1>3. todo \in Seq(Pods)
  BY DEF Init
<1>4. crashes \in 0 .. setting.maxCrashes /\ signals \in 0 .. setting.maxSignals
  BY <1>1 DEF Init
<1>5. QED
  BY <1>2, <1>3, <1>4 DEF Init, PodTyped, TypeInv, TypeOK, HasFile, Ended

LEMMA ForgetTyped ==
    ASSUME NEW links \in SUBSET {"entry", "lost"}
    PROVE  Forget(links) \in SUBSET {"lost"}
BY DEF Forget

LEMMA InitPodNetworkTyped ==
    ASSUME TypeOK, NEW p \in Pods, InitPodNetwork(p) PROVE PodTyped'
<1>1. CASE LegacyInitPodNetwork(p)
  BY <1>1 DEF LegacyInitPodNetwork, Outcome, TypeOK, PodTyped
<1>2. CASE MultiInitPodNetwork(p)
  <2>1. /\ Forget(bridges[p]) \in SUBSET {"lost"}
        /\ Forget(taps[p]) \in SUBSET {"lost"}
    BY ForgetTyped DEF TypeOK
  <2>2. QED
    BY <1>2, <2>1 DEF MultiInitPodNetwork, Outcome, TypeOK, PodTyped
<1>3. CASE InitPodNetworkPanics(p)
  BY <1>3 DEF InitPodNetworkPanics, Outcome, TypeOK, PodTyped
<1>4. QED
  BY <1>1, <1>2, <1>3 DEF InitPodNetwork

LEMMA CreateVMTunTyped ==
    ASSUME TypeOK, NEW p \in Pods, CreateVMTun(p) PROVE PodTyped'
<1>1. outcome' \in [Pods -> {"none", "up", "failed", "panicked", "stopped"}]
  BY DEF CreateVMTun, Outcome, TypeOK
<1>2. QED
  BY <1>1 DEF CreateVMTun, TypeOK, PodTyped

LEMMA NextTyped == TypeInv /\ [Next]_vars => TypeInv'
<1> SUFFICES ASSUME TypeInv, [Next]_vars PROVE TypeInv'
  OBVIOUS
<1> USE DEF TypeInv, HasFile, Goto
<1>1. /\ TypeOK
      /\ opts.networkMode \in NetworkModes /\ opts.fljson \in Seq(Pods)
      /\ setting.maxCrashes \in Nat /\ setting.maxSignals \in Nat
  BY SettingTyped
<1>2. CASE LoadConfig \/ InitExternalAccess \/ StartVkubelet \/ Serve \/ Select
           \/ ServerEnds \/ TeardownExternalAccess \/ Exit
  BY <1>1, <1>2 DEF LoadConfig, InitExternalAccess, StartVkubelet, Serve, Select,
        ServerEnds, AfterSelect, TeardownExternalAccess, Exit, TypeOK, Ended, opts
<1>3. CASE InitContainerNetworking
  BY <1>1, <1>3 DEF InitContainerNetworking, setupCNI0, setupCNIDummy, TypeOK, Ended
<1>4. CASE getProviderWithConfig
  <2>1. todo' \in {todo, opts.fljson, <<>>}
    BY <1>4 DEF getProviderWithConfig
  <2>2. <<>> \in Seq(Pods)
    OBVIOUS
  <2>3. todo' \in Seq(Pods)
    BY <1>1, <2>1, <2>2 DEF TypeOK
  <2>4. QED
    BY <1>1, <1>4, <2>3 DEF getProviderWithConfig, TypeOK, Ended
<1>5. CASE PreloadNetwork
  <2>1. Head(todo) \in Pods /\ Tail(todo) \in Seq(Pods)
    BY <1>1, <1>5, HeadTailProperties DEF PreloadNetwork, TypeOK
  <2>2. PodTyped'
    BY <1>1, <1>5, <2>1, InitPodNetworkTyped DEF PreloadNetwork
  <2>3. QED
    BY <1>1, <1>5, <2>1, <2>2 DEF PreloadNetwork, PodTyped, TypeOK, Ended
<1>6. CASE PreloadVM
  <2>1. Head(todo) \in Pods /\ Tail(todo) \in Seq(Pods)
    BY <1>1, <1>6, HeadTailProperties DEF PreloadVM, TypeOK
  <2>2. PodTyped'
    BY <1>1, <1>6, <2>1, CreateVMTunTyped DEF PreloadVM
  <2>3. QED
    BY <1>1, <1>6, <2>1, <2>2 DEF PreloadVM, PodTyped, TypeOK, Ended
<1>7. CASE TeardownContainerNetworking
  <2>1. \A p \in Pods : /\ bridges[p] \ {"entry"} \in SUBSET {"entry", "lost"}
                        /\ taps[p] \ {"entry"} \in SUBSET {"entry", "lost"}
    BY <1>1 DEF TypeOK
  <2>2. /\ bridges' \in [Pods -> SUBSET {"entry", "lost"}]
        /\ taps' \in [Pods -> SUBSET {"entry", "lost"}]
    <3>1. CASE Multi
      BY <1>7, <2>1, <3>1 DEF TeardownContainerNetworking
    <3>2. CASE ~Multi
      BY <1>1, <1>7, <3>2 DEF TeardownContainerNetworking, TypeOK
    <3>3. QED
      BY <3>1, <3>2
  <2>3. netns' \subseteq Pods /\ cni0' \in BOOLEAN
    BY <1>1, <1>7 DEF TeardownContainerNetworking, TypeOK
  <2>4. QED
    BY <1>1, <1>7, <2>2, <2>3 DEF TeardownContainerNetworking, TypeOK, Ended
<1>8. CASE Signal \/ Crash
  <2>1. crashes' \in 0 .. setting.maxCrashes /\ signals' \in 0 .. setting.maxSignals
    BY <1>1, <1>8 DEF Signal, Crash, TypeOK
  <2>2. QED
    BY <1>1, <1>8, <2>1 DEF Signal, Crash, TypeOK, Running, Ended
<1>9. CASE Restart
  <2>1. \A p \in Pods : /\ Forget(bridges[p]) \in SUBSET {"entry", "lost"}
                        /\ Forget(taps[p]) \in SUBSET {"entry", "lost"}
    BY <1>1, ForgetTyped DEF TypeOK
  <2>2. /\ bridges' \in [Pods -> SUBSET {"entry", "lost"}]
        /\ taps' \in [Pods -> SUBSET {"entry", "lost"}]
    BY <1>9, <2>1 DEF Restart
  <2>3. todo' \in Seq(Pods)
    BY <1>9 DEF Restart
  <2>4. QED
    BY <1>1, <1>9, <2>2, <2>3 DEF Restart, TypeOK, Ended
<1>10. ASSUME NEW p \in Pods, Request(p) PROVE TypeInv'
  <2>1. CASE Deploy(p)
    <3>1. PodTyped'
      BY <1>1, <2>1, InitPodNetworkTyped DEF Deploy
    <3>2. QED
      BY <1>1, <2>1, <3>1 DEF Deploy, Accepting, PodTyped, TypeOK, Ended
  <2>2. CASE DeployVM(p)
    <3>1. PodTyped'
      BY <1>1, <2>2, CreateVMTunTyped DEF DeployVM
    <3>2. QED
      BY <1>1, <2>2, <3>1 DEF DeployVM, PodTyped, TypeOK, Ended
  <2>3. CASE StopPodNetwork(p)
    BY <1>1, <2>3 DEF StopPodNetwork, Outcome, TypeOK, Ended
  <2>4. QED
    BY <1>10, <2>1, <2>2, <2>3 DEF Request
<1>11. CASE UNCHANGED vars
  BY <1>1, <1>11 DEF vars, TypeOK
<1>12. QED
  BY <1>2, <1>3, <1>4, <1>5, <1>6, <1>7, <1>8, <1>9, <1>10, <1>11 DEF Next, Step

(***************************************************************************)
(* The agent's state is well formed in every mode, whatever fails.         *)
(***************************************************************************)
THEOREM TypeCorrect == Spec => []TypeOK
<1>1. TypeInv => TypeOK
  BY DEF TypeInv
<1>2. QED
  BY <1>1, InitTyped, NextTyped, PTL DEF Spec
-----------------------------------------------------------------------------
(***************************************************************************)
(* What an orderly stop leaves.  Entries are made only by a manager that   *)
(* has them (Owned); the route and cni0 are there only in the modes that   *)
(* set them up, and go in the order of the teardown (Removed); a           *)
(* namespace that is gone was taken by StopPodNetwork, which only a        *)
(* serving agent runs (Deleted); and what the teardown removed does not    *)
(* come back (Gone).                                                       *)
(***************************************************************************)
NothingFails == Faults = {} /\ ~LateRequests

Starting == {"config", "cluster", "access", "networking", "provider", "preload",
             "preloadVM"}

NoEntry(p) == "entry" \notin bridges[p] \cup taps[p]

Owned ==
    /\ managers => Standalone
    /\ ~managers => podNamespaces = {}
    /\ ~managers \/ ~Multi => \A p \in Pods : NoEntry(p)
    /\ Multi => \A p \in podNamespaces : podDevices[p] # "none"
    /\ pc \notin Ended \cup {"config", "cluster", "serving"} => Standalone

Removed ==
    /\ opts.enableWarrens \/ ~Standalone => ~route
    /\ pc \in {"teardown", "exit", "stopped"} => ~route
    /\ Multi \/ ~Standalone => ~cni0
    /\ pc \in {"exit", "stopped"} => ~cni0

Deleted ==
    /\ pc \in Starting => podNamespaces \subseteq netns
    /\ pc \in {"serving", "unroute", "teardown"} =>
           \A p \in podNamespaces \ netns : outcome[p] = "stopped"

Gone ==
    pc \in {"exit", "stopped"} =>
        /\ \A p \in Pods : NoEntry(p)
        /\ (\A p \in Pods : outcome[p] # "stopped") => podNamespaces \cap netns = {}

CleanInv == NothingFails => Owned /\ Removed /\ Deleted /\ Gone

LEMMA CleanInvSuffices == CleanInv => StopsClean
BY DEF CleanInv, NothingFails, Removed, Gone, NoEntry, StopsClean
LEMMA InitClean == Init => CleanInv
BY DEF Init, CleanInv, Owned, Removed, Deleted, Gone, NoEntry, Starting

\* Steps of the start and of the stop that leave the pods alone.
LEMMA QuietClean ==
    ASSUME TypeInv, CleanInv, NothingFails,
           LoadConfig \/ InitExternalAccess \/ InitContainerNetworking
           \/ getProviderWithConfig \/ StartVkubelet \/ Serve \/ Select
           \/ TeardownExternalAccess \/ Exit \/ Signal \/ Crash
    PROVE  (Owned /\ Removed /\ Deleted /\ Gone)'
<1> USE DEF Goto, opts, Standalone, Multi, Faults
<1>1. UNCHANGED <<setting, podVars, outcome>>
  BY DEF LoadConfig, InitExternalAccess, InitContainerNetworking, getProviderWithConfig,
         StartVkubelet, Serve, Select, TeardownExternalAccess, Exit, Signal, Crash
<1>2. \A p \in Pods : NoEntry(p)' <=> NoEntry(p)
  BY <1>1 DEF NoEntry
<1>3. /\ managers' => Standalone
      /\ managers => managers'
      /\ pc' \notin Ended \cup {"config", "cluster", "serving"} => Standalone
  <2> USE DEF CleanInv, Owned, Ended
  <2>1. CASE LoadConfig \/ StartVkubelet \/ Serve \/ Exit \/ Signal \/ Crash
    BY <2>1 DEF LoadConfig, StartVkubelet, Serve, Exit, Signal, Crash, Running
  <2>2. CASE InitExternalAccess \/ TeardownExternalAccess \/ getProviderWithConfig
    <3>1. pc \in {"access", "unroute", "provider"} /\ UNCHANGED managers
      BY <2>2 DEF InitExternalAccess, TeardownExternalAccess, getProviderWithConfig
    <3>2. QED
      BY <3>1
  <2>3. CASE InitContainerNetworking
    <3>1. pc = "networking" /\ (managers' = TRUE \/ UNCHANGED managers)
      BY <2>3 DEF InitContainerNetworking, setupCNI0
    <3>2. QED
      BY <3>1
  <2>4. CASE Select
    BY <2>4 DEF Select, AfterSelect
  <2>5. QED
    BY <2>1, <2>2, <2>3, <2>4
<1>4. Owned'
  BY <1>1, <1>2, <1>3 DEF CleanInv, Owned, Ended
<1>5. /\ opts.enableWarrens \/ ~Standalone => ~route'
      /\ Multi \/ ~Standalone => ~cni0'
      /\ pc' \in {"teardown", "exit", "stopped"} => ~route'
      /\ pc' \in {"exit", "stopped"} => ~cni0'
  <2> USE DEF CleanInv, Owned, Removed, Ended
  <2>1. CASE LoadConfig \/ getProviderWithConfig \/ StartVkubelet \/ Serve \/ Exit
             \/ Signal \/ Crash
    BY <2>1 DEF LoadConfig, getProviderWithConfig, StartVkubelet, Serve, Exit, Signal,
          Crash
  <2>2. CASE InitExternalAccess
    BY <2>2 DEF InitExternalAccess
  <2>3. CASE InitContainerNetworking
    <3>1. /\ pc = "networking" /\ pc' \in {"provider", "failed"} /\ UNCHANGED route
          /\ Multi => UNCHANGED cni0
      BY <2>3 DEF InitContainerNetworking, setupCNI0
    <3>2. QED
      BY <3>1
  <2>4. CASE Select
    BY <2>4 DEF Select, AfterSelect
  <2>5. CASE TeardownExternalAccess
    <3>1. /\ pc = "unroute" /\ pc' = "teardown" /\ UNCHANGED cni0 /\ ~route'
      BY <2>5 DEF TeardownExternalAccess, NothingFails
    <3>2. QED
      BY <3>1
  <2>6. QED
    BY <2>1, <2>2, <2>3, <2>4, <2>5
<1>7. Removed'
  BY <1>1, <1>5 DEF Removed
<1>8. /\ pc' \in Starting => pc \in Starting
      /\ pc' \in {"serving", "unroute", "teardown"} =>
             pc \in Starting \cup {"serving", "unroute", "teardown"}
      /\ pc' \in {"exit", "stopped"} => pc \in {"exit", "stopped"} \/ ~Standalone
  BY DEF LoadConfig, InitExternalAccess, InitContainerNetworking, setupCNI0,
         getProviderWithConfig, StartVkubelet, Serve, Select, AfterSelect,
         TeardownExternalAccess, Exit, Signal, Crash, Starting, Running, Ended
<1>9. Deleted'
  BY <1>1, <1>8 DEF CleanInv, Deleted
<1>10. Gone'
  <2>1. ~Standalone => podNamespaces = {} /\ \A p \in Pods : NoEntry(p)
    BY DEF CleanInv, Owned
  <2>2. QED
    BY <1>1, <1>2, <1>8, <2>1 DEF CleanInv, Gone
<1>11. QED
  BY <1>4, <1>7, <1>9, <1>10

\* A pod's network is set up, at the start or by a request.
LEMMA InitPodNetworkClean ==
    ASSUME TypeInv, CleanInv, NothingFails, NEW p \in Pods, InitPodNetwork(p),
           UNCHANGED <<setting, hostVars, managers>>,
           pc \in {"preload", "serving"}, pc' \in {pc, "preloadVM", "crashed"},
           pc' = "preloadVM" => pc = "preload"
    PROVE  (Owned /\ Removed /\ Deleted /\ Gone)'
<1> USE DEF Goto, opts, Standalone, Multi, Faults
<1>1. /\ \A q \in Pods \ {p} : /\ NoEntry(q) => NoEntry(q)'
                               /\ outcome'[q] = outcome[q]
                               /\ podDevices'[q] = podDevices[q]
                               /\ q \in podNamespaces' <=> q \in podNamespaces
                               /\ q \in netns' <=> q \in netns
      /\ p \in podNamespaces' => p \in netns' \/ (p \in podNamespaces /\ ~managers)
      /\ ~managers => podNamespaces' = podNamespaces
      /\ ~managers \/ ~Multi => (NoEntry(p) => NoEntry(p)')
      /\ Multi /\ p \in podNamespaces' => \/ podDevices'[p] # "none"
                                          \/ ~managers /\ p \in podNamespaces
      /\ podNamespaces' \subseteq podNamespaces \cup {p}
  <2>1. CASE managers /\ ~Multi /\ LegacyInitPodNetwork(p)
    BY <2>1 DEF LegacyInitPodNetwork, Outcome, NoEntry, TypeInv, TypeOK, NothingFails
  <2>2. CASE managers /\ Multi /\ MultiInitPodNetwork(p)
    BY <2>2 DEF MultiInitPodNetwork, Outcome, NoEntry, TypeInv, TypeOK
  <2>3. CASE InitPodNetworkPanics(p)
    BY <2>3 DEF InitPodNetworkPanics, Outcome, NoEntry, TypeInv, TypeOK, NothingFails
  <2>4. QED
    BY <2>1, <2>2, <2>3 DEF InitPodNetwork
<1>2. Owned'
  BY <1>1 DEF CleanInv, Owned, TypeInv, TypeOK, Ended
<1>3. Removed'
  BY DEF CleanInv, Removed
<1>4. Deleted'
  <2>1. podNamespaces' \subseteq Pods
    BY <1>1 DEF TypeInv, TypeOK
  <2>2. p \in podNamespaces' => p \in netns'
    BY <1>1 DEF CleanInv, Owned
  <2>3. CASE pc = "preload"
    BY <1>1, <2>1, <2>2, <2>3 DEF CleanInv, Deleted, Starting
  <2>4. CASE pc = "serving"
    BY <1>1, <2>1, <2>2, <2>4 DEF CleanInv, Deleted, Starting
  <2>5. QED
    BY <2>3, <2>4
<1>5. Gone'
  BY DEF Gone
<1>6. QED
  BY <1>2, <1>3, <1>4, <1>5

\* A tap for a VM of the pod, at the start or by a request.
LEMMA CreateVMTunClean ==
    ASSUME TypeInv, CleanInv, NothingFails, NEW p \in Pods, CreateVMTun(p),
           UNCHANGED <<setting, hostVars, managers>>,
           \/ pc = "preloadVM" /\ pc' \in {"preload", "crashed"}
           \/ /\ pc = "serving" /\ pc' = pc
              /\ outcome[p] \in {"up", "failed"}
    PROVE  (Owned /\ Removed /\ Deleted /\ Gone)'
<1> USE DEF opts, Standalone, Multi
<1>1. /\ UNCHANGED <<netns, bridges, podNamespaces, podDevices>>
      /\ \A q \in Pods \ {p} : outcome'[q] = outcome[q]
  BY DEF CreateVMTun, Outcome, TypeInv, TypeOK
<1>2. ~managers \/ ~Multi => \A q \in Pods : NoEntry(q) => NoEntry(q)'
  BY DEF CreateVMTun, NoEntry, TypeInv, TypeOK, CleanInv, Owned
<1>3. Owned'
  BY <1>1, <1>2 DEF CleanInv, Owned, Ended
<1>4. Removed'
  BY DEF CleanInv, Removed
<1>5. Deleted'
  BY <1>1 DEF CleanInv, Deleted, Starting, TypeInv, TypeOK
<1>6. Gone'
  BY DEF Gone
<1>7. QED
  BY <1>3, <1>4, <1>5, <1>6

LEMMA StopPodNetworkClean ==
    ASSUME TypeInv, CleanInv, NothingFails, NEW p \in Pods, StopPodNetwork(p)
    PROVE  (Owned /\ Removed /\ Deleted /\ Gone)'
<1> USE DEF opts, Standalone, Multi
<1>1. pc = "serving" /\ pc' = pc
  BY DEF StopPodNetwork, Accepting, NothingFails
<1>2. \A q \in Pods : NoEntry(q) => NoEntry(q)'
  BY DEF StopPodNetwork, NoEntry, TypeInv, TypeOK
<1>3. Owned'
  BY <1>1, <1>2 DEF StopPodNetwork, CleanInv, Owned
<1>4. Removed'
  BY <1>1 DEF StopPodNetwork, CleanInv, Removed
<1>5. Deleted'
  BY <1>1 DEF StopPodNetwork, Outcome, CleanInv, Owned, Deleted, Starting, TypeInv, TypeOK
<1>6. Gone'
  BY <1>1 DEF Gone
<1>7. QED
  BY <1>3, <1>4, <1>5, <1>6

\* The teardown: every namespace goes unless one was deleted before.
LEMMA TeardownClean ==
    ASSUME TypeInv, CleanInv, NothingFails, TeardownContainerNetworking
    PROVE  (Owned /\ Removed /\ Deleted /\ Gone)'
<1> USE DEF opts, Standalone, Multi
<1>1. /\ pc = "teardown" /\ pc' = "exit"
      /\ UNCHANGED <<setting, route, podNamespaces, podDevices, managers, outcome>>
  BY DEF TeardownContainerNetworking, Goto
<1>2. \A p \in Pods : NoEntry(p)'
  <2>1. CASE Multi
    BY <2>1 DEF TeardownContainerNetworking, NoEntry
  <2>2. CASE ~Multi
    BY <2>2 DEF TeardownContainerNetworking, NoEntry, CleanInv, Owned
  <2>3. QED
    BY <2>1, <2>2
<1>3. (\A p \in Pods : outcome[p] # "stopped") => podNamespaces \cap netns' = {}
  <2> SUFFICES ASSUME \A p \in Pods : outcome[p] # "stopped"
               PROVE  podNamespaces \cap netns' = {}
    OBVIOUS
  <2>1. podNamespaces \subseteq netns
    BY <1>1 DEF CleanInv, Deleted, TypeInv, TypeOK
  <2>2. netns' = netns \ podNamespaces
    BY <2>1 DEF TeardownContainerNetworking, Removable
  <2>3. QED
    BY <2>2
<1>4. Owned'
  BY <1>1, <1>2 DEF CleanInv, Owned, Ended
<1>5. Removed'
  BY <1>1 DEF TeardownContainerNetworking, CleanInv, Owned, Removed, Ended
<1>6. Deleted' /\ Gone'
  BY <1>1, <1>2, <1>3 DEF Deleted, Gone, Starting
<1>7. QED
  BY <1>4, <1>5, <1>6

LEMMA RestartClean ==
    ASSUME TypeInv, CleanInv, NothingFails, Restart
    PROVE  (Owned /\ Removed /\ Deleted /\ Gone)'
<1> USE DEF opts, Standalone, Multi
<1>1. \A p \in Pods : NoEntry(p)'
  BY DEF Restart, NoEntry, Forget
<1>2. QED
  BY <1>1 DEF Restart, Goto, CleanInv, Owned, Removed, Deleted, Gone

LEMMA NextClean == TypeInv /\ CleanInv /\ [Next]_vars => CleanInv'
<1> SUFFICES ASSUME TypeInv, CleanInv, [Next]_vars, NothingFails'
             PROVE  (Owned /\ Removed /\ Deleted /\ Gone)'
  BY DEF CleanInv
<1>1. NothingFails
  <2>1. setting' = setting
    BY DEF Next, Step, vars, LoadConfig, InitExternalAccess, InitContainerNetworking,
           getProviderWithConfig, StartVkubelet, Serve, Select, TeardownExternalAccess,
           TeardownContainerNetworking, Exit, Signal, Crash, PreloadNetwork, PreloadVM,
           Request, Deploy, DeployVM, StopPodNetwork, Restart, ServerEnds
  <2>2. QED
    BY <2>1 DEF NothingFails, Faults, LateRequests
<1>2. CASE PreloadNetwork
  <2>1. Head(todo) \in Pods
    BY <1>2, HeadTailProperties DEF PreloadNetwork, TypeInv, TypeOK
  <2>2. QED
    BY <1>1, <1>2, <2>1, InitPodNetworkClean DEF PreloadNetwork, Goto
<1>3. CASE PreloadVM
  <2>1. Head(todo) \in Pods
    BY <1>3, HeadTailProperties DEF PreloadVM, TypeInv, TypeOK, HasFile
  <2>2. QED
    BY <1>1, <1>3, <2>1, CreateVMTunClean DEF PreloadVM, Goto
<1>4. ASSUME NEW p \in Pods, Request(p)
      PROVE  (Owned /\ Removed /\ Deleted /\ Gone)'
  <2>1. CASE Deploy(p)
    BY <1>1, <2>1, InitPodNetworkClean DEF Deploy, Goto, Accepting, NothingFails
  <2>2. CASE DeployVM(p)
    BY <1>1, <2>2, CreateVMTunClean DEF DeployVM, Accepting, NothingFails
  <2>3. CASE StopPodNetwork(p)
    BY <1>1, <2>3, StopPodNetworkClean
  <2>4. QED
    BY <1>4, <2>1, <2>2, <2>3 DEF Request
<1>5. CASE ServerEnds
  BY <1>1, <1>5 DEF ServerEnds, NothingFails
<1>6. CASE UNCHANGED vars
  BY <1>1, <1>6 DEF vars, CleanInv, Owned, Removed, Deleted, Gone, NoEntry, Standalone,
         Multi, opts
<1>7. QED
  BY <1>1, <1>2, <1>3, <1>4, <1>5, <1>6, QuietClean, TeardownClean, RestartClean
     DEF Next, Step

(***************************************************************************)
(* An agent that was told to stop, in whatever mode and after whatever     *)
(* requests, crashes and restarts, leaves neither route nor cni0 nor links *)
(* it knew of, and no namespace unless one had been deleted before.        *)
(***************************************************************************)
THEOREM OrderlyStop == Spec => []StopsClean
BY InitTyped, NextTyped, InitClean, NextClean, CleanInvSuffices, PTL DEF Spec
=============================================================================
