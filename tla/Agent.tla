-------------------------------- MODULE Agent --------------------------------
(***************************************************************************)
(* The life of the agent process: main.go, commands/root/root.go, the      *)
(* external access managers and the parts of the three pod network         *)
(* managers that outlive the process.  Routes, links and named network     *)
(* namespaces are the kernel's: a crash, or a start that gives up half     *)
(* way, leaves them, and the next start meets them.  systemd starts the    *)
(* agent again whenever it ends (README.md: Restart=always).               *)
(*                                                                         *)
(* A pod's network is modelled as far as it is left behind: the namespace, *)
(* the bridge and the VM taps.  How two calls interleave is the subject of *)
(* PodNetwork; here a call is one step, and requests come one at a time.   *)
(* Bridge and tap names are random, so a link that no entry of podDevices  *)
(* refers to any more ("lost") is never met again.                         *)
(*                                                                         *)
(* Definitions marked "Fault" are mistakes that the properties catch when  *)
(* they take the place of the definition that follows; nothing uses them.  *)
(***************************************************************************)
EXTENDS Naturals, Sequences, FiniteSets

CONSTANTS Pods,
          Settings    \* what the agent is started with, and what happens around it

NetworkModes == {"legacy", "multiruntime", "fullmultiruntime"}

(***************************************************************************)
(* What the agent is started with: its command line, the files in its      *)
(* configuration directory in the order of ReadDir, whether that directory *)
(* is the working directory, and the state of its config file.             *)
(***************************************************************************)
OptionType ==
    [agentMode : {"standalone", "cluster"}, enableWarrens : BOOLEAN,
     networkMode : NetworkModes, fljson : Seq(Pods), inWorkingDir : BOOLEAN,
     configFile : {"ok", "missing", "invalid"}]

(***************************************************************************)
(* And what happens around it: the pods with an OSv container, which calls *)
(* may fail, whether clients go on after the agent was told to stop, and   *)
(* how often it may crash (power, kill -9, out of memory) or get a SIGINT  *)
(* or SIGTERM: two bounds.                                                 *)
(***************************************************************************)
AllFaults == {"iface", "cni0", "provider", "listen", "cluster", "bridge", "veth"}

SettingType == [options : OptionType, vms : SUBSET Pods, faults : SUBSET AllFaults,
                lateRequests : BOOLEAN, maxCrashes : Nat, maxSignals : Nat]

ASSUME AgentAssumption == Settings \subseteq SettingType

VARIABLES
    setting,         \* one of Settings, the same at every start
    route,           \* kernel: the route for the pods of all nodes
    cni0, dum0,      \* kernel: the links with fixed names
    netns,           \* kernel: the named network namespaces
    bridges, taps,   \* kernel: pod -> {"entry"}: of its podDevices entry, {"lost"}
    podNamespaces,   \* agent: pods with a namespace handle
    podDevices,      \* agent: pod -> "none", "partial" (no maps), "routed"
    managers,        \* agent: network.PodNetworkManager has been set
    todo,            \* agent: files still to be read
    cancelled,       \* agent: the context is cancelled
    outcome,         \* pod -> how the last call for it ended, in this process
    pc,              \* where the agent is
    crashes, signals

hostVars == <<route, cni0, dum0>>
podVars  == <<netns, bridges, taps, podNamespaces, podDevices>>
vars == <<setting, hostVars, podVars, managers, todo, cancelled, outcome, pc,
          crashes, signals>>

Init == /\ setting \in Settings
        /\ route = FALSE /\ cni0 = FALSE /\ dum0 = FALSE
        /\ netns = {} /\ podNamespaces = {}
        /\ bridges = [p \in Pods |-> {}] /\ taps = [p \in Pods |-> {}]
        /\ podDevices = [p \in Pods |-> "none"]
        /\ managers = FALSE /\ todo = <<>> /\ cancelled = FALSE
        /\ outcome = [p \in Pods |-> "none"]
        /\ pc = "config"
        /\ crashes = 0 /\ signals = 0

opts         == setting.options
VMs          == setting.vms
Faults       == setting.faults
LateRequests == setting.lateRequests

Ended   == {"failed", "crashed", "stopped"}
Running == pc \notin Ended
Standalone == opts.agentMode = "standalone"
Multi   == opts.networkMode # "legacy"
-----------------------------------------------------------------------------
(***************************************************************************)
(* Start.  A step that fails returns its error, main logs it and exits;    *)
(* nothing that was set up before is taken back.                           *)
(***************************************************************************)
Goto(label) == pc' = label

\* Fault: the values of the config file reach the options of the command.
LoadConfigPatches ==
    /\ pc = "config"
    /\ setting' = [setting EXCEPT !.options.networkMode = "default"]
    /\ Goto("access")
    /\ UNCHANGED <<hostVars, podVars, managers, todo, cancelled, outcome, crashes,
                   signals>>

\* LoadConfig, called before the root command.
LoadConfig ==
    /\ pc = "config"
    /\ Goto(IF opts.configFile # "ok" THEN "failed"
            ELSE IF Standalone THEN "access" ELSE "cluster")
    /\ UNCHANGED <<setting, hostVars, podVars, managers, todo, cancelled, outcome,
                   crashes, signals>>

\* WarrensTunnelAccess does nothing; LegacyExternalAccess adds the route for
\* the pods of all nodes over the public interface, which fails if there is
\* such a route.
InitExternalAccess ==
    /\ pc = "access"
    /\ \/ /\ opts.enableWarrens
          /\ Goto("networking") /\ UNCHANGED route
       \/ /\ ~opts.enableWarrens /\ ~route
          /\ route' = TRUE /\ Goto("networking")
       \/ /\ ~opts.enableWarrens
          /\ route \/ "iface" \in Faults
          /\ Goto("failed") /\ UNCHANGED route
    /\ UNCHANGED <<setting, cni0, dum0, podVars, managers, todo, cancelled, outcome,
                   crashes, signals>>

\* DefaultNetworkManager adds the bridge cni0, which fails if it exists, and
\* sets it up, which may fail too.
setupCNI0 ==
    \/ /\ ~cni0 /\ cni0' = TRUE
       /\ Goto("provider") /\ managers' = TRUE
    \/ /\ cni0 \/ "cni0" \in Faults
       /\ cni0' \in {cni0, TRUE}
       /\ Goto("failed") /\ UNCHANGED managers

\* MRPodLocalNetworkManager adds the tap dum0; that it exists already, or
\* any other failure, is logged only.
setupCNIDummy == dum0' \in IF "cni0" \in Faults THEN {dum0, TRUE} ELSE {TRUE}

\* Fault: that dum0 exists is an error.
InitContainerNetworkingStrict ==
    /\ pc = "networking"
    /\ IF dum0 THEN Goto("failed") /\ UNCHANGED <<dum0, managers>>
       ELSE Goto("provider") /\ managers' = TRUE
            /\ dum0' = (opts.networkMode = "fullmultiruntime")
    /\ UNCHANGED <<setting, route, cni0, podVars, todo, cancelled, outcome, crashes,
                   signals>>

InitContainerNetworking ==
    /\ pc = "networking"
    /\ \/ /\ opts.networkMode = "legacy"
          /\ setupCNI0 /\ UNCHANGED dum0
       \/ /\ opts.networkMode = "multiruntime"
          /\ Goto("provider") /\ managers' = TRUE /\ UNCHANGED <<cni0, dum0>>
       \/ /\ opts.networkMode = "fullmultiruntime"
          /\ setupCNIDummy
          /\ Goto("provider") /\ managers' = TRUE /\ UNCHANGED cni0
    /\ UNCHANGED <<setting, route, podVars, todo, cancelled, outcome, crashes, signals>>

\* The provider and its backends, then the list of files in DiskConfigDir.
\* A file is opened by its name alone, so it is found only if the directory
\* is the working directory; a file that is not found does not parse either
\* and is skipped.
getProviderWithConfig ==
    /\ pc = "provider"
    /\ \/ /\ Goto("preload")
          /\ todo' = IF opts.inWorkingDir THEN opts.fljson ELSE <<>>
       \/ "provider" \in Faults /\ Goto("failed") /\ UNCHANGED todo
    /\ UNCHANGED <<setting, hostVars, podVars, managers, cancelled, outcome,
                   crashes, signals>>

\* StartVkubelet, up to "Ready": options, taint, certificates, node.  It
\* sets up neither external access nor container networking.
StartVkubelet ==
    /\ pc = "cluster"
    /\ \/ Goto("serving")
       \/ "cluster" \in Faults /\ Goto("failed")
    /\ UNCHANGED <<setting, hostVars, podVars, managers, todo, cancelled, outcome,
                   crashes, signals>>
-----------------------------------------------------------------------------
(***************************************************************************)
(* Pod networks: what the calls of CreatePod and DeletePod leave behind.   *)
(***************************************************************************)
Outcome(p, result) == outcome' = [outcome EXCEPT ![p] = result]

\* The links of the pod's previous entry are no longer referred to.
Forget(links) == IF "entry" \in links THEN {"lost"} ELSE links

\* DefaultNetworkManager: an address, a namespace, its veth on cni0.
LegacyInitPodNetwork(p) ==
    /\ \/ /\ p \notin netns
          /\ netns' = netns \cup {p}
          /\ podNamespaces' = podNamespaces \cup {p}
          /\ Outcome(p, "up")
       \/ /\ p \in netns \/ "veth" \in Faults
          /\ netns' \in {netns, netns \cup {p}}
          /\ UNCHANGED podNamespaces /\ Outcome(p, "failed")
    /\ UNCHANGED <<bridges, taps, podDevices>>

\* Another pod's entry without maps: updating its routes panics.
UpdatePanics(p) == \E q \in Pods \ {p} : podDevices[q] = "partial"

(***************************************************************************)
(* MultiRuntimeNetworkManager, MRPodLocalNetworkManager: a bridge and a    *)
(* new entry, the namespace, the maps, the maps of all the other pods.     *)
(***************************************************************************)
MultiInitPodNetwork(p) ==
    /\ bridges' = [bridges EXCEPT ![p] = Forget(@) \cup {"entry"}]
    /\ taps' = [taps EXCEPT ![p] = Forget(@)]
    /\ netns' = netns \cup {p}
    /\ \/ /\ p \in netns \/ "veth" \in Faults
          /\ podDevices' = [podDevices EXCEPT ![p] = "partial"]
          /\ UNCHANGED podNamespaces /\ Outcome(p, "failed")
       \/ /\ p \notin netns
          /\ podDevices' = [podDevices EXCEPT ![p] = "routed"]
          /\ IF UpdatePanics(p)
             THEN UNCHANGED podNamespaces /\ Outcome(p, "panicked")
             ELSE podNamespaces' = podNamespaces \cup {p} /\ Outcome(p, "up")

\* The bridge cannot be made and is used all the same; in cluster mode there
\* is no manager to call.
InitPodNetworkPanics(p) ==
    /\ ~managers \/ (Multi /\ "bridge" \in Faults)
    /\ Outcome(p, "panicked")
    /\ UNCHANGED podVars

InitPodNetwork(p) ==
    \/ managers /\ ~Multi /\ LegacyInitPodNetwork(p)
    \/ managers /\ Multi /\ MultiInitPodNetwork(p)
    \/ InitPodNetworkPanics(p)

(***************************************************************************)
(* CreateVMTun: a legacy tap is not recorded; on a bridge that is gone the *)
(* tap is added but not recorded; an entry without maps panics after       *)
(* recording it.                                                           *)
(***************************************************************************)
CreateVMTun(p) ==
    LET recorded == Multi /\ "entry" \in bridges[p]
    IN  /\ taps' = [taps EXCEPT ![p] = @ \cup {IF recorded THEN "entry" ELSE "lost"}]
        /\ IF recorded /\ podDevices[p] = "partial"
           THEN Outcome(p, "panicked") ELSE UNCHANGED outcome
        /\ UNCHANGED <<netns, bridges, podNamespaces, podDevices>>

(***************************************************************************)
(* The pods of the configuration directory, one by one: the network, then  *)
(* a tap for the VM, whether the network came up or not.  Nothing recovers *)
(* from a panic here: it ends the agent.                                   *)
(***************************************************************************)
\* Fault: a pod that does not come up is an error.
PreloadNetworkStrict ==
    /\ pc = "preload" /\ todo # <<>>
    /\ InitPodNetwork(Head(todo))
    /\ todo' = Tail(todo)
    /\ Goto(IF outcome'[Head(todo)] = "up" THEN "preload" ELSE "failed")
    /\ UNCHANGED <<setting, hostVars, managers, cancelled, crashes, signals>>

PreloadNetwork ==
    /\ pc = "preload" /\ todo # <<>>
    /\ InitPodNetwork(Head(todo))
    /\ IF outcome'[Head(todo)] = "panicked"
       THEN Goto("crashed") /\ UNCHANGED todo
       ELSE IF Head(todo) \in VMs
            THEN Goto("preloadVM") /\ UNCHANGED todo
            ELSE Goto("preload") /\ todo' = Tail(todo)
    /\ UNCHANGED <<setting, hostVars, managers, cancelled, crashes, signals>>

PreloadVM ==
    /\ pc = "preloadVM"
    /\ CreateVMTun(Head(todo))
    /\ Goto(IF outcome'[Head(todo)] = "panicked" THEN "crashed" ELSE "preload")
    /\ todo' = Tail(todo)
    /\ UNCHANGED <<setting, hostVars, managers, cancelled, crashes, signals>>

\* Fault: the server gets a context of its own.
ServeNewContext ==
    /\ pc = "preload" /\ todo = <<>>
    /\ Goto("serving")
    /\ cancelled' = FALSE
    /\ UNCHANGED <<setting, hostVars, podVars, managers, todo, outcome, crashes, signals>>

Serve ==
    /\ pc = "preload" /\ todo = <<>>
    /\ Goto("serving")
    /\ UNCHANGED <<setting, hostVars, podVars, managers, todo, cancelled, outcome,
                   crashes, signals>>

\* The server is not stopped: it answers until the process is gone.
Accepting == \/ pc = "serving" /\ (LateRequests \/ ~cancelled)
             \/ LateRequests /\ pc \in {"unroute", "teardown", "exit"}

\* A panic in an HTTP handler is recovered; one in virtual-kubelet's pod
\* controller ends the agent.
Deploy(p) ==
    /\ Accepting
    /\ InitPodNetwork(p)
    /\ Goto(IF ~Standalone /\ outcome'[p] = "panicked" THEN "crashed" ELSE pc)
    /\ UNCHANGED <<setting, hostVars, managers, todo, cancelled, crashes, signals>>

DeployVM(p) ==
    /\ Accepting /\ managers
    /\ p \in VMs /\ outcome[p] \in {"up", "failed"}
    /\ CreateVMTun(p)
    /\ UNCHANGED <<setting, hostVars, managers, todo, cancelled, pc, crashes, signals>>

\* StopPodNetwork, from DeletePod: an error without a namespace; the legacy
\* manager has no bridge to remove; without an entry there is no bridge to
\* name.  No entry of podNamespaces or podDevices is removed.
StopPodNetwork(p) ==
    /\ Accepting /\ managers
    /\ p \in netns
    /\ netns' = netns \ {p}
    /\ bridges' = IF Multi THEN [bridges EXCEPT ![p] = @ \ {"entry"}] ELSE bridges
    /\ Outcome(p, IF Multi /\ podDevices[p] = "none" THEN "panicked" ELSE "stopped")
    /\ UNCHANGED <<setting, hostVars, taps, podNamespaces, podDevices, managers, todo,
                   cancelled, pc, crashes, signals>>
-----------------------------------------------------------------------------
(***************************************************************************)
(* Shutdown.                                                               *)
(***************************************************************************)
\* SIGINT or SIGTERM cancels the context; only the select after the start
\* looks at it.
Signal ==
    /\ Running /\ ~cancelled /\ signals < setting.maxSignals
    /\ signals' = signals + 1
    /\ cancelled' = TRUE
    /\ UNCHANGED <<setting, hostVars, podVars, managers, todo, outcome, pc, crashes>>

\* The select after the start: the context is done ...
AfterSelect == Goto(IF Standalone THEN "unroute" ELSE "stopped")

Select ==
    /\ pc = "serving" /\ cancelled
    /\ AfterSelect
    /\ UNCHANGED <<setting, hostVars, podVars, managers, todo, cancelled, outcome,
                   crashes, signals>>

\* ... or the server returned an error.
ServerEnds ==
    /\ pc = "serving" /\ "listen" \in Faults
    /\ AfterSelect
    /\ UNCHANGED <<setting, hostVars, podVars, managers, todo, cancelled, outcome,
                   crashes, signals>>

TeardownExternalAccess ==
    /\ pc = "unroute"
    /\ route' \in (IF opts.enableWarrens \/ "iface" \in Faults THEN {route} ELSE {})
                   \cup (IF opts.enableWarrens THEN {} ELSE {FALSE})
    /\ Goto("teardown")
    /\ UNCHANGED <<setting, cni0, dum0, podVars, managers, todo, cancelled, outcome,
                   crashes, signals>>

\* Fault: the first namespace only.
RemovableFirst == {S \in SUBSET (podNamespaces \cap netns) : Cardinality(S) <= 1}

\* teardownNamespaces: in the order of a Go map, up to the first that cannot
\* be deleted because it is already.
Removable == IF podNamespaces \subseteq netns THEN {podNamespaces}
             ELSE SUBSET (podNamespaces \cap netns)

\* TeardownContainerNetworking: the namespaces, then cni0 or the bridges and
\* the taps of all entries.  dum0 stays.
TeardownContainerNetworking ==
    /\ pc = "teardown"
    /\ \E S \in Removable : netns' = netns \ S
    /\ IF Multi
       THEN /\ bridges' = [p \in Pods |-> bridges[p] \ {"entry"}]
            /\ taps' = [p \in Pods |-> taps[p] \ {"entry"}]
            /\ UNCHANGED cni0
       ELSE cni0' = FALSE /\ UNCHANGED <<bridges, taps>>
    /\ Goto("exit")
    /\ UNCHANGED <<setting, route, dum0, podNamespaces, podDevices, managers, todo,
                   cancelled, outcome, crashes, signals>>

Exit ==
    /\ pc = "exit"
    /\ Goto("stopped")
    /\ UNCHANGED <<setting, hostVars, podVars, managers, todo, cancelled, outcome,
                   crashes, signals>>

Crash ==
    /\ Running /\ crashes < setting.maxCrashes
    /\ crashes' = crashes + 1
    /\ Goto("crashed")
    /\ UNCHANGED <<setting, hostVars, podVars, managers, todo, cancelled, outcome, signals>>

\* A new process: what the old one had in memory is gone.
Restart ==
    /\ ~Running
    /\ podNamespaces' = {}
    /\ podDevices' = [p \in Pods |-> "none"]
    /\ bridges' = [p \in Pods |-> Forget(bridges[p])]
    /\ taps' = [p \in Pods |-> Forget(taps[p])]
    /\ managers' = FALSE /\ todo' = <<>> /\ cancelled' = FALSE
    /\ outcome' = [p \in Pods |-> "none"]
    /\ Goto("config")
    /\ UNCHANGED <<setting, hostVars, netns, crashes, signals>>
-----------------------------------------------------------------------------
Step == \/ LoadConfig \/ InitExternalAccess \/ InitContainerNetworking
        \/ getProviderWithConfig \/ StartVkubelet \/ PreloadNetwork \/ PreloadVM \/ Serve
        \/ Select \/ TeardownExternalAccess \/ TeardownContainerNetworking \/ Exit

Request(p) == Deploy(p) \/ DeployVM(p) \/ StopPodNetwork(p)

Next == Step \/ Restart \/ Signal \/ ServerEnds \/ Crash \/ \E p \in Pods : Request(p)

\* The process runs, and systemd starts it again; nothing obliges a client,
\* an operator, a failing server or a crash.
Fairness == WF_vars(Step) /\ WF_vars(Restart)

Spec == Init /\ [][Next]_vars /\ Fairness
-----------------------------------------------------------------------------
(***************************************************************************)
(* Properties.                                                             *)
(***************************************************************************)
TypeOK ==
    /\ setting \in Settings
    /\ route \in BOOLEAN /\ cni0 \in BOOLEAN /\ dum0 \in BOOLEAN
    /\ managers \in BOOLEAN /\ cancelled \in BOOLEAN
    /\ netns \subseteq Pods /\ podNamespaces \subseteq Pods
    /\ bridges \in [Pods -> SUBSET {"entry", "lost"}]
    /\ taps \in [Pods -> SUBSET {"entry", "lost"}]
    /\ podDevices \in [Pods -> {"none", "partial", "routed"}]
    /\ todo \in Seq(Pods)
    /\ outcome \in [Pods -> {"none", "up", "failed", "panicked", "stopped"}]
    /\ pc \in Ended \cup {"config", "cluster", "access", "networking", "provider",
                          "preload", "preloadVM", "serving", "unroute", "teardown", "exit"}
    /\ crashes \in 0 .. setting.maxCrashes /\ signals \in 0 .. setting.maxSignals

(***************************************************************************)
(* An agent that was told to stop, and whose calls did not fail, leaves    *)
(* nothing on the host that would be in the way of the next start or of    *)
(* its pods: no route, no cni0, no bridge or tap that it still knew of,    *)
(* and no namespace of its own unless a pod was deleted before (then       *)
(* teardownNamespaces stops at that one).  Clients that go on after it was *)
(* told to stop are excepted: the server answers until the end.            *)
(***************************************************************************)
StopsClean ==
    pc = "stopped" /\ Faults = {} /\ ~LateRequests =>
        /\ ~route /\ ~cni0
        /\ \A p \in Pods : "entry" \notin bridges[p] \cup taps[p]
        /\ (\A p \in Pods : outcome[p] # "stopped") => podNamespaces \cap netns = {}

\* A tap of a pod whose namespace was left behind makes CreateVMTun panic, at
\* every start, if the pod is in the configuration directory.
NoVMFromFile == \A i \in DOMAIN opts.fljson : opts.fljson[i] \notin VMs

(***************************************************************************)
(* Where no call fails and nothing crashes, every start ends in an agent   *)
(* that serves, however often it was stopped and whatever its pods were,   *)
(* and whatever clients did while it stopped.                              *)
(***************************************************************************)
Starts ==
    (pc = "config" /\ Faults = {} /\ setting.maxCrashes = 0 /\ NoVMFromFile)
    ~> (pc = "serving")

(***************************************************************************)
(* README.md: deployed as a systemd service with Restart=always, the agent *)
(* comes back after it crashed, at whatever point and with whatever pods.  *)
(* Excepted is what a crash leaves behind under a fixed name and a start   *)
(* does not accept: the route of LegacyExternalAccess, and cni0.           *)
(***************************************************************************)
Recovers ==
    (pc = "crashed" /\ Faults = {} /\ opts.enableWarrens /\ Multi /\ NoVMFromFile)
    ~> (pc = "serving")

(***************************************************************************)
(* A signal ends the process, also one that comes while it still starts.   *)
(***************************************************************************)
SignalEnds == cancelled ~> ~Running
=============================================================================
