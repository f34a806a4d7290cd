----------------------------- MODULE PodNetwork -----------------------------
(***************************************************************************)
(* MRPodLocalNetworkManager ("fullmultiruntime" networking),               *)
(* pkg/network/MultiRuntimePodLocalNetworking.go: the bridge, the network  *)
(* namespace, the VM taps and the eBPF maps of every pod, set up by        *)
(* handlers (one goroutine for each HTTP request) that share the manager's *)
(* Go maps without a lock.  Operations on one pod do not overlap (the      *)
(* kubelet works on one key at a time; HTTP clients wait for the answer);  *)
(* operations on different pods do.                                        *)
(*                                                                         *)
(* A step of a handler is the run to its next blocking call (netlink, bpf, *)
(* sleep), or to a later one where no other handler's step in between      *)
(* makes a difference.  The Go runtime may instead detect two map accesses *)
(* at once and end the process: a behaviour that stops early.  Everything  *)
(* that one InitPodNetwork call creates (bridge, split map, redirect map,  *)
(* the Go maps of its PodDevices) carries the number of the call.          *)
(*                                                                         *)
(* Addresses come from PodAddresses; a workload is the pod's network       *)
(* namespace or one of its VMs and is identified by its address.           *)
(*                                                                         *)
(* Definitions marked "Fault" are mistakes that the properties catch when  *)
(* they take the place of the definition that follows; nothing uses them.  *)
(***************************************************************************)
EXTENDS Integers, Sequences, FiniteSets

CONSTANTS Pods,            \* network namespace names ("namespace-pod")
          Handlers,        \* goroutines
          FirstFree, IPsPerPod, SubnetSize,   \* see PodAddresses
          Nobody, Exhausted, Idle,            \* see PodAddresses
          MaxCalls,        \* bound: InitPodNetwork calls of a behaviour
          Faults           \* which netlink and bpf calls may fail

None == 0                  \* nil, the zero value, no address

Calls == 1 .. MaxCalls

ASSUME PodNetworkAssumption ==
    /\ FirstFree \in Nat \ {0} /\ IPsPerPod \in Nat \ {0} /\ SubnetSize \in Nat
    /\ MaxCalls \in Nat
    /\ Faults \subseteq {"bridge", "veth", "localhost", "load", "attach", "tap",
                  "lookup"}

VARIABLES
    usedPodAddresses, pending, held,   \* the address manager
    podDevices,           \* pod -> PodDevices
    addressesUsed,        \* call -> the workloads of its PodDevices
    fromLocalhostBpfMaps, \* call -> workload -> its localhost map's slots
    podNamespaces,        \* pods with a namespace handle
    bridges,              \* kernel: the calls whose bridge exists
    bridgeAddr,           \* kernel: call -> the address of its bridge
    netns,                \* kernel: the named network namespaces
    vethMaster,           \* kernel: pod -> the bridge of its namespace's veth
    splitMap,             \* kernel: call -> slots of the split (to sub-pod) map
    redirectMap,          \* kernel: call -> pod address -> target bridge
    calls,                \* InitPodNetwork calls so far
    pc, frame,            \* handler -> next step, local variables
    outcome               \* pod -> how its last network operation ended

addressVars == <<usedPodAddresses, pending, held>>
goVars      == <<podDevices, addressesUsed, fromLocalhostBpfMaps, podNamespaces>>
linkVars    == <<bridges, bridgeAddr, netns, vethMaster>>
bpfVars     == <<splitMap, redirectMap>>
vars == <<addressVars, goVars, linkVars, bpfVars, calls, pc, frame, outcome>>

Addresses == INSTANCE PodAddresses WITH
                 Callers <- Handlers, Dedicated <- 0, FreePodIPCalled <- FALSE

PodIPs == Addresses!Blocks

ASSUME MarkersAssumption == /\ Nobody \notin Pods
                            /\ Exhausted \notin Addresses!FreeIPs
                            /\ Idle \notin Addresses!Requests

(***************************************************************************)
(* The PodDevices record.  The maps in it are references: addressesUsed    *)
(* and fromLocalhostBpfMaps are those made together with podBridge, the    *)
(* other fields name the call that loaded them.  internalDevices always    *)
(* has the keys of addressesUsed.                                          *)
(***************************************************************************)
NoDevices == [baseAddr |-> None, podBridge |-> None, toSubpodBpfMap |-> None,
              fromSubpodBpfMap |-> None, bpfProgLink |-> None, linksToKeep |-> {}]

NoFrame == [pod |-> Nobody, podIp |-> None, podLink |-> None, subIp |-> None,
            todo |-> {}, target |-> Nobody, dev |-> NoDevices]

Init == /\ Addresses!Init
        /\ podDevices = [p \in Pods |-> NoDevices]
        /\ addressesUsed = [c \in Calls |-> {}]
        /\ fromLocalhostBpfMaps = [c \in Calls |-> <<>>]
        /\ podNamespaces = {}
        /\ bridges = {} /\ bridgeAddr = [c \in Calls |-> None]
        /\ netns \in SUBSET Pods     \* a crashed agent leaves namespaces behind
        /\ vethMaster = [p \in Pods |-> None]
        /\ splitMap = [c \in Calls |-> <<>>]
        /\ redirectMap = [c \in Calls |-> [a \in PodIPs |-> None]]
        /\ calls = 0
        /\ pc = [h \in Handlers |-> "idle"]
        /\ frame = [h \in Handlers |-> NoFrame]
        /\ outcome = [p \in Pods |-> "none"]

Busy(p) == \E h \in Handlers : pc[h] # "idle" /\ frame[h].pod = p
CanServe(h, p) == pc[h] = "idle" /\ ~Busy(p)

Goto(h, label) == pc' = [pc EXCEPT ![h] = label]
Call(h, label, f) == Goto(h, label) /\ frame' = [frame EXCEPT ![h] = f]

\* The handler returns to its client; what it panics with is recovered by
\* net/http and ends the request only.
Return(h, result) ==
    /\ Call(h, "idle", NoFrame)
    /\ outcome' = [outcome EXCEPT ![frame[h].pod] = result]

\* Fault: one address more than the block has, the next pod's bridge.
HasSubPodIPOffByOne(dev) == Cardinality(addressesUsed[dev.podBridge]) # IPsPerPod

\* The next address of a pod is base + number of addresses in use + 1.
HasSubPodIP(dev) == Cardinality(addressesUsed[dev.podBridge]) # IPsPerPod - 1
getNextSubPodIP(dev) == dev.baseAddr + Cardinality(addressesUsed[dev.podBridge]) + 1

\* Fault: always the first slot, as in the Put that CreateVMTun has
\* commented out.
PutFirst(slots, ip) == <<ip>> \o SubSeq(slots, 2, Len(slots))

\* putNextSplitRouteObj, putNextLhSplitRouteObj: the first inactive slot.
PutNext(slots, ip) == IF Len(slots) < IPsPerPod THEN Append(slots, ip) ELSE slots
-----------------------------------------------------------------------------
(***************************************************************************)
(* InitPodNetwork.                                                         *)
(***************************************************************************)
BeginInit(h, p) ==
    /\ CanServe(h, p)
    /\ calls < MaxCalls
    /\ calls' = calls + 1
    /\ Addresses!FindFreeIP(h, p)
    /\ Call(h, "record", [NoFrame EXCEPT !.pod = p, !.podLink = calls'])
    /\ outcome' = [outcome EXCEPT ![p] = "busy"]
    /\ UNCHANGED <<goVars, linkVars, bpfVars>>

\* Fault: the result is used as an address without looking at the error.
RecordPodIPUnchecked(h) ==
    /\ pc[h] = "record"
    /\ Addresses!RecordIP(h)
    /\ Call(h, "bridge", [frame[h] EXCEPT !.podIp = pending[h].free])
    /\ UNCHANGED <<goVars, linkVars, bpfVars, calls, outcome>>

\* Running out of addresses is logged only; podIp stays nil.
RecordPodIP(h) ==
    /\ pc[h] = "record"
    /\ Addresses!RecordIP(h)
    /\ LET f == pending[h].free
       IN  Call(h, "bridge", [frame[h] EXCEPT !.podIp =
                                 IF f = Exhausted THEN None ELSE f])
    /\ UNCHANGED <<goVars, linkVars, bpfVars, calls, outcome>>

\* setupPodBridge and the new podDevices entry.
SetupPodBridge(h) ==
    /\ pc[h] = "bridge"
    /\ LET p == frame[h].pod  ip == frame[h].podIp  c == frame[h].podLink
       IN  /\ ip # None
           /\ bridges' = bridges \cup {c}
           /\ bridgeAddr' = [bridgeAddr EXCEPT ![c] = ip]
           /\ podDevices' = [podDevices EXCEPT ![p] =
                  [NoDevices EXCEPT !.baseAddr = ip, !.podBridge = c]]
    /\ Goto(h, "netns")
    /\ UNCHANGED <<addressVars, addressesUsed, fromLocalhostBpfMaps, podNamespaces,
                   netns, vethMaster, bpfVars, calls, frame, outcome>>

\* Without an address the bridge is added but its address does not parse, or
\* adding the bridge fails: the error is logged and *podLink, nil, is read.
SetupPodBridgePanics(h) ==
    /\ pc[h] = "bridge"
    /\ \/ frame[h].podIp = None /\ bridges' = bridges \cup {frame[h].podLink}
       \/ "bridge" \in Faults /\ UNCHANGED bridges
    /\ Return(h, "panicked")
    /\ UNCHANGED <<addressVars, goVars, bridgeAddr, netns, vethMaster, bpfVars, calls>>

\* getNextSubPodIP for the namespace.  Without an address left the call
\* fails; its podDevices entry stays, without maps.
GetNetNsIP(h) ==
    /\ pc[h] = "netns"
    /\ LET dev == podDevices[frame[h].pod]
       IN  \/ /\ HasSubPodIP(dev)
              /\ Call(h, "addns", [frame[h] EXCEPT !.subIp = getNextSubPodIP(dev)])
              /\ UNCHANGED outcome
           \/ /\ ~HasSubPodIP(dev)
              /\ Return(h, "failed")
    /\ UNCHANGED <<addressVars, goVars, linkVars, bpfVars, calls>>

\* setupPodNetNs: a named namespace with one end of a veth pair in it, the
\* other end on the bridge; its address is noted in the pod's entry.
SetupPodNetNs(h) ==
    /\ pc[h] = "addns"
    /\ LET p == frame[h].pod
       IN  /\ p \notin netns
           /\ netns' = netns \cup {p}
           /\ vethMaster' = [vethMaster EXCEPT ![p] = frame[h].podLink]
           /\ addressesUsed' = [addressesUsed EXCEPT ![podDevices[p].podBridge] =
                                   @ \cup {frame[h].subIp}]
    /\ Goto(h, "localhost")
    /\ UNCHANGED <<addressVars, podDevices, fromLocalhostBpfMaps, podNamespaces,
                   bridges, bridgeAddr, bpfVars, calls, frame, outcome>>

\* The namespace exists already (a pod deployed twice, or left behind by a
\* crash), or a later call fails and the new namespace stays.
SetupPodNetNsFails(h) ==
    /\ pc[h] = "addns"
    /\ LET p == frame[h].pod
       IN  /\ p \in netns \/ "veth" \in Faults
           /\ netns' = netns \cup {p}
    /\ Return(h, "failed")
    /\ UNCHANGED <<addressVars, goVars, bridges, bridgeAddr, vethMaster, bpfVars, calls>>

\* The orders in which a Go map with keys S may be ranged over.
Orders(S) == {s \in [1 .. Cardinality(S) -> S] : \A i, j \in DOMAIN s :
                                                    s[i] = s[j] => i = j}

\* Fault: the new workload is not listed in its own map.
AddLocalhostWithoutSelf(p, ip) ==
    LET c   == podDevices[p].podBridge
        old == fromLocalhostBpfMaps[c]
    IN  /\ \E others \in Orders(DOMAIN old \ {ip}) :
               fromLocalhostBpfMaps' = [fromLocalhostBpfMaps EXCEPT ![c] =
                   [w \in DOMAIN old \cup {ip} |->
                       IF w = ip THEN others ELSE PutNext(old[w], ip)]]
        /\ podDevices' = [podDevices EXCEPT ![p].linksToKeep = @ \cup {ip}]

(***************************************************************************)
(* attachLocalhostBpfPrograms and updateLocalhostBpfMaps for workload ip:  *)
(* a localhost map of its own that lists the other workloads and then      *)
(* itself, and one more entry in the map of every other workload.          *)
(***************************************************************************)
AddLocalhost(p, ip) ==
    LET c   == podDevices[p].podBridge
        old == fromLocalhostBpfMaps[c]
    IN  /\ \E others \in Orders(DOMAIN old \ {ip}) :
               fromLocalhostBpfMaps' = [fromLocalhostBpfMaps EXCEPT ![c] =
                   [w \in DOMAIN old \cup {ip} |->
                       IF w = ip THEN PutNext(others, ip) ELSE PutNext(old[w], ip)]]
        /\ podDevices' = [podDevices EXCEPT ![p].linksToKeep = @ \cup {ip}]

NetNsLocalhost(h) ==
    /\ pc[h] = "localhost"
    /\ AddLocalhost(frame[h].pod, frame[h].subIp)
    /\ Goto(h, "split")
    /\ UNCHANGED <<addressVars, addressesUsed, podNamespaces, linkVars, bpfVars,
                   calls, frame, outcome>>

NetNsLocalhostFails(h) ==
    /\ pc[h] = "localhost"
    /\ "localhost" \in Faults
    /\ Return(h, "failed")
    /\ UNCHANGED <<addressVars, goVars, linkVars, bpfVars, calls>>

\* loadToSubPodTC: the split map, with the namespace in its first slot.
LoadSplit(h) ==
    /\ pc[h] = "split"
    /\ LET p == frame[h].pod  c == frame[h].podLink
       IN  /\ splitMap' = [splitMap EXCEPT ![c] = <<frame[h].subIp>>]
           /\ podDevices' = [podDevices EXCEPT ![p].toSubpodBpfMap = c]
    /\ Goto(h, "redirect")
    /\ UNCHANGED <<addressVars, addressesUsed, fromLocalhostBpfMaps, podNamespaces,
                   linkVars, redirectMap, calls, frame, outcome>>

\* A program that does not load leaves a nil map that is used all the same:
\* those of loadToSubPodTC, loadFromSubPodTC and setupSubpodTC.
LoadPanics(h) ==
    /\ \/ pc[h] \in {"split", "redirect"}
       \/ pc[h] = "update" /\ frame[h].todo = {}
    /\ "load" \in Faults
    /\ Return(h, "panicked")
    /\ UNCHANGED <<addressVars, goVars, linkVars, bpfVars, calls>>

\* The pods whose entry shows another bridge than this one.
Others(c) == {q \in Pods : podDevices[q].podBridge \notin {None, c}}

\* initFromSubpodRouting: a new redirect map, empty but for the route for
\* key 0, the public interface, that stands for every address the map does
\* not have; the loop over podDevices starts.  (An entry added while a loop
\* ranges over podDevices is visited or not: as if it had been added before
\* or after the start of the loop.)
LoadRedirect(h) ==
    /\ pc[h] = "redirect"
    /\ Call(h, "addroutes", [frame[h] EXCEPT !.todo = Others(frame[h].podLink)])
    /\ UNCHANGED <<addressVars, goVars, linkVars, bpfVars, calls, outcome>>

\* The route to the bridge of the next pod.
AddRoute(h) ==
    /\ pc[h] = "addroutes"
    /\ \E q \in frame[h].todo :
          /\ redirectMap' = [redirectMap EXCEPT
                 ![frame[h].podLink][podDevices[q].baseAddr] = podDevices[q].podBridge]
          /\ frame' = [frame EXCEPT ![h].todo = @ \ {q}]
    /\ UNCHANGED <<addressVars, goVars, linkVars, splitMap, calls, pc, outcome>>

\* Fault: updateSubpodRouting is not called.
PublishRedirectOnly(h) ==
    /\ pc[h] = "addroutes" /\ frame[h].todo = {}
    /\ podDevices' = [podDevices EXCEPT ![frame[h].pod].fromSubpodBpfMap =
                                            frame[h].podLink]
    /\ Goto(h, "update")
    /\ UNCHANGED <<addressVars, addressesUsed, fromLocalhostBpfMaps, podNamespaces,
                   linkVars, bpfVars, calls, frame, outcome>>

\* initFromSubpodRouting, the end; updateSubpodRouting starts to range over
\* podDevices.
PublishRedirect(h) ==
    /\ pc[h] = "addroutes" /\ frame[h].todo = {}
    /\ podDevices' = [podDevices EXCEPT ![frame[h].pod].fromSubpodBpfMap =
                                            frame[h].podLink]
    /\ Call(h, "update", [frame[h] EXCEPT !.todo = Others(frame[h].podLink)])
    /\ UNCHANGED <<addressVars, addressesUsed, fromLocalhostBpfMaps, podNamespaces,
                   linkVars, bpfVars, calls, outcome>>
-----------------------------------------------------------------------------
\* Fault: source and target of the route are swapped.
UpdateOtherSwapped(h) ==
    /\ pc[h] = "update"
    /\ \E q \in frame[h].todo :
          LET dev == podDevices[q]
          IN  /\ dev.fromSubpodBpfMap # None
              /\ redirectMap' = [redirectMap EXCEPT
                     ![dev.fromSubpodBpfMap][frame[h].podIp] = dev.podBridge]
              /\ Call(h, "writeback", [frame[h] EXCEPT !.target = q, !.dev = dev,
                                                       !.todo = @ \ {q}])
    /\ UNCHANGED <<addressVars, goVars, linkVars, splitMap, calls, outcome>>

\* updateSubpodRouting: a copy of the next pod's entry, and the route to
\* this pod in that pod's redirect map.
UpdateOther(h) ==
    /\ pc[h] = "update"
    /\ \E q \in frame[h].todo :
          LET dev == podDevices[q]
          IN  /\ dev.fromSubpodBpfMap # None
              /\ redirectMap' = [redirectMap EXCEPT
                     ![dev.fromSubpodBpfMap][frame[h].podIp] = frame[h].podLink]
              /\ Call(h, "writeback", [frame[h] EXCEPT !.target = q, !.dev = dev,
                                                       !.todo = @ \ {q}])
    /\ UNCHANGED <<addressVars, goVars, linkVars, splitMap, calls, outcome>>

\* A pod that has an entry without a redirect map: Put on a nil map.
UpdateOtherPanics(h) ==
    /\ pc[h] = "update"
    /\ \E q \in frame[h].todo : podDevices[q].fromSubpodBpfMap = None
    /\ Return(h, "panicked")
    /\ UNCHANGED <<addressVars, goVars, linkVars, bpfVars, calls>>

\* updateSubpodRouting stores the copy it made of the other pod's entry.
WriteBack(h) ==
    /\ pc[h] = "writeback"
    /\ podDevices' = [podDevices EXCEPT ![frame[h].target] = frame[h].dev]
    /\ Call(h, "update", [frame[h] EXCEPT !.target = Nobody, !.dev = NoDevices])
    /\ UNCHANGED <<addressVars, addressesUsed, fromLocalhostBpfMaps, podNamespaces,
                   linkVars, bpfVars, calls, outcome>>

\* Fault: the link of the program is dropped.
AttachBridgeDropped(h) ==
    /\ pc[h] = "update" /\ frame[h].todo = {}
    /\ podNamespaces' = podNamespaces \cup {frame[h].pod}
    /\ Return(h, "up")
    /\ UNCHANGED <<addressVars, podDevices, addressesUsed, fromLocalhostBpfMaps,
                   linkVars, bpfVars, calls>>

\* setupSubpodTC: the tail-call program on the bridge; done, even if it
\* cannot be attached.
AttachBridge(h) ==
    /\ pc[h] = "update" /\ frame[h].todo = {}
    /\ \/ podDevices' = [podDevices EXCEPT ![frame[h].pod].bpfProgLink =
                                                frame[h].podLink]
       \/ "attach" \in Faults /\ UNCHANGED podDevices
    /\ podNamespaces' = podNamespaces \cup {frame[h].pod}
    /\ Return(h, "up")
    /\ UNCHANGED <<addressVars, addressesUsed, fromLocalhostBpfMaps, linkVars,
                   bpfVars, calls>>
-----------------------------------------------------------------------------
(***************************************************************************)
(* CreateVMTun: CreatePod calls it for an OSv container, whether or not    *)
(* InitPodNetwork returned an error.                                       *)
(***************************************************************************)
BeginVMTun(h, p) ==
    /\ CanServe(h, p)
    /\ outcome[p] \in {"up", "failed"}
    /\ LET dev == podDevices[p]
       IN  /\ HasSubPodIP(dev)
           /\ dev.podBridge \in bridges
           /\ Call(h, "tap", [NoFrame EXCEPT !.pod = p, !.dev = dev,
                                             !.subIp = getNextSubPodIP(dev)])
    /\ UNCHANGED <<addressVars, goVars, linkVars, bpfVars, calls, outcome>>

\* No address left, or the tap cannot be added or put on the bridge: the
\* error is returned and nothing has changed.
VMTunFails(h, p) ==
    /\ CanServe(h, p)
    /\ outcome[p] \in {"up", "failed"}
    /\ \/ ~HasSubPodIP(podDevices[p])
       \/ "tap" \in Faults \/ podDevices[p].podBridge \notin bridges
    /\ UNCHANGED vars

\* The tap is up: its address, its slot in the split map, and the copy of
\* the pod's entry made before the tap was added is stored.
AddTap(h) ==
    /\ pc[h] = "tap"
    /\ LET p == frame[h].pod  dev == frame[h].dev  ip == frame[h].subIp
       IN  /\ dev.toSubpodBpfMap # None
           /\ addressesUsed' = [addressesUsed EXCEPT ![dev.podBridge] = @ \cup {ip}]
           /\ splitMap' = [splitMap EXCEPT ![dev.toSubpodBpfMap] = PutNext(@, ip)]
           /\ podDevices' = [podDevices EXCEPT ![p] = dev]
    /\ Goto(h, "taplocalhost")
    /\ UNCHANGED <<addressVars, fromLocalhostBpfMaps, podNamespaces, linkVars,
                   redirectMap, calls, frame, outcome>>

\* The pod's entry never got its split map: Lookup on a nil map.
AddTapPanics(h) ==
    /\ pc[h] = "tap"
    /\ LET dev == frame[h].dev  ip == frame[h].subIp
       IN  /\ dev.toSubpodBpfMap = None
           /\ addressesUsed' = [addressesUsed EXCEPT ![dev.podBridge] = @ \cup {ip}]
    /\ Return(h, "panicked")
    /\ UNCHANGED <<addressVars, podDevices, fromLocalhostBpfMaps, podNamespaces,
                   linkVars, bpfVars, calls>>

TapLocalhost(h) ==
    /\ pc[h] = "taplocalhost"
    /\ AddLocalhost(frame[h].pod, frame[h].subIp)
    /\ Call(h, "idle", NoFrame)
    /\ UNCHANGED <<addressVars, addressesUsed, podNamespaces, linkVars, bpfVars,
                   calls, outcome>>

\* Attaching fails and is logged; the nil map is used all the same, after
\* at most one other workload's map got the new address.
TapLocalhostPanics(h) ==
    /\ pc[h] = "taplocalhost"
    /\ "localhost" \in Faults
    /\ LET c   == podDevices[frame[h].pod].podBridge
           old == fromLocalhostBpfMaps[c]
       IN  \/ /\ DOMAIN old = {}
              /\ UNCHANGED fromLocalhostBpfMaps
           \/ \E w \in DOMAIN old :
                fromLocalhostBpfMaps' = [fromLocalhostBpfMaps EXCEPT ![c][w] =
                                            PutNext(@, frame[h].subIp)]
    /\ Return(h, "panicked")
    /\ UNCHANGED <<addressVars, podDevices, addressesUsed, podNamespaces, linkVars,
                   bpfVars, calls>>
-----------------------------------------------------------------------------
(***************************************************************************)
(* StopPodNetwork: the namespace, then the bridge.  Entries, addresses,    *)
(* maps and the routes of other pods stay.                                 *)
(***************************************************************************)
DeleteNetNs(h, p) ==
    /\ CanServe(h, p)
    /\ p \in netns
    /\ netns' = netns \ {p}
    /\ vethMaster' = [vethMaster EXCEPT ![p] = None]
    /\ Call(h, "linkdel", [NoFrame EXCEPT !.pod = p])
    /\ outcome' = [outcome EXCEPT ![p] = "busy"]
    /\ UNCHANGED <<addressVars, goVars, bridges, bridgeAddr, bpfVars, calls>>

\* There is no such namespace: an error, and the bridge, if any, stays.
DeleteNetNsFails(h, p) ==
    /\ CanServe(h, p)
    /\ p \notin netns
    /\ UNCHANGED vars

DeleteBridge(h) ==
    /\ pc[h] = "linkdel"
    /\ podDevices[frame[h].pod].podBridge # None
    /\ bridges' = bridges \ {podDevices[frame[h].pod].podBridge}
    /\ Return(h, "stopped")
    /\ UNCHANGED <<addressVars, goVars, bridgeAddr, netns, vethMaster, bpfVars, calls>>

\* The namespace of a pod this agent never set up: LinkDel of a nil link.
DeleteBridgePanics(h) ==
    /\ pc[h] = "linkdel"
    /\ podDevices[frame[h].pod].podBridge = None
    /\ Return(h, "panicked")
    /\ UNCHANGED <<addressVars, goVars, linkVars, bpfVars, calls>>
-----------------------------------------------------------------------------
InitPodNetwork(h) ==
    \/ RecordPodIP(h) \/ SetupPodBridge(h) \/ SetupPodBridgePanics(h)
    \/ GetNetNsIP(h) \/ SetupPodNetNs(h) \/ SetupPodNetNsFails(h)
    \/ NetNsLocalhost(h) \/ NetNsLocalhostFails(h)
    \/ LoadSplit(h) \/ LoadPanics(h)
    \/ LoadRedirect(h) \/ AddRoute(h) \/ PublishRedirect(h)
    \/ UpdateOther(h) \/ UpdateOtherPanics(h) \/ WriteBack(h) \/ AttachBridge(h)

CreateVMTun(h) ==
    AddTap(h) \/ AddTapPanics(h) \/ TapLocalhost(h) \/ TapLocalhostPanics(h)

StopPodNetwork(h) == DeleteBridge(h) \/ DeleteBridgePanics(h)

Step(h) == InitPodNetwork(h) \/ CreateVMTun(h) \/ StopPodNetwork(h)

Begin(h, p) == \/ BeginInit(h, p) \/ BeginVMTun(h, p) \/ VMTunFails(h, p)
               \/ DeleteNetNs(h, p) \/ DeleteNetNsFails(h, p)

Next == \E h \in Handlers : Step(h) \/ \E p \in Pods : Begin(h, p)

Spec == Init /\ [][Next]_vars
-----------------------------------------------------------------------------
(***************************************************************************)
(* Properties.                                                             *)
(***************************************************************************)
Labels == {"idle", "record", "bridge", "netns", "addns", "localhost", "split",
           "redirect", "addroutes", "update", "writeback", "tap", "taplocalhost", "linkdel"}

Outcomes == {"none", "busy", "up", "failed", "panicked", "stopped"}

MaybeCall == Calls \cup {None}

PodDevicesType == [baseAddr : PodIPs \cup {None}, podBridge : MaybeCall,
                   toSubpodBpfMap : MaybeCall, fromSubpodBpfMap : MaybeCall,
                   bpfProgLink : MaybeCall, linksToKeep : SUBSET Nat]

FrameType == [pod : Pods \cup {Nobody}, podIp : PodIPs \cup {None},
              podLink : MaybeCall, subIp : Nat,
              todo : SUBSET Pods, target : Pods \cup {Nobody}, dev : PodDevicesType]

LocalhostMapsType(maps) ==
    /\ DOMAIN maps \subseteq Nat
    /\ \A w \in DOMAIN maps : maps[w] \in Seq(Nat)

TypeOK ==
    /\ Addresses!TypeOK
    /\ podDevices \in [Pods -> PodDevicesType]
    /\ addressesUsed \in [Calls -> SUBSET Nat]
    /\ DOMAIN fromLocalhostBpfMaps = Calls
    /\ \A c \in Calls : LocalhostMapsType(fromLocalhostBpfMaps[c])
    /\ podNamespaces \subseteq Pods
    /\ bridges \subseteq Calls
    /\ bridgeAddr \in [Calls -> PodIPs \cup {None}]
    /\ netns \subseteq Pods
    /\ vethMaster \in [Pods -> MaybeCall]
    /\ splitMap \in [Calls -> Seq(Nat)]
    /\ redirectMap \in [Calls -> [PodIPs -> MaybeCall]]
    /\ calls \in 0 .. MaxCalls
    /\ pc \in [Handlers -> Labels]
    /\ frame \in [Handlers -> FrameType]
    /\ outcome \in [Pods -> Outcomes]

\* The last operation on the pod's network succeeded: InitPodNetwork.
Up(p) == outcome[p] = "up"

\* The bridge that carries the pod's traffic, and its address.
BridgeOf(p) == vethMaster[p]
AddressOf(p) == bridgeAddr[BridgeOf(p)]

\* Links are detached once Go collects them, so a bridge has its program for
\* as long as an entry refers to the link.
Programmed(c) == \E p \in Pods : podDevices[p].bpfProgLink = c

RoutesTo(p, q) == redirectMap[BridgeOf(p)][AddressOf(q)] = BridgeOf(q)

(***************************************************************************)
(* Every two pods that are up reach each other, in both directions, and    *)
(* whatever happened to other pods in between (failures, panics, second    *)
(* deployments, deletions): initFromSubpodRouting knows the older pods,    *)
(* updateSubpodRouting tells them about the new one.                       *)
(***************************************************************************)
MeshComplete ==
    \A p, q \in Pods : Up(p) /\ Up(q) /\ p # q =>
        RoutesTo(p, q) /\ Programmed(BridgeOf(p))

(***************************************************************************)
(* However InitPodNetwork calls interleave: pods that are up route to each *)
(* other, whichever call came second saw or updated the first one's map.   *)
(* Excepted are pods that raced for one address, and pods that were        *)
(* deployed again, whose entry WriteBack can set back to an older one.     *)
(***************************************************************************)
SharesAddress(p) == \E q \in Pods \ {p} : <<q, AddressOf(p)>> \in held

DeployedOnce(p) ==
    \A a, b \in PodIPs : <<p, a>> \in held /\ <<p, b>> \in held => a = b

MeshDespiteRaces ==
    \A p, q \in {r \in Pods : Up(r) /\ DeployedOnce(r)} :
        p # q /\ ~SharesAddress(q) => RoutesTo(p, q)

(***************************************************************************)
(* A route for an address leads to a bridge that has this address: traffic *)
(* is never redirected into a pod it is not meant for, also over routes    *)
(* left behind by pods that were deleted or deployed again.                *)
(***************************************************************************)
RoutesMatchBridges ==
    \A c \in Calls, a \in PodIPs :
        redirectMap[c][a] # None => bridgeAddr[redirectMap[c][a]] = a

\* slots holds every member of S in exactly one slot.
Lists(slots, S) == Len(slots) = Cardinality(S) /\ S = {slots[i] : i \in DOMAIN slots}

(***************************************************************************)
(* "localhost" of a pod is all of its workloads: the localhost map of each *)
(* workload lists each workload once, itself included, and its program     *)
(* stays attached.  (While an operation on the pod is running the maps are *)
(* being extended.)                                                        *)
(***************************************************************************)
LocalhostMesh ==
    \A p \in Pods : Up(p) /\ ~Busy(p) =>
        LET c == BridgeOf(p)
        IN  /\ DOMAIN fromLocalhostBpfMaps[c] = addressesUsed[c]
            /\ \A w \in addressesUsed[c] :
                   Lists(fromLocalhostBpfMaps[c][w], addressesUsed[c])
            /\ podDevices[p].linksToKeep = addressesUsed[c]

(***************************************************************************)
(* Traffic for a pod that is up is split over exactly its workloads.       *)
(***************************************************************************)
SplitCoversWorkloads ==
    \A p \in Pods : Up(p) /\ ~Busy(p) =>
        Lists(splitMap[BridgeOf(p)], addressesUsed[BridgeOf(p)])

(***************************************************************************)
(* The workloads of a pod have addresses in its block other than that of   *)
(* its bridge; those of different pods that are up are different.          *)
(***************************************************************************)
WorkloadAddressesUnique ==
    /\ \A c \in Calls : addressesUsed[c] # {} =>
           addressesUsed[c] \subseteq Addresses!Block(bridgeAddr[c]) \ {bridgeAddr[c]}
    /\ \A p, q \in Pods : Up(p) /\ Up(q) /\ p # q =>
           addressesUsed[BridgeOf(p)] \cap addressesUsed[BridgeOf(q)] = {}

(***************************************************************************)
(* A pod that is up keeps the program that starts its redirection: the     *)
(* write-backs of other pods' calls leave its entry as it was.             *)
(***************************************************************************)
BridgesProgrammed == \A p \in Pods : Up(p) => Programmed(BridgeOf(p))
=============================================================================
