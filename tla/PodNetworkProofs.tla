-------------------------- MODULE PodNetworkProofs --------------------------
(***************************************************************************)
(* What holds of MRPodLocalNetworkManager, and of                          *)
(* MultiRuntimeNetworkManager, for every set of pods, every number of      *)
(* handlers and calls, every subnet and whatever fails: the state is well  *)
(* formed; no route leads to a bridge with another address than the one it *)
(* is for; blocks of addresses are shared only by requests that            *)
(* overlapped; pods that did not race are routed to each other; and the    *)
(* first manager does, up to localhost, what the second does.              *)
(***************************************************************************)
EXTENDS MCPodRaces, MCManagers, FiniteSetTheorems, SequenceTheorems, TLAPS

(***************************************************************************)
(* The inductive invariant.  InitPodNetwork has a bridge number of its own *)
(* from its first step (InitLabels) and an entry with a bridge from        *)
(* SetupPodBridge on (Running); until then nobody has given that bridge an *)
(* address (Fresh).  Since a bridge gets its address once, a copy of an    *)
(* entry is never wrong about the address of the bridge it names,          *)
(* however old it is (EntriesMatch), which is what the routes rest on.     *)
(***************************************************************************)
Running == {"netns", "addns", "localhost", "split", "redirect", "addroutes",
            "update", "writeback"}

InitLabels == {"record", "bridge"} \cup Running

HasBridge(p) == podDevices[p].podBridge # None

FrameMatches(h) ==
    /\ pc[h] # "idle" => frame[h].pod \in Pods
    /\ pc[h] \in InitLabels => frame[h].podLink \in 1 .. calls
    /\ pc[h] \in Running => /\ frame[h].podIp # None
                            /\ bridgeAddr[frame[h].podLink] = frame[h].podIp
    /\ pc[h] \in Running \cup {"taplocalhost"} => HasBridge(frame[h].pod)
    /\ pc[h] \in {"tap", "writeback"} => frame[h].dev.podBridge # None
    /\ pc[h] = "writeback" => frame[h].target \in Pods
    /\ \A q \in frame[h].todo : HasBridge(q)

FramesMatch == \A h \in Handlers : FrameMatches(h)

Matches(dev) ==
    dev.podBridge # None => /\ dev.baseAddr # None
                            /\ bridgeAddr[dev.podBridge] = dev.baseAddr

EntriesMatch == /\ \A p \in Pods : Matches(podDevices[p])
                /\ \A h \in Handlers : Matches(frame[h].dev)

Fresh ==
    /\ \A h \in Handlers :
           pc[h] \in {"record", "bridge"} => bridgeAddr[frame[h].podLink] = None
    /\ \A g, h \in Handlers :
           g # h /\ pc[g] \in InitLabels /\ pc[h] \in InitLabels
               => frame[g].podLink # frame[h].podLink
    /\ \A c \in Calls : c > calls => bridgeAddr[c] = None

OutcomesMatch == \A p \in Pods : outcome[p] \in {"up", "failed"} => HasBridge(p)

MapsFinite == \A c \in Calls : /\ IsFiniteSet(addressesUsed[c])
                               /\ IsFiniteSet(DOMAIN fromLocalhostBpfMaps[c])

IInv == /\ TypeOK /\ MapsFinite
        /\ FramesMatch /\ EntriesMatch /\ Fresh /\ OutcomesMatch
        /\ RoutesMatchBridges

-----------------------------------------------------------------------------
(***************************************************************************)
(* Addresses of pods are numbers, and none of them is None.                *)
(***************************************************************************)
LEMMA PodIPsPositive == PodIPs \subseteq Nat \ {None}
<1> SUFFICES ASSUME NEW f \in Addresses!FreeIPs PROVE f \in Nat \ {0} /\ f + 0 = f
  BY DEF PodIPs, Addresses!Blocks, Addresses!AddressOf, None
<1>1. PICK k \in 0 .. SubnetSize : f = FirstFree + k * IPsPerPod
  BY DEF Addresses!FreeIPs
<1>2. k * IPsPerPod \in Nat
  BY PodNetworkAssumption
<1>3. QED
  BY <1>1, <1>2, PodNetworkAssumption

LEMMA FreeIPsArePodIPs == Addresses!FreeIPs = PodIPs
<1>1. \A f \in Addresses!FreeIPs : Addresses!AddressOf(f) = f
  BY PodNetworkAssumption DEF Addresses!FreeIPs, Addresses!AddressOf
<1>2. QED
  BY <1>1 DEF PodIPs, Addresses!Blocks

LEMMA FindFreeIPTypeOK ==
    ASSUME Addresses!TypeOK, NEW h \in Handlers, NEW p \in Pods,
           Addresses!FindFreeIP(h, p)
    PROVE  Addresses!TypeOK'
BY DEF Addresses!TypeOK, Addresses!FindFreeIP, Addresses!Requests

LEMMA RecordIPTypeOK ==
    ASSUME Addresses!TypeOK, NEW h \in Handlers, Addresses!RecordIP(h)
    PROVE  /\ Addresses!TypeOK'
           /\ pending[h].free \in PodIPs \cup {Exhausted}
<1>1. pending[h] \in Addresses!Requests
  BY DEF Addresses!TypeOK, Addresses!RecordIP
<1>2. pending[h].pod \in Pods /\ pending[h].free \in Addresses!FreeIPs \cup {Exhausted}
  BY <1>1 DEF Addresses!Requests
<1>3. Addresses!TypeOK'
  <2>1. CASE pending[h].free = Exhausted
    BY <2>1 DEF Addresses!TypeOK, Addresses!RecordIP
  <2>2. CASE pending[h].free # Exhausted
    <3>1. Addresses!AddressOf(pending[h].free) \in Addresses!Blocks
      BY <1>2, <2>2 DEF Addresses!Blocks
    <3>2. QED
      BY <1>2, <2>2, <3>1 DEF Addresses!TypeOK, Addresses!RecordIP
  <2>3. QED
    BY <2>1, <2>2
<1>4. QED
  BY <1>2, <1>3, FreeIPsArePodIPs

-----------------------------------------------------------------------------
LEMMA InitIInv == Init => IInv
<1> SUFFICES ASSUME Init PROVE IInv
  OBVIOUS
<1> USE DEF Init, None
<1>1. TypeOK
  <2>1. Addresses!TypeOK
    BY DEF Addresses!Init, Addresses!TypeOK
  <2>2. NoDevices \in PodDevicesType
    BY DEF NoDevices, PodDevicesType, MaybeCall
  <2>3. NoFrame \in FrameType
    BY <2>2 DEF NoFrame, FrameType, MaybeCall
  <2>4. \A c \in Calls : LocalhostMapsType(fromLocalhostBpfMaps[c])
    BY DEF LocalhostMapsType
  <2>5. 0 \in 0 .. MaxCalls
    BY PodNetworkAssumption
  <2>6. QED
    BY <2>1, <2>2, <2>3, <2>4, <2>5 DEF TypeOK, Labels, Outcomes, MaybeCall
<1>2. MapsFinite
  BY FS_EmptySet DEF MapsFinite
<1>3. FramesMatch
  BY DEF FramesMatch, FrameMatches, NoFrame, InitLabels, Running
<1>4. EntriesMatch
  BY DEF EntriesMatch, Matches, NoFrame, NoDevices
<1>5. Fresh
  BY DEF Fresh, InitLabels, Running
<1>6. OutcomesMatch
  BY DEF OutcomesMatch
<1>7. RoutesMatchBridges
  BY DEF RoutesMatchBridges
<1>8. QED
  BY <1>1, <1>2, <1>3, <1>4, <1>5, <1>6, <1>7 DEF IInv

-----------------------------------------------------------------------------
(***************************************************************************)
(* The state stays well formed.                                            *)
(***************************************************************************)
FramesType == /\ pc \in [Handlers -> Labels]
              /\ frame \in [Handlers -> FrameType]

LEMMA NoFrameType == NoDevices \in PodDevicesType /\ NoFrame \in FrameType
BY DEF NoDevices, PodDevicesType, NoFrame, FrameType, MaybeCall, None

LEMMA CallType ==
    ASSUME FramesType, NEW h \in Handlers, NEW label \in Labels,
           NEW f \in FrameType, Call(h, label, f)
    PROVE  FramesType'
BY DEF FramesType, Call, Goto

LEMMA ReturnType ==
    ASSUME TypeOK, NEW h \in Handlers, NEW result \in Outcomes, Return(h, result)
    PROVE  FramesType' /\ outcome' \in [Pods -> Outcomes]
<1>1. FramesType'
  <2>1. FramesType /\ "idle" \in Labels
    BY DEF TypeOK, FramesType, Labels
  <2>2. QED
    BY <2>1, NoFrameType, CallType DEF Return
<1>2. QED
  BY <1>1 DEF Return, TypeOK

(***************************************************************************)
(* A pod whose entry has a bridge: the entry's maps, and its next address. *)
(***************************************************************************)
LEMMA NextAddressType ==
    ASSUME TypeOK, MapsFinite, NEW dev \in PodDevicesType, dev.podBridge # None
    PROVE  dev.podBridge \in Calls /\ getNextSubPodIP(dev) \in Nat
<1>1. dev.podBridge \in Calls /\ dev.baseAddr \in Nat
  <2>1. /\ dev.podBridge \in Calls \cup {None}
        /\ dev.baseAddr \in PodIPs \cup {None}
    BY DEF PodDevicesType, MaybeCall
  <2>2. None \in Nat
    BY DEF None
  <2>3. QED
    BY <2>1, <2>2, PodIPsPositive
<1>2. Cardinality(addressesUsed[dev.podBridge]) \in Nat
  BY <1>1, FS_CardinalityType DEF MapsFinite
<1>3. QED
  BY <1>1, <1>2 DEF getNextSubPodIP

LEMMA FieldTypes ==
    ASSUME NEW dev \in PodDevicesType, NEW c \in Calls
    PROVE  /\ [dev EXCEPT !.toSubpodBpfMap = c] \in PodDevicesType
           /\ [dev EXCEPT !.fromSubpodBpfMap = c] \in PodDevicesType
           /\ [dev EXCEPT !.bpfProgLink = c] \in PodDevicesType
BY DEF PodDevicesType, MaybeCall

LEMMA PutNextType ==
    ASSUME NEW slots \in Seq(Nat), NEW ip \in Nat
    PROVE  PutNext(slots, ip) \in Seq(Nat)
BY DEF PutNext

(***************************************************************************)
(* Adding a workload to the localhost maps of its pod.                     *)
(***************************************************************************)
LEMMA AddLocalhostType ==
    ASSUME TypeOK, MapsFinite, NEW p \in Pods, NEW ip \in Nat, HasBridge(p),
           AddLocalhost(p, ip)
    PROVE  /\ podDevices' \in [Pods -> PodDevicesType]
           /\ DOMAIN fromLocalhostBpfMaps' = Calls
           /\ \A c \in Calls : /\ LocalhostMapsType(fromLocalhostBpfMaps'[c])
                               /\ IsFiniteSet(DOMAIN fromLocalhostBpfMaps'[c])
<1> DEFINE b == podDevices[p].podBridge
           old == fromLocalhostBpfMaps[b]
<1>1. b \in Calls /\ podDevices[p] \in PodDevicesType
  BY DEF TypeOK, PodDevicesType, MaybeCall, HasBridge
<1>2. podDevices' \in [Pods -> PodDevicesType]
  BY <1>1 DEF TypeOK, AddLocalhost, PodDevicesType
<1>3. PICK others \in Orders(DOMAIN old \ {ip}) :
          fromLocalhostBpfMaps' = [fromLocalhostBpfMaps EXCEPT ![b] =
              [w \in DOMAIN old \cup {ip} |->
                  IF w = ip THEN PutNext(others, ip) ELSE PutNext(old[w], ip)]]
  BY DEF AddLocalhost
<1>4. /\ DOMAIN old \subseteq Nat /\ IsFiniteSet(DOMAIN old)
      /\ \A w \in DOMAIN old : old[w] \in Seq(Nat)
  BY <1>1 DEF TypeOK, LocalhostMapsType, MapsFinite
<1>5. others \in Seq(Nat)
  <2>1. IsFiniteSet(DOMAIN old \ {ip})
    BY <1>4, FS_Subset
  <2>2. Cardinality(DOMAIN old \ {ip}) \in Nat
    BY <2>1, FS_CardinalityType
  <2>3. others \in [1 .. Cardinality(DOMAIN old \ {ip}) -> Nat]
    BY <1>4 DEF Orders
  <2>4. Seq(Nat) = UNION {[1 .. k -> Nat] : k \in Nat}
    BY SeqDef
  <2>5. QED
    BY <2>2, <2>3, <2>4, Zenon
<1>6. /\ DOMAIN fromLocalhostBpfMaps' = Calls
      /\ \A c \in Calls \ {b} : fromLocalhostBpfMaps'[c] = fromLocalhostBpfMaps[c]
      /\ DOMAIN fromLocalhostBpfMaps'[b] = DOMAIN old \cup {ip}
      /\ \A w \in DOMAIN old \cup {ip} : fromLocalhostBpfMaps'[b][w] =
             IF w = ip THEN PutNext(others, ip) ELSE PutNext(old[w], ip)
  BY <1>1, <1>3 DEF TypeOK
<1>7. LocalhostMapsType(fromLocalhostBpfMaps'[b])
  BY <1>4, <1>5, <1>6, PutNextType DEF LocalhostMapsType
<1>8. IsFiniteSet(DOMAIN fromLocalhostBpfMaps'[b])
  <2>1. IsFiniteSet(DOMAIN old \cup {ip})
    BY <1>4, FS_AddElement
  <2>2. QED
    BY <1>6, <2>1
<1>9. QED
  BY <1>2, <1>6, <1>7, <1>8 DEF TypeOK, MapsFinite

(***************************************************************************)
(* The local variables of a handler in InitPodNetwork.                     *)
(***************************************************************************)
LEMMA FrameFacts ==
    ASSUME IInv, NEW h \in Handlers
    PROVE  /\ frame[h] \in FrameType /\ frame[h].dev \in PodDevicesType
           /\ frame[h].subIp \in Nat /\ frame[h].todo \subseteq Pods
           /\ pc[h] # "idle" => frame[h].pod \in Pods
           /\ pc[h] \in InitLabels => /\ frame[h].podLink \in Calls
                                      /\ frame[h].podLink # None
           /\ pc[h] \in Running => frame[h].podIp \in PodIPs
<1>1. frame[h] \in FrameType
  BY DEF IInv, TypeOK
<1>2. frame[h].podLink \in MaybeCall /\ frame[h].podIp \in PodIPs \cup {None}
  BY <1>1 DEF FrameType
<1>3. FrameMatches(h)
  BY DEF IInv, FramesMatch
<1>4. pc[h] \in InitLabels => frame[h].podLink # None
  BY <1>3 DEF FrameMatches, None, IInv, TypeOK
<1>5. QED
  BY <1>1, <1>2, <1>3, <1>4 DEF FrameMatches, FrameType, MaybeCall

(***************************************************************************)
(* A step of handler h, whichever of the two managers the agent has.       *)
(***************************************************************************)
EitherInit(h) == InitPodNetwork(h) \/ MRSetupPodNetNs(h)

EitherTun(h) == CreateVMTun(h) \/ MRAddTap(h) \/ MRTapMissing(h)

StepOf(h) == \/ EitherInit(h) \/ EitherTun(h) \/ StopPodNetwork(h)
             \/ \E p \in Pods : Begin(h, p)

EitherNext == \E h \in Handlers : StepOf(h)

LEMMA ManagersAgree == (Next => EitherNext) /\ (MRNext => EitherNext)
<1>1. Next => EitherNext
  BY DEF Next, EitherNext, StepOf, Step, EitherInit, EitherTun
<1>2. MRNext => EitherNext
  BY DEF MRNext, EitherNext, StepOf, MRStep, EitherInit, EitherTun, MRInitPodNetwork,
         MRCreateVMTun, MRStopPodNetwork, StopPodNetwork, initFromSubpodRouting,
         updateSubpodRouting, InitPodNetwork, CreateVMTun
<1>3. QED
  BY <1>1, <1>2

LEMMA InitPodNetworkTypeOK ==
    ASSUME IInv, NEW h \in Handlers, EitherInit(h)
    PROVE  TypeOK' /\ MapsFinite'
<1> DEFINE p == frame[h].pod
           c == frame[h].podLink
           ip == frame[h].podIp
<1>1. TypeOK /\ MapsFinite /\ FramesType
  BY DEF IInv, TypeOK, FramesType
<1>2. /\ frame[h] \in FrameType /\ frame[h].dev \in PodDevicesType
      /\ frame[h].subIp \in Nat /\ frame[h].todo \subseteq Pods
      /\ pc[h] # "idle" => p \in Pods
      /\ pc[h] \in InitLabels => c \in Calls /\ c # None
      /\ pc[h] \in Running => ip \in PodIPs
  BY FrameFacts
<1>3. FrameMatches(h)
  BY DEF IInv, FramesMatch
<1> USE DEF goVars, linkVars, bpfVars, addressVars
<1>4. CASE RecordPodIP(h)
  <2>1. Addresses!TypeOK' /\ pending[h].free \in PodIPs \cup {Exhausted}
    BY <1>1, <1>4, RecordIPTypeOK DEF RecordPodIP, TypeOK
  <2>2. [frame[h] EXCEPT !.podIp = IF pending[h].free = Exhausted THEN None
                                   ELSE pending[h].free] \in FrameType
    BY <1>2, <2>1 DEF FrameType
  <2>3. FramesType'
    BY <1>1, <1>4, <2>2, CallType DEF RecordPodIP, Labels
  <2>4. QED
    BY <1>1, <1>4, <2>1, <2>3 DEF RecordPodIP, TypeOK, FramesType, MapsFinite
<1>5. CASE SetupPodBridge(h)
  <2>1. p \in Pods /\ c \in Calls /\ ip \in PodIPs
    BY <1>2, <1>5 DEF SetupPodBridge, InitLabels, FrameType
  <2>2. [NoDevices EXCEPT !.baseAddr = ip, !.podBridge = c] \in PodDevicesType
    BY <2>1, NoFrameType DEF PodDevicesType, MaybeCall
  <2>3. FramesType'
    BY <1>1, <1>5 DEF SetupPodBridge, FramesType, Goto, Labels
  <2>4. /\ bridges' \subseteq Calls /\ bridgeAddr' \in [Calls -> PodIPs \cup {None}]
        /\ podDevices' \in [Pods -> PodDevicesType]
    BY <1>1, <1>5, <2>1, <2>2 DEF SetupPodBridge, TypeOK
  <2>5. QED
    BY <1>1, <1>5, <2>3, <2>4
       DEF SetupPodBridge, TypeOK, FramesType, MapsFinite, Addresses!TypeOK
<1>6. CASE SetupPodBridgePanics(h)
  <2>1. c \in Calls
    BY <1>2, <1>6 DEF SetupPodBridgePanics, InitLabels
  <2>2. FramesType' /\ outcome' \in [Pods -> Outcomes]
    BY <1>1, <1>6, ReturnType DEF SetupPodBridgePanics, Outcomes
  <2>3. QED
    BY <1>1, <1>6, <2>1, <2>2
       DEF SetupPodBridgePanics, TypeOK, FramesType, MapsFinite, Addresses!TypeOK
<1>7. CASE GetNetNsIP(h)
  <2>1. FramesType' /\ outcome' \in [Pods -> Outcomes]
    <3>1. CASE Return(h, "failed")
      BY <1>1, <3>1, ReturnType DEF Outcomes
    <3>2. CASE ~Return(h, "failed")
      <4> DEFINE dev == podDevices[p]
      <4>1. dev \in PodDevicesType /\ dev.podBridge # None
        BY <1>1, <1>2, <1>3, <1>7
           DEF GetNetNsIP, FrameMatches, Running, HasBridge, TypeOK
      <4>2. getNextSubPodIP(dev) \in Nat
        BY <1>1, <4>1, NextAddressType
      <4>3. [frame[h] EXCEPT !.subIp = getNextSubPodIP(dev)] \in FrameType
        BY <1>2, <4>2 DEF FrameType
      <4>4. Call(h, "addns", [frame[h] EXCEPT !.subIp = getNextSubPodIP(dev)])
            /\ UNCHANGED outcome
        BY <1>7, <3>2 DEF GetNetNsIP
      <4>5. FramesType'
        BY <1>1, <4>3, <4>4, CallType DEF Labels
      <4>6. QED
        BY <1>1, <4>4, <4>5 DEF TypeOK
    <3>3. QED
      BY <3>1, <3>2
  <2>2. QED
    BY <1>1, <1>7, <2>1
       DEF GetNetNsIP, TypeOK, FramesType, MapsFinite, Addresses!TypeOK
<1>8. CASE SetupPodNetNs(h) \/ MRSetupPodNetNs(h)
  <2>1. p \in Pods /\ c \in Calls
    BY <1>2, <1>8 DEF SetupPodNetNs, MRSetupPodNetNs, InitLabels, Running
  <2>2. podDevices[p].podBridge \in Calls
    BY <1>1, <1>3, <1>8, <2>1
       DEF SetupPodNetNs, MRSetupPodNetNs, FrameMatches, Running, HasBridge, TypeOK,
           PodDevicesType, MaybeCall
  <2>3. FramesType'
    BY <1>1, <1>8 DEF SetupPodNetNs, MRSetupPodNetNs, FramesType, Goto, Labels
  <2>4. IsFiniteSet(addressesUsed[podDevices[p].podBridge] \cup {frame[h].subIp})
    BY <1>1, <2>2, FS_AddElement DEF MapsFinite
  <2>5. /\ addressesUsed' \in [Calls -> SUBSET Nat]
        /\ \A d \in Calls : IsFiniteSet(addressesUsed'[d])
    <3>1. addressesUsed' = [addressesUsed EXCEPT ![podDevices[p].podBridge] =
                               @ \cup {frame[h].subIp}]
      BY <1>8 DEF SetupPodNetNs, MRSetupPodNetNs
    <3>2. QED
      BY <1>1, <1>2, <2>2, <2>4, <3>1 DEF TypeOK, MapsFinite
  <2>6. netns' \subseteq Pods /\ vethMaster' \in [Pods -> MaybeCall]
    BY <1>1, <1>8, <2>1 DEF SetupPodNetNs, MRSetupPodNetNs, TypeOK, MaybeCall
  <2>7. QED
    BY <1>1, <1>8, <2>3, <2>5, <2>6
       DEF SetupPodNetNs, MRSetupPodNetNs, TypeOK, FramesType, MapsFinite, Addresses!TypeOK
<1>9. CASE SetupPodNetNsFails(h)
  <2>1. p \in Pods
    BY <1>2, <1>9 DEF SetupPodNetNsFails
  <2>2. FramesType' /\ outcome' \in [Pods -> Outcomes]
    BY <1>1, <1>9, ReturnType DEF SetupPodNetNsFails, Outcomes
  <2>3. QED
    BY <1>1, <1>9, <2>1, <2>2
       DEF SetupPodNetNsFails, TypeOK, FramesType, MapsFinite, Addresses!TypeOK
<1>10. CASE NetNsLocalhost(h)
  <2>1. p \in Pods /\ HasBridge(p)
    BY <1>2, <1>3, <1>10 DEF NetNsLocalhost, FrameMatches, Running
  <2>2. FramesType'
    BY <1>1, <1>10 DEF NetNsLocalhost, FramesType, Goto, Labels
  <2>3. /\ podDevices' \in [Pods -> PodDevicesType]
        /\ DOMAIN fromLocalhostBpfMaps' = Calls
        /\ \A d \in Calls : /\ LocalhostMapsType(fromLocalhostBpfMaps'[d])
                            /\ IsFiniteSet(DOMAIN fromLocalhostBpfMaps'[d])
    BY <1>1, <1>2, <1>10, <2>1, AddLocalhostType DEF NetNsLocalhost
  <2>4. QED
    BY <1>1, <1>10, <2>2, <2>3
       DEF NetNsLocalhost, TypeOK, FramesType, MapsFinite, Addresses!TypeOK
<1>11. CASE NetNsLocalhostFails(h) \/ LoadPanics(h) \/ UpdateOtherPanics(h)
  <2>1. FramesType' /\ outcome' \in [Pods -> Outcomes]
    BY <1>1, <1>11, ReturnType
       DEF NetNsLocalhostFails, LoadPanics, UpdateOtherPanics, Outcomes
  <2>2. QED
    BY <1>1, <1>11, <2>1
       DEF NetNsLocalhostFails, LoadPanics, UpdateOtherPanics, TypeOK, FramesType,
           MapsFinite, Addresses!TypeOK
<1>12. CASE LoadSplit(h)
  <2>1. p \in Pods /\ c \in Calls
    BY <1>2, <1>12 DEF LoadSplit, InitLabels, Running
  <2>2. FramesType'
    BY <1>1, <1>12 DEF LoadSplit, FramesType, Goto, Labels
  <2>3. splitMap' \in [Calls -> Seq(Nat)]
    BY <1>1, <1>2, <1>12, <2>1 DEF LoadSplit, TypeOK
  <2>4. podDevices' \in [Pods -> PodDevicesType]
    BY <1>1, <1>12, <2>1, FieldTypes DEF LoadSplit, TypeOK
  <2>5. QED
    BY <1>1, <1>12, <2>2, <2>3, <2>4
       DEF LoadSplit, TypeOK, FramesType, MapsFinite, Addresses!TypeOK
<1>13. CASE LoadRedirect(h)
  <2>1. [frame[h] EXCEPT !.todo = Others(c)] \in FrameType
    BY <1>2 DEF FrameType, Others
  <2>2. FramesType'
    BY <1>1, <1>13, <2>1, CallType DEF LoadRedirect, Labels
  <2>3. QED
    BY <1>1, <1>13, <2>2
       DEF LoadRedirect, TypeOK, FramesType, MapsFinite, Addresses!TypeOK
<1>14. CASE AddRoute(h)
  <2>1. PICK q \in frame[h].todo :
            /\ redirectMap' = [redirectMap EXCEPT
                   ![c][podDevices[q].baseAddr] = podDevices[q].podBridge]
            /\ frame' = [frame EXCEPT ![h].todo = @ \ {q}]
    BY <1>14 DEF AddRoute
  <2>2. c \in Calls /\ podDevices[q] \in PodDevicesType
    BY <1>1, <1>2, <1>14 DEF AddRoute, InitLabels, Running, TypeOK
  <2>3. redirectMap' \in [Calls -> [PodIPs -> MaybeCall]]
    <3>1. podDevices[q].podBridge \in MaybeCall
      BY <2>2 DEF PodDevicesType
    <3>2. QED
      BY <1>1, <2>1, <2>2, <3>1 DEF TypeOK
  <2>4. [frame[h] EXCEPT !.todo = @ \ {q}] \in FrameType
    BY <1>2 DEF FrameType
  <2>5. FramesType'
    BY <1>1, <1>14, <2>1, <2>4 DEF AddRoute, FramesType
  <2>6. QED
    BY <1>1, <1>14, <2>3, <2>5
       DEF AddRoute, TypeOK, FramesType, MapsFinite, Addresses!TypeOK
<1>15. CASE PublishRedirect(h)
  <2>1. p \in Pods /\ c \in Calls
    BY <1>2, <1>15 DEF PublishRedirect, InitLabels, Running
  <2>2. [frame[h] EXCEPT !.todo = Others(c)] \in FrameType
    BY <1>2 DEF FrameType, Others
  <2>3. FramesType'
    BY <1>1, <1>15, <2>2, CallType DEF PublishRedirect, Labels
  <2>4. podDevices' \in [Pods -> PodDevicesType]
    BY <1>1, <1>15, <2>1, FieldTypes DEF PublishRedirect, TypeOK
  <2>5. QED
    BY <1>1, <1>15, <2>3, <2>4
       DEF PublishRedirect, TypeOK, FramesType, MapsFinite, Addresses!TypeOK
<1>16. CASE UpdateOther(h)
  <2>1. PICK q \in frame[h].todo :
            LET dev == podDevices[q]
            IN  /\ dev.fromSubpodBpfMap # None
                /\ redirectMap' = [redirectMap EXCEPT
                       ![dev.fromSubpodBpfMap][ip] = c]
                /\ Call(h, "writeback", [frame[h] EXCEPT !.target = q, !.dev = dev,
                                                         !.todo = @ \ {q}])
    BY <1>16 DEF UpdateOther
  <2>2. c \in Calls /\ q \in Pods /\ podDevices[q] \in PodDevicesType
    BY <1>1, <1>2, <1>16 DEF UpdateOther, InitLabels, Running, TypeOK
  <2>3. redirectMap' \in [Calls -> [PodIPs -> MaybeCall]]
    BY <1>1, <2>1, <2>2 DEF TypeOK, MaybeCall
  <2>4. [frame[h] EXCEPT !.target = q, !.dev = podDevices[q],
                         !.todo = @ \ {q}] \in FrameType
    BY <1>2, <2>2 DEF FrameType
  <2>5. FramesType'
    BY <1>1, <2>1, <2>4, CallType DEF Labels
  <2>6. QED
    BY <1>1, <1>16, <2>3, <2>5
       DEF UpdateOther, TypeOK, FramesType, MapsFinite, Addresses!TypeOK
<1>17. CASE WriteBack(h)
  <2>1. [frame[h] EXCEPT !.target = Nobody, !.dev = NoDevices] \in FrameType
    BY <1>2, NoFrameType DEF FrameType
  <2>2. FramesType'
    BY <1>1, <1>17, <2>1, CallType DEF WriteBack, Labels
  <2>3. podDevices' \in [Pods -> PodDevicesType]
    BY <1>1, <1>2, <1>17 DEF WriteBack, TypeOK
  <2>4. QED
    BY <1>1, <1>17, <2>2, <2>3
       DEF WriteBack, TypeOK, FramesType, MapsFinite, Addresses!TypeOK
<1>18. CASE AttachBridge(h)
  <2>1. p \in Pods /\ c \in Calls
    BY <1>2, <1>18 DEF AttachBridge, InitLabels, Running
  <2>2. FramesType' /\ outcome' \in [Pods -> Outcomes]
    BY <1>1, <1>18, ReturnType DEF AttachBridge, Outcomes
  <2>3. podDevices' \in [Pods -> PodDevicesType]
    <3>1. podDevices \in [Pods -> PodDevicesType]
      BY <1>1 DEF TypeOK
    <3>2. [podDevices[p] EXCEPT !.bpfProgLink = c] \in PodDevicesType
      BY <2>1, <3>1, FieldTypes
    <3>3. \/ podDevices' = [podDevices EXCEPT ![p].bpfProgLink = c]
          \/ podDevices' = podDevices
      BY <1>18 DEF AttachBridge
    <3>4. QED
      BY <3>1, <3>2, <3>3
  <2>4. QED
    BY <1>1, <1>18, <2>1, <2>2, <2>3
       DEF AttachBridge, TypeOK, FramesType, MapsFinite, Addresses!TypeOK
<1>19. QED
  BY <1>4, <1>5, <1>6, <1>7, <1>8, <1>9, <1>10, <1>11, <1>12, <1>13, <1>14,
     <1>15, <1>16, <1>17, <1>18 DEF EitherInit, InitPodNetwork, MRSetupPodNetNs

LEMMA CreateVMTunTypeOK ==
    ASSUME IInv, NEW h \in Handlers, EitherTun(h)
    PROVE  TypeOK' /\ MapsFinite'
<1> DEFINE p == frame[h].pod
           dev == frame[h].dev
           ip == frame[h].subIp
<1>1. TypeOK /\ MapsFinite /\ FramesType
  BY DEF IInv, TypeOK, FramesType
<1>2. /\ frame[h] \in FrameType /\ dev \in PodDevicesType /\ ip \in Nat
      /\ pc[h] # "idle" => p \in Pods
  BY FrameFacts
<1>3. FrameMatches(h)
  BY DEF IInv, FramesMatch
<1> USE DEF goVars, linkVars, bpfVars, addressVars
<1>4. CASE AddTap(h) \/ MRAddTap(h) \/ AddTapPanics(h)
  <2>1. p \in Pods /\ dev.podBridge \in Calls
    BY <1>2, <1>3, <1>4
       DEF AddTap, MRAddTap, AddTapPanics, FrameMatches, PodDevicesType, MaybeCall
  <2>2. IsFiniteSet(addressesUsed[dev.podBridge] \cup {ip})
    BY <1>1, <2>1, FS_AddElement DEF MapsFinite
  <2>3. addressesUsed' = [addressesUsed EXCEPT ![dev.podBridge] = @ \cup {ip}]
    BY <1>4 DEF AddTap, MRAddTap, AddTapPanics
  <2>4. /\ addressesUsed' \in [Calls -> SUBSET Nat]
        /\ \A d \in Calls : IsFiniteSet(addressesUsed'[d])
    BY <1>1, <1>2, <2>1, <2>2, <2>3 DEF TypeOK, MapsFinite
  <2>5. CASE AddTap(h) \/ MRAddTap(h)
    <3>1. FramesType'
      BY <1>1, <2>5, NoFrameType DEF AddTap, MRAddTap, FramesType, Call, Goto, Labels
    <3>2. dev.toSubpodBpfMap \in Calls
      BY <1>2, <2>5 DEF AddTap, MRAddTap, PodDevicesType, MaybeCall
    <3>3. PutNext(splitMap[dev.toSubpodBpfMap], ip) \in Seq(Nat)
      BY <1>1, <1>2, <3>2, PutNextType DEF TypeOK
    <3>4. splitMap' \in [Calls -> Seq(Nat)]
      <4>1. splitMap' = [splitMap EXCEPT ![dev.toSubpodBpfMap] = PutNext(@, ip)]
        BY <2>5 DEF AddTap, MRAddTap
      <4>2. splitMap \in [Calls -> Seq(Nat)]
        BY <1>1 DEF TypeOK
      <4>3. QED
        BY <3>2, <3>3, <4>1, <4>2
    <3>5. podDevices' \in [Pods -> PodDevicesType]
      BY <1>1, <1>2, <2>1, <2>5 DEF AddTap, MRAddTap, TypeOK
    <3>6. QED
      BY <1>1, <2>4, <2>5, <3>1, <3>4, <3>5
         DEF AddTap, MRAddTap, TypeOK, FramesType, MapsFinite, Addresses!TypeOK
  <2>6. CASE AddTapPanics(h)
    <3>1. FramesType' /\ outcome' \in [Pods -> Outcomes]
      BY <1>1, <2>6, ReturnType DEF AddTapPanics, Outcomes
    <3>2. QED
      BY <1>1, <2>4, <2>6, <3>1
         DEF AddTapPanics, TypeOK, FramesType, MapsFinite, Addresses!TypeOK
  <2>7. QED
    BY <1>4, <2>5, <2>6
<1>5. CASE TapLocalhost(h)
  <2>1. p \in Pods /\ HasBridge(p)
    BY <1>2, <1>3, <1>5 DEF TapLocalhost, FrameMatches
  <2>2. FramesType'
    BY <1>1, <1>5, NoFrameType, CallType DEF TapLocalhost, Labels
  <2>3. /\ podDevices' \in [Pods -> PodDevicesType]
        /\ DOMAIN fromLocalhostBpfMaps' = Calls
        /\ \A d \in Calls : /\ LocalhostMapsType(fromLocalhostBpfMaps'[d])
                            /\ IsFiniteSet(DOMAIN fromLocalhostBpfMaps'[d])
    BY <1>1, <1>2, <1>5, <2>1, AddLocalhostType DEF TapLocalhost
  <2>4. QED
    BY <1>1, <1>5, <2>2, <2>3
       DEF TapLocalhost, TypeOK, FramesType, MapsFinite, Addresses!TypeOK
<1>6. CASE TapLocalhostPanics(h)
  <2> DEFINE b == podDevices[p].podBridge
             old == fromLocalhostBpfMaps[b]
  <2>1. b \in Calls
    BY <1>1, <1>2, <1>3, <1>6
       DEF TapLocalhostPanics, FrameMatches, HasBridge, TypeOK, PodDevicesType,
           MaybeCall
  <2>2. FramesType' /\ outcome' \in [Pods -> Outcomes]
    BY <1>1, <1>6, ReturnType DEF TapLocalhostPanics, Outcomes
  <2>3. /\ DOMAIN fromLocalhostBpfMaps' = Calls
        /\ \A d \in Calls : /\ LocalhostMapsType(fromLocalhostBpfMaps'[d])
                            /\ IsFiniteSet(DOMAIN fromLocalhostBpfMaps'[d])
    <3>1. CASE UNCHANGED fromLocalhostBpfMaps
      BY <1>1, <3>1 DEF TypeOK, MapsFinite
    <3>2. CASE \E w \in DOMAIN old :
                  fromLocalhostBpfMaps' =
                      [fromLocalhostBpfMaps EXCEPT ![b][w] = PutNext(@, ip)]
      <4>1. PICK w \in DOMAIN old :
                  fromLocalhostBpfMaps' =
                      [fromLocalhostBpfMaps EXCEPT ![b][w] = PutNext(@, ip)]
        BY <3>2
      <4>2. w \in Nat /\ old[w] \in Seq(Nat)
        BY <1>1, <2>1 DEF TypeOK, LocalhostMapsType
      <4>3. PutNext(old[w], ip) \in Seq(Nat)
        BY <1>2, <4>2, PutNextType
      <4>4. /\ DOMAIN fromLocalhostBpfMaps' = Calls
            /\ \A d \in Calls \ {b} : fromLocalhostBpfMaps'[d] = fromLocalhostBpfMaps[d]
            /\ fromLocalhostBpfMaps'[b] = [old EXCEPT ![w] = PutNext(old[w], ip)]
        BY <1>1, <2>1, <4>1 DEF TypeOK
      <4>5. /\ DOMAIN fromLocalhostBpfMaps'[b] = DOMAIN old
            /\ \A v \in DOMAIN old : fromLocalhostBpfMaps'[b][v] =
                   IF v = w THEN PutNext(old[w], ip) ELSE old[v]
        BY <4>4
      <4>6. LocalhostMapsType(fromLocalhostBpfMaps'[b])
        BY <1>1, <2>1, <4>3, <4>5 DEF TypeOK, LocalhostMapsType
      <4>7. QED
        BY <1>1, <2>1, <4>4, <4>5, <4>6 DEF TypeOK, MapsFinite
    <3>3. QED
      BY <1>6, <3>1, <3>2 DEF TapLocalhostPanics
  <2>4. QED
    BY <1>1, <1>6, <2>2, <2>3
       DEF TapLocalhostPanics, TypeOK, FramesType, MapsFinite, Addresses!TypeOK
<1>7. CASE MRTapMissing(h)
  <2>1. FramesType'
    BY <1>1, <1>7, NoFrameType, CallType DEF MRTapMissing, Labels
  <2>2. QED
    BY <1>1, <1>7, <2>1
       DEF MRTapMissing, TypeOK, FramesType, MapsFinite, Addresses!TypeOK
<1>8. QED
  BY <1>4, <1>5, <1>6, <1>7 DEF EitherTun, CreateVMTun

LEMMA StopPodNetworkTypeOK ==
    ASSUME IInv, NEW h \in Handlers, StopPodNetwork(h)
    PROVE  TypeOK' /\ MapsFinite'
<1>1. TypeOK /\ MapsFinite
  BY DEF IInv
<1>2. FramesType' /\ outcome' \in [Pods -> Outcomes]
  BY <1>1, ReturnType DEF StopPodNetwork, DeleteBridge, DeleteBridgePanics, Outcomes
<1>3. QED
  BY <1>1, <1>2
     DEF StopPodNetwork, DeleteBridge, DeleteBridgePanics, TypeOK, FramesType,
         MapsFinite, Addresses!TypeOK, goVars, linkVars, bpfVars, addressVars

LEMMA BeginTypeOK ==
    ASSUME IInv, NEW h \in Handlers, NEW p \in Pods, Begin(h, p)
    PROVE  TypeOK' /\ MapsFinite'
<1>1. TypeOK /\ MapsFinite /\ FramesType
  BY DEF IInv, TypeOK, FramesType
<1> USE DEF goVars, linkVars, bpfVars, addressVars
<1>2. CASE BeginInit(h, p)
  <2>1. Addresses!TypeOK'
    BY <1>1, <1>2, FindFreeIPTypeOK DEF BeginInit, TypeOK
  <2>2. calls' \in Calls /\ calls' \in 0 .. MaxCalls
    BY <1>1, <1>2, PodNetworkAssumption DEF BeginInit, TypeOK, Calls
  <2>3. [NoFrame EXCEPT !.pod = p, !.podLink = calls'] \in FrameType
    BY <2>2, NoFrameType DEF FrameType, MaybeCall
  <2>4. FramesType'
    BY <1>1, <1>2, <2>3, CallType DEF BeginInit, Labels
  <2>5. QED
    BY <1>1, <1>2, <2>1, <2>2, <2>4
       DEF BeginInit, TypeOK, FramesType, MapsFinite, Outcomes
<1>3. CASE BeginVMTun(h, p)
  <2> DEFINE dev == podDevices[p]
  <2>1. dev \in PodDevicesType /\ dev.podBridge # None
    BY <1>1, <1>3 DEF BeginVMTun, TypeOK, IInv, OutcomesMatch, HasBridge
  <2>2. getNextSubPodIP(dev) \in Nat
    BY <1>1, <2>1, NextAddressType
  <2>3. [NoFrame EXCEPT !.pod = p, !.dev = dev,
                        !.subIp = getNextSubPodIP(dev)] \in FrameType
    BY <2>1, <2>2, NoFrameType DEF FrameType
  <2>4. FramesType'
    BY <1>1, <1>3, <2>3, CallType DEF BeginVMTun, Labels
  <2>5. QED
    BY <1>1, <1>3, <2>4
       DEF BeginVMTun, TypeOK, FramesType, MapsFinite, Addresses!TypeOK
<1>4. CASE DeleteNetNs(h, p)
  <2>1. [NoFrame EXCEPT !.pod = p] \in FrameType
    BY NoFrameType DEF FrameType
  <2>2. FramesType'
    BY <1>1, <1>4, <2>1, CallType DEF DeleteNetNs, Labels
  <2>3. QED
    BY <1>1, <1>4, <2>2
       DEF DeleteNetNs, TypeOK, FramesType, MapsFinite, Addresses!TypeOK, Outcomes,
           MaybeCall
<1>5. CASE UNCHANGED vars
  BY <1>1, <1>5 DEF vars, TypeOK, MapsFinite, Addresses!TypeOK
<1>6. QED
  BY <1>2, <1>3, <1>4, <1>5 DEF Begin, VMTunFails, DeleteNetNsFails

LEMMA NextTypeOK ==
    ASSUME IInv, [EitherNext]_vars
    PROVE  TypeOK' /\ MapsFinite'
<1>1. CASE UNCHANGED vars
  BY <1>1 DEF IInv, vars, TypeOK, MapsFinite, Addresses!TypeOK, goVars, linkVars,
              bpfVars, addressVars
<1>2. QED
  BY <1>1, InitPodNetworkTypeOK, CreateVMTunTypeOK, StopPodNetworkTypeOK, BeginTypeOK
     DEF EitherNext, StepOf

-----------------------------------------------------------------------------
(***************************************************************************)
(* What a step of handler h leaves alone: the other handlers, the address  *)
(* of a bridge that has one, and the bridge of a pod that has one.         *)
(***************************************************************************)
LEMMA OthersStay ==
    ASSUME IInv, NEW h \in Handlers, StepOf(h), NEW g \in Handlers \ {h}
    PROVE  pc'[g] = pc[g] /\ frame'[g] = frame[g]
<1>1. pc \in [Handlers -> Labels] /\ frame \in [Handlers -> FrameType]
  BY DEF IInv, TypeOK
<1> USE <1>1 DEF Return, Call, Goto, vars
<1>2. CASE EitherInit(h)
  BY <1>2 DEF EitherInit, InitPodNetwork, MRSetupPodNetNs, RecordPodIP,
      SetupPodBridge, SetupPodBridgePanics, GetNetNsIP, SetupPodNetNs,
      SetupPodNetNsFails, NetNsLocalhost, NetNsLocalhostFails, LoadSplit,
      LoadPanics, LoadRedirect, AddRoute, PublishRedirect, UpdateOther,
      UpdateOtherPanics, WriteBack, AttachBridge
<1>3. CASE EitherTun(h) \/ StopPodNetwork(h)
  BY <1>3 DEF EitherTun, CreateVMTun, MRTapMissing, MRAddTap, AddTap, AddTapPanics,
      TapLocalhost, TapLocalhostPanics, StopPodNetwork, DeleteBridge,
      DeleteBridgePanics
<1>4. ASSUME NEW p \in Pods, Begin(h, p)
      PROVE  pc'[g] = pc[g] /\ frame'[g] = frame[g]
  BY <1>4 DEF Begin, BeginInit, BeginVMTun, VMTunFails, DeleteNetNs, DeleteNetNsFails
<1>5. QED
  BY <1>2, <1>3, <1>4 DEF StepOf

LEMMA BridgeAddressesStay ==
    ASSUME IInv, NEW h \in Handlers, StepOf(h)
    PROVE  /\ \/ UNCHANGED bridgeAddr
              \/ SetupPodBridge(h)
           /\ \A c \in Calls : bridgeAddr[c] # None => bridgeAddr'[c] = bridgeAddr[c]
<1>1. UNCHANGED bridgeAddr \/ SetupPodBridge(h)
  <2> USE DEF linkVars, vars
  <2>1. CASE EitherInit(h)
    BY <2>1 DEF EitherInit, InitPodNetwork, MRSetupPodNetNs, RecordPodIP,
        SetupPodBridgePanics, GetNetNsIP, SetupPodNetNs, SetupPodNetNsFails,
        NetNsLocalhost, NetNsLocalhostFails, LoadSplit, LoadPanics,
        LoadRedirect, AddRoute, PublishRedirect, UpdateOther,
        UpdateOtherPanics, WriteBack, AttachBridge
  <2>2. CASE EitherTun(h) \/ StopPodNetwork(h)
    BY <2>2 DEF EitherTun, CreateVMTun, MRTapMissing, MRAddTap, AddTap, AddTapPanics,
        TapLocalhost, TapLocalhostPanics, StopPodNetwork, DeleteBridge,
        DeleteBridgePanics
  <2>3. ASSUME NEW p \in Pods, Begin(h, p) PROVE UNCHANGED bridgeAddr
    BY <2>3 DEF Begin, BeginInit, BeginVMTun, VMTunFails, DeleteNetNs,
      DeleteNetNsFails
  <2>4. QED
    BY <2>1, <2>2, <2>3 DEF StepOf
<1>2. CASE SetupPodBridge(h)
  <2>1. bridgeAddr[frame[h].podLink] = None
    BY <1>2 DEF SetupPodBridge, IInv, Fresh
  <2>2. QED
    BY <1>2, <2>1 DEF SetupPodBridge, IInv, TypeOK
<1>3. QED
  BY <1>1, <1>2

LEMMA CallsGrow ==
    ASSUME IInv, NEW h \in Handlers, StepOf(h)
    PROVE  calls \in Nat /\ calls' \in Nat /\ calls <= calls'
<1>1. calls \in Nat
  BY PodNetworkAssumption DEF IInv, TypeOK
<1>2. UNCHANGED calls \/ calls' = calls + 1
  <2> USE DEF vars
  <2>1. CASE EitherInit(h)
    BY <2>1 DEF EitherInit, InitPodNetwork, MRSetupPodNetNs, RecordPodIP,
        SetupPodBridge, SetupPodBridgePanics, GetNetNsIP, SetupPodNetNs,
        SetupPodNetNsFails, NetNsLocalhost, NetNsLocalhostFails, LoadSplit,
        LoadPanics, LoadRedirect, AddRoute, PublishRedirect, UpdateOther,
        UpdateOtherPanics, WriteBack, AttachBridge
  <2>2. CASE EitherTun(h) \/ StopPodNetwork(h)
    BY <2>2 DEF EitherTun, CreateVMTun, MRTapMissing, MRAddTap, AddTap, AddTapPanics,
        TapLocalhost, TapLocalhostPanics, StopPodNetwork, DeleteBridge,
        DeleteBridgePanics
  <2>3. ASSUME NEW p \in Pods, Begin(h, p) PROVE UNCHANGED calls \/ calls' = calls + 1
    BY <2>3 DEF Begin, BeginInit, BeginVMTun, VMTunFails, DeleteNetNs,
      DeleteNetNsFails
  <2>4. QED
    BY <2>1, <2>2, <2>3 DEF StepOf
<1>3. QED
  BY <1>1, <1>2

(***************************************************************************)
(* What a step does to the entries: a bridge of its own call, a copy of    *)
(* an entry that was made earlier, or nothing to baseAddr and podBridge.   *)
(***************************************************************************)
SameBridges(p, dev) == /\ podDevices'[p].baseAddr = dev.baseAddr
                       /\ podDevices'[p].podBridge = dev.podBridge

LEMMA EntriesStay ==
    ASSUME IInv, NEW h \in Handlers, StepOf(h), NEW q \in Pods
    PROVE  \/ SameBridges(q, podDevices[q])
           \/ /\ SameBridges(q, frame[h].dev)
              /\ pc[h] \in {"tap", "writeback"}
           \/ /\ SetupPodBridge(h)
              /\ podDevices'[q].baseAddr = frame[h].podIp
              /\ podDevices'[q].podBridge = frame[h].podLink
<1>1. podDevices \in [Pods -> PodDevicesType]
  BY DEF IInv, TypeOK
<1> USE <1>1 DEF vars, goVars, SameBridges
<1>2. CASE /\ podDevices' = podDevices
  BY <1>2
<1>3. CASE SetupPodBridge(h)
  BY <1>3 DEF SetupPodBridge, NoDevices
<1>4. CASE LoadSplit(h) \/ PublishRedirect(h)
  BY <1>4 DEF LoadSplit, PublishRedirect, PodDevicesType
<1>5. CASE AttachBridge(h)
  <2>1. \/ podDevices' = [podDevices EXCEPT ![frame[h].pod].bpfProgLink =
                                                 frame[h].podLink]
        \/ podDevices' = podDevices
    BY <1>5 DEF AttachBridge
  <2>2. QED
    BY <2>1 DEF PodDevicesType
<1>6. CASE NetNsLocalhost(h) \/ TapLocalhost(h)
  <2>1. podDevices' = [podDevices EXCEPT ![frame[h].pod].linksToKeep =
                                             @ \cup {frame[h].subIp}]
    BY <1>6 DEF NetNsLocalhost, TapLocalhost, AddLocalhost
  <2>2. QED
    BY <2>1 DEF PodDevicesType
<1>7. CASE WriteBack(h) \/ AddTap(h) \/ MRAddTap(h)
  BY <1>7 DEF WriteBack, AddTap, MRAddTap
<1>8. CASE EitherInit(h)
  BY <1>2, <1>3, <1>4, <1>5, <1>6, <1>7, <1>8
     DEF EitherInit, InitPodNetwork, MRSetupPodNetNs, RecordPodIP,
         SetupPodBridgePanics, GetNetNsIP, SetupPodNetNs, SetupPodNetNsFails,
         NetNsLocalhostFails, LoadPanics, LoadRedirect, AddRoute, UpdateOther,
         UpdateOtherPanics
<1>9. CASE EitherTun(h) \/ StopPodNetwork(h)
  BY <1>2, <1>6, <1>7, <1>9
     DEF EitherTun, CreateVMTun, MRTapMissing, MRAddTap, AddTapPanics, TapLocalhostPanics,
         StopPodNetwork, DeleteBridge, DeleteBridgePanics
<1>10. ASSUME NEW p \in Pods, Begin(h, p) PROVE podDevices' = podDevices
  BY <1>10 DEF Begin, BeginInit, BeginVMTun, VMTunFails, DeleteNetNs,
      DeleteNetNsFails
<1>11. QED
  BY <1>2, <1>8, <1>9, <1>10 DEF StepOf

LEMMA BridgesStay ==
    ASSUME IInv, NEW h \in Handlers, StepOf(h), NEW q \in Pods, HasBridge(q)
    PROVE  HasBridge(q)'
<1>1. FrameMatches(h)
  BY DEF IInv, FramesMatch
<1>2. SetupPodBridge(h) => frame[h].podLink # None
  BY FrameFacts DEF SetupPodBridge, InitLabels
<1>3. QED
  BY <1>1, <1>2, EntriesStay DEF SameBridges, FrameMatches, HasBridge

(***************************************************************************)
(* An entry, or a copy of one, stays right about its bridge's address.     *)
(***************************************************************************)
LEMMA MatchesStays ==
    ASSUME IInv, NEW h \in Handlers, StepOf(h),
           NEW dev \in PodDevicesType, Matches(dev)
    PROVE  dev.podBridge # None => /\ dev.baseAddr # None
                                   /\ bridgeAddr'[dev.podBridge] = dev.baseAddr
BY BridgeAddressesStay DEF Matches, PodDevicesType, MaybeCall

LEMMA SetupPodBridgeFacts ==
    ASSUME IInv, NEW h \in Handlers, SetupPodBridge(h)
    PROVE  /\ frame[h].pod \in Pods /\ frame[h].podLink \in 1 .. calls
           /\ frame[h].podLink # None
           /\ frame[h].podIp \in PodIPs /\ frame[h].podIp # None
           /\ bridgeAddr'[frame[h].podLink] = frame[h].podIp
           /\ \A c \in Calls \ {frame[h].podLink} : bridgeAddr'[c] = bridgeAddr[c]
<1>1. /\ frame[h] \in FrameType /\ frame[h].pod \in Pods
      /\ frame[h].podLink \in Calls /\ frame[h].podLink # None
  BY FrameFacts DEF SetupPodBridge, InitLabels
<1>2. frame[h].podLink \in 1 .. calls
  BY DEF IInv, FramesMatch, FrameMatches, SetupPodBridge, InitLabels
<1>3. QED
  BY <1>1, <1>2 DEF SetupPodBridge, FrameType, IInv, TypeOK

LEMMA EntriesMatchNext ==
    ASSUME IInv, NEW h \in Handlers, StepOf(h), NEW q \in Pods
    PROVE  Matches(podDevices[q])'
<1>1. podDevices[q] \in PodDevicesType /\ Matches(podDevices[q])
  BY DEF IInv, TypeOK, EntriesMatch
<1>2. frame[h].dev \in PodDevicesType /\ Matches(frame[h].dev)
  BY FrameFacts DEF IInv, EntriesMatch
<1>3. CASE SameBridges(q, podDevices[q])
  BY <1>1, <1>3, MatchesStays DEF SameBridges, Matches
<1>4. CASE SameBridges(q, frame[h].dev)
  BY <1>2, <1>4, MatchesStays DEF SameBridges, Matches
<1>5. CASE /\ SetupPodBridge(h)
           /\ podDevices'[q].baseAddr = frame[h].podIp
           /\ podDevices'[q].podBridge = frame[h].podLink
  BY <1>5, SetupPodBridgeFacts DEF Matches
<1>6. QED
  BY <1>3, <1>4, <1>5, EntriesStay

(***************************************************************************)
(* The handler's own frame after its step.                                 *)
(***************************************************************************)
OwnFrame(h) ==
    /\ FrameMatches(h)
    /\ Matches(frame[h].dev)
    /\ pc[h] \in {"record", "bridge"} => bridgeAddr[frame[h].podLink] = None

SameCall(h) == /\ pc[h] \in InitLabels
               /\ frame'[h].podLink = frame[h].podLink

NewCall(h) == /\ frame'[h].podLink = calls + 1
              /\ calls' = calls + 1

LEMMA IdleFrame ==
    ASSUME NEW h \in Handlers, pc'[h] = "idle", frame'[h] = NoFrame
    PROVE  OwnFrame(h)' /\ ~(pc'[h] \in InitLabels)
BY DEF OwnFrame, FrameMatches, Matches, NoFrame, NoDevices, InitLabels, Running

LEMMA ReturnFrame ==
    ASSUME IInv, NEW h \in Handlers, NEW result, Return(h, result)
    PROVE  OwnFrame(h)' /\ ~(pc'[h] \in InitLabels)
<1>1. pc'[h] = "idle" /\ frame'[h] = NoFrame
  BY DEF Return, Call, Goto, IInv, TypeOK
<1>2. QED
  BY <1>1, IdleFrame

(***************************************************************************)
(* A step within InitPodNetwork, once the bridge has its address.          *)
(***************************************************************************)
LEMMA RunningFrame ==
    ASSUME IInv, NEW h \in Handlers, StepOf(h), pc[h] \in Running,
           pc'[h] \in Running, frame'[h].pod = frame[h].pod,
           frame'[h].podLink = frame[h].podLink, frame'[h].podIp = frame[h].podIp,
           pc'[h] = "writeback" => /\ frame'[h].target \in Pods
                                   /\ frame'[h].dev.podBridge # None,
           \A q \in frame'[h].todo : q \in Pods /\ HasBridge(q),
           frame'[h].dev \in PodDevicesType, Matches(frame'[h].dev)
    PROVE  OwnFrame(h)' /\ SameCall(h)
<1>1. FrameMatches(h)
  BY DEF IInv, FramesMatch
<1>2. /\ frame[h].pod \in Pods /\ frame[h].podLink \in Calls
      /\ HasBridge(frame[h].pod) /\ frame[h].podLink \in 1 .. calls
      /\ frame[h].podIp # None /\ bridgeAddr[frame[h].podLink] = frame[h].podIp
  BY <1>1, FrameFacts DEF FrameMatches, Running, InitLabels
<1>3. bridgeAddr'[frame[h].podLink] = frame[h].podIp
  BY <1>2, BridgeAddressesStay
<1>4. HasBridge(frame[h].pod)' /\ \A q \in frame'[h].todo : HasBridge(q)'
  BY <1>2, BridgesStay
<1>5. frame'[h].podLink \in 1 .. calls'
  BY <1>2, CallsGrow
<1>6. pc'[h] # "tap" /\ pc'[h] \notin {"record", "bridge"}
  BY DEF Running
<1>7. podDevices'[frame'[h].pod].podBridge # None
  BY <1>4 DEF HasBridge
<1>8. FrameMatches(h)'
  BY <1>2, <1>3, <1>4, <1>5, <1>6, <1>7 DEF FrameMatches, HasBridge
<1>9. Matches(frame[h].dev)'
  BY MatchesStays DEF Matches
<1>10. QED
  BY <1>6, <1>8, <1>9 DEF OwnFrame, SameCall, InitLabels

LEMMA InitPodNetworkFrame ==
    ASSUME IInv, NEW h \in Handlers, EitherInit(h)
    PROVE  OwnFrame(h)' /\ (pc'[h] \in InitLabels => SameCall(h))
<1> DEFINE p == frame[h].pod
           c == frame[h].podLink
<1>1. /\ pc \in [Handlers -> Labels] /\ frame \in [Handlers -> FrameType]
      /\ podDevices \in [Pods -> PodDevicesType]
  BY DEF IInv, TypeOK
<1>2. /\ frame[h] \in FrameType /\ frame[h].dev \in PodDevicesType
      /\ frame[h].todo \subseteq Pods
      /\ pc[h] # "idle" => p \in Pods
  BY FrameFacts
<1>3. StepOf(h) /\ FrameMatches(h) /\ Matches(frame[h].dev)
  BY DEF StepOf, IInv, FramesMatch, EntriesMatch
<1>4. \A q \in frame[h].todo : q \in Pods /\ HasBridge(q)
  BY <1>2, <1>3 DEF FrameMatches
<1>5. \A q \in Others(c) : q \in Pods /\ HasBridge(q)
  BY DEF Others, HasBridge
<1>6. CASE RecordPodIP(h)
  <2>1. pc'[h] = "bridge" /\ \E a : frame'[h] = [frame[h] EXCEPT !.podIp = a]
    BY <1>1, <1>6 DEF RecordPodIP, Call, Goto
  <2>2. /\ frame'[h].pod = p /\ frame'[h].podLink = c /\ frame'[h].dev = frame[h].dev
        /\ frame'[h].todo = frame[h].todo
    BY <1>2, <2>1 DEF FrameType
  <2>3. UNCHANGED <<podDevices, bridgeAddr, calls>>
    BY <1>6 DEF RecordPodIP, goVars, linkVars
  <2>4. bridgeAddr[c] = None
    BY <1>6 DEF RecordPodIP, IInv, Fresh
  <2>5. FrameMatches(h)'
    BY <1>2, <1>3, <1>6, <2>1, <2>2, <2>3
       DEF RecordPodIP, FrameMatches, InitLabels, Running, HasBridge
  <2>6. QED
    BY <1>3, <1>6, <2>1, <2>2, <2>3, <2>4, <2>5
       DEF RecordPodIP, OwnFrame, SameCall, Matches, InitLabels
<1>7. CASE SetupPodBridge(h)
  <2>1. pc'[h] = "netns" /\ frame' = frame /\ calls' = calls
    BY <1>1, <1>7 DEF SetupPodBridge, Goto
  <2>2. podDevices'[p].podBridge = c
    BY <1>1, <1>2, <1>7 DEF SetupPodBridge, NoDevices
  <2>3. \A q \in frame[h].todo : HasBridge(q)'
    BY <1>3, <1>4, BridgesStay
  <2>4. /\ p \in Pods /\ c \in 1 .. calls /\ c # None /\ frame[h].podIp # None
        /\ bridgeAddr'[c] = frame[h].podIp
    BY <1>7, SetupPodBridgeFacts
  <2>5. FrameMatches(h)'
    BY <2>1, <2>2, <2>3, <2>4 DEF FrameMatches, InitLabels, Running, HasBridge
  <2>6. Matches(frame[h].dev)'
    BY <1>2, <1>3, <2>1, MatchesStays DEF Matches
  <2>7. QED
    BY <1>7, <2>1, <2>5, <2>6 DEF OwnFrame, SameCall, SetupPodBridge, InitLabels
<1>8. CASE \E result : Return(h, result)
  BY <1>8, ReturnFrame
<1>9. CASE GetNetNsIP(h)
  <2>1. CASE Call(h, "addns", [frame[h] EXCEPT !.subIp = getNextSubPodIP(podDevices[p])])
    <3>1. /\ pc'[h] = "addns"
          /\ frame'[h] = [frame[h] EXCEPT !.subIp = getNextSubPodIP(podDevices[p])]
      BY <1>1, <2>1 DEF Call, Goto
    <3>2. /\ frame'[h].pod = p /\ frame'[h].podLink = c
          /\ frame'[h].podIp = frame[h].podIp /\ frame'[h].dev = frame[h].dev
          /\ frame'[h].todo = frame[h].todo
      BY <1>2, <3>1 DEF FrameType
    <3>3. QED
      BY <1>2, <1>3, <1>4, <1>9, <3>1, <3>2, RunningFrame DEF GetNetNsIP, Running
  <2>2. QED
    BY <1>8, <1>9, <2>1 DEF GetNetNsIP
<1>10. CASE \/ SetupPodNetNs(h) \/ MRSetupPodNetNs(h)
           \/ NetNsLocalhost(h) \/ LoadSplit(h)
  <2>1. frame' = frame /\ pc[h] \in Running /\ pc'[h] \in Running \ {"writeback"}
    BY <1>1, <1>10
       DEF SetupPodNetNs, MRSetupPodNetNs, NetNsLocalhost, LoadSplit, Goto, Running
  <2>2. QED
    BY <1>2, <1>3, <1>4, <2>1, RunningFrame
<1>11. CASE LoadRedirect(h) \/ PublishRedirect(h)
  <2>1. /\ frame'[h] = [frame[h] EXCEPT !.todo = Others(c)]
        /\ pc[h] \in Running /\ pc'[h] \in Running \ {"writeback"}
    BY <1>1, <1>11 DEF LoadRedirect, PublishRedirect, Call, Goto, Running
  <2>2. /\ frame'[h].pod = p /\ frame'[h].podLink = c
        /\ frame'[h].podIp = frame[h].podIp /\ frame'[h].dev = frame[h].dev
        /\ frame'[h].todo = Others(c)
    BY <1>2, <2>1 DEF FrameType
  <2>3. QED
    BY <1>2, <1>3, <1>5, <2>1, <2>2, RunningFrame
<1>12. CASE AddRoute(h)
  <2>1. PICK q \in frame[h].todo : frame' = [frame EXCEPT ![h].todo = @ \ {q}]
    BY <1>12 DEF AddRoute
  <2>2. /\ frame'[h] = [frame[h] EXCEPT !.todo = @ \ {q}]
        /\ pc[h] \in Running /\ pc'[h] \in Running \ {"writeback"}
    BY <1>1, <1>12, <2>1 DEF AddRoute, Running
  <2>3. /\ frame'[h].pod = p /\ frame'[h].podLink = c
        /\ frame'[h].podIp = frame[h].podIp /\ frame'[h].dev = frame[h].dev
        /\ frame'[h].todo = frame[h].todo \ {q}
    BY <1>2, <2>2 DEF FrameType
  <2>4. QED
    BY <1>2, <1>3, <1>4, <2>2, <2>3, RunningFrame
<1>13. CASE UpdateOther(h)
  <2>1. PICK q \in frame[h].todo :
            Call(h, "writeback", [frame[h] EXCEPT !.target = q, !.dev = podDevices[q],
                                                  !.todo = @ \ {q}])
    BY <1>13 DEF UpdateOther
  <2>2. /\ frame'[h] = [frame[h] EXCEPT !.target = q, !.dev = podDevices[q],
                                        !.todo = @ \ {q}]
        /\ pc[h] \in Running /\ pc'[h] \in Running
    BY <1>1, <1>13, <2>1 DEF UpdateOther, Call, Goto, Running
  <2>3. /\ frame'[h].pod = p /\ frame'[h].podLink = c
        /\ frame'[h].podIp = frame[h].podIp /\ frame'[h].dev = podDevices[q]
        /\ frame'[h].todo = frame[h].todo \ {q} /\ frame'[h].target = q
    BY <1>2, <2>2 DEF FrameType
  <2>4. /\ q \in Pods /\ podDevices[q].podBridge # None
        /\ podDevices[q] \in PodDevicesType /\ Matches(podDevices[q])
    BY <1>1, <1>4 DEF HasBridge, IInv, EntriesMatch
  <2>5. QED
    BY <1>2, <1>3, <1>4, <2>2, <2>3, <2>4, RunningFrame
<1>14. CASE WriteBack(h)
  <2>1. /\ frame'[h] = [frame[h] EXCEPT !.target = Nobody, !.dev = NoDevices]
        /\ pc[h] \in Running /\ pc'[h] \in Running \ {"writeback"}
    BY <1>1, <1>14 DEF WriteBack, Call, Goto, Running
  <2>2. /\ frame'[h].pod = p /\ frame'[h].podLink = c
        /\ frame'[h].podIp = frame[h].podIp /\ frame'[h].dev = NoDevices
        /\ frame'[h].todo = frame[h].todo
    BY <1>2, <2>1 DEF FrameType
  <2>3. NoDevices \in PodDevicesType /\ Matches(NoDevices)
    BY NoFrameType DEF Matches, NoDevices
  <2>4. QED
    BY <1>2, <1>3, <1>4, <2>1, <2>2, <2>3, RunningFrame
<1>15. QED
  BY <1>6, <1>7, <1>8, <1>9, <1>10, <1>11, <1>12, <1>13, <1>14
     DEF EitherInit, InitPodNetwork, MRSetupPodNetNs, SetupPodBridgePanics,
         SetupPodNetNsFails, NetNsLocalhostFails, LoadPanics,
         UpdateOtherPanics, AttachBridge

LEMMA CreateVMTunFrame ==
    ASSUME IInv, NEW h \in Handlers, EitherTun(h)
    PROVE  OwnFrame(h)' /\ ~(pc'[h] \in InitLabels)
<1>1. /\ pc \in [Handlers -> Labels] /\ frame \in [Handlers -> FrameType]
      /\ podDevices \in [Pods -> PodDevicesType]
  BY DEF IInv, TypeOK
<1>2. StepOf(h) /\ FrameMatches(h) /\ Matches(frame[h].dev)
  BY DEF StepOf, IInv, FramesMatch, EntriesMatch
<1>3. frame[h].dev \in PodDevicesType /\ frame[h].todo \subseteq Pods
  BY FrameFacts
<1>4. CASE AddTap(h)
  <2>1. pc'[h] = "taplocalhost" /\ frame' = frame /\ frame[h].pod \in Pods
    BY <1>1, <1>2, <1>4 DEF AddTap, Goto, FrameMatches
  <2>2. podDevices'[frame[h].pod].podBridge # None
    BY <1>1, <1>2, <1>4, <2>1 DEF AddTap, FrameMatches
  <2>3. \A q \in frame[h].todo : HasBridge(q)'
    BY <1>2, <1>3, BridgesStay DEF FrameMatches
  <2>4. FrameMatches(h)'
    BY <2>1, <2>2, <2>3 DEF FrameMatches, InitLabels, Running, HasBridge
  <2>5. Matches(frame[h].dev)'
    BY <1>2, <1>3, <2>1, MatchesStays DEF Matches
  <2>6. QED
    BY <2>1, <2>4, <2>5 DEF OwnFrame, InitLabels, Running
<1>5. CASE TapLocalhost(h) \/ MRAddTap(h) \/ MRTapMissing(h)
  BY <1>1, <1>5, IdleFrame DEF TapLocalhost, MRAddTap, MRTapMissing, Call, Goto
<1>6. CASE AddTapPanics(h) \/ TapLocalhostPanics(h)
  BY <1>6, ReturnFrame DEF AddTapPanics, TapLocalhostPanics
<1>7. QED
  BY <1>4, <1>5, <1>6 DEF EitherTun, CreateVMTun

LEMMA BeginFrame ==
    ASSUME IInv, NEW h \in Handlers, NEW p \in Pods, Begin(h, p)
    PROVE  OwnFrame(h)' /\ (pc'[h] \in InitLabels => SameCall(h) \/ NewCall(h))
<1>1. /\ pc \in [Handlers -> Labels] /\ frame \in [Handlers -> FrameType]
      /\ podDevices \in [Pods -> PodDevicesType] /\ calls \in 0 .. MaxCalls
      /\ bridgeAddr \in [Calls -> PodIPs \cup {None}]
  BY DEF IInv, TypeOK
<1>2. OwnFrame(h)
  BY DEF OwnFrame, IInv, FramesMatch, EntriesMatch, Fresh
<1>3. CASE BeginInit(h, p)
  <2>1. /\ pc'[h] = "record" /\ frame'[h] = [NoFrame EXCEPT !.pod = p, !.podLink = calls']
        /\ calls' = calls + 1 /\ calls < MaxCalls /\ UNCHANGED bridgeAddr
    BY <1>1, <1>3 DEF BeginInit, Call, Goto, linkVars
  <2>2. /\ frame'[h].pod = p /\ frame'[h].podLink = calls + 1
        /\ frame'[h].dev = NoDevices /\ frame'[h].todo = {}
    BY <2>1 DEF NoFrame
  <2>3. calls + 1 \in 1 .. calls' /\ calls + 1 \in Calls /\ calls + 1 > calls
    BY <1>1, <2>1, PodNetworkAssumption DEF Calls
  <2>4. bridgeAddr'[calls + 1] = None
    BY <2>1, <2>3 DEF IInv, Fresh
  <2>5. FrameMatches(h)'
    BY <2>1, <2>2, <2>3 DEF FrameMatches, Running
  <2>6. QED
    BY <2>1, <2>2, <2>4, <2>5 DEF OwnFrame, Matches, NoDevices, NewCall
<1>4. CASE BeginVMTun(h, p)
  <2>1. /\ pc'[h] = "tap"
        /\ frame'[h] = [NoFrame EXCEPT !.pod = p, !.dev = podDevices[p],
                                       !.subIp = getNextSubPodIP(podDevices[p])]
        /\ UNCHANGED bridgeAddr
    BY <1>1, <1>4 DEF BeginVMTun, Call, Goto, linkVars
  <2>2. frame'[h].pod = p /\ frame'[h].dev = podDevices[p] /\ frame'[h].todo = {}
    BY <2>1 DEF NoFrame
  <2>3. podDevices[p].podBridge # None /\ Matches(podDevices[p])
    BY <1>4 DEF BeginVMTun, IInv, OutcomesMatch, EntriesMatch, HasBridge
  <2>4. FrameMatches(h)'
    BY <2>1, <2>2, <2>3 DEF FrameMatches, InitLabels, Running
  <2>5. QED
    BY <2>1, <2>2, <2>3, <2>4 DEF OwnFrame, Matches, InitLabels, Running
<1>5. CASE DeleteNetNs(h, p)
  <2>1. pc'[h] = "linkdel" /\ frame'[h] = [NoFrame EXCEPT !.pod = p]
    BY <1>1, <1>5 DEF DeleteNetNs, Call, Goto
  <2>2. frame'[h].pod = p /\ frame'[h].dev = NoDevices /\ frame'[h].todo = {}
    BY <2>1 DEF NoFrame
  <2>3. FrameMatches(h)'
    BY <2>1, <2>2 DEF FrameMatches, InitLabels, Running
  <2>4. QED
    BY <2>1, <2>2, <2>3 DEF OwnFrame, Matches, NoDevices, InitLabels, Running
<1>6. CASE UNCHANGED vars
  BY <1>2, <1>6
     DEF vars, goVars, linkVars, OwnFrame, FrameMatches, Matches, HasBridge, SameCall
<1>7. QED
  BY <1>3, <1>4, <1>5, <1>6 DEF Begin, VMTunFails, DeleteNetNsFails

LEMMA StepFrame ==
    ASSUME IInv, NEW h \in Handlers, StepOf(h)
    PROVE  OwnFrame(h)' /\ (pc'[h] \in InitLabels => SameCall(h) \/ NewCall(h))
<1>1. CASE StopPodNetwork(h)
  BY <1>1, ReturnFrame DEF StopPodNetwork, DeleteBridge, DeleteBridgePanics
<1>2. QED
  BY <1>1, InitPodNetworkFrame, CreateVMTunFrame, BeginFrame DEF StepOf

LEMMA OtherFrames ==
    ASSUME IInv, NEW h \in Handlers, StepOf(h), NEW g \in Handlers \ {h}
    PROVE  OwnFrame(g)'
<1>1. /\ FrameMatches(g) /\ Matches(frame[g].dev)
      /\ pc'[g] = pc[g] /\ frame'[g] = frame[g]
  BY OthersStay DEF IInv, FramesMatch, EntriesMatch
<1>2. /\ frame[g].dev \in PodDevicesType /\ frame[g].todo \subseteq Pods
      /\ pc[g] # "idle" => frame[g].pod \in Pods
      /\ pc[g] \in InitLabels => frame[g].podLink \in Calls
  BY FrameFacts
<1>3. FrameMatches(g)'
  <2>1. pc[g] \in InitLabels => frame[g].podLink \in 1 .. calls'
    BY <1>1, CallsGrow DEF FrameMatches
  <2>2. pc[g] \in Running => bridgeAddr'[frame[g].podLink] = frame[g].podIp
    BY <1>1, <1>2, BridgeAddressesStay DEF FrameMatches, InitLabels
  <2>3. pc[g] \in Running \cup {"taplocalhost"} => HasBridge(frame[g].pod)'
    BY <1>1, <1>2, BridgesStay DEF FrameMatches, Running
  <2>4. \A q \in frame[g].todo : HasBridge(q)'
    BY <1>1, <1>2, BridgesStay DEF FrameMatches
  <2>5. QED
    BY <1>1, <2>1, <2>2, <2>3, <2>4 DEF FrameMatches, HasBridge
<1>4. Matches(frame[g].dev)'
  BY <1>1, <1>2, MatchesStays DEF Matches
<1>5. ASSUME pc[g] \in {"record", "bridge"}
      PROVE  bridgeAddr'[frame[g].podLink] = None
  <2>1. bridgeAddr[frame[g].podLink] = None
    BY <1>5 DEF IInv, Fresh
  <2>2. CASE SetupPodBridge(h)
    <3>1. frame[g].podLink # frame[h].podLink
      BY <1>5, <2>2 DEF IInv, Fresh, SetupPodBridge, InitLabels
    <3>2. QED
      BY <1>2, <1>5, <2>1, <2>2, <3>1, SetupPodBridgeFacts DEF InitLabels
  <2>3. QED
    BY <2>1, <2>2, BridgeAddressesStay
<1>6. QED
  BY <1>1, <1>3, <1>4, <1>5 DEF OwnFrame

LEMMA FreshNext ==
    ASSUME IInv, NEW h \in Handlers, StepOf(h)
    PROVE  Fresh'
<1>1. \A g \in Handlers : OwnFrame(g)'
  BY StepFrame, OtherFrames
<1>2. ASSUME NEW g \in Handlers \ {h}, pc'[g] \in InitLabels, pc'[h] \in InitLabels
      PROVE  frame'[g].podLink # frame'[h].podLink
  <2>1. pc[g] \in InitLabels /\ frame'[g].podLink = frame[g].podLink
    BY <1>2, OthersStay
  <2>2. CASE SameCall(h)
    BY <2>1, <2>2 DEF SameCall, IInv, Fresh
  <2>3. CASE NewCall(h)
    BY <2>1, <2>3, CallsGrow DEF NewCall, IInv, FramesMatch, FrameMatches
  <2>4. QED
    BY <1>2, <2>2, <2>3, StepFrame
<1>3. ASSUME NEW f \in Handlers, NEW g \in Handlers, f # g,
             pc'[f] \in InitLabels, pc'[g] \in InitLabels
      PROVE  frame'[f].podLink # frame'[g].podLink
  <2>1. CASE f = h \/ g = h
    BY <1>2, <1>3, <2>1
  <2>2. CASE f # h /\ g # h
    BY <1>3, <2>2, OthersStay DEF IInv, Fresh
  <2>3. QED
    BY <2>1, <2>2
<1>4. ASSUME NEW c \in Calls, c > calls'
      PROVE  bridgeAddr'[c] = None
  <2>1. c > calls
    BY <1>4, CallsGrow DEF Calls
  <2>2. bridgeAddr[c] = None
    BY <2>1 DEF IInv, Fresh
  <2>3. CASE SetupPodBridge(h)
    BY <2>1, <2>2, <2>3, SetupPodBridgeFacts, CallsGrow DEF Calls
  <2>4. QED
    BY <2>2, <2>3, BridgeAddressesStay
<1>5. QED
  BY <1>1, <1>3, <1>4 DEF OwnFrame, Fresh

-----------------------------------------------------------------------------
(***************************************************************************)
(* A pod whose network operation ended with "up" or "failed" has a bridge. *)
(***************************************************************************)
LEMMA OutcomesMatchNext ==
    ASSUME IInv, NEW h \in Handlers, StepOf(h)
    PROVE  OutcomesMatch'
<1> SUFFICES ASSUME NEW q \in Pods, outcome'[q] \in {"up", "failed"}
             PROVE  HasBridge(q)'
  BY DEF OutcomesMatch
<1>1. CASE outcome[q] \in {"up", "failed"}
  BY <1>1, BridgesStay DEF IInv, OutcomesMatch
<1>2. CASE outcome[q] \notin {"up", "failed"}
  <2>1. q = frame[h].pod /\ pc[h] \in Running
    <3> USE DEF IInv, TypeOK, Return, Running, vars
    <3>1. CASE EitherInit(h)
      BY <1>2, <3>1 DEF EitherInit, InitPodNetwork, MRSetupPodNetNs,
          RecordPodIP, SetupPodBridge, SetupPodBridgePanics, GetNetNsIP,
          SetupPodNetNs, SetupPodNetNsFails, NetNsLocalhost,
          NetNsLocalhostFails, LoadSplit, LoadPanics, LoadRedirect, AddRoute,
          PublishRedirect, UpdateOther, UpdateOtherPanics, WriteBack,
          AttachBridge
    <3>2. CASE EitherTun(h) \/ StopPodNetwork(h)
      BY <1>2, <3>2 DEF EitherTun, CreateVMTun, MRTapMissing, MRAddTap, AddTap, AddTapPanics,
          TapLocalhost, TapLocalhostPanics, StopPodNetwork, DeleteBridge,
          DeleteBridgePanics
    <3>3. ASSUME NEW p \in Pods, Begin(h, p) PROVE FALSE
      BY <1>2, <3>3 DEF Begin, BeginInit, BeginVMTun, VMTunFails, DeleteNetNs,
        DeleteNetNsFails
    <3>4. QED
      BY <3>1, <3>2, <3>3 DEF StepOf
  <2>2. HasBridge(q)
    BY <2>1 DEF IInv, FramesMatch, FrameMatches
  <2>3. QED
    BY <2>2, BridgesStay
<1>3. QED
  BY <1>1, <1>2

(***************************************************************************)
(* Routes: AddRoute takes address and bridge from one entry, UpdateOther   *)
(* from one call; bridges keep their addresses.                            *)
(***************************************************************************)
LEMMA RoutesNext ==
    ASSUME IInv, NEW h \in Handlers, StepOf(h)
    PROVE  RoutesMatchBridges'
<1> SUFFICES ASSUME NEW c \in Calls, NEW a \in PodIPs, redirectMap'[c][a] # None
             PROVE  bridgeAddr'[redirectMap'[c][a]] = a
  BY DEF RoutesMatchBridges
<1>1. redirectMap \in [Calls -> [PodIPs -> MaybeCall]] /\ a # None
  BY PodIPsPositive DEF IInv, TypeOK
<1>2. CASE redirectMap'[c][a] = redirectMap[c][a]
  <2>1. bridgeAddr[redirectMap[c][a]] = a /\ redirectMap[c][a] \in Calls
    BY <1>1, <1>2 DEF IInv, RoutesMatchBridges, MaybeCall
  <2>2. QED
    BY <1>1, <1>2, <2>1, BridgeAddressesStay
<1>3. CASE AddRoute(h) /\ redirectMap'[c][a] # redirectMap[c][a]
  <2>1. PICK q \in frame[h].todo :
            redirectMap' = [redirectMap EXCEPT
                ![frame[h].podLink][podDevices[q].baseAddr] = podDevices[q].podBridge]
    BY <1>3 DEF AddRoute
  <2>2. q \in Pods /\ podDevices[q] \in PodDevicesType /\ Matches(podDevices[q])
    BY FrameFacts DEF IInv, TypeOK, EntriesMatch
  <2>3. a = podDevices[q].baseAddr /\ redirectMap'[c][a] = podDevices[q].podBridge
    BY <1>1, <1>3, <2>1
  <2>4. QED
    BY <2>2, <2>3, MatchesStays
<1>4. CASE UpdateOther(h) /\ redirectMap'[c][a] # redirectMap[c][a]
  <2>1. PICK q \in frame[h].todo :
            redirectMap' = [redirectMap EXCEPT
                ![podDevices[q].fromSubpodBpfMap][frame[h].podIp] = frame[h].podLink]
    BY <1>4 DEF UpdateOther
  <2>2. a = frame[h].podIp /\ redirectMap'[c][a] = frame[h].podLink
    BY <1>1, <1>4, <2>1
  <2>3. bridgeAddr[frame[h].podLink] = frame[h].podIp /\ frame[h].podLink \in Calls
    BY <1>4, FrameFacts
       DEF UpdateOther, IInv, FramesMatch, FrameMatches, Running, InitLabels
  <2>4. QED
    BY <1>1, <2>2, <2>3, BridgeAddressesStay
<1>5. AddRoute(h) \/ UpdateOther(h) \/ UNCHANGED redirectMap
  <2> USE DEF bpfVars, vars
  <2>1. CASE EitherInit(h)
    BY <2>1 DEF EitherInit, InitPodNetwork, MRSetupPodNetNs, RecordPodIP,
        SetupPodBridge, SetupPodBridgePanics, GetNetNsIP, SetupPodNetNs,
        SetupPodNetNsFails, NetNsLocalhost, NetNsLocalhostFails, LoadSplit,
        LoadPanics, LoadRedirect, PublishRedirect, UpdateOtherPanics,
        WriteBack, AttachBridge
  <2>2. CASE EitherTun(h) \/ StopPodNetwork(h)
    BY <2>2 DEF EitherTun, CreateVMTun, MRTapMissing, MRAddTap, AddTap, AddTapPanics,
        TapLocalhost, TapLocalhostPanics, StopPodNetwork, DeleteBridge,
        DeleteBridgePanics
  <2>3. ASSUME NEW p \in Pods, Begin(h, p) PROVE UNCHANGED redirectMap
    BY <2>3 DEF Begin, BeginInit, BeginVMTun, VMTunFails, DeleteNetNs,
      DeleteNetNsFails
  <2>4. QED
    BY <2>1, <2>2, <2>3 DEF StepOf
<1>6. QED
  BY <1>2, <1>3, <1>4, <1>5

-----------------------------------------------------------------------------
LEMMA NextIInv == IInv /\ [EitherNext]_vars => IInv'
<1> SUFFICES ASSUME IInv, [EitherNext]_vars PROVE IInv'
  OBVIOUS
<1>1. TypeOK' /\ MapsFinite'
  BY NextTypeOK
<1>2. ASSUME NEW h \in Handlers, StepOf(h)
      PROVE  IInv'
  <2>1. \A g \in Handlers : OwnFrame(g)'
    BY <1>2, StepFrame, OtherFrames
  <2>2. FramesMatch'
    BY <2>1 DEF FramesMatch, OwnFrame
  <2>3. EntriesMatch'
    BY <1>2, <2>1, EntriesMatchNext DEF EntriesMatch, OwnFrame
  <2>4. Fresh' /\ OutcomesMatch' /\ RoutesMatchBridges'
    BY <1>2, FreshNext, OutcomesMatchNext, RoutesNext
  <2>5. QED
    BY <1>1, <2>2, <2>3, <2>4 DEF IInv
<1>3. CASE UNCHANGED vars
  <2> USE <1>3 DEF vars, goVars, linkVars, bpfVars, IInv
  <2>1. FramesMatch'
    BY DEF FramesMatch, FrameMatches, HasBridge
  <2>2. EntriesMatch'
    BY DEF EntriesMatch, Matches
  <2>3. Fresh'
    BY DEF Fresh
  <2>4. OutcomesMatch' /\ RoutesMatchBridges'
    BY DEF OutcomesMatch, HasBridge, RoutesMatchBridges
  <2>5. QED
    BY <1>1, <2>1, <2>2, <2>3, <2>4
<1>4. QED
  BY <1>2, <1>3 DEF EitherNext

LEMMA StepIInv == /\ IInv /\ [Next]_vars => IInv'
                  /\ IInv /\ [ManagersNext]_<<vars, networkMode>> => IInv'
<1>1. [Next]_vars => [EitherNext]_vars
  BY ManagersAgree
<1>2. [ManagersNext]_<<vars, networkMode>> => [EitherNext]_vars
  BY ManagersAgree DEF ManagersNext
<1>3. QED
  BY <1>1, <1>2, NextIInv

(***************************************************************************)
(* The manager's and the kernel's state is well formed, however many       *)
(* handlers run and whatever fails.                                        *)
(***************************************************************************)
THEOREM TypeCorrect == (Spec => []TypeOK) /\ (ManagersSpec => []TypeOK)
<1>1. IInv => TypeOK
  BY DEF IInv
<1>2. Spec => []TypeOK
  BY InitIInv, StepIInv, <1>1, PTL DEF Spec
<1>3. ManagersSpec => []TypeOK
  BY InitIInv, StepIInv, <1>1, PTL DEF ManagersSpec, ManagersInit
<1>4. QED
  BY <1>2, <1>3

(***************************************************************************)
(* initFromSubpodRouting and updateSubpodRouting never write a route that  *)
(* leads to a bridge with another address, however calls interleave.       *)
(***************************************************************************)
THEOREM RoutesCorrect ==
    (Spec => []RoutesMatchBridges) /\ (ManagersSpec => []RoutesMatchBridges)
<1>1. IInv => RoutesMatchBridges
  BY DEF IInv
<1>2. Spec => []RoutesMatchBridges
  BY InitIInv, StepIInv, <1>1, PTL DEF Spec
<1>3. ManagersSpec => []RoutesMatchBridges
  BY InitIInv, StepIInv, <1>1, PTL DEF ManagersSpec, ManagersInit
<1>4. QED
  BY <1>2, <1>3

-----------------------------------------------------------------------------
(***************************************************************************)
(* RequestPodIP without a lock.  Two requests for one block have both      *)
(* found it free, the later one before the earlier one recorded it: they   *)
(* were in flight together.  The invariant says it of the requests still   *)
(* in flight too (Racing, RacingHolder): the block a request is about to   *)
(* record was free when it was found, so whoever holds it by now recorded  *)
(* it while that request was in flight.                                    *)
(***************************************************************************)
HeldNoted == \A g \in held : usedPodAddresses[g[2]] # Nobody

Racing == \A g, h \in Handlers :
              g # h /\ pending[g] # Idle /\ pending[h] # Idle =>
                  {pending[g].pod, pending[h].pod} \in overlapped

RacingHolder == \A h \in Handlers, g \in held :
                    pending[h] # Idle /\ pending[h].free = g[2] =>
                        {pending[h].pod, g[1]} \in overlapped

SharedBase == \A g, h \in held : g # h /\ g[2] = h[2] => {g[1], h[1]} \in overlapped

RaceInv == Addresses!TypeOK /\ HeldNoted /\ Racing /\ RacingHolder /\ SharedBase

(***************************************************************************)
(* Addresses of pods are at least a block apart, so that the blocks of     *)
(* different addresses have nothing in common.                             *)
(***************************************************************************)
LEMMA BlocksApart ==
    ASSUME NEW f \in PodIPs, NEW g \in PodIPs, f < g
    PROVE  f + IPsPerPod <= g
<1>0. f \in Addresses!FreeIPs /\ g \in Addresses!FreeIPs
  BY FreeIPsArePodIPs
<1>1. PICK i \in 0 .. SubnetSize : f = FirstFree + i * IPsPerPod
  BY <1>0 DEF Addresses!FreeIPs
<1>2. PICK j \in 0 .. SubnetSize : g = FirstFree + j * IPsPerPod
  BY <1>0 DEF Addresses!FreeIPs
<1>3. i \in Int /\ j \in Int /\ IPsPerPod \in Int /\ IPsPerPod > 0 /\ FirstFree \in Int
  BY PodNetworkAssumption
<1>4. i * IPsPerPod < j * IPsPerPod /\ i * IPsPerPod \in Int /\ j * IPsPerPod \in Int
  BY <1>1, <1>2, <1>3
<1>5. i < j
  <2>1. SUFFICES ASSUME j <= i PROVE FALSE
    BY <1>3
  <2>2. j * IPsPerPod <= i * IPsPerPod
    BY <2>1, <1>3
  <2>3. QED
    BY <2>2, <1>4
<1>6. (i + 1) * IPsPerPod <= j * IPsPerPod
  BY <1>3, <1>5
<1>7. (i + 1) * IPsPerPod = i * IPsPerPod + IPsPerPod
  BY <1>3
<1>8. QED
  BY <1>1, <1>2, <1>3, <1>4, <1>6, <1>7

LEMMA BlocksDisjoint ==
    ASSUME NEW f \in PodIPs, NEW g \in PodIPs, f # g
    PROVE  Addresses!Block(f) \cap Addresses!Block(g) = {}
<1>1. f \in Int /\ g \in Int /\ IPsPerPod \in Int
  BY PodIPsPositive, PodNetworkAssumption
<1>2. f + IPsPerPod <= g \/ g + IPsPerPod <= f
  BY <1>1, BlocksApart
<1>3. QED
  BY <1>1, <1>2 DEF Addresses!Block

(***************************************************************************)
(* The steps that touch the address manager.                               *)
(***************************************************************************)
LEMMA AddressSteps ==
    ASSUME Next
    PROVE  \/ \E h \in Handlers, p \in Pods : Addresses!FindFreeIP(h, p)
           \/ \E h \in Handlers : Addresses!RecordIP(h)
           \/ UNCHANGED addressVars
<1>1. PICK h \in Handlers : StepOf(h)
  BY ManagersAgree DEF EitherNext
<1> USE DEF addressVars, vars
<1>2. CASE EitherInit(h)
  BY <1>2 DEF EitherInit, InitPodNetwork, MRSetupPodNetNs, RecordPodIP,
      SetupPodBridge, SetupPodBridgePanics, GetNetNsIP, SetupPodNetNs,
      SetupPodNetNsFails, NetNsLocalhost, NetNsLocalhostFails, LoadSplit,
      LoadPanics, LoadRedirect, AddRoute, PublishRedirect, UpdateOther,
      UpdateOtherPanics, WriteBack, AttachBridge
<1>3. CASE EitherTun(h) \/ StopPodNetwork(h)
  BY <1>3 DEF EitherTun, CreateVMTun, MRTapMissing, MRAddTap, AddTap, AddTapPanics,
      TapLocalhost, TapLocalhostPanics, StopPodNetwork, DeleteBridge,
      DeleteBridgePanics
<1>4. ASSUME NEW p \in Pods, Begin(h, p)
      PROVE  Addresses!FindFreeIP(h, p) \/ UNCHANGED addressVars
  BY <1>4 DEF Begin, BeginInit, BeginVMTun, VMTunFails, DeleteNetNs, DeleteNetNsFails
<1>5. QED
  BY <1>1, <1>2, <1>3, <1>4 DEF StepOf

LEMMA InitRaceInv == RaceInit => RaceInv
<1> SUFFICES ASSUME RaceInit PROVE RaceInv
  OBVIOUS
<1> USE DEF RaceInit, Init, Addresses!Init
<1>1. Addresses!TypeOK
  BY DEF Addresses!TypeOK
<1>2. QED
  BY <1>1 DEF RaceInv, HeldNoted, Racing, RacingHolder, SharedBase

\* What RaceNext adds to overlapped.
LEMMA RacingNext ==
    ASSUME RaceNext
    PROVE  overlapped \subseteq overlapped' /\ Racing'
<1>1. overlapped \subseteq overlapped'
  BY DEF RaceNext
<1>2. ASSUME NEW g \in Handlers, NEW h \in Handlers, g # h,
             pending'[g] # Idle, pending'[h] # Idle
      PROVE  {pending'[g].pod, pending'[h].pod} \in overlapped'
  <2>1. <<g, h>> \in {gh \in Handlers \X Handlers : InFlight(gh[1], gh[2])}
    BY <1>2 DEF InFlight
  <2>2. {pending'[<<g, h>>[1]].pod, pending'[<<g, h>>[2]].pod} \in overlapped'
    BY <2>1 DEF RaceNext
  <2>3. QED
    BY <2>2
<1>3. QED
  BY <1>1, <1>2 DEF Racing

LEMMA FindFreeIPRace ==
    ASSUME RaceInv, RaceNext, NEW h \in Handlers, NEW p \in Pods,
           Addresses!FindFreeIP(h, p)
    PROVE  RaceInv'
<1>1. Addresses!TypeOK' /\ UNCHANGED <<usedPodAddresses, held>>
  BY FindFreeIPTypeOK DEF RaceInv, Addresses!FindFreeIP
<1>2. overlapped \subseteq overlapped' /\ Racing'
  BY RacingNext
<1>3. HeldNoted' /\ SharedBase'
  BY <1>1, <1>2 DEF RaceInv, HeldNoted, SharedBase
<1>4. ASSUME NEW i \in Handlers, NEW g \in held,
             pending'[i] # Idle, pending'[i].free = g[2]
      PROVE  {pending'[i].pod, g[1]} \in overlapped'
  <2>1. g[2] \in Addresses!FreeIPs /\ usedPodAddresses[g[2]] # Nobody
    BY FreeIPsArePodIPs DEF RaceInv, HeldNoted, Addresses!TypeOK, PodIPs
  <2>2. CASE i # h
    BY <1>2, <1>4, <2>2 DEF RaceInv, RacingHolder, Addresses!FindFreeIP, Addresses!TypeOK
  <2>3. CASE i = h
    <3>1. CASE pending'[h].free = Exhausted
      BY <1>4, <2>1, <2>3, <3>1, MarkersAssumption
    <3>2. QED
      BY <1>4, <2>1, <2>3, <3>1
         DEF RaceInv, Addresses!FindFreeIP, Addresses!TypeOK, Addresses!taken
  <2>4. QED
    BY <2>2, <2>3
<1>5. QED
  BY <1>1, <1>2, <1>3, <1>4 DEF RaceInv, RacingHolder

LEMMA RecordIPRace ==
    ASSUME RaceInv, RaceNext, NEW h \in Handlers, Addresses!RecordIP(h)
    PROVE  RaceInv'
<1>1. Addresses!TypeOK /\ Addresses!TypeOK'
  BY RecordIPTypeOK DEF RaceInv
<1>2. overlapped \subseteq overlapped' /\ Racing'
  BY RacingNext
<1> DEFINE p == pending[h].pod
           f == pending[h].free
<1>3. /\ pending[h] # Idle /\ pending[h] \in Addresses!Requests
      /\ p \in Pods /\ f \in Addresses!FreeIPs \cup {Exhausted}
  BY <1>1 DEF Addresses!RecordIP, Addresses!TypeOK, Addresses!Requests
<1>4. /\ pending'[h] = Idle
      /\ \A i \in Handlers \ {h} : pending'[i] = pending[i]
  BY <1>1 DEF Addresses!RecordIP, Addresses!TypeOK
<1>5. CASE f = Exhausted
  <2>1. UNCHANGED <<usedPodAddresses, held>>
    BY <1>5 DEF Addresses!RecordIP
  <2>2. QED
    BY <1>1, <1>2, <1>4, <2>1
       DEF RaceInv, HeldNoted, RacingHolder, SharedBase
<1>6. CASE f # Exhausted
  <2>1. /\ usedPodAddresses' = [usedPodAddresses EXCEPT ![f] = p]
        /\ held' = held \cup {<<p, f>>} /\ f \in Addresses!FreeIPs /\ p # Nobody
    <3>1. Addresses!AddressOf(f) = f
      BY <1>3, <1>6, PodNetworkAssumption DEF Addresses!AddressOf, Addresses!FreeIPs
    <3>2. QED
      BY <1>3, <1>6, <3>1, MarkersAssumption DEF Addresses!RecordIP
  <2>2. HeldNoted'
    BY <1>1, <2>1 DEF RaceInv, HeldNoted, Addresses!TypeOK
  <2>3. SharedBase'
    <3>1. \A g \in held : f = g[2] => {p, g[1]} \in overlapped
      BY <1>3 DEF RaceInv, RacingHolder
    <3>2. QED
      BY <1>2, <2>1, <3>1 DEF RaceInv, SharedBase
  <2>4. RacingHolder'
    <3>1. ASSUME NEW i \in Handlers \ {h}, pending[i] # Idle
          PROVE  {pending[i].pod, p} \in overlapped
      BY <1>3, <3>1 DEF RaceInv, Racing
    <3>2. ASSUME NEW i \in Handlers, NEW g \in held', pending'[i] # Idle,
                 pending'[i].free = g[2]
          PROVE  {pending'[i].pod, g[1]} \in overlapped'
      <4>1. i # h /\ pending'[i] = pending[i]
        BY <1>4, <3>2
      <4>2. CASE g \in held
        BY <1>2, <3>2, <4>1, <4>2 DEF RaceInv, RacingHolder
      <4>3. CASE g = <<p, f>>
        BY <1>2, <3>1, <3>2, <4>1, <4>3
      <4>4. QED
        BY <2>1, <3>2, <4>2, <4>3
    <3>3. QED
      BY <3>2 DEF RacingHolder
  <2>5. QED
    BY <1>1, <1>2, <2>2, <2>3, <2>4 DEF RaceInv
<1>7. QED
  BY <1>5, <1>6

LEMMA NextRaceInv == RaceInv /\ [RaceNext]_<<vars, overlapped>> => RaceInv'
<1> SUFFICES ASSUME RaceInv, [RaceNext]_<<vars, overlapped>> PROVE RaceInv'
  OBVIOUS
<1>1. CASE RaceNext /\ UNCHANGED addressVars
  BY <1>1, RacingNext
     DEF addressVars, RaceInv, HeldNoted, RacingHolder, SharedBase, Addresses!TypeOK
<1>2. CASE UNCHANGED <<vars, overlapped>>
  BY <1>2 DEF vars, addressVars, RaceInv, HeldNoted, Racing, RacingHolder, SharedBase,
              Addresses!TypeOK
<1>3. QED
  BY <1>1, <1>2, AddressSteps, FindFreeIPRace, RecordIPRace DEF RaceNext

(***************************************************************************)
(* However many handlers call RequestPodIP at a time, blocks that have an  *)
(* address in common went to pods whose requests were in flight together.  *)
(***************************************************************************)
THEOREM OnlyRacesShare == RaceSpec => []SharedOnlyByOverlap
<1>1. RaceInv => SharedOnlyByOverlap
  <2> SUFFICES ASSUME RaceInv, NEW g \in held, NEW h \in held, g # h,
                      Addresses!Block(g[2]) \cap Addresses!Block(h[2]) # {}
               PROVE  {g[1], h[1]} \in overlapped
    BY DEF SharedOnlyByOverlap
  <2>1. g[2] \in PodIPs /\ h[2] \in PodIPs
    BY DEF RaceInv, Addresses!TypeOK, PodIPs
  <2>2. g[2] = h[2]
    BY <2>1, BlocksDisjoint
  <2>3. QED
    BY <2>2 DEF RaceInv, SharedBase
<1>2. QED
  BY InitRaceInv, NextRaceInv, <1>1, PTL DEF RaceSpec

-----------------------------------------------------------------------------
(***************************************************************************)
(* Routes despite races.  A pod that was deployed once was given one       *)
(* block, so that whatever names a bridge as its own (Names) names the     *)
(* same one: its entry keeps bridge and address though other calls store   *)
(* old copies of it. Two such pods find each other: the one whose          *)
(* InitPodNetwork lists the entries of podDevices later has the other in   *)
(* its list, adds a route to it or tells it of its own, and until it has   *)
(* done so the route is among what is left to write (Routing).  That holds *)
(* for a pod nobody shares an address with, since a route is found by      *)
(* address.                                                                *)
(***************************************************************************)
VethLabels == {"localhost", "split", "redirect", "addroutes", "update", "writeback"}

Looped == {"addroutes", "update", "writeback"}

\* What names bridge c as p's: p's entry, p's veth pair, the call that makes
\* p's network, and a copy of p's entry that a handler is going to store.
Names(p, c) ==
    \/ podDevices[p].podBridge = c
    \/ outcome[p] = "up" /\ vethMaster[p] = c
    \/ \E h \in Handlers :
          \/ pc[h] \in Running /\ frame[h].pod = p /\ frame[h].podLink = c
          \/ pc[h] = "writeback" /\ frame[h].target = p /\ frame[h].dev.podBridge = c
          \/ pc[h] = "tap" /\ frame[h].pod = p /\ frame[h].dev.podBridge = c

\* A pod has one handler at a time; the block that its InitPodNetwork is about
\* to record is not yet its own; and until its call ends it is not up.
OneAtATime == \A g, h \in Handlers : g # h /\ pc[g] # "idle" /\ pc[h] # "idle" =>
                  frame[g].pod # frame[h].pod

Requested == \A h \in Handlers : pc[h] = "record" =>
                 /\ pending[h].pod = frame[h].pod
                 /\ <<pending[h].pod, pending[h].free>> \notin held

OwnOutcome == \A h \in Handlers :
    /\ pc[h] \in InitLabels => outcome[frame[h].pod] = "busy"
    /\ pc[h] \in VethLabels => vethMaster[frame[h].pod] = frame[h].podLink

UpWired == \A p \in Pods : Up(p) => vethMaster[p] # None

\* A bridge that is named as p's has an address that p was given, and two such
\* bridges have two addresses: each InitPodNetwork asks for a new block.
NamedHeld == \A p \in Pods, c \in Calls : Names(p, c) => <<p, bridgeAddr[c]>> \in held

OneBridge == \A p \in Pods, c, d \in Calls :
    Names(p, c) /\ Names(p, d) /\ bridgeAddr[c] = bridgeAddr[d] => c = d

NewAddress == \A h \in Handlers : pc[h] = "bridge" /\ frame[h].podIp # None =>
    /\ <<frame[h].pod, frame[h].podIp>> \in held
    /\ \A c \in Calls : Names(frame[h].pod, c) => bridgeAddr[c] # frame[h].podIp

\* h keeps a copy of q's entry, which it is going to store.
KeepsCopy(h, q) == \/ pc[h] = "tap" /\ frame[h].pod = q
                   \/ pc[h] = "writeback" /\ frame[h].target = q

OwnMap(dev) == dev.fromSubpodBpfMap \in {None, dev.podBridge}

\* The redirect map that a pod's entry holds is the one of its own bridge.
MapsOwn == \A p \in Pods : DeployedOnce(p) =>
    /\ OwnMap(podDevices[p])
    /\ \A h \in Handlers : KeepsCopy(h, p) => OwnMap(frame[h].dev)

\* A call for p is at one of these labels; nobody but q was given q's address;
\* p's programs send q's traffic to q's bridge.
Runs(p, labels) == \E h \in Handlers : pc[h] \in labels /\ frame[h].pod = p

Alone(q) == \A r \in Pods \ {q} : <<r, podDevices[q].baseAddr>> \notin held

Routed(p, q) == redirectMap[podDevices[p].podBridge][podDevices[q].baseAddr]
                    = podDevices[q].podBridge

\* p has routes to the pods that were there, or is writing them; q tells the
\* pods that are there of itself, or has told them; what is left to write.
Routes(p) == Up(p) \/ Runs(p, Looped)

Announces(q) == Up(q) \/ Runs(q, {"update", "writeback"})

AddsRoute(h, p, q) == pc[h] = "addroutes" /\ frame[h].pod = p /\ q \in frame[h].todo

Tells(h, q, p) == /\ pc[h] \in {"update", "writeback"}
                  /\ frame[h].pod = q /\ p \in frame[h].todo

\* Of two pods, deployed once each and the second alone with its address, the
\* first routes to the second unless one of them has still to write that route.
Routing == \A p, q \in Pods :
    /\ p # q /\ DeployedOnce(p) /\ DeployedOnce(q) /\ Alone(q)
    /\ Routes(p) /\ Announces(q)
    => \/ Routed(p, q)
       \/ \E h \in Handlers : AddsRoute(h, p, q) \/ Tells(h, q, p)

MeshInv == /\ HeldNoted
           /\ OneAtATime /\ Requested /\ OwnOutcome /\ UpWired
           /\ NamedHeld /\ OneBridge /\ NewAddress
           /\ MapsOwn /\ Routing

-----------------------------------------------------------------------------
(***************************************************************************)
(* What a step of handler h does, one part of the state at a time.         *)
(***************************************************************************)
Alike(dev, old) == /\ dev.podBridge = old.podBridge /\ dev.baseAddr = old.baseAddr
                   /\ dev.fromSubpodBpfMap = old.fromSubpodBpfMap

LEMMA EntrySteps ==
    ASSUME IInv, NEW h \in Handlers, StepOf(h), NEW q \in Pods
    PROVE  \/ Alike(podDevices'[q], podDevices[q])
           \/ KeepsCopy(h, q) /\ podDevices'[q] = frame[h].dev
           \/ /\ SetupPodBridge(h) /\ q = frame[h].pod
              /\ podDevices'[q].fromSubpodBpfMap = None
           \/ /\ PublishRedirect(h) /\ q = frame[h].pod
              /\ podDevices'[q].podBridge = podDevices[q].podBridge
              /\ podDevices'[q].baseAddr = podDevices[q].baseAddr
              /\ podDevices'[q].fromSubpodBpfMap = frame[h].podLink
<1>1. podDevices \in [Pods -> PodDevicesType]
  BY DEF IInv, TypeOK
<1> USE <1>1 DEF vars, goVars, Alike, KeepsCopy
<1>2. CASE podDevices' = podDevices
  BY <1>2
<1>3. CASE SetupPodBridge(h)
  BY <1>3 DEF SetupPodBridge, NoDevices
<1>4. CASE LoadSplit(h) \/ PublishRedirect(h)
  BY <1>4 DEF LoadSplit, PublishRedirect, PodDevicesType
<1>5. CASE AttachBridge(h)
  <2>1. \/ podDevices' = [podDevices EXCEPT ![frame[h].pod].bpfProgLink =
                                                 frame[h].podLink]
        \/ podDevices' = podDevices
    BY <1>5 DEF AttachBridge
  <2>2. QED
    BY <2>1 DEF PodDevicesType
<1>6. CASE NetNsLocalhost(h) \/ TapLocalhost(h)
  <2>1. podDevices' = [podDevices EXCEPT ![frame[h].pod].linksToKeep =
                                             @ \cup {frame[h].subIp}]
    BY <1>6 DEF NetNsLocalhost, TapLocalhost, AddLocalhost
  <2>2. QED
    BY <2>1 DEF PodDevicesType
<1>7. CASE WriteBack(h) \/ AddTap(h) \/ MRAddTap(h)
  BY <1>7 DEF WriteBack, AddTap, MRAddTap
<1>8. CASE EitherInit(h)
  BY <1>2, <1>3, <1>4, <1>5, <1>6, <1>7, <1>8
     DEF EitherInit, InitPodNetwork, MRSetupPodNetNs, RecordPodIP,
         SetupPodBridgePanics, GetNetNsIP, SetupPodNetNs, SetupPodNetNsFails,
         NetNsLocalhostFails, LoadPanics, LoadRedirect, AddRoute, UpdateOther,
         UpdateOtherPanics
<1>9. CASE EitherTun(h) \/ StopPodNetwork(h)
  BY <1>2, <1>6, <1>7, <1>9
     DEF EitherTun, CreateVMTun, MRTapMissing, MRAddTap, AddTapPanics, TapLocalhostPanics,
         StopPodNetwork, DeleteBridge, DeleteBridgePanics
<1>10. ASSUME NEW p \in Pods, Begin(h, p) PROVE podDevices' = podDevices
  BY <1>10 DEF Begin, BeginInit, BeginVMTun, VMTunFails, DeleteNetNs,
      DeleteNetNsFails
<1>11. QED
  BY <1>2, <1>8, <1>9, <1>10 DEF StepOf

\* A step of h with a pod that it worked on before, or was idle.
Continues(h) == /\ pc[h] # "idle" /\ pc'[h] # "idle"
                /\ frame'[h].pod = frame[h].pod

Begins(h) == /\ pc[h] = "idle" /\ pc'[h] # "idle"
             /\ frame'[h].pod \in Pods /\ ~Busy(frame'[h].pod)

LEMMA PodSteps ==
    ASSUME IInv, NEW h \in Handlers, StepOf(h)
    PROVE  /\ pc'[h] = "idle" \/ Continues(h) \/ Begins(h)
           /\ Continues(h) => outcome' = outcome
           /\ pc[h] = "idle" /\ pc'[h] = "idle" => UNCHANGED vars
<1>1. /\ pc \in [Handlers -> Labels] /\ frame \in [Handlers -> FrameType]
      /\ frame[h] \in FrameType
  BY DEF IInv, TypeOK
<1> USE <1>1 DEF Continues, Return, Call, Goto
<1>2. CASE EitherInit(h)
  <2> USE DEF FrameType
  <2>1. CASE RecordPodIP(h) \/ SetupPodBridge(h) \/ SetupPodBridgePanics(h)
    BY <2>1 DEF RecordPodIP, SetupPodBridge, SetupPodBridgePanics
  <2>2. CASE GetNetNsIP(h) \/ SetupPodNetNs(h) \/ SetupPodNetNsFails(h)
             \/ MRSetupPodNetNs(h)
    BY <2>2 DEF GetNetNsIP, SetupPodNetNs, SetupPodNetNsFails, MRSetupPodNetNs
  <2>3. CASE \/ NetNsLocalhost(h) \/ NetNsLocalhostFails(h) \/ LoadSplit(h)
             \/ LoadPanics(h) \/ LoadRedirect(h)
    BY <2>3 DEF NetNsLocalhost, NetNsLocalhostFails, LoadSplit, LoadPanics, LoadRedirect
  <2>4. CASE AddRoute(h) \/ PublishRedirect(h)
    BY <2>4 DEF AddRoute, PublishRedirect
  <2>5. CASE UpdateOther(h)
    BY <2>5 DEF UpdateOther
  <2>6. CASE UpdateOtherPanics(h) \/ WriteBack(h) \/ AttachBridge(h)
    BY <2>6 DEF UpdateOtherPanics, WriteBack, AttachBridge
  <2>7. QED
    BY <1>2, <2>1, <2>2, <2>3, <2>4, <2>5, <2>6 DEF EitherInit, InitPodNetwork
<1>3. CASE EitherTun(h) \/ StopPodNetwork(h)
  <2>1. CASE MRAddTap(h) \/ AddTapPanics(h) \/ MRTapMissing(h)
    <3>1. pc'[h] = "idle" /\ pc[h] = "tap"
      BY <2>1 DEF MRAddTap, AddTapPanics, MRTapMissing
    <3>2. QED
      BY <3>1
  <2>2. CASE AddTap(h)
    <3>1. pc[h] = "tap" /\ pc'[h] = "taplocalhost" /\ UNCHANGED <<frame, outcome>>
      BY <2>2 DEF AddTap
    <3>2. QED
      BY <3>1
  <2>3. CASE TapLocalhost(h) \/ TapLocalhostPanics(h) \/ StopPodNetwork(h)
    <3>1. pc'[h] = "idle" /\ pc[h] \in {"taplocalhost", "linkdel"}
      BY <2>3 DEF TapLocalhost, TapLocalhostPanics, StopPodNetwork, DeleteBridge,
                  DeleteBridgePanics
    <3>2. QED
      BY <3>1
  <2>4. QED
    BY <1>3, <2>1, <2>2, <2>3 DEF EitherTun, CreateVMTun
<1>4. ASSUME NEW p \in Pods, Begin(h, p)
      PROVE  \/ UNCHANGED vars /\ pc[h] = "idle"
             \/ Begins(h)
  <2>1. CASE BeginInit(h, p)
    <3>1. frame'[h].pod = p
      BY <2>1, NoFrameType DEF BeginInit, FrameType
    <3>2. QED
      BY <2>1, <3>1 DEF BeginInit, CanServe, Begins
  <2>2. CASE BeginVMTun(h, p)
    <3>1. frame'[h].pod = p
      BY <2>2, NoFrameType DEF BeginVMTun, FrameType
    <3>2. QED
      BY <2>2, <3>1 DEF BeginVMTun, CanServe, Begins
  <2>3. CASE DeleteNetNs(h, p)
    <3>1. frame'[h].pod = p
      BY <2>3, NoFrameType DEF DeleteNetNs, FrameType
    <3>2. QED
      BY <2>3, <3>1 DEF DeleteNetNs, CanServe, Begins
  <2>4. QED
    BY <1>4, <2>1, <2>2, <2>3 DEF Begin, VMTunFails, DeleteNetNsFails, CanServe
<1>5. QED
  BY <1>2, <1>3, <1>4 DEF StepOf, Begins, vars

\* Which step leads to a label.
LEMMA LabelSteps ==
    ASSUME IInv, NEW h \in Handlers, StepOf(h)
    PROVE  /\ pc'[h] = "record" => \E p \in Pods : BeginInit(h, p)
           /\ pc'[h] = "bridge" => RecordPodIP(h)
           /\ pc'[h] = "netns" => SetupPodBridge(h)
           /\ pc'[h] = "addns" => GetNetNsIP(h)
           /\ pc'[h] \in {"localhost", "split"} =>
                 SetupPodNetNs(h) \/ MRSetupPodNetNs(h) \/ NetNsLocalhost(h)
           /\ pc'[h] = "redirect" => LoadSplit(h)
           /\ pc'[h] = "addroutes" => LoadRedirect(h) \/ AddRoute(h)
           /\ pc'[h] = "update" => PublishRedirect(h) \/ WriteBack(h)
           /\ pc'[h] = "writeback" => UpdateOther(h)
           /\ pc'[h] = "tap" => \E p \in Pods : BeginVMTun(h, p)
<1>1. pc \in [Handlers -> Labels]
  BY DEF IInv, TypeOK
<1> USE <1>1 DEF Return, Call, Goto
<1>2. CASE EitherInit(h)
  BY <1>2 DEF EitherInit, InitPodNetwork, MRSetupPodNetNs, RecordPodIP,
      SetupPodBridge, SetupPodBridgePanics, GetNetNsIP, SetupPodNetNs,
      SetupPodNetNsFails, NetNsLocalhost, NetNsLocalhostFails, LoadSplit,
      LoadPanics, LoadRedirect, AddRoute, PublishRedirect, UpdateOther,
      UpdateOtherPanics, WriteBack, AttachBridge
<1>3. CASE EitherTun(h) \/ StopPodNetwork(h)
  BY <1>3 DEF EitherTun, CreateVMTun, MRTapMissing, MRAddTap, AddTap, AddTapPanics,
      TapLocalhost, TapLocalhostPanics, StopPodNetwork, DeleteBridge,
      DeleteBridgePanics
<1>4. ASSUME NEW p \in Pods, Begin(h, p)
      PROVE  \/ pc'[h] \in {"idle", "linkdel"}
             \/ pc'[h] = "record" /\ BeginInit(h, p)
             \/ pc'[h] = "tap" /\ BeginVMTun(h, p)
  BY <1>4 DEF Begin, BeginInit, BeginVMTun, VMTunFails, DeleteNetNs,
      DeleteNetNsFails, CanServe, vars
<1>5. QED
  BY <1>2, <1>3, <1>4 DEF StepOf

\* The frame of a call past SetupPodBridge: what stays of it, and the copy
\* that it makes of an entry.
LEMMA RunningSteps ==
    ASSUME IInv, NEW h \in Handlers, StepOf(h)
    PROVE  /\ pc'[h] \in Running =>
                 /\ pc[h] \in Running \/ SetupPodBridge(h)
                 /\ frame'[h].pod = frame[h].pod
                 /\ frame'[h].podLink = frame[h].podLink
                 /\ frame'[h].podIp = frame[h].podIp
           /\ pc'[h] = "writeback" =>
                 /\ frame'[h].target \in Pods
                 /\ frame'[h].dev = podDevices[frame'[h].target]
           /\ pc'[h] = "tap" => /\ frame'[h].pod \in Pods
                                /\ frame'[h].dev = podDevices[frame'[h].pod]
<1>1. /\ pc \in [Handlers -> Labels] /\ frame \in [Handlers -> FrameType]
      /\ frame[h] \in FrameType /\ frame[h].todo \subseteq Pods
  BY FrameFacts DEF IInv, TypeOK
<1>2. ASSUME pc'[h] = "writeback"
      PROVE  /\ pc[h] \in Running /\ frame'[h].target \in Pods
             /\ frame'[h].dev = podDevices[frame'[h].target]
             /\ frame'[h].pod = frame[h].pod
             /\ frame'[h].podLink = frame[h].podLink
             /\ frame'[h].podIp = frame[h].podIp
  <2>1. UpdateOther(h)
    BY <1>2, LabelSteps
  <2>2. PICK q \in frame[h].todo :
            Call(h, "writeback", [frame[h] EXCEPT !.target = q, !.dev = podDevices[q],
                                                  !.todo = @ \ {q}])
    BY <2>1 DEF UpdateOther
  <2>3. /\ frame'[h] = [frame[h] EXCEPT !.target = q, !.dev = podDevices[q],
                                        !.todo = @ \ {q}]
        /\ pc[h] \in Running
    BY <1>1, <2>1, <2>2 DEF UpdateOther, Call, Goto, Running
  <2>4. QED
    BY <1>1, <2>3 DEF FrameType
<1>3. ASSUME pc'[h] = "tap"
      PROVE  /\ frame'[h].pod \in Pods
             /\ frame'[h].dev = podDevices[frame'[h].pod]
  <2>1. PICK p \in Pods : BeginVMTun(h, p)
    BY <1>3, LabelSteps
  <2>2. frame'[h] = [NoFrame EXCEPT !.pod = p, !.dev = podDevices[p],
                                    !.subIp = getNextSubPodIP(podDevices[p])]
    BY <1>1, <2>1 DEF BeginVMTun, Call, Goto
  <2>3. QED
    BY <2>2, NoFrameType DEF FrameType
<1>4. ASSUME pc'[h] \in Running \ {"writeback"}
      PROVE  /\ pc[h] \in Running \/ SetupPodBridge(h)
             /\ frame'[h].pod = frame[h].pod
             /\ frame'[h].podLink = frame[h].podLink
             /\ frame'[h].podIp = frame[h].podIp
  <2> USE <1>1
  <2>1. CASE SetupPodBridge(h) \/ SetupPodNetNs(h) \/ MRSetupPodNetNs(h)
             \/ NetNsLocalhost(h) \/ LoadSplit(h)
    BY <2>1 DEF SetupPodBridge, SetupPodNetNs, MRSetupPodNetNs, NetNsLocalhost,
                LoadSplit, Running
  <2>2. CASE GetNetNsIP(h)
    <3>1. frame'[h] = [frame[h] EXCEPT !.subIp = getNextSubPodIP(podDevices[frame[h].pod])]
      BY <1>4, <2>2 DEF GetNetNsIP, Call, Goto, Return, Running
    <3>2. QED
      BY <2>2, <3>1 DEF GetNetNsIP, FrameType, Running
  <2>3. CASE LoadRedirect(h) \/ PublishRedirect(h)
    <3>1. frame'[h] = [frame[h] EXCEPT !.todo = Others(frame[h].podLink)]
      BY <2>3 DEF LoadRedirect, PublishRedirect, Call, Goto
    <3>2. QED
      BY <2>3, <3>1 DEF LoadRedirect, PublishRedirect, FrameType, Running
  <2>4. CASE AddRoute(h)
    <3>1. PICK q \in frame[h].todo : frame' = [frame EXCEPT ![h].todo = @ \ {q}]
      BY <2>4 DEF AddRoute
    <3>2. QED
      BY <2>4, <3>1 DEF AddRoute, FrameType, Running
  <2>5. CASE WriteBack(h)
    <3>1. frame'[h] = [frame[h] EXCEPT !.target = Nobody, !.dev = NoDevices]
      BY <2>5 DEF WriteBack, Call, Goto
    <3>2. QED
      BY <2>5, <3>1 DEF WriteBack, FrameType, Running
  <2>6. QED
    BY <1>4, <2>1, <2>2, <2>3, <2>4, <2>5, LabelSteps DEF Running
<1>5. QED
  BY <1>2, <1>3, <1>4 DEF Running

\* How operations end: "up" is what AttachBridge returns.
LEMMA OutcomeSteps ==
    ASSUME IInv, NEW h \in Handlers, StepOf(h), NEW q \in Pods
    PROVE  \/ outcome'[q] = outcome[q]
           \/ pc[h] # "idle" /\ q = frame[h].pod /\ pc'[h] = "idle"
              /\ (outcome'[q] = "up" => AttachBridge(h))
           \/ Begins(h) /\ q = frame'[h].pod /\ outcome'[q] = "busy"
<1>1. /\ pc \in [Handlers -> Labels] /\ outcome \in [Pods -> Outcomes]
      /\ frame \in [Handlers -> FrameType]
  BY DEF IInv, TypeOK
<1>2. ASSUME NEW result \in Outcomes, Return(h, result), pc[h] # "idle",
             result = "up" => AttachBridge(h)
      PROVE  \/ outcome'[q] = outcome[q]
             \/ pc[h] # "idle" /\ q = frame[h].pod /\ pc'[h] = "idle"
                /\ (outcome'[q] = "up" => AttachBridge(h))
  BY <1>1, <1>2 DEF Return, Call, Goto
<1>3. CASE EitherInit(h)
  <2>1. CASE AttachBridge(h)
    BY <1>2, <2>1 DEF AttachBridge, Outcomes
  <2>2. CASE SetupPodBridgePanics(h) \/ LoadPanics(h) \/ UpdateOtherPanics(h)
    <3>1. Return(h, "panicked") /\ pc[h] # "idle"
      BY <2>2 DEF SetupPodBridgePanics, LoadPanics, UpdateOtherPanics
    <3>2. QED
      BY <1>2, <3>1 DEF Outcomes
  <2>3. CASE GetNetNsIP(h) \/ SetupPodNetNsFails(h) \/ NetNsLocalhostFails(h)
    <3>1. pc[h] # "idle" /\ (Return(h, "failed") \/ outcome' = outcome)
      BY <2>3 DEF GetNetNsIP, SetupPodNetNsFails, NetNsLocalhostFails
    <3>2. QED
      BY <1>2, <3>1 DEF Outcomes
  <2>4. \/ AttachBridge(h) \/ GetNetNsIP(h) \/ SetupPodNetNsFails(h)
        \/ NetNsLocalhostFails(h) \/ SetupPodBridgePanics(h) \/ LoadPanics(h)
        \/ UpdateOtherPanics(h) \/ outcome' = outcome
    BY <1>3 DEF EitherInit, InitPodNetwork, MRSetupPodNetNs, RecordPodIP,
      SetupPodBridge, SetupPodNetNs, NetNsLocalhost, LoadSplit,
      LoadRedirect, AddRoute, PublishRedirect, UpdateOther, WriteBack
  <2>5. QED
    BY <2>1, <2>2, <2>3, <2>4
<1>4. CASE EitherTun(h) \/ StopPodNetwork(h)
  <2>1. \/ outcome' = outcome
        \/ Return(h, "panicked") /\ pc[h] # "idle"
        \/ Return(h, "stopped") /\ pc[h] # "idle"
    BY <1>4 DEF EitherTun, CreateVMTun, MRTapMissing, MRAddTap, AddTap, AddTapPanics,
      TapLocalhost, TapLocalhostPanics, StopPodNetwork, DeleteBridge,
      DeleteBridgePanics
  <2>2. QED
    BY <1>2, <2>1 DEF Outcomes
<1>5. ASSUME NEW p \in Pods, Begin(h, p)
      PROVE  \/ outcome'[q] = outcome[q]
             \/ Begins(h) /\ q = frame'[h].pod /\ outcome'[q] = "busy"
  <2>1. CASE BeginInit(h, p) \/ DeleteNetNs(h, p)
    <3>1. frame'[h].pod = p
      <4>1. CASE BeginInit(h, p)
        BY <1>1, <4>1, NoFrameType DEF BeginInit, FrameType, Call
      <4>2. CASE DeleteNetNs(h, p)
        BY <1>1, <4>2, NoFrameType DEF DeleteNetNs, FrameType, Call
      <4>3. QED
        BY <2>1, <4>1, <4>2
    <3>2. Begins(h)
      BY <1>1, <2>1, <3>1 DEF BeginInit, DeleteNetNs, CanServe, Begins, Call, Goto
    <3>3. outcome' = [outcome EXCEPT ![p] = "busy"]
      BY <2>1 DEF BeginInit, DeleteNetNs
    <3>4. QED
      BY <1>1, <3>1, <3>2, <3>3
  <2>2. QED
    BY <1>5, <2>1 DEF Begin, BeginVMTun, VMTunFails, DeleteNetNsFails, vars
<1>6. QED
  BY <1>3, <1>4, <1>5 DEF StepOf

\* Where a pod's veth pair is.
LEMMA VethSteps ==
    ASSUME IInv, NEW h \in Handlers, StepOf(h), NEW q \in Pods
    PROVE  \/ vethMaster'[q] = vethMaster[q]
           \/ /\ pc[h] = "addns" /\ pc'[h] \in {"localhost", "split"}
              /\ q = frame[h].pod /\ vethMaster'[q] = frame[h].podLink
           \/ /\ Begins(h) /\ pc'[h] = "linkdel"
              /\ q = frame'[h].pod /\ outcome'[q] = "busy"
<1>1. /\ pc \in [Handlers -> Labels] /\ vethMaster \in [Pods -> MaybeCall]
      /\ outcome \in [Pods -> Outcomes] /\ frame \in [Handlers -> FrameType]
  BY DEF IInv, TypeOK
<1> USE DEF linkVars, vars
<1>2. CASE SetupPodNetNs(h) \/ MRSetupPodNetNs(h)
  BY <1>1, <1>2 DEF SetupPodNetNs, MRSetupPodNetNs, Goto
<1>3. CASE vethMaster' = vethMaster
  BY <1>3
<1>4. CASE EitherInit(h)
  BY <1>2, <1>3, <1>4 DEF EitherInit, InitPodNetwork, RecordPodIP,
      SetupPodBridge, SetupPodBridgePanics, GetNetNsIP, 
      SetupPodNetNsFails, NetNsLocalhost, NetNsLocalhostFails, LoadSplit,
      LoadPanics, LoadRedirect, AddRoute, PublishRedirect, UpdateOther,
      UpdateOtherPanics, WriteBack, AttachBridge
<1>5. CASE EitherTun(h) \/ StopPodNetwork(h)
  BY <1>3, <1>5 DEF EitherTun, CreateVMTun, MRTapMissing, MRAddTap, AddTap, AddTapPanics,
      TapLocalhost, TapLocalhostPanics, StopPodNetwork, DeleteBridge,
      DeleteBridgePanics
<1>6. ASSUME NEW p \in Pods, DeleteNetNs(h, p)
      PROVE  \/ vethMaster'[q] = vethMaster[q]
             \/ /\ Begins(h) /\ pc'[h] = "linkdel"
                /\ q = frame'[h].pod /\ outcome'[q] = "busy"
  <2>1. frame'[h].pod = p
    BY <1>1, <1>6, NoFrameType DEF DeleteNetNs, FrameType, Call
  <2>2. QED
    BY <1>1, <1>6, <2>1 DEF DeleteNetNs, CanServe, Begins, Call, Goto
<1>7. ASSUME NEW p \in Pods, Begin(h, p)
      PROVE  vethMaster' = vethMaster \/ DeleteNetNs(h, p)
  BY <1>7 DEF Begin, BeginInit, BeginVMTun, VMTunFails, DeleteNetNsFails
<1>8. QED
  BY <1>3, <1>4, <1>5, <1>6, <1>7 DEF StepOf

\* The address manager.
LEMMA HeldSteps ==
    ASSUME IInv, NEW h \in Handlers, StepOf(h)
    PROVE  \/ \E p \in Pods : BeginInit(h, p) /\ Addresses!FindFreeIP(h, p)
           \/ RecordPodIP(h) /\ Addresses!RecordIP(h)
           \/ UNCHANGED addressVars /\ pc'[h] \notin {"record", "bridge"}
<1>1. UNCHANGED vars => pc'[h] = pc[h]
  BY DEF vars
<1> USE DEF addressVars, vars
<1>2. CASE EitherInit(h)
  <2>1. RecordPodIP(h) \/ UNCHANGED addressVars
    BY <1>2 DEF EitherInit, InitPodNetwork, MRSetupPodNetNs, 
      SetupPodBridge, SetupPodBridgePanics, GetNetNsIP, SetupPodNetNs,
      SetupPodNetNsFails, NetNsLocalhost, NetNsLocalhostFails, LoadSplit,
      LoadPanics, LoadRedirect, AddRoute, PublishRedirect, UpdateOther,
      UpdateOtherPanics, WriteBack, AttachBridge
  <2>2. QED
    BY <2>1, LabelSteps DEF BeginInit, RecordPodIP
<1>3. CASE EitherTun(h) \/ StopPodNetwork(h)
  <2>1. UNCHANGED addressVars
    BY <1>3 DEF EitherTun, CreateVMTun, MRTapMissing, MRAddTap, AddTap, AddTapPanics,
      TapLocalhost, TapLocalhostPanics, StopPodNetwork, DeleteBridge,
      DeleteBridgePanics
  <2>2. QED
    BY <2>1, LabelSteps DEF BeginInit, RecordPodIP
<1>4. ASSUME NEW p \in Pods, Begin(h, p)
      PROVE  BeginInit(h, p) \/ UNCHANGED addressVars
  BY <1>4 DEF Begin, BeginVMTun, VMTunFails, DeleteNetNs, DeleteNetNsFails
<1>5. QED
  BY <1>2, <1>3, <1>4, LabelSteps DEF StepOf, BeginInit, RecordPodIP

-----------------------------------------------------------------------------
(***************************************************************************)
(* Addresses that are held stay held, and a request of h adds one of h's   *)
(* own pod.                                                                *)
(***************************************************************************)
LEMMA HeldGrows ==
    ASSUME IInv, Requested, NEW h \in Handlers, StepOf(h)
    PROVE  /\ held \subseteq held'
           /\ \A g \in held' \ held :
                 /\ RecordPodIP(h) /\ pending[h].free \in PodIPs
                 /\ g = <<frame[h].pod, pending[h].free>>
           /\ RecordPodIP(h) /\ frame'[h].podIp # None =>
                 /\ frame'[h].pod = frame[h].pod /\ frame'[h].podIp = pending[h].free
                 /\ <<frame[h].pod, pending[h].free>> \in held'
           /\ \A g \in Handlers \ {h} : pending'[g] = pending[g]
<1>1. /\ pending \in [Handlers -> Addresses!Requests \cup {Idle}]
      /\ frame \in [Handlers -> FrameType] /\ frame[h] \in FrameType
  BY DEF IInv, TypeOK, Addresses!TypeOK
<1>2. CASE \E p \in Pods : BeginInit(h, p) /\ Addresses!FindFreeIP(h, p)
  BY <1>1, <1>2 DEF Addresses!FindFreeIP, BeginInit, CanServe, RecordPodIP
<1>3. CASE UNCHANGED addressVars /\ pc'[h] \notin {"record", "bridge"}
  <2>1. ~RecordPodIP(h)
    BY <1>3 DEF RecordPodIP, Call, Goto, IInv, TypeOK
  <2>2. QED
    BY <1>3, <2>1 DEF addressVars
<1>4. CASE RecordPodIP(h) /\ Addresses!RecordIP(h)
  <2>1. /\ pending[h] # Idle /\ pending[h].pod = frame[h].pod
        /\ \A g \in Handlers \ {h} : pending'[g] = pending[g]
    BY <1>1, <1>4 DEF Addresses!RecordIP, RecordPodIP, Requested
  <2>2. pending[h].free \in PodIPs \cup {Exhausted}
    BY <1>4, RecordIPTypeOK DEF IInv, TypeOK
  <2>3. pending[h].free # Exhausted => Addresses!AddressOf(pending[h].free) = pending[h].free
    <3>1. \A a \in Addresses!FreeIPs : Addresses!AddressOf(a) = a
      BY PodNetworkAssumption DEF Addresses!FreeIPs, Addresses!AddressOf
    <3>2. QED
      BY <2>2, <3>1, FreeIPsArePodIPs
  <2>4. held' = IF pending[h].free = Exhausted THEN held
                ELSE held \cup {<<frame[h].pod, pending[h].free>>}
    BY <1>4, <2>1, <2>3 DEF Addresses!RecordIP
  <2>5. frame'[h] = [frame[h] EXCEPT !.podIp =
                        IF pending[h].free = Exhausted THEN None ELSE pending[h].free]
    BY <1>1, <1>4 DEF RecordPodIP, Call, Goto
  <2>6. /\ frame'[h].pod = frame[h].pod
        /\ frame'[h].podIp # None => /\ pending[h].free # Exhausted
                                     /\ frame'[h].podIp = pending[h].free
    BY <1>1, <2>5 DEF FrameType
  <2>7. QED
    BY <1>4, <2>1, <2>2, <2>4, <2>6
<1>5. QED
  BY <1>2, <1>3, <1>4, HeldSteps

LEMMA HeldNotedNext ==
    ASSUME IInv, HeldNoted, NEW h \in Handlers, StepOf(h)
    PROVE  HeldNoted'
<1>1. /\ usedPodAddresses \in [Addresses!FreeIPs -> Pods \cup {Nobody}]
      /\ pending \in [Handlers -> Addresses!Requests \cup {Idle}]
      /\ held \subseteq Pods \X Addresses!Blocks
  BY DEF IInv, TypeOK, Addresses!TypeOK
<1>2. CASE \E p \in Pods : Addresses!FindFreeIP(h, p)
  BY <1>2 DEF Addresses!FindFreeIP, HeldNoted
<1>3. CASE UNCHANGED addressVars
  BY <1>3 DEF addressVars, HeldNoted
<1>4. CASE Addresses!RecordIP(h)
  <2>1. /\ pending[h] \in Addresses!Requests /\ pending[h].pod \in Pods
        /\ pending[h].free \in Addresses!FreeIPs \cup {Exhausted}
    BY <1>1, <1>4 DEF Addresses!RecordIP, Addresses!Requests
  <2>2. CASE pending[h].free = Exhausted
    BY <1>4, <2>2 DEF Addresses!RecordIP, HeldNoted
  <2>3. CASE pending[h].free # Exhausted
    <3>1. Addresses!AddressOf(pending[h].free) = pending[h].free
      BY <2>1, <2>3, PodNetworkAssumption DEF Addresses!AddressOf, Addresses!FreeIPs
    <3>2. /\ usedPodAddresses' = [usedPodAddresses EXCEPT ![pending[h].free] = pending[h].pod]
          /\ held' = held \cup {<<pending[h].pod, pending[h].free>>}
      BY <1>4, <2>3, <3>1 DEF Addresses!RecordIP
    <3>3. \A g \in held : g[2] \in Addresses!FreeIPs
      BY <1>1, FreeIPsArePodIPs DEF PodIPs
    <3>4. QED
      BY <1>1, <2>1, <2>3, <3>2, <3>3, MarkersAssumption DEF HeldNoted
  <2>4. QED
    BY <2>2, <2>3
<1>5. QED
  BY <1>2, <1>3, <1>4, HeldSteps

LEMMA OneAtATimeNext ==
    ASSUME IInv, OneAtATime, NEW h \in Handlers, StepOf(h)
    PROVE  OneAtATime'
<1>1. ASSUME NEW g \in Handlers \ {h}, pc'[g] # "idle", pc'[h] # "idle"
      PROVE  frame'[g].pod # frame'[h].pod
  <2>1. pc[g] # "idle" /\ frame'[g].pod = frame[g].pod
    BY <1>1, OthersStay
  <2>2. CASE Continues(h)
    BY <2>1, <2>2 DEF Continues, OneAtATime
  <2>3. CASE Begins(h)
    BY <2>1, <2>3 DEF Begins, Busy
  <2>4. QED
    BY <1>1, <2>2, <2>3, PodSteps
<1>2. ASSUME NEW g \in Handlers \ {h}, NEW i \in Handlers \ {h}, g # i,
             pc'[g] # "idle", pc'[i] # "idle"
      PROVE  frame'[g].pod # frame'[i].pod
  BY <1>2, OthersStay DEF OneAtATime
<1>3. QED
  BY <1>1, <1>2 DEF OneAtATime

LEMMA RequestedNext ==
    ASSUME IInv, HeldNoted, OneAtATime, Requested, NEW h \in Handlers, StepOf(h)
    PROVE  Requested'
<1>1. /\ pending \in [Handlers -> Addresses!Requests \cup {Idle}]
      /\ held \subseteq Pods \X Addresses!Blocks
      /\ frame \in [Handlers -> FrameType]
  BY DEF IInv, TypeOK, Addresses!TypeOK
<1>2. ASSUME NEW g \in Handlers \ {h}, pc'[g] = "record"
      PROVE  /\ pending'[g].pod = frame'[g].pod
             /\ <<pending'[g].pod, pending'[g].free>> \notin held'
  <2>1. /\ pc[g] = "record" /\ frame'[g] = frame[g] /\ pending'[g] = pending[g]
    BY <1>2, OthersStay, HeldGrows
  <2>2. RecordPodIP(h) => frame[h].pod # frame[g].pod
    BY <2>1 DEF RecordPodIP, OneAtATime
  <2>3. <<frame[g].pod, pending[g].free>> \notin held' \ held
    BY <2>2, HeldGrows
  <2>4. QED
    BY <2>1, <2>3 DEF Requested
<1>3. ASSUME pc'[h] = "record"
      PROVE  /\ pending'[h].pod = frame'[h].pod
             /\ <<pending'[h].pod, pending'[h].free>> \notin held'
  <2>1. PICK p \in Pods : BeginInit(h, p)
    BY <1>3, LabelSteps
  <2>2. frame'[h].pod = p
    BY <1>1, <2>1, NoFrameType DEF BeginInit, FrameType, Call
  <2>3. PICK f \in Addresses!FreeIPs \cup {Exhausted} :
            /\ pending' = [pending EXCEPT ![h] = [pod |-> p, free |-> f]]
            /\ f # Exhausted => usedPodAddresses[f] = Nobody
            /\ held' = held
    BY <2>1, MarkersAssumption DEF BeginInit, Addresses!FindFreeIP, Addresses!taken
  <2>4. <<p, f>> \notin held
    BY <1>1, <2>3, FreeIPsArePodIPs, MarkersAssumption DEF HeldNoted, PodIPs
  <2>5. QED
    BY <1>1, <2>2, <2>3, <2>4
<1>4. QED
  BY <1>2, <1>3 DEF Requested

LEMMA OwnOutcomeNext ==
    ASSUME IInv, OneAtATime, OwnOutcome, NEW h \in Handlers, StepOf(h)
    PROVE  OwnOutcome'
<1>0. OneAtATime'
  BY OneAtATimeNext
<1>1. ASSUME NEW g \in Handlers \ {h}, pc'[g] # "idle"
      PROVE  /\ pc'[g] \in InitLabels => outcome'[frame'[g].pod] = "busy"
             /\ pc'[g] \in VethLabels => vethMaster'[frame'[g].pod] = frame'[g].podLink
  <2>1. pc[g] = pc'[g] /\ frame'[g] = frame[g] /\ frame[g].pod \in Pods
    BY <1>1, OthersStay, FrameFacts
  <2>2. /\ pc[h] # "idle" => frame[h].pod # frame[g].pod
        /\ pc'[h] # "idle" => frame'[h].pod # frame[g].pod
    BY <1>0, <1>1, <2>1 DEF OneAtATime
  <2>3. outcome'[frame[g].pod] = outcome[frame[g].pod]
    BY <2>1, <2>2, OutcomeSteps DEF Begins
  <2>4. vethMaster'[frame[g].pod] = vethMaster[frame[g].pod]
    BY <2>1, <2>2, VethSteps DEF Begins
  <2>5. QED
    BY <2>1, <2>3, <2>4 DEF OwnOutcome
<1>2. ASSUME pc'[h] \in InitLabels
      PROVE  outcome'[frame'[h].pod] = "busy"
  <2>1. CASE pc'[h] = "record"
    <3>1. PICK p \in Pods : BeginInit(h, p)
      BY <2>1, LabelSteps
    <3>2. frame'[h].pod = p
      BY <3>1, NoFrameType DEF BeginInit, FrameType, Call, IInv, TypeOK
    <3>3. QED
      BY <3>1, <3>2 DEF BeginInit, IInv, TypeOK
  <2>2. CASE pc'[h] # "record"
    <3>1. pc[h] \in InitLabels
      BY <1>2, <2>2, LabelSteps, RunningSteps
         DEF InitLabels, Running, RecordPodIP, SetupPodBridge
    <3>2. pc'[h] # "idle" /\ pc[h] # "idle"
      BY <1>2, <3>1 DEF InitLabels, Running
    <3>3. Continues(h)
      BY <3>2, PodSteps DEF Begins
    <3>4. QED
      BY <3>1, <3>3, PodSteps DEF Continues, OwnOutcome
  <2>3. QED
    BY <2>1, <2>2
<1>3. ASSUME pc'[h] \in VethLabels
      PROVE  vethMaster'[frame'[h].pod] = frame'[h].podLink
  <2>1. /\ frame'[h].pod = frame[h].pod /\ frame'[h].podLink = frame[h].podLink
        /\ pc'[h] \in Running
    BY <1>3, RunningSteps DEF VethLabels, Running
  <2>2. CASE SetupPodNetNs(h) \/ MRSetupPodNetNs(h)
    <3>1. frame[h].pod \in Pods
      BY <2>2, FrameFacts DEF SetupPodNetNs, MRSetupPodNetNs
    <3>2. QED
      BY <2>1, <2>2, <3>1 DEF SetupPodNetNs, MRSetupPodNetNs, IInv, TypeOK
  <2>3. CASE ~(SetupPodNetNs(h) \/ MRSetupPodNetNs(h))
    <3>1. pc[h] \in VethLabels
      BY <1>3, <2>3, LabelSteps
         DEF VethLabels, NetNsLocalhost, LoadSplit, LoadRedirect, AddRoute,
             PublishRedirect, WriteBack, UpdateOther
    <3>2. frame[h].pod \in Pods /\ pc[h] # "addns" /\ ~Begins(h)
      BY <3>1, FrameFacts DEF VethLabels, Begins
    <3>3. vethMaster'[frame[h].pod] = vethMaster[frame[h].pod]
      BY <3>2, VethSteps
    <3>4. QED
      BY <2>1, <3>1, <3>3 DEF OwnOutcome
  <2>4. QED
    BY <2>2, <2>3
<1>4. QED
  BY <1>1, <1>2, <1>3 DEF OwnOutcome, InitLabels, Running, VethLabels

\* A pod whose InitPodNetwork runs is not up.
LEMMA UpSteps ==
    ASSUME IInv, OwnOutcome, NEW h \in Handlers, StepOf(h), NEW q \in Pods, Up(q)'
    PROVE  \/ /\ Up(q) /\ vethMaster'[q] = vethMaster[q]
           \/ /\ AttachBridge(h) /\ q = frame[h].pod
              /\ vethMaster'[q] = frame[h].podLink
<1>1. CASE outcome'[q] = outcome[q]
  <2>1. Up(q)
    BY <1>1 DEF Up
  <2>2. ~(pc[h] = "addns" /\ q = frame[h].pod)
    BY <2>1 DEF OwnOutcome, Up, InitLabels, Running
  <2>3. QED
    BY <2>1, <2>2, VethSteps DEF Up
<1>2. CASE AttachBridge(h) /\ q = frame[h].pod
  <2>1. pc[h] \in VethLabels /\ vethMaster' = vethMaster
    BY <1>2 DEF AttachBridge, VethLabels, linkVars
  <2>2. QED
    BY <1>2, <2>1 DEF OwnOutcome
<1>3. QED
  BY <1>1, <1>2, OutcomeSteps DEF Up

LEMMA UpWiredNext ==
    ASSUME IInv, OwnOutcome, UpWired, NEW h \in Handlers, StepOf(h)
    PROVE  UpWired'
<1> SUFFICES ASSUME NEW q \in Pods, Up(q)' PROVE vethMaster'[q] # None
  BY DEF UpWired
<1>1. AttachBridge(h) => frame[h].podLink # None
  BY FrameFacts DEF AttachBridge, InitLabels, Running
<1>2. QED
  BY <1>1, UpSteps DEF UpWired

-----------------------------------------------------------------------------
(***************************************************************************)
(* The bridges that a pod's entry, its veth pair and the copies of both    *)
(* name: a step adds one that was just made, and no other.                 *)
(***************************************************************************)
NewBridge(h, q, c) == SetupPodBridge(h) /\ q = frame[h].pod /\ c = frame[h].podLink

LEMMA NamesNext ==
    ASSUME IInv, OwnOutcome, NEW h \in Handlers, StepOf(h),
           NEW q \in Pods, NEW c \in Calls, Names(q, c)'
    PROVE  Names(q, c) \/ NewBridge(h, q, c)
<1>1. CASE podDevices'[q].podBridge = c
  <2>1. CASE SetupPodBridge(h) /\ q = frame[h].pod
    <3>1. podDevices'[q].podBridge = frame[h].podLink
      BY <2>1 DEF SetupPodBridge, NoDevices, IInv, TypeOK
    <3>2. QED
      BY <1>1, <2>1, <3>1 DEF NewBridge
  <2>2. QED
    BY <1>1, <2>1, EntrySteps DEF Alike, KeepsCopy, Names
<1>2. CASE outcome'[q] = "up" /\ vethMaster'[q] = c
  <2>1. CASE Up(q) /\ vethMaster'[q] = vethMaster[q]
    BY <1>2, <2>1 DEF Up, Names
  <2>2. CASE AttachBridge(h) /\ q = frame[h].pod /\ vethMaster'[q] = frame[h].podLink
    BY <1>2, <2>2 DEF AttachBridge, Names, Running
  <2>3. QED
    BY <1>2, <2>1, <2>2, UpSteps DEF Up
<1>3. ASSUME NEW g \in Handlers \ {h},
             \/ pc'[g] \in Running /\ frame'[g].pod = q /\ frame'[g].podLink = c
             \/ pc'[g] = "writeback" /\ frame'[g].target = q /\ frame'[g].dev.podBridge = c
             \/ pc'[g] = "tap" /\ frame'[g].pod = q /\ frame'[g].dev.podBridge = c
      PROVE  Names(q, c)
  BY <1>3, OthersStay DEF Names
<1>4. CASE pc'[h] \in Running /\ frame'[h].pod = q /\ frame'[h].podLink = c
  BY <1>4, RunningSteps DEF Names, NewBridge
<1>5. CASE pc'[h] = "writeback" /\ frame'[h].target = q /\ frame'[h].dev.podBridge = c
  BY <1>5, RunningSteps DEF Names
<1>6. CASE pc'[h] = "tap" /\ frame'[h].pod = q /\ frame'[h].dev.podBridge = c
  BY <1>6, RunningSteps DEF Names
<1>7. QED
  BY <1>1, <1>2, <1>3, <1>4, <1>5, <1>6 DEF Names

\* The address of a bridge that has a name stays.
LEMMA NamedStay ==
    ASSUME IInv, NamedHeld, NEW h \in Handlers, StepOf(h),
           NEW q \in Pods, NEW c \in Calls, Names(q, c)
    PROVE  /\ bridgeAddr[c] \in PodIPs /\ bridgeAddr[c] # None
           /\ bridgeAddr'[c] = bridgeAddr[c]
<1>1. <<q, bridgeAddr[c]>> \in held /\ held \subseteq Pods \X PodIPs
  BY DEF NamedHeld, IInv, TypeOK, Addresses!TypeOK, PodIPs
<1>2. bridgeAddr[c] \in PodIPs /\ bridgeAddr[c] # None
  BY <1>1, PodIPsPositive
<1>3. QED
  BY <1>2, BridgeAddressesStay

LEMMA NamedHeldNext ==
    ASSUME IInv, Requested, OwnOutcome, NamedHeld, NewAddress,
           NEW h \in Handlers, StepOf(h)
    PROVE  NamedHeld'
<1> SUFFICES ASSUME NEW q \in Pods, NEW c \in Calls, Names(q, c)'
             PROVE  <<q, bridgeAddr'[c]>> \in held'
  BY DEF NamedHeld
<1>1. held \subseteq held'
  BY HeldGrows
<1>2. CASE Names(q, c)
  BY <1>1, <1>2, NamedStay DEF NamedHeld
<1>3. CASE NewBridge(h, q, c)
  <2>1. bridgeAddr'[c] = frame[h].podIp /\ frame[h].podIp # None
    BY <1>3, SetupPodBridgeFacts DEF NewBridge
  <2>2. <<q, frame[h].podIp>> \in held
    BY <1>3, <2>1 DEF NewBridge, NewAddress, SetupPodBridge
  <2>3. QED
    BY <1>1, <2>1, <2>2
<1>4. QED
  BY <1>2, <1>3, NamesNext

LEMMA OneBridgeNext ==
    ASSUME IInv, OwnOutcome, NamedHeld, OneBridge, NewAddress,
           NEW h \in Handlers, StepOf(h)
    PROVE  OneBridge'
<1>1. ASSUME NEW q \in Pods, NEW c \in Calls, NEW d \in Calls,
             NewBridge(h, q, c), Names(q, d)
      PROVE  bridgeAddr'[c] # bridgeAddr'[d]
  <2>1. bridgeAddr'[c] = frame[h].podIp /\ frame[h].podIp # None
    BY <1>1, SetupPodBridgeFacts DEF NewBridge
  <2>2. bridgeAddr[d] # frame[h].podIp
    BY <1>1, <2>1 DEF NewBridge, NewAddress, SetupPodBridge
  <2>3. bridgeAddr'[d] = bridgeAddr[d]
    BY <1>1, NamedStay
  <2>4. QED
    BY <2>1, <2>2, <2>3
<1>2. ASSUME NEW q \in Pods, NEW c \in Calls, NEW d \in Calls,
             Names(q, c), Names(q, d), bridgeAddr'[c] = bridgeAddr'[d]
      PROVE  c = d
  <2>1. bridgeAddr'[c] = bridgeAddr[c]
    BY <1>2, NamedStay
  <2>2. bridgeAddr'[d] = bridgeAddr[d]
    BY <1>2, NamedStay
  <2>3. QED
    BY <1>2, <2>1, <2>2 DEF OneBridge
<1> SUFFICES ASSUME NEW q \in Pods, NEW c \in Calls, NEW d \in Calls,
                    Names(q, c)', Names(q, d)', bridgeAddr'[c] = bridgeAddr'[d]
             PROVE  c = d
  BY DEF OneBridge
<1>3. Names(q, c) \/ NewBridge(h, q, c)
  BY NamesNext
<1>4. Names(q, d) \/ NewBridge(h, q, d)
  BY NamesNext
<1>5. NewBridge(h, q, c) /\ NewBridge(h, q, d) => c = d
  BY DEF NewBridge
<1>6. QED
  BY <1>1, <1>2, <1>3, <1>4, <1>5

LEMMA NewAddressNext ==
    ASSUME IInv, OneAtATime, Requested, OwnOutcome, NamedHeld, NewAddress,
           NEW h \in Handlers, StepOf(h)
    PROVE  NewAddress'
<1>1. ASSUME NEW g \in Handlers \ {h}, NEW q, q = frame'[g].pod,
             pc'[g] = "bridge", frame'[g].podIp # None
      PROVE  /\ <<q, frame'[g].podIp>> \in held'
             /\ \A c \in Calls : Names(q, c)' => bridgeAddr'[c] # frame'[g].podIp
  <2>1. /\ pc[g] = "bridge" /\ frame'[g] = frame[g] /\ q \in Pods
        /\ q = frame[g].pod /\ frame[g].podIp # None
    BY <1>1, OthersStay, FrameFacts
  <2>2. <<q, frame[g].podIp>> \in held'
    BY <2>1, HeldGrows DEF NewAddress
  <2>3. ASSUME NEW c \in Calls, Names(q, c)'
        PROVE  bridgeAddr'[c] # frame[g].podIp
    <3>1. ~NewBridge(h, q, c)
      BY <2>1 DEF NewBridge, SetupPodBridge, OneAtATime
    <3>2. Names(q, c)
      BY <2>1, <2>3, <3>1, NamesNext
    <3>3. bridgeAddr'[c] = bridgeAddr[c]
      BY <2>1, <3>2, NamedStay
    <3>4. QED
      BY <2>1, <3>2, <3>3 DEF NewAddress
  <2>4. QED
    BY <2>1, <2>2, <2>3
<1>2. ASSUME NEW q, q = frame'[h].pod, pc'[h] = "bridge", frame'[h].podIp # None
      PROVE  /\ <<q, frame'[h].podIp>> \in held'
             /\ \A c \in Calls : Names(q, c)' => bridgeAddr'[c] # frame'[h].podIp
  <2>1. RecordPodIP(h)
    BY <1>2, LabelSteps
  <2>2. /\ q = frame[h].pod /\ frame'[h].podIp = pending[h].free
        /\ <<q, pending[h].free>> \in held'
    BY <1>2, <2>1, HeldGrows
  <2>3. q \in Pods /\ <<q, pending[h].free>> \notin held
    BY <2>1, <2>2, FrameFacts DEF RecordPodIP, Requested
  <2>4. ASSUME NEW c \in Calls, Names(q, c)'
        PROVE  bridgeAddr'[c] # pending[h].free
    <3>1. ~NewBridge(h, q, c)
      BY <2>1 DEF NewBridge, RecordPodIP, SetupPodBridge
    <3>2. Names(q, c)
      BY <2>3, <2>4, <3>1, NamesNext
    <3>3. bridgeAddr'[c] = bridgeAddr[c]
      BY <2>3, <3>2, NamedStay
    <3>4. QED
      BY <2>3, <3>2, <3>3 DEF NamedHeld
  <2>5. QED
    BY <2>2, <2>4
<1>3. QED
  BY <1>1, <1>2 DEF NewAddress

-----------------------------------------------------------------------------
(***************************************************************************)
(* A pod that was deployed once has one bridge, whatever names it.         *)
(***************************************************************************)
LEMMA OneName ==
    ASSUME IInv, NamedHeld, OneBridge, NEW p \in Pods, DeployedOnce(p),
           NEW c \in Calls, NEW d \in Calls, Names(p, c), Names(p, d)
    PROVE  c = d
<1>1. <<p, bridgeAddr[c]>> \in held /\ <<p, bridgeAddr[d]>> \in held
  BY DEF NamedHeld
<1>2. bridgeAddr[c] \in PodIPs /\ bridgeAddr[d] \in PodIPs
  BY <1>1 DEF IInv, TypeOK, Addresses!TypeOK, PodIPs
<1>3. QED
  BY <1>1, <1>2 DEF DeployedOnce, OneBridge

LEMMA DeployedOnceBefore ==
    ASSUME IInv, Requested, NEW h \in Handlers, StepOf(h),
           NEW p \in Pods, DeployedOnce(p)'
    PROVE  DeployedOnce(p)
BY HeldGrows DEF DeployedOnce

LEMMA MapsOwnNext ==
    ASSUME IInv, Requested, NamedHeld, OneBridge, MapsOwn,
           NEW h \in Handlers, StepOf(h)
    PROVE  MapsOwn'
<1> SUFFICES ASSUME NEW p \in Pods, DeployedOnce(p)'
             PROVE  /\ OwnMap(podDevices'[p])
                    /\ \A g \in Handlers : KeepsCopy(g, p)' => OwnMap(frame'[g].dev)
  BY DEF MapsOwn, OwnMap
<1>1. DeployedOnce(p) /\ OwnMap(podDevices[p])
  BY DeployedOnceBefore DEF MapsOwn
<1>2. OwnMap(podDevices'[p])
  <2>1. CASE Alike(podDevices'[p], podDevices[p])
    BY <1>1, <2>1 DEF Alike, OwnMap
  <2>2. CASE KeepsCopy(h, p) /\ podDevices'[p] = frame[h].dev
    <3>1. OwnMap(frame[h].dev)
      BY <1>1, <2>2 DEF KeepsCopy, MapsOwn
    <3>2. QED
      BY <2>2, <3>1
  <2>3. CASE podDevices'[p].fromSubpodBpfMap = None
    BY <2>3 DEF OwnMap
  <2>4. CASE /\ PublishRedirect(h) /\ p = frame[h].pod
             /\ podDevices'[p].podBridge = podDevices[p].podBridge
             /\ podDevices'[p].fromSubpodBpfMap = frame[h].podLink
    <3>1. /\ pc[h] \in Running /\ podDevices[p].podBridge # None
          /\ frame[h].podLink \in Calls
      BY <2>4, FrameFacts
         DEF PublishRedirect, InitLabels, Running, IInv, FramesMatch, FrameMatches, HasBridge
    <3>2. podDevices[p].podBridge \in Calls
      BY <3>1 DEF IInv, TypeOK, PodDevicesType, MaybeCall
    <3>3. Names(p, podDevices[p].podBridge) /\ Names(p, frame[h].podLink)
      BY <2>4, <3>1 DEF Names
    <3>4. podDevices[p].podBridge = frame[h].podLink
      BY <1>1, <3>1, <3>2, <3>3, OneName
    <3>5. QED
      BY <2>4, <3>4 DEF OwnMap
  <2>5. QED
    BY <2>1, <2>2, <2>3, <2>4, EntrySteps
<1>3. ASSUME NEW g \in Handlers \ {h}, KeepsCopy(g, p)'
      PROVE  OwnMap(frame'[g].dev)
  BY <1>1, <1>3, OthersStay DEF MapsOwn, KeepsCopy
<1>4. ASSUME KeepsCopy(h, p)' PROVE OwnMap(frame'[h].dev)
  BY <1>1, <1>4, RunningSteps DEF KeepsCopy
<1>5. QED
  BY <1>2, <1>3, <1>4

\* Only the two loops over podDevices write routes.
LEMMA RedirectSteps ==
    ASSUME NEW h \in Handlers, StepOf(h)
    PROVE  AddRoute(h) \/ UpdateOther(h) \/ UNCHANGED redirectMap
<1> USE DEF bpfVars, vars
<1>1. CASE EitherInit(h)
  BY <1>1 DEF EitherInit, InitPodNetwork, MRSetupPodNetNs, RecordPodIP,
      SetupPodBridge, SetupPodBridgePanics, GetNetNsIP, SetupPodNetNs,
      SetupPodNetNsFails, NetNsLocalhost, NetNsLocalhostFails, LoadSplit,
      LoadPanics, LoadRedirect, PublishRedirect, UpdateOtherPanics,
      WriteBack, AttachBridge
<1>2. CASE EitherTun(h) \/ StopPodNetwork(h)
  BY <1>2 DEF EitherTun, CreateVMTun, MRTapMissing, MRAddTap, AddTap, AddTapPanics,
      TapLocalhost, TapLocalhostPanics, StopPodNetwork, DeleteBridge,
      DeleteBridgePanics
<1>3. ASSUME NEW p \in Pods, Begin(h, p) PROVE UNCHANGED redirectMap
  BY <1>3 DEF Begin, BeginInit, BeginVMTun, VMTunFails, DeleteNetNs, DeleteNetNsFails
<1>4. QED
  BY <1>1, <1>2, <1>3 DEF StepOf

-----------------------------------------------------------------------------
(***************************************************************************)
(* Routes of pods that were deployed once.  From SetupPodBridge to the end *)
(* of its call, and while it is up, a pod is settled: its entry keeps its  *)
(* bridge and address, whoever stores a copy.                              *)
(***************************************************************************)
Settled(p) == Up(p) \/ Runs(p, Running)

LEMMA SettledEntry ==
    ASSUME IInv, NEW p \in Pods, Settled(p)
    PROVE  /\ podDevices[p].podBridge \in Calls /\ podDevices[p].podBridge # None
           /\ podDevices[p].baseAddr \in PodIPs
           /\ bridgeAddr[podDevices[p].podBridge] = podDevices[p].baseAddr
           /\ Names(p, podDevices[p].podBridge)
<1>1. podDevices[p].podBridge # None
  BY DEF Settled, Up, Runs, IInv, OutcomesMatch, FramesMatch, FrameMatches, HasBridge
<1>2. podDevices[p] \in PodDevicesType /\ Matches(podDevices[p])
  BY DEF IInv, TypeOK, EntriesMatch
<1>3. QED
  BY <1>1, <1>2 DEF Matches, PodDevicesType, MaybeCall, Names

LEMMA SettledStays ==
    ASSUME IInv, MeshInv, NEW h \in Handlers, StepOf(h), NEW p \in Pods,
           Settled(p), DeployedOnce(p)
    PROVE  /\ podDevices'[p].podBridge = podDevices[p].podBridge
           /\ podDevices'[p].baseAddr = podDevices[p].baseAddr
<1>1. CASE KeepsCopy(h, p) /\ podDevices'[p] = frame[h].dev
  <2>1. /\ frame[h].dev \in PodDevicesType /\ Matches(frame[h].dev)
        /\ frame[h].dev.podBridge # None
    BY <1>1, FrameFacts DEF IInv, EntriesMatch, FramesMatch, FrameMatches, KeepsCopy
  <2>2. frame[h].dev.podBridge \in Calls
    BY <2>1 DEF PodDevicesType, MaybeCall
  <2>3. Names(p, frame[h].dev.podBridge)
    BY <1>1 DEF KeepsCopy, Names
  <2>4. /\ podDevices[p].podBridge \in Calls /\ Names(p, podDevices[p].podBridge)
        /\ bridgeAddr[podDevices[p].podBridge] = podDevices[p].baseAddr
    BY SettledEntry
  <2>5. frame[h].dev.podBridge = podDevices[p].podBridge
    BY <2>2, <2>3, <2>4, OneName DEF MeshInv
  <2>6. QED
    BY <1>1, <2>1, <2>4, <2>5 DEF Matches
<1>2. ~(SetupPodBridge(h) /\ p = frame[h].pod)
  <2> SUFFICES ASSUME SetupPodBridge(h), p = frame[h].pod PROVE FALSE
    OBVIOUS
  <2>1. pc[h] = "bridge"
    BY DEF SetupPodBridge
  <2>2. outcome[p] = "busy"
    BY <2>1 DEF MeshInv, OwnOutcome, InitLabels
  <2>3. PICK g \in Handlers : pc[g] \in Running /\ frame[g].pod = p
    BY <2>2 DEF Settled, Up, Runs
  <2>4. QED
    BY <2>1, <2>3 DEF MeshInv, OneAtATime, Running
<1>3. QED
  BY <1>1, <1>2, EntrySteps DEF Alike

\* Nobody else has the address of a pod that is alone.
LEMMA AloneNames ==
    ASSUME IInv, NamedHeld, NEW q \in Pods, Alone(q), NEW r \in Pods, NEW c \in Calls,
           Names(r, c), bridgeAddr[c] = podDevices[q].baseAddr
    PROVE  r = q
BY DEF NamedHeld, Alone

\* What a step makes of a route between two such pods: what it was, or right.
LEMMA RouteKept ==
    ASSUME IInv, MeshInv, NEW h \in Handlers, StepOf(h),
           NEW p \in Pods, NEW q \in Pods, Settled(p), Settled(q),
           DeployedOnce(q), Alone(q),
           NEW c \in Calls, c = podDevices[p].podBridge,
           NEW a \in PodIPs, a = podDevices[q].baseAddr
    PROVE  redirectMap'[c][a] \in {redirectMap[c][a], podDevices[q].podBridge}
<1>1. redirectMap \in [Calls -> [PodIPs -> MaybeCall]]
  BY DEF IInv, TypeOK
<1>2. CASE AddRoute(h) /\ redirectMap'[c][a] # redirectMap[c][a]
  <2>1. PICK r \in frame[h].todo :
            redirectMap' = [redirectMap EXCEPT
                ![frame[h].podLink][podDevices[r].baseAddr] = podDevices[r].podBridge]
    BY <1>2 DEF AddRoute
  <2>2. a = podDevices[r].baseAddr /\ redirectMap'[c][a] = podDevices[r].podBridge
    BY <1>1, <1>2, <2>1
  <2>3. r \in Pods /\ HasBridge(r) /\ podDevices[r] \in PodDevicesType
        /\ Matches(podDevices[r])
    BY FrameFacts DEF IInv, TypeOK, EntriesMatch, FramesMatch, FrameMatches
  <2>4. /\ podDevices[r].podBridge \in Calls /\ Names(r, podDevices[r].podBridge)
        /\ bridgeAddr[podDevices[r].podBridge] = podDevices[q].baseAddr
    BY <2>2, <2>3 DEF HasBridge, PodDevicesType, MaybeCall, Matches, Names
  <2>5. r = q
    BY <2>3, <2>4, AloneNames DEF MeshInv
  <2>6. QED
    BY <2>2, <2>5
<1>3. CASE UpdateOther(h) /\ redirectMap'[c][a] # redirectMap[c][a]
  <2>1. PICK r \in frame[h].todo :
            redirectMap' = [redirectMap EXCEPT
                ![podDevices[r].fromSubpodBpfMap][frame[h].podIp] = frame[h].podLink]
    BY <1>3 DEF UpdateOther
  <2>2. a = frame[h].podIp /\ redirectMap'[c][a] = frame[h].podLink
    BY <1>1, <1>3, <2>1
  <2>3. /\ pc[h] \in Running /\ frame[h].pod \in Pods /\ frame[h].podLink \in Calls
        /\ bridgeAddr[frame[h].podLink] = frame[h].podIp
    BY <1>3, FrameFacts
       DEF UpdateOther, IInv, FramesMatch, FrameMatches, Running, InitLabels
  <2>4. Names(frame[h].pod, frame[h].podLink)
    BY <2>3 DEF Names
  <2>5. frame[h].pod = q
    BY <2>2, <2>3, <2>4, AloneNames DEF MeshInv
  <2>6. podDevices[q].podBridge \in Calls /\ Names(q, podDevices[q].podBridge)
    BY SettledEntry
  <2>7. podDevices[q].podBridge = frame[h].podLink
    BY <2>3, <2>4, <2>5, <2>6, OneName DEF MeshInv
  <2>8. QED
    BY <2>2, <2>7
<1>4. QED
  BY <1>2, <1>3, RedirectSteps

\* Who has routes (p) or is to be reached (q) after a step was settled before.
LEMMA RoutesSteps ==
    ASSUME IInv, OwnOutcome, NEW h \in Handlers, StepOf(h), NEW p \in Pods, Routes(p)'
    PROVE  /\ Settled(p)
           /\ Routes(p) \/ (LoadRedirect(h) /\ p = frame[h].pod)
<1>1. CASE Up(p)'
  <2>1. CASE Up(p)
    BY <2>1 DEF Settled, Routes
  <2>2. CASE AttachBridge(h) /\ p = frame[h].pod
    <3>1. Runs(p, Looped) /\ Runs(p, Running)
      BY <2>2 DEF AttachBridge, Runs, Looped, Running
    <3>2. QED
      BY <3>1 DEF Settled, Routes
  <2>3. QED
    BY <1>1, <2>1, <2>2, UpSteps
<1>2. CASE Runs(p, Looped)'
  <2>1. PICK g \in Handlers : pc'[g] \in Looped /\ frame'[g].pod = p
    BY <1>2 DEF Runs
  <2>2. CASE g # h
    BY <2>1, <2>2, OthersStay DEF Routes, Settled, Runs, Looped, Running
  <2>3. CASE g = h
    <3>1. /\ frame[h].pod = p
          /\ LoadRedirect(h) \/ pc[h] \in Looped
      BY <2>1, <2>3, LabelSteps, RunningSteps
         DEF Looped, Running, AddRoute, PublishRedirect, WriteBack, UpdateOther
    <3>2. pc[h] \in Running
      BY <3>1 DEF Looped, Running, LoadRedirect
    <3>3. QED
      BY <3>1, <3>2 DEF Routes, Settled, Runs
  <2>4. QED
    BY <2>2, <2>3
<1>3. QED
  BY <1>1, <1>2 DEF Routes

LEMMA AnnouncesSteps ==
    ASSUME IInv, OwnOutcome, NEW h \in Handlers, StepOf(h), NEW q \in Pods, Announces(q)'
    PROVE  /\ Settled(q)
           /\ Announces(q) \/ (PublishRedirect(h) /\ q = frame[h].pod)
<1>1. CASE Up(q)'
  <2>1. CASE Up(q)
    BY <2>1 DEF Settled, Announces
  <2>2. CASE AttachBridge(h) /\ q = frame[h].pod
    <3>1. Runs(q, {"update", "writeback"}) /\ Runs(q, Running)
      BY <2>2 DEF AttachBridge, Runs, Running
    <3>2. QED
      BY <3>1 DEF Settled, Announces
  <2>3. QED
    BY <1>1, <2>1, <2>2, UpSteps
<1>2. CASE Runs(q, {"update", "writeback"})'
  <2>1. PICK g \in Handlers : pc'[g] \in {"update", "writeback"} /\ frame'[g].pod = q
    BY <1>2 DEF Runs
  <2>2. CASE g # h
    BY <2>1, <2>2, OthersStay DEF Announces, Settled, Runs, Running
  <2>3. CASE g = h
    <3>1. /\ frame[h].pod = q
          /\ PublishRedirect(h) \/ pc[h] \in {"update", "writeback"}
      BY <2>1, <2>3, LabelSteps, RunningSteps
         DEF Running, WriteBack, UpdateOther
    <3>2. pc[h] \in Running
      BY <3>1 DEF Running, PublishRedirect
    <3>3. QED
      BY <3>1, <3>2 DEF Announces, Settled, Runs
  <2>4. QED
    BY <2>2, <2>3
<1>3. QED
  BY <1>1, <1>2 DEF Announces

\* A route that is due is written when its turn comes.
LEMMA AddsRouteSteps ==
    ASSUME IInv, MeshInv, NEW h \in Handlers, StepOf(h),
           NEW p \in Pods, NEW q \in Pods, Settled(p), Settled(q), DeployedOnce(p),
           NEW g \in Handlers, AddsRoute(g, p, q)
    PROVE  \/ AddsRoute(g, p, q)'
           \/ redirectMap'[podDevices[p].podBridge][podDevices[q].baseAddr]
                  = podDevices[q].podBridge
           \/ ~Routes(p)'
<1>1. CASE g # h
  BY <1>1, OthersStay DEF AddsRoute
<1>2. CASE g = h /\ AddRoute(h)
  <2>1. PICK r \in frame[h].todo :
            /\ redirectMap' = [redirectMap EXCEPT
                   ![frame[h].podLink][podDevices[r].baseAddr] = podDevices[r].podBridge]
            /\ frame' = [frame EXCEPT ![h].todo = @ \ {r}]
    BY <1>2 DEF AddRoute
  <2>2. CASE r = q
    <3>1. /\ frame[h].podLink \in Calls /\ Names(p, frame[h].podLink)
      BY <1>2, FrameFacts DEF AddsRoute, Names, InitLabels, Running
    <3>2. /\ podDevices[p].podBridge \in Calls /\ Names(p, podDevices[p].podBridge)
          /\ podDevices[q].baseAddr \in PodIPs
      BY SettledEntry
    <3>3. podDevices[p].podBridge = frame[h].podLink
      BY <3>1, <3>2, OneName DEF MeshInv
    <3>4. QED
      BY <2>1, <2>2, <3>1, <3>2, <3>3 DEF IInv, TypeOK
  <2>3. CASE r # q
    <3>1. frame[h] \in FrameType /\ pc' = pc
      BY <1>2, FrameFacts DEF AddRoute
    <3>2. frame'[h] = [frame[h] EXCEPT !.todo = @ \ {r}]
      BY <2>1 DEF IInv, TypeOK
    <3>3. frame'[h].pod = frame[h].pod /\ frame'[h].todo = frame[h].todo \ {r}
      BY <3>1, <3>2 DEF FrameType
    <3>4. QED
      BY <1>2, <2>3, <3>1, <3>3 DEF AddsRoute
  <2>4. QED
    BY <2>2, <2>3
<1>3. CASE g = h /\ ~AddRoute(h)
  <2>1. pc[h] = "addroutes" /\ frame[h].pod = p /\ frame[h].todo # {}
    BY <1>3 DEF AddsRoute
  <2>2. pc'[h] \notin Looped
    BY <1>3, <2>1, LabelSteps
       DEF Looped, LoadRedirect, PublishRedirect, WriteBack, UpdateOther
  <2>3. outcome[p] = "busy" /\ ~AttachBridge(h)
    BY <2>1 DEF MeshInv, OwnOutcome, InitLabels, Running, AttachBridge
  <2>4. ~Up(p)'
    BY <2>3, UpSteps DEF Up, MeshInv
  <2>5. \A i \in Handlers \ {h} : ~(pc'[i] \in Looped /\ frame'[i].pod = p)
    BY <2>1, OthersStay DEF MeshInv, OneAtATime, Looped
  <2>6. QED
    BY <2>2, <2>4, <2>5 DEF Routes, Runs
<1>4. QED
  BY <1>1, <1>2, <1>3

LEMMA TellsSteps ==
    ASSUME IInv, MeshInv, NEW h \in Handlers, StepOf(h),
           NEW p \in Pods, NEW q \in Pods, Settled(p), Settled(q),
           DeployedOnce(p), DeployedOnce(q),
           NEW g \in Handlers, Tells(g, q, p)
    PROVE  \/ Tells(g, q, p)'
           \/ redirectMap'[podDevices[p].podBridge][podDevices[q].baseAddr]
                  = podDevices[q].podBridge
           \/ ~Announces(q)'
<1>1. CASE g # h
  BY <1>1, OthersStay DEF Tells
<1>2. CASE g = h /\ UpdateOther(h)
  <2>1. PICK r \in frame[h].todo :
            /\ podDevices[r].fromSubpodBpfMap # None
            /\ redirectMap' = [redirectMap EXCEPT
                   ![podDevices[r].fromSubpodBpfMap][frame[h].podIp] = frame[h].podLink]
            /\ Call(h, "writeback", [frame[h] EXCEPT !.target = r, !.dev = podDevices[r],
                                                     !.todo = @ \ {r}])
    BY <1>2 DEF UpdateOther
  <2>2. CASE r = p
    <3>1. /\ frame[h].podLink \in Calls /\ Names(q, frame[h].podLink)
          /\ bridgeAddr[frame[h].podLink] = frame[h].podIp
      BY <1>2, FrameFacts
         DEF Tells, Names, InitLabels, Running, IInv, FramesMatch, FrameMatches
    <3>2. /\ podDevices[q].podBridge \in Calls /\ Names(q, podDevices[q].podBridge)
          /\ podDevices[q].baseAddr \in PodIPs
          /\ bridgeAddr[podDevices[q].podBridge] = podDevices[q].baseAddr
      BY SettledEntry
    <3>3. podDevices[q].podBridge = frame[h].podLink
      BY <3>1, <3>2, OneName DEF MeshInv
    <3>4. /\ podDevices[p].fromSubpodBpfMap = podDevices[p].podBridge
          /\ podDevices[p].podBridge \in Calls
      BY <2>1, <2>2, SettledEntry DEF MeshInv, MapsOwn, OwnMap
    <3>5. QED
      BY <2>1, <2>2, <3>1, <3>2, <3>3, <3>4 DEF IInv, TypeOK
  <2>3. CASE r # p
    <3>1. frame[h] \in FrameType
      BY FrameFacts
    <3>2. /\ pc'[h] = "writeback"
          /\ frame'[h] = [frame[h] EXCEPT !.target = r, !.dev = podDevices[r],
                                          !.todo = @ \ {r}]
      BY <2>1 DEF Call, Goto, IInv, TypeOK
    <3>3. frame'[h].pod = frame[h].pod /\ frame'[h].todo = frame[h].todo \ {r}
      BY <3>1, <3>2 DEF FrameType
    <3>4. QED
      BY <1>2, <2>3, <3>2, <3>3 DEF Tells
  <2>4. QED
    BY <2>2, <2>3
<1>3. CASE g = h /\ WriteBack(h)
  <2>1. /\ pc'[h] = "update" /\ frame[h] \in FrameType
        /\ frame'[h] = [frame[h] EXCEPT !.target = Nobody, !.dev = NoDevices]
    BY <1>3, FrameFacts DEF WriteBack, Call, Goto, IInv, TypeOK
  <2>2. frame'[h].pod = frame[h].pod /\ frame'[h].todo = frame[h].todo
    BY <2>1 DEF FrameType
  <2>3. QED
    BY <1>3, <2>1, <2>2 DEF Tells
<1>4. CASE g = h /\ ~UpdateOther(h) /\ ~WriteBack(h)
  <2>1. /\ pc[h] \in {"update", "writeback"} /\ frame[h].pod = q
        /\ pc[h] = "update" => frame[h].todo # {}
    BY <1>4 DEF Tells
  <2>2. pc'[h] \notin {"update", "writeback"}
    BY <1>4, <2>1, LabelSteps DEF PublishRedirect
  <2>3. outcome[q] = "busy" /\ ~AttachBridge(h)
    BY <2>1 DEF MeshInv, OwnOutcome, InitLabels, Running, AttachBridge
  <2>4. ~Up(q)'
    BY <2>3, UpSteps DEF Up, MeshInv
  <2>5. \A i \in Handlers \ {h} :
            ~(pc'[i] \in {"update", "writeback"} /\ frame'[i].pod = q)
    BY <2>1, OthersStay DEF MeshInv, OneAtATime
  <2>6. QED
    BY <2>2, <2>4, <2>5 DEF Announces, Runs
<1>5. QED
  BY <1>1, <1>2, <1>3, <1>4

\* A loop that starts has the settled pods with another address before it.
LEMMA LoopHas ==
    ASSUME IInv, MeshInv, NEW h \in Handlers, pc[h] \in Running,
           NEW p \in Pods, p = frame[h].pod,
           NEW q \in Pods, p # q, Settled(q), DeployedOnce(p),
           Alone(p) \/ Alone(q)
    PROVE  q \in Others(frame[h].podLink)
<1>1. /\ podDevices[q].podBridge \in Calls /\ podDevices[q].podBridge # None
      /\ Names(q, podDevices[q].podBridge)
      /\ bridgeAddr[podDevices[q].podBridge] = podDevices[q].baseAddr
  BY SettledEntry
<1>2. frame[h].podLink \in Calls /\ Names(p, frame[h].podLink)
  BY FrameFacts DEF Names, InitLabels
<1>3. /\ podDevices[p].podBridge \in Calls /\ Names(p, podDevices[p].podBridge)
      /\ bridgeAddr[podDevices[p].podBridge] = podDevices[p].baseAddr
  BY SettledEntry DEF Settled, Runs
<1>4. podDevices[p].podBridge = frame[h].podLink
  BY <1>2, <1>3, OneName DEF MeshInv
<1>5. podDevices[q].podBridge # frame[h].podLink
  <2> SUFFICES ASSUME podDevices[q].podBridge = frame[h].podLink PROVE FALSE
    OBVIOUS
  <2>1. Names(p, podDevices[q].podBridge) /\ Names(q, podDevices[p].podBridge)
    BY <1>1, <1>2, <1>4
  <2>2. /\ bridgeAddr[podDevices[q].podBridge] = podDevices[q].baseAddr
        /\ bridgeAddr[podDevices[p].podBridge] = podDevices[p].baseAddr
    BY <1>1, <1>3
  <2>3. ~Alone(q)
    BY <1>1, <2>1, <2>2, AloneNames DEF MeshInv
  <2>4. ~Alone(p)
    BY <1>3, <2>1, <2>2, AloneNames DEF MeshInv
  <2>5. QED
    BY <2>3, <2>4
<1>6. QED
  BY <1>1, <1>5 DEF Others

LEMMA RoutingNext ==
    ASSUME IInv, MeshInv, NEW h \in Handlers, StepOf(h)
    PROVE  Routing'
<1> SUFFICES ASSUME NEW p \in Pods, NEW q \in Pods,
                    p # q, DeployedOnce(p)', DeployedOnce(q)', Alone(q)',
                    Routes(p)', Announces(q)'
             PROVE  \/ Routed(p, q)'
                    \/ \E g \in Handlers : (AddsRoute(g, p, q) \/ Tells(g, q, p))'
  BY DEF Routing
<1>1. /\ Requested /\ OwnOutcome /\ OneAtATime /\ NamedHeld
  BY DEF MeshInv
<1>2. /\ DeployedOnce(p) /\ DeployedOnce(q)
  BY <1>1, DeployedOnceBefore
<1>3. Settled(p) /\ Settled(q)
  BY <1>1, RoutesSteps, AnnouncesSteps
<1>4. /\ podDevices'[p].podBridge = podDevices[p].podBridge
      /\ podDevices'[q].podBridge = podDevices[q].podBridge
      /\ podDevices'[q].baseAddr = podDevices[q].baseAddr
  BY <1>2, <1>3, SettledStays
<1>5. Alone(q)
  BY <1>1, <1>4, HeldGrows DEF Alone
<1>6. /\ podDevices[p].podBridge \in Calls /\ podDevices[q].baseAddr \in PodIPs
  BY <1>3, SettledEntry
<1> DEFINE Now == redirectMap'[podDevices[p].podBridge][podDevices[q].baseAddr]
                      = podDevices[q].podBridge
<1>7. Now => Routed(p, q)'
  BY <1>4 DEF Routed
<1>8. CASE Routes(p) /\ Announces(q)
  <2>1. CASE Routed(p, q)
    <3>1. redirectMap[podDevices[p].podBridge][podDevices[q].baseAddr]
              = podDevices[q].podBridge
      BY <2>1 DEF Routed
    <3>2. Now
      BY <1>2, <1>3, <1>5, <1>6, <3>1, RouteKept
    <3>3. QED
      BY <1>7, <3>2
  <2>2. ASSUME NEW g \in Handlers, AddsRoute(g, p, q)
        PROVE  Now \/ AddsRoute(g, p, q)'
    BY <1>2, <1>3, <2>2, AddsRouteSteps
  <2>3. ASSUME NEW g \in Handlers, Tells(g, q, p)
        PROVE  Now \/ Tells(g, q, p)'
    BY <1>2, <1>3, <2>3, TellsSteps
  <2>4. QED
    BY <1>2, <1>5, <1>7, <1>8, <2>1, <2>2, <2>3 DEF MeshInv, Routing
<1>9. CASE LoadRedirect(h) /\ p = frame[h].pod
  <2>1. q \in Others(frame[h].podLink) /\ frame[h] \in FrameType
    BY <1>2, <1>3, <1>5, <1>9, LoopHas, FrameFacts DEF LoadRedirect, Running
  <2>2. /\ pc'[h] = "addroutes"
        /\ frame'[h] = [frame[h] EXCEPT !.todo = Others(frame[h].podLink)]
    BY <1>9 DEF LoadRedirect, Call, Goto, IInv, TypeOK
  <2>3. frame'[h].pod = p /\ frame'[h].todo = Others(frame[h].podLink)
    BY <1>9, <2>1, <2>2 DEF FrameType
  <2>4. AddsRoute(h, p, q)'
    BY <2>1, <2>2, <2>3 DEF AddsRoute
  <2>5. QED
    BY <2>4
<1>10. CASE PublishRedirect(h) /\ q = frame[h].pod
  <2>1. p \in Others(frame[h].podLink) /\ frame[h] \in FrameType
    BY <1>2, <1>3, <1>5, <1>10, LoopHas, FrameFacts DEF PublishRedirect, Running
  <2>2. /\ pc'[h] = "update"
        /\ frame'[h] = [frame[h] EXCEPT !.todo = Others(frame[h].podLink)]
    BY <1>10 DEF PublishRedirect, Call, Goto, IInv, TypeOK
  <2>3. frame'[h].pod = q /\ frame'[h].todo = Others(frame[h].podLink)
    BY <1>10, <2>1, <2>2 DEF FrameType
  <2>4. Tells(h, q, p)'
    BY <2>1, <2>2, <2>3 DEF Tells
  <2>5. QED
    BY <2>4
<1>11. QED
  BY <1>1, <1>8, <1>9, <1>10, RoutesSteps, AnnouncesSteps

LEMMA InitMeshInv == Init => MeshInv
<1> SUFFICES ASSUME Init PROVE MeshInv
  OBVIOUS
<1> USE DEF Init
<1>1. HeldNoted /\ Requested /\ NewAddress /\ OneAtATime /\ OwnOutcome
  BY DEF Addresses!Init, HeldNoted, Requested, NewAddress, OneAtATime, OwnOutcome,
         InitLabels, Running, VethLabels
<1>2. UpWired /\ MapsOwn /\ Routing
  BY DEF UpWired, Up, MapsOwn, OwnMap, KeepsCopy, NoDevices, Routing, Routes, Runs, Looped
<1>3. \A p \in Pods, c \in Calls : ~Names(p, c)
  BY DEF Names, NoDevices, Calls, None, Running
<1>4. NamedHeld /\ OneBridge
  BY <1>3 DEF NamedHeld, OneBridge
<1>5. QED
  BY <1>1, <1>2, <1>4 DEF MeshInv

LEMMA NextMeshInv == IInv /\ MeshInv /\ [EitherNext]_vars => MeshInv'
<1> SUFFICES ASSUME IInv, MeshInv, [EitherNext]_vars PROVE MeshInv'
  OBVIOUS
<1>1. CASE EitherNext
  <2>1. PICK h \in Handlers : StepOf(h)
    BY <1>1 DEF EitherNext
  <2>2. /\ HeldNoted /\ OneAtATime /\ Requested /\ OwnOutcome /\ UpWired
        /\ NamedHeld /\ OneBridge /\ NewAddress /\ MapsOwn
    BY DEF MeshInv
  <2>3. HeldNoted' /\ OneAtATime' /\ Requested'
    BY <2>1, <2>2, HeldNotedNext, OneAtATimeNext, RequestedNext
  <2>4. OwnOutcome' /\ UpWired'
    BY <2>1, <2>2, OwnOutcomeNext, UpWiredNext
  <2>5. NamedHeld' /\ OneBridge' /\ NewAddress'
    BY <2>1, <2>2, NamedHeldNext, OneBridgeNext, NewAddressNext
  <2>6. MapsOwn' /\ Routing'
    BY <2>1, <2>2, MapsOwnNext, RoutingNext
  <2>7. QED
    BY <2>3, <2>4, <2>5, <2>6 DEF MeshInv
<1>2. CASE UNCHANGED vars
  <2> USE <1>2 DEF vars, addressVars, goVars, linkVars, bpfVars
  <2>1. HeldNoted' /\ OneAtATime' /\ Requested' /\ OwnOutcome' /\ UpWired'
    BY DEF MeshInv, HeldNoted, OneAtATime, Requested, OwnOutcome, UpWired, Up
  <2>2. \A p \in Pods, c \in Calls : Names(p, c)' <=> Names(p, c)
    BY DEF Names
  <2>3. NamedHeld' /\ OneBridge' /\ NewAddress'
    BY <2>2 DEF MeshInv, NamedHeld, OneBridge, NewAddress, Names
  <2>4. MapsOwn'
    BY DEF MeshInv, MapsOwn, OwnMap, KeepsCopy, DeployedOnce
  <2>5. Routing'
    BY DEF MeshInv, Routing, Routes, Announces, Up, Runs, Routed, AddsRoute, Tells,
           Alone, DeployedOnce
  <2>6. QED
    BY <2>1, <2>3, <2>4, <2>5 DEF MeshInv
<1>3. QED
  BY <1>1, <1>2

LEMMA MeshInvSuffices == IInv /\ MeshInv => MeshDespiteRaces
<1> SUFFICES ASSUME IInv, MeshInv, NEW p \in Pods, NEW q \in Pods,
                    Up(p), DeployedOnce(p), Up(q), DeployedOnce(q),
                    p # q, ~SharesAddress(q)
             PROVE  RoutesTo(p, q)
  BY DEF MeshDespiteRaces
<1>1. ASSUME NEW r \in Pods, Up(r), DeployedOnce(r)
      PROVE  /\ vethMaster[r] = podDevices[r].podBridge
             /\ bridgeAddr[vethMaster[r]] = podDevices[r].baseAddr
  <2>1. /\ podDevices[r].podBridge \in Calls /\ Names(r, podDevices[r].podBridge)
        /\ bridgeAddr[podDevices[r].podBridge] = podDevices[r].baseAddr
    BY <1>1, SettledEntry DEF Settled
  <2>2. vethMaster[r] \in Calls /\ Names(r, vethMaster[r])
    BY <1>1 DEF MeshInv, UpWired, Names, Up, IInv, TypeOK, MaybeCall
  <2>3. vethMaster[r] = podDevices[r].podBridge
    BY <1>1, <2>1, <2>2, OneName DEF MeshInv
  <2>4. QED
    BY <2>1, <2>3
<1>2. Alone(q)
  BY <1>1 DEF SharesAddress, AddressOf, BridgeOf, Alone
<1>3. \A g \in Handlers : ~AddsRoute(g, p, q) /\ ~Tells(g, q, p)
  BY DEF AddsRoute, Tells, MeshInv, OwnOutcome, InitLabels, Running, Up
<1>4. Routed(p, q)
  BY <1>2, <1>3 DEF MeshInv, Routing, Routes, Announces
<1>5. QED
  BY <1>1, <1>4 DEF Routed, RoutesTo, BridgeOf, AddressOf

(***************************************************************************)
(* However InitPodNetwork calls of any number of handlers interleave with  *)
(* each other, with CreateVMTun and StopPodNetwork and with failures, pods *)
(* that are up route to each other, but for those that raced for an        *)
(* address and those that were deployed again.                             *)
(***************************************************************************)
THEOREM RacesKeepMesh ==
    /\ Spec => []MeshDespiteRaces
    /\ ManagersSpec => []MeshDespiteRaces
    /\ RaceSpec => []MeshDespiteRaces
<1>1. [Next]_vars => [EitherNext]_vars
  BY ManagersAgree
<1>2. [ManagersNext]_<<vars, networkMode>> => [EitherNext]_vars
  BY ManagersAgree DEF ManagersNext
<1>3. [RaceNext]_<<vars, overlapped>> => [EitherNext]_vars
  BY ManagersAgree DEF RaceNext
<1>4. Init => IInv /\ MeshInv
  BY InitIInv, InitMeshInv
<1>5. IInv /\ MeshInv /\ [EitherNext]_vars => (IInv /\ MeshInv)'
  BY NextIInv, NextMeshInv
<1>6. Spec => []MeshDespiteRaces
  BY <1>1, <1>4, <1>5, MeshInvSuffices, PTL DEF Spec
<1>7. ManagersSpec => []MeshDespiteRaces
  BY <1>2, <1>4, <1>5, MeshInvSuffices, PTL DEF ManagersSpec, ManagersInit
<1>8. RaceSpec => []MeshDespiteRaces
  BY <1>3, <1>4, <1>5, MeshInvSuffices, PTL DEF RaceSpec, RaceInit
<1>9. QED
  BY <1>6, <1>7, <1>8
=============================================================================
