----------------------- MODULE PodNetworkSerialProofs -----------------------
(***************************************************************************)
(* What holds of both multi-runtime managers with one handler at a time,   *)
(* for every set of pods, every subnet and number of InitPodNetwork calls, *)
(* and whatever fails: however often pods are deployed, deployed again and *)
(* deleted, workloads have addresses of their own, the split map of a pod  *)
(* lists them, pods that are up route to each other, a packet reaches      *)
(* every workload of the pod it is for, and "localhost" all of a pod's.    *)
(***************************************************************************)
EXTENDS PodNetworkProofs

OneHandler == \A g, h \in Handlers : g = h

(***************************************************************************)
(* Addresses: RequestPodIP's table has the addresses of all bridges, so    *)
(* that no two bridges have one address.                                   *)
(***************************************************************************)
AddressesOnce ==
    /\ \A c \in Calls : bridgeAddr[c] # None => usedPodAddresses[bridgeAddr[c]] # Nobody
    /\ \A c, d \in Calls : c # d /\ bridgeAddr[c] = bridgeAddr[d] => bridgeAddr[c] = None
    /\ \A h \in Handlers :
          pc[h] = "record" /\ pending[h].free # Exhausted =>
              usedPodAddresses[pending[h].free] = Nobody
    /\ \A h \in Handlers :
          pc[h] = "bridge" /\ frame[h].podIp # None =>
              /\ usedPodAddresses[frame[h].podIp] # Nobody
              /\ \A c \in Calls : bridgeAddr[c] # frame[h].podIp

(***************************************************************************)
(* Entries: each pod has its own bridge, and its maps and its program are  *)
(* those of this bridge.  A handler's copy of an entry is the entry.       *)
(***************************************************************************)
EntriesApart ==
    /\ \A p, q \in Pods :
          p # q /\ podDevices[p].podBridge = podDevices[q].podBridge => ~HasBridge(p)
    /\ \A p \in Pods :
          {podDevices[p].toSubpodBpfMap, podDevices[p].fromSubpodBpfMap,
           podDevices[p].bpfProgLink} \subseteq {None, podDevices[p].podBridge}

CopyFresh(h) ==
    /\ pc[h] = "writeback" => frame[h].dev = podDevices[frame[h].target]
    /\ pc[h] = "tap" => frame[h].dev = podDevices[frame[h].pod]
    /\ pc[h] \in Running => podDevices[frame[h].pod].podBridge = frame[h].podLink
    /\ pc[h] \in InitLabels \cup {"linkdel"} => ~Up(frame[h].pod)
    /\ pc[h] \in {"addns", "tap"} =>
          LET dev == podDevices[frame[h].pod]
          IN  HasSubPodIP(dev) /\ frame[h].subIp = getNextSubPodIP(dev)

CopiesFresh == \A h \in Handlers : CopyFresh(h)

(***************************************************************************)
(* Workloads have the addresses that follow the one of their bridge.       *)
(***************************************************************************)
InOrder ==
    \A c \in Calls :
        /\ bridgeAddr[c] = None => addressesUsed[c] = {}
        /\ \E n \in 0 .. IPsPerPod - 1 :
              addressesUsed[c] = bridgeAddr[c] + 1 .. bridgeAddr[c] + n

(***************************************************************************)
(* What InitPodNetwork has done for its pod so far, and all that it has    *)
(* done for a pod that is up.                                              *)
(***************************************************************************)
Bridged(p) == podDevices[p].podBridge \in bridges

Wired(p) == vethMaster[p] = podDevices[p].podBridge

Splits(p) == LET c == podDevices[p].podBridge
             IN  podDevices[p].toSubpodBpfMap = c /\ Lists(splitMap[c], addressesUsed[c])

Redirects(p) == podDevices[p].fromSubpodBpfMap = podDevices[p].podBridge

Stage(h) ==
    /\ pc[h] \in Running => Bridged(frame[h].pod)
    /\ pc[h] \in {"netns", "addns"} => addressesUsed[frame[h].podLink] = {}
    /\ pc[h] \in Running \ {"netns", "addns"} => Wired(frame[h].pod)
    /\ pc[h] \in {"localhost", "split"} =>
          addressesUsed[frame[h].podLink] = {frame[h].subIp}
    /\ pc[h] \in {"redirect", "addroutes", "update", "writeback"} => Splits(frame[h].pod)
    /\ pc[h] \in {"update", "writeback"} => Redirects(frame[h].pod)

Complete(p) ==
    Up(p) => /\ HasBridge(p) /\ Bridged(p) /\ Wired(p) /\ Splits(p) /\ Redirects(p)
             /\ "attach" \notin Faults => podDevices[p].bpfProgLink = podDevices[p].podBridge

Stages == (\A h \in Handlers : Stage(h)) /\ (\A p \in Pods : Complete(p))

(***************************************************************************)
(* Routes: the pods that are up have routes to each other.  A pod that is  *)
(* being set up has routes to those its first loop has seen, and is known  *)
(* to those its second loop has seen.                                      *)
(***************************************************************************)
RouteTo(c, q) == redirectMap[c][podDevices[q].baseAddr] = podDevices[q].podBridge

MeshStage(h) ==
    /\ pc[h] = "addroutes" =>
          \A q \in Pods \ frame[h].todo : Up(q) => RouteTo(frame[h].podLink, q)
    /\ pc[h] \in {"update", "writeback"} =>
          /\ \A q \in Pods : Up(q) => RouteTo(frame[h].podLink, q)
          /\ \A q \in Pods \ frame[h].todo :
                Up(q) => redirectMap[podDevices[q].podBridge][frame[h].podIp]
                             = frame[h].podLink

Mesh == /\ \A h \in Handlers : MeshStage(h)
        /\ \A p, q \in Pods :
              Up(p) /\ Up(q) /\ p # q => RouteTo(podDevices[p].podBridge, q)

SInv == AddressesOnce /\ EntriesApart /\ CopiesFresh /\ InOrder /\ Stages /\ Mesh

(***************************************************************************)
(* "localhost", with the pod-local manager: the localhost maps of a pod    *)
(* are those of the workloads in S, and list these.                        *)
(***************************************************************************)
Reach(maps, links, S) ==
    DOMAIN maps = S /\ (\A w \in S : Lists(maps[w], S)) /\ links = S

Among(p, S) == Reach(fromLocalhostBpfMaps[podDevices[p].podBridge],
                     podDevices[p].linksToKeep, S)

AddressesOf(p) == addressesUsed[podDevices[p].podBridge]

LocalhostStage(h) ==
    /\ pc[h] \in {"netns", "addns", "localhost"} => Among(frame[h].pod, {})
    /\ pc[h] \in Running \ {"netns", "addns", "localhost"} =>
          Among(frame[h].pod, AddressesOf(frame[h].pod))
    /\ pc[h] = "taplocalhost" /\ Up(frame[h].pod) =>
          /\ frame[h].subIp \in AddressesOf(frame[h].pod)
          /\ Among(frame[h].pod, AddressesOf(frame[h].pod) \ {frame[h].subIp})

LInv ==
    /\ \A c \in Calls : bridgeAddr[c] = None => DOMAIN fromLocalhostBpfMaps[c] = {}
    /\ \A h \in Handlers : LocalhostStage(h)
    /\ \A p \in Pods :
          Up(p) /\ (\A h \in Handlers : pc[h] = "taplocalhost" => frame[h].pod # p) =>
              Among(p, AddressesOf(p))
-----------------------------------------------------------------------------
LEMMA InitSInv == Init => SInv
<1> SUFFICES ASSUME Init PROVE SInv
  OBVIOUS
<1> USE DEF Init, InitLabels, Running, Up
<1>1. AddressesOnce
  BY DEF AddressesOnce
<1>2. EntriesApart
  BY DEF EntriesApart, NoDevices, HasBridge
<1>3. CopiesFresh
  BY DEF CopiesFresh, CopyFresh
<1>4. InOrder
  <2>1. 0 \in 0 .. IPsPerPod - 1 /\ None + 1 .. None + 0 = {}
    BY PodNetworkAssumption DEF None
  <2>2. \A c \in Calls : addressesUsed[c] = bridgeAddr[c] + 1 .. bridgeAddr[c] + 0
    BY <2>1
  <2>3. QED
    BY <2>1, <2>2 DEF InOrder
<1>5. Stages
  BY DEF Stages, Stage, Complete
<1>6. Mesh
  BY DEF Mesh, MeshStage
<1>7. QED
  BY <1>1, <1>2, <1>3, <1>4, <1>5, <1>6 DEF SInv

(***************************************************************************)
(* Addresses.                                                              *)
(***************************************************************************)
LEMMA OtherSteps ==
    ASSUME IInv, NEW h \in Handlers, StepOf(h), ~RecordPodIP(h), ~SetupPodBridge(h),
           \A p \in Pods : ~BeginInit(h, p)
    PROVE  /\ UNCHANGED <<usedPodAddresses, pending, bridgeAddr>>
           /\ pc'[h] \notin {"record", "bridge"} \/ UNCHANGED <<pc, frame>>
<1> USE DEF IInv, TypeOK, Return, Call, Goto, vars, addressVars, linkVars
<1>1. CASE EitherInit(h)
  BY <1>1 DEF EitherInit, InitPodNetwork, MRSetupPodNetNs, SetupPodBridgePanics,
      GetNetNsIP, SetupPodNetNs, SetupPodNetNsFails, NetNsLocalhost,
      NetNsLocalhostFails, LoadSplit, LoadPanics, LoadRedirect, AddRoute,
      PublishRedirect, UpdateOther, UpdateOtherPanics, WriteBack, AttachBridge
<1>2. CASE EitherTun(h) \/ StopPodNetwork(h)
  BY <1>2 DEF EitherTun, CreateVMTun, MRTapMissing, MRAddTap, AddTap, AddTapPanics, TapLocalhost,
      TapLocalhostPanics, StopPodNetwork, DeleteBridge, DeleteBridgePanics
<1>3. CASE \E p \in Pods : Begin(h, p)
  BY <1>3 DEF Begin, BeginVMTun, VMTunFails, DeleteNetNs, DeleteNetNsFails
<1>4. QED
  BY <1>1, <1>2, <1>3 DEF StepOf

LEMMA AddressesOnceNext ==
    ASSUME OneHandler, IInv, SInv, NEW h \in Handlers, StepOf(h)
    PROVE  AddressesOnce'
<1>1. \A g \in Handlers : g = h
  BY DEF OneHandler
<1>2. /\ pc \in [Handlers -> Labels] /\ frame \in [Handlers -> FrameType]
      /\ pending \in [Handlers -> Addresses!Requests \cup {Idle}]
      /\ usedPodAddresses \in [Addresses!FreeIPs -> Pods \cup {Nobody}]
      /\ bridgeAddr \in [Calls -> PodIPs \cup {None}]
      /\ Addresses!FreeIPs = PodIPs /\ None \notin PodIPs
  BY FreeIPsArePodIPs, PodIPsPositive DEF IInv, TypeOK, Addresses!TypeOK
<1>3. AddressesOnce
  BY DEF SInv
<1>4. ASSUME NEW p \in Pods, BeginInit(h, p)
      PROVE  AddressesOnce'
  <2>1. /\ pc'[h] = "record" /\ UNCHANGED <<usedPodAddresses, bridgeAddr>>
        /\ pending'[h].free # Exhausted => usedPodAddresses[pending'[h].free] = Nobody
    BY <1>2, <1>4 DEF BeginInit, Call, Goto, linkVars, Addresses!FindFreeIP,
                      Addresses!taken
  <2>2. QED
    BY <1>1, <1>3, <2>1 DEF AddressesOnce
<1>5. CASE RecordPodIP(h)
  <2> DEFINE f == pending[h].free
             p == pending[h].pod
  <2>1. /\ pending[h] # Idle /\ p \in Pods /\ f \in PodIPs \cup {Exhausted}
        /\ pc[h] = "record" /\ pc'[h] = "bridge" /\ UNCHANGED bridgeAddr
    BY <1>2, <1>5 DEF RecordPodIP, Addresses!RecordIP, Call, Goto, linkVars,
                      Addresses!Requests
  <2>2. frame'[h] = [frame[h] EXCEPT !.podIp = IF f = Exhausted THEN None ELSE f]
    BY <1>2, <1>5 DEF RecordPodIP, Call
  <2>3. frame'[h].podIp = IF f = Exhausted THEN None ELSE f
    BY <1>2, <2>2 DEF FrameType
  <2>4. CASE f = Exhausted
    <3>1. UNCHANGED usedPodAddresses
      BY <1>5, <2>4 DEF RecordPodIP, Addresses!RecordIP
    <3>2. QED
      BY <1>1, <1>3, <2>1, <2>3, <2>4, <3>1 DEF AddressesOnce
  <2>5. CASE f # Exhausted
    <3>1. usedPodAddresses' = [usedPodAddresses EXCEPT ![f] = p]
      BY <1>5, <2>5 DEF RecordPodIP, Addresses!RecordIP
    <3>2. f \in PodIPs /\ usedPodAddresses[f] = Nobody /\ f # None /\ p # Nobody
      BY <1>2, <1>3, <2>1, <2>5, MarkersAssumption DEF AddressesOnce
    <3>3. \A c \in Calls : bridgeAddr[c] # f
      BY <1>3, <3>2 DEF AddressesOnce
    <3>4. QED
      BY <1>1, <1>2, <1>3, <2>1, <2>3, <2>5, <3>1, <3>2, <3>3 DEF AddressesOnce
  <2>6. QED
    BY <2>4, <2>5
<1>6. CASE SetupPodBridge(h)
  <2>1. /\ frame[h].podLink \in Calls /\ frame[h].podIp # None
        /\ bridgeAddr'[frame[h].podLink] = frame[h].podIp
        /\ \A c \in Calls \ {frame[h].podLink} : bridgeAddr'[c] = bridgeAddr[c]
        /\ pc[h] = "bridge" /\ pc'[h] = "netns" /\ UNCHANGED usedPodAddresses
    BY <1>2, <1>6, SetupPodBridgeFacts, FrameFacts
       DEF SetupPodBridge, Goto, addressVars, InitLabels
  <2>2. /\ usedPodAddresses[frame[h].podIp] # Nobody
        /\ \A c \in Calls : bridgeAddr[c] # frame[h].podIp
    BY <1>3, <2>1 DEF AddressesOnce
  <2>3. QED
    BY <1>1, <1>3, <2>1, <2>2 DEF AddressesOnce
<1>7. CASE /\ ~RecordPodIP(h) /\ ~SetupPodBridge(h)
           /\ \A p \in Pods : ~BeginInit(h, p)
  BY <1>1, <1>3, <1>7, OtherSteps DEF AddressesOnce
<1>8. QED
  BY <1>4, <1>5, <1>6, <1>7

(***************************************************************************)
(* Lists of slots.                                                         *)
(***************************************************************************)
LEMMA ListsPutNext ==
    ASSUME NEW slots \in Seq(Nat), NEW S, IsFiniteSet(S), Lists(slots, S),
           NEW ip \in Nat, ip \notin S, Cardinality(S) < IPsPerPod
    PROVE  Lists(PutNext(slots, ip), S \cup {ip})
<1>1. PutNext(slots, ip) = Append(slots, ip) /\ Len(slots) = Cardinality(S)
  BY DEF PutNext, Lists
<1>2. Cardinality(S \cup {ip}) = Cardinality(S) + 1
  BY FS_AddElement
<1>3. /\ Len(Append(slots, ip)) = Len(slots) + 1
      /\ DOMAIN Append(slots, ip) = 1 .. Len(slots) + 1
      /\ \A i \in 1 .. Len(slots) : Append(slots, ip)[i] = slots[i]
      /\ Append(slots, ip)[Len(slots) + 1] = ip
      /\ DOMAIN slots = 1 .. Len(slots) /\ Len(slots) \in Nat
  OBVIOUS
<1>4. S = {slots[i] : i \in 1 .. Len(slots)}
  BY <1>3 DEF Lists
<1>5. S \cup {ip} = {Append(slots, ip)[i] : i \in 1 .. Len(slots) + 1}
  <2>1. \A i \in 1 .. Len(slots) + 1 : i \in 1 .. Len(slots) \/ i = Len(slots) + 1
    BY <1>3
  <2>2. 1 .. Len(slots) \subseteq 1 .. Len(slots) + 1
        /\ Len(slots) + 1 \in 1 .. Len(slots) + 1
    BY <1>3
  <2>3. QED
    BY <1>3, <1>4, <2>1, <2>2
<1>6. QED
  BY <1>1, <1>2, <1>3, <1>5 DEF Lists

LEMMA OrdersList ==
    ASSUME NEW S \in SUBSET Nat, IsFiniteSet(S), NEW others \in Orders(S)
    PROVE  others \in Seq(Nat) /\ Lists(others, S)
<1> DEFINE n == Cardinality(S)
<1>1. n \in Nat
  BY FS_CardinalityType
<1>2. /\ others \in [1 .. n -> S]
      /\ \A i, j \in DOMAIN others : others[i] = others[j] => i = j
  BY DEF Orders
<1>3. others \in Seq(Nat) /\ Len(others) = n /\ DOMAIN others = 1 .. n
  <2>1. others \in [1 .. n -> Nat]
    BY <1>2
  <2>2. others \in Seq(Nat)
    <3>1. Seq(Nat) = UNION {[1 .. k -> Nat] : k \in Nat}
      BY SeqDef
    <3>2. QED
      BY <1>1, <2>1, <3>1, Zenon
  <2>3. QED
    BY <1>1, <2>1, <2>2
<1> DEFINE T == {others[i] : i \in DOMAIN others}
<1>4. T \subseteq S /\ IsFiniteSet(T)
  <2>1. T \subseteq S
    BY <1>2, <1>3
  <2>2. QED
    BY <2>1, FS_Subset
<1>5. Cardinality(T) = n
  <2>1. IsFiniteSet(1 .. n) /\ Cardinality(1 .. n) = n
    BY <1>1, FS_Interval
  <2>2. others \in Injection(1 .. n, T) /\ others \in Surjection(1 .. n, T)
    BY <1>2, <1>3 DEF Injection, Surjection, IsInjective
  <2>3. others \in Bijection(1 .. n, T)
    BY <2>2 DEF Bijection
  <2>4. QED
    <3>1. ExistsBijection(1 .. n, T)
      BY <2>3 DEF ExistsBijection
    <3>2. QED
      BY <2>1, <3>1, FS_Bijection
<1>6. T = S
  BY <1>4, <1>5, FS_Subset
<1>7. QED
  BY <1>3, <1>6 DEF Lists

(***************************************************************************)
(* The workloads of a bridge: how many there are, and the next address.    *)
(***************************************************************************)
LEMMA Workload ==
    ASSUME IInv, InOrder, NEW c \in Calls, bridgeAddr[c] # None
    PROVE  /\ IsFiniteSet(addressesUsed[c])
           /\ Cardinality(addressesUsed[c]) \in 0 .. IPsPerPod - 1
           /\ addressesUsed[c] = bridgeAddr[c] + 1
                                  .. bridgeAddr[c] + Cardinality(addressesUsed[c])
<1>1. PICK n \in 0 .. IPsPerPod - 1 :
          addressesUsed[c] = bridgeAddr[c] + 1 .. bridgeAddr[c] + n
  BY DEF InOrder
<1>2. bridgeAddr[c] \in Nat /\ n \in Nat
  <2>1. bridgeAddr[c] \in PodIPs
    BY DEF IInv, TypeOK
  <2>2. IPsPerPod \in Nat
    BY PodNetworkAssumption
  <2>3. n \in Nat
    BY <1>1, <2>2
  <2>4. QED
    BY <2>1, <2>3, PodIPsPositive
<1>3. IsFiniteSet(addressesUsed[c]) /\ Cardinality(addressesUsed[c]) = n
  <2>1. bridgeAddr[c] + 1 \in Int /\ bridgeAddr[c] + n \in Int
    BY <1>2
  <2>2. Cardinality(addressesUsed[c]) =
            IF bridgeAddr[c] + 1 > bridgeAddr[c] + n THEN 0
            ELSE (bridgeAddr[c] + n) - (bridgeAddr[c] + 1) + 1
    BY <1>1, <2>1, FS_Interval
  <2>3. IsFiniteSet(addressesUsed[c])
    BY <1>1, <2>1, FS_Interval
  <2>4. QED
    BY <1>2, <2>2, <2>3
<1>4. QED
  BY <1>1, <1>3

-----------------------------------------------------------------------------
(***************************************************************************)
(* A step of an operation on one pod leaves the other pods alone: their    *)
(* entries and outcomes, and what the kernel has for their bridges.        *)
(***************************************************************************)
Kept(q) ==
    /\ podDevices'[q] = podDevices[q] /\ outcome'[q] = outcome[q]
    /\ vethMaster'[q] = vethMaster[q]
    /\ HasBridge(q) =>
          LET c == podDevices[q].podBridge
          IN  /\ addressesUsed'[c] = addressesUsed[c]
              /\ splitMap'[c] = splitMap[c]
              /\ fromLocalhostBpfMaps'[c] = fromLocalhostBpfMaps[c]
              /\ c \in bridges' <=> c \in bridges

LEMMA BridgesApart ==
    ASSUME IInv, EntriesApart, NEW p \in Pods, NEW q \in Pods, p # q, HasBridge(q)
    PROVE  podDevices[p].podBridge # podDevices[q].podBridge
BY DEF EntriesApart, HasBridge

\* The call that sets up a pod network has its own bridge.
LEMMA NewBridgeApart ==
    ASSUME IInv, NEW h \in Handlers, pc[h] \in {"record", "bridge"},
           NEW q \in Pods, HasBridge(q)
    PROVE  podDevices[q].podBridge # frame[h].podLink
<1>1. bridgeAddr[frame[h].podLink] = None
  BY DEF IInv, Fresh
<1>2. /\ podDevices[q].baseAddr # None
      /\ bridgeAddr[podDevices[q].podBridge] = podDevices[q].baseAddr
  BY DEF IInv, EntriesMatch, Matches, HasBridge
<1>3. QED
  BY <1>1, <1>2

LEMMA CopyBack ==
    ASSUME IInv, CopiesFresh, NEW h \in Handlers,
           WriteBack(h) \/ AddTap(h) \/ MRAddTap(h)
    PROVE  UNCHANGED podDevices
<1>1. podDevices \in [Pods -> PodDevicesType] /\ FrameMatches(h) /\ CopyFresh(h)
  BY DEF IInv, TypeOK, FramesMatch, CopiesFresh
<1>2. CASE WriteBack(h)
  BY <1>1, <1>2 DEF WriteBack, CopyFresh, FrameMatches
<1>3. CASE AddTap(h) \/ MRAddTap(h)
  BY <1>1, <1>3 DEF AddTap, MRAddTap, CopyFresh, FrameMatches
<1>4. QED
  BY <1>2, <1>3

LEMMA StepKeeps ==
    ASSUME IInv, SInv, NEW h \in Handlers,
           EitherInit(h) \/ EitherTun(h) \/ StopPodNetwork(h),
           NEW q \in Pods, q # frame[h].pod
    PROVE  Kept(q)
<1> DEFINE p == frame[h].pod
           b == podDevices[p].podBridge
           c == frame[h].podLink
           d == podDevices[q].podBridge
<1>1. /\ podDevices \in [Pods -> PodDevicesType] /\ outcome \in [Pods -> Outcomes]
      /\ vethMaster \in [Pods -> MaybeCall] /\ addressesUsed \in [Calls -> SUBSET Nat]
      /\ splitMap \in [Calls -> Seq(Nat)] /\ DOMAIN fromLocalhostBpfMaps = Calls
      /\ pc \in [Handlers -> Labels]
  BY DEF IInv, TypeOK
<1>2. CopiesFresh /\ CopyFresh(h) /\ EntriesApart /\ FrameMatches(h)
  BY DEF SInv, CopiesFresh, IInv, FramesMatch
<1>3. pc[h] # "idle" => p \in Pods
  BY FrameFacts
<1>4. p \in Pods /\ HasBridge(q) => b # d
  BY <1>2, BridgesApart
<1>5. pc[h] \in Running => b = c
  BY <1>2 DEF CopyFresh
<1>0. HasBridge(q) => d \in Calls
  BY <1>1 DEF HasBridge, PodDevicesType, MaybeCall
<1> USE DEF Kept, Return, goVars, linkVars, bpfVars, vars
<1>6. CASE \/ RecordPodIP(h) \/ GetNetNsIP(h) \/ SetupPodNetNsFails(h)
           \/ NetNsLocalhostFails(h) \/ LoadPanics(h) \/ LoadRedirect(h)
           \/ AddRoute(h) \/ UpdateOther(h) \/ UpdateOtherPanics(h)
           \/ DeleteBridgePanics(h)
  BY <1>1, <1>6 DEF RecordPodIP, GetNetNsIP, SetupPodNetNsFails, NetNsLocalhostFails,
      LoadPanics, LoadRedirect, AddRoute, UpdateOther, UpdateOtherPanics,
      DeleteBridgePanics
<1>7. CASE SetupPodBridge(h) \/ SetupPodBridgePanics(h)
  <2>1. HasBridge(q) => d # c
    BY <1>7, NewBridgeApart DEF SetupPodBridge, SetupPodBridgePanics
  <2>2. QED
    BY <1>1, <1>7, <2>1 DEF SetupPodBridge, SetupPodBridgePanics
<1>8. CASE SetupPodNetNs(h) \/ MRSetupPodNetNs(h)
  <2>1. p \in Pods
    BY <1>3, <1>8 DEF SetupPodNetNs, MRSetupPodNetNs
  <2>2. /\ \E S : addressesUsed' = [addressesUsed EXCEPT ![b] = S]
        /\ \E v : vethMaster' = [vethMaster EXCEPT ![p] = v]
        /\ UNCHANGED <<podDevices, outcome, splitMap, fromLocalhostBpfMaps, bridges>>
    BY <1>8 DEF SetupPodNetNs, MRSetupPodNetNs
  <2>3. HasBridge(q) => addressesUsed'[d] = addressesUsed[d]
    BY <1>1, <1>4, <2>1, <2>2
  <2>4. QED
    BY <1>1, <2>2, <2>3
<1>9. CASE NetNsLocalhost(h) \/ TapLocalhost(h)
  <2>1. p \in Pods
    BY <1>3, <1>9 DEF NetNsLocalhost, TapLocalhost
  <2>2. /\ \E f : fromLocalhostBpfMaps' = [fromLocalhostBpfMaps EXCEPT ![b] = f]
        /\ \E dev : podDevices' = [podDevices EXCEPT ![p] = dev]
    BY <1>9 DEF NetNsLocalhost, TapLocalhost, AddLocalhost
  <2>3. podDevices'[q] = podDevices[q]
    BY <1>1, <2>2
  <2>4. HasBridge(q) => fromLocalhostBpfMaps'[d] = fromLocalhostBpfMaps[d]
    BY <1>1, <1>4, <2>1, <2>2
  <2>5. UNCHANGED <<outcome, vethMaster, addressesUsed, splitMap, bridges>>
    BY <1>9 DEF NetNsLocalhost, TapLocalhost
  <2>6. QED
    BY <2>3, <2>4, <2>5
<1>10. CASE LoadSplit(h)
  <2>1. p \in Pods /\ b = c
    BY <1>3, <1>5, <1>10 DEF LoadSplit, Running
  <2>2. QED
    BY <1>1, <1>4, <1>10, <2>1 DEF LoadSplit
<1>11. CASE PublishRedirect(h)
  BY <1>1, <1>11 DEF PublishRedirect
<1>12. CASE AttachBridge(h)
  BY <1>1, <1>12 DEF AttachBridge
<1>13. CASE WriteBack(h)
  BY <1>1, <1>2, <1>13, CopyBack DEF WriteBack
<1>14. CASE AddTap(h) \/ MRAddTap(h) \/ AddTapPanics(h)
  <2>1. /\ p \in Pods /\ frame[h].dev = podDevices[p]
        /\ frame[h].dev.toSubpodBpfMap \in {None, b}
    BY <1>2, <1>3, <1>14 DEF AddTap, MRAddTap, AddTapPanics, CopyFresh, EntriesApart
  <2>2. UNCHANGED podDevices
    BY <1>2, <1>14, CopyBack DEF AddTapPanics
  <2>3. /\ \E S : addressesUsed' = [addressesUsed EXCEPT ![b] = S]
        /\ \/ UNCHANGED splitMap
           \/ \E slots : splitMap' = [splitMap EXCEPT ![b] = slots]
    BY <1>14, <2>1 DEF AddTap, MRAddTap, AddTapPanics
  <2>4. HasBridge(q) => /\ addressesUsed'[d] = addressesUsed[d]
                        /\ splitMap'[d] = splitMap[d]
    <3>1. HasBridge(q) => addressesUsed'[d] = addressesUsed[d]
      BY <1>0, <1>1, <1>4, <2>1, <2>3
    <3>2. HasBridge(q) => splitMap'[d] = splitMap[d]
      BY <1>0, <1>1, <1>4, <2>1, <2>3
    <3>3. QED
      BY <3>1, <3>2
  <2>5. /\ UNCHANGED <<vethMaster, fromLocalhostBpfMaps, bridges>>
        /\ outcome'[q] = outcome[q]
    BY <1>1, <1>14 DEF AddTap, MRAddTap, AddTapPanics
  <2>6. QED
    BY <2>2, <2>4, <2>5
<1>15. CASE TapLocalhostPanics(h)
  <2>1. p \in Pods
    BY <1>3, <1>15 DEF TapLocalhostPanics
  <2>2. \/ UNCHANGED fromLocalhostBpfMaps
        \/ \E w : fromLocalhostBpfMaps' = [fromLocalhostBpfMaps EXCEPT
                                               ![b][w] = PutNext(@, frame[h].subIp)]
    BY <1>15 DEF TapLocalhostPanics
  <2>3. HasBridge(q) => fromLocalhostBpfMaps'[d] = fromLocalhostBpfMaps[d]
    BY <1>0, <1>1, <1>4, <2>1, <2>2
  <2>4. UNCHANGED <<podDevices, vethMaster, addressesUsed, splitMap, bridges>>
        /\ outcome'[q] = outcome[q]
    BY <1>1, <1>15 DEF TapLocalhostPanics
  <2>5. QED
    BY <2>3, <2>4
<1>16. CASE DeleteBridge(h)
  <2>1. p \in Pods
    BY <1>3, <1>16 DEF DeleteBridge
  <2>2. QED
    BY <1>1, <1>4, <1>16, <2>1 DEF DeleteBridge
<1>17. QED
  BY <1>6, <1>7, <1>8, <1>9, <1>10, <1>11, <1>12, <1>13, <1>14, <1>15, <1>16
     DEF EitherInit, InitPodNetwork, EitherTun, CreateVMTun, MRTapMissing, StopPodNetwork

\* The first step of an operation on pod p.
LEMMA BeginKeeps ==
    ASSUME IInv, NEW h \in Handlers, NEW p \in Pods, Begin(h, p)
    PROVE  /\ UNCHANGED <<goVars, bpfVars, bridges, bridgeAddr>>
           /\ \A q \in Pods \ {p} : Kept(q)
           /\ Up(p)' => Up(p) /\ vethMaster'[p] = vethMaster[p]
<1>1. outcome \in [Pods -> Outcomes] /\ vethMaster \in [Pods -> MaybeCall]
  BY DEF IInv, TypeOK
<1>2. UNCHANGED <<goVars, bpfVars, bridges, bridgeAddr>>
  BY DEF Begin, BeginInit, BeginVMTun, VMTunFails, DeleteNetNs, DeleteNetNsFails,
         linkVars, vars
<1>3. /\ \A q \in Pods \ {p} : /\ outcome'[q] = outcome[q]
                               /\ vethMaster'[q] = vethMaster[q]
      /\ Up(p)' => Up(p) /\ vethMaster'[p] = vethMaster[p]
  BY <1>1 DEF Begin, BeginInit, BeginVMTun, VMTunFails, DeleteNetNs, DeleteNetNsFails,
         linkVars, vars, Up
<1>4. QED
  BY <1>2, <1>3 DEF Kept, goVars, bpfVars

-----------------------------------------------------------------------------
(***************************************************************************)
(* Entries.  What a step does to the entry of its own pod.                 *)
(***************************************************************************)
LEMMA OwnEntry ==
    ASSUME IInv, SInv, NEW h \in Handlers,
           EitherInit(h) \/ EitherTun(h) \/ StopPodNetwork(h), ~SetupPodBridge(h)
    PROVE  LET old == podDevices[frame[h].pod]
               new == podDevices'[frame[h].pod]
           IN  /\ new.podBridge = old.podBridge /\ new.baseAddr = old.baseAddr
               /\ \/ new.toSubpodBpfMap = old.toSubpodBpfMap
                  \/ new.toSubpodBpfMap = old.podBridge
               /\ \/ new.fromSubpodBpfMap = old.fromSubpodBpfMap
                  \/ new.fromSubpodBpfMap = old.podBridge
               /\ \/ new.bpfProgLink = old.bpfProgLink
                  \/ new.bpfProgLink = old.podBridge
<1> DEFINE p == frame[h].pod
<1>1. podDevices \in [Pods -> PodDevicesType] /\ (pc[h] # "idle" => p \in Pods)
  BY FrameFacts DEF IInv, TypeOK
<1>2. CopiesFresh /\ CopyFresh(h)
  BY DEF SInv, CopiesFresh
<1>3. CASE UNCHANGED podDevices
  BY <1>3
<1>4. CASE LoadSplit(h) \/ PublishRedirect(h)
  <2>1. p \in Pods /\ podDevices[p] \in PodDevicesType
        /\ podDevices[p].podBridge = frame[h].podLink
    BY <1>1, <1>2, <1>4 DEF LoadSplit, PublishRedirect, CopyFresh, Running
  <2>2. \/ podDevices' = [podDevices EXCEPT ![p].toSubpodBpfMap = frame[h].podLink]
        \/ podDevices' = [podDevices EXCEPT ![p].fromSubpodBpfMap = frame[h].podLink]
    BY <1>4 DEF LoadSplit, PublishRedirect
  <2>3. QED
    BY <1>1, <2>1, <2>2 DEF PodDevicesType
<1>5. CASE AttachBridge(h) /\ ~UNCHANGED podDevices
  <2>1. p \in Pods /\ podDevices[p] \in PodDevicesType
        /\ podDevices[p].podBridge = frame[h].podLink
    BY <1>1, <1>2, <1>5 DEF AttachBridge, CopyFresh, Running
  <2>2. podDevices' = [podDevices EXCEPT ![p].bpfProgLink = frame[h].podLink]
    BY <1>5 DEF AttachBridge
  <2>3. QED
    BY <1>1, <2>1, <2>2 DEF PodDevicesType
<1>6. CASE NetNsLocalhost(h) \/ TapLocalhost(h)
  <2>1. p \in Pods /\ podDevices[p] \in PodDevicesType
    BY <1>1, <1>6 DEF NetNsLocalhost, TapLocalhost
  <2>2. podDevices' = [podDevices EXCEPT ![p].linksToKeep = @ \cup {frame[h].subIp}]
    BY <1>6 DEF NetNsLocalhost, TapLocalhost, AddLocalhost
  <2>3. QED
    BY <1>1, <2>1, <2>2 DEF PodDevicesType
<1>7. CASE WriteBack(h) \/ AddTap(h) \/ MRAddTap(h)
  BY <1>2, <1>3, <1>7, CopyBack
<1>8. QED
  BY <1>3, <1>4, <1>5, <1>6, <1>7
     DEF EitherInit, InitPodNetwork, MRSetupPodNetNs, RecordPodIP,
      SetupPodBridgePanics, GetNetNsIP, SetupPodNetNs, SetupPodNetNsFails,
      NetNsLocalhostFails, LoadPanics, LoadRedirect, AddRoute, UpdateOther,
      UpdateOtherPanics, EitherTun, CreateVMTun, MRTapMissing, AddTapPanics, TapLocalhostPanics,
      StopPodNetwork, DeleteBridge, DeleteBridgePanics, goVars

\* The new entry of SetupPodBridge.
LEMMA SetupPodBridgeEntry ==
    ASSUME IInv, NEW h \in Handlers, SetupPodBridge(h)
    PROVE  LET new == podDevices'[frame[h].pod]
           IN  /\ new.podBridge = frame[h].podLink /\ new.baseAddr = frame[h].podIp
               /\ new.toSubpodBpfMap = None /\ new.fromSubpodBpfMap = None
               /\ new.bpfProgLink = None /\ new.linksToKeep = {}
<1>1. frame[h].pod \in Pods
  BY SetupPodBridgeFacts
<1>2. podDevices'[frame[h].pod] =
          [NoDevices EXCEPT !.baseAddr = frame[h].podIp, !.podBridge = frame[h].podLink]
  BY <1>1 DEF SetupPodBridge, IInv, TypeOK
<1>3. QED
  BY <1>2 DEF NoDevices

LEMMA EntriesApartNext ==
    ASSUME IInv, SInv, NEW h \in Handlers, StepOf(h)
    PROVE  EntriesApart'
<1>1. EntriesApart
  BY DEF SInv
<1>2. CASE UNCHANGED podDevices
  BY <1>1, <1>2 DEF EntriesApart, HasBridge
<1>3. CASE EitherInit(h) \/ EitherTun(h) \/ StopPodNetwork(h)
  <2> DEFINE p == frame[h].pod
             new == podDevices'[p]
  <2>1. \A q \in Pods \ {p} : podDevices'[q] = podDevices[q]
    BY <1>3, StepKeeps DEF Kept
  <2>2. CASE SetupPodBridge(h)
    <3>1. /\ new.podBridge = frame[h].podLink
          /\ new.toSubpodBpfMap = None /\ new.fromSubpodBpfMap = None
          /\ new.bpfProgLink = None
      BY <2>2, SetupPodBridgeEntry
    <3>2. \A q \in Pods : HasBridge(q) => podDevices[q].podBridge # frame[h].podLink
      BY <2>2, NewBridgeApart DEF SetupPodBridge
    <3>3. frame[h].podLink # None
      BY <2>2, SetupPodBridgeFacts
    <3>4. QED
      BY <1>1, <2>1, <3>1, <3>2, <3>3 DEF EntriesApart, HasBridge
  <2>3. CASE ~SetupPodBridge(h)
    <3>1. /\ new.podBridge = podDevices[p].podBridge
          /\ \/ new.toSubpodBpfMap = podDevices[p].toSubpodBpfMap
             \/ new.toSubpodBpfMap = podDevices[p].podBridge
          /\ \/ new.fromSubpodBpfMap = podDevices[p].fromSubpodBpfMap
             \/ new.fromSubpodBpfMap = podDevices[p].podBridge
          /\ \/ new.bpfProgLink = podDevices[p].bpfProgLink
             \/ new.bpfProgLink = podDevices[p].podBridge
      BY <1>3, <2>3, OwnEntry
    <3>2. \A q \in Pods : podDevices'[q].podBridge = podDevices[q].podBridge
      BY <2>1, <3>1
    <3>3. \A q \in Pods : {podDevices'[q].toSubpodBpfMap, podDevices'[q].fromSubpodBpfMap,
                           podDevices'[q].bpfProgLink}
                              \subseteq {None, podDevices'[q].podBridge}
      BY <1>1, <2>1, <3>1 DEF EntriesApart
    <3>4. QED
      BY <1>1, <3>2, <3>3 DEF EntriesApart, HasBridge
  <2>4. QED
    BY <2>2, <2>3
<1>4. CASE \E p \in Pods : Begin(h, p)
  BY <1>2, <1>4, BeginKeeps DEF goVars
<1>5. QED
  BY <1>3, <1>4 DEF StepOf

LEMMA CopiesFreshNext ==
    ASSUME OneHandler, IInv, SInv, NEW h \in Handlers, StepOf(h)
    PROVE  CopiesFresh'
<1> SUFFICES CopyFresh(h)'
  BY DEF OneHandler, CopiesFresh
<1> DEFINE p == frame[h].pod
           c == frame[h].podLink
<1>1. /\ pc \in [Handlers -> Labels] /\ frame \in [Handlers -> FrameType]
      /\ podDevices \in [Pods -> PodDevicesType] /\ outcome \in [Pods -> Outcomes]
      /\ frame[h] \in FrameType /\ (pc[h] # "idle" => p \in Pods)
  BY FrameFacts DEF IInv, TypeOK
<1>2. CopiesFresh /\ CopyFresh(h)
  BY DEF SInv, CopiesFresh
<1>3. CASE pc'[h] \notin InitLabels \cup {"tap", "linkdel"}
  BY <1>3 DEF CopyFresh, InitLabels, Running
<1>4. CASE RecordPodIP(h)
  <2>1. pc[h] = "record" /\ pc'[h] = "bridge" /\ outcome' = outcome
        /\ \E a : frame'[h] = [frame[h] EXCEPT !.podIp = a]
    BY <1>1, <1>4 DEF RecordPodIP, Call, Goto
  <2>2. frame'[h].pod = p
    BY <1>1, <2>1 DEF FrameType
  <2>3. QED
    BY <1>2, <2>1, <2>2 DEF CopyFresh, InitLabels, Running, Up
<1>5. CASE SetupPodBridge(h)
  <2>1. /\ pc[h] = "bridge" /\ pc'[h] = "netns" /\ outcome' = outcome /\ frame' = frame
        /\ podDevices'[p].podBridge = c
    BY <1>1, <1>5, SetupPodBridgeEntry DEF SetupPodBridge, Goto
  <2>2. QED
    BY <1>2, <2>1 DEF CopyFresh, InitLabels, Running, Up
<1>6. CASE GetNetNsIP(h) /\ ~Return(h, "failed")
  <2> DEFINE dev == podDevices[p]
  <2>1. /\ pc[h] = "netns" /\ pc'[h] = "addns" /\ outcome' = outcome
        /\ UNCHANGED <<podDevices, addressesUsed>> /\ HasSubPodIP(dev)
        /\ frame'[h] = [frame[h] EXCEPT !.subIp = getNextSubPodIP(dev)]
    BY <1>1, <1>6 DEF GetNetNsIP, Call, Goto, goVars
  <2>2. frame'[h].pod = p /\ frame'[h].podLink = c /\ frame'[h].subIp = getNextSubPodIP(dev)
    BY <1>1, <2>1 DEF FrameType
  <2>3. QED
    BY <1>2, <2>1, <2>2
       DEF CopyFresh, InitLabels, Running, Up, HasSubPodIP, getNextSubPodIP
<1>7. ASSUME EitherInit(h), pc[h] \in Running,
             pc'[h] \in Running \ {"netns", "addns", "writeback"},
             frame'[h].pod = p, frame'[h].podLink = c, outcome' = outcome
      PROVE  CopyFresh(h)'
  <2>1. podDevices'[p].podBridge = podDevices[p].podBridge
    <3>1. ~SetupPodBridge(h)
      BY <1>7 DEF SetupPodBridge, Running
    <3>2. QED
      BY <1>7, <3>1, OwnEntry
  <2>2. QED
    BY <1>2, <1>7, <2>1 DEF CopyFresh, InitLabels, Running, Up
<1>8. CASE \/ SetupPodNetNs(h) \/ MRSetupPodNetNs(h) \/ NetNsLocalhost(h)
           \/ LoadSplit(h)
  <2>1. /\ pc[h] \in Running /\ pc'[h] \in Running \ {"netns", "addns", "writeback"}
        /\ frame' = frame /\ outcome' = outcome
    BY <1>1, <1>8
       DEF SetupPodNetNs, MRSetupPodNetNs, NetNsLocalhost, LoadSplit, Goto, Running
  <2>2. QED
    BY <1>7, <1>8, <2>1 DEF EitherInit, InitPodNetwork
<1>9. CASE LoadRedirect(h) \/ AddRoute(h) \/ PublishRedirect(h) \/ WriteBack(h)
  <2>1. /\ pc[h] \in Running /\ pc'[h] \in Running \ {"netns", "addns", "writeback"}
        /\ outcome' = outcome
        /\ \/ \E S : frame'[h] = [frame[h] EXCEPT !.todo = S]
           \/ frame'[h] = [frame[h] EXCEPT !.target = Nobody, !.dev = NoDevices]
    BY <1>1, <1>9
       DEF LoadRedirect, AddRoute, PublishRedirect, WriteBack, Call, Goto, Running
  <2>2. frame'[h].pod = p /\ frame'[h].podLink = c
    BY <1>1, <2>1 DEF FrameType
  <2>3. QED
    BY <1>7, <1>9, <2>1, <2>2 DEF EitherInit, InitPodNetwork
<1>10. CASE UpdateOther(h)
  <2>1. PICK q \in frame[h].todo :
            Call(h, "writeback", [frame[h] EXCEPT !.target = q, !.dev = podDevices[q],
                                                  !.todo = @ \ {q}])
    BY <1>10 DEF UpdateOther
  <2>2. /\ pc[h] = "update" /\ pc'[h] = "writeback" /\ outcome' = outcome
        /\ UNCHANGED podDevices
        /\ frame'[h] = [frame[h] EXCEPT !.target = q, !.dev = podDevices[q],
                                        !.todo = @ \ {q}]
    BY <1>1, <1>10, <2>1 DEF UpdateOther, Call, Goto, goVars
  <2>3. /\ frame'[h].pod = p /\ frame'[h].podLink = c
        /\ frame'[h].target = q /\ frame'[h].dev = podDevices[q]
    BY <1>1, <2>2 DEF FrameType
  <2>4. QED
    BY <1>2, <2>2, <2>3 DEF CopyFresh, InitLabels, Running, Up
<1>11. CASE \E result : Return(h, result)
  BY <1>1, <1>3, <1>11 DEF Return, Call, Goto, InitLabels, Running
<1>12. CASE EitherInit(h)
  BY <1>4, <1>5, <1>6, <1>8, <1>9, <1>10, <1>11, <1>12
     DEF EitherInit, InitPodNetwork, SetupPodBridgePanics, GetNetNsIP,
         SetupPodNetNsFails, NetNsLocalhostFails, LoadPanics, UpdateOtherPanics,
         AttachBridge
<1>13. CASE EitherTun(h) \/ StopPodNetwork(h)
  <2>1. pc'[h] \in {"idle", "taplocalhost"}
    BY <1>1, <1>13 DEF EitherTun, CreateVMTun, MRTapMissing, AddTap, MRAddTap, AddTapPanics,
        TapLocalhost, TapLocalhostPanics, StopPodNetwork, DeleteBridge,
        DeleteBridgePanics, Return, Call, Goto
  <2>2. QED
    BY <1>3, <2>1 DEF InitLabels, Running
<1>14. ASSUME NEW q \in Pods, Begin(h, q)
       PROVE  CopyFresh(h)'
  <2>1. CASE BeginInit(h, q)
    <3>1. /\ pc'[h] = "record" /\ outcome'[q] = "busy"
          /\ frame'[h] = [NoFrame EXCEPT !.pod = q, !.podLink = calls']
      BY <1>1, <2>1 DEF BeginInit, Call, Goto
    <3>2. frame'[h].pod = q
      BY <3>1 DEF NoFrame
    <3>3. QED
      BY <3>1, <3>2 DEF CopyFresh, Running, Up
  <2>2. CASE BeginVMTun(h, q)
    <3> DEFINE dev == podDevices[q]
    <3>1. /\ pc'[h] = "tap" /\ HasSubPodIP(dev)
          /\ UNCHANGED <<podDevices, addressesUsed>>
          /\ frame'[h] = [NoFrame EXCEPT !.pod = q, !.dev = dev,
                                         !.subIp = getNextSubPodIP(dev)]
      BY <1>1, <2>2 DEF BeginVMTun, Call, Goto, goVars
    <3>2. /\ frame'[h].pod = q /\ frame'[h].dev = dev
          /\ frame'[h].subIp = getNextSubPodIP(dev)
      BY <3>1 DEF NoFrame
    <3>3. QED
      BY <3>1, <3>2
         DEF CopyFresh, InitLabels, Running, HasSubPodIP, getNextSubPodIP
  <2>3. CASE DeleteNetNs(h, q)
    <3>1. /\ pc'[h] = "linkdel" /\ outcome'[q] = "busy"
          /\ frame'[h] = [NoFrame EXCEPT !.pod = q]
      BY <1>1, <2>3 DEF DeleteNetNs, Call, Goto
    <3>2. frame'[h].pod = q
      BY <3>1 DEF NoFrame
    <3>3. QED
      BY <3>1, <3>2 DEF CopyFresh, InitLabels, Running, Up
  <2>4. CASE UNCHANGED vars
    BY <1>2, <2>4 DEF vars, goVars, CopyFresh, Up, HasSubPodIP, getNextSubPodIP
  <2>5. QED
    BY <1>14, <2>1, <2>2, <2>3, <2>4 DEF Begin, VMTunFails, DeleteNetNsFails
<1>15. QED
  BY <1>12, <1>13, <1>14 DEF StepOf

-----------------------------------------------------------------------------
(***************************************************************************)
(* Workloads.  A pod's next address is the one after those in use.         *)
(***************************************************************************)
LEMMA NextWorkload ==
    ASSUME IInv, InOrder, NEW p \in Pods, HasBridge(p), HasSubPodIP(podDevices[p])
    PROVE  LET c  == podDevices[p].podBridge
               n  == Cardinality(addressesUsed[c])
               ip == getNextSubPodIP(podDevices[p])
           IN  /\ c \in Calls /\ bridgeAddr[c] # None
               /\ IsFiniteSet(addressesUsed[c])
               /\ n \in Nat /\ n + 1 <= IPsPerPod - 1
               /\ ip \in Nat /\ ip \notin addressesUsed[c]
               /\ addressesUsed[c] \cup {ip} = bridgeAddr[c] + 1 .. bridgeAddr[c] + (n + 1)
<1> DEFINE c  == podDevices[p].podBridge
           n  == Cardinality(addressesUsed[c])
           ip == getNextSubPodIP(podDevices[p])
<1>1. c \in Calls
  BY DEF IInv, TypeOK, PodDevicesType, MaybeCall, HasBridge
<1>2. bridgeAddr[c] = podDevices[p].baseAddr /\ bridgeAddr[c] # None
  BY DEF IInv, EntriesMatch, Matches, HasBridge
<1>3. bridgeAddr[c] \in Nat
  <2>1. bridgeAddr[c] \in PodIPs
    BY <1>1, <1>2 DEF IInv, TypeOK
  <2>2. QED
    BY <2>1, PodIPsPositive
<1>4. /\ IsFiniteSet(addressesUsed[c]) /\ n \in 0 .. IPsPerPod - 1
      /\ addressesUsed[c] = bridgeAddr[c] + 1 .. bridgeAddr[c] + n
  BY <1>1, <1>2, Workload
<1>5. n # IPsPerPod - 1 /\ ip = bridgeAddr[c] + n + 1
  BY <1>2 DEF HasSubPodIP, getNextSubPodIP
<1>6. IPsPerPod \in Nat
  BY PodNetworkAssumption
<1>7. n \in Nat /\ n + 1 <= IPsPerPod - 1
  BY <1>4, <1>5, <1>6
<1> HIDE DEF n, ip, c
<1>8. /\ ip \in Nat /\ ip \notin addressesUsed[c]
      /\ addressesUsed[c] \cup {ip} = bridgeAddr[c] + 1 .. bridgeAddr[c] + (n + 1)
  BY <1>3, <1>4, <1>5, <1>7
<1>9. QED
  BY <1>1, <1>2, <1>4, <1>7, <1>8 DEF n, ip, c

\* The steps that add a workload.
Adds(h) == SetupPodNetNs(h) \/ MRSetupPodNetNs(h)
           \/ AddTap(h) \/ MRAddTap(h) \/ AddTapPanics(h)

LEMMA AddsWorkload ==
    ASSUME IInv, SInv, NEW h \in Handlers, Adds(h)
    PROVE  LET p == frame[h].pod
               c == podDevices[p].podBridge
           IN  /\ p \in Pods /\ HasBridge(p) /\ HasSubPodIP(podDevices[p])
               /\ frame[h].subIp = getNextSubPodIP(podDevices[p])
               /\ addressesUsed' = [addressesUsed EXCEPT ![c] = @ \cup {frame[h].subIp}]
               /\ addressesUsed'[c] = addressesUsed[c] \cup {frame[h].subIp}
               /\ UNCHANGED bridgeAddr
<1>1. /\ CopyFresh(h) /\ FrameMatches(h) /\ addressesUsed \in [Calls -> SUBSET Nat]
      /\ podDevices \in [Pods -> PodDevicesType]
  BY DEF SInv, CopiesFresh, IInv, FramesMatch, TypeOK
<1> DEFINE p == frame[h].pod
<1>2. /\ p \in Pods /\ HasBridge(p) /\ HasSubPodIP(podDevices[p])
      /\ frame[h].subIp = getNextSubPodIP(podDevices[p])
      /\ addressesUsed' = [addressesUsed EXCEPT ![podDevices[p].podBridge] =
                              @ \cup {frame[h].subIp}]
      /\ UNCHANGED bridgeAddr
  BY <1>1 DEF Adds, SetupPodNetNs, MRSetupPodNetNs, AddTap, MRAddTap, AddTapPanics,
              CopyFresh, FrameMatches, Running, HasBridge, linkVars
<1>3. podDevices[p].podBridge \in Calls
  BY <1>1, <1>2 DEF HasBridge, PodDevicesType, MaybeCall
<1>4. QED
  BY <1>1, <1>2, <1>3

LEMMA OthersAddNothing ==
    ASSUME NEW h \in Handlers, StepOf(h), ~Adds(h)
    PROVE  UNCHANGED addressesUsed
<1> USE DEF goVars, vars, Adds
<1>1. CASE EitherInit(h)
  BY <1>1 DEF EitherInit, InitPodNetwork, RecordPodIP, SetupPodBridge,
      SetupPodBridgePanics, GetNetNsIP, SetupPodNetNsFails, NetNsLocalhost,
      NetNsLocalhostFails, LoadSplit, LoadPanics, LoadRedirect, AddRoute,
      PublishRedirect, UpdateOther, UpdateOtherPanics, WriteBack, AttachBridge
<1>2. CASE EitherTun(h) \/ StopPodNetwork(h)
  BY <1>2 DEF EitherTun, CreateVMTun, MRTapMissing, TapLocalhost, TapLocalhostPanics,
      StopPodNetwork, DeleteBridge, DeleteBridgePanics
<1>3. CASE \E p \in Pods : Begin(h, p)
  BY <1>3 DEF Begin, BeginInit, BeginVMTun, VMTunFails, DeleteNetNs, DeleteNetNsFails
<1>4. QED
  BY <1>1, <1>2, <1>3 DEF StepOf

LEMMA InOrderNext ==
    ASSUME IInv, SInv, NEW h \in Handlers, StepOf(h)
    PROVE  InOrder'
<1> DEFINE Ordered(c, n) == addressesUsed'[c] = bridgeAddr'[c] + 1 .. bridgeAddr'[c] + n
<1>1. InOrder
  BY DEF SInv
<1>2. CASE Adds(h)
  <2> DEFINE p == frame[h].pod
             b == podDevices[p].podBridge
             m == Cardinality(addressesUsed[b])
  <2>1. /\ p \in Pods /\ HasBridge(p) /\ HasSubPodIP(podDevices[p])
        /\ frame[h].subIp = getNextSubPodIP(podDevices[p])
        /\ addressesUsed' = [addressesUsed EXCEPT ![b] = @ \cup {frame[h].subIp}]
        /\ addressesUsed'[b] = addressesUsed[b] \cup {frame[h].subIp}
        /\ UNCHANGED bridgeAddr
    BY <1>2, AddsWorkload
  <2>2. /\ b \in Calls /\ bridgeAddr[b] # None
        /\ m \in Nat /\ m + 1 <= IPsPerPod - 1
        /\ addressesUsed[b] \cup {frame[h].subIp} = bridgeAddr[b] + 1 .. bridgeAddr[b] + (m + 1)
    BY <1>1, <2>1, NextWorkload
  <2>3. m + 1 \in 0 .. IPsPerPod - 1 /\ Ordered(b, m + 1)
    <3>1. IPsPerPod \in Nat
      BY PodNetworkAssumption
    <3>2. Ordered(b, m + 1)
      BY <2>1, <2>2
    <3>3. m + 1 \in 0 .. IPsPerPod - 1
      <4> HIDE DEF m
      <4>1. QED
        BY <2>2, <3>1
    <3>4. QED
      BY <3>2, <3>3
  <2>4. \A c \in Calls \ {b} : addressesUsed'[c] = addressesUsed[c]
    BY <2>1 DEF IInv, TypeOK
  <2> HIDE DEF b, m
  <2>5. ASSUME NEW c \in Calls
        PROVE  /\ bridgeAddr'[c] = None => addressesUsed'[c] = {}
               /\ \E n \in 0 .. IPsPerPod - 1 : Ordered(c, n)
    <3>1. CASE c = b
      BY <2>1, <2>2, <2>3, <3>1
    <3>2. CASE c # b
      BY <1>1, <2>1, <2>4, <3>2 DEF InOrder
    <3>3. QED
      BY <3>1, <3>2
  <2>6. QED
    BY <2>5 DEF InOrder
<1>3. CASE ~Adds(h) /\ SetupPodBridge(h)
  <2>1. UNCHANGED addressesUsed
    BY <1>3, OthersAddNothing
  <2> DEFINE k == frame[h].podLink
  <2>2. /\ k \in Calls /\ bridgeAddr[k] = None
        /\ bridgeAddr'[k] = frame[h].podIp /\ frame[h].podIp \in PodIPs
        /\ frame[h].podIp # None
        /\ \A c \in Calls \ {k} : bridgeAddr'[c] = bridgeAddr[c]
    BY <1>3, SetupPodBridgeFacts, FrameFacts
       DEF IInv, Fresh, SetupPodBridge, InitLabels
  <2>3. addressesUsed'[k] = {}
    BY <1>1, <2>1, <2>2 DEF InOrder
  <2>4. 0 \in 0 .. IPsPerPod - 1 /\ Ordered(k, 0)
    <3>1. IPsPerPod \in Nat \ {0}
      BY PodNetworkAssumption
    <3>2. bridgeAddr'[k] \in Nat
      BY <2>2, PodIPsPositive
    <3>3. QED
      BY <2>3, <3>1, <3>2
  <2>5. QED
    BY <1>1, <2>1, <2>2, <2>3, <2>4 DEF InOrder
<1>4. CASE ~Adds(h) /\ ~SetupPodBridge(h)
  <2>1. UNCHANGED <<addressesUsed, bridgeAddr>>
    BY <1>4, OthersAddNothing, BridgeAddressesStay
  <2>2. QED
    BY <1>1, <2>1 DEF InOrder
<1>5. QED
  BY <1>2, <1>3, <1>4

-----------------------------------------------------------------------------
(***************************************************************************)
(* What has been done for a pod.                                           *)
(***************************************************************************)
LEMMA CompleteKept ==
    ASSUME NEW q, Complete(q), Kept(q)
    PROVE  Complete(q)'
<1>1. CASE Up(q)
  <2>1. HasBridge(q)
    BY <1>1 DEF Complete
  <2>2. QED
    BY <1>1, <2>1
       DEF Complete, Kept, Up, HasBridge, Bridged, Wired, Splits, Redirects
<1>2. CASE ~Up(q)
  BY <1>2 DEF Complete, Kept, Up
<1>3. QED
  BY <1>1, <1>2

\* The bridge of a running InitPodNetwork.
LEMMA RunningBridge ==
    ASSUME IInv, CopiesFresh, NEW h \in Handlers, pc[h] \in Running
    PROVE  /\ frame[h].pod \in Pods /\ HasBridge(frame[h].pod)
           /\ frame[h].podLink \in Calls
           /\ podDevices[frame[h].pod].podBridge = frame[h].podLink
           /\ podDevices[frame[h].pod].baseAddr = frame[h].podIp
           /\ bridgeAddr[frame[h].podLink] = frame[h].podIp
           /\ ~Up(frame[h].pod)
<1>1. CopyFresh(h) /\ FrameMatches(h)
  BY DEF CopiesFresh, IInv, FramesMatch
<1>2. /\ frame[h].pod \in Pods /\ HasBridge(frame[h].pod)
      /\ podDevices[frame[h].pod].podBridge = frame[h].podLink
      /\ bridgeAddr[frame[h].podLink] = frame[h].podIp
      /\ ~Up(frame[h].pod)
  BY <1>1 DEF CopyFresh, FrameMatches, Running, InitLabels
<1>3. frame[h].podLink \in Calls
  BY FrameFacts DEF InitLabels
<1>4. podDevices[frame[h].pod].baseAddr = frame[h].podIp
  BY <1>2 DEF IInv, EntriesMatch, Matches, HasBridge
<1>5. QED
  BY <1>2, <1>3, <1>4

\* A split map with one slot.
LEMMA ListsOne == ASSUME NEW ip \in Nat PROVE Lists(<<ip>>, {ip})
<1>1. Cardinality({ip}) = 1
  BY FS_Singleton
<1>2. Len(<<ip>>) = 1 /\ DOMAIN <<ip>> = {1} /\ <<ip>>[1] = ip
  OBVIOUS
<1>3. QED
  BY <1>1, <1>2 DEF Lists

\* A step of InitPodNetwork before its last one.
LEMMA StageInit ==
    ASSUME IInv, SInv, NEW h \in Handlers, EitherInit(h), ~AttachBridge(h)
    PROVE  Stage(h)' /\ outcome'[frame[h].pod] # "up"
<1> DEFINE p == frame[h].pod
           c == frame[h].podLink
<1>1. /\ pc \in [Handlers -> Labels] /\ frame \in [Handlers -> FrameType]
      /\ podDevices \in [Pods -> PodDevicesType] /\ outcome \in [Pods -> Outcomes]
      /\ frame[h] \in FrameType
  BY DEF IInv, TypeOK
<1>2. /\ CopiesFresh /\ CopyFresh(h) /\ InOrder /\ Stage(h)
  BY DEF SInv, CopiesFresh, Stages
<1>3. pc[h] \in InitLabels /\ p \in Pods /\ ~Up(p)
  <2>1. pc[h] \in InitLabels
    BY DEF EitherInit, InitPodNetwork, RecordPodIP, SetupPodBridge,
      SetupPodBridgePanics, GetNetNsIP, SetupPodNetNs, MRSetupPodNetNs,
      SetupPodNetNsFails, NetNsLocalhost, NetNsLocalhostFails, LoadSplit, LoadPanics,
      LoadRedirect, AddRoute, PublishRedirect, UpdateOther, UpdateOtherPanics,
      WriteBack, AttachBridge, InitLabels, Running
  <2>2. QED
    BY <1>2, <2>1, FrameFacts DEF CopyFresh, InitLabels, Running
<1>4. CASE \E result \in {"panicked", "failed"} : Return(h, result)
  <2>1. pc'[h] = "idle" /\ outcome'[p] \in {"panicked", "failed"}
    BY <1>1, <1>3, <1>4 DEF Return, Call, Goto
  <2>2. QED
    BY <2>1 DEF Stage, Running, Up
<1>5. CASE RecordPodIP(h)
  <2>1. pc'[h] = "bridge" /\ outcome' = outcome
    BY <1>1, <1>5 DEF RecordPodIP, Call, Goto
  <2>2. QED
    BY <1>3, <2>1 DEF Stage, Running, Up
<1>6. CASE SetupPodBridge(h)
  <2>1. /\ pc'[h] = "netns" /\ frame' = frame /\ outcome' = outcome
        /\ bridges' = bridges \cup {c} /\ UNCHANGED addressesUsed
        /\ podDevices'[p].podBridge = c
    BY <1>1, <1>6, SetupPodBridgeEntry DEF SetupPodBridge, Goto
  <2>2. addressesUsed[c] = {}
    BY <1>2, <1>6, FrameFacts DEF InOrder, IInv, Fresh, SetupPodBridge, InitLabels
  <2>3. QED
    BY <1>3, <2>1, <2>2 DEF Stage, Bridged, Running, Up
<1>7. ASSUME pc[h] \in Running
      PROVE  /\ podDevices[p].podBridge = c /\ HasBridge(p) /\ c \in Calls
             /\ podDevices[p] \in PodDevicesType
  BY <1>1, <1>2, <1>7, RunningBridge
<1>8. CASE GetNetNsIP(h) /\ ~Return(h, "failed")
  <2>1. /\ pc[h] = "netns" /\ pc'[h] = "addns" /\ outcome' = outcome
        /\ UNCHANGED <<podDevices, addressesUsed, bridges>>
        /\ \E ip : frame'[h] = [frame[h] EXCEPT !.subIp = ip]
    BY <1>1, <1>8 DEF GetNetNsIP, Call, Goto, goVars, linkVars
  <2>2. frame'[h].pod = p /\ frame'[h].podLink = c
    BY <1>1, <2>1 DEF FrameType
  <2>3. QED
    BY <1>2, <1>3, <2>1, <2>2 DEF Stage, Bridged, Running, Up
<1>9. CASE SetupPodNetNs(h) \/ MRSetupPodNetNs(h)
  <2>1. /\ pc[h] = "addns" /\ pc'[h] \in {"localhost", "split"} /\ outcome' = outcome
        /\ frame' = frame /\ UNCHANGED <<podDevices, bridges>>
        /\ vethMaster' = [vethMaster EXCEPT ![p] = c]
    BY <1>1, <1>9 DEF SetupPodNetNs, MRSetupPodNetNs, Goto
  <2>2. pc[h] \in Running /\ vethMaster'[p] = c
    BY <1>3, <2>1 DEF Running, IInv, TypeOK
  <2>3. addressesUsed'[c] = addressesUsed[c] \cup {frame[h].subIp}
    BY <1>7, <1>9, <2>2, AddsWorkload DEF Adds
  <2>4. addressesUsed[c] = {} /\ Bridged(p)
    BY <1>2, <2>1 DEF Stage, Running
  <2>5. QED
    BY <1>3, <1>7, <2>1, <2>2, <2>3, <2>4 DEF Stage, Bridged, Wired, Running, Up
<1>10. CASE NetNsLocalhost(h)
  <2>1. /\ pc[h] = "localhost" /\ pc'[h] = "split" /\ outcome' = outcome
        /\ frame' = frame /\ UNCHANGED <<addressesUsed, vethMaster, bridges>>
        /\ podDevices' = [podDevices EXCEPT ![p].linksToKeep = @ \cup {frame[h].subIp}]
    BY <1>1, <1>10 DEF NetNsLocalhost, AddLocalhost, Goto, linkVars
  <2>2. podDevices'[p].podBridge = podDevices[p].podBridge
    BY <1>1, <1>3, <2>1 DEF PodDevicesType
  <2>3. QED
    BY <1>2, <1>3, <2>1, <2>2 DEF Stage, Bridged, Wired, Running, Up
<1>11. CASE LoadSplit(h)
  <2>1. /\ pc[h] = "split" /\ pc'[h] = "redirect" /\ outcome' = outcome
        /\ frame' = frame /\ UNCHANGED <<addressesUsed, vethMaster, bridges>>
        /\ splitMap' = [splitMap EXCEPT ![c] = <<frame[h].subIp>>]
        /\ podDevices' = [podDevices EXCEPT ![p].toSubpodBpfMap = c]
    BY <1>1, <1>11 DEF LoadSplit, Goto, linkVars
  <2>2. podDevices[p].podBridge = c /\ c \in Calls /\ podDevices[p] \in PodDevicesType
    BY <1>7, <2>1 DEF Running
  <2>3. podDevices'[p].podBridge = c /\ podDevices'[p].toSubpodBpfMap = c
    BY <1>1, <1>3, <2>1, <2>2 DEF PodDevicesType
  <2>4. splitMap'[c] = <<frame[h].subIp>>
    BY <2>1, <2>2 DEF IInv, TypeOK
  <2>5. Lists(<<frame[h].subIp>>, {frame[h].subIp})
    BY FrameFacts, ListsOne
  <2>6. Lists(splitMap'[c], addressesUsed'[c])
    BY <1>2, <2>1, <2>4, <2>5 DEF Stage
  <2>7. QED
    BY <1>2, <1>3, <2>1, <2>2, <2>3, <2>6
       DEF Stage, Bridged, Wired, Splits, Running, Up
<1>12. CASE LoadRedirect(h) \/ AddRoute(h)
  <2>1. /\ pc[h] \in {"redirect", "addroutes"} /\ pc'[h] = "addroutes"
        /\ outcome' = outcome
        /\ UNCHANGED <<podDevices, addressesUsed, vethMaster, bridges, splitMap>>
        /\ \E S : frame'[h] = [frame[h] EXCEPT !.todo = S]
    BY <1>1, <1>12 DEF LoadRedirect, AddRoute, Call, Goto, linkVars, goVars, bpfVars
  <2>2. frame'[h].pod = p
    BY <1>1, <2>1 DEF FrameType
  <2>3. QED
    BY <1>2, <1>3, <2>1, <2>2 DEF Stage, Bridged, Wired, Splits, Running, Up
<1>13. CASE PublishRedirect(h)
  <2>1. /\ pc[h] = "addroutes" /\ pc'[h] = "update" /\ outcome' = outcome
        /\ UNCHANGED <<addressesUsed, vethMaster, bridges, splitMap>>
        /\ podDevices' = [podDevices EXCEPT ![p].fromSubpodBpfMap = c]
        /\ frame'[h] = [frame[h] EXCEPT !.todo = Others(c)]
    BY <1>1, <1>13 DEF PublishRedirect, Call, Goto, linkVars, bpfVars
  <2>2. podDevices[p].podBridge = c /\ c \in Calls /\ podDevices[p] \in PodDevicesType
    BY <1>7, <2>1 DEF Running
  <2>3. /\ podDevices'[p].podBridge = c /\ podDevices'[p].fromSubpodBpfMap = c
        /\ podDevices'[p].toSubpodBpfMap = podDevices[p].toSubpodBpfMap
    BY <1>1, <1>3, <2>1, <2>2 DEF PodDevicesType
  <2>4. frame'[h].pod = p
    BY <1>1, <2>1 DEF FrameType
  <2>5. QED
    BY <1>2, <1>3, <2>1, <2>2, <2>3, <2>4
       DEF Stage, Bridged, Wired, Splits, Redirects, Running, Up
<1>14. CASE UpdateOther(h) \/ WriteBack(h)
  <2>1. /\ pc[h] \in {"update", "writeback"} /\ pc'[h] \in {"update", "writeback"}
        /\ outcome' = outcome
        /\ UNCHANGED <<addressesUsed, vethMaster, bridges, splitMap>>
    BY <1>1, <1>14 DEF UpdateOther, WriteBack, Call, Goto, linkVars, bpfVars, goVars
  <2>2. UNCHANGED podDevices
    BY <1>2, <1>14, CopyBack DEF UpdateOther, goVars
  <2>3. frame'[h].pod = p
    <3>1. CASE UpdateOther(h)
      <4>1. PICK q \in frame[h].todo :
                Call(h, "writeback", [frame[h] EXCEPT !.target = q,
                                          !.dev = podDevices[q], !.todo = @ \ {q}])
        BY <3>1 DEF UpdateOther
      <4>2. frame'[h] = [frame[h] EXCEPT !.target = q,
                                          !.dev = podDevices[q], !.todo = @ \ {q}]
        BY <1>1, <4>1 DEF Call
      <4>3. QED
        BY <1>1, <4>2 DEF FrameType
    <3>2. CASE WriteBack(h)
      <4>1. frame'[h] = [frame[h] EXCEPT !.target = Nobody, !.dev = NoDevices]
        BY <1>1, <3>2 DEF WriteBack, Call
      <4>2. QED
        BY <1>1, <4>1 DEF FrameType
    <3>3. QED
      BY <1>14, <3>1, <3>2
  <2>4. QED
    BY <1>2, <1>3, <2>1, <2>2, <2>3
       DEF Stage, Bridged, Wired, Splits, Redirects, Running, Up
<1>15. QED
  BY <1>4, <1>5, <1>6, <1>8, <1>9, <1>10, <1>11, <1>12, <1>13, <1>14
     DEF EitherInit, InitPodNetwork, SetupPodBridgePanics, GetNetNsIP,
         SetupPodNetNsFails, NetNsLocalhostFails, LoadPanics, UpdateOtherPanics

LEMMA CompleteAttached ==
    ASSUME IInv, SInv, NEW h \in Handlers, AttachBridge(h),
           NEW p \in Pods, p = frame[h].pod
    PROVE  Complete(p)'
<1>1. /\ podDevices \in [Pods -> PodDevicesType] /\ CopiesFresh /\ Stage(h)
      /\ pc[h] \in Running /\ pc[h] = "update"
  BY DEF IInv, TypeOK, SInv, Stages, AttachBridge, Running
<1>2. PICK c \in Calls : c = frame[h].podLink
  BY <1>1, RunningBridge
<1>3. /\ c # None /\ podDevices[p].podBridge = c /\ c \in bridges
      /\ vethMaster[p] = c /\ Lists(splitMap[c], addressesUsed[c])
      /\ podDevices[p].toSubpodBpfMap = c /\ podDevices[p].fromSubpodBpfMap = c
  BY <1>1, <1>2, RunningBridge
     DEF Stage, Running, HasBridge, Bridged, Wired, Splits, Redirects
<1>4. /\ UNCHANGED <<bridges, vethMaster, splitMap, addressesUsed>>
      /\ \/ podDevices' = [podDevices EXCEPT ![p].bpfProgLink = c]
         \/ "attach" \in Faults /\ podDevices' = podDevices
  BY <1>2 DEF AttachBridge, linkVars, bpfVars
<1>5. /\ podDevices'[p].podBridge = c
      /\ podDevices'[p].toSubpodBpfMap = c /\ podDevices'[p].fromSubpodBpfMap = c
      /\ "attach" \notin Faults => podDevices'[p].bpfProgLink = c
  <2>1. podDevices[p] \in PodDevicesType
    BY <1>1
  <2>2. QED
    BY <1>1, <1>3, <1>4, <2>1 DEF PodDevicesType
<1>6. QED
  BY <1>3, <1>4, <1>5 DEF Complete, HasBridge, Bridged, Wired, Splits, Redirects

\* A tap's workload gets a slot of the split map.
LEMMA CompleteTap ==
    ASSUME IInv, SInv, NEW h \in Handlers, AddTap(h) \/ MRAddTap(h),
           NEW p \in Pods, p = frame[h].pod
    PROVE  Complete(p)'
<1> SUFFICES ASSUME Up(p)' PROVE Complete(p)'
  BY DEF Complete
<1>1. /\ CopiesFresh /\ CopyFresh(h) /\ InOrder /\ Complete(p)
      /\ splitMap \in [Calls -> Seq(Nat)]
  BY DEF SInv, CopiesFresh, Stages, IInv, TypeOK
<1>2. UNCHANGED <<podDevices, vethMaster, bridges, outcome>>
  BY <1>1, CopyBack DEF AddTap, MRAddTap, linkVars
<1>3. Up(p)
  BY <1>2 DEF Up
<1> DEFINE c  == podDevices[p].podBridge
           ip == frame[h].subIp
<1>4. /\ HasBridge(p) /\ Bridged(p) /\ Wired(p) /\ Splits(p) /\ Redirects(p)
      /\ "attach" \notin Faults => podDevices[p].bpfProgLink = c
  BY <1>1, <1>3 DEF Complete
<1>5. /\ HasSubPodIP(podDevices[p]) /\ ip = getNextSubPodIP(podDevices[p])
      /\ addressesUsed'[c] = addressesUsed[c] \cup {ip}
  BY AddsWorkload DEF Adds
<1>6. /\ c \in Calls /\ IsFiniteSet(addressesUsed[c]) /\ ip \in Nat
      /\ Cardinality(addressesUsed[c]) \in Nat
      /\ Cardinality(addressesUsed[c]) + 1 <= IPsPerPod - 1
      /\ ip \notin addressesUsed[c]
  BY <1>1, <1>4, <1>5, NextWorkload
<1>7. splitMap'[c] = PutNext(splitMap[c], ip)
  <2>1. frame[h].dev.toSubpodBpfMap = c
    BY <1>1, <1>4 DEF CopyFresh, AddTap, MRAddTap, Splits
  <2>2. QED
    BY <1>1, <1>6, <2>1 DEF AddTap, MRAddTap
<1>8. Lists(splitMap'[c], addressesUsed'[c])
  <2>1. Cardinality(addressesUsed[c]) < IPsPerPod
    <3>1. IPsPerPod \in Nat
      BY PodNetworkAssumption
    <3>2. QED
      BY <1>6, <3>1
  <2>2. splitMap[c] \in Seq(Nat) /\ Lists(splitMap[c], addressesUsed[c])
    BY <1>1, <1>4, <1>6 DEF Splits
  <2>3. Lists(PutNext(splitMap[c], ip), addressesUsed[c] \cup {ip})
    BY <1>6, <2>1, <2>2, ListsPutNext
  <2>4. QED
    BY <1>5, <1>7, <2>3
<1>9. QED
  BY <1>2, <1>4, <1>8
     DEF Complete, HasBridge, Bridged, Wired, Splits, Redirects

LEMMA StagesNext ==
    ASSUME OneHandler, IInv, SInv, NEW h \in Handlers, StepOf(h)
    PROVE  Stages'
<1>1. /\ pc \in [Handlers -> Labels] /\ frame \in [Handlers -> FrameType]
      /\ podDevices \in [Pods -> PodDevicesType] /\ outcome \in [Pods -> Outcomes]
      /\ (pc[h] # "idle" => frame[h].pod \in Pods)
  BY FrameFacts DEF IInv, TypeOK
<1>2. Stage(h) /\ (\A q \in Pods : Complete(q)) /\ (\A g \in Handlers : g = h)
  BY DEF SInv, Stages, OneHandler
<1>3. CASE EitherInit(h) \/ EitherTun(h) \/ StopPodNetwork(h)
  <2>1. pc[h] # "idle"
    BY <1>3 DEF EitherInit, InitPodNetwork, MRSetupPodNetNs, RecordPodIP,
      SetupPodBridge, SetupPodBridgePanics, GetNetNsIP, SetupPodNetNs,
      SetupPodNetNsFails, NetNsLocalhost, NetNsLocalhostFails, LoadSplit, LoadPanics,
      LoadRedirect, AddRoute, PublishRedirect, UpdateOther, UpdateOtherPanics,
      WriteBack, AttachBridge, EitherTun, CreateVMTun, MRTapMissing, MRAddTap, AddTap, AddTapPanics,
      TapLocalhost, TapLocalhostPanics, StopPodNetwork, DeleteBridge,
      DeleteBridgePanics
  <2>2. PICK p \in Pods : p = frame[h].pod
    BY <1>1, <2>1
  <2>3. \A q \in Pods \ {p} : Complete(q)'
    BY <1>2, <1>3, <2>2, StepKeeps, CompleteKept
  <2>4. Stage(h)' /\ Complete(p)'
    <3>1. CASE EitherInit(h) /\ ~AttachBridge(h)
      <4>1. Stage(h)' /\ outcome'[p] # "up"
        BY <2>2, <3>1, StageInit
      <4>2. QED
        BY <4>1 DEF Complete, Up
    <3>2. CASE AttachBridge(h)
      <4>1. pc'[h] = "idle"
        BY <1>1, <3>2 DEF AttachBridge, Return, Call, Goto
      <4>2. QED
        BY <2>2, <3>2, <4>1, CompleteAttached DEF Stage, Running
    <3>3. CASE EitherTun(h) \/ StopPodNetwork(h)
      <4>1. pc'[h] \in {"idle", "taplocalhost"}
        BY <1>1, <3>3 DEF EitherTun, CreateVMTun, MRTapMissing, AddTap, MRAddTap, AddTapPanics,
          TapLocalhost, TapLocalhostPanics, StopPodNetwork, DeleteBridge,
          DeleteBridgePanics, Return, Call, Goto
      <4>2. Stage(h)'
        BY <4>1 DEF Stage, Running
      <4>3. CASE AddTap(h) \/ MRAddTap(h)
        BY <2>2, <4>2, <4>3, CompleteTap
      <4>4. CASE TapLocalhost(h)
        <5>1. /\ podDevices' = [podDevices EXCEPT ![p].linksToKeep = @ \cup {frame[h].subIp}]
              /\ UNCHANGED <<outcome, bridges, vethMaster, splitMap, addressesUsed>>
          BY <2>2, <4>4 DEF TapLocalhost, AddLocalhost, linkVars, bpfVars
        <5>2. /\ podDevices'[p].podBridge = podDevices[p].podBridge
              /\ podDevices'[p].toSubpodBpfMap = podDevices[p].toSubpodBpfMap
              /\ podDevices'[p].fromSubpodBpfMap = podDevices[p].fromSubpodBpfMap
              /\ podDevices'[p].bpfProgLink = podDevices[p].bpfProgLink
          BY <1>1, <5>1 DEF PodDevicesType
        <5>3. Complete(p)'
          BY <1>2, <5>1, <5>2
             DEF Complete, Up, HasBridge, Bridged, Wired, Splits, Redirects
        <5>4. QED
          BY <4>2, <5>3
      <4>5. CASE MRTapMissing(h)
        <5>1. UNCHANGED <<podDevices, outcome, bridges, vethMaster, splitMap,
                          addressesUsed>>
          BY <4>5 DEF MRTapMissing, goVars, linkVars, bpfVars
        <5>2. Complete(p)'
          BY <1>2, <5>1 DEF Complete, Up, HasBridge, Bridged, Wired, Splits, Redirects
        <5>3. QED
          BY <4>2, <5>2
      <4>6. CASE ~(AddTap(h) \/ MRAddTap(h) \/ MRTapMissing(h) \/ TapLocalhost(h))
        <5>1. outcome'[p] # "up"
          BY <1>1, <2>2, <3>3, <4>6
             DEF EitherTun, CreateVMTun, AddTapPanics, TapLocalhostPanics,
                 StopPodNetwork, DeleteBridge, DeleteBridgePanics, Return
        <5>2. QED
          BY <4>2, <5>1 DEF Complete, Up
      <4>7. QED
        BY <4>3, <4>4, <4>5, <4>6
    <3>4. QED
      BY <1>3, <3>1, <3>2, <3>3
  <2>5. QED
    BY <1>2, <2>3, <2>4 DEF Stages
<1>4. ASSUME NEW p \in Pods, Begin(h, p)
      PROVE  Stages'
  <2>1. /\ UNCHANGED <<goVars, bpfVars, bridges, bridgeAddr>>
        /\ \A q \in Pods \ {p} : Kept(q)
        /\ Up(p)' => Up(p) /\ vethMaster'[p] = vethMaster[p]
    BY <1>4, BeginKeeps
  <2>2. \A q \in Pods \ {p} : Complete(q)'
    BY <1>2, <2>1, CompleteKept
  <2>3. Complete(p)'
    BY <1>2, <2>1
       DEF Complete, goVars, bpfVars, HasBridge, Bridged, Wired, Splits, Redirects
  <2>4. Stage(h)'
    <3>1. CASE UNCHANGED vars
      BY <1>2, <3>1
         DEF vars, goVars, linkVars, bpfVars, Stage, Bridged, Wired, Splits, Redirects
    <3>2. CASE ~UNCHANGED vars
      <4>1. pc'[h] \in {"record", "tap", "linkdel"}
        BY <1>1, <1>4, <3>2 DEF Begin, BeginInit, BeginVMTun, VMTunFails, DeleteNetNs,
           DeleteNetNsFails, Call, Goto
      <4>2. QED
        BY <4>1 DEF Stage, Running
    <3>3. QED
      BY <3>1, <3>2
  <2>5. QED
    BY <1>2, <2>2, <2>3, <2>4 DEF Stages
<1>5. QED
  BY <1>3, <1>4 DEF StepOf

-----------------------------------------------------------------------------
(***************************************************************************)
(* Routes.                                                                 *)
(***************************************************************************)
LEMMA EntryFacts ==
    ASSUME IInv, NEW q \in Pods, HasBridge(q)
    PROVE  /\ podDevices[q].podBridge \in Calls /\ podDevices[q].baseAddr \in PodIPs
           /\ bridgeAddr[podDevices[q].podBridge] = podDevices[q].baseAddr
           /\ podDevices[q].baseAddr # None
BY DEF IInv, TypeOK, PodDevicesType, MaybeCall, EntriesMatch, Matches, HasBridge

LEMMA BasesApart ==
    ASSUME IInv, SInv, NEW q \in Pods, NEW r \in Pods, HasBridge(q), HasBridge(r),
           podDevices[q].baseAddr = podDevices[r].baseAddr
    PROVE  q = r
<1>1. podDevices[q].podBridge = podDevices[r].podBridge
  BY EntryFacts DEF SInv, AddressesOnce
<1>2. QED
  BY <1>1 DEF SInv, EntriesApart

\* Which steps write routes, and which make a pod be up.
LEMMA RouteSteps ==
    ASSUME IInv, NEW h \in Handlers, StepOf(h)
    PROVE  /\ AddRoute(h) \/ UpdateOther(h) \/ UNCHANGED redirectMap
           /\ AttachBridge(h) \/ \A q \in Pods : Up(q)' => Up(q)
<1>1. outcome \in [Pods -> Outcomes]
  BY DEF IInv, TypeOK
<1> USE DEF bpfVars, vars, Return, Up
<1>2. CASE EitherInit(h)
  <2>1. CASE AttachBridge(h)
    BY <2>1 DEF AttachBridge
  <2>2. CASE ~AttachBridge(h)
    BY <1>1, <1>2, <2>2 DEF EitherInit, InitPodNetwork, MRSetupPodNetNs, RecordPodIP,
        SetupPodBridge, SetupPodBridgePanics, GetNetNsIP, SetupPodNetNs,
        SetupPodNetNsFails, NetNsLocalhost, NetNsLocalhostFails, LoadSplit, LoadPanics,
        LoadRedirect, AddRoute, PublishRedirect, UpdateOther, UpdateOtherPanics, WriteBack
  <2>3. QED
    BY <2>1, <2>2
<1>3. CASE EitherTun(h) \/ StopPodNetwork(h)
  BY <1>1, <1>3 DEF EitherTun, CreateVMTun, MRTapMissing, MRAddTap, AddTap, AddTapPanics,
      TapLocalhost, TapLocalhostPanics, StopPodNetwork, DeleteBridge, DeleteBridgePanics
<1>4. CASE \E p \in Pods : Begin(h, p)
  BY <1>1, <1>4 DEF Begin, BeginInit, BeginVMTun, VMTunFails, DeleteNetNs,
      DeleteNetNsFails
<1>5. QED
  BY <1>2, <1>3, <1>4 DEF StepOf

\* The entry of a pod that is up, before and after a step.
LEMMA UpEntry ==
    ASSUME IInv, SInv, NEW h \in Handlers, StepOf(h), NEW q \in Pods, Up(q), Up(q)'
    PROVE  /\ HasBridge(q)
           /\ podDevices'[q].podBridge = podDevices[q].podBridge
           /\ podDevices'[q].baseAddr = podDevices[q].baseAddr
<1>1. HasBridge(q)
  BY DEF SInv, Stages, Complete
<1>2. CASE \E p \in Pods : Begin(h, p)
  BY <1>1, <1>2, BeginKeeps DEF goVars
<1>3. CASE (EitherInit(h) \/ EitherTun(h) \/ StopPodNetwork(h)) /\ q # frame[h].pod
  BY <1>1, <1>3, StepKeeps DEF Kept
<1>4. CASE (EitherInit(h) \/ EitherTun(h) \/ StopPodNetwork(h)) /\ q = frame[h].pod
  <2>1. ~SetupPodBridge(h)
    BY <1>4, FrameFacts
       DEF SInv, CopiesFresh, CopyFresh, SetupPodBridge, InitLabels
  <2>2. QED
    BY <1>1, <1>4, <2>1, OwnEntry
<1>5. QED
  BY <1>2, <1>3, <1>4 DEF StepOf

Pairs == \A p, q \in Pods : Up(p) /\ Up(q) /\ p # q => RouteTo(podDevices[p].podBridge, q)

\* A step that writes no route between two pods that are up.
LEMMA PairsKept ==
    ASSUME IInv, SInv, NEW h \in Handlers, StepOf(h), ~AttachBridge(h),
           \A p, q \in Pods : Up(p) /\ Up(q) /\ p # q =>
               redirectMap'[podDevices[p].podBridge][podDevices[q].baseAddr]
                   = redirectMap[podDevices[p].podBridge][podDevices[q].baseAddr]
    PROVE  Pairs'
<1> SUFFICES ASSUME NEW p \in Pods, NEW q \in Pods, Up(p)', Up(q)', p # q
             PROVE  RouteTo(podDevices[p].podBridge, q)'
  BY DEF Pairs
<1>1. Up(p) /\ Up(q)
  BY RouteSteps
<1>2. RouteTo(podDevices[p].podBridge, q)
  BY <1>1 DEF SInv, Mesh
<1>3. /\ podDevices'[p].podBridge = podDevices[p].podBridge
      /\ podDevices'[q].podBridge = podDevices[q].podBridge
      /\ podDevices'[q].baseAddr = podDevices[q].baseAddr
  BY <1>1, UpEntry
<1>4. QED
  BY <1>1, <1>2, <1>3 DEF RouteTo

LEMMA AddRouteMesh ==
    ASSUME IInv, SInv, NEW h \in Handlers, AddRoute(h)
    PROVE  Pairs' /\ MeshStage(h)'
<1> DEFINE p == frame[h].pod
           c == frame[h].podLink
<1>1. PICK q \in frame[h].todo :
          /\ redirectMap' = [redirectMap EXCEPT
                 ![c][podDevices[q].baseAddr] = podDevices[q].podBridge]
          /\ frame' = [frame EXCEPT ![h].todo = @ \ {q}]
  BY DEF AddRoute
<1>2. /\ redirectMap \in [Calls -> [PodIPs -> MaybeCall]]
      /\ frame \in [Handlers -> FrameType] /\ frame[h] \in FrameType
      /\ q \in Pods /\ HasBridge(q) /\ StepOf(h) /\ ~AttachBridge(h)
  BY <1>1, FrameFacts
     DEF IInv, TypeOK, FramesMatch, FrameMatches, AddRoute, AttachBridge, StepOf,
         EitherInit, InitPodNetwork
<1>3. /\ p \in Pods /\ ~Up(p) /\ podDevices[p].podBridge = c /\ c \in Calls
      /\ HasBridge(p) /\ pc[h] = "addroutes" /\ MeshStage(h)
  BY RunningBridge DEF AddRoute, Running, SInv, Mesh
<1>4. /\ UNCHANGED <<podDevices, outcome, pc>>
      /\ frame'[h].todo = frame[h].todo \ {q} /\ frame'[h].podLink = c
  BY <1>1, <1>2 DEF AddRoute, goVars, FrameType
<1>5. \A d \in Calls, a \in PodIPs : redirectMap'[d][a] =
          IF d = c /\ a = podDevices[q].baseAddr THEN podDevices[q].podBridge
          ELSE redirectMap[d][a]
  BY <1>1, <1>2, <1>3
<1>6. \A r \in Pods : Up(r) => /\ HasBridge(r) /\ r # p
                               /\ podDevices[r].podBridge \in Calls \ {c}
                               /\ podDevices[r].baseAddr \in PodIPs
  <2> SUFFICES ASSUME NEW r \in Pods, Up(r)
               PROVE  /\ HasBridge(r) /\ r # p
                      /\ podDevices[r].podBridge \in Calls \ {c}
                      /\ podDevices[r].baseAddr \in PodIPs
    OBVIOUS
  <2>1. HasBridge(r) /\ r # p
    BY <1>3 DEF SInv, Stages, Complete
  <2>2. QED
    BY <1>3, <2>1, EntryFacts, BridgesApart DEF SInv
<1>7. Pairs'
  BY <1>2, <1>5, <1>6, PairsKept
<1>8. MeshStage(h)'
  <2>1. ASSUME NEW r \in Pods \ frame'[h].todo, Up(r)
        PROVE  redirectMap'[c][podDevices[r].baseAddr] = podDevices[r].podBridge
    <3>1. CASE r = q
      BY <1>3, <1>5, <1>6, <2>1, <3>1
    <3>2. CASE r # q
      <4>1. podDevices[r].baseAddr # podDevices[q].baseAddr
        BY <1>2, <1>6, <2>1, <3>2, BasesApart
      <4>2. RouteTo(c, r)
        BY <1>3, <1>4, <2>1, <3>2 DEF MeshStage
      <4>3. QED
        BY <1>3, <1>5, <1>6, <2>1, <4>1, <4>2 DEF RouteTo
    <3>3. QED
      BY <3>1, <3>2
  <2>2. QED
    BY <1>3, <1>4, <2>1 DEF MeshStage, RouteTo, Up
<1>9. QED
  BY <1>7, <1>8

LEMMA UpdateOtherMesh ==
    ASSUME IInv, SInv, NEW h \in Handlers, UpdateOther(h)
    PROVE  Pairs' /\ MeshStage(h)'
<1> DEFINE p == frame[h].pod
           c == frame[h].podLink
           ip == frame[h].podIp
<1>1. PICK q \in frame[h].todo :
          /\ podDevices[q].fromSubpodBpfMap # None
          /\ redirectMap' = [redirectMap EXCEPT
                 ![podDevices[q].fromSubpodBpfMap][ip] = c]
          /\ Call(h, "writeback", [frame[h] EXCEPT !.target = q, !.dev = podDevices[q],
                                                   !.todo = @ \ {q}])
  BY DEF UpdateOther
<1>2. /\ redirectMap \in [Calls -> [PodIPs -> MaybeCall]]
      /\ frame \in [Handlers -> FrameType] /\ frame[h] \in FrameType
      /\ pc \in [Handlers -> Labels]
      /\ q \in Pods /\ HasBridge(q) /\ StepOf(h) /\ ~AttachBridge(h)
  <2>1. ~AttachBridge(h)
    BY <1>1 DEF AttachBridge
  <2>2. QED
    BY <1>1, <2>1, FrameFacts
       DEF IInv, TypeOK, FramesMatch, FrameMatches, StepOf, EitherInit, InitPodNetwork
<1>3. /\ p \in Pods /\ ~Up(p) /\ podDevices[p].podBridge = c /\ c \in Calls
      /\ podDevices[p].baseAddr = ip /\ ip \in PodIPs
      /\ HasBridge(p) /\ pc[h] = "update" /\ MeshStage(h)
  BY RunningBridge, FrameFacts DEF UpdateOther, Running, SInv, Mesh
<1>4. /\ UNCHANGED <<podDevices, outcome>> /\ pc'[h] = "writeback"
      /\ frame'[h].todo = frame[h].todo \ {q} /\ frame'[h].podLink = c
      /\ frame'[h].podIp = ip
  <2>1. UNCHANGED <<podDevices, outcome>>
    BY DEF UpdateOther, goVars
  <2>2. frame'[h] = [frame[h] EXCEPT !.target = q, !.dev = podDevices[q],
                                     !.todo = @ \ {q}] /\ pc'[h] = "writeback"
    BY <1>1, <1>2 DEF Call, Goto
  <2>3. QED
    BY <1>2, <2>1, <2>2 DEF FrameType
<1>5. podDevices[q].fromSubpodBpfMap = podDevices[q].podBridge
  BY <1>1, <1>2 DEF SInv, EntriesApart
<1>6. \A d \in Calls, a \in PodIPs : redirectMap'[d][a] =
          IF d = podDevices[q].podBridge /\ a = ip THEN c ELSE redirectMap[d][a]
  BY <1>1, <1>2, <1>3, <1>5, EntryFacts
<1>7. \A r \in Pods : Up(r) => /\ HasBridge(r)
                               /\ podDevices[r].podBridge \in Calls
                               /\ podDevices[r].baseAddr \in PodIPs \ {ip}
  <2> SUFFICES ASSUME NEW r \in Pods, Up(r)
               PROVE  /\ HasBridge(r)
                      /\ podDevices[r].podBridge \in Calls
                      /\ podDevices[r].baseAddr \in PodIPs \ {ip}
    OBVIOUS
  <2>1. HasBridge(r) /\ r # p
    BY <1>3 DEF SInv, Stages, Complete
  <2>2. QED
    BY <1>3, <2>1, EntryFacts, BasesApart
<1>8. Pairs'
  BY <1>2, <1>6, <1>7, PairsKept
<1>9. MeshStage(h)'
  <2>1. ASSUME NEW r \in Pods, Up(r)
        PROVE  redirectMap'[c][podDevices[r].baseAddr] = podDevices[r].podBridge
    BY <1>3, <1>6, <1>7, <2>1 DEF MeshStage, RouteTo
  <2>2. ASSUME NEW r \in Pods \ frame'[h].todo, Up(r)
        PROVE  redirectMap'[podDevices[r].podBridge][ip] = c
    <3>1. CASE r = q
      BY <1>3, <1>6, <1>7, <2>2, <3>1
    <3>2. CASE r # q
      <4>1. redirectMap[podDevices[r].podBridge][ip] = c
        BY <1>3, <1>4, <2>2, <3>2 DEF MeshStage
      <4>2. QED
        BY <1>3, <1>6, <1>7, <2>2, <4>1
    <3>3. QED
      BY <3>1, <3>2
  <2>3. QED
    BY <1>4, <2>1, <2>2 DEF MeshStage, RouteTo, Up
<1>10. QED
  BY <1>8, <1>9

\* The loops start with all the other pods that have a bridge.
LEMMA OthersCoverUp ==
    ASSUME IInv, SInv, NEW h \in Handlers, pc[h] \in Running, NEW q \in Pods, Up(q)
    PROVE  q \in Others(frame[h].podLink)
<1>1. HasBridge(q) /\ q # frame[h].pod
  BY RunningBridge DEF SInv, Stages, Complete
<1>2. podDevices[q].podBridge # frame[h].podLink
  BY <1>1, RunningBridge, BridgesApart DEF SInv
<1>3. QED
  BY <1>1, <1>2 DEF Others, HasBridge

LEMMA AttachBridgeMesh ==
    ASSUME IInv, SInv, NEW h \in Handlers, AttachBridge(h)
    PROVE  Pairs'
<1> DEFINE p == frame[h].pod
           c == frame[h].podLink
<1>1. /\ p \in Pods /\ HasBridge(p) /\ c \in Calls /\ podDevices[p].podBridge = c
      /\ podDevices[p].baseAddr = frame[h].podIp /\ ~Up(p)
      /\ pc[h] = "update" /\ frame[h].todo = {} /\ MeshStage(h)
      /\ podDevices \in [Pods -> PodDevicesType] /\ outcome \in [Pods -> Outcomes]
  BY RunningBridge DEF AttachBridge, Running, SInv, Mesh, IInv, TypeOK
<1>2. /\ \/ podDevices' = [podDevices EXCEPT ![p].bpfProgLink = c]
         \/ podDevices' = podDevices
      /\ UNCHANGED redirectMap /\ outcome' = [outcome EXCEPT ![p] = "up"]
  BY DEF AttachBridge, Return, bpfVars
<1>3. \A q \in Pods : /\ podDevices'[q].podBridge = podDevices[q].podBridge
                      /\ podDevices'[q].baseAddr = podDevices[q].baseAddr
  <2>1. podDevices[p] \in PodDevicesType
    BY <1>1
  <2>2. QED
    BY <1>1, <1>2, <2>1 DEF PodDevicesType
<1>4. \A q \in Pods : Up(q)' => Up(q) \/ q = p
  BY <1>1, <1>2 DEF Up
<1>5. ASSUME NEW q \in Pods, Up(q)
      PROVE  RouteTo(c, q) /\ RouteTo(podDevices[q].podBridge, p)
  BY <1>1, <1>5 DEF MeshStage, RouteTo
<1>6. ASSUME NEW x \in Pods, NEW y \in Pods, Up(x)', Up(y)', x # y
      PROVE  RouteTo(podDevices[x].podBridge, y)'
  <2>1. CASE x = p
    BY <1>1, <1>2, <1>3, <1>4, <1>5, <1>6, <2>1 DEF RouteTo
  <2>2. CASE y = p
    BY <1>1, <1>2, <1>3, <1>4, <1>5, <1>6, <2>2 DEF RouteTo
  <2>3. CASE x # p /\ y # p
    BY <1>2, <1>3, <1>4, <1>6, <2>3 DEF SInv, Mesh, RouteTo
  <2>4. QED
    BY <2>1, <2>2, <2>3
<1>7. QED
  BY <1>6 DEF Pairs

LEMMA MeshNext ==
    ASSUME OneHandler, IInv, SInv, NEW h \in Handlers, StepOf(h)
    PROVE  Mesh'
<1> SUFFICES Pairs' /\ MeshStage(h)'
  BY DEF OneHandler, Mesh, Pairs
<1>1. /\ pc \in [Handlers -> Labels] /\ frame \in [Handlers -> FrameType]
      /\ frame[h] \in FrameType /\ MeshStage(h)
  BY DEF IInv, TypeOK, SInv, Mesh
<1>2. CASE AddRoute(h)
  BY <1>2, AddRouteMesh
<1>3. CASE UpdateOther(h)
  BY <1>3, UpdateOtherMesh
<1>4. CASE AttachBridge(h)
  <2>1. pc'[h] = "idle"
    BY <1>1, <1>4 DEF AttachBridge, Return, Call, Goto
  <2>2. QED
    BY <1>4, <2>1, AttachBridgeMesh DEF MeshStage
<1>5. CASE ~AddRoute(h) /\ ~UpdateOther(h) /\ ~AttachBridge(h)
  <2>1. UNCHANGED redirectMap /\ \A q \in Pods : Up(q)' => Up(q)
    BY <1>5, RouteSteps
  <2>2. Pairs'
    BY <1>5, <2>1, PairsKept
  <2>3. \A q \in Pods : Up(q)' => /\ Up(q)
                                  /\ podDevices'[q].podBridge = podDevices[q].podBridge
                                  /\ podDevices'[q].baseAddr = podDevices[q].baseAddr
    BY <2>1, UpEntry
  <2>4. CASE LoadRedirect(h) \/ PublishRedirect(h)
    <3>1. /\ pc[h] \in Running
          /\ frame'[h] = [frame[h] EXCEPT !.todo = Others(frame[h].podLink)]
          /\ \/ pc'[h] = "addroutes"
             \/ pc'[h] = "update" /\ pc[h] = "addroutes" /\ frame[h].todo = {}
      BY <1>1, <2>4 DEF LoadRedirect, PublishRedirect, Call, Goto, Running
    <3>2. /\ frame'[h].todo = Others(frame[h].podLink)
          /\ frame'[h].podLink = frame[h].podLink
      BY <1>1, <3>1 DEF FrameType
    <3>3. ASSUME NEW q \in Pods, Up(q)'
          PROVE  q \in frame'[h].todo
      <4>1. Up(q)
        BY <2>3, <3>3
      <4>2. q \in Others(frame[h].podLink)
        BY <3>1, <4>1, OthersCoverUp
      <4>3. QED
        BY <3>2, <4>2
    <3>4. CASE pc'[h] = "addroutes"
      <4>1. \A q \in Pods \ frame'[h].todo : ~Up(q)'
        BY <3>3
      <4>2. QED
        BY <2>2, <3>4, <4>1 DEF MeshStage, Up
    <3>5. CASE pc'[h] = "update" /\ pc[h] = "addroutes" /\ frame[h].todo = {}
      <4>1. \A q \in Pods \ frame'[h].todo : ~Up(q)'
        BY <3>3
      <4>2. \A q \in Pods : Up(q) => RouteTo(frame[h].podLink, q)
        BY <1>1, <3>5 DEF MeshStage
      <4>3. \A q \in Pods : Up(q)' => RouteTo(frame[h].podLink, q)'
        BY <2>1, <2>3, <3>2, <4>2 DEF RouteTo
      <4>4. QED
        BY <2>2, <3>5, <4>1, <4>3 DEF MeshStage, RouteTo, Up
    <3>6. QED
      BY <2>2, <3>1, <3>4, <3>5
  <2>5. CASE WriteBack(h)
    <3>1. /\ pc[h] = "writeback" /\ pc'[h] = "update"
          /\ frame'[h] = [frame[h] EXCEPT !.target = Nobody, !.dev = NoDevices]
      BY <1>1, <2>5 DEF WriteBack, Call, Goto
    <3>2. /\ frame'[h].todo = frame[h].todo /\ frame'[h].podLink = frame[h].podLink
          /\ frame'[h].podIp = frame[h].podIp
      BY <1>1, <3>1 DEF FrameType
    <3>3. MeshStage(h)'
      BY <1>1, <2>1, <2>3, <3>1, <3>2 DEF MeshStage, RouteTo
    <3>4. QED
      BY <2>2, <3>3
  <2>6. CASE UNCHANGED vars
    <3>1. MeshStage(h)'
      BY <1>1, <2>1, <2>3, <2>6 DEF vars, MeshStage, RouteTo
    <3>2. QED
      BY <2>2, <3>1
  <2>7. CASE /\ ~LoadRedirect(h) /\ ~PublishRedirect(h) /\ ~WriteBack(h)
             /\ ~UNCHANGED vars
    <3>1. pc'[h] \notin {"addroutes", "update", "writeback"}
      <4>1. CASE EitherInit(h)
        BY <1>1, <1>5, <2>7, <4>1 DEF EitherInit, InitPodNetwork, MRSetupPodNetNs,
          RecordPodIP, SetupPodBridge, SetupPodBridgePanics, GetNetNsIP,
          SetupPodNetNs, SetupPodNetNsFails, NetNsLocalhost, NetNsLocalhostFails,
          LoadSplit, LoadPanics, UpdateOtherPanics, Return, Call, Goto
      <4>2. CASE EitherTun(h) \/ StopPodNetwork(h)
        BY <1>1, <4>2 DEF EitherTun, CreateVMTun, MRTapMissing, MRAddTap, AddTap, AddTapPanics,
          TapLocalhost, TapLocalhostPanics, StopPodNetwork, DeleteBridge,
          DeleteBridgePanics, Return, Call, Goto
      <4>3. CASE \E p \in Pods : Begin(h, p)
        BY <1>1, <2>7, <4>3 DEF Begin, BeginInit, BeginVMTun, VMTunFails,
          DeleteNetNs, DeleteNetNsFails, Call, Goto
      <4>4. QED
        BY <4>1, <4>2, <4>3 DEF StepOf
    <3>2. QED
      BY <2>2, <3>1 DEF MeshStage
  <2>8. QED
    BY <2>4, <2>5, <2>6, <2>7
<1>6. QED
  BY <1>2, <1>3, <1>4, <1>5

-----------------------------------------------------------------------------
LEMMA NextSInv == OneHandler /\ IInv /\ SInv /\ [EitherNext]_vars => SInv'
<1> SUFFICES ASSUME OneHandler, IInv, SInv, [EitherNext]_vars PROVE SInv'
  OBVIOUS
<1>1. ASSUME NEW h \in Handlers, StepOf(h)
      PROVE  SInv'
  <2>1. AddressesOnce' /\ EntriesApart' /\ CopiesFresh'
    BY <1>1, AddressesOnceNext, EntriesApartNext, CopiesFreshNext
  <2>2. InOrder' /\ Stages' /\ Mesh'
    BY <1>1, InOrderNext, StagesNext, MeshNext
  <2>3. QED
    BY <2>1, <2>2 DEF SInv
<1>2. CASE UNCHANGED vars
  <2> USE <1>2 DEF vars, addressVars, goVars, linkVars, bpfVars, SInv
  <2>1. AddressesOnce' /\ EntriesApart' /\ InOrder'
    BY DEF AddressesOnce, EntriesApart, HasBridge, InOrder
  <2>2. CopiesFresh'
    BY DEF CopiesFresh, CopyFresh, Up, HasSubPodIP, getNextSubPodIP
  <2>3. Stages'
    BY DEF Stages, Stage, Complete, Up, HasBridge, Bridged, Wired, Splits, Redirects
  <2>4. Mesh'
    BY DEF Mesh, MeshStage, RouteTo, Up
  <2>5. QED
    BY <2>1, <2>2, <2>3, <2>4
<1>3. QED
  BY <1>1, <1>2 DEF EitherNext

SerialInv == IInv /\ SInv

\* The invariant, for the pod-local manager and for the choice of the two.
LEMMA SerialInvHolds ==
    ASSUME OneHandler
    PROVE  (Spec => []SerialInv) /\ (ManagersSpec => []SerialInv)
<1>1. Init => SerialInv
  BY InitIInv, InitSInv DEF SerialInv
<1>2. /\ SerialInv /\ [Next]_vars => SerialInv'
      /\ SerialInv /\ [ManagersNext]_<<vars, networkMode>> => SerialInv'
  <2>1. [Next]_vars => [EitherNext]_vars
    BY ManagersAgree
  <2>2. [ManagersNext]_<<vars, networkMode>> => [EitherNext]_vars
    BY ManagersAgree DEF ManagersNext
  <2>3. QED
    BY <2>1, <2>2, NextIInv, NextSInv DEF SerialInv
<1>3. Spec => []SerialInv
  BY <1>1, <1>2, PTL DEF Spec
<1>4. ManagersSpec => []SerialInv
  BY <1>1, <1>2, PTL DEF ManagersSpec, ManagersInit
<1>5. QED
  BY <1>3, <1>4

\* What the properties say of a pod that is up, in terms of its entry.
LEMMA UpFacts ==
    ASSUME SerialInv, NEW p \in Pods, Up(p)
    PROVE  /\ BridgeOf(p) = podDevices[p].podBridge
           /\ HasBridge(p) /\ BridgeOf(p) \in Calls /\ BridgeOf(p) \in bridges
           /\ AddressOf(p) = podDevices[p].baseAddr /\ AddressOf(p) \in PodIPs
           /\ Lists(splitMap[BridgeOf(p)], addressesUsed[BridgeOf(p)])
           /\ "attach" \notin Faults => Programmed(BridgeOf(p))
           /\ \A q \in Pods : Up(q) /\ p # q => BridgeOf(p) # BridgeOf(q)
<1>1. ASSUME NEW q \in Pods, Up(q)
      PROVE  HasBridge(q) /\ BridgeOf(q) = podDevices[q].podBridge
  BY <1>1 DEF SerialInv, SInv, Stages, Complete, Wired, BridgeOf
<1>2. /\ HasBridge(p) /\ BridgeOf(p) = podDevices[p].podBridge
      /\ BridgeOf(p) \in Calls /\ BridgeOf(p) \in bridges
      /\ Lists(splitMap[BridgeOf(p)], addressesUsed[BridgeOf(p)])
  BY <1>1, EntryFacts DEF SerialInv, SInv, Stages, Complete, Bridged, Splits
<1>3. AddressOf(p) = podDevices[p].baseAddr /\ AddressOf(p) \in PodIPs
  BY <1>2, EntryFacts DEF SerialInv, AddressOf
<1>4. "attach" \notin Faults => Programmed(BridgeOf(p))
  BY <1>2 DEF SerialInv, SInv, Stages, Complete, Programmed
<1>5. \A q \in Pods : Up(q) /\ p # q => BridgeOf(p) # BridgeOf(q)
  BY <1>1, <1>2, BridgesApart DEF SerialInv, SInv
<1>6. QED
  BY <1>2, <1>3, <1>4, <1>5

LEMMA WorkloadsInBlock ==
    ASSUME SerialInv, NEW c \in Calls, addressesUsed[c] # {}
    PROVE  /\ bridgeAddr[c] \in PodIPs
           /\ addressesUsed[c] \subseteq Addresses!Block(bridgeAddr[c]) \ {bridgeAddr[c]}
<1>1. bridgeAddr[c] \in PodIPs
  BY DEF SerialInv, SInv, InOrder, IInv, TypeOK
<1>2. PICK n \in 0 .. IPsPerPod - 1 :
          addressesUsed[c] = bridgeAddr[c] + 1 .. bridgeAddr[c] + n
  BY DEF SerialInv, SInv, InOrder
<1>3. bridgeAddr[c] \in Nat /\ IPsPerPod \in Nat /\ n \in Nat /\ n <= IPsPerPod - 1
  <2>1. bridgeAddr[c] \in Nat
    BY <1>1, PodIPsPositive
  <2>2. IPsPerPod \in Nat
    BY PodNetworkAssumption
  <2>3. QED
    BY <1>2, <2>1, <2>2
<1>4. ASSUME NEW b \in Nat
      PROVE  b + 1 .. b + n \subseteq (b .. b + IPsPerPod - 1) \ {b}
  BY <1>3
<1>5. QED
  BY <1>1, <1>2, <1>3, <1>4 DEF Addresses!Block

LEMMA SerialUnique == SerialInv => WorkloadAddressesUnique
<1> SUFFICES ASSUME SerialInv PROVE WorkloadAddressesUnique
  OBVIOUS
<1>1. ASSUME NEW p \in Pods, NEW q \in Pods, Up(p), Up(q), p # q
      PROVE  addressesUsed[BridgeOf(p)] \cap addressesUsed[BridgeOf(q)] = {}
  <2>1. /\ BridgeOf(p) \in Calls /\ BridgeOf(q) \in Calls /\ BridgeOf(p) # BridgeOf(q)
        /\ AddressOf(p) \in PodIPs /\ AddressOf(q) \in PodIPs
    BY <1>1, UpFacts
  <2>2. AddressOf(p) # AddressOf(q)
    BY <1>1, <2>1, UpFacts, BasesApart DEF SerialInv
  <2>3. Addresses!Block(AddressOf(p)) \cap Addresses!Block(AddressOf(q)) = {}
    BY <2>1, <2>2, BlocksDisjoint
  <2>4. /\ addressesUsed[BridgeOf(p)] \subseteq Addresses!Block(AddressOf(p))
        /\ addressesUsed[BridgeOf(q)] \subseteq Addresses!Block(AddressOf(q))
    BY <2>1, WorkloadsInBlock DEF AddressOf
  <2>5. QED
    BY <2>3, <2>4
<1>2. QED
  BY <1>1, WorkloadsInBlock DEF WorkloadAddressesUnique

(***************************************************************************)
(* setupPodNetNs and CreateVMTun give out addresses in the pod's block,    *)
(* none of them twice and none of another pod that is up.                  *)
(***************************************************************************)
THEOREM AddressesUnique ==
    OneHandler => /\ Spec => []WorkloadAddressesUnique
                  /\ ManagersSpec => []WorkloadAddressesUnique
<1> SUFFICES ASSUME OneHandler
             PROVE  /\ Spec => []WorkloadAddressesUnique
                    /\ ManagersSpec => []WorkloadAddressesUnique
  OBVIOUS
<1>1. (Spec => []SerialInv) /\ (ManagersSpec => []SerialInv)
  BY SerialInvHolds
<1>2. Spec => []WorkloadAddressesUnique
  BY <1>1, SerialUnique, PTL
<1>3. ManagersSpec => []WorkloadAddressesUnique
  BY <1>1, SerialUnique, PTL
<1>4. QED
  BY <1>2, <1>3

(***************************************************************************)
(* The split map of a pod that is up, filled by loadToSubPodTC and by      *)
(* CreateVMTun, has each of its workloads in one slot and nothing else.    *)
(***************************************************************************)
THEOREM SplitComplete ==
    OneHandler => /\ Spec => []SplitCoversWorkloads
                  /\ ManagersSpec => []SplitCoversWorkloads
<1> SUFFICES ASSUME OneHandler
             PROVE  /\ Spec => []SplitCoversWorkloads
                    /\ ManagersSpec => []SplitCoversWorkloads
  OBVIOUS
<1>1. (Spec => []SerialInv) /\ (ManagersSpec => []SerialInv)
  BY SerialInvHolds
<1>2. SerialInv => SplitCoversWorkloads
  BY UpFacts DEF SplitCoversWorkloads
<1>3. Spec => []SplitCoversWorkloads
  BY <1>1, <1>2, PTL
<1>4. ManagersSpec => []SplitCoversWorkloads
  BY <1>1, <1>2, PTL
<1>5. QED
  BY <1>3, <1>4

(***************************************************************************)
(* Any two pods that are up have routes to each other (written by          *)
(* initFromSubpodRouting and updateSubpodRouting) and the program that     *)
(* uses them, whatever failed, was deployed again or deleted in between.   *)
(* A program that could not be attached is only logged, and therefore the  *)
(* one failure that is excluded.                                           *)
(***************************************************************************)
THEOREM MeshCorrect ==
    OneHandler /\ "attach" \notin Faults => /\ Spec => []MeshComplete
                                            /\ ManagersSpec => []MeshComplete
<1> SUFFICES ASSUME OneHandler, "attach" \notin Faults
             PROVE  (Spec => []MeshComplete) /\ (ManagersSpec => []MeshComplete)
  OBVIOUS
<1>1. (Spec => []SerialInv) /\ (ManagersSpec => []SerialInv)
  BY SerialInvHolds
<1>2. SerialInv => MeshComplete
  <2> SUFFICES ASSUME SerialInv, NEW p \in Pods, NEW q \in Pods, Up(p), Up(q), p # q
               PROVE  RoutesTo(p, q) /\ Programmed(BridgeOf(p))
    BY DEF MeshComplete
  <2>1. /\ BridgeOf(p) = podDevices[p].podBridge /\ BridgeOf(q) = podDevices[q].podBridge
        /\ AddressOf(q) = podDevices[q].baseAddr /\ Programmed(BridgeOf(p))
    BY UpFacts
  <2>2. RouteTo(podDevices[p].podBridge, q)
    BY DEF SerialInv, SInv, Mesh
  <2>3. QED
    BY <2>1, <2>2 DEF RouteTo, RoutesTo
<1>3. Spec => []MeshComplete
  BY <1>1, <1>2, PTL
<1>4. ManagersSpec => []MeshComplete
  BY <1>1, <1>2, PTL
<1>5. QED
  BY <1>3, <1>4

-----------------------------------------------------------------------------
(***************************************************************************)
(* "localhost".  One workload more.                                        *)
(***************************************************************************)
LEMMA AddLocalhostReach ==
    ASSUME IInv, NEW p \in Pods, HasBridge(p), NEW S, IsFiniteSet(S), S \subseteq Nat,
           Cardinality(S) < IPsPerPod, NEW ip \in Nat, ip \notin S,
           Among(p, S), AddLocalhost(p, ip)
    PROVE  /\ podDevices'[p].podBridge = podDevices[p].podBridge
           /\ Reach(fromLocalhostBpfMaps'[podDevices[p].podBridge],
                    podDevices'[p].linksToKeep, S \cup {ip})
<1> DEFINE c   == podDevices[p].podBridge
           old == fromLocalhostBpfMaps[c]
           all == S \cup {ip}
<1>1. /\ c \in Calls /\ podDevices \in [Pods -> PodDevicesType]
      /\ DOMAIN fromLocalhostBpfMaps = Calls /\ LocalhostMapsType(old)
  BY EntryFacts DEF IInv, TypeOK
<1>2. DOMAIN old = S /\ podDevices[p].linksToKeep = S /\ \A w \in S : Lists(old[w], S)
  BY DEF Among, Reach
<1>3. PICK others \in Orders(S) :
          fromLocalhostBpfMaps' = [fromLocalhostBpfMaps EXCEPT ![c] =
              [w \in all |-> IF w = ip THEN PutNext(others, ip) ELSE PutNext(old[w], ip)]]
  <2>1. S \ {ip} = S
    OBVIOUS
  <2>2. QED
    BY <1>2, <2>1 DEF AddLocalhost
<1>4. podDevices' = [podDevices EXCEPT ![p].linksToKeep = @ \cup {ip}]
  BY DEF AddLocalhost
<1>5. /\ podDevices'[p].podBridge = c /\ podDevices'[p].linksToKeep = all
  <2>1. podDevices[p] \in PodDevicesType
    BY <1>1
  <2>2. QED
    BY <1>1, <1>2, <1>4, <2>1 DEF PodDevicesType
<1>6. others \in Seq(Nat) /\ Lists(others, S)
  BY OrdersList
<1>7. Lists(PutNext(others, ip), all)
  BY <1>6, ListsPutNext
<1>8. \A w \in S : Lists(PutNext(old[w], ip), all)
  <2> SUFFICES ASSUME NEW w \in S PROVE Lists(PutNext(old[w], ip), all)
    OBVIOUS
  <2>1. old[w] \in Seq(Nat) /\ Lists(old[w], S)
    BY <1>1, <1>2 DEF LocalhostMapsType
  <2>2. QED
    BY <2>1, ListsPutNext
<1>9. fromLocalhostBpfMaps'[c] =
          [w \in all |-> IF w = ip THEN PutNext(others, ip) ELSE PutNext(old[w], ip)]
  BY <1>1, <1>3
<1> HIDE DEF old, all
<1>10. Reach(fromLocalhostBpfMaps'[c], podDevices'[p].linksToKeep, all)
  <2>1. \A w \in all : w = ip \/ w \in S
    BY DEF all
  <2>2. QED
    BY <1>5, <1>7, <1>8, <1>9, <2>1 DEF Reach
<1>11. QED
  BY <1>5, <1>10 DEF all

\* The steps that leave the localhost maps of the handler's pod as they are.
Localhost(h) == \/ SetupPodBridge(h) \/ NetNsLocalhost(h)
                \/ TapLocalhost(h) \/ TapLocalhostPanics(h)

LEMMA ReachStays ==
    ASSUME IInv, SInv, NEW h \in Handlers, Step(h), ~Localhost(h),
           NEW p \in Pods, p = frame[h].pod
    PROVE  /\ UNCHANGED fromLocalhostBpfMaps
           /\ podDevices'[p].podBridge = podDevices[p].podBridge
           /\ podDevices'[p].linksToKeep = podDevices[p].linksToKeep
<1>1. podDevices[p] \in PodDevicesType /\ podDevices \in [Pods -> PodDevicesType]
  BY DEF IInv, TypeOK
<1>2. EitherInit(h) \/ EitherTun(h) \/ StopPodNetwork(h)
  BY DEF Step, EitherInit, EitherTun
<1>3. UNCHANGED fromLocalhostBpfMaps
  BY DEF Localhost, Step, InitPodNetwork, CreateVMTun, StopPodNetwork, RecordPodIP,
      SetupPodBridgePanics, GetNetNsIP, SetupPodNetNs, SetupPodNetNsFails,
      NetNsLocalhostFails, LoadSplit, LoadPanics, LoadRedirect, AddRoute,
      PublishRedirect, UpdateOther, UpdateOtherPanics, WriteBack, AttachBridge, AddTap,
      AddTapPanics, DeleteBridge, DeleteBridgePanics, goVars
<1>4. podDevices'[p].podBridge = podDevices[p].podBridge
  BY <1>2, OwnEntry DEF Localhost
<1>5. podDevices'[p].linksToKeep = podDevices[p].linksToKeep
  <2>1. CASE LoadSplit(h)
    BY <1>1, <2>1 DEF LoadSplit, PodDevicesType
  <2>2. CASE PublishRedirect(h)
    BY <1>1, <2>2 DEF PublishRedirect, PodDevicesType
  <2>3. CASE AttachBridge(h)
    BY <1>1, <2>3 DEF AttachBridge, PodDevicesType
  <2>4. CASE WriteBack(h) \/ AddTap(h)
    BY <2>4, CopyBack DEF SInv
  <2>5. CASE ~LoadSplit(h) /\ ~PublishRedirect(h) /\ ~AttachBridge(h)
             /\ ~WriteBack(h) /\ ~AddTap(h)
    <3>1. UNCHANGED podDevices
      BY <2>5 DEF Localhost, Step, InitPodNetwork, CreateVMTun, StopPodNetwork,
          RecordPodIP, SetupPodBridgePanics, GetNetNsIP, SetupPodNetNs,
          SetupPodNetNsFails, NetNsLocalhostFails, LoadPanics, LoadRedirect, AddRoute,
          UpdateOther, UpdateOtherPanics, AddTapPanics, DeleteBridge,
          DeleteBridgePanics, goVars
    <3>2. QED
      BY <3>1
  <2>6. QED
    BY <2>1, <2>2, <2>3, <2>4, <2>5
<1>6. QED
  BY <1>3, <1>4, <1>5

\* A handler works on one pod until it returns.
LEMMA SamePod ==
    ASSUME IInv, NEW h \in Handlers, InitPodNetwork(h)
    PROVE  pc'[h] = "idle" \/ frame'[h].pod = frame[h].pod
<1>1. /\ frame \in [Handlers -> FrameType] /\ frame[h] \in FrameType
      /\ pc \in [Handlers -> Labels]
  BY DEF IInv, TypeOK
<1>2. CASE \E f : /\ frame'[h] = f
                  /\ \/ \E ip : f = [frame[h] EXCEPT !.podIp = ip]
                     \/ \E ip : f = [frame[h] EXCEPT !.subIp = ip]
                     \/ \E S : f = [frame[h] EXCEPT !.todo = S]
                     \/ \E q, dev, S : f = [frame[h] EXCEPT !.target = q, !.dev = dev,
                                                            !.todo = S]
                     \/ \E q, dev : f = [frame[h] EXCEPT !.target = q, !.dev = dev]
  BY <1>1, <1>2 DEF FrameType
<1>3. CASE \E result : Return(h, result)
  BY <1>1, <1>3 DEF Return, Call, Goto
<1>4. CASE UNCHANGED frame
  BY <1>4
<1>5. CASE RecordPodIP(h) \/ (GetNetNsIP(h) /\ ~Return(h, "failed"))
  BY <1>1, <1>2, <1>5 DEF RecordPodIP, GetNetNsIP, Call
<1>6. CASE LoadRedirect(h) \/ AddRoute(h) \/ PublishRedirect(h)
  BY <1>1, <1>2, <1>6 DEF LoadRedirect, AddRoute, PublishRedirect, Call
<1>7. CASE UpdateOther(h) \/ WriteBack(h)
  <2>1. CASE UpdateOther(h)
    <3>1. PICK q \in frame[h].todo :
              Call(h, "writeback", [frame[h] EXCEPT !.target = q,
                                        !.dev = podDevices[q], !.todo = @ \ {q}])
      BY <2>1 DEF UpdateOther
    <3>2. frame'[h] = [frame[h] EXCEPT !.target = q,
                                        !.dev = podDevices[q], !.todo = @ \ {q}]
      BY <1>1, <3>1 DEF Call
    <3>3. QED
      BY <1>1, <3>2 DEF FrameType
  <2>2. CASE WriteBack(h)
    <3>1. frame'[h] = [frame[h] EXCEPT !.target = Nobody, !.dev = NoDevices]
      BY <1>1, <2>2 DEF WriteBack, Call
    <3>2. QED
      BY <1>1, <3>1 DEF FrameType
  <2>3. QED
    BY <1>7, <2>1, <2>2
<1>8. QED
  BY <1>3, <1>4, <1>5, <1>6, <1>7
     DEF InitPodNetwork, SetupPodBridge, SetupPodBridgePanics, GetNetNsIP,
         SetupPodNetNs, SetupPodNetNsFails, NetNsLocalhost, NetNsLocalhostFails,
         LoadSplit, LoadPanics, UpdateOtherPanics, AttachBridge

LEMMA LocalhostInit ==
    ASSUME IInv, SInv, LInv, NEW h \in Handlers, InitPodNetwork(h),
           NEW p \in Pods, p = frame[h].pod
    PROVE  LocalhostStage(h)' /\ (Up(p)' => Among(p, AddressesOf(p))')
<1> DEFINE c == podDevices[p].podBridge
           Reached(S) == Reach(fromLocalhostBpfMaps'[podDevices'[p].podBridge],
                               podDevices'[p].linksToKeep, S)
<1>1. /\ pc \in [Handlers -> Labels] /\ frame \in [Handlers -> FrameType]
      /\ outcome \in [Pods -> Outcomes] /\ InOrder /\ CopyFresh(h)
      /\ LocalhostStage(h) /\ Stage(h) /\ EitherInit(h) /\ Step(h) /\ StepOf(h)
  BY DEF IInv, TypeOK, SInv, Stages, CopiesFresh, LInv, EitherInit, Step, StepOf
<1>2. ~AttachBridge(h) => ~Up(p)'
  BY <1>1, StageInit DEF Up
<1>3. pc'[h] = "idle" \/ frame'[h].pod = p
  BY SamePod
<1>4. CASE pc'[h] \in {"idle", "record", "bridge"} /\ ~AttachBridge(h)
  BY <1>2, <1>4 DEF LocalhostStage, Running
<1>5. CASE SetupPodBridge(h)
  <2>1. /\ pc'[h] = "netns" /\ UNCHANGED fromLocalhostBpfMaps
        /\ podDevices'[p].podBridge = frame[h].podLink
        /\ podDevices'[p].linksToKeep = {}
    BY <1>1, <1>5, SetupPodBridgeEntry DEF SetupPodBridge, Goto
  <2>2. DOMAIN fromLocalhostBpfMaps[frame[h].podLink] = {}
    BY <1>5, FrameFacts DEF LInv, IInv, Fresh, SetupPodBridge, InitLabels
  <2>3. Reached({})
    BY <2>1, <2>2 DEF Reach
  <2>4. QED
    BY <1>2, <1>3, <1>5, <2>1, <2>3 DEF LocalhostStage, Among, Running, SetupPodBridge,
                                    AttachBridge
<1>6. CASE (GetNetNsIP(h) /\ ~Return(h, "failed")) \/ SetupPodNetNs(h)
  <2>1. /\ pc[h] \in {"netns", "addns"} /\ pc'[h] \in {"addns", "localhost"}
        /\ ~Localhost(h) /\ ~AttachBridge(h)
    BY <1>1, <1>6 DEF GetNetNsIP, SetupPodNetNs, Call, Goto, Localhost, SetupPodBridge,
        NetNsLocalhost, TapLocalhost, TapLocalhostPanics, AttachBridge
  <2>2. Among(p, {})
    BY <1>1, <2>1 DEF LocalhostStage
  <2>3. Reached({})
    BY <1>1, <2>1, <2>2, ReachStays DEF Among
  <2>4. QED
    BY <1>2, <1>3, <2>1, <2>3 DEF LocalhostStage, Among, Running
<1>7. CASE NetNsLocalhost(h)
  <2>1. /\ pc[h] = "localhost" /\ pc'[h] = "split" /\ UNCHANGED addressesUsed
        /\ AddLocalhost(p, frame[h].subIp) /\ ~AttachBridge(h)
    BY <1>1, <1>7 DEF NetNsLocalhost, Goto, AttachBridge
  <2>2. /\ Among(p, {}) /\ HasBridge(p) /\ addressesUsed[c] = {frame[h].subIp}
        /\ c \in Calls
    BY <1>1, <2>1, RunningBridge DEF LocalhostStage, Stage, Running, SInv
  <2>3. /\ IsFiniteSet({}) /\ Cardinality({}) < IPsPerPod
    BY FS_EmptySet, PodNetworkAssumption
  <2>4. /\ podDevices'[p].podBridge = c
        /\ Reached({} \cup {frame[h].subIp})
    BY <2>1, <2>2, <2>3, FrameFacts, AddLocalhostReach
  <2>5. {} \cup {frame[h].subIp} = addressesUsed'[c]
    BY <2>1, <2>2
  <2>6. QED
    BY <1>2, <1>3, <2>1, <2>4, <2>5 DEF LocalhostStage, Among, AddressesOf, Running
<1>8. CASE /\ pc[h] \in Running \ {"netns", "addns", "localhost"}
           /\ pc'[h] # "idle" \/ AttachBridge(h)
  <2>1. ~Localhost(h) /\ UNCHANGED addressesUsed
    <3>1. ~Localhost(h) /\ ~Adds(h)
      BY <1>8 DEF Localhost, Adds, SetupPodBridge, NetNsLocalhost, TapLocalhost,
         TapLocalhostPanics, SetupPodNetNs, MRSetupPodNetNs, AddTap, MRAddTap,
         AddTapPanics, Running
    <3>2. QED
      BY <1>1, <3>1, OthersAddNothing
  <2>2. Among(p, AddressesOf(p))
    BY <1>1, <1>8 DEF LocalhostStage
  <2>3. Reached(addressesUsed'[podDevices'[p].podBridge])
    BY <1>1, <2>1, <2>2, ReachStays DEF Among, AddressesOf
  <2>4. pc'[h] \in (Running \ {"netns", "addns", "localhost"}) \cup {"idle"}
    BY <1>1, <1>8 DEF InitPodNetwork, RecordPodIP, SetupPodBridge,
      SetupPodBridgePanics, GetNetNsIP, SetupPodNetNs, SetupPodNetNsFails,
      NetNsLocalhost, NetNsLocalhostFails, LoadSplit, LoadPanics, LoadRedirect,
      AddRoute, PublishRedirect, UpdateOther, UpdateOtherPanics, WriteBack,
      AttachBridge, Return, Call, Goto, Running
  <2>5. QED
    BY <1>3, <2>3, <2>4 DEF LocalhostStage, Among, AddressesOf, Running
<1>9. QED
  <2>1. CASE RecordPodIP(h) \/ SetupPodBridgePanics(h) \/ SetupPodNetNsFails(h)
             \/ NetNsLocalhostFails(h) \/ LoadPanics(h) \/ UpdateOtherPanics(h)
             \/ (GetNetNsIP(h) /\ Return(h, "failed"))
    <3>1. pc'[h] \in {"idle", "bridge"} /\ ~AttachBridge(h)
      BY <1>1, <2>1 DEF RecordPodIP, SetupPodBridgePanics, SetupPodNetNsFails,
        NetNsLocalhostFails, LoadPanics, UpdateOtherPanics, GetNetNsIP, Return,
        Call, Goto, AttachBridge
    <3>2. QED
      BY <1>4, <3>1
  <2>2. CASE LoadSplit(h) \/ LoadRedirect(h) \/ AddRoute(h) \/ PublishRedirect(h)
             \/ UpdateOther(h) \/ WriteBack(h) \/ AttachBridge(h)
    <3>1. /\ pc[h] \in Running \ {"netns", "addns", "localhost"}
          /\ pc'[h] # "idle" \/ AttachBridge(h)
      BY <1>1, <2>2 DEF LoadSplit, LoadRedirect, AddRoute, PublishRedirect,
        UpdateOther, WriteBack, AttachBridge, Call, Goto, Running
    <3>2. QED
      BY <1>8, <3>1
  <2>3. QED
    BY <1>5, <1>6, <1>7, <2>1, <2>2 DEF InitPodNetwork

\* The workloads of a pod's bridge, for AddLocalhostReach.
LEMMA WorkloadsFinite ==
    ASSUME IInv, InOrder, NEW p \in Pods, HasBridge(p), NEW ip \in AddressesOf(p)
    PROVE  /\ IsFiniteSet(AddressesOf(p) \ {ip}) /\ AddressesOf(p) \ {ip} \subseteq Nat
           /\ Cardinality(AddressesOf(p) \ {ip}) < IPsPerPod
<1> DEFINE c == podDevices[p].podBridge
<1>1. c \in Calls /\ bridgeAddr[c] # None /\ addressesUsed[c] \subseteq Nat
  BY EntryFacts DEF IInv, TypeOK
<1>2. IsFiniteSet(addressesUsed[c]) /\ Cardinality(addressesUsed[c]) \in 0 .. IPsPerPod - 1
  BY <1>1, Workload
<1>3. /\ IsFiniteSet(addressesUsed[c] \ {ip})
      /\ Cardinality(addressesUsed[c] \ {ip}) = Cardinality(addressesUsed[c]) - 1
  BY <1>2, FS_RemoveElement DEF AddressesOf
<1>4. Cardinality(addressesUsed[c] \ {ip}) < IPsPerPod
  <2>1. IPsPerPod \in Nat
    BY PodNetworkAssumption
  <2>2. QED
    BY <1>2, <1>3, <2>1
<1>5. QED
  BY <1>1, <1>3, <1>4 DEF AddressesOf

LEMMA LocalhostTun ==
    ASSUME OneHandler, IInv, SInv, LInv, NEW h \in Handlers,
           CreateVMTun(h) \/ StopPodNetwork(h), NEW p \in Pods, p = frame[h].pod
    PROVE  /\ LocalhostStage(h)'
           /\ Up(p)' /\ pc'[h] # "taplocalhost" => Among(p, AddressesOf(p))'
<1> DEFINE c  == podDevices[p].podBridge
           ip == frame[h].subIp
<1>1. /\ pc \in [Handlers -> Labels] /\ outcome \in [Pods -> Outcomes]
      /\ addressesUsed \in [Calls -> SUBSET Nat]
      /\ InOrder /\ LocalhostStage(h) /\ Complete(p) /\ Step(h) /\ StepOf(h)
  BY DEF IInv, TypeOK, SInv, Stages, LInv, Step, StepOf, EitherTun
<1>2. CASE AddTap(h)
  <2>1. /\ pc[h] = "tap" /\ pc'[h] = "taplocalhost" /\ UNCHANGED <<frame, outcome>>
        /\ ~Localhost(h)
    BY <1>1, <1>2 DEF AddTap, Goto, Localhost, SetupPodBridge, NetNsLocalhost,
      TapLocalhost, TapLocalhostPanics
  <2>2. /\ UNCHANGED fromLocalhostBpfMaps /\ podDevices'[p].podBridge = c
        /\ podDevices'[p].linksToKeep = podDevices[p].linksToKeep
    BY <1>1, <2>1, ReachStays
  <2>3. ASSUME Up(p)
        PROVE  /\ ip \in addressesUsed'[c]
               /\ Reach(fromLocalhostBpfMaps[c], podDevices[p].linksToKeep,
                        addressesUsed'[c] \ {ip})
    <3>1. Among(p, AddressesOf(p))
      BY <2>1, <2>3 DEF LInv, OneHandler
    <3>2. /\ HasSubPodIP(podDevices[p]) /\ HasBridge(p)
          /\ ip = getNextSubPodIP(podDevices[p])
          /\ addressesUsed'[c] = addressesUsed[c] \cup {ip}
      BY <1>2, AddsWorkload DEF Adds
    <3>3. ip \notin addressesUsed[c]
      BY <1>1, <3>2, NextWorkload
    <3>4. addressesUsed'[c] \ {ip} = addressesUsed[c]
      BY <3>2, <3>3
    <3>5. QED
      BY <3>1, <3>2, <3>4 DEF Among, AddressesOf
  <2>4. LocalhostStage(h)'
    BY <2>1, <2>2, <2>3 DEF LocalhostStage, Among, AddressesOf, Up, Running
  <2>5. QED
    BY <2>1, <2>4
<1>3. CASE TapLocalhost(h)
  <2>1. /\ pc[h] = "taplocalhost" /\ pc'[h] = "idle" /\ UNCHANGED <<outcome, addressesUsed>>
        /\ AddLocalhost(p, ip)
    BY <1>1, <1>3 DEF TapLocalhost, Call, Goto
  <2>2. ASSUME Up(p)
        PROVE  /\ podDevices'[p].podBridge = c
               /\ Reach(fromLocalhostBpfMaps'[c], podDevices'[p].linksToKeep,
                        addressesUsed[c])
    <3>1. /\ HasBridge(p) /\ ip \in AddressesOf(p)
          /\ Among(p, AddressesOf(p) \ {ip})
      BY <1>1, <2>1, <2>2 DEF LocalhostStage, Complete
    <3>2. PICK S : S = AddressesOf(p) \ {ip}
      OBVIOUS
    <3>3. /\ IsFiniteSet(S) /\ S \subseteq Nat /\ Cardinality(S) < IPsPerPod
          /\ ip \notin S /\ ip \in Nat /\ Among(p, S)
      BY <1>1, <3>1, <3>2, WorkloadsFinite, FrameFacts
    <3>4. /\ podDevices'[p].podBridge = c
          /\ Reach(fromLocalhostBpfMaps'[c], podDevices'[p].linksToKeep, S \cup {ip})
      BY <2>1, <3>1, <3>3, AddLocalhostReach
    <3>5. S \cup {ip} = addressesUsed[c]
      BY <3>1, <3>2 DEF AddressesOf
    <3>6. QED
      BY <3>4, <3>5
  <2>3. LocalhostStage(h)'
    BY <2>1 DEF LocalhostStage, Running
  <2>4. QED
    BY <2>1, <2>2, <2>3 DEF Among, AddressesOf, Up
<1>4. CASE AddTapPanics(h) \/ TapLocalhostPanics(h) \/ StopPodNetwork(h)
  <2>1. pc'[h] = "idle" /\ ~Up(p)'
    BY <1>1, <1>4 DEF AddTapPanics, TapLocalhostPanics, StopPodNetwork, DeleteBridge,
      DeleteBridgePanics, Return, Call, Goto, Up
  <2>2. QED
    BY <2>1 DEF LocalhostStage, Running
<1>5. QED
  BY <1>2, <1>3, <1>4 DEF CreateVMTun

\* The maps of bridges without address, those of calls still to come.
LEMMA NewMapsEmpty ==
    ASSUME IInv, SInv, LInv, NEW h \in Handlers, Step(h), NEW p \in Pods,
           p = frame[h].pod, NEW c \in Calls, bridgeAddr'[c] = None
    PROVE  DOMAIN fromLocalhostBpfMaps'[c] = {}
<1>1. bridgeAddr[c] = None /\ DOMAIN fromLocalhostBpfMaps[c] = {}
  BY BridgeAddressesStay DEF LInv, Step, StepOf, EitherInit, EitherTun
<1>2. DOMAIN fromLocalhostBpfMaps = Calls
  BY DEF IInv, TypeOK
<1>3. CASE NetNsLocalhost(h) \/ TapLocalhost(h)
  <2>1. HasBridge(p)
    BY <1>3 DEF IInv, FramesMatch, FrameMatches, NetNsLocalhost, TapLocalhost, Running
  <2>2. podDevices[p].podBridge # c
    BY <1>1, <2>1, EntryFacts
  <2>3. \E f : fromLocalhostBpfMaps' =
                   [fromLocalhostBpfMaps EXCEPT ![podDevices[p].podBridge] = f]
    BY <1>3 DEF NetNsLocalhost, TapLocalhost, AddLocalhost
  <2>4. QED
    BY <1>1, <1>2, <2>2, <2>3
<1>4. CASE TapLocalhostPanics(h)
  <2>1. HasBridge(p)
    BY <1>4 DEF IInv, FramesMatch, FrameMatches, TapLocalhostPanics
  <2>2. podDevices[p].podBridge # c
    BY <1>1, <2>1, EntryFacts
  <2>3. \/ UNCHANGED fromLocalhostBpfMaps
        \/ \E w : fromLocalhostBpfMaps' = [fromLocalhostBpfMaps EXCEPT
                      ![podDevices[p].podBridge][w] = PutNext(@, frame[h].subIp)]
    BY <1>4 DEF TapLocalhostPanics
  <2>4. QED
    BY <1>1, <1>2, <2>2, <2>3
<1>5. CASE SetupPodBridge(h)
  BY <1>1, <1>5 DEF SetupPodBridge
<1>6. QED
  BY <1>1, <1>3, <1>4, <1>5, ReachStays DEF Localhost

LEMMA LInvNext ==
    ASSUME OneHandler, IInv, SInv, LInv, NEW h \in Handlers,
           Step(h) \/ \E p \in Pods : Begin(h, p)
    PROVE  LInv'
<1>1. \A g \in Handlers : g = h
  BY DEF OneHandler
<1>2. /\ pc \in [Handlers -> Labels] /\ frame \in [Handlers -> FrameType]
      /\ EntriesApart /\ CopiesFresh
      /\ \A q \in Pods : Complete(q)
  BY DEF IInv, TypeOK, SInv, Stages
<1>3. ASSUME Step(h)
      PROVE  LInv'
  <2>1. /\ EitherInit(h) \/ EitherTun(h) \/ StopPodNetwork(h)
        /\ pc[h] # "idle"
    BY <1>3 DEF Step, EitherInit, EitherTun, InitPodNetwork, CreateVMTun,
      StopPodNetwork, RecordPodIP, SetupPodBridge, SetupPodBridgePanics, GetNetNsIP,
      SetupPodNetNs, SetupPodNetNsFails, NetNsLocalhost, NetNsLocalhostFails,
      LoadSplit, LoadPanics, LoadRedirect, AddRoute, PublishRedirect, UpdateOther,
      UpdateOtherPanics, WriteBack, AttachBridge, AddTap, AddTapPanics, TapLocalhost,
      TapLocalhostPanics, DeleteBridge, DeleteBridgePanics
  <2>2. PICK p \in Pods : p = frame[h].pod
    BY <2>1, FrameFacts
  <2>3. /\ LocalhostStage(h)'
        /\ Up(p)' /\ pc'[h] # "taplocalhost" => Among(p, AddressesOf(p))'
    BY <1>3, <2>2, LocalhostInit, LocalhostTun DEF Step
  <2>4. pc'[h] = "taplocalhost" => frame'[h].pod = p
    <3>1. CASE InitPodNetwork(h)
      BY <2>2, <3>1, SamePod
    <3>2. CASE AddTap(h)
      BY <2>2, <3>2 DEF AddTap
    <3>3. CASE ~InitPodNetwork(h) /\ ~AddTap(h)
      BY <1>2, <1>3, <3>3 DEF Step, CreateVMTun, AddTapPanics, TapLocalhost,
        TapLocalhostPanics, StopPodNetwork, DeleteBridge, DeleteBridgePanics, Return,
        Call, Goto
    <3>4. QED
      BY <3>1, <3>2, <3>3
  <2>5. ASSUME NEW q \in Pods \ {p}, Up(q)'
        PROVE  Among(q, AddressesOf(q))'
    <3>1. Kept(q)
      BY <2>1, <2>2, StepKeeps
    <3>2. Up(q) /\ HasBridge(q)
      BY <1>2, <2>5, <3>1 DEF Kept, Up, Complete
    <3>3. Among(q, AddressesOf(q))
      BY <1>1, <2>2, <2>5, <3>2 DEF LInv
    <3>4. QED
      BY <3>1, <3>2, <3>3 DEF Kept, Among, AddressesOf
  <2>6. \A c \in Calls : bridgeAddr'[c] = None => DOMAIN fromLocalhostBpfMaps'[c] = {}
    BY <1>3, <2>2, NewMapsEmpty
  <2>7. \A q \in Pods : Up(q)' /\ (\A g \in Handlers : pc'[g] = "taplocalhost"
                                                         => frame'[g].pod # q)
                            => Among(q, AddressesOf(q))'
    BY <2>2, <2>3, <2>4, <2>5
  <2>8. \A g \in Handlers : LocalhostStage(g)'
    BY <1>1, <2>3
  <2>9. QED
    BY <2>6, <2>7, <2>8 DEF LInv
<1>4. ASSUME NEW p \in Pods, Begin(h, p)
      PROVE  LInv'
  <2>1. /\ UNCHANGED <<goVars, bpfVars, bridges, bridgeAddr>>
        /\ \A q \in Pods : Up(q)' => Up(q)
    BY <1>4, BeginKeeps DEF Kept, Up
  <2>2. UNCHANGED <<podDevices, addressesUsed, fromLocalhostBpfMaps>>
    BY <2>1 DEF goVars
  <2>3. CASE UNCHANGED vars
    BY <2>3 DEF LInv, LocalhostStage, Among, AddressesOf, Up, vars, goVars, linkVars
  <2>4. CASE ~UNCHANGED vars
    <3>1. pc[h] = "idle" /\ pc'[h] \in {"record", "tap", "linkdel"}
      BY <1>2, <1>4, <2>4 DEF Begin, BeginInit, BeginVMTun, VMTunFails, DeleteNetNs,
        DeleteNetNsFails, CanServe, Call, Goto
    <3>2. \A q \in Pods : Up(q)' => Among(q, AddressesOf(q))'
      BY <1>1, <2>1, <2>2, <3>1 DEF LInv, Among, AddressesOf
    <3>3. \A g \in Handlers : LocalhostStage(g)'
      BY <1>1, <3>1 DEF LocalhostStage, Running
    <3>4. \A c \in Calls : bridgeAddr'[c] = None => DOMAIN fromLocalhostBpfMaps'[c] = {}
      BY <2>1, <2>2 DEF LInv
    <3>5. QED
      BY <3>2, <3>3, <3>4 DEF LInv
  <2>5. QED
    BY <2>3, <2>4
<1>5. QED
  BY <1>3, <1>4

LocalhostInv == networkMode = "fullmultiruntime" => LInv

LEMMA InitLInv == Init => LInv
<1> SUFFICES ASSUME Init PROVE LInv
  OBVIOUS
<1>1. \A c \in Calls : DOMAIN fromLocalhostBpfMaps[c] = {}
  BY DEF Init
<1>2. /\ \A h \in Handlers : pc[h] = "idle"
      /\ \A p \in Pods : ~Up(p)
  BY DEF Init, Up
<1>3. \A h \in Handlers : LocalhostStage(h)
  BY <1>2 DEF LocalhostStage, Running
<1>4. QED
  BY <1>1, <1>2, <1>3 DEF LInv

LEMMA SerialMesh == SerialInv /\ LInv => LocalhostMesh
<1> SUFFICES ASSUME SerialInv, LInv, NEW p \in Pods, Up(p), ~Busy(p)
             PROVE  LET c == BridgeOf(p)
                    IN  /\ DOMAIN fromLocalhostBpfMaps[c] = addressesUsed[c]
                        /\ \A w \in addressesUsed[c] :
                               Lists(fromLocalhostBpfMaps[c][w], addressesUsed[c])
                        /\ podDevices[p].linksToKeep = addressesUsed[c]
  BY DEF LocalhostMesh
<1>1. BridgeOf(p) = podDevices[p].podBridge
  BY UpFacts
<1>2. \A h \in Handlers : pc[h] = "taplocalhost" => frame[h].pod # p
  BY DEF Busy
<1>3. Among(p, AddressesOf(p))
  BY <1>2 DEF LInv
<1>4. QED
  BY <1>1, <1>3 DEF Among, AddressesOf, Reach

LEMMA LocalhostInvHolds ==
    ASSUME OneHandler
    PROVE  ManagersSpec => [](SerialInv /\ LocalhostInv)
<1>1. ManagersSpec => []SerialInv
  BY SerialInvHolds
<1>2. ManagersInit => LocalhostInv
  BY InitLInv DEF ManagersInit, LocalhostInv
<1>3. SerialInv /\ LocalhostInv /\ [ManagersNext]_<<vars, networkMode>> => LocalhostInv'
  <2> SUFFICES ASSUME SerialInv, LocalhostInv, [ManagersNext]_<<vars, networkMode>>,
                      networkMode' = "fullmultiruntime"
               PROVE  LInv'
    BY DEF LocalhostInv
  <2>1. networkMode = "fullmultiruntime" /\ LInv
    BY DEF ManagersNext, LocalhostInv
  <2>2. CASE Next
    BY <2>1, <2>2, LInvNext DEF Next, SerialInv
  <2>3. CASE UNCHANGED vars
    BY <2>1, <2>3 DEF LInv, LocalhostStage, Among, AddressesOf, Up, vars, goVars, linkVars
  <2>4. QED
    BY <2>1, <2>2, <2>3 DEF ManagersNext
<1>4. QED
  BY <1>1, <1>2, <1>3, PTL DEF ManagersSpec

(***************************************************************************)
(* With the pod-local manager each workload of a pod that is up has its    *)
(* localhost map, and it lists all the workloads of the pod, once each:    *)
(* attachLocalhostBpfPrograms fills the new workload's map and             *)
(* updateLocalhostBpfMaps adds it to the others, until the block is full.  *)
(***************************************************************************)
THEOREM LocalhostCorrect == OneHandler => (ManagersSpec => []LocalhostReachesAll)
<1> SUFFICES ASSUME OneHandler
             PROVE  ManagersSpec => []LocalhostReachesAll
  OBVIOUS
<1>1. SerialInv /\ LocalhostInv => LocalhostReachesAll
  BY SerialMesh DEF LocalhostInv, LocalhostReachesAll
<1>2. QED
  BY <1>1, LocalhostInvHolds, PTL

-----------------------------------------------------------------------------
(***************************************************************************)
(* Packets.  With aligned blocks the mask of the programs gives the        *)
(* address of the pod.                                                     *)
(***************************************************************************)
Aligned == FirstFree % IPsPerPod = 0

LEMMA DivMod ==
    ASSUME NEW a \in Nat, NEW n \in Nat \ {0}
    PROVE  /\ a % n \in 0 .. n - 1 /\ a \div n \in Nat
           /\ a = (a \div n) * n + (a % n)
OBVIOUS

LEMMA RemainderUnique ==
    ASSUME NEW n \in Nat \ {0}, NEW k \in Nat, NEW l \in Nat,
           NEW r \in 0 .. n - 1, NEW s \in 0 .. n - 1, k * n + r = l * n + s
    PROVE  r = s
<1>1. n \in Int /\ k \in Int /\ l \in Int /\ r \in Int /\ s \in Int
  OBVIOUS
<1>2. CASE k = l
  BY <1>1, <1>2
<1>3. CASE k < l
  <2>1. (k + 1) * n <= l * n
    BY <1>3
  <2>2. (k + 1) * n = k * n + n
    BY <1>1
  <2>3. QED
    BY <2>1, <2>2
<1>4. CASE l < k
  <2>1. (l + 1) * n <= k * n
    BY <1>4
  <2>2. (l + 1) * n = l * n + n
    BY <1>1
  <2>3. QED
    BY <2>1, <2>2
<1>5. QED
  BY <1>1, <1>2, <1>3, <1>4

LEMMA Remainder ==
    ASSUME NEW n \in Nat \ {0}, NEW k \in Nat, NEW r \in 0 .. n - 1
    PROVE  (k * n + r) % n = r
<1> DEFINE a == k * n + r
<1>1. a \in Nat
  OBVIOUS
<1>2. a % n \in 0 .. n - 1 /\ a \div n \in Nat /\ a = (a \div n) * n + (a % n)
  BY <1>1, DivMod
<1>3. QED
  BY <1>2, RemainderUnique

\* The pod's address is a multiple of the size of a block.
LEMMA PodIPAligned ==
    ASSUME Aligned, NEW f \in PodIPs
    PROVE  \E k \in Nat : f = k * IPsPerPod
<1>1. PICK i \in 0 .. SubnetSize : f = FirstFree + i * IPsPerPod
  BY FreeIPsArePodIPs DEF Addresses!FreeIPs
<1>2. FirstFree \in Nat /\ IPsPerPod \in Nat \ {0} /\ i \in Nat
  BY PodNetworkAssumption
<1>3. PICK k \in Nat : FirstFree = k * IPsPerPod
  <2>1. /\ FirstFree \div IPsPerPod \in Nat
        /\ FirstFree = (FirstFree \div IPsPerPod) * IPsPerPod + (FirstFree % IPsPerPod)
    BY <1>2, DivMod
  <2>2. PICK k \in Nat : k = FirstFree \div IPsPerPod
    BY <2>1
  <2>3. FirstFree = k * IPsPerPod + 0 /\ k * IPsPerPod \in Nat
    BY <1>2, <2>1, <2>2 DEF Aligned
  <2>4. QED
    BY <2>2, <2>3
<1>4. (k + i) * IPsPerPod = k * IPsPerPod + i * IPsPerPod /\ k + i \in Nat
  BY <1>2
<1>5. QED
  BY <1>1, <1>3, <1>4

LEMMA NetOfBlock ==
    ASSUME Aligned, NEW f \in PodIPs, NEW r \in 0 .. IPsPerPod - 1
    PROVE  Net(f + r) = f
<1>1. PICK k \in Nat : f = k * IPsPerPod
  BY PodIPAligned
<1>2. IPsPerPod \in Nat \ {0}
  BY PodNetworkAssumption
<1>3. (f + r) % IPsPerPod = r
  BY <1>1, <1>2, Remainder
<1>4. f \in Int /\ r \in Int
  BY <1>2, PodIPsPositive
<1>5. QED
  BY <1>3, <1>4 DEF Net

\* A pod with workloads has an address above that of the gateway.
LEMMA AboveGateway ==
    ASSUME Aligned, NEW f \in PodIPs, IPsPerPod > 1
    PROVE  f \in Nat /\ f > 1
<1>1. PICK k \in Nat : f = k * IPsPerPod
  BY PodIPAligned
<1>2. IPsPerPod \in Nat /\ f \in Nat /\ f # 0
  BY PodIPsPositive, PodNetworkAssumption DEF None
<1>3. k # 0
  BY <1>1, <1>2
<1>4. 1 * IPsPerPod <= k * IPsPerPod
  BY <1>2, <1>3
<1>5. QED
  BY <1>1, <1>2, <1>4

LEMMA LastBitSmall == ASSUME NEW a \in Nat PROVE LastBit(a) \in {0, 1}
BY DEF LastBit

\* The address of a workload, as the programs see it.
LEMMA WorkloadAddress ==
    ASSUME SerialInv, Aligned, NEW p \in Pods, Up(p), NEW w \in Workloads(p)
    PROVE  /\ w \in Nat /\ w > 1 /\ Net(w) = AddressOf(p)
           /\ AddressOf(p) \in Nat /\ AddressOf(p) > 1
           /\ IPsPerPod > 1 /\ AddressOf(p) \in PodIPs
<1> DEFINE a == AddressOf(p)
<1>1. a \in PodIPs /\ BridgeOf(p) \in Calls
  BY UpFacts
<1>2. w \in Addresses!Block(a) \ {a}
  BY <1>1, WorkloadsInBlock DEF Workloads, AddressOf
<1>3. a \in Nat /\ IPsPerPod \in Nat
  BY <1>1, PodIPsPositive, PodNetworkAssumption
<1> HIDE DEF a
<1>4. w \in Nat /\ w > a /\ w - a \in 0 .. IPsPerPod - 1 /\ IPsPerPod > 1
  BY <1>2, <1>3 DEF Addresses!Block
<1>5. a > 1
  BY <1>1, <1>4, AboveGateway
<1>6. Net(a + (w - a)) = a
  BY <1>1, <1>4, NetOfBlock
<1>7. a + (w - a) = w
  BY <1>3, <1>4
<1>8. QED
  BY <1>1, <1>3, <1>4, <1>5, <1>6, <1>7 DEF a

\* A copy for each slot of a list.
LEMMA ClonesReach ==
    ASSUME NEW slots \in Seq(Nat), NEW S, Lists(slots, S), NEW src
    PROVE  EachGets(Clones(slots, src), S, src)
<1> DEFINE pkts == Clones(slots, src)
<1>1. DOMAIN pkts = DOMAIN slots /\ \A i \in DOMAIN slots : pkts[i] = Packet(src, slots[i], FALSE)
  BY DEF Clones
<1>2. [i \in DOMAIN pkts |-> pkts[i].dst] = slots
  <2>1. slots = [i \in DOMAIN slots |-> slots[i]]
    OBVIOUS
  <2>2. \A i \in DOMAIN slots : pkts[i].dst = slots[i]
    BY <1>1 DEF Packet
  <2>3. [i \in DOMAIN slots |-> pkts[i].dst] = [i \in DOMAIN slots |-> slots[i]]
    BY <2>2
  <2>4. QED
    BY <1>1, <2>1, <2>3
<1>3. \A i \in DOMAIN pkts : pkts[i].src = src
  BY <1>1 DEF Packet
<1>4. QED
  BY <1>2, <1>3 DEF EachGets

\* What tc_subpodredirect does to a packet.
LEMMA NewSource ==
    ASSUME NEW w \in Nat, NEW d \in Nat, NEW r, NEW a \in Nat
    PROVE  [Packet(w, d, r) EXCEPT !.src = a] = Packet(a, d, r)
BY DEF Packet

LEMMA SerialDelivery == SerialInv /\ Aligned /\ "attach" \notin Faults => DeliveredOnce
<1> SUFFICES ASSUME SerialInv, Aligned, "attach" \notin Faults,
                    NEW p \in Pods, NEW q \in Pods, Up(p), Up(q), p # q, ~Busy(q),
                    NEW w \in Workloads(p), NEW d \in {AddressOf(q)} \cup Workloads(q)
             PROVE  EachGets(FromBridge(BridgeOf(p), Packet(w, d, FALSE)), Workloads(q),
                             AddressOf(p))
  BY DEF DeliveredOnce
<1> DEFINE a == AddressOf(p)
           b == AddressOf(q)
           c == BridgeOf(p)
           e == BridgeOf(q)
           pkt == Packet(w, d, FALSE)
           out == Packet(a, d, FALSE)
<1>1. /\ a \in PodIPs /\ b \in PodIPs /\ Programmed(c) /\ Programmed(e)
      /\ c \in Calls /\ e \in Calls /\ e \in bridges /\ c # e
      /\ bridgeAddr[c] = a /\ bridgeAddr[e] = b
      /\ Lists(splitMap[e], Workloads(q))
  BY UpFacts DEF AddressOf, Workloads
<1>2. a # b
  BY <1>1, UpFacts, BasesApart DEF SerialInv
<1>3. /\ w \in Nat /\ w > 1 /\ Net(w) = a /\ a \in Nat /\ a > 1 /\ IPsPerPod > 1
  BY WorkloadAddress
<1>4. /\ b \in Nat /\ b > 1
  BY <1>1, <1>3, AboveGateway
<1>5. Net(a) = a /\ Net(b) = b
  <2>1. 0 \in 0 .. IPsPerPod - 1
    BY PodNetworkAssumption
  <2>2. Net(a + 0) = a /\ Net(b + 0) = b
    BY <1>1, <2>1, NetOfBlock
  <2>3. QED
    BY <1>3, <1>4, <2>2
<1>6. d \in Nat /\ d > 1 /\ Net(d) = b
  BY <1>4, <1>5, WorkloadAddress
<1>7. redirectMap[c][b] = e
  <2>1. RouteTo(podDevices[p].podBridge, q)
    BY DEF SerialInv, SInv, Mesh
  <2>2. QED
    BY <2>1, UpFacts DEF RouteTo
<1>8. LastBit(a) \in {0, 1} /\ LastBit(b) \in {0, 1}
  BY <1>3, <1>4, LastBitSmall
<1> HIDE DEF a, b, c, e
<1>9. lh_tails_ipv4(c, pkt) = Redirected(e, out)
  <2>1. pkt.src = w /\ pkt.dst = d /\ pkt.rst = FALSE
    BY DEF Packet
  <2>2. [pkt EXCEPT !.src = a] = out
    <3>1. \A r : [Packet(w, d, r) EXCEPT !.src = a] = Packet(a, d, r)
      BY <1>3, <1>6, NewSource
    <3>2. QED
      BY <3>1, Zenon
  <2> HIDE DEF pkt, out
  <2>3. /\ Programmed(c) /\ Net(pkt.src) # Net(pkt.dst)
        /\ LastBit(bridgeAddr[c]) \notin {pkt.src, pkt.dst}
        /\ Net(pkt.dst) # bridgeAddr[c] /\ Net(pkt.src) = bridgeAddr[c]
    BY <1>1, <1>2, <1>3, <1>6, <1>8, <2>1
  <2>4. lh_tails_ipv4(c, pkt) = tc_subpodredirect(c, pkt)
    BY <2>3 DEF lh_tails_ipv4
  <2>5. Net(pkt.dst) \in PodIPs /\ ~pkt.rst /\ Net(pkt.src) = a
        /\ redirectMap[c][Net(pkt.dst)] = e
    BY <1>1, <1>3, <1>6, <1>7, <2>1
  <2>6. tc_subpodredirect(c, pkt) = Redirected(e, out)
    BY <2>2, <2>5 DEF tc_subpodredirect
  <2>7. QED
    BY <2>4, <2>6
<1>10. lh_tails_ipv4(e, out) = Handled(Clones(splitMap[e], a))
  <2>1. out.src = a /\ out.dst = d
    BY DEF Packet
  <2> HIDE DEF pkt, out
  <2>2. /\ Programmed(e) /\ Net(out.src) # Net(out.dst)
        /\ LastBit(bridgeAddr[e]) \notin {out.src, out.dst}
        /\ Net(out.dst) = bridgeAddr[e]
    BY <1>1, <1>2, <1>3, <1>5, <1>6, <1>8, <2>1
  <2>3. lh_tails_ipv4(e, out) = tc_generic2split(e, out)
    BY <2>2 DEF lh_tails_ipv4
  <2>4. QED
    BY <2>1, <2>3 DEF tc_generic2split
<1>11. FromBridge(c, pkt) = Clones(splitMap[e], a)
  <2> HIDE DEF pkt, out
  <2>1. QED
    BY <1>1, <1>9, <1>10 DEF FromBridge, Redirected, Handled
<1>12. splitMap[e] \in Seq(Nat)
  BY <1>1 DEF SerialInv, IInv, TypeOK
<1>13. EachGets(FromBridge(c, pkt), Workloads(q), a)
  BY <1>1, <1>11, <1>12, ClonesReach
<1>14. QED
  BY <1>13 DEF a, c, pkt

(***************************************************************************)
(* The programs over these maps: what a workload sends to another pod that *)
(* is up, or to one workload of it, reaches every workload of that pod     *)
(* once and bears the address of the sender's pod, however the maps came   *)
(* about.                                                                  *)
(***************************************************************************)
THEOREM Delivered ==
    OneHandler /\ Aligned /\ "attach" \notin Faults =>
        /\ Spec => []DeliveredOnce
        /\ ManagersSpec => []DeliveredOnce
<1> SUFFICES ASSUME OneHandler, Aligned, "attach" \notin Faults
             PROVE  (Spec => []DeliveredOnce) /\ (ManagersSpec => []DeliveredOnce)
  OBVIOUS
<1>1. (Spec => []SerialInv) /\ (ManagersSpec => []SerialInv)
  BY SerialInvHolds
<1>2. SerialInv => DeliveredOnce
  BY SerialDelivery
<1>3. Spec => []DeliveredOnce
  BY <1>1, <1>2, PTL
<1>4. ManagersSpec => []DeliveredOnce
  BY <1>1, <1>2, PTL
<1>5. QED
  BY <1>3, <1>4

-----------------------------------------------------------------------------
(***************************************************************************)
(* tc_lh2split, for pods whose workloads all have one of the slots that it *)
(* clones to.                                                              *)
(***************************************************************************)
LEMMA AllUsed ==
    ASSUME NEW slots \in Seq(Nat), NEW n \in Nat, Len(slots) <= n
    PROVE  SubSeq(slots, 1, IF Len(slots) < n THEN Len(slots) ELSE n) = slots
<1>1. Len(slots) \in Nat /\ (IF Len(slots) < n THEN Len(slots) ELSE n) = Len(slots)
  OBVIOUS
<1>2. SubSeq(slots, 1, Len(slots)) = slots
  OBVIOUS
<1>3. QED
  BY <1>1, <1>2

LEMMA ListedOnce ==
    ASSUME NEW slots \in Seq(Nat), NEW S, IsFiniteSet(S), Lists(slots, S), NEW w \in S
    PROVE  \E i \in DOMAIN slots : /\ slots[i] = w
                                   /\ \A j \in DOMAIN slots \ {i} : slots[j] # w
<1> DEFINE n == Len(slots)
<1>0. n \in Nat
  OBVIOUS
<1>1. DOMAIN slots = 1 .. n /\ n = Cardinality(S) /\ S = {slots[i] : i \in 1 .. n}
  <2>1. DOMAIN slots = 1 .. n
    OBVIOUS
  <2>2. QED
    BY <2>1 DEF Lists
<1>2. slots \in Surjection(1 .. n, S)
  <2>0. slots = [i \in DOMAIN slots |-> slots[i]]
    OBVIOUS
  <2>1. slots = [i \in 1 .. n |-> slots[i]]
    BY <1>1, <2>0
  <2>2. \A i \in 1 .. n : slots[i] \in S
    BY <1>1
  <2>3. slots \in [1 .. n -> S]
    BY <2>1, <2>2
  <2>4. \A s \in S : \E i \in 1 .. n : slots[i] = s
    BY <1>1
  <2>5. QED
    BY <2>3, <2>4 DEF Surjection
<1> HIDE DEF n
<1>3. IsFiniteSet(1 .. n) /\ Cardinality(1 .. n) = n
  BY <1>0, FS_Interval
<1>4. slots \in Injection(1 .. n, S)
  BY <1>1, <1>2, <1>3, FS_SurjSameCardinalityImpliesInj
<1>5. \A i, j \in 1 .. n : slots[i] = slots[j] => i = j
  BY <1>4 DEF Injection, IsInjective
<1>6. QED
  BY <1>1, <1>5

LEMMA ClonesGetOne ==
    ASSUME NEW slots \in Seq(Nat), NEW S, IsFiniteSet(S), Lists(slots, S), NEW w \in S,
           NEW src
    PROVE  GetsOne(Clones(slots, src), w, src)
<1>1. /\ DOMAIN Clones(slots, src) = DOMAIN slots
      /\ \A i \in DOMAIN slots : Clones(slots, src)[i] = Packet(src, slots[i], FALSE)
  BY DEF Clones
<1>2. \A i \in DOMAIN slots : /\ Clones(slots, src)[i].dst = slots[i]
                              /\ Clones(slots, src)[i].src = src
  BY <1>1 DEF Packet
<1>3. QED
  BY <1>1, <1>2, ListedOnce DEF GetsOne

LEMMA SerialLocalhost ==
    ASSUME SerialInv, LInv, Aligned, NEW p \in Pods, Up(p), ~Busy(p),
           Cardinality(Workloads(p)) <= ClonedSlots,
           NEW w \in Workloads(p), LastBit(w) = GatewayIP
    PROVE  LocalhostServes(p, w)
<1> DEFINE c == BridgeOf(p)
           a == AddressOf(p)
           all == Workloads(p)
           maps == fromLocalhostBpfMaps[c]
<1>1. /\ c \in Calls /\ podDevices[p].baseAddr = a /\ bridgeAddr[c] # None
      /\ LocalhostMapsType(maps)
  BY UpFacts, EntryFacts DEF SerialInv, IInv, TypeOK
<1>2. DOMAIN maps = all /\ podDevices[p].linksToKeep = all /\ \A v \in all : Lists(maps[v], all)
  BY SerialMesh DEF LocalhostMesh, Workloads
<1>3. IsFiniteSet(all) /\ Cardinality(all) \in Nat
  BY <1>1, Workload, FS_CardinalityType DEF SerialInv, SInv, Workloads
<1>4. ClonedSlots \in Nat
  BY PodNetworkAssumption DEF ClonedSlots
<1>5. ASSUME NEW v \in all
      PROVE  /\ maps[v] \in Seq(Nat) /\ Lists(maps[v], all)
             /\ SubSeq(maps[v], 1, IF Len(maps[v]) < ClonedSlots THEN Len(maps[v])
                                   ELSE ClonedSlots) = maps[v]
             /\ Net(v) = a /\ LastBit(v) # a
  <2>1. maps[v] \in Seq(Nat) /\ Lists(maps[v], all)
    BY <1>1, <1>2, <1>5 DEF LocalhostMapsType
  <2>2. Len(maps[v]) <= ClonedSlots
    BY <2>1 DEF Lists
  <2>3. Net(v) = a /\ a > 1 /\ v \in Nat /\ a \in Nat
    BY <1>5, WorkloadAddress
  <2>4. LastBit(v) \in {0, 1}
    BY <2>3, LastBitSmall
  <2>5. LastBit(v) # a
    BY <2>3, <2>4
  <2>6. QED
    BY <1>4, <2>1, <2>2, <2>3, <2>5, AllUsed
<1> HIDE DEF all, a
<1>6. tc_lh2split(p, Packet(w, GatewayIP, FALSE)) = Clones(maps[w], a)
  <2> DEFINE pkt == Packet(w, GatewayIP, FALSE)
  <2>1. pkt.src = w /\ pkt.dst = GatewayIP
    BY DEF Packet
  <2>2. w \in all /\ LastBit(w) = GatewayIP
    BY DEF all
  <2> HIDE DEF pkt
  <2>3. pkt.src \in podDevices[p].linksToKeep /\ pkt.dst = LastBit(pkt.src)
    BY <1>2, <2>1, <2>2
  <2>4. QED
    BY <1>1, <1>5, <2>1, <2>2, <2>3 DEF tc_lh2split, pkt
<1>7. ASSUME NEW v \in all
      PROVE  tc_lh2split(p, Packet(v, a, FALSE)) = Clones(maps[v], GatewayIP)
  <2> DEFINE pkt == Packet(v, a, FALSE)
  <2>1. pkt.src = v /\ pkt.dst = a
    BY DEF Packet
  <2> HIDE DEF pkt
  <2>2. /\ pkt.src \in podDevices[p].linksToKeep /\ pkt.dst # LastBit(pkt.src)
        /\ pkt.dst = Net(pkt.src)
    BY <1>2, <1>5, <1>7, <2>1
  <2>3. QED
    BY <1>5, <1>7, <2>1, <2>2 DEF tc_lh2split, pkt
<1>8. w \in all
  BY DEF all
<1>9. EachGets(tc_lh2split(p, Packet(w, GatewayIP, FALSE)), all, a)
  BY <1>5, <1>6, <1>8, ClonesReach
<1>10. \A v \in all : GetsOne(tc_lh2split(p, Packet(v, a, FALSE)), w, GatewayIP)
  BY <1>3, <1>5, <1>7, <1>8, ClonesGetOne
<1>11. QED
  BY <1>9, <1>10 DEF LocalhostServes, all, a

(***************************************************************************)
(* tc_lh2split: what a workload sends to "localhost" reaches each workload *)
(* of its pod once, and the answer of each comes back to it once and from  *)
(* "localhost", if the program takes its "localhost" for one and the slots *)
(* that it clones to suffice.                                              *)
(***************************************************************************)
THEOREM LocalhostAnswers ==
    OneHandler /\ Aligned => (ManagersSpec => []LocalhostRoundTrip)
<1> SUFFICES ASSUME OneHandler, Aligned
             PROVE  ManagersSpec => []LocalhostRoundTrip
  OBVIOUS
<1>1. SerialInv /\ LocalhostInv => LocalhostRoundTrip
  BY SerialLocalhost DEF LocalhostInv, LocalhostRoundTrip, HasLocalhost
<1>2. QED
  BY <1>1, LocalhostInvHolds, PTL
=============================================================================
