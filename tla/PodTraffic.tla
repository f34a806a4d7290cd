----------------------------- MODULE PodTraffic -----------------------------
(***************************************************************************)
(* What becomes of an IPv4 packet: the programs of                         *)
(* xdp-progs/multi-runtime-cni-ipv4 over the maps that the managers keep.  *)
(* They are functions of the state of PodNetwork: a packet is on its way   *)
(* for a time in which no map changes.                                     *)
(*                                                                         *)
(* Addresses are counted from the base of the node's subnet (a /24), as in *)
(* PodAddresses; blocks are aligned, so that the mask of the block is a    *)
(* remainder.  A bridge hands a frame to the workload whose MAC address it *)
(* bears; MAC addresses and checksums are left out.                        *)
(*                                                                         *)
(* Definitions marked "Fault" are mistakes that the properties catch when  *)
(* they take the place of the definition that follows; nothing uses them.  *)
(***************************************************************************)
EXTENDS MultiRuntimeNetwork

GatewayIP == 1                       \* the address of cni0, "localhost"

Packet(src, dst, rst) == [src |-> src, dst |-> dst, rst |-> rst]

Net(a) == a - (a % IPsPerPod)        \* a & 0xF8FFFFFF: the pod's address
LastBit(a) == a % 2                  \* a & 0x01FFFFFF

\* What a program does with a packet: the clones it sends out to workloads,
\* the bridge it redirects it to and as what, or neither (the host's
\* network stack goes on with it, or it is dropped).
Handled(clones) == [clones |-> clones, target |-> None, pkt |-> None]
Redirected(c, pkt) == [clones |-> <<>>, target |-> c, pkt |-> pkt]

\* A clone for each of the slots, from one sender.
Clones(slots, src) == [i \in DOMAIN slots |-> Packet(src, slots[i], FALSE)]
-----------------------------------------------------------------------------
(***************************************************************************)
(* The programs on a pod's bridge.                                         *)
(***************************************************************************)
\* tc_generic2split: to every active slot.
tc_generic2split(c, pkt) == Handled(Clones(splitMap[c], pkt.src))

\* Fault: the sender's own address is kept.
tc_subpodredirectAsIs(c, pkt) ==
    IF Net(pkt.dst) \notin PodIPs \/ pkt.rst THEN Handled(<<>>)
    ELSE Redirected(redirectMap[c][Net(pkt.dst)], pkt)

(***************************************************************************)
(* tc_subpodredirect: to the bridge of the pod with this address, with the *)
(* address of the sender's pod.  An address that the map does not have     *)
(* leaves over the public interface.  A TCP reset is dropped: the other    *)
(* workloads of the pod may have the connection.                           *)
(***************************************************************************)
tc_subpodredirect(c, pkt) ==
    IF Net(pkt.dst) \notin PodIPs \/ pkt.rst THEN Handled(<<>>)
    ELSE Redirected(redirectMap[c][Net(pkt.dst)],
                    [pkt EXCEPT !.src = Net(pkt.src)])

(***************************************************************************)
(* lh_tails_ipv4, where it is attached: packets for the pod are split, and *)
(* packets of the pod redirected.  Those that stay in the pod, or concern  *)
(* what the program takes for the localhost address, pass.                 *)
(***************************************************************************)
lh_tails_ipv4(c, pkt) ==
    LET snet == Net(pkt.src)  dnet == Net(pkt.dst)
    IN  CASE ~Programmed(c) \/ snet = dnet -> Handled(<<>>)
          [] LastBit(bridgeAddr[c]) \in {pkt.src, pkt.dst} -> Handled(<<>>)
          [] dnet = bridgeAddr[c] -> tc_generic2split(c, pkt)
          [] snet = bridgeAddr[c] -> tc_subpodredirect(c, pkt)
          [] OTHER -> Handled(<<>>)

\* What the workloads of the node get of a packet that enters bridge c.
FromBridge(c, pkt) ==
    LET first == lh_tails_ipv4(c, pkt)
    IN  IF first.target \in bridges THEN lh_tails_ipv4(first.target, first.pkt).clones
        ELSE first.clones
-----------------------------------------------------------------------------
(***************************************************************************)
(* tc_lh2split, on the host's end of the link of each workload.  Of the    *)
(* slots it uses the first half (4 of 8).  A packet for "localhost" goes   *)
(* to the workloads as sent by the pod's address; one for this address     *)
(* goes back to them, as sent by "localhost".  What it takes for           *)
(* "localhost" it makes of the sender's address.                           *)
(***************************************************************************)
ClonedSlots == IPsPerPod \div 2

\* Fault: answers bear the address that they were sent to.
tc_lh2splitNoReturn(p, pkt) ==
    LET slots == fromLocalhostBpfMaps[BridgeOf(p)][pkt.src]
        used  == SubSeq(slots, 1, IF Len(slots) < ClonedSlots THEN Len(slots) ELSE ClonedSlots)
    IN  IF pkt.dst \in {LastBit(pkt.src), Net(pkt.src)}
        THEN Clones(used, podDevices[p].baseAddr) ELSE <<>>

tc_lh2split(p, pkt) ==
    LET slots == fromLocalhostBpfMaps[BridgeOf(p)][pkt.src]
        used  == SubSeq(slots, 1, IF Len(slots) < ClonedSlots THEN Len(slots) ELSE ClonedSlots)
    IN  CASE pkt.src \notin podDevices[p].linksToKeep -> <<>>
          [] pkt.dst = LastBit(pkt.src) -> Clones(used, podDevices[p].baseAddr)
          [] pkt.dst = Net(pkt.src)     -> Clones(used, GatewayIP)
          [] OTHER -> <<>>
-----------------------------------------------------------------------------
(***************************************************************************)
(* Properties.                                                             *)
(***************************************************************************)
Workloads(p) == addressesUsed[BridgeOf(p)]

\* Each member of S gets one copy, sent by src.
EachGets(pkts, S, src) ==
    /\ Lists([i \in DOMAIN pkts |-> pkts[i].dst], S)
    /\ \A i \in DOMAIN pkts : pkts[i].src = src

(***************************************************************************)
(* A packet of a workload to a pod, or to one workload of a pod, on the    *)
(* same node reaches every workload of that pod, once, and no other; it    *)
(* bears the address of the sender's pod, to which the answer then goes.   *)
(* This takes the maps of both pods, made by different calls, and the      *)
(* programs of both bridges.                                               *)
(***************************************************************************)
DeliveredOnce ==
    \A p, q \in Pods : Up(p) /\ Up(q) /\ p # q /\ ~Busy(q) =>
        \A w \in Workloads(p), d \in {AddressOf(q)} \cup Workloads(q) :
            EachGets(FromBridge(BridgeOf(p), Packet(w, d, FALSE)), Workloads(q), AddressOf(p))

\* w gets one of the packets, and it was sent by src.
GetsOne(pkts, w, src) ==
    \E i \in DOMAIN pkts : /\ pkts[i].dst = w /\ pkts[i].src = src
                           /\ \A j \in DOMAIN pkts \ {i} : pkts[j].dst # w

\* A request of workload w to "localhost" reaches every workload of its pod,
\* and the answer of each of them comes back to w, once and from "localhost".
LocalhostServes(p, w) ==
    /\ EachGets(tc_lh2split(p, Packet(w, GatewayIP, FALSE)), Workloads(p), AddressOf(p))
    /\ \A v \in Workloads(p) :
           GetsOne(tc_lh2split(p, Packet(v, AddressOf(p), FALSE)), w, GatewayIP)
=============================================================================
