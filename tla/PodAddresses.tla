---------------------------- MODULE PodAddresses ----------------------------
(***************************************************************************)
(* The address managers of pkg/network/IP4.go and pkg/network/IP6.go: one  *)
(* block of addresses for every pod network.                               *)
(*                                                                         *)
(* Addresses are offsets from the base of the node's subnet.  The two      *)
(* managers run the same search and differ in numbers only:                *)
(*                     FirstFree  IPsPerPod  SubnetSize  Dedicated         *)
(*   IPv4, standalone  8          8          255         0                 *)
(*   IPv6, standalone  16         16         65536       16                *)
(* Dedicated is what getContainerIPv6 adds to the number it searched with. *)
(*                                                                         *)
(* RequestPodIP takes no lock and its callers are goroutines (one for each *)
(* HTTP request), so the search and the insertion are two steps here.      *)
(*                                                                         *)
(* Definitions marked "Fault" are mistakes that the properties catch when  *)
(* they take the place of the definition that follows; nothing uses them.  *)
(***************************************************************************)
EXTENDS Integers

CONSTANTS Pods,             \* pod names ("namespace_name")
          Callers,          \* goroutines that call RequestPodIP
          FirstFree,        \* offset of the first block that is tried
          IPsPerPod,        \* subIPsPerPod: the distance between two blocks
          SubnetSize,       \* maxSubnetIP, as an offset
          Dedicated,        \* added to the offset that is handed out
          FreePodIPCalled,  \* whether anybody calls FreePodIP (nobody does)
          Nobody, Exhausted, Idle

ASSUME NumbersAssumption ==
    /\ FirstFree \in Nat /\ IPsPerPod \in Nat \ {0}
    /\ SubnetSize \in Nat /\ Dedicated \in Nat

VARIABLES usedPodAddresses,  \* which pod a searched offset is taken by
          pending,           \* a caller's pod and freeIP, inside RequestPodIP
          held               \* <<pod, address>> pairs returned to the callers

addressVars == <<usedPodAddresses, pending, held>>

(***************************************************************************)
(* The offsets below maxSubnetIP that the search walks through.  The first *)
(* one beyond them is never taken: finding it is running out of addresses. *)
(***************************************************************************)
\* Fault: a search that steps over one address less than a block.
FreeIPsTooClose == {f \in 0 .. SubnetSize - 1 :
               \E k \in 0 .. SubnetSize : f = FirstFree + k * (IPsPerPod - 1)}

FreeIPs == {f \in 0 .. SubnetSize - 1 :
               \E k \in 0 .. SubnetSize : f = FirstFree + k * IPsPerPod}

AddressOf(f) == f + Dedicated

Blocks == {AddressOf(f) : f \in FreeIPs}

Block(a) == a .. a + IPsPerPod - 1

Requests == [pod : Pods, free : FreeIPs \cup {Exhausted}]

ASSUME MarkersAssumption == /\ Nobody \notin Pods
                            /\ Exhausted \notin FreeIPs
                            /\ Idle \notin Requests

Init == /\ usedPodAddresses = [f \in FreeIPs |-> Nobody]
        /\ pending = [c \in Callers |-> Idle]
        /\ held = {}

taken(f) == usedPodAddresses[f] # Nobody

\* RequestPodIP, the search: the first offset that is not taken.
FindFreeIP(c, p) ==
    /\ pending[c] = Idle
    /\ \/ \E f \in FreeIPs :
            /\ ~taken(f)
            /\ \A g \in FreeIPs : g < f => taken(g)
            /\ pending' = [pending EXCEPT ![c] = [pod |-> p, free |-> f]]
       \/ /\ \A g \in FreeIPs : taken(g)
          /\ pending' = [pending EXCEPT ![c] = [pod |-> p, free |-> Exhausted]]
    /\ UNCHANGED <<usedPodAddresses, held>>

\* Fault: the address that is handed out is the one that was searched with.
RecordIPSearched(c) ==
    /\ pending[c] # Idle
    /\ pending' = [pending EXCEPT ![c] = Idle]
    /\ LET p == pending[c].pod
           f == pending[c].free
       IN  /\ f # Exhausted
           /\ usedPodAddresses' = [usedPodAddresses EXCEPT ![f] = p]
           /\ held' = held \cup {<<p, f>>}

\* Fault: the address is handed out without a note in the table.
RecordIPUnnoted(c) ==
    /\ pending[c] # Idle
    /\ pending' = [pending EXCEPT ![c] = Idle]
    /\ pending[c].free # Exhausted
    /\ held' = held \cup {<<pending[c].pod, AddressOf(pending[c].free)>>}
    /\ UNCHANGED usedPodAddresses

\* RequestPodIP, the rest: record the address and return it, or return
\* "Out of IP addresses".
RecordIP(c) ==
    /\ pending[c] # Idle
    /\ pending' = [pending EXCEPT ![c] = Idle]
    /\ LET p == pending[c].pod
           f == pending[c].free
       IN  \/ /\ f # Exhausted
              /\ usedPodAddresses' = [usedPodAddresses EXCEPT ![f] = p]
              /\ held' = held \cup {<<p, AddressOf(f)>>}
           \/ /\ f = Exhausted
              /\ UNCHANGED <<usedPodAddresses, held>>

\* Fault: the address is given back, but stays in the table.
FreePodIPKept(p) ==
    /\ FreePodIPCalled
    /\ \E f \in FreeIPs : /\ usedPodAddresses[f] = p
                          /\ held' = held \ {<<p, AddressOf(f)>>}
    /\ UNCHANGED <<usedPodAddresses, pending>>

\* Fault: the address of any pod is forgotten.
FreePodIPOfAnyPod(p) ==
    /\ FreePodIPCalled
    /\ \E f \in FreeIPs :
          /\ taken(f)
          /\ usedPodAddresses' = [usedPodAddresses EXCEPT ![f] = Nobody]
          /\ held' = held \ {<<p, AddressOf(f)>>}
    /\ UNCHANGED pending

\* FreePodIP: forgets one of the pod's addresses, whichever the map
\* iteration meets last.
FreePodIP(p) ==
    /\ FreePodIPCalled
    /\ \E f \in FreeIPs :
          /\ usedPodAddresses[f] = p
          /\ usedPodAddresses' = [usedPodAddresses EXCEPT ![f] = Nobody]
          /\ held' = held \ {<<p, AddressOf(f)>>}
    /\ UNCHANGED pending

Next == \/ \E c \in Callers, p \in Pods : FindFreeIP(c, p)
        \/ \E c \in Callers : RecordIP(c)
        \/ \E p \in Pods : FreePodIP(p)

Spec == Init /\ [][Next]_addressVars
-----------------------------------------------------------------------------
TypeOK == /\ usedPodAddresses \in [FreeIPs -> Pods \cup {Nobody}]
          /\ pending \in [Callers -> Requests \cup {Idle}]
          /\ held \subseteq Pods \X Blocks

(***************************************************************************)
(* No two blocks handed out by RequestPodIP have an address in common: the *)
(* bridges, network namespaces and VMs of different pods have different    *)
(* addresses.                                                              *)
(***************************************************************************)
GrantsDisjoint ==
    \A g, h \in held : g # h => Block(g[2]) \cap Block(h[2]) = {}

(***************************************************************************)
(* The manager's table and what callers hold stay in step: no block handed *)
(* out is forgotten (RequestPodIP would hand it out again), and none is    *)
(* kept for a pod that does not hold it (FreePodIP could not free it).     *)
(***************************************************************************)
TableMatchesGrants ==
    \A p \in Pods, f \in FreeIPs :
        usedPodAddresses[f] = p <=> <<p, AddressOf(f)>> \in held

Pool == INSTANCE AddressPool

(***************************************************************************)
(* One caller at a time, the manager implements the pool.                  *)
(***************************************************************************)
ImplementsPool == Pool!Spec
=============================================================================
