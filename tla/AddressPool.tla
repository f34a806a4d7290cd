---------------------------- MODULE AddressPool ----------------------------
(***************************************************************************)
(* What pod networking needs of a CNAddressManager                         *)
(* (pkg/network/ContainerNetworking.go): every pod network is handed a     *)
(* block of consecutive addresses that nobody else holds, until the block  *)
(* is given back.  PodAddresses, the IPv4 and IPv6 managers as they are    *)
(* written, is shown to implement this pool.                               *)
(***************************************************************************)
EXTENDS Integers

CONSTANTS Pods,        \* the pods that ask for addresses
          Blocks,      \* first addresses of the blocks that can be handed out
          IPsPerPod    \* addresses in a block

VARIABLE held          \* the <<pod, first address>> pairs handed out

Block(a) == a .. a + IPsPerPod - 1

Init == held = {}

Grant(p, a) == /\ \A g \in held : Block(g[2]) \cap Block(a) = {}
               /\ held' = held \cup {<<p, a>>}

Release(p, a) == /\ <<p, a>> \in held
                 /\ held' = held \ {<<p, a>>}

Next == \E p \in Pods, a \in Blocks : Grant(p, a) \/ Release(p, a)

Spec == Init /\ [][Next]_held
=============================================================================
