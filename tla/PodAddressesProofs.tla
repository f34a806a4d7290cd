------------------------- MODULE PodAddressesProofs -------------------------
(***************************************************************************)
(* What holds of the address managers for every subnet, block size and set *)
(* of pods.  The typing holds for concurrent callers too; that blocks are  *)
(* disjoint needs RequestPodIP calls that do not overlap (OneCaller):      *)
(* between its search and its insertion a second caller finds the block    *)
(* free as well.                                                           *)
(***************************************************************************)
EXTENDS PodAddresses, TLAPS

OneCaller == \A c, d \in Callers : c = d

(***************************************************************************)
(* A caller that is between the search and the insertion holds an offset   *)
(* that is still free.                                                     *)
(***************************************************************************)
PendingIsFree ==
    \A c \in Callers : pending[c] # Idle /\ pending[c].free # Exhausted
                           => ~taken(pending[c].free)

IInv == TypeOK /\ TableMatchesGrants /\ PendingIsFree

-----------------------------------------------------------------------------
(***************************************************************************)
(* Offsets the search can find are at least a block apart.                 *)
(***************************************************************************)
LEMMA FreeIPsApart ==
    ASSUME NEW f \in FreeIPs, NEW g \in FreeIPs, f < g
    PROVE  f + IPsPerPod <= g
<1>1. PICK i \in 0 .. SubnetSize : f = FirstFree + i * IPsPerPod
  BY DEF FreeIPs
<1>2. PICK j \in 0 .. SubnetSize : g = FirstFree + j * IPsPerPod
  BY DEF FreeIPs
<1>3. i \in Int /\ j \in Int /\ IPsPerPod \in Int /\ IPsPerPod > 0 /\ FirstFree \in Int
  BY NumbersAssumption
<1>4. i * IPsPerPod < j * IPsPerPod /\ i * IPsPerPod \in Int /\ j * IPsPerPod \in Int
  BY <1>1, <1>2, <1>3
<1>5. i < j
  <2>1. SUFFICES ASSUME j <= i PROVE FALSE
    BY <1>3
  <2>2. j * IPsPerPod <= i * IPsPerPod
    BY <2>1, <1>3
  <2>3. QED
    BY <2>2, <1>4
<1>6. (i + 1) * IPsPerPod <= j * IPsPerPod
  BY <1>3, <1>5
<1>7. (i + 1) * IPsPerPod = i * IPsPerPod + IPsPerPod
  BY <1>3
<1>8. QED
  BY <1>1, <1>2, <1>3, <1>4, <1>6, <1>7

(***************************************************************************)
(* Blocks of different offsets have no address in common.                  *)
(***************************************************************************)
LEMMA BlocksDisjoint ==
    ASSUME NEW f \in FreeIPs, NEW g \in FreeIPs, f # g
    PROVE  Block(AddressOf(f)) \cap Block(AddressOf(g)) = {}
<1>1. f \in Int /\ g \in Int /\ Dedicated \in Int /\ IPsPerPod \in Int
  BY NumbersAssumption DEF FreeIPs
<1>2. f + IPsPerPod <= g \/ g + IPsPerPod <= f
  BY <1>1, FreeIPsApart
<1>3. QED
  BY <1>1, <1>2 DEF Block, AddressOf

LEMMA AddressOfInjective ==
    ASSUME NEW f \in FreeIPs, NEW g \in FreeIPs, AddressOf(f) = AddressOf(g)
    PROVE  f = g
BY NumbersAssumption DEF AddressOf, FreeIPs

-----------------------------------------------------------------------------
(***************************************************************************)
(* The manager's state is well formed, however many goroutines call it.    *)
(***************************************************************************)
LEMMA InitTypeOK == Init => TypeOK
BY DEF Init, TypeOK

LEMMA NextTypeOK == TypeOK /\ [Next]_addressVars => TypeOK'
<1> SUFFICES ASSUME TypeOK, [Next]_addressVars PROVE TypeOK'
  OBVIOUS
<1> USE DEF TypeOK
<1>1. ASSUME NEW c \in Callers, NEW p \in Pods, FindFreeIP(c, p) PROVE TypeOK'
  BY <1>1 DEF FindFreeIP, Requests
<1>2. ASSUME NEW c \in Callers, RecordIP(c) PROVE TypeOK'
  <2>1. pending[c] \in Requests
    BY <1>2 DEF RecordIP
  <2>2. CASE pending[c].free # Exhausted
    <3>1. pending[c].pod \in Pods /\ pending[c].free \in FreeIPs
      BY <2>1, <2>2 DEF Requests
    <3>2. AddressOf(pending[c].free) \in Blocks
      BY <3>1 DEF Blocks
    <3>3. QED
      BY <1>2, <2>2, <3>1, <3>2 DEF RecordIP
  <2>3. CASE pending[c].free = Exhausted
    BY <1>2, <2>3 DEF RecordIP
  <2>4. QED
    BY <2>2, <2>3
<1>3. ASSUME NEW p \in Pods, FreePodIP(p) PROVE TypeOK'
  BY <1>3 DEF FreePodIP
<1>4. CASE UNCHANGED addressVars
  BY <1>4 DEF addressVars
<1>5. QED
  BY <1>1, <1>2, <1>3, <1>4 DEF Next

THEOREM TypeCorrect == Spec => []TypeOK
<1>1. QED
  BY InitTypeOK, NextTypeOK, PTL DEF Spec

-----------------------------------------------------------------------------
(***************************************************************************)
(* One caller at a time: the strengthened invariant.                       *)
(***************************************************************************)
LEMMA InitIInv == Init => IInv
BY InitTypeOK, MarkersAssumption
   DEF Init, IInv, TableMatchesGrants, PendingIsFree, FreeIPs

LEMMA RecordIPIInv ==
    ASSUME OneCaller, IInv, NEW c \in Callers, RecordIP(c)
    PROVE  TableMatchesGrants' /\ PendingIsFree'
<1>1. pending[c] \in Requests /\ pending' = [pending EXCEPT ![c] = Idle]
  BY DEF RecordIP, IInv, TypeOK
<1>2. PendingIsFree'
  BY <1>1 DEF PendingIsFree, OneCaller, IInv, TypeOK
<1>3. CASE pending[c].free = Exhausted
  BY <1>2, <1>3 DEF RecordIP, IInv, TableMatchesGrants
<1>4. CASE pending[c].free # Exhausted
  <2> DEFINE p == pending[c].pod
             f == pending[c].free
  <2>1. p \in Pods /\ f \in FreeIPs
    BY <1>1, <1>4 DEF Requests
  <2>2. usedPodAddresses[f] = Nobody
    BY <1>1, <1>4, MarkersAssumption DEF IInv, PendingIsFree, taken
  <2>3. /\ usedPodAddresses' = [usedPodAddresses EXCEPT ![f] = p]
        /\ held' = held \cup {<<p, AddressOf(f)>>}
    BY <1>4 DEF RecordIP
  <2>4. ASSUME NEW q \in Pods, NEW g \in FreeIPs
        PROVE  (usedPodAddresses[g] = q <=> <<q, AddressOf(g)>> \in held)'
    <3>1. usedPodAddresses[g] = q <=> <<q, AddressOf(g)>> \in held
      BY DEF IInv, TableMatchesGrants
    <3>2. CASE g = f
      BY <2>1, <2>2, <2>3, <3>1, <3>2, MarkersAssumption DEF IInv, TypeOK
    <3>3. CASE g # f
      <4>1. AddressOf(g) # AddressOf(f)
        BY <2>1, <3>3, AddressOfInjective
      <4>2. QED
        BY <2>1, <2>3, <3>1, <3>3, <4>1 DEF IInv, TypeOK
    <3>4. QED
      BY <3>2, <3>3
  <2>5. TableMatchesGrants'
    BY <2>4 DEF TableMatchesGrants
  <2>6. QED
    BY <1>2, <2>5
<1>5. QED
  BY <1>3, <1>4

LEMMA FreePodIPIInv ==
    ASSUME IInv, NEW p \in Pods, FreePodIP(p)
    PROVE  TableMatchesGrants' /\ PendingIsFree'
<1>1. PICK f \in FreeIPs :
          /\ usedPodAddresses[f] = p
          /\ usedPodAddresses' = [usedPodAddresses EXCEPT ![f] = Nobody]
          /\ held' = held \ {<<p, AddressOf(f)>>}
          /\ pending' = pending
  BY DEF FreePodIP
<1>2. ASSUME NEW q \in Pods, NEW g \in FreeIPs
      PROVE  (usedPodAddresses[g] = q <=> <<q, AddressOf(g)>> \in held)'
  <2>1. usedPodAddresses[g] = q <=> <<q, AddressOf(g)>> \in held
    BY DEF IInv, TableMatchesGrants
  <2>2. CASE g = f
    BY <1>1, <2>1, <2>2, MarkersAssumption DEF IInv, TypeOK
  <2>3. CASE g # f
    <3>1. AddressOf(g) # AddressOf(f)
      BY <2>3, AddressOfInjective
    <3>2. QED
      BY <1>1, <2>1, <2>3, <3>1 DEF IInv, TypeOK
  <2>4. QED
    BY <2>2, <2>3
<1>3. PendingIsFree'
  <2>1. ASSUME NEW c \in Callers, pending[c] # Idle, pending[c].free # Exhausted
        PROVE  taken(pending[c].free)' = FALSE
    <3>1. pending[c].free \in FreeIPs
      BY <2>1 DEF IInv, TypeOK, Requests
    <3>2. ~taken(pending[c].free)
      BY <2>1 DEF IInv, PendingIsFree
    <3>3. QED
      BY <1>1, <3>1, <3>2 DEF taken, IInv, TypeOK
  <2>2. QED
    BY <1>1, <2>1 DEF PendingIsFree
<1>4. QED
  BY <1>2, <1>3 DEF TableMatchesGrants

LEMMA NextIInv ==
    ASSUME OneCaller, IInv, [Next]_addressVars
    PROVE  IInv'
<1>1. TypeOK'
  BY NextTypeOK DEF IInv
<1>2. ASSUME NEW c \in Callers, NEW p \in Pods, FindFreeIP(c, p)
      PROVE  TableMatchesGrants' /\ PendingIsFree'
  <2>1. PICK f \in FreeIPs \cup {Exhausted} :
            /\ pending' = [pending EXCEPT ![c] = [pod |-> p, free |-> f]]
            /\ f # Exhausted => ~taken(f)
            /\ UNCHANGED <<usedPodAddresses, held>>
    <3>1. CASE \E f \in FreeIPs :
                  /\ ~taken(f)
                  /\ pending' = [pending EXCEPT ![c] = [pod |-> p, free |-> f]]
      BY <1>2, <3>1 DEF FindFreeIP
    <3>2. CASE pending' = [pending EXCEPT ![c] = [pod |-> p, free |-> Exhausted]]
      BY <1>2, <3>2 DEF FindFreeIP
    <3>3. QED
      BY <1>2, <3>1, <3>2 DEF FindFreeIP
  <2>2. pending'[c] = [pod |-> p, free |-> f]
    BY <2>1 DEF IInv, TypeOK
  <2>3. PendingIsFree'
    BY <2>1, <2>2 DEF PendingIsFree, taken, OneCaller
  <2>4. QED
    BY <2>1, <2>3 DEF IInv, TableMatchesGrants
<1>3. CASE UNCHANGED addressVars
  <2>1. TableMatchesGrants'
    BY <1>3 DEF addressVars, IInv, TableMatchesGrants
  <2>2. PendingIsFree'
    BY <1>3 DEF addressVars, IInv, PendingIsFree, taken
  <2>3. QED
    BY <1>1, <2>1, <2>2 DEF IInv
<1>4. ASSUME NEW c \in Callers, RecordIP(c)
      PROVE  TableMatchesGrants' /\ PendingIsFree'
  BY <1>4, RecordIPIInv
<1>5. ASSUME NEW p \in Pods, FreePodIP(p)
      PROVE  TableMatchesGrants' /\ PendingIsFree'
  BY <1>5, FreePodIPIInv
<1>6. QED
  BY <1>1, <1>2, <1>3, <1>4, <1>5 DEF Next, IInv

LEMMA IInvDisjoint == IInv => GrantsDisjoint
<1> SUFFICES ASSUME IInv, NEW g \in held, NEW h \in held, g # h
             PROVE  Block(g[2]) \cap Block(h[2]) = {}
  BY DEF GrantsDisjoint
<1>1. /\ g[1] \in Pods /\ g[2] \in Blocks /\ g = <<g[1], g[2]>>
      /\ h[1] \in Pods /\ h[2] \in Blocks /\ h = <<h[1], h[2]>>
  BY DEF IInv, TypeOK
<1>2. PICK e \in FreeIPs : g[2] = AddressOf(e)
  BY <1>1 DEF Blocks
<1>3. PICK f \in FreeIPs : h[2] = AddressOf(f)
  BY <1>1 DEF Blocks
<1>4. usedPodAddresses[e] = g[1] /\ usedPodAddresses[f] = h[1]
  BY <1>1, <1>2, <1>3 DEF IInv, TableMatchesGrants
<1>5. e # f
  BY <1>1, <1>2, <1>3, <1>4
<1>6. QED
  BY <1>2, <1>3, <1>5, BlocksDisjoint

(***************************************************************************)
(* Every two blocks RequestPodIP handed out are disjoint, and its table    *)
(* agrees with what was handed out.                                        *)
(***************************************************************************)
THEOREM SerialGrants ==
    ASSUME OneCaller
    PROVE  Spec => [](GrantsDisjoint /\ TableMatchesGrants)
<1>1. IInv /\ [Next]_addressVars => IInv'
  BY NextIInv
<1>2. IInv => GrantsDisjoint /\ TableMatchesGrants
  BY IInvDisjoint DEF IInv
<1>3. QED
  BY InitIInv, <1>1, <1>2, PTL DEF Spec

(***************************************************************************)
(* The table of used addresses (podip.go) marks every address of a block   *)
(* that was handed out and no other, so that a block is neither lost nor   *)
(* handed out again.                                                       *)
(***************************************************************************)
THEOREM SerialTable ==
    ASSUME OneCaller
    PROVE  Spec => []TableMatchesGrants
BY SerialGrants, PTL

-----------------------------------------------------------------------------
(***************************************************************************)
(* The pool: a search changes nothing, recording an address grants it,     *)
(* forgetting it releases it.                                              *)
(***************************************************************************)
LEMMA StepImplementsPool ==
    ASSUME OneCaller, IInv, [Next]_addressVars
    PROVE  [Pool!Next]_held
<1>1. ASSUME NEW c \in Callers, RecordIP(c)
      PROVE  [Pool!Next]_held
  <2>1. CASE pending[c].free = Exhausted
    BY <1>1, <2>1 DEF RecordIP
  <2>2. CASE pending[c].free # Exhausted
    <3> DEFINE p == pending[c].pod
               f == pending[c].free
    <3>1. /\ p \in Pods /\ f \in FreeIPs /\ usedPodAddresses[f] = Nobody
          /\ held' = held \cup {<<p, AddressOf(f)>>}
      <4>1. pending[c] \in Requests
        BY <1>1 DEF RecordIP, IInv, TypeOK
      <4>2. QED
        BY <1>1, <2>2, <4>1 DEF RecordIP, Requests, IInv, PendingIsFree, taken
    <3>2. AddressOf(f) \in Blocks
      BY <3>1 DEF Blocks
    <3>3. ASSUME NEW g \in held
          PROVE  Block(g[2]) \cap Block(AddressOf(f)) = {}
      <4>1. g[1] \in Pods /\ g[2] \in Blocks /\ g = <<g[1], g[2]>>
        BY DEF IInv, TypeOK
      <4>2. PICK e \in FreeIPs : g[2] = AddressOf(e)
        BY <4>1 DEF Blocks
      <4>3. usedPodAddresses[e] = g[1]
        BY <4>1, <4>2 DEF IInv, TableMatchesGrants
      <4>4. QED
        BY <3>1, <4>1, <4>2, <4>3, BlocksDisjoint, MarkersAssumption
    <3>4. Pool!Grant(p, AddressOf(f))
      BY <3>1, <3>3 DEF Pool!Grant, Pool!Block, Block
    <3>5. QED
      BY <3>1, <3>2, <3>4 DEF Pool!Next
  <2>3. QED
    BY <2>1, <2>2
<1>2. ASSUME NEW p \in Pods, FreePodIP(p)
      PROVE  [Pool!Next]_held
  <2>1. PICK f \in FreeIPs : /\ usedPodAddresses[f] = p
                             /\ held' = held \ {<<p, AddressOf(f)>>}
    BY <1>2 DEF FreePodIP
  <2>2. <<p, AddressOf(f)>> \in held /\ AddressOf(f) \in Blocks
    BY <2>1 DEF IInv, TableMatchesGrants, Blocks
  <2>3. QED
    BY <2>1, <2>2 DEF Pool!Next, Pool!Release
<1>3. ASSUME NEW c \in Callers, NEW p \in Pods, FindFreeIP(c, p)
      PROVE  [Pool!Next]_held
  BY <1>3 DEF FindFreeIP
<1>4. QED
  BY <1>1, <1>2, <1>3 DEF Next, addressVars

(***************************************************************************)
(* With calls that do not overlap the managers implement the address pool. *)
(***************************************************************************)
THEOREM SerialImplementsPool ==
    ASSUME OneCaller
    PROVE  Spec => ImplementsPool
<1>1. Init => Pool!Init
  BY DEF Init, Pool!Init
<1>2. IInv /\ [Next]_addressVars => IInv'
  BY NextIInv
<1>3. IInv /\ [Next]_addressVars => [Pool!Next]_held
  BY StepImplementsPool
<1>4. QED
  BY InitIInv, <1>1, <1>2, <1>3, PTL DEF Spec, ImplementsPool, Pool!Spec
=============================================================================
