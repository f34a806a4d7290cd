----------------------------- MODULE MCManagers -----------------------------
(***************************************************************************)
(* The two multi-runtime managers side by side: the network mode decides   *)
(* which one the agent has.                                                *)
(***************************************************************************)
EXTENDS PodTraffic, TLC

VARIABLE networkMode

ManagersInit == Init /\ networkMode \in {"multiruntime", "fullmultiruntime"}

ManagersNext ==
    /\ \/ networkMode = "multiruntime" /\ MRNext
       \/ networkMode = "fullmultiruntime" /\ Next
    /\ UNCHANGED networkMode

ManagersSpec == ManagersInit /\ [][ManagersNext]_<<vars, networkMode>>

\* Pods differ in name only; so do handlers.
Symmetry == Permutations(Pods) \cup Permutations(Handlers)

(***************************************************************************)
(* With the pod-local manager, the localhost map of each workload lists    *)
(* all the workloads of its pod, with VMs added one after another until    *)
(* the block is full (updateLocalhostBpfMaps).                             *)
(***************************************************************************)
LocalhostReachesAll == networkMode = "fullmultiruntime" => LocalhostMesh

HasLocalhost(p) == networkMode = "fullmultiruntime" /\ Up(p) /\ ~Busy(p)

(***************************************************************************)
(* With the pod-local manager, a workload reaches all the workloads of its *)
(* pod by "localhost", itself included, and has their answers, if the      *)
(* program takes its "localhost" for one and the slots suffice.            *)
(***************************************************************************)
LocalhostRoundTrip ==
    \A p \in Pods : HasLocalhost(p) /\ Cardinality(Workloads(p)) <= ClonedSlots =>
        \A w \in Workloads(p) : LastBit(w) = GatewayIP => LocalhostServes(p, w)

(***************************************************************************)
(* The same for every workload: "full cross-runtime intrapod traffic       *)
(* including localhost features" (README.md:5).                            *)
(***************************************************************************)
LocalhostForAll ==
    \A p \in Pods : HasLocalhost(p) => \A w \in Workloads(p) : LocalhostServes(p, w)
=============================================================================
