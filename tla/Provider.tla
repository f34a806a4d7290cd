------------------------------ MODULE Provider ------------------------------
(***************************************************************************)
(* The provider, pkg/provider/pod.go and instance.go: CreatePod, DeletePod *)
(* and UpdatePod over the maps pods and instances, which are not locked,   *)
(* and the backends that create, start and delete the workloads.           *)
(*                                                                         *)
(* Every pod has the containers 1 .. Containers, init containers first.    *)
(* Those in VMs are OSv images, the others run in containerd.  A step is   *)
(* the run of a handler to its next call of the network manager or of a    *)
(* backend, or to the end of that call.                                    *)
(*                                                                         *)
(* Of PodNetwork only what decides on the provider's steps is kept: which  *)
(* pods have a namespace, and an entry in podDevices, with maps or without.*)
(*                                                                         *)
(* Definitions marked "Fault" are mistakes that the properties catch when  *)
(* they take the place of the definition that follows; nothing uses them.  *)
(***************************************************************************)
EXTENDS Integers

CONSTANTS Pods,         \* pod identifiers
          SystemPods,   \* those labelled calico-node or kube-proxy
          Handlers,     \* goroutines that serve requests
          Containers,   \* number of containers of a pod
          VMs,          \* the containers with OSv images
          Overlap,      \* whether requests for one pod may overlap
          Faults,       \* which calls may fail, and whether the agent may
          Nobody

Cs == 1 .. Containers

ASSUME ProviderAssumption ==
    /\ SystemPods \subseteq Pods /\ Nobody \notin Pods
    /\ Containers \in Nat \ {0}
    /\ VMs \subseteq Cs
    /\ Overlap \in BOOLEAN
    /\ Faults \subseteq {"network", "image", "backend", "create", "start",
                        "delete", "crash"}

VARIABLES pods,        \* the pods that were given to CreatePod
          instances,   \* <<pod, container>> of the registered instances
          workload,    \* <<pod, container>> -> what its backend has of it
          refused,     \* history: workloads that were not deleted when asked
          orphans,     \* history: workloads that outlived an agent
          netns,       \* pods with a named network namespace
          podNetwork,  \* pod -> its entry in podDevices
          pc, frame,   \* handler -> next step, local variables
          outcome      \* pod -> how its last request ended

mapVars == <<pods, instances>>
netVars == <<netns, podNetwork>>
backendVars == <<workload, refused, orphans>>
vars == <<mapVars, backendVars, netVars, pc, frame, outcome>>

Ids == Pods \X Cs

NoFrame == [pod |-> Nobody, next |-> 0, update |-> FALSE]

Init == /\ pods = {} /\ instances = {} /\ refused = {}
        /\ workload = [i \in Ids |-> "absent"]
        /\ orphans = {}
        /\ netns \in SUBSET (Pods \ SystemPods)   \* left behind by a crash
        /\ podNetwork = [p \in Pods |-> "none"]
        /\ pc = [h \in Handlers |-> "idle"]
        /\ frame = [h \in Handlers |-> NoFrame]
        /\ outcome = [p \in Pods |-> "none"]

Busy(p) == \E h \in Handlers : pc[h] # "idle" /\ frame[h].pod = p
CanServe(h, p) == pc[h] = "idle" /\ (Overlap \/ ~Busy(p))

\* The instance that handler h is working on.
Current(h) == <<frame[h].pod, frame[h].next>>

Goto(h, label) == pc' = [pc EXCEPT ![h] = label]
Call(h, label, f) == Goto(h, label) /\ frame' = [frame EXCEPT ![h] = f]

\* The handler returns; net/http recovers what it panics with.
Return(h, result) ==
    /\ Call(h, "idle", NoFrame)
    /\ outcome' = [outcome EXCEPT ![frame[h].pod] = result]

\* Fault: one container too many.
LoopPast(h, k, label, then) ==
    IF k \in 1 .. Containers + 1
    THEN Call(h, label, [frame[h] EXCEPT !.next = k])
    ELSE Call(h, then, [frame[h] EXCEPT !.next = 1])

\* Go on with container k in the loop that starts at label, or, after the
\* last one, with container 1 at the label that follows.
Loop(h, k, label, then) ==
    IF k \in Cs THEN Call(h, label, [frame[h] EXCEPT !.next = k])
                ELSE Call(h, then, [frame[h] EXCEPT !.next = 1])

(***************************************************************************)
(* The ways a backend's DeleteInstance can end.  It may fail to delete the *)
(* workload, or fail half-way, when the task is deleted and the container  *)
(* is not.  Nothing happens if there is no such workload.                  *)
(***************************************************************************)
Delete(i) ==
    \/ /\ workload' = [workload EXCEPT ![i] = "absent"]
       /\ refused' = refused \ {i} /\ orphans' = orphans \ {i}
    \/ /\ "delete" \in Faults /\ workload[i] # "absent"
       /\ \/ UNCHANGED workload
          \/ i[2] \notin VMs /\ workload' = [workload EXCEPT ![i] = "taskless"]
       /\ refused' = refused \cup {i} /\ UNCHANGED orphans
-----------------------------------------------------------------------------
(***************************************************************************)
(* CreatePod.                                                              *)
(***************************************************************************)
BeginCreate(h, p) ==
    /\ CanServe(h, p) /\ p \notin SystemPods
    /\ pods' = pods \cup {p}
    /\ Call(h, "network", [NoFrame EXCEPT !.pod = p, !.next = 1])
    /\ outcome' = [outcome EXCEPT ![p] = "busy"]
    /\ UNCHANGED <<instances, backendVars, netVars>>

\* Pods of Kubernetes itself are registered and not deployed.
RegisterSystemPod(h, p) ==
    /\ CanServe(h, p) /\ p \in SystemPods
    /\ pods' = pods \cup {p}
    /\ outcome' = [outcome EXCEPT ![p] = "deployed"]
    /\ UNCHANGED <<instances, backendVars, netVars, pc, frame>>

\* InitPodNetwork; see PodNetwork.  It fails if the namespace exists.
InitPodNetwork(h) ==
    /\ pc[h] = "network"
    /\ LET p == frame[h].pod
       IN  \/ /\ p \notin netns
              /\ netns' = netns \cup {p}
              /\ podNetwork' = [podNetwork EXCEPT ![p] = "up"]
           \/ /\ p \in netns \/ "network" \in Faults
              /\ netns' \in {netns, netns \cup {p}}
              /\ podNetwork' = [podNetwork EXCEPT ![p] =
                                    IF p \in netns' THEN "partial" ELSE "bare"]
    /\ Loop(h, 1, "new", "start")
    /\ UNCHANGED <<mapVars, backendVars, outcome>>

\* It panics, before or after the pod got its entry.
InitPodNetworkPanics(h) ==
    /\ pc[h] = "network"
    /\ "network" \in Faults
    /\ LET p == frame[h].pod
       IN  \/ UNCHANGED netVars
           \/ /\ p \notin netns
              /\ netns' = netns \cup {p}
              /\ podNetwork' = [podNetwork EXCEPT ![p] = "partial"]
    /\ Return(h, "panicked")
    /\ UNCHANGED <<mapVars, backendVars>>

\* Fault: no check for a name collision.
newInstanceUnchecked(h) ==
    /\ pc[h] = "new"
    /\ Goto(h, "clean")
    /\ UNCHANGED <<mapVars, backendVars, netVars, frame, outcome>>

newInstance(h) ==
    /\ pc[h] = "new"
    /\ Current(h) \notin instances
    /\ Goto(h, "clean")
    /\ UNCHANGED <<mapVars, backendVars, netVars, frame, outcome>>

\* A name collision, or the image's configuration cannot be had.  CreatePod
\* returns; what it created for earlier containers stays.
newInstanceFails(h) ==
    /\ pc[h] = "new"
    /\ Current(h) \in instances \/ "image" \in Faults
    /\ Return(h, "failed")
    /\ UNCHANGED <<mapVars, backendVars, netVars>>

\* The image is for a backend that is not enabled: newInstance returns no instance and no error
\* (errors.Wrapf of a nil error), and CreatePod reads the instance's ID.
newInstancePanics(h) ==
    /\ pc[h] = "new"
    /\ Current(h) \notin instances
    /\ "backend" \in Faults
    /\ Return(h, "panicked")
    /\ UNCHANGED <<mapVars, backendVars, netVars>>

\* CreateInstance of both backends begins with a DeleteInstance, whose
\* error is dropped.
CleanUp(h) ==
    /\ pc[h] = "clean"
    /\ Delete(Current(h))
    /\ Goto(h, "create")
    /\ UNCHANGED <<mapVars, netVars, frame, outcome>>

\* The rest of CreateInstance.  containerd has no two containers of a name;
\* the files of a VM are written over, while it may be running.
CreateInstance(h) ==
    /\ pc[h] = "create"
    /\ LET i == Current(h)
       IN  /\ frame[h].next \in VMs \/ workload[i] = "absent"
           /\ IF workload[i] = "running"
              THEN UNCHANGED backendVars
              ELSE /\ workload' = [workload EXCEPT ![i] = "created"]
                   /\ refused' = refused \ {i} /\ orphans' = orphans \ {i}
    /\ Loop(h, frame[h].next + 1, "new", "start")
    /\ UNCHANGED <<mapVars, netVars, outcome>>

\* CreatePod returns the error; earlier containers stay created.  A failing
\* NewTask leaves a container without a task.
CreateInstanceFails(h) ==
    /\ pc[h] = "create"
    /\ LET i == Current(h)
       IN  /\ \/ "create" \in Faults
              \/ frame[h].next \notin VMs /\ workload[i] # "absent"
           /\ \/ UNCHANGED workload
              \/ /\ frame[h].next \notin VMs /\ workload[i] = "absent"
                 /\ workload' = [workload EXCEPT ![i] = "taskless"]
    /\ Return(h, "failed")
    /\ UNCHANGED <<mapVars, refused, orphans, netVars>>

\* CreateVMTun in a pod whose InitPodNetwork failed (and was logged only):
\* Lookup on a nil map.
CreateInstancePanics(h) ==
    /\ pc[h] = "create"
    /\ frame[h].next \in VMs /\ podNetwork[frame[h].pod] \in {"partial", "bare"}
    /\ Return(h, "panicked")
    /\ UNCHANGED <<mapVars, backendVars, netVars>>

\* containerd starts a task once; a VM is started from its files.
CanStart(i) == IF i[2] \in VMs THEN workload[i] # "absent"
                               ELSE workload[i] = "created"

StartInstance(h) ==
    /\ pc[h] = "start"
    /\ CanStart(Current(h))
    /\ workload' = [workload EXCEPT ![Current(h)] = "running"]
    /\ Goto(h, "register")
    /\ UNCHANGED <<mapVars, refused, orphans, netVars, frame, outcome>>

\* The error is logged and the instance registered all the same.
StartInstanceFails(h) ==
    /\ pc[h] = "start"
    /\ "start" \in Faults \/ ~CanStart(Current(h))
    /\ Goto(h, "register")
    /\ UNCHANGED <<mapVars, backendVars, netVars, frame, outcome>>

RegisterInstance(h) ==
    /\ pc[h] = "register"
    /\ instances' = instances \cup {Current(h)}
    /\ IF frame[h].next + 1 \in Cs
       THEN /\ Call(h, "start", [frame[h] EXCEPT !.next = @ + 1])
            /\ UNCHANGED outcome
       ELSE Return(h, "deployed")
    /\ UNCHANGED <<pods, backendVars, netVars>>
-----------------------------------------------------------------------------
(***************************************************************************)
(* DeletePod, and UpdatePod, which is a DeletePod and a CreatePod.         *)
(***************************************************************************)
\* Fault: the network is stopped before the instances are deleted.
BeginDeleteNetworkFirst(h, p, update) ==
    /\ CanServe(h, p)
    /\ netns' = netns \ {p}
    /\ Call(h, "delete", [pod |-> p, next |-> 1, update |-> update])
    /\ outcome' = [outcome EXCEPT ![p] = "busy"]
    /\ UNCHANGED <<mapVars, backendVars, podNetwork>>

BeginDelete(h, p, update) ==
    /\ CanServe(h, p)
    /\ Call(h, "delete", [pod |-> p, next |-> 1, update |-> update])
    /\ outcome' = [outcome EXCEPT ![p] = "busy"]
    /\ UNCHANGED <<mapVars, backendVars, netVars>>

\* Fault: the instance is forgotten, deleted or not.
DeleteInstanceForgets(h) ==
    /\ pc[h] = "delete"
    /\ Current(h) \in instances
    /\ Delete(Current(h))
    /\ instances' = instances \ {Current(h)}
    /\ Loop(h, frame[h].next + 1, "delete", "stop")
    /\ UNCHANGED <<pods, netVars, outcome>>

\* Fault: the error of a backend ends the loop.
DeleteInstanceStops(h) ==
    /\ pc[h] = "delete"
    /\ Current(h) \in instances
    /\ Delete(Current(h))
    /\ IF Current(h) \in refused' \ refused
       THEN Goto(h, "stop") /\ UNCHANGED frame
       ELSE Loop(h, frame[h].next + 1, "delete", "stop")
    /\ UNCHANGED <<mapVars, netVars, outcome>>

\* The error of a backend is dropped, and the instance stays registered.
DeleteInstance(h) ==
    /\ pc[h] = "delete"
    /\ Current(h) \in instances
    /\ Delete(Current(h))
    /\ Loop(h, frame[h].next + 1, "delete", "stop")
    /\ UNCHANGED <<mapVars, netVars, outcome>>

\* A container that has no registered instance.
SkipInstance(h) ==
    /\ pc[h] = "delete"
    /\ Current(h) \notin instances
    /\ Loop(h, frame[h].next + 1, "delete", "stop")
    /\ UNCHANGED <<mapVars, backendVars, netVars, outcome>>

\* StopPodNetwork; its error is dropped.  UpdatePod goes on to CreatePod.
StopPodNetwork(h) ==
    /\ pc[h] = "stop"
    /\ LET p == frame[h].pod
       IN  /\ p \notin netns \/ podNetwork[p] # "none"
           /\ netns' = netns \ {p}
           /\ IF frame[h].update /\ p \notin SystemPods
              THEN /\ pods' = pods \cup {p}
                   /\ Goto(h, "network")
                   /\ UNCHANGED <<frame, outcome>>
              ELSE /\ pods' = IF frame[h].update THEN pods \cup {p} ELSE pods
                   /\ Return(h, IF frame[h].update THEN "deployed" ELSE "deleted")
    /\ UNCHANGED <<instances, backendVars, podNetwork>>

\* A namespace without an entry, left behind by a crash: LinkDel of nil.
StopPodNetworkPanics(h) ==
    /\ pc[h] = "stop"
    /\ LET p == frame[h].pod
       IN  /\ p \in netns /\ podNetwork[p] = "none"
           /\ netns' = netns \ {p}
    /\ Return(h, "panicked")
    /\ UNCHANGED <<mapVars, backendVars, podNetwork>>

\* A workload ends by itself.
Exit(i) ==
    /\ workload[i] = "running"
    /\ workload' = [workload EXCEPT ![i] = "exited"]
    /\ UNCHANGED <<mapVars, refused, orphans, netVars, pc, frame, outcome>>
(***************************************************************************)
(* The agent ends and is started again.  What it had in memory is lost.    *)
(* The containerd backend deletes all containers when it is constructed,   *)
(* and only logs an error; nothing looks for VMs.                          *)
(***************************************************************************)
\* Fault: no container is deleted.
ScrubbedNone(failed) == {}

\* The containers that are deleted if those in failed are not.
Scrubbed(failed) == {i \in Ids : i[2] \notin VMs} \ failed

Restart ==
    /\ "crash" \in Faults
    /\ \E failed \in SUBSET {i \in Ids : i[2] \notin VMs /\ workload[i] # "absent"},
          half \in SUBSET Ids :
          /\ half \subseteq failed
          /\ failed = {} \/ "delete" \in Faults
          /\ workload' = [i \in Ids |->
                             CASE i \in Scrubbed(failed) -> "absent"
                               [] i \in half -> "taskless"
                               [] OTHER -> workload[i]]
          /\ orphans' = {i \in Ids : i[2] \in VMs /\ workload[i] # "absent"}
                        \cup failed
    /\ pods' = {} /\ instances' = {} /\ refused' = {}
    /\ pc' = [h \in Handlers |-> "idle"]
    /\ frame' = [h \in Handlers |-> NoFrame]
    /\ podNetwork' = [p \in Pods |-> "none"]
    /\ netns' \in {netns, {}}   \* an agent that is stopped tears them down
    /\ outcome' = [p \in Pods |-> "none"]
-----------------------------------------------------------------------------
CreatePod(h) ==
    \/ InitPodNetwork(h) \/ InitPodNetworkPanics(h)
    \/ newInstance(h) \/ newInstanceFails(h) \/ newInstancePanics(h)
    \/ CleanUp(h) \/ CreateInstance(h) \/ CreateInstanceFails(h)
    \/ CreateInstancePanics(h)
    \/ StartInstance(h) \/ StartInstanceFails(h) \/ RegisterInstance(h)

DeletePod(h) ==
    \/ DeleteInstance(h) \/ SkipInstance(h)
    \/ StopPodNetwork(h) \/ StopPodNetworkPanics(h)

Begin(h, p) == \/ BeginCreate(h, p) \/ RegisterSystemPod(h, p)
               \/ \E update \in BOOLEAN : BeginDelete(h, p, update)

Next == \/ \E h \in Handlers : CreatePod(h) \/ DeletePod(h)
        \/ \E h \in Handlers, p \in Pods : Begin(h, p)
        \/ \E i \in Ids : Exit(i)
        \/ Restart

Spec == Init /\ [][Next]_vars
-----------------------------------------------------------------------------
States == {"absent", "taskless", "created", "running", "exited"}
Labels == {"idle", "network", "new", "clean", "create", "start", "register",
           "delete", "stop"}
Outcomes == {"none", "busy", "deployed", "failed", "panicked", "deleted"}
Frames == [pod : Pods \cup {Nobody}, next : Nat, update : BOOLEAN]

\* Types; a handler in a request works on a pod and one of its containers.
TypeOK == /\ pods \subseteq Pods /\ netns \subseteq Pods
          /\ instances \subseteq Ids
          /\ refused \subseteq Ids /\ orphans \subseteq Ids
          /\ workload \in [Ids -> States]
          /\ podNetwork \in [Pods -> {"none", "bare", "partial", "up"}]
          /\ pc \in [Handlers -> Labels]
          /\ frame \in [Handlers -> Frames]
          /\ outcome \in [Pods -> Outcomes]
          /\ \A h \in Handlers :
                pc[h] # "idle" => frame[h].pod \in Pods /\ frame[h].next \in Cs

(***************************************************************************)
(* A workload that runs is known to the provider: its instance is          *)
(* registered, or the handler that started it (pod.go:252) is about to     *)
(* register it (pod.go:255).  DeletePod finds nothing else.  Left out are  *)
(* workloads that outlived an agent.  Requests may overlap.                *)
(***************************************************************************)
RunningCanBeDeleted ==
    \A i \in Ids : workload[i] = "running" =>
        \/ i \in instances \cup orphans
        \/ \E h \in Handlers : pc[h] = "register" /\ Current(h) = i

(***************************************************************************)
(* A registered workload that runs goes on running until it ends, or       *)
(* DeletePod or a restart deletes it: no CreatePod does, with the          *)
(* DeleteInstance that CreateInstance begins with                          *)
(* (backend_containerd.go:132, backend_osv.go:72).  Requests for one pod   *)
(* do not overlap.                                                         *)
(***************************************************************************)
RegisteredRunOn ==
    [][\A i \in instances \cap instances' :
          workload[i] = "running" =>
             \/ workload'[i] \in {"running", "exited"}
             \/ \E h \in Handlers : pc[h] = "delete" /\ Current(h) = i]_vars

(***************************************************************************)
(* The namespace of a pod outlives its workloads: StopPodNetwork           *)
(* (pod.go:379) comes after all of them were deleted.  Left out are        *)
(* workloads that a backend failed to delete, those that outlived an       *)
(* agent, and pods that never got a namespace (pod.go:84 logs the error).  *)
(* Requests for one pod do not overlap.                                    *)
(***************************************************************************)
NetworkOutlivesWorkloads ==
    \A i \in Ids \ (refused \cup orphans) :
        workload[i] = "running" => \/ i[1] \in netns
                                  \/ podNetwork[i[1]] = "bare"

(***************************************************************************)
(* "DeletePod takes a Kubernetes Pod and deletes it from the provider"     *)
(* (pod.go:353): after a DeletePod no workload of a registered instance is *)
(* left, whatever failed before, but those a backend failed to delete.     *)
(* Instances are registered when they are started, so what a CreatePod     *)
(* that failed half-way (pod.go:105) has created is excepted: no DeletePod *)
(* finds it.  Requests for one pod do not overlap.                         *)
(***************************************************************************)
DeletedPodsGone ==
    \A i \in instances \ refused : outcome[i[1]] = "deleted" => workload[i] = "absent"
-----------------------------------------------------------------------------
(***************************************************************************)
(* What a comment says, and the code does not do.                          *)
(***************************************************************************)
\* "UpdatePod takes a Kubernetes Pod and updates it within the provider"
\* (pod.go:338).  So after its DeletePod (pod.go:348) its CreatePod
\* (pod.go:351) finds no instance of the pod in its way, if nothing fails.
UpdateReplaces ==
    \A h \in Handlers :
        pc[h] = "new" /\ frame[h].update => Current(h) \notin instances
=============================================================================
