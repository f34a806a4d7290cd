--------------------------- MODULE ProviderProofs ---------------------------
(***************************************************************************)
(* Theorems about Provider, for all numbers of pods, containers and        *)
(* handlers, and whatever fails.                                           *)
(***************************************************************************)
EXTENDS Provider, TLAPS

USE DEF backendVars, mapVars, netVars

-----------------------------------------------------------------------------
(***************************************************************************)
(* Types.                                                                  *)
(***************************************************************************)
LEMMA CsFacts == /\ Cs \subseteq Nat /\ 1 \in Cs /\ Containers \in Nat
                 /\ \A k \in Cs : k + 1 \in Nat
  BY ProviderAssumption DEF Cs

LEMMA CurrentTyped ==
  ASSUME TypeOK, NEW h \in Handlers, pc[h] # "idle"
  PROVE  Current(h) \in Ids /\ frame[h] \in Frames
  BY DEF TypeOK, Current, Ids

\* What the typing of pc and frame is, for one step of one handler.
LEMMA CallTyped ==
  ASSUME TypeOK, NEW h \in Handlers, NEW label \in Labels, NEW f \in Frames,
         label # "idle" => f.pod \in Pods /\ f.next \in Cs, Call(h, label, f)
  PROVE  /\ pc' \in [Handlers -> Labels] /\ frame' \in [Handlers -> Frames]
         /\ \A g \in Handlers : pc'[g] # "idle" =>
               frame'[g].pod \in Pods /\ frame'[g].next \in Cs
  BY DEF TypeOK, Call, Goto

THEOREM InitTyped == Init => TypeOK
  BY ProviderAssumption
  DEF Init, TypeOK, NoFrame, Frames, Labels, Outcomes, States, Ids

\* Loop calls one of its labels, for an existing container.
LEMMA LoopTyped ==
  ASSUME TypeOK, NEW h \in Handlers, pc[h] # "idle", NEW k \in Nat,
         NEW label \in Labels \ {"idle"}, NEW then \in Labels \ {"idle"},
         Loop(h, k, label, then)
  PROVE  /\ pc' \in [Handlers -> Labels] /\ frame' \in [Handlers -> Frames]
         /\ \A g \in Handlers : pc'[g] # "idle" =>
               frame'[g].pod \in Pods /\ frame'[g].next \in Cs
<1>1. frame[h] \in Frames /\ frame[h].pod \in Pods
  BY DEF TypeOK
<1>2. CASE k \in Cs
  BY <1>1, <1>2, CallTyped DEF Loop, Frames
<1>3. CASE k \notin Cs
  BY <1>1, <1>3, CallTyped, CsFacts DEF Loop, Frames
<1>. QED  BY <1>2, <1>3

LEMMA ReturnTyped ==
  ASSUME TypeOK, NEW h \in Handlers, pc[h] # "idle",
         NEW result \in Outcomes, Return(h, result)
  PROVE  /\ pc' \in [Handlers -> Labels] /\ frame' \in [Handlers -> Frames]
         /\ outcome' \in [Pods -> Outcomes]
         /\ \A g \in Handlers : pc'[g] # "idle" =>
               frame'[g].pod \in Pods /\ frame'[g].next \in Cs
<1>1. Call(h, "idle", NoFrame) /\ NoFrame \in Frames /\ "idle" \in Labels
  BY DEF Return, NoFrame, Frames, Labels
<1>2. outcome' \in [Pods -> Outcomes]
  BY DEF Return, TypeOK
<1>. QED  BY <1>1, <1>2, CallTyped

LEMMA DeleteTyped ==
  ASSUME TypeOK, NEW i \in Ids, Delete(i)
  PROVE  /\ workload' \in [Ids -> States]
         /\ refused' \subseteq Ids /\ orphans' \subseteq Ids
  BY DEF TypeOK, Delete, States

THEOREM StepTyped ==
  ASSUME TypeOK, [Next]_vars
  PROVE  TypeOK'
<1>. USE DEF TypeOK
<1>1. ASSUME NEW h \in Handlers, NEW p \in Pods, BeginCreate(h, p)
      PROVE  TypeOK'
  <2>. DEFINE f == [NoFrame EXCEPT !.pod = p, !.next = 1]
  <2>1. f \in Frames /\ f.pod \in Pods /\ f.next \in Cs
    BY CsFacts DEF NoFrame, Frames
  <2>2. Call(h, "network", f) /\ "network" \in Labels
    BY <1>1 DEF BeginCreate, Labels
  <2>3. outcome' \in [Pods -> Outcomes]
    BY <1>1 DEF BeginCreate, Outcomes
  <2>. HIDE DEF f
  <2>. QED  BY <1>1, <2>1, <2>2, <2>3, CallTyped DEF BeginCreate
<1>2. ASSUME NEW h \in Handlers, NEW p \in Pods, RegisterSystemPod(h, p)
      PROVE  TypeOK'
  BY <1>2 DEF RegisterSystemPod, Outcomes
<1>3. ASSUME NEW h \in Handlers, InitPodNetwork(h)  PROVE TypeOK'
  <2>1. netns' \subseteq Pods /\ podNetwork' \in [Pods -> {"none", "bare", "partial", "up"}]
    BY <1>3 DEF InitPodNetwork
  <2>2. Loop(h, 1, "new", "start") /\ pc[h] # "idle"
    BY <1>3 DEF InitPodNetwork
  <2>. QED  BY <1>3, <2>1, <2>2, LoopTyped DEF InitPodNetwork, Labels
<1>4. ASSUME NEW h \in Handlers, InitPodNetworkPanics(h)  PROVE TypeOK'
  <2>1. netns' \subseteq Pods /\ podNetwork' \in [Pods -> {"none", "bare", "partial", "up"}]
    BY <1>4 DEF InitPodNetworkPanics
  <2>2. Return(h, "panicked") /\ pc[h] # "idle"
    BY <1>4 DEF InitPodNetworkPanics
  <2>. QED  BY <1>4, <2>1, <2>2, ReturnTyped DEF InitPodNetworkPanics, Outcomes
<1>5. ASSUME NEW h \in Handlers, newInstance(h)  PROVE TypeOK'
  BY <1>5 DEF newInstance, Goto, Labels
<1>6. ASSUME NEW h \in Handlers, newInstanceFails(h)  PROVE TypeOK'
  BY <1>6, ReturnTyped DEF newInstanceFails, Outcomes
<1>7. ASSUME NEW h \in Handlers, newInstancePanics(h)  PROVE TypeOK'
  BY <1>7, ReturnTyped DEF newInstancePanics, Outcomes
<1>8. ASSUME NEW h \in Handlers, CleanUp(h)  PROVE TypeOK'
  <2>1. Current(h) \in Ids /\ Delete(Current(h))
    BY <1>8, CurrentTyped DEF CleanUp
  <2>. QED  BY <1>8, <2>1, DeleteTyped DEF CleanUp, Goto, Labels
<1>9. ASSUME NEW h \in Handlers, CreateInstance(h)  PROVE TypeOK'
  <2>1. pc[h] # "idle" /\ frame[h].next + 1 \in Nat
    BY <1>9, CsFacts DEF CreateInstance
  <2>2. /\ workload' \in [Ids -> States]
        /\ refused' \subseteq Ids /\ orphans' \subseteq Ids
    BY <1>9 DEF CreateInstance, States
  <2>. QED  BY <1>9, <2>1, <2>2, LoopTyped DEF CreateInstance, Labels
<1>10. ASSUME NEW h \in Handlers, CreateInstanceFails(h)  PROVE TypeOK'
  <2>1. workload' \in [Ids -> States]
    BY <1>10 DEF CreateInstanceFails, States
  <2>. QED  BY <1>10, <2>1, ReturnTyped DEF CreateInstanceFails, Outcomes
<1>11. ASSUME NEW h \in Handlers, CreateInstancePanics(h)  PROVE TypeOK'
  BY <1>11, ReturnTyped DEF CreateInstancePanics, Outcomes
<1>12. ASSUME NEW h \in Handlers, StartInstance(h)  PROVE TypeOK'
  BY <1>12 DEF StartInstance, Goto, Labels, States
<1>13. ASSUME NEW h \in Handlers, StartInstanceFails(h)  PROVE TypeOK'
  BY <1>13 DEF StartInstanceFails, Goto, Labels
<1>14. ASSUME NEW h \in Handlers, RegisterInstance(h)  PROVE TypeOK'
  <2>1. instances' \subseteq Ids
    BY <1>14, CurrentTyped DEF RegisterInstance
  <2>2. CASE frame[h].next + 1 \in Cs
    <3>. DEFINE f == [frame[h] EXCEPT !.next = @ + 1]
    <3>1. f \in Frames /\ f.pod \in Pods /\ f.next \in Cs
      BY <1>14, <2>2, CsFacts DEF RegisterInstance, Frames
    <3>2. Call(h, "start", f) /\ UNCHANGED outcome /\ "start" \in Labels
      BY <1>14, <2>2 DEF RegisterInstance, Call, Labels
    <3>. HIDE DEF f
    <3>. QED  BY <1>14, <2>1, <3>1, <3>2, CallTyped DEF RegisterInstance
  <2>3. CASE frame[h].next + 1 \notin Cs
    BY <1>14, <2>1, <2>3, ReturnTyped DEF RegisterInstance, Outcomes
  <2>. QED  BY <2>2, <2>3
<1>15. ASSUME NEW h \in Handlers, NEW p \in Pods, NEW update \in BOOLEAN,
              BeginDelete(h, p, update)
       PROVE  TypeOK'
  <2>. DEFINE f == [pod |-> p, next |-> 1, update |-> update]
  <2>1. f \in Frames /\ f.pod \in Pods /\ f.next \in Cs
    BY CsFacts DEF Frames
  <2>2. Call(h, "delete", f) /\ "delete" \in Labels
    BY <1>15 DEF BeginDelete, Labels
  <2>3. outcome' \in [Pods -> Outcomes]
    BY <1>15 DEF BeginDelete, Outcomes
  <2>. HIDE DEF f
  <2>. QED  BY <1>15, <2>1, <2>2, <2>3, CallTyped DEF BeginDelete
<1>16. ASSUME NEW h \in Handlers, DeleteInstance(h)  PROVE TypeOK'
  <2>1. Current(h) \in Ids /\ Delete(Current(h))
    BY <1>16, CurrentTyped DEF DeleteInstance
  <2>2. pc[h] # "idle" /\ frame[h].next + 1 \in Nat
    BY <1>16, CsFacts DEF DeleteInstance
  <2>. QED  BY <1>16, <2>1, <2>2, DeleteTyped, LoopTyped DEF DeleteInstance, Labels
<1>17. ASSUME NEW h \in Handlers, SkipInstance(h)  PROVE TypeOK'
  <2>1. pc[h] # "idle" /\ frame[h].next + 1 \in Nat
    BY <1>17, CsFacts DEF SkipInstance
  <2>. QED  BY <1>17, <2>1, LoopTyped DEF SkipInstance, Labels
<1>18. ASSUME NEW h \in Handlers, StopPodNetwork(h)  PROVE TypeOK'
  <2>1. netns' \subseteq Pods /\ pods' \subseteq Pods /\ pc[h] # "idle"
    BY <1>18 DEF StopPodNetwork
  <2>2. CASE frame[h].update /\ frame[h].pod \notin SystemPods
    BY <1>18, <2>1, <2>2 DEF StopPodNetwork, Goto, Labels
  <2>3. CASE ~(frame[h].update /\ frame[h].pod \notin SystemPods)
    <3>1. PICK result \in Outcomes : Return(h, result)
      BY <1>18, <2>3 DEF StopPodNetwork, Outcomes
    <3>. QED  BY <1>18, <2>1, <3>1, ReturnTyped DEF StopPodNetwork
  <2>. QED  BY <2>2, <2>3
<1>19. ASSUME NEW h \in Handlers, StopPodNetworkPanics(h)  PROVE TypeOK'
  <2>1. netns' \subseteq Pods
    BY <1>19 DEF StopPodNetworkPanics
  <2>. QED  BY <1>19, <2>1, ReturnTyped DEF StopPodNetworkPanics, Outcomes
<1>20. ASSUME NEW i \in Ids, Exit(i)  PROVE TypeOK'
  BY <1>20 DEF Exit, States
<1>21. ASSUME Restart  PROVE TypeOK'
  <2>1. /\ workload' \in [Ids -> States]
        /\ orphans' \subseteq Ids
    BY <1>21 DEF Restart, States
  <2>2. /\ pc' \in [Handlers -> Labels] /\ frame' \in [Handlers -> Frames]
        /\ outcome' \in [Pods -> Outcomes]
    BY <1>21 DEF Restart, Labels, Frames, NoFrame, Outcomes
  <2>. QED  BY <1>21, <2>1, <2>2 DEF Restart
<1>22. CASE UNCHANGED vars
  BY <1>22 DEF vars
<1>. QED
  BY <1>1, <1>2, <1>3, <1>4, <1>5, <1>6, <1>7, <1>8, <1>9, <1>10, <1>11, <1>12,
     <1>13, <1>14, <1>15, <1>16, <1>17, <1>18, <1>19, <1>20, <1>21, <1>22
  DEF Next, CreatePod, DeletePod, Begin

\* The provider's variables keep their types.
THEOREM TypeCorrect == Spec => []TypeOK
<1>. QED  BY InitTyped, StepTyped, PTL DEF Spec

-----------------------------------------------------------------------------
(***************************************************************************)
(* What runs can be deleted, however requests overlap.  Given its types,   *)
(* this is an inductive invariant.                                         *)
(***************************************************************************)
THEOREM StepDeletable ==
  ASSUME TypeOK, RunningCanBeDeleted, [Next]_vars
  PROVE  RunningCanBeDeleted'
<1>. DEFINE Known(i) == \/ i \in instances \cup orphans
                        \/ \E h \in Handlers : pc[h] = "register" /\ Current(h) = i
<1>. SUFFICES ASSUME NEW i \in Ids, workload'[i] = "running"
              PROVE  Known(i)'
  BY DEF RunningCanBeDeleted
<1>. USE DEF TypeOK
\* A step of a handler that has nothing to register and starts nothing.
<1>1. ASSUME NEW h \in Handlers, pc[h] # "register",
             \A g \in Handlers \ {h} : pc'[g] = pc[g] /\ frame'[g] = frame[g],
             workload[i] = "running", instances' = instances,
             i \in orphans => i \in orphans'
      PROVE  Known(i)'
  BY <1>1 DEF RunningCanBeDeleted, Current
\* Another handler's pc and frame stay as they are.
<1>2. ASSUME NEW h \in Handlers, CreatePod(h) \/ DeletePod(h)
      PROVE  \A g \in Handlers \ {h} : pc'[g] = pc[g] /\ frame'[g] = frame[g]
  BY <1>2 DEF CreatePod, DeletePod, InitPodNetwork, InitPodNetworkPanics,
     newInstance, newInstanceFails, newInstancePanics, CleanUp, CreateInstance,
     CreateInstanceFails, CreateInstancePanics, StartInstance,
     StartInstanceFails, RegisterInstance, DeleteInstance, SkipInstance,
     StopPodNetwork, StopPodNetworkPanics, Loop, Return, Call, Goto
\* Delete never makes a workload run, or a running one an orphan no more.
<1>3. ASSUME NEW j \in Ids, Delete(j)
      PROVE  workload[i] = "running" /\ (i \in orphans => i \in orphans')
  BY <1>3 DEF Delete
<1>4. ASSUME NEW h \in Handlers, NEW p \in Pods, Begin(h, p)
      PROVE  Known(i)'
  BY <1>4, <1>1 DEF Begin, BeginCreate, RegisterSystemPod, BeginDelete,
     CanServe, Call, Goto
<1>5. ASSUME NEW h \in Handlers,
             \/ InitPodNetwork(h) \/ InitPodNetworkPanics(h) \/ newInstance(h)
             \/ newInstanceFails(h) \/ newInstancePanics(h)
             \/ CreateInstancePanics(h) \/ SkipInstance(h)
             \/ StopPodNetwork(h) \/ StopPodNetworkPanics(h)
      PROVE  Known(i)'
  <2>1. /\ pc[h] # "register" /\ UNCHANGED <<workload, orphans, instances>>
    BY <1>5 DEF InitPodNetwork, InitPodNetworkPanics, newInstance,
       newInstanceFails, newInstancePanics, CreateInstancePanics, SkipInstance,
       StopPodNetwork, StopPodNetworkPanics
  <2>. QED  BY <1>5, <2>1, <1>1, <1>2 DEF CreatePod, DeletePod
<1>6. ASSUME NEW h \in Handlers, CleanUp(h) \/ DeleteInstance(h)
      PROVE  Known(i)'
  <2>1. /\ Current(h) \in Ids /\ Delete(Current(h))
        /\ pc[h] # "register" /\ UNCHANGED instances
    BY <1>6, CurrentTyped DEF CleanUp, DeleteInstance
  <2>. QED  BY <1>6, <2>1, <1>1, <1>2, <1>3 DEF CreatePod, DeletePod
<1>7. ASSUME NEW h \in Handlers, CreateInstance(h) \/ CreateInstanceFails(h)
      PROVE  Known(i)'
  <2>1. /\ pc[h] # "register" /\ UNCHANGED instances
        /\ workload[i] = "running" /\ (i \in orphans => i \in orphans')
    BY <1>7, CurrentTyped DEF CreateInstance, CreateInstanceFails
  <2>. QED  BY <1>7, <2>1, <1>1, <1>2 DEF CreatePod
<1>8. ASSUME NEW h \in Handlers, StartInstance(h)
      PROVE  Known(i)'
  <2>1. CASE i = Current(h)
    BY <1>8, <2>1 DEF StartInstance, Goto, Current
  <2>2. CASE i # Current(h)
    <3>1. /\ workload[i] = "running" /\ pc[h] # "register"
          /\ UNCHANGED <<instances, orphans>>
      BY <1>8, <2>2 DEF StartInstance
    <3>. QED  BY <1>8, <3>1, <1>1, <1>2 DEF CreatePod
  <2>. QED  BY <2>1, <2>2
<1>9. ASSUME NEW h \in Handlers, StartInstanceFails(h)
      PROVE  Known(i)'
  <2>1. pc[h] # "register" /\ UNCHANGED <<workload, instances, orphans>>
    BY <1>9 DEF StartInstanceFails
  <2>. QED  BY <1>9, <2>1, <1>1, <1>2 DEF CreatePod
<1>10. ASSUME NEW h \in Handlers, RegisterInstance(h)
       PROVE  Known(i)'
  <2>1. /\ workload[i] = "running" /\ UNCHANGED orphans
        /\ instances' = instances \cup {Current(h)}
    BY <1>10 DEF RegisterInstance
  <2>2. \A g \in Handlers \ {h} : pc'[g] = pc[g] /\ Current(g)' = Current(g)
    BY <1>10, <1>2 DEF CreatePod, Current
  <2>. QED  BY <2>1, <2>2 DEF RunningCanBeDeleted
<1>11. ASSUME NEW j \in Ids, Exit(j)  PROVE Known(i)'
  <2>1. workload[i] = "running" /\ UNCHANGED <<instances, orphans, pc, frame>>
    BY <1>11 DEF Exit
  <2>. QED  BY <2>1 DEF RunningCanBeDeleted, Current
\* Only VMs and containers that could not be deleted outlive the agent.
<1>12. ASSUME Restart  PROVE Known(i)'
  BY <1>12 DEF Restart, Scrubbed
<1>13. CASE UNCHANGED vars
  BY <1>13 DEF vars, RunningCanBeDeleted, Current
<1>. HIDE DEF Known
<1>. QED
  BY <1>4, <1>5, <1>6, <1>7, <1>8, <1>9, <1>10, <1>11, <1>12, <1>13
  DEF Next, CreatePod, DeletePod

\* pod.go:372: every workload that runs can be found by DeletePod, or is about
\* to be, unless it outlived an agent.
THEOREM AllDeletable == Spec => []RunningCanBeDeleted
<1>1. Init => TypeOK /\ RunningCanBeDeleted
  BY InitTyped DEF Init, RunningCanBeDeleted, Ids
<1>2. TypeOK /\ RunningCanBeDeleted /\ [Next]_vars
        => (TypeOK /\ RunningCanBeDeleted)'
  BY StepTyped, StepDeletable
<1>. QED  BY <1>1, <1>2, PTL DEF Spec

-----------------------------------------------------------------------------
(***************************************************************************)
(* Requests for one pod that do not overlap: at most one handler works on  *)
(* a pod.                                                                  *)
(***************************************************************************)
Alone == \A g, h \in Handlers :
            pc[g] # "idle" /\ pc[h] # "idle" /\ frame[g].pod = frame[h].pod
               => g = h

\* A handler about to clean up found no collision, and there is none now.
NoCollision == \A h \in Handlers : pc[h] = "clean" => Current(h) \notin instances

\* A step of a handler that was not idle keeps its pod or ends its request.
LEMMA HandlerStep ==
  ASSUME TypeOK, NEW h \in Handlers, CreatePod(h) \/ DeletePod(h)
  PROVE  /\ pc[h] # "idle"
         /\ \A g \in Handlers \ {h} : pc'[g] = pc[g] /\ frame'[g] = frame[g]
         /\ pc'[h] = "idle" \/ frame'[h].pod = frame[h].pod
<1>. /\ pc \in [Handlers -> Labels] /\ frame \in [Handlers -> Frames]
     /\ frame[h] \in Frames
  BY DEF TypeOK
<1>1. /\ pc[h] # "idle"
      /\ \A g \in Handlers \ {h} : pc'[g] = pc[g] /\ frame'[g] = frame[g]
  BY DEF CreatePod, DeletePod, InitPodNetwork, InitPodNetworkPanics,
     newInstance, newInstanceFails, newInstancePanics, CleanUp, CreateInstance,
     CreateInstanceFails, CreateInstancePanics, StartInstance,
     StartInstanceFails, RegisterInstance, DeleteInstance, SkipInstance,
     StopPodNetwork, StopPodNetworkPanics, Loop, Return, Call, Goto
<1>2. ASSUME NEW k, NEW label, NEW then, Loop(h, k, label, then)
      PROVE  frame'[h].pod = frame[h].pod
  BY <1>2 DEF Loop, Call, Frames
<1>3. ASSUME RegisterInstance(h)
      PROVE  pc'[h] = "idle" \/ frame'[h].pod = frame[h].pod
  BY <1>3 DEF RegisterInstance, Return, Call, Goto, Frames
<1>4. ASSUME NEW result, Return(h, result)  PROVE pc'[h] = "idle"
  BY <1>4 DEF Return, Call, Goto
<1>5. CASE \/ InitPodNetwork(h) \/ CreateInstance(h)
           \/ DeleteInstance(h) \/ SkipInstance(h)
  BY <1>1, <1>2, <1>5 DEF InitPodNetwork, CreateInstance, DeleteInstance, SkipInstance
<1>6. CASE \/ InitPodNetworkPanics(h) \/ newInstanceFails(h)
           \/ newInstancePanics(h) \/ CreateInstanceFails(h)
           \/ CreateInstancePanics(h) \/ StopPodNetworkPanics(h)
  BY <1>1, <1>4, <1>6 DEF InitPodNetworkPanics, newInstanceFails,
     newInstancePanics, CreateInstanceFails, CreateInstancePanics, StopPodNetworkPanics
<1>7. CASE \/ newInstance(h) \/ CleanUp(h) \/ StartInstance(h) \/ StartInstanceFails(h)
  BY <1>1, <1>7 DEF newInstance, CleanUp, StartInstance, StartInstanceFails
<1>8. CASE StopPodNetwork(h)
  BY <1>1, <1>4, <1>8 DEF StopPodNetwork
<1>. QED  BY <1>1, <1>3, <1>5, <1>6, <1>7, <1>8 DEF CreatePod, DeletePod

\* A request begins for a pod that no handler works on.
LEMMA BeginStep ==
  ASSUME TypeOK, ~Overlap, NEW h \in Handlers, NEW p \in Pods, Begin(h, p)
  PROVE  /\ pc[h] = "idle" /\ ~Busy(p)
         /\ \A g \in Handlers \ {h} : pc'[g] = pc[g] /\ frame'[g] = frame[g]
         /\ \/ pc'[h] = "idle"
            \/ pc'[h] \in {"network", "delete"} /\ frame'[h].pod = p
         /\ pc'[h] = "delete" => frame'[h].next = 1
         /\ UNCHANGED <<instances, backendVars, netVars>>
<1>. pc \in [Handlers -> Labels] /\ frame \in [Handlers -> Frames]
  BY DEF TypeOK
<1>1. CASE BeginCreate(h, p)
  <2>1. [NoFrame EXCEPT !.pod = p, !.next = 1].pod = p
    BY DEF NoFrame
  <2>. QED  BY <1>1, <2>1 DEF BeginCreate, CanServe, Call, Goto
<1>2. CASE RegisterSystemPod(h, p)
  BY <1>2 DEF RegisterSystemPod, CanServe
<1>3. CASE \E update \in BOOLEAN : BeginDelete(h, p, update)
  BY <1>3 DEF BeginDelete, CanServe, Call, Goto
<1>. QED  BY <1>1, <1>2, <1>3 DEF Begin

THEOREM StepAlone ==
  ASSUME TypeOK, Alone, ~Overlap, [Next]_vars
  PROVE  Alone'
<1>1. ASSUME NEW h \in Handlers, CreatePod(h) \/ DeletePod(h)
      PROVE  Alone'
  BY <1>1, HandlerStep DEF Alone
<1>2. ASSUME NEW h \in Handlers, NEW p \in Pods, Begin(h, p)
      PROVE  Alone'
  BY <1>2, BeginStep DEF Alone, Busy
<1>3. CASE \E i \in Ids : Exit(i)
  BY <1>3 DEF Exit, Alone
<1>4. CASE Restart
  BY <1>4 DEF Restart, Alone
<1>5. CASE UNCHANGED vars
  BY <1>5 DEF vars, Alone
<1>. QED  BY <1>1, <1>2, <1>3, <1>4, <1>5 DEF Next

THEOREM StepNoCollision ==
  ASSUME TypeOK, Alone, NoCollision, ~Overlap, [Next]_vars
  PROVE  NoCollision'
<1>1. ASSUME NEW h \in Handlers, CreatePod(h) \/ DeletePod(h),
             UNCHANGED instances,
             pc'[h] = "clean" => Current(h)' \notin instances
      PROVE  NoCollision'
  BY <1>1, HandlerStep DEF NoCollision, Current
<1>2. ASSUME NEW h \in Handlers, newInstance(h)
      PROVE  NoCollision'
  <2>1. UNCHANGED instances /\ Current(h)' = Current(h) /\ Current(h) \notin instances
    BY <1>2 DEF newInstance, Current
  <2>. QED  BY <1>1, <1>2, <2>1 DEF CreatePod
<1>3. ASSUME NEW h \in Handlers, RegisterInstance(h)
      PROVE  NoCollision'
  <2>1. /\ instances' = instances \cup {Current(h)} /\ pc[h] = "register"
        /\ pc'[h] # "clean"
    BY <1>3 DEF RegisterInstance, Return, Call, Goto, TypeOK
  <2>2. \A g \in Handlers \ {h} :
           pc[g] = "clean" => Current(g) # Current(h)
    BY <2>1 DEF Alone, Current
  <2>. QED  BY <1>3, <2>1, <2>2, HandlerStep DEF NoCollision, Current, CreatePod
<1>4. ASSUME NEW h \in Handlers, CreatePod(h) \/ DeletePod(h),
             ~newInstance(h), ~RegisterInstance(h)
      PROVE  NoCollision'
  <2>1. UNCHANGED instances /\ pc'[h] # "clean"
    BY <1>4 DEF TypeOK, CreatePod, DeletePod, InitPodNetwork, InitPodNetworkPanics,
       newInstanceFails, newInstancePanics, CleanUp, CreateInstance,
       CreateInstanceFails, CreateInstancePanics, StartInstance,
       StartInstanceFails, DeleteInstance, SkipInstance,
       StopPodNetwork, StopPodNetworkPanics, Loop, Return, Call, Goto
  <2>. QED  BY <1>1, <1>4, <2>1
<1>5. ASSUME NEW h \in Handlers, NEW p \in Pods, Begin(h, p)
      PROVE  NoCollision'
  BY <1>5, BeginStep DEF NoCollision, Current
<1>6. CASE \E i \in Ids : Exit(i)
  BY <1>6 DEF Exit, NoCollision, Current
<1>7. CASE Restart
  BY <1>7 DEF Restart, NoCollision
<1>8. CASE UNCHANGED vars
  BY <1>8 DEF vars, NoCollision, Current
<1>. QED  BY <1>2, <1>3, <1>4, <1>5, <1>6, <1>7, <1>8 DEF Next

\* Where NoCollision holds, a step deletes a registered workload that runs
\* only for DeletePod, or when the agent is started again.
LEMMA StepSpares ==
  ASSUME TypeOK, NoCollision, Next,
         NEW i \in instances \cap instances', workload[i] = "running"
  PROVE  \/ workload'[i] \in {"running", "exited"}
         \/ \E h \in Handlers : pc[h] = "delete" /\ Current(h) = i
<1>. i \in Ids /\ workload \in [Ids -> States]
  BY DEF TypeOK
<1>1. ASSUME NEW h \in Handlers, CleanUp(h)
      PROVE  workload'[i] = "running"
  BY <1>1, CurrentTyped DEF CleanUp, Delete, NoCollision
<1>2. ASSUME NEW h \in Handlers, CreateInstance(h)
      PROVE  workload'[i] = "running"
  BY <1>2, CurrentTyped DEF CreateInstance
<1>3. ASSUME NEW h \in Handlers, CreateInstanceFails(h)
      PROVE  workload'[i] = "running"
  BY <1>3, CurrentTyped DEF CreateInstanceFails
<1>4. ASSUME NEW h \in Handlers, StartInstance(h)
      PROVE  workload'[i] = "running"
  BY <1>4 DEF StartInstance
<1>5. ASSUME NEW h \in Handlers, DeleteInstance(h)
      PROVE  workload'[i] = "running" \/ Current(h) = i
  BY <1>5, CurrentTyped DEF DeleteInstance, Delete
<1>6. ASSUME NEW j \in Ids, Exit(j)
      PROVE  workload'[i] \in {"running", "exited"}
  BY <1>6 DEF Exit
<1>7. ~Restart
  BY DEF Restart
<1>8. ASSUME NEW h \in Handlers,
             \/ InitPodNetwork(h) \/ InitPodNetworkPanics(h) \/ newInstance(h)
             \/ newInstanceFails(h) \/ newInstancePanics(h)
             \/ CreateInstancePanics(h) \/ StartInstanceFails(h)
             \/ RegisterInstance(h) \/ SkipInstance(h)
             \/ StopPodNetwork(h) \/ StopPodNetworkPanics(h)
             \/ \E p \in Pods : Begin(h, p)
      PROVE  workload'[i] = "running"
  BY <1>8 DEF InitPodNetwork, InitPodNetworkPanics, newInstance,
     newInstanceFails, newInstancePanics, CreateInstancePanics,
     StartInstanceFails, RegisterInstance, SkipInstance, StopPodNetwork,
     StopPodNetworkPanics, Begin, BeginCreate, RegisterSystemPod, BeginDelete
<1>. QED
  BY <1>1, <1>2, <1>3, <1>4, <1>5, <1>6, <1>7, <1>8
  DEF Next, CreatePod, DeletePod, DeleteInstance

\* instance.go:31-34 keeps CreateInstance from deleting what runs and is
\* registered, as long as requests for one pod do not overlap.
THEOREM CreateSpares == ~Overlap /\ Spec => RegisteredRunOn
<1>. DEFINE SInv == TypeOK /\ Alone /\ NoCollision
<1>1. Init => SInv
  BY InitTyped DEF Init, Alone, NoCollision
<1>2. ~Overlap /\ SInv /\ [Next]_vars => SInv'
  BY StepTyped, StepAlone, StepNoCollision
<1>. DEFINE Spared == \A i \in instances \cap instances' :
          workload[i] = "running" =>
             \/ workload'[i] \in {"running", "exited"}
             \/ \E h \in Handlers : pc[h] = "delete" /\ Current(h) = i
<1>3. SInv /\ [Next]_vars => [Spared]_vars
  BY StepSpares
<1>. HIDE DEF SInv
<1>4. CASE Overlap
  BY <1>4
<1>5. CASE ~Overlap
  <2>1. SInv /\ [Next]_vars => SInv'
    BY <1>2, <1>5
  <2>2. Spec => [][Spared]_vars
    BY <1>1, <2>1, <1>3, PTL DEF Spec
  <2>. QED  BY <2>2 DEF RegisteredRunOn
<1>. QED  BY <1>4, <1>5

-----------------------------------------------------------------------------
(***************************************************************************)
(* The namespace outlives the workloads.  A handler that creates relies on *)
(* the namespace its InitPodNetwork made; one that deletes has deleted the *)
(* workloads up to the one it is at.                                       *)
(***************************************************************************)
Alive(i) == workload[i] = "running" /\ i \notin refused \cup orphans
HasNetwork(p) == p \in netns \/ podNetwork[p] = "bare"

Creating == {"new", "clean", "create", "start", "register"}

Gone(h, k) == ~Alive(<<frame[h].pod, k>>)

AliveHaveNetwork(p) == \A k \in Cs : Alive(<<p, k>>) => HasNetwork(p)
CreatingHasNetwork(h) == pc[h] \in Creating => HasNetwork(frame[h].pod)
DeletedAreGone(h) ==
  /\ pc[h] = "delete" => \A k \in Cs : k < frame[h].next => Gone(h, k)
  /\ pc[h] = "stop" => \A k \in Cs : Gone(h, k)

NetInv == /\ \A p \in Pods : AliveHaveNetwork(p)
          /\ \A h \in Handlers : CreatingHasNetwork(h) /\ DeletedAreGone(h)

LEMMA NetInvSuffices == ASSUME NetInv PROVE NetworkOutlivesWorkloads
  BY DEF NetInv, AliveHaveNetwork, Alive, HasNetwork, NetworkOutlivesWorkloads, Ids

\* A handler touches only what belongs to its pod.
LEMMA StepLocal ==
  ASSUME TypeOK, NEW h \in Handlers, CreatePod(h) \/ DeletePod(h),
         NEW q \in Pods, q # frame[h].pod
  PROVE  /\ \A k \in Cs : Alive(<<q, k>>)' <=> Alive(<<q, k>>)
         /\ HasNetwork(q)' <=> HasNetwork(q)
<1>. /\ workload \in [Ids -> States]
     /\ podNetwork \in [Pods -> {"none", "bare", "partial", "up"}]
  BY DEF TypeOK
<1>. \A k \in Cs : <<q, k>> \in Ids /\ <<q, k>> # Current(h)
  BY DEF Ids, Current
<1>1. ASSUME CleanUp(h) \/ DeleteInstance(h)
      PROVE  /\ Delete(Current(h)) /\ UNCHANGED netVars
  BY <1>1 DEF CleanUp, DeleteInstance
<1>2. ASSUME Delete(Current(h))
      PROVE  \A k \in Cs : Alive(<<q, k>>)' <=> Alive(<<q, k>>)
  BY <1>2 DEF Delete, Alive
<1>3. ASSUME CreateInstance(h) \/ CreateInstanceFails(h) \/ StartInstance(h)
      PROVE  /\ \A k \in Cs : Alive(<<q, k>>)' <=> Alive(<<q, k>>)
             /\ UNCHANGED netVars
  BY <1>3 DEF CreateInstance, CreateInstanceFails, StartInstance, Alive
<1>4. ASSUME \/ newInstance(h) \/ newInstanceFails(h) \/ newInstancePanics(h)
             \/ CreateInstancePanics(h) \/ StartInstanceFails(h)
             \/ RegisterInstance(h) \/ SkipInstance(h)
      PROVE  UNCHANGED backendVars /\ UNCHANGED netVars
  BY <1>4 DEF newInstance, newInstanceFails, newInstancePanics,
     CreateInstancePanics, StartInstanceFails, RegisterInstance, SkipInstance
<1>5. ASSUME \/ InitPodNetwork(h) \/ InitPodNetworkPanics(h)
             \/ StopPodNetwork(h) \/ StopPodNetworkPanics(h)
      PROVE  UNCHANGED backendVars /\ (HasNetwork(q)' <=> HasNetwork(q))
  BY <1>5 DEF InitPodNetwork, InitPodNetworkPanics, StopPodNetwork,
     StopPodNetworkPanics, HasNetwork
<1>. QED
  BY <1>1, <1>2, <1>3, <1>4, <1>5 DEF CreatePod, DeletePod, Alive, HasNetwork

\* So it is enough to look at the handler that moves, and at its pod.
LEMMA OwnSuffices ==
  ASSUME TypeOK, Alone, NetInv, NEW h \in Handlers, CreatePod(h) \/ DeletePod(h),
         NEW p \in Pods, p = frame[h].pod,
         AliveHaveNetwork(p)', CreatingHasNetwork(h)', DeletedAreGone(h)'
  PROVE  NetInv'
<1>1. /\ pc[h] # "idle"
      /\ \A g \in Handlers \ {h} : pc'[g] = pc[g] /\ frame'[g] = frame[g]
  BY HandlerStep DEF TypeOK
<1>2. ASSUME NEW q \in Pods, q # p
      PROVE  AliveHaveNetwork(q)'
  BY <1>2, StepLocal DEF NetInv, AliveHaveNetwork
<1>3. ASSUME NEW g \in Handlers, g # h
      PROVE  CreatingHasNetwork(g)' /\ DeletedAreGone(g)'
  <2>1. CASE pc[g] = "idle"
    BY <1>1, <1>3, <2>1 DEF CreatingHasNetwork, DeletedAreGone, Creating
  <2>2. CASE pc[g] # "idle"
    <3>1. PICK q \in Pods : q = frame[g].pod
      BY <2>2 DEF TypeOK
    <3>2. q # p
      BY <1>1, <1>3, <2>2, <3>1 DEF Alone
    <3>3. /\ \A k \in Cs : Alive(<<q, k>>)' <=> Alive(<<q, k>>)
          /\ HasNetwork(q)' <=> HasNetwork(q)
      BY <3>2, StepLocal
    <3>4. frame'[g] = frame[g] /\ pc'[g] = pc[g] /\ frame'[g].pod = q
      BY <1>1, <1>3, <3>1
    <3>5. /\ HasNetwork(frame[g].pod)' <=> HasNetwork(frame[g].pod)
          /\ \A k \in Cs : Gone(g, k)' <=> Gone(g, k)
      BY <3>1, <3>3, <3>4 DEF Gone, Alive, HasNetwork
    <3>. QED
      BY <3>4, <3>5 DEF NetInv, CreatingHasNetwork, DeletedAreGone
  <2>. QED  BY <2>1, <2>2
<1>. QED  BY <1>2, <1>3 DEF NetInv

\* Steps of CreatePod that start nothing.
LEMMA QuietStep ==
  ASSUME TypeOK, Alone, NetInv, NEW h \in Handlers, CreatePod(h),
         NEW p \in Pods, p = frame[h].pod,
         pc[h] \in Creating, pc'[h] \in Creating \cup {"idle"},
         UNCHANGED netVars,
         \A k \in Cs : Alive(<<p, k>>)' => Alive(<<p, k>>)
  PROVE  NetInv'
<1>1. HasNetwork(p) /\ HasNetwork(p)'
  BY DEF NetInv, CreatingHasNetwork, HasNetwork
<1>2. AliveHaveNetwork(p)'
  BY <1>1 DEF AliveHaveNetwork
<1>3. pc'[h] = "idle" \/ frame'[h].pod = p
  BY HandlerStep
<1>4. CreatingHasNetwork(h)'
  BY <1>1, <1>3 DEF CreatingHasNetwork, Creating, HasNetwork
<1>5. DeletedAreGone(h)'
  BY DEF DeletedAreGone, Creating
<1>. QED  BY <1>2, <1>4, <1>5, OwnSuffices

\* What Delete leaves is not alive: it is absent, or it is in refused.
LEMMA DeleteKills ==
  ASSUME TypeOK, NEW i \in Ids, Delete(i)
  PROVE  ~Alive(i)' /\ \A j \in Ids : Alive(j)' => Alive(j)
  BY DEF TypeOK, Delete, Alive

THEOREM StepNetwork ==
  ASSUME TypeOK, RunningCanBeDeleted, Alone, NetInv, ~Overlap, [Next]_vars
  PROVE  NetInv'
<1>. USE DEF TypeOK
<1>1. ASSUME NEW h \in Handlers, NEW p \in Pods, p = frame[h].pod,
             InitPodNetwork(h)
      PROVE  NetInv'
  <2>1. HasNetwork(p)'
    BY <1>1 DEF InitPodNetwork, HasNetwork
  <2>2. pc'[h] \in {"new", "start"} /\ frame'[h].pod = p
    BY <1>1, HandlerStep DEF InitPodNetwork, Loop, Call, Goto, CreatePod
  <2>3. CreatingHasNetwork(h)' /\ DeletedAreGone(h)' /\ AliveHaveNetwork(p)'
    BY <2>1, <2>2 DEF CreatingHasNetwork, DeletedAreGone, AliveHaveNetwork,
       HasNetwork, Creating
  <2>. QED  BY <1>1, <2>3, OwnSuffices DEF CreatePod
<1>2. ASSUME NEW h \in Handlers, NEW p \in Pods, p = frame[h].pod,
             InitPodNetworkPanics(h)
      PROVE  NetInv'
  <2>1. /\ HasNetwork(p) => HasNetwork(p)'
        /\ UNCHANGED backendVars /\ pc'[h] = "idle"
    BY <1>2 DEF InitPodNetworkPanics, HasNetwork, Return, Call, Goto
  <2>2. CreatingHasNetwork(h)' /\ DeletedAreGone(h)' /\ AliveHaveNetwork(p)'
    BY <2>1 DEF CreatingHasNetwork, DeletedAreGone, AliveHaveNetwork, Creating,
       NetInv, Alive
  <2>. QED  BY <1>2, <2>2, OwnSuffices DEF CreatePod
<1>3. ASSUME NEW h \in Handlers, NEW p \in Pods, p = frame[h].pod,
             \/ newInstance(h) \/ newInstanceFails(h) \/ newInstancePanics(h)
             \/ CreateInstancePanics(h) \/ StartInstanceFails(h)
             \/ RegisterInstance(h)
      PROVE  NetInv'
  <2>1. /\ pc[h] \in Creating /\ pc'[h] \in Creating \cup {"idle"}
        /\ UNCHANGED backendVars /\ UNCHANGED netVars
    BY <1>3 DEF newInstance, newInstanceFails, newInstancePanics,
       CreateInstancePanics, StartInstanceFails, RegisterInstance, Return, Call,
       Goto, Creating
  <2>. QED  BY <1>3, <2>1, QuietStep DEF CreatePod, Alive
<1>4. ASSUME NEW h \in Handlers, NEW p \in Pods, p = frame[h].pod, CleanUp(h)
      PROVE  NetInv'
  <2>1. /\ pc[h] \in Creating /\ pc'[h] \in Creating /\ UNCHANGED netVars
        /\ Delete(Current(h)) /\ Current(h) \in Ids
        /\ \A k \in Cs : <<p, k>> \in Ids
    BY <1>4, CurrentTyped DEF CleanUp, Goto, Creating, Ids
  <2>. QED  BY <1>4, <2>1, QuietStep, DeleteKills DEF CreatePod
<1>5. ASSUME NEW h \in Handlers, NEW p \in Pods, p = frame[h].pod,
             CreateInstance(h) \/ CreateInstanceFails(h)
      PROVE  NetInv'
  <2>1. /\ pc[h] \in Creating /\ pc'[h] \in Creating \cup {"idle"}
        /\ UNCHANGED netVars
    BY <1>5 DEF CreateInstance, CreateInstanceFails, Loop, Return, Call, Goto,
       Creating
  <2>2. \A k \in Cs : Alive(<<p, k>>)' => Alive(<<p, k>>)
    BY <1>5 DEF CreateInstance, CreateInstanceFails, Alive, Ids
  <2>. QED  BY <1>5, <2>1, <2>2, QuietStep DEF CreatePod
<1>6. ASSUME NEW h \in Handlers, NEW p \in Pods, p = frame[h].pod, StartInstance(h)
      PROVE  NetInv'
  <2>1. /\ HasNetwork(p) /\ HasNetwork(p)' /\ UNCHANGED frame
        /\ pc'[h] = "register"
    BY <1>6 DEF NetInv, CreatingHasNetwork, Creating, StartInstance, Goto,
       HasNetwork
  <2>2. CreatingHasNetwork(h)' /\ DeletedAreGone(h)' /\ AliveHaveNetwork(p)'
    BY <1>6, <2>1 DEF CreatingHasNetwork, DeletedAreGone, AliveHaveNetwork,
       HasNetwork
  <2>. QED  BY <1>6, <2>2, OwnSuffices DEF CreatePod
\* The loop of DeletePod goes on, with the current workload gone.
<1>7. ASSUME NEW h \in Handlers, NEW p \in Pods, p = frame[h].pod,
             NEW n \in Cs, n = frame[h].next, DeletePod(h), pc[h] = "delete",
             Loop(h, frame[h].next + 1, "delete", "stop"), UNCHANGED netVars,
             \A k \in Cs : Alive(<<p, k>>)' => Alive(<<p, k>>),
             ~Alive(<<p, n>>)'
      PROVE  NetInv'
  <2>1. n \in Nat /\ frame[h] \in Frames /\ \A k \in Cs : k \in Nat
    BY <1>7, CsFacts
  <2>2. ASSUME NEW k \in Cs, k < n + 1
        PROVE  ~Alive(<<p, k>>)'
    <3>1. k = n \/ k < n
      BY <2>1, <2>2
    <3>2. k < n => ~Alive(<<p, k>>)
      BY <1>7 DEF NetInv, DeletedAreGone, Gone
    <3>. QED  BY <1>7, <3>1, <3>2
  <2>3. AliveHaveNetwork(p)'
    BY <1>7 DEF NetInv, AliveHaveNetwork, HasNetwork
  <2>4. CASE n + 1 \in Cs
    <3>1. /\ pc'[h] = "delete" /\ frame'[h].pod = p /\ frame'[h].next = n + 1
      BY <1>7, <2>1, <2>4 DEF Loop, Call, Goto, Frames
    <3>2. \A k \in Cs : k < n + 1 => Gone(h, k)'
      BY <2>2, <3>1 DEF Gone, Alive
    <3>3. DeletedAreGone(h)' /\ CreatingHasNetwork(h)'
      BY <3>1, <3>2 DEF DeletedAreGone, CreatingHasNetwork, Creating
    <3>. QED  BY <1>7, <2>3, <3>3, OwnSuffices
  <2>5. CASE n + 1 \notin Cs
    <3>1. pc'[h] = "stop" /\ frame'[h].pod = p
      BY <1>7, <2>1, <2>5 DEF Loop, Call, Goto, Frames
    <3>2. \A k \in Cs : k < n + 1
      BY <2>1, <2>5, ProviderAssumption DEF Cs
    <3>3. \A k \in Cs : Gone(h, k)'
      BY <2>2, <3>1, <3>2 DEF Gone, Alive
    <3>4. DeletedAreGone(h)' /\ CreatingHasNetwork(h)'
      BY <3>1, <3>3 DEF DeletedAreGone, CreatingHasNetwork, Creating
    <3>. QED  BY <1>7, <2>3, <3>4, OwnSuffices
  <2>. QED  BY <2>4, <2>5
<1>8. ASSUME NEW h \in Handlers, NEW p \in Pods, p = frame[h].pod, DeleteInstance(h)
      PROVE  NetInv'
  <2>1. PICK n \in Cs : n = frame[h].next
    BY <1>8 DEF DeleteInstance
  <2>2. /\ Delete(<<p, n>>) /\ \A k \in Cs : <<p, k>> \in Ids
    BY <1>8, <2>1 DEF DeleteInstance, Current, Ids
  <2>3. /\ \A k \in Cs : Alive(<<p, k>>)' => Alive(<<p, k>>)
        /\ ~Alive(<<p, n>>)'
    BY <2>2, DeleteKills
  <2>. QED  BY <1>7, <1>8, <2>1, <2>3 DEF DeleteInstance, DeletePod
\* An instance that is not registered does not run, or outlived an agent: no
\* other handler is about to register it.
<1>9. ASSUME NEW h \in Handlers, NEW p \in Pods, p = frame[h].pod, SkipInstance(h)
      PROVE  NetInv'
  <2>. PICK n \in Cs : n = frame[h].next
    BY <1>9 DEF SkipInstance
  <2>1. /\ Current(h) \notin instances /\ Current(h) \in Ids
        /\ Current(h) = <<p, n>> /\ UNCHANGED backendVars
    BY <1>9, CurrentTyped DEF SkipInstance, Current
  <2>2. ASSUME NEW g \in Handlers, pc[g] = "register"
        PROVE  Current(g) # Current(h)
    BY <1>9, <2>2 DEF Alone, Current, SkipInstance
  <2>3. ~Alive(Current(h))
    BY <2>1, <2>2 DEF RunningCanBeDeleted, Alive
  <2>4. /\ \A k \in Cs : Alive(<<p, k>>)' => Alive(<<p, k>>)
        /\ ~Alive(<<p, n>>)'
    BY <2>1, <2>3 DEF Alive
  <2>. QED  BY <1>7, <1>9, <2>4 DEF SkipInstance, DeletePod
<1>10. ASSUME NEW h \in Handlers, NEW p \in Pods, p = frame[h].pod,
              StopPodNetwork(h) \/ StopPodNetworkPanics(h)
       PROVE  NetInv'
  <2>1. /\ pc[h] = "stop" /\ pc'[h] \in {"idle", "network"}
        /\ UNCHANGED backendVars
    BY <1>10 DEF StopPodNetwork, StopPodNetworkPanics, Return, Call, Goto
  <2>2. \A k \in Cs : ~Alive(<<p, k>>)'
    BY <1>10, <2>1 DEF NetInv, DeletedAreGone, Gone, Alive
  <2>3. CreatingHasNetwork(h)' /\ DeletedAreGone(h)' /\ AliveHaveNetwork(p)'
    BY <2>1, <2>2 DEF CreatingHasNetwork, DeletedAreGone, AliveHaveNetwork, Creating
  <2>. QED  BY <1>10, <2>3, OwnSuffices DEF DeletePod
<1>11. ASSUME NEW h \in Handlers, CreatePod(h) \/ DeletePod(h)
       PROVE  NetInv'
  <2>1. PICK p \in Pods : p = frame[h].pod
    BY <1>11, HandlerStep
  <2>. QED
    BY <1>1, <1>2, <1>3, <1>4, <1>5, <1>6, <1>8, <1>9, <1>10, <1>11, <2>1
    DEF CreatePod, DeletePod
<1>12. ASSUME NEW h \in Handlers, NEW p \in Pods, Begin(h, p)
       PROVE  NetInv'
  <2>1. \A q \in Pods : AliveHaveNetwork(q)'
    BY <1>12, BeginStep DEF NetInv, AliveHaveNetwork, Alive, HasNetwork
  <2>2. ASSUME NEW g \in Handlers, g # h
        PROVE  CreatingHasNetwork(g)' /\ DeletedAreGone(g)'
    <3>1. /\ pc'[g] = pc[g] /\ frame'[g] = frame[g]
          /\ UNCHANGED backendVars /\ UNCHANGED netVars
      BY <1>12, <2>2, BeginStep
    <3>2. CreatingHasNetwork(g) /\ DeletedAreGone(g)
      BY DEF NetInv
    <3>. QED
      BY <3>1, <3>2 DEF CreatingHasNetwork, DeletedAreGone, Gone, Alive, HasNetwork
  <2>3. CreatingHasNetwork(h)' /\ DeletedAreGone(h)'
    <3>1. /\ pc'[h] \in {"idle", "network", "delete"}
          /\ pc'[h] = "delete" => frame'[h].next = 1
      BY <1>12, BeginStep
    <3>2. \A k \in Cs : ~(k < 1)
      BY DEF Cs
    <3>. QED  BY <3>1, <3>2 DEF CreatingHasNetwork, DeletedAreGone, Creating
  <2>. QED  BY <2>1, <2>2, <2>3 DEF NetInv
<1>13. ASSUME NEW i \in Ids, Exit(i)  PROVE NetInv'
  <2>1. /\ \A p \in Pods, k \in Cs : Alive(<<p, k>>)' => Alive(<<p, k>>)
        /\ UNCHANGED netVars /\ UNCHANGED <<pc, frame>>
    BY <1>13 DEF Exit, Alive, Ids
  <2>2. ASSUME NEW h \in Handlers
        PROVE  CreatingHasNetwork(h)' /\ DeletedAreGone(h)'
    <3>1. CreatingHasNetwork(h) /\ DeletedAreGone(h)
      BY DEF NetInv
    <3>2. pc[h] # "idle" => \A k \in Cs : Gone(h, k) => Gone(h, k)'
      BY <2>1 DEF Gone, Alive
    <3>. QED
      BY <2>1, <3>1, <3>2 DEF CreatingHasNetwork, DeletedAreGone, HasNetwork
  <2>. QED  BY <2>1, <2>2 DEF NetInv, AliveHaveNetwork, HasNetwork
\* What outlives the agent is in orphans.
<1>14. ASSUME Restart  PROVE NetInv'
  <2>1. \A i \in Ids : ~Alive(i)'
    BY <1>14 DEF Restart, Scrubbed, Alive
  <2>2. \A h \in Handlers : pc'[h] = "idle"
    BY <1>14 DEF Restart
  <2>. QED
    BY <2>1, <2>2 DEF NetInv, AliveHaveNetwork, CreatingHasNetwork,
       DeletedAreGone, Creating, Ids
<1>15. CASE UNCHANGED vars
  BY <1>15 DEF vars, NetInv, AliveHaveNetwork, CreatingHasNetwork,
     DeletedAreGone, Gone, Alive, HasNetwork
<1>. QED  BY <1>11, <1>12, <1>13, <1>14, <1>15 DEF Next

\* pod.go:366-379: the namespace of a pod goes after its workloads, and none is
\* started without one, as long as requests for one pod do not overlap.
THEOREM NetworkOutlives == ~Overlap /\ Spec => []NetworkOutlivesWorkloads
<1>. DEFINE IInv == TypeOK /\ RunningCanBeDeleted /\ Alone /\ NetInv
<1>1. Init => IInv
  BY InitTyped DEF Init, Alone, NetInv, RunningCanBeDeleted, AliveHaveNetwork,
     CreatingHasNetwork, DeletedAreGone, Creating, Alive, Ids
<1>2. ~Overlap /\ IInv /\ [Next]_vars => IInv'
  BY StepTyped, StepDeletable, StepAlone, StepNetwork
<1>3. IInv => NetworkOutlivesWorkloads
  BY NetInvSuffices
<1>. HIDE DEF IInv
<1>4. CASE Overlap
  BY <1>4
<1>5. CASE ~Overlap
  <2>1. IInv /\ [Next]_vars => IInv'
    BY <1>2, <1>5
  <2>. QED  BY <1>1, <2>1, <1>3, PTL DEF Spec
<1>. QED  BY <1>4, <1>5

-----------------------------------------------------------------------------
(***************************************************************************)
(* DeletePod.  The outcome of a pod is "busy" as long as a handler works   *)
(* on it; a handler that deletes has left nothing of the containers before *)
(* the one it is at, and when it comes to the network of none.             *)
(***************************************************************************)
Left(i) == i \in instances \ refused /\ workload[i] # "absent"

PodGone(p) == outcome[p] = "deleted" => \A k \in Cs : ~Left(<<p, k>>)
BusyWith(h) == pc[h] # "idle" => outcome[frame[h].pod] = "busy"
NoneLeft(h) ==
  /\ pc[h] = "delete" => \A k \in Cs : k < frame[h].next => ~Left(<<frame[h].pod, k>>)
  /\ pc[h] = "stop" => \A k \in Cs : ~Left(<<frame[h].pod, k>>)

GoneInv == /\ \A p \in Pods : PodGone(p)
           /\ \A h \in Handlers : BusyWith(h) /\ NoneLeft(h)

LEMMA GoneInvSuffices == ASSUME TypeOK, GoneInv PROVE DeletedPodsGone
  BY DEF TypeOK, GoneInv, PodGone, Left, DeletedPodsGone, Ids

\* A handler changes the outcome of its own pod only, and what is left of it.
LEMMA StepLeft ==
  ASSUME TypeOK, NEW h \in Handlers, CreatePod(h) \/ DeletePod(h),
         NEW q \in Pods, q # frame[h].pod
  PROVE  /\ \A k \in Cs : Left(<<q, k>>)' <=> Left(<<q, k>>)
         /\ outcome'[q] = outcome[q]
<1>. workload \in [Ids -> States] /\ outcome \in [Pods -> Outcomes]
  BY DEF TypeOK
<1>. \A k \in Cs : <<q, k>> \in Ids /\ <<q, k>> # Current(h)
  BY DEF Ids, Current
<1>1. ASSUME CleanUp(h) \/ DeleteInstance(h)
      PROVE  Delete(Current(h)) /\ UNCHANGED <<instances, outcome>>
  BY <1>1 DEF CleanUp, DeleteInstance
<1>2. ASSUME Delete(Current(h)), UNCHANGED instances
      PROVE  \A k \in Cs : Left(<<q, k>>)' <=> Left(<<q, k>>)
  BY <1>2 DEF Delete, Left
<1>3. ASSUME CreateInstance(h) \/ CreateInstanceFails(h) \/ StartInstance(h)
      PROVE  \A k \in Cs : Left(<<q, k>>)' <=> Left(<<q, k>>)
  BY <1>3 DEF CreateInstance, CreateInstanceFails, StartInstance, Left
<1>4. ASSUME \/ newInstance(h) \/ newInstanceFails(h) \/ newInstancePanics(h)
             \/ CreateInstancePanics(h) \/ StartInstanceFails(h)
             \/ SkipInstance(h) \/ InitPodNetwork(h) \/ InitPodNetworkPanics(h)
             \/ StopPodNetwork(h) \/ StopPodNetworkPanics(h)
      PROVE  UNCHANGED <<instances, backendVars>>
  BY <1>4 DEF newInstance, newInstanceFails, newInstancePanics,
     CreateInstancePanics, StartInstanceFails, SkipInstance, InitPodNetwork,
     InitPodNetworkPanics, StopPodNetwork, StopPodNetworkPanics
<1>5. ASSUME RegisterInstance(h)
      PROVE  \A k \in Cs : Left(<<q, k>>)' <=> Left(<<q, k>>)
  BY <1>5 DEF RegisterInstance, Left
<1>6. outcome'[q] = outcome[q]
  BY DEF CreatePod, DeletePod, InitPodNetwork, InitPodNetworkPanics,
     newInstance, newInstanceFails, newInstancePanics, CleanUp, CreateInstance,
     CreateInstanceFails, CreateInstancePanics, StartInstance,
     StartInstanceFails, RegisterInstance, DeleteInstance, SkipInstance,
     StopPodNetwork, StopPodNetworkPanics, Return
<1>. QED
  BY <1>1, <1>2, <1>3, <1>4, <1>5, <1>6 DEF CreatePod, DeletePod, Left

\* So it is enough to look at the handler that moves, and at its pod.
LEMMA OwnGone ==
  ASSUME TypeOK, Alone, GoneInv, NEW h \in Handlers, CreatePod(h) \/ DeletePod(h),
         NEW p \in Pods, p = frame[h].pod,
         PodGone(p)', BusyWith(h)', NoneLeft(h)'
  PROVE  GoneInv'
<1>1. /\ pc[h] # "idle"
      /\ \A g \in Handlers \ {h} : pc'[g] = pc[g] /\ frame'[g] = frame[g]
  BY HandlerStep
<1>2. ASSUME NEW q \in Pods, q # p
      PROVE  PodGone(q)'
  BY <1>2, StepLeft DEF GoneInv, PodGone
<1>3. ASSUME NEW g \in Handlers, g # h
      PROVE  BusyWith(g)' /\ NoneLeft(g)'
  <2>1. CASE pc[g] = "idle"
    BY <1>1, <1>3, <2>1 DEF BusyWith, NoneLeft
  <2>2. CASE pc[g] # "idle"
    <3>1. PICK q \in Pods : q = frame[g].pod
      BY <2>2 DEF TypeOK
    <3>2. q # p
      BY <1>1, <1>3, <2>2, <3>1 DEF Alone
    <3>3. /\ \A k \in Cs : Left(<<q, k>>)' <=> Left(<<q, k>>)
          /\ outcome'[q] = outcome[q]
      BY <3>2, StepLeft
    <3>4. frame'[g] = frame[g] /\ pc'[g] = pc[g] /\ frame'[g].pod = q
      BY <1>1, <1>3, <3>1
    <3>5. \A k \in Cs : Left(<<frame[g].pod, k>>)' <=> Left(<<frame[g].pod, k>>)
      BY <3>1, <3>3, <3>4 DEF Left
    <3>. QED
      BY <3>1, <3>3, <3>4, <3>5 DEF GoneInv, BusyWith, NoneLeft
  <2>. QED  BY <2>1, <2>2
<1>. QED  BY <1>2, <1>3 DEF GoneInv

\* A step that deletes nothing and does not end a DeletePod.
LEMMA OtherGone ==
  ASSUME TypeOK, Alone, GoneInv, NEW h \in Handlers, CreatePod(h) \/ DeletePod(h),
         NEW p \in Pods, p = frame[h].pod,
         pc'[h] \notin {"delete", "stop"},
         \/ UNCHANGED outcome
         \/ pc'[h] = "idle" /\ outcome'[p] # "deleted"
  PROVE  GoneInv'
<1>1. pc[h] # "idle" /\ outcome[p] = "busy"
  BY HandlerStep DEF GoneInv, BusyWith
<1>2. PodGone(p)'
  BY <1>1 DEF PodGone
<1>3. pc'[h] = "idle" \/ frame'[h].pod = p
  BY HandlerStep
<1>4. BusyWith(h)' /\ NoneLeft(h)'
  BY <1>1, <1>3 DEF BusyWith, NoneLeft
<1>. QED  BY <1>2, <1>4, OwnGone

THEOREM StepGone ==
  ASSUME TypeOK, Alone, GoneInv, ~Overlap, [Next]_vars
  PROVE  GoneInv'
<1>. USE DEF TypeOK
<1>1. ASSUME NEW h \in Handlers, NEW p \in Pods, p = frame[h].pod,
             CreatePod(h) \/ StopPodNetworkPanics(h)
      PROVE  GoneInv'
  <2>1. ASSUME NEW result, result # "deleted", Return(h, result)
        PROVE  pc'[h] = "idle" /\ outcome'[p] # "deleted"
    BY <1>1, <2>1 DEF Return, Call, Goto
  <2>2. CASE RegisterInstance(h)
    <3>1. CASE frame[h].next + 1 \in Cs
      BY <1>1, <2>2, <3>1, OtherGone DEF RegisterInstance, Call, Goto, CreatePod
    <3>2. CASE frame[h].next + 1 \notin Cs
      <4>1. Return(h, "deployed")
        BY <2>2, <3>2 DEF RegisterInstance
      <4>2. pc'[h] = "idle" /\ outcome'[p] # "deleted"
        BY <2>1, <4>1
      <4>. QED  BY <1>1, <4>2, OtherGone DEF DeletePod
    <3>. QED  BY <3>1, <3>2
  <2>3. CASE \/ InitPodNetworkPanics(h) \/ newInstanceFails(h)
             \/ newInstancePanics(h) \/ CreateInstanceFails(h)
             \/ CreateInstancePanics(h) \/ StopPodNetworkPanics(h)
    <3>1. Return(h, "panicked") \/ Return(h, "failed")
      BY <2>3 DEF InitPodNetworkPanics, newInstanceFails, newInstancePanics,
         CreateInstanceFails, CreateInstancePanics, StopPodNetworkPanics
    <3>2. pc'[h] = "idle" /\ outcome'[p] # "deleted"
      BY <2>1, <3>1
    <3>. QED  BY <1>1, <3>2, OtherGone DEF DeletePod
  <2>4. CASE \/ InitPodNetwork(h) \/ newInstance(h) \/ CleanUp(h) \/ CreateInstance(h)
             \/ StartInstance(h) \/ StartInstanceFails(h)
    <3>1. pc'[h] \notin {"delete", "stop"} /\ UNCHANGED outcome
      BY <2>4 DEF InitPodNetwork, newInstance, CleanUp, CreateInstance,
         StartInstance, StartInstanceFails, Loop, Call, Goto
    <3>. QED  BY <1>1, <3>1, OtherGone DEF DeletePod
  <2>. QED  BY <1>1, <2>2, <2>3, <2>4 DEF CreatePod
\* The container that is at hand is gone, those before were.
<1>2. ASSUME NEW h \in Handlers, NEW p \in Pods, p = frame[h].pod, DeletePod(h),
             NEW n \in Cs, n = frame[h].next, pc[h] = "delete",
             Loop(h, n + 1, "delete", "stop"), UNCHANGED outcome,
             \A k \in Cs : Left(<<p, k>>)' => Left(<<p, k>>), ~Left(<<p, n>>)'
      PROVE  GoneInv'
  <2>1. n \in Nat /\ \A k \in Cs : k \in Nat /\ (k < n + 1 => k = n \/ k < n)
    BY CsFacts
  <2>2. \A k \in Cs : k < n + 1 => ~Left(<<p, k>>)'
    <3>1. \A k \in Cs : k < n => ~Left(<<p, k>>)
      BY <1>2 DEF GoneInv, NoneLeft
    <3>. QED  BY <1>2, <2>1, <3>1
  <2>3. outcome[p] = "busy" /\ outcome'[p] = "busy"
    BY <1>2 DEF GoneInv, BusyWith
  <2>4. PodGone(p)'
    BY <2>3 DEF PodGone
  <2>5. CASE n + 1 \in Cs
    <3>1. /\ pc'[h] = "delete" /\ frame'[h].pod = p /\ frame'[h].next = n + 1
      BY <1>2, <2>5 DEF Loop, Call, Goto, Frames
    <3>2. \A k \in Cs : k < n + 1 => ~Left(<<frame[h].pod, k>>)'
      BY <2>2, <3>1 DEF Left
    <3>3. BusyWith(h)' /\ NoneLeft(h)'
      BY <2>3, <3>1, <3>2 DEF BusyWith, NoneLeft
    <3>. QED  BY <1>2, <2>4, <3>3, OwnGone
  <2>6. CASE n + 1 \notin Cs
    <3>1. pc'[h] = "stop" /\ frame'[h].pod = p
      BY <1>2, <2>6 DEF Loop, Call, Goto, Frames
    <3>2. \A k \in Cs : k < n + 1
      BY <2>1, <2>6, ProviderAssumption DEF Cs
    <3>3. \A k \in Cs : ~Left(<<frame[h].pod, k>>)'
      BY <2>2, <3>1, <3>2 DEF Left
    <3>4. BusyWith(h)' /\ NoneLeft(h)'
      BY <2>3, <3>1, <3>3 DEF BusyWith, NoneLeft
    <3>. QED  BY <1>2, <2>4, <3>4, OwnGone
  <2>. QED  BY <2>5, <2>6
<1>3. ASSUME NEW h \in Handlers, NEW p \in Pods, p = frame[h].pod,
             DeleteInstance(h) \/ SkipInstance(h)
      PROVE  GoneInv'
  <2>1. PICK n \in Cs : n = frame[h].next /\ Current(h) = <<p, n>>
    BY <1>3 DEF DeleteInstance, SkipInstance, Current
  <2>2. /\ pc[h] = "delete" /\ Loop(h, n + 1, "delete", "stop")
        /\ UNCHANGED <<instances, outcome>>
        /\ \/ Delete(<<p, n>>)
           \/ <<p, n>> \notin instances /\ UNCHANGED backendVars
    BY <1>3, <2>1 DEF DeleteInstance, SkipInstance
  <2>3. \A k \in Cs : <<p, k>> \in Ids
    BY DEF Ids
  <2>4. /\ \A k \in Cs : Left(<<p, k>>)' => Left(<<p, k>>)
        /\ ~Left(<<p, n>>)'
    <3>1. CASE Delete(<<p, n>>)
      BY <2>1, <2>2, <2>3, <3>1 DEF Delete, Left
    <3>2. CASE <<p, n>> \notin instances /\ UNCHANGED backendVars
      BY <2>2, <3>2 DEF Left
    <3>. QED  BY <2>2, <3>1, <3>2
  <2>. QED  BY <1>2, <1>3, <2>1, <2>2, <2>4 DEF DeletePod
<1>4. ASSUME NEW h \in Handlers, NEW p \in Pods, p = frame[h].pod, StopPodNetwork(h)
      PROVE  GoneInv'
  <2>1. /\ pc[h] = "stop" /\ UNCHANGED <<instances, backendVars>>
        /\ \/ pc'[h] = "network" /\ UNCHANGED outcome
           \/ pc'[h] = "idle"
    BY <1>4 DEF StopPodNetwork, Return, Call, Goto
  <2>2. \A k \in Cs : ~Left(<<p, k>>)'
    BY <1>4, <2>1 DEF GoneInv, NoneLeft, Left
  <2>3. outcome[p] = "busy" /\ (pc'[h] = "idle" \/ frame'[h].pod = p)
    BY <1>4, <2>1, HandlerStep DEF GoneInv, BusyWith, DeletePod
  <2>4. PodGone(p)' /\ BusyWith(h)' /\ NoneLeft(h)'
    BY <2>1, <2>2, <2>3 DEF PodGone, BusyWith, NoneLeft
  <2>. QED  BY <1>4, <2>4, OwnGone DEF DeletePod
<1>5. ASSUME NEW h \in Handlers, CreatePod(h) \/ DeletePod(h)
      PROVE  GoneInv'
  <2>1. PICK p \in Pods : p = frame[h].pod
    BY <1>5, HandlerStep
  <2>. QED  BY <1>1, <1>3, <1>4, <1>5, <2>1 DEF DeletePod
<1>6. ASSUME NEW h \in Handlers, NEW p \in Pods, Begin(h, p)
      PROVE  GoneInv'
  <2>1. /\ \A q \in Pods \ {p} : outcome'[q] = outcome[q]
        /\ outcome'[p] \in {"busy", "deployed"}
        /\ pc'[h] # "idle" => outcome'[p] = "busy"
    BY <1>6, BeginStep DEF Begin, BeginCreate, RegisterSystemPod, BeginDelete
  <2>2. /\ UNCHANGED <<instances, backendVars>> /\ ~Busy(p) /\ pc[h] = "idle"
        /\ \A g \in Handlers \ {h} : pc'[g] = pc[g] /\ frame'[g] = frame[g]
        /\ \/ pc'[h] = "idle"
           \/ pc'[h] \in {"network", "delete"} /\ frame'[h].pod = p
        /\ pc'[h] = "delete" => frame'[h].next = 1
    BY <1>6, BeginStep
  <2>3. \A q \in Pods : PodGone(q)'
    BY <2>1, <2>2 DEF GoneInv, PodGone, Left
  <2>4. ASSUME NEW g \in Handlers, g # h  PROVE BusyWith(g)' /\ NoneLeft(g)'
    <3>1. pc[g] # "idle" => frame[g].pod \in Pods \ {p}
      BY <2>2 DEF Busy
    <3>2. BusyWith(g) /\ NoneLeft(g) /\ pc'[g] = pc[g] /\ frame'[g] = frame[g]
      BY <2>2, <2>4 DEF GoneInv
    <3>3. BusyWith(g)'
      BY <2>1, <3>1, <3>2 DEF BusyWith
    <3>. QED  BY <2>2, <3>2, <3>3 DEF NoneLeft, Left
  <2>5. BusyWith(h)' /\ NoneLeft(h)'
    <3>1. \A k \in Cs : ~(k < 1)
      BY DEF Cs
    <3>. QED  BY <2>1, <2>2, <3>1 DEF BusyWith, NoneLeft
  <2>. QED  BY <2>3, <2>4, <2>5 DEF GoneInv
<1>7. ASSUME NEW i \in Ids, Exit(i)  PROVE GoneInv'
  <2>1. /\ \A p \in Pods, k \in Cs : Left(<<p, k>>)' => Left(<<p, k>>)
        /\ UNCHANGED <<pc, frame, outcome>>
    BY <1>7 DEF Exit, Left, Ids
  <2>2. ASSUME NEW h \in Handlers  PROVE BusyWith(h)' /\ NoneLeft(h)'
    <3>1. BusyWith(h) /\ NoneLeft(h)
      BY DEF GoneInv
    <3>2. pc[h] # "idle" =>
             \A k \in Cs : Left(<<frame[h].pod, k>>)' => Left(<<frame[h].pod, k>>)
      BY <2>1 DEF Left
    <3>. QED  BY <2>1, <3>1, <3>2 DEF BusyWith, NoneLeft
  <2>. QED  BY <2>1, <2>2 DEF GoneInv, PodGone
<1>8. CASE Restart
  <2>1. instances' = {} /\ \A h \in Handlers : pc'[h] = "idle"
    BY <1>8 DEF Restart
  <2>. QED  BY <2>1 DEF GoneInv, PodGone, BusyWith, NoneLeft, Left
<1>9. CASE UNCHANGED vars
  BY <1>9 DEF vars, GoneInv, PodGone, BusyWith, NoneLeft, Left
<1>. QED  BY <1>5, <1>6, <1>7, <1>8, <1>9 DEF Next

\* pod.go:366-376: DeletePod goes through all containers, though the error of
\* a backend is dropped and the instances stay registered, so that after it
\* nothing is left of them but what a backend failed to delete.
THEOREM DeleteLeavesNone == ~Overlap /\ Spec => []DeletedPodsGone
<1>. DEFINE DInv == TypeOK /\ Alone /\ GoneInv
<1>1. Init => DInv
  BY InitTyped DEF Init, Alone, GoneInv, PodGone, BusyWith, NoneLeft
<1>2. ~Overlap /\ DInv /\ [Next]_vars => DInv'
  BY StepTyped, StepAlone, StepGone
<1>3. DInv => DeletedPodsGone
  BY GoneInvSuffices
<1>. HIDE DEF DInv
<1>4. CASE Overlap
  BY <1>4
<1>5. CASE ~Overlap
  <2>1. DInv /\ [Next]_vars => DInv'
    BY <1>2, <1>5
  <2>. QED  BY <1>1, <2>1, <1>3, PTL DEF Spec
<1>. QED  BY <1>4, <1>5

=============================================================================
