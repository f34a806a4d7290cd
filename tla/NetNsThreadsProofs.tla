------------------------- MODULE NetNsThreadsProofs -------------------------
(***************************************************************************)
(* Theorems about NetNsThreads, for any pods, threads and number of calls, *)
(* and any thread that a goroutine wakes up on.                            *)
(***************************************************************************)
EXTENDS NetNsThreads, TLAPS

\* A goroutine that goes on after NewNamed has a handle.
HasHandle ==
    \A p \in Pods : pc[p] # "idle" => \/ nsid[p] \in 1 .. calls
                                      \/ pc[p] = "trySetRoot" /\ nsid[p] = None

TypeInv == TypeOK /\ HasHandle

USE DEF Root, Namespaces, None, Places, At, Goto, Return, linkVars

-----------------------------------------------------------------------------
(***************************************************************************)
(* Types.                                                                  *)
(***************************************************************************)
LEMMA TypeInit == Init => TypeInv
BY NetNsAssumption DEF Init, TypeInv, TypeOK, HasHandle

LEMMA TypeNext ==
    ASSUME TypeInv, [Next]_vars
    PROVE  TypeInv'
<1> USE NetNsAssumption DEF TypeInv, TypeOK, HasHandle, Runs, Crossing, Joining
<1>1. ASSUME NEW p \in Pods, NEW t \in Threads, AddBridge(p, t)
       PROVE  TypeInv'
  BY <1>1 DEF AddBridge
<1>2. ASSUME NEW p \in Pods, NEW t \in Threads, tryGetBridge(p, t)
       PROVE  TypeInv'
  BY <1>2 DEF tryGetBridge
<1>3. ASSUME NEW p \in Pods, NEW t \in Threads, NewNamed(p, t)
       PROVE  TypeInv'
  BY <1>3 DEF NewNamed
<1>4. ASSUME NEW p \in Pods, NEW t \in Threads, trySetRoot(p, t)
       PROVE  TypeInv'
  BY <1>4 DEF trySetRoot, AddVeth
<1>5. ASSUME NEW p \in Pods, NEW t \in Threads, tryGetHost(p, t)
       PROVE  TypeInv'
  BY <1>5 DEF tryGetHost
<1>6. ASSUME NEW p \in Pods, NEW t \in Threads, tryHostUp(p, t)
       PROVE  TypeInv'
  <2>1. attached' \subseteq Pods /\ astray' \subseteq Pods
    BY <1>6 DEF tryHostUp, Others
  <2> QED
    BY <1>6, <2>1 DEF tryHostUp
<1>7. ASSUME NEW p \in Pods, NEW t \in Threads, tryGetCont(p, t)
       PROVE  TypeInv'
  BY <1>7 DEF tryGetCont
<1>8. ASSUME NEW p \in Pods, NEW t \in Threads, trySetNs(p, t)
       PROVE  TypeInv'
  BY <1>8 DEF trySetNs
<1>9. ASSUME NEW p \in Pods, NEW t \in Threads, tryLoopbackUp(p, t)
       PROVE  TypeInv'
  BY <1>9 DEF tryLoopbackUp
<1>10. ASSUME NEW p \in Pods, NEW t \in Threads, trySetBack(p, t)
        PROVE  TypeInv'
  BY <1>10 DEF trySetBack
<1>11. ASSUME NEW p \in Pods, NEW t \in Threads, StopPodNetwork(p, t)
        PROVE  TypeInv'
  BY <1>11 DEF StopPodNetwork, DelBridge, DelVeth
<1>12. ASSUME NEW p \in Pods, NEW t \in Threads, Retry(p, t)
        PROVE  TypeInv'
  BY <1>12 DEF Retry
<1>13. CASE UNCHANGED vars
  BY <1>13 DEF vars
<1> QED
  BY <1>1, <1>2, <1>3, <1>4, <1>5, <1>6, <1>7, <1>8, <1>9, <1>10, <1>11, <1>12, <1>13
     DEF Next, Step, setupPodNetNs

(***************************************************************************)
(* The state is well typed; a thread is always in a namespace that exists, *)
(* since no goroutine goes on with the handle of a failed NewNamed.        *)
(***************************************************************************)
THEOREM TypeCorrect == Spec => []TypeOK
<1>1. TypeInv => TypeOK
  BY DEF TypeInv
<1> QED
  BY <1>1, TypeInit, TypeNext, PTL DEF Spec
-----------------------------------------------------------------------------
(***************************************************************************)
(* Threads come back.  What a goroutine saved to go back to is the host's  *)
(* namespace, unless it comes from a thread that is not where it should    *)
(* be.                                                                     *)
(***************************************************************************)
Begun == {"trySetRoot", "tryGetHost", "tryHostUp", "tryGetCont", "trySetNs",
          "tryLoopbackUp", "trySetBack"}

Saved == \A p \in Pods : pc[p] \in Begun => rootNetns[p] = Root \/ home[p] \in Upset

SwitchInv == OthersAtRoot /\ Saved

LEMMA SwitchInit == Init => SwitchInv
BY DEF Init, SwitchInv, OthersAtRoot, Saved, Begun

LEMMA SwitchNext ==
    ASSUME TypeInv, SwitchInv, [Next]_vars
    PROVE  SwitchInv'
<1> USE NetNsAssumption DEF SwitchInv, OthersAtRoot, Saved, Begun, Upset, Runs, Crossing, Joining, Between, TypeInv, TypeOK
<1>1. ASSUME NEW p \in Pods, NEW t \in Threads, AddBridge(p, t)
       PROVE  SwitchInv'
  BY <1>1 DEF AddBridge
<1>2. ASSUME NEW p \in Pods, NEW t \in Threads, tryGetBridge(p, t)
       PROVE  SwitchInv'
  BY <1>2 DEF tryGetBridge
<1>3. ASSUME NEW p \in Pods, NEW t \in Threads, NewNamed(p, t)
       PROVE  SwitchInv'
  BY <1>3 DEF NewNamed
<1>4. ASSUME NEW p \in Pods, NEW t \in Threads, trySetRoot(p, t)
       PROVE  SwitchInv'
  BY <1>4 DEF trySetRoot, AddVeth
<1>5. ASSUME NEW p \in Pods, NEW t \in Threads, tryGetHost(p, t)
       PROVE  SwitchInv'
  BY <1>5 DEF tryGetHost
<1>6. ASSUME NEW p \in Pods, NEW t \in Threads, tryHostUp(p, t)
       PROVE  SwitchInv'
  BY <1>6 DEF tryHostUp
<1>7. ASSUME NEW p \in Pods, NEW t \in Threads, tryGetCont(p, t)
       PROVE  SwitchInv'
  BY <1>7 DEF tryGetCont
<1>8. ASSUME NEW p \in Pods, NEW t \in Threads, trySetNs(p, t)
       PROVE  SwitchInv'
  BY <1>8 DEF trySetNs
<1>9. ASSUME NEW p \in Pods, NEW t \in Threads, tryLoopbackUp(p, t)
       PROVE  SwitchInv'
  BY <1>9 DEF tryLoopbackUp
<1>10. ASSUME NEW p \in Pods, NEW t \in Threads, trySetBack(p, t)
        PROVE  SwitchInv'
  BY <1>10 DEF trySetBack
<1>11. ASSUME NEW p \in Pods, NEW t \in Threads, StopPodNetwork(p, t)
        PROVE  SwitchInv'
  BY <1>11 DEF StopPodNetwork, DelBridge, DelVeth
<1>12. ASSUME NEW p \in Pods, NEW t \in Threads, Retry(p, t)
        PROVE  SwitchInv'
  BY <1>12 DEF Retry
<1>13. CASE UNCHANGED vars
  BY <1>13 DEF vars
<1> QED
  BY <1>1, <1>2, <1>3, <1>4, <1>5, <1>6, <1>7, <1>8, <1>9, <1>10, <1>11, <1>12, <1>13
     DEF Next, Step, setupPodNetNs

(***************************************************************************)
(* setupPodNetNs: "Temp switch to container nsid, then back".  A thread is *)
(* back in the host's namespace, or a goroutine is on it between the two   *)
(* switches, wherever goroutines wake up and whatever fails; but for the   *)
(* threads that a goroutine changed or shared at such a time, and those on *)
(* which the default route failed.                                         *)
(***************************************************************************)
THEOREM ThreadsComeBack == Spec => []OthersAtRoot
<1> DEFINE Inv == TypeInv /\ SwitchInv
<1>1. Init => Inv
  BY TypeInit, SwitchInit
<1>2. Inv /\ [Next]_vars => Inv'
  BY TypeNext, SwitchNext
<1>3. Inv => OthersAtRoot
  BY DEF SwitchInv
<1> QED
  BY <1>1, <1>2, <1>3, PTL DEF Spec
-----------------------------------------------------------------------------
(***************************************************************************)
(* Namespaces are made one after the other, each for one call.             *)
(***************************************************************************)
Bounded == /\ \A t \in Threads : threadNs[t] <= calls
           /\ \A p \in Pods : rootNetns[p] <= calls
           /\ \A p \in Pods : named[p] = None \/ named[p] \in 1 .. calls
           /\ \A p \in Pods : contIf[p] = None \/ contIf[p] <= calls
           /\ \A p \in Pods : nsid[p] = None \/ nsid[p] \in 1 .. calls
           /\ \A p, q \in Pods : p # q /\ nsid[p] = nsid[q] => nsid[p] = None

LEMMA BoundedNext ==
    ASSUME TypeInv, Bounded, [Next]_vars
    PROVE  Bounded'
<1> USE NetNsAssumption DEF Bounded, TypeInv, TypeOK, HasHandle
<1>1. ASSUME NEW p \in Pods, NEW t \in Threads, AddBridge(p, t)
       PROVE  Bounded'
  BY <1>1 DEF AddBridge
<1>2. ASSUME NEW p \in Pods, NEW t \in Threads, tryGetBridge(p, t)
       PROVE  Bounded'
  BY <1>2 DEF tryGetBridge
<1>3. ASSUME NEW p \in Pods, NEW t \in Threads, NewNamed(p, t)
       PROVE  Bounded'
  BY <1>3 DEF NewNamed
<1>4. ASSUME NEW p \in Pods, NEW t \in Threads, trySetRoot(p, t)
       PROVE  Bounded'
  BY <1>4 DEF trySetRoot, AddVeth
<1>5. ASSUME NEW p \in Pods, NEW t \in Threads, tryGetHost(p, t)
       PROVE  Bounded'
  BY <1>5 DEF tryGetHost
<1>6. ASSUME NEW p \in Pods, NEW t \in Threads, tryHostUp(p, t)
       PROVE  Bounded'
  BY <1>6 DEF tryHostUp
<1>7. ASSUME NEW p \in Pods, NEW t \in Threads, tryGetCont(p, t)
       PROVE  Bounded'
  BY <1>7 DEF tryGetCont
<1>8. ASSUME NEW p \in Pods, NEW t \in Threads, trySetNs(p, t)
       PROVE  Bounded'
  BY <1>8 DEF trySetNs
<1>9. ASSUME NEW p \in Pods, NEW t \in Threads, tryLoopbackUp(p, t)
       PROVE  Bounded'
  BY <1>9 DEF tryLoopbackUp
<1>10. ASSUME NEW p \in Pods, NEW t \in Threads, trySetBack(p, t)
        PROVE  Bounded'
  BY <1>10 DEF trySetBack
<1>11. ASSUME NEW p \in Pods, NEW t \in Threads, StopPodNetwork(p, t)
        PROVE  Bounded'
  BY <1>11 DEF StopPodNetwork, DelBridge, DelVeth
<1>12. ASSUME NEW p \in Pods, NEW t \in Threads, Retry(p, t)
        PROVE  Bounded'
  BY <1>12 DEF Retry
<1>13. CASE UNCHANGED vars
  BY <1>13 DEF vars
<1> QED
  BY <1>1, <1>2, <1>3, <1>4, <1>5, <1>6, <1>7, <1>8, <1>9, <1>10, <1>11, <1>12, <1>13
     DEF Next, Step, setupPodNetNs

-----------------------------------------------------------------------------
(***************************************************************************)
(* As long as no thread is where it should not be, all is done in the      *)
(* host's namespace, but for what is done between the switches.            *)
(***************************************************************************)
Linked == {"tryGetHost", "tryHostUp", "tryGetCont", "trySetNs", "tryLoopbackUp",
           "trySetBack"}

Clean ==
    /\ astray = {}
    /\ \A p \in Pods : bridge[p] \in {Root, None} /\ hostIf[p] \in {Root, None}
    /\ \A p \in Pods : pc[p] # "idle" \/ named[p] # None => bridge[p] = Root
    /\ \A p \in Pods : pc[p] \in Linked => hostIf[p] = Root
    /\ \A p \in Pods : pc[p] = "tryLoopbackUp" => threadNs[home[p]] = nsid[p]
    /\ \A p, q \in Pods : p # q /\ contIf[q] # None => contIf[q] # nsid[p]

StrayInv == Upset = {} => Clean

LEMMA StrayInit == Init => StrayInv
BY NetNsAssumption DEF Init, StrayInv, Clean, Linked

\* The thread of a step after which no thread is where it should not be.
LEMMA CalmThread ==
    ASSUME TypeInv, SwitchInv, NEW p \in Pods, NEW t \in Threads,
           Joining(p, t) = {}, Upset = {}
    PROVE  /\ threadNs[t] # Root => Between(p, t)
           /\ pc[p] \in Begun => rootNetns[p] = Root
BY DEF TypeInv, TypeOK, SwitchInv, OthersAtRoot, Saved, Upset, Joining

LEMMA StrayNext ==
    ASSUME TypeInv, SwitchInv, Bounded, StrayInv, [Next]_vars
    PROVE  StrayInv'
<1> SUFFICES ASSUME Upset' = {}
             PROVE  Clean'
  BY DEF StrayInv
<1> USE NetNsAssumption DEF Upset, TypeInv, TypeOK, HasHandle, Bounded, StrayInv, Clean, Linked, Begun, Between, Others
<1>1. ASSUME NEW p \in Pods, NEW t \in Threads, AddBridge(p, t)
       PROVE  Clean'
  <2>1. Upset = {} /\ Joining(p, t) = {} /\ Crossing(p, t) = {}
    BY <1>1 DEF AddBridge, Runs
  <2>2. threadNs[t] # Root => Between(p, t)
    BY <2>1, CalmThread
  <2>3. pc[p] \in Begun => rootNetns[p] = Root
    BY <2>1, CalmThread
  <2>4. \A q \in Pods \ {p} : ~Between(q, t)
    BY <2>1 DEF Joining
  <2>5. Between(p, home[p]) => t = home[p]
    BY <2>1 DEF Crossing
  <2> QED
    BY <1>1, <2>1, <2>2, <2>3, <2>4, <2>5 DEF AddBridge, Runs
<1>2. ASSUME NEW p \in Pods, NEW t \in Threads, tryGetBridge(p, t)
       PROVE  Clean'
  <2>1. Upset = {} /\ Joining(p, t) = {} /\ Crossing(p, t) = {}
    BY <1>2 DEF tryGetBridge, Runs
  <2>2. threadNs[t] # Root => Between(p, t)
    BY <2>1, CalmThread
  <2>3. pc[p] \in Begun => rootNetns[p] = Root
    BY <2>1, CalmThread
  <2>4. \A q \in Pods \ {p} : ~Between(q, t)
    BY <2>1 DEF Joining
  <2>5. Between(p, home[p]) => t = home[p]
    BY <2>1 DEF Crossing
  <2> QED
    BY <1>2, <2>1, <2>2, <2>3, <2>4, <2>5 DEF tryGetBridge, Runs
<1>3. ASSUME NEW p \in Pods, NEW t \in Threads, NewNamed(p, t)
       PROVE  Clean'
  <2>1. Upset = {} /\ Joining(p, t) = {} /\ Crossing(p, t) = {}
    BY <1>3 DEF NewNamed, Runs
  <2>2. threadNs[t] # Root => Between(p, t)
    BY <2>1, CalmThread
  <2>3. pc[p] \in Begun => rootNetns[p] = Root
    BY <2>1, CalmThread
  <2>4. \A q \in Pods \ {p} : ~Between(q, t)
    BY <2>1 DEF Joining
  <2>5. Between(p, home[p]) => t = home[p]
    BY <2>1 DEF Crossing
  <2> QED
    BY <1>3, <2>1, <2>2, <2>3, <2>4, <2>5 DEF NewNamed, Runs
<1>4. ASSUME NEW p \in Pods, NEW t \in Threads, trySetRoot(p, t)
       PROVE  Clean'
  <2>1. Upset = {} /\ Joining(p, t) = {} /\ Crossing(p, t) = {}
    BY <1>4 DEF trySetRoot, Runs, AddVeth
  <2>2. threadNs[t] # Root => Between(p, t)
    BY <2>1, CalmThread
  <2>3. pc[p] \in Begun => rootNetns[p] = Root
    BY <2>1, CalmThread
  <2>4. \A q \in Pods \ {p} : ~Between(q, t)
    BY <2>1 DEF Joining
  <2>5. Between(p, home[p]) => t = home[p]
    BY <2>1 DEF Crossing
  <2> QED
    BY <1>4, <2>1, <2>2, <2>3, <2>4, <2>5 DEF trySetRoot, Runs, AddVeth
<1>5. ASSUME NEW p \in Pods, NEW t \in Threads, tryGetHost(p, t)
       PROVE  Clean'
  <2>1. Upset = {} /\ Joining(p, t) = {} /\ Crossing(p, t) = {}
    BY <1>5 DEF tryGetHost, Runs
  <2>2. threadNs[t] # Root => Between(p, t)
    BY <2>1, CalmThread
  <2>3. pc[p] \in Begun => rootNetns[p] = Root
    BY <2>1, CalmThread
  <2>4. \A q \in Pods \ {p} : ~Between(q, t)
    BY <2>1 DEF Joining
  <2>5. Between(p, home[p]) => t = home[p]
    BY <2>1 DEF Crossing
  <2> QED
    BY <1>5, <2>1, <2>2, <2>3, <2>4, <2>5 DEF tryGetHost, Runs
<1>6. ASSUME NEW p \in Pods, NEW t \in Threads, tryHostUp(p, t)
       PROVE  Clean'
  <2>1. Upset = {} /\ Joining(p, t) = {} /\ Crossing(p, t) = {}
    BY <1>6 DEF tryHostUp, Runs
  <2>2. threadNs[t] # Root => Between(p, t)
    BY <2>1, CalmThread
  <2>3. pc[p] \in Begun => rootNetns[p] = Root
    BY <2>1, CalmThread
  <2>4. \A q \in Pods \ {p} : ~Between(q, t)
    BY <2>1 DEF Joining
  <2>5. Between(p, home[p]) => t = home[p]
    BY <2>1 DEF Crossing
  <2> QED
    BY <1>6, <2>1, <2>2, <2>3, <2>4, <2>5 DEF tryHostUp, Runs
<1>7. ASSUME NEW p \in Pods, NEW t \in Threads, tryGetCont(p, t)
       PROVE  Clean'
  <2>1. Upset = {} /\ Joining(p, t) = {} /\ Crossing(p, t) = {}
    BY <1>7 DEF tryGetCont, Runs
  <2>2. threadNs[t] # Root => Between(p, t)
    BY <2>1, CalmThread
  <2>3. pc[p] \in Begun => rootNetns[p] = Root
    BY <2>1, CalmThread
  <2>4. \A q \in Pods \ {p} : ~Between(q, t)
    BY <2>1 DEF Joining
  <2>5. Between(p, home[p]) => t = home[p]
    BY <2>1 DEF Crossing
  <2> QED
    BY <1>7, <2>1, <2>2, <2>3, <2>4, <2>5 DEF tryGetCont, Runs
<1>8. ASSUME NEW p \in Pods, NEW t \in Threads, trySetNs(p, t)
       PROVE  Clean'
  <2>1. Upset = {} /\ Joining(p, t) = {} /\ Crossing(p, t) = {}
    BY <1>8 DEF trySetNs, Runs
  <2>2. threadNs[t] # Root => Between(p, t)
    BY <2>1, CalmThread
  <2>3. pc[p] \in Begun => rootNetns[p] = Root
    BY <2>1, CalmThread
  <2>4. \A q \in Pods \ {p} : ~Between(q, t)
    BY <2>1 DEF Joining
  <2>5. Between(p, home[p]) => t = home[p]
    BY <2>1 DEF Crossing
  <2> QED
    BY <1>8, <2>1, <2>2, <2>3, <2>4, <2>5 DEF trySetNs, Runs
<1>9. ASSUME NEW p \in Pods, NEW t \in Threads, tryLoopbackUp(p, t)
       PROVE  Clean'
  <2>1. Upset = {} /\ Joining(p, t) = {} /\ Crossing(p, t) = {}
    BY <1>9 DEF tryLoopbackUp, Runs
  <2>2. threadNs[t] # Root => Between(p, t)
    BY <2>1, CalmThread
  <2>3. pc[p] \in Begun => rootNetns[p] = Root
    BY <2>1, CalmThread
  <2>4. \A q \in Pods \ {p} : ~Between(q, t)
    BY <2>1 DEF Joining
  <2>5. Between(p, home[p]) => t = home[p]
    BY <2>1 DEF Crossing
  <2> QED
    BY <1>9, <2>1, <2>2, <2>3, <2>4, <2>5 DEF tryLoopbackUp, Runs
<1>10. ASSUME NEW p \in Pods, NEW t \in Threads, trySetBack(p, t)
        PROVE  Clean'
  <2>1. Upset = {} /\ Joining(p, t) = {} /\ Crossing(p, t) = {}
    BY <1>10 DEF trySetBack, Runs
  <2>2. threadNs[t] # Root => Between(p, t)
    BY <2>1, CalmThread
  <2>3. pc[p] \in Begun => rootNetns[p] = Root
    BY <2>1, CalmThread
  <2>4. \A q \in Pods \ {p} : ~Between(q, t)
    BY <2>1 DEF Joining
  <2>5. Between(p, home[p]) => t = home[p]
    BY <2>1 DEF Crossing
  <2> QED
    BY <1>10, <2>1, <2>2, <2>3, <2>4, <2>5 DEF trySetBack, Runs
<1>11. ASSUME NEW p \in Pods, NEW t \in Threads, StopPodNetwork(p, t)
        PROVE  Clean'
  <2>1. Upset = {} /\ Joining(p, t) = {}
    BY <1>11 DEF StopPodNetwork
  <2>2. threadNs[t] = Root
    BY <2>1, <1>11, CalmThread DEF StopPodNetwork
  <2> QED
    BY <1>11, <2>1, <2>2 DEF StopPodNetwork, DelBridge, DelVeth
<1>12. ASSUME NEW p \in Pods, NEW t \in Threads, Retry(p, t)
        PROVE  Clean'
  <2>1. Upset = {}
    BY <1>12 DEF Retry
  <2> QED
    BY <1>12, <2>1 DEF Retry, Looking
<1>13. CASE UNCHANGED vars
  BY <1>13 DEF vars
<1> QED
  BY <1>1, <1>2, <1>3, <1>4, <1>5, <1>6, <1>7, <1>8, <1>9, <1>10, <1>11, <1>12, <1>13
     DEF Next, Step, setupPodNetNs

(***************************************************************************)
(* Calls by index (LinkDel of StopPodNetwork among them) mean the link     *)
(* that they are meant for, as long as no default route failed and no      *)
(* goroutine changed or shared a thread between two switches.              *)
(***************************************************************************)
THEOREM IndexesRight == Spec => []StrayOnlyIfUpset
<1> DEFINE Inv == TypeInv /\ SwitchInv /\ Bounded /\ StrayInv
<1>1. Init => Inv
  <2>1. Init => Bounded
    BY NetNsAssumption DEF Init, Bounded
  <2> QED
    BY <2>1, TypeInit, SwitchInit, StrayInit
<1>2. Inv /\ [Next]_vars => Inv'
  BY TypeNext, SwitchNext, BoundedNext, StrayNext
<1>3. Inv => StrayOnlyIfUpset
  BY DEF StrayInv, Clean, StrayOnlyIfUpset
<1> QED
  BY <1>1, <1>2, <1>3, PTL DEF Spec
-----------------------------------------------------------------------------
(***************************************************************************)
(* Pods that are up are wired.  Early goroutines have not made their       *)
(* namespace yet.                                                          *)
(***************************************************************************)
Early == {"tryGetBridge", "tryBridgeUp"}

Fresh == \A p \in Pods : pc[p] \in Early =>
             /\ p \notin astray => bridge[p] # None /\ bridge[p] < nsid[p]
             /\ \A q \in Pods : named[q] # nsid[p]

NamesDiffer == \A p, q \in Pods : p # q /\ named[p] = named[q] => named[p] = None

\* What a goroutine has done so far, if no call went astray.
Late     == {"trySetNs", "tryLoopbackUp", "trySetBack"}
Plugged  == {"tryGetCont"} \cup Late

Progress ==
    \A p \in Pods :
        /\ outcome[p] = "up" => pc[p] = "idle"
        /\ pc[p] \in Begun /\ nsid[p] # None => named[p] = nsid[p]
        /\ p \notin astray =>
            /\ pc[p] = "trySetRoot" => rootNetns[p] = bridge[p]
            /\ pc[p] \in Begun /\ nsid[p] # None => nsid[p] # bridge[p]
            /\ pc[p] \in Linked => hostIf[p] = bridge[p]
            /\ pc[p] \in Plugged => p \in attached
            /\ pc[p] \in Late => contIf[p] = nsid[p]
            /\ pc[p] \in {"tryLoopbackUp", "trySetBack"} => p \in configured
            /\ pc[p] = "trySetBack" => nsid[p] \in loopback

WiredInv == Bounded /\ Fresh /\ NamesDiffer /\ Progress /\ PodsWired

LEMMA WiredInit == Init => WiredInv
BY NetNsAssumption
   DEF Init, WiredInv, Bounded, Fresh, Early, NamesDiffer, Progress, Begun, Late,
       Plugged, Linked, PodsWired

LEMMA FreshNext ==
    ASSUME TypeInv, Bounded, Fresh, [Next]_vars
    PROVE  Fresh'
<1> USE NetNsAssumption DEF Fresh, Early, Bounded, TypeInv, TypeOK, HasHandle
<1>1. ASSUME NEW p \in Pods, NEW t \in Threads, AddBridge(p, t)
       PROVE  Fresh'
  BY <1>1 DEF AddBridge
<1>2. ASSUME NEW p \in Pods, NEW t \in Threads, tryGetBridge(p, t)
       PROVE  Fresh'
  BY <1>2 DEF tryGetBridge
<1>3. ASSUME NEW p \in Pods, NEW t \in Threads, NewNamed(p, t)
       PROVE  Fresh'
  BY <1>3 DEF NewNamed
<1>4. ASSUME NEW p \in Pods, NEW t \in Threads, trySetRoot(p, t)
       PROVE  Fresh'
  BY <1>4 DEF trySetRoot, AddVeth
<1>5. ASSUME NEW p \in Pods, NEW t \in Threads, tryGetHost(p, t)
       PROVE  Fresh'
  BY <1>5 DEF tryGetHost
<1>6. ASSUME NEW p \in Pods, NEW t \in Threads, tryHostUp(p, t)
       PROVE  Fresh'
  BY <1>6 DEF tryHostUp
<1>7. ASSUME NEW p \in Pods, NEW t \in Threads, tryGetCont(p, t)
       PROVE  Fresh'
  BY <1>7 DEF tryGetCont
<1>8. ASSUME NEW p \in Pods, NEW t \in Threads, trySetNs(p, t)
       PROVE  Fresh'
  BY <1>8 DEF trySetNs
<1>9. ASSUME NEW p \in Pods, NEW t \in Threads, tryLoopbackUp(p, t)
       PROVE  Fresh'
  BY <1>9 DEF tryLoopbackUp
<1>10. ASSUME NEW p \in Pods, NEW t \in Threads, trySetBack(p, t)
        PROVE  Fresh'
  BY <1>10 DEF trySetBack
<1>11. ASSUME NEW p \in Pods, NEW t \in Threads, StopPodNetwork(p, t)
        PROVE  Fresh'
  BY <1>11 DEF StopPodNetwork, DelBridge, DelVeth
<1>12. ASSUME NEW p \in Pods, NEW t \in Threads, Retry(p, t)
        PROVE  Fresh'
  BY <1>12 DEF Retry
<1>13. CASE UNCHANGED vars
  BY <1>13 DEF vars
<1> QED
  BY <1>1, <1>2, <1>3, <1>4, <1>5, <1>6, <1>7, <1>8, <1>9, <1>10, <1>11, <1>12, <1>13
     DEF Next, Step, setupPodNetNs

LEMMA NamesNext ==
    ASSUME TypeInv, Fresh, NamesDiffer, [Next]_vars
    PROVE  NamesDiffer'
<1> USE NetNsAssumption DEF NamesDiffer, Fresh, Early, TypeInv, TypeOK
<1>1. ASSUME NEW p \in Pods, NEW t \in Threads, AddBridge(p, t)
       PROVE  NamesDiffer'
  BY <1>1 DEF AddBridge
<1>2. ASSUME NEW p \in Pods, NEW t \in Threads, tryGetBridge(p, t)
       PROVE  NamesDiffer'
  BY <1>2 DEF tryGetBridge
<1>3. ASSUME NEW p \in Pods, NEW t \in Threads, NewNamed(p, t)
       PROVE  NamesDiffer'
  BY <1>3 DEF NewNamed
<1>4. ASSUME NEW p \in Pods, NEW t \in Threads, trySetRoot(p, t)
       PROVE  NamesDiffer'
  BY <1>4 DEF trySetRoot, AddVeth
<1>5. ASSUME NEW p \in Pods, NEW t \in Threads, tryGetHost(p, t)
       PROVE  NamesDiffer'
  BY <1>5 DEF tryGetHost
<1>6. ASSUME NEW p \in Pods, NEW t \in Threads, tryHostUp(p, t)
       PROVE  NamesDiffer'
  BY <1>6 DEF tryHostUp
<1>7. ASSUME NEW p \in Pods, NEW t \in Threads, tryGetCont(p, t)
       PROVE  NamesDiffer'
  BY <1>7 DEF tryGetCont
<1>8. ASSUME NEW p \in Pods, NEW t \in Threads, trySetNs(p, t)
       PROVE  NamesDiffer'
  BY <1>8 DEF trySetNs
<1>9. ASSUME NEW p \in Pods, NEW t \in Threads, tryLoopbackUp(p, t)
       PROVE  NamesDiffer'
  BY <1>9 DEF tryLoopbackUp
<1>10. ASSUME NEW p \in Pods, NEW t \in Threads, trySetBack(p, t)
        PROVE  NamesDiffer'
  BY <1>10 DEF trySetBack
<1>11. ASSUME NEW p \in Pods, NEW t \in Threads, StopPodNetwork(p, t)
        PROVE  NamesDiffer'
  BY <1>11 DEF StopPodNetwork, DelBridge, DelVeth
<1>12. ASSUME NEW p \in Pods, NEW t \in Threads, Retry(p, t)
        PROVE  NamesDiffer'
  BY <1>12 DEF Retry
<1>13. CASE UNCHANGED vars
  BY <1>13 DEF vars
<1> QED
  BY <1>1, <1>2, <1>3, <1>4, <1>5, <1>6, <1>7, <1>8, <1>9, <1>10, <1>11, <1>12, <1>13
     DEF Next, Step, setupPodNetNs

LEMMA ProgressNext ==
    ASSUME TypeInv, Fresh, Progress, [Next]_vars
    PROVE  Progress'
<1> USE NetNsAssumption DEF Progress, Begun, Late, Plugged, Linked, Fresh, Early, TypeInv, TypeOK, HasHandle
<1>1. ASSUME NEW p \in Pods, NEW t \in Threads, AddBridge(p, t)
       PROVE  Progress'
  BY <1>1 DEF AddBridge
<1>2. ASSUME NEW p \in Pods, NEW t \in Threads, tryGetBridge(p, t)
       PROVE  Progress'
  BY <1>2 DEF tryGetBridge
<1>3. ASSUME NEW p \in Pods, NEW t \in Threads, NewNamed(p, t)
       PROVE  Progress'
  BY <1>3 DEF NewNamed
<1>4. ASSUME NEW p \in Pods, NEW t \in Threads, trySetRoot(p, t)
       PROVE  Progress'
  BY <1>4 DEF trySetRoot, AddVeth
<1>5. ASSUME NEW p \in Pods, NEW t \in Threads, tryGetHost(p, t)
       PROVE  Progress'
  BY <1>5 DEF tryGetHost
<1>6. ASSUME NEW p \in Pods, NEW t \in Threads, tryHostUp(p, t)
       PROVE  Progress'
  BY <1>6 DEF tryHostUp
<1>7. ASSUME NEW p \in Pods, NEW t \in Threads, tryGetCont(p, t)
       PROVE  Progress'
  BY <1>7 DEF tryGetCont
<1>8. ASSUME NEW p \in Pods, NEW t \in Threads, trySetNs(p, t)
       PROVE  Progress'
  BY <1>8 DEF trySetNs
<1>9. ASSUME NEW p \in Pods, NEW t \in Threads, tryLoopbackUp(p, t)
       PROVE  Progress'
  BY <1>9 DEF tryLoopbackUp
<1>10. ASSUME NEW p \in Pods, NEW t \in Threads, trySetBack(p, t)
        PROVE  Progress'
  BY <1>10 DEF trySetBack
<1>11. ASSUME NEW p \in Pods, NEW t \in Threads, StopPodNetwork(p, t)
        PROVE  Progress'
  BY <1>11 DEF StopPodNetwork, DelBridge, DelVeth
<1>12. ASSUME NEW p \in Pods, NEW t \in Threads, Retry(p, t)
        PROVE  Progress'
  BY <1>12 DEF Retry
<1>13. CASE UNCHANGED vars
  BY <1>13 DEF vars
<1> QED
  BY <1>1, <1>2, <1>3, <1>4, <1>5, <1>6, <1>7, <1>8, <1>9, <1>10, <1>11, <1>12, <1>13
     DEF Next, Step, setupPodNetNs

LEMMA PodsWiredNext ==
    ASSUME TypeInv, WiredInv, [Next]_vars
    PROVE  PodsWired'
<1> USE NetNsAssumption DEF PodsWired, WiredInv, Bounded, Fresh, Early, NamesDiffer, Progress, Begun, Late, Plugged, Linked, TypeInv, TypeOK, HasHandle
<1>1. ASSUME NEW p \in Pods, NEW t \in Threads, AddBridge(p, t)
       PROVE  PodsWired'
  BY <1>1 DEF AddBridge
<1>2. ASSUME NEW p \in Pods, NEW t \in Threads, tryGetBridge(p, t)
       PROVE  PodsWired'
  BY <1>2 DEF tryGetBridge
<1>3. ASSUME NEW p \in Pods, NEW t \in Threads, NewNamed(p, t)
       PROVE  PodsWired'
  BY <1>3 DEF NewNamed
<1>4. ASSUME NEW p \in Pods, NEW t \in Threads, trySetRoot(p, t)
       PROVE  PodsWired'
  BY <1>4 DEF trySetRoot, AddVeth
<1>5. ASSUME NEW p \in Pods, NEW t \in Threads, tryGetHost(p, t)
       PROVE  PodsWired'
  BY <1>5 DEF tryGetHost
<1>6. ASSUME NEW p \in Pods, NEW t \in Threads, tryHostUp(p, t)
       PROVE  PodsWired'
  BY <1>6 DEF tryHostUp
<1>7. ASSUME NEW p \in Pods, NEW t \in Threads, tryGetCont(p, t)
       PROVE  PodsWired'
  BY <1>7 DEF tryGetCont
<1>8. ASSUME NEW p \in Pods, NEW t \in Threads, trySetNs(p, t)
       PROVE  PodsWired'
  BY <1>8 DEF trySetNs
<1>9. ASSUME NEW p \in Pods, NEW t \in Threads, tryLoopbackUp(p, t)
       PROVE  PodsWired'
  BY <1>9 DEF tryLoopbackUp
<1>10. ASSUME NEW p \in Pods, NEW t \in Threads, trySetBack(p, t)
        PROVE  PodsWired'
  BY <1>10 DEF trySetBack
<1>11. ASSUME NEW p \in Pods, NEW t \in Threads, StopPodNetwork(p, t)
        PROVE  PodsWired'
  BY <1>11 DEF StopPodNetwork, DelBridge, DelVeth
<1>12. ASSUME NEW p \in Pods, NEW t \in Threads, Retry(p, t)
        PROVE  PodsWired'
  BY <1>12 DEF Retry
<1>13. CASE UNCHANGED vars
  BY <1>13 DEF vars
<1> QED
  BY <1>1, <1>2, <1>3, <1>4, <1>5, <1>6, <1>7, <1>8, <1>9, <1>10, <1>11, <1>12, <1>13
     DEF Next, Step, setupPodNetNs

(***************************************************************************)
(* InitPodNetwork reports a pod as up only if the host end of its veth is  *)
(* on its bridge and the other end, with address and route, in the         *)
(* namespace with the pod's name, which is no other pod's: whatever        *)
(* failed, and whichever threads its goroutine went through; unless a call *)
(* for the pod, or one that hit a link of it, was made in a wrong          *)
(* namespace.                                                              *)
(***************************************************************************)
THEOREM UpIsWired == Spec => []PodsWired
<1> DEFINE Inv == TypeInv /\ WiredInv
<1>1. Init => Inv
  BY TypeInit, WiredInit
<1>2. Inv /\ [Next]_vars => Inv'
  <2> SUFFICES ASSUME Inv, [Next]_vars
               PROVE  Inv'
    OBVIOUS
  <2>1. TypeInv'
    BY TypeNext
  <2>2. Bounded' /\ Fresh' /\ NamesDiffer' /\ Progress' /\ PodsWired'
    BY BoundedNext, FreshNext, NamesNext, ProgressNext, PodsWiredNext DEF WiredInv
  <2> QED
    BY <2>1, <2>2 DEF WiredInv
<1>3. Inv => PodsWired
  BY DEF WiredInv
<1> QED
  BY <1>1, <1>2, <1>3, PTL DEF Spec
=============================================================================
