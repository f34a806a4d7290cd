---------------------------- MODULE NetNsThreads ----------------------------
(***************************************************************************)
(* Threads, goroutines and network namespaces: setupPodBridge and          *)
(* setupPodNetNs, which InitPodNetwork of both multi-runtime managers      *)
(* begins with (the legacy one has one bridge for all pods).               *)
(*                                                                         *)
(* A netlink call works in the network namespace of the THREAD that makes  *)
(* it.  setupPodNetNs moves its thread into the namespace of the pod and   *)
(* back.  Nothing calls runtime.LockOSThread: tryGetLink, trySetLinkUp and *)
(* trySetNs sleep, and a goroutine that wakes up does so on any thread,    *)
(* also on one that another goroutine has moved and sleeps on.  A step is  *)
(* what a goroutine does from one sleep to the next, on one thread; a      *)
(* retry loop is a step that is enabled where the call succeeds, and       *)
(* Retry, which only changes the thread, where it fails.                   *)
(*                                                                         *)
(* LinkByName looks for a name that is random, and so finds the link that  *)
(* is meant.  Every other call names a link by its index, which means      *)
(* another link, or none, in another namespace: there the outcome is left  *)
(* open, and what it changes of the links of the pods is a choice.         *)
(*                                                                         *)
(* The goroutines are named by the pods they work on: one at a time for a  *)
(* pod, as in PodNetwork.                                                  *)
(*                                                                         *)
(* Definitions marked "Fault" are mistakes that the properties catch when  *)
(* they take the place of the definition that follows; nothing uses them.  *)
(***************************************************************************)
EXTENDS Naturals

CONSTANTS
    Pods,
    Threads,
    MaxCalls,     \* bound: InitPodNetwork calls
    Faults        \* which calls may fail

ASSUME NetNsAssumption ==
    MaxCalls \in Nat /\ Faults \subseteq {"named", "veth", "master", "route"}

\* Namespaces: 0 is the host's, n is the one that the n-th call makes.
Root       == 0
Namespaces == 0 .. MaxCalls
None       == MaxCalls + 1
Places     == Namespaces \cup {None}

VARIABLES
    threadNs,     \* thread -> the namespace it is in
    home,         \* pod -> the thread its goroutine last ran on
    named,        \* pod -> the namespace with its name, or None
    bridge,       \* pod -> the namespace that its bridge is in
    hostIf,       \* pod -> the namespace that the host end of its veth is in
    contIf,       \* pod -> the namespace that the container end is in
    attached,     \* pods whose host end has the bridge as its master
    configured,   \* pods whose container end has its address and default route
    loopback,     \* namespaces whose lo is up
    pc,           \* pod -> the step its goroutine is at
    rootNetns,    \* pod -> the goroutine's local of this name
    nsid,         \* pod -> and this: the namespace of its call, None after an error
    outcome,      \* pod -> what the last call returned
    calls,
    stranded,     \* history: threads on which the default route could not be added
    crossed,      \* history: threads that goroutines changed, or shared, at a bad time
    astray        \* history: pods with a call made, or a link hit, in a wrong namespace

linkVars == <<bridge, hostIf, contIf, attached, configured, loopback>>
vars == <<threadNs, home, named, linkVars, pc, rootNetns, nsid, outcome, calls,
          stranded, crossed, astray>>

Init ==
    /\ threadNs = [t \in Threads |-> Root] /\ home \in [Pods -> Threads]
    /\ named = [p \in Pods |-> None]
    /\ bridge = [p \in Pods |-> None]
    /\ hostIf = [p \in Pods |-> None] /\ contIf = [p \in Pods |-> None]
    /\ attached = {} /\ configured = {} /\ loopback = {Root}
    /\ pc = [p \in Pods |-> "idle"]
    /\ rootNetns = [p \in Pods |-> Root] /\ nsid = [p \in Pods |-> None]
    /\ outcome = [p \in Pods |-> "none"]
    /\ calls = 0 /\ stranded = {} /\ crossed = {} /\ astray = {}

At(p, label)   == pc[p] = label
Goto(p, label) == pc' = [pc EXCEPT ![p] = label]

Return(p, result) ==
    /\ Goto(p, "idle")
    /\ outcome' = [outcome EXCEPT ![p] = result]
-----------------------------------------------------------------------------
(***************************************************************************)
(* Waking up.                                                              *)
(***************************************************************************)
\* A goroutine is between two switches, with thread t in a pod's namespace.
Between(p, t) == pc[p] \in {"trySetRoot", "tryLoopbackUp", "trySetBack"} /\ home[p] = t

Upset == stranded \cup crossed

\* A goroutine leaves thread home[p] for t between two switches, or leaves or
\* comes to a thread that is not where it should be.
Crossing(p, t) ==
    IF /\ pc[p] # "idle" /\ home[p] # t
       /\ Between(p, home[p]) \/ {home[p], t} \cap Upset # {}
    THEN {home[p], t} ELSE {}

\* It works on a thread that another goroutine has between two switches.
Joining(p, t) == IF \E q \in Pods \ {p} : Between(q, t) THEN {t} ELSE {}

\* The goroutine of p runs on thread t.
Runs(p, t) ==
    /\ home' = [home EXCEPT ![p] = t]
    /\ crossed' = crossed \cup Crossing(p, t) \cup Joining(p, t)

\* Where the link is that the retry loop at hand is about.
Looking   == {"tryGetBridge", "tryBridgeUp", "tryGetHost", "tryHostUp", "tryGetCont"}
Wanted(p) == CASE pc[p] \in {"tryGetBridge", "tryBridgeUp"} -> bridge[p]
               [] pc[p] \in {"tryGetHost", "tryHostUp"}     -> hostIf[p]
               [] OTHER                                     -> contIf[p]

\* Other pods with a link in the namespace, for an index that means another link.
Others(p, ns) == {q \in Pods \ {p} : ns \in {bridge[q], hostIf[q], contIf[q]}}

\* It wakes up on another thread, where the call fails, and sleeps again.
Retry(p, t) ==
    /\ pc[p] \in Looking /\ t # home[p] /\ threadNs[t] # Wanted(p)
    /\ home' = [home EXCEPT ![p] = t] /\ crossed' = crossed \cup Crossing(p, t)
    /\ UNCHANGED <<threadNs, named, linkVars, pc, rootNetns, nsid, outcome, calls,
                   stranded, astray>>
-----------------------------------------------------------------------------
(***************************************************************************)
(* setupPodBridge.                                                         *)
(***************************************************************************)
\* Add the bridge, in whatever namespace the thread is in.
AddBridge(p, t) ==
    /\ At(p, "idle") /\ calls < MaxCalls
    /\ Runs(p, t)
    /\ bridge' = [bridge EXCEPT ![p] = threadNs[t]]
    /\ attached' = attached \ {p} /\ configured' = configured \ {p}
    /\ outcome' = [outcome EXCEPT ![p] = "none"]
    /\ calls' = calls + 1 /\ nsid' = [nsid EXCEPT ![p] = calls + 1]
    /\ astray' = astray \ {p}
    /\ Goto(p, "tryGetBridge")
    /\ UNCHANGED <<threadNs, named, hostIf, contIf, loopback, rootNetns, stranded>>

\* tryGetLink: look until it is there; then add its address.
tryGetBridge(p, t) ==
    /\ At(p, "tryGetBridge") /\ Runs(p, t)
    /\ threadNs[t] = bridge[p]
    /\ Goto(p, "tryBridgeUp")
    /\ UNCHANGED <<threadNs, named, linkVars, rootNetns, nsid, outcome, calls, stranded,
                   astray>>

(***************************************************************************)
(* trySetLinkUp, then straight on to netns.Get and NewNamed of             *)
(* setupPodNetNs.  NewNamed moves the thread into a new namespace before   *)
(* it finds that the name is taken.                                        *)
(***************************************************************************)
NewNamed(p, t) ==
    /\ At(p, "tryBridgeUp") /\ Runs(p, t)
    /\ astray' = IF threadNs[t] = bridge[p] THEN astray ELSE astray \cup {p}
    /\ rootNetns' = [rootNetns EXCEPT ![p] = threadNs[t]]
    /\ threadNs' = [threadNs EXCEPT ![t] = nsid[p]]
    /\ \/ /\ named[p] = None
          /\ named' = [named EXCEPT ![p] = nsid[p]]
          /\ UNCHANGED nsid
       \/ /\ named[p] # None \/ "named" \in Faults
          /\ nsid' = [nsid EXCEPT ![p] = None]
          /\ UNCHANGED named
    /\ Goto(p, "trySetRoot")
    /\ UNCHANGED <<linkVars, outcome, calls, stranded>>
-----------------------------------------------------------------------------
(***************************************************************************)
(* setupPodNetNs.                                                          *)
(***************************************************************************)
\* The veth pair is added where the thread is now.
AddVeth(p, ns) ==
    \/ /\ hostIf' = [hostIf EXCEPT ![p] = ns] /\ contIf' = [contIf EXCEPT ![p] = ns]
       /\ Goto(p, "tryGetHost") /\ UNCHANGED outcome
    \/ /\ "veth" \in Faults
       /\ Return(p, "failed") /\ UNCHANGED <<hostIf, contIf>>

\* Fault: the error is returned before the thread is moved back.
trySetRootLate(p, t) ==
    /\ At(p, "trySetRoot") /\ Runs(p, t)
    /\ IF nsid[p] = None
       THEN Return(p, "failed") /\ UNCHANGED <<threadNs, hostIf, contIf>>
       ELSE /\ threadNs' = [threadNs EXCEPT ![t] = rootNetns[p]]
            /\ AddVeth(p, rootNetns[p])
    /\ UNCHANGED <<named, bridge, attached, configured, loopback, rootNetns, nsid, calls,
                   stranded, astray>>

\* Fault: the error is not looked at.
trySetRootUnchecked(p, t) ==
    /\ At(p, "trySetRoot") /\ Runs(p, t)
    /\ threadNs' = [threadNs EXCEPT ![t] = rootNetns[p]]
    /\ AddVeth(p, rootNetns[p])
    /\ UNCHANGED <<named, bridge, attached, configured, loopback, rootNetns, nsid, calls,
                   stranded, astray>>

\* trySetNs: back, also after an error of NewNamed.
trySetRoot(p, t) ==
    /\ At(p, "trySetRoot") /\ Runs(p, t)
    /\ threadNs' = [threadNs EXCEPT ![t] = rootNetns[p]]
    /\ IF nsid[p] = None
       THEN Return(p, "failed") /\ UNCHANGED <<hostIf, contIf>>
       ELSE AddVeth(p, rootNetns[p])
    /\ UNCHANGED <<named, bridge, attached, configured, loopback, rootNetns, nsid, calls,
                   stranded, astray>>

tryGetHost(p, t) ==
    /\ At(p, "tryGetHost") /\ Runs(p, t)
    /\ threadNs[t] = hostIf[p]
    /\ Goto(p, "tryHostUp")
    /\ UNCHANGED <<threadNs, named, linkVars, rootNetns, nsid, outcome, calls, stranded,
                   astray>>

(***************************************************************************)
(* trySetLinkUp and LinkSetMaster.  Unless both links are here, this fails *)
(* or gives a link that was not meant a master that was not meant; which   *)
(* takes the host end of another pod off its bridge, or its container end  *)
(* out of use.                                                             *)
(***************************************************************************)
tryHostUp(p, t) ==
    /\ At(p, "tryHostUp") /\ Runs(p, t)
    /\ \/ /\ threadNs[t] = hostIf[p] /\ threadNs[t] = bridge[p]
          /\ attached' = attached \cup {p}
          /\ Goto(p, "tryGetCont") /\ UNCHANGED <<outcome, astray>>
       \/ /\ threadNs[t] # hostIf[p] \/ threadNs[t] # bridge[p]
          /\ Goto(p, "tryGetCont") /\ UNCHANGED outcome
          /\ \/ UNCHANGED attached /\ astray' = astray \cup {p}
             \/ /\ threadNs[t] # hostIf[p]
                /\ \E q \in Others(p, threadNs[t]) :
                       attached' = attached \ {q} /\ astray' = astray \cup {p, q}
       \/ /\ threadNs[t] # hostIf[p] \/ threadNs[t] # bridge[p] \/ "master" \in Faults
          /\ Return(p, "failed") /\ UNCHANGED <<attached, astray>>
    /\ UNCHANGED <<threadNs, named, bridge, hostIf, contIf, configured, loopback,
                   rootNetns, nsid, calls, stranded>>

\* Fault: the link is moved before it is looked up.
tryGetContMoved(p, t) ==
    /\ At(p, "tryGetCont") /\ Runs(p, t)
    /\ contIf' = [contIf EXCEPT ![p] = nsid[p]]
    /\ threadNs[t] = nsid[p]
    /\ Goto(p, "trySetNs")
    /\ UNCHANGED <<threadNs, named, bridge, hostIf, attached, configured, loopback,
                   rootNetns, nsid, outcome, calls, stranded, astray>>

\* tryGetLink, and LinkSetNsFd: the container end goes into the namespace.
tryGetCont(p, t) ==
    /\ At(p, "tryGetCont") /\ Runs(p, t)
    /\ threadNs[t] = contIf[p]
    /\ contIf' = [contIf EXCEPT ![p] = nsid[p]]
    /\ Goto(p, "trySetNs")
    /\ UNCHANGED <<threadNs, named, bridge, hostIf, attached, configured, loopback,
                   rootNetns, nsid, outcome, calls, stranded, astray>>

\* Fault: the namespace is not entered.
trySetNsNot(p, t) ==
    /\ At(p, "trySetNs") /\ Runs(p, t)
    /\ configured' = IF contIf[p] = threadNs[t] THEN configured \cup {p} ELSE configured
    /\ Goto(p, "tryLoopbackUp")
    /\ UNCHANGED <<threadNs, named, bridge, hostIf, contIf, attached, loopback, rootNetns,
                   nsid, outcome, calls, stranded, astray>>

(***************************************************************************)
(* trySetNs into the namespace, the address, and the default route: if     *)
(* this fails, as it does if the link is gone, the thread stays where it   *)
(* is.  Another link there may have taken the index.                       *)
(***************************************************************************)
trySetNs(p, t) ==
    /\ At(p, "trySetNs") /\ Runs(p, t)
    /\ threadNs' = [threadNs EXCEPT ![t] = nsid[p]]
    /\ \/ /\ contIf[p] = nsid[p]
          /\ configured' = configured \cup {p}
          /\ Goto(p, "tryLoopbackUp") /\ UNCHANGED <<outcome, stranded, astray>>
       \/ /\ Others(p, nsid[p]) # {}
          /\ astray' = astray \cup {p}
          /\ Goto(p, "tryLoopbackUp") /\ UNCHANGED <<configured, outcome, stranded>>
       \/ /\ contIf[p] # nsid[p] \/ "route" \in Faults
          /\ stranded' = stranded \cup {t}
          /\ Return(p, "failed") /\ UNCHANGED <<configured, astray>>
    /\ UNCHANGED <<named, bridge, hostIf, contIf, attached, loopback, rootNetns, nsid,
                   calls>>

\* trySetLinkUp of lo, which has the same index in every namespace.
tryLoopbackUp(p, t) ==
    /\ At(p, "tryLoopbackUp") /\ Runs(p, t)
    /\ loopback' = loopback \cup {threadNs[t]}
    /\ astray' = IF threadNs[t] = nsid[p] THEN astray ELSE astray \cup {p}
    /\ Goto(p, "trySetBack")
    /\ UNCHANGED <<threadNs, named, bridge, hostIf, contIf, attached, configured,
                   rootNetns, nsid, outcome, calls, stranded>>

\* Fault: the thread is left in the namespace.
trySetBackNot(p, t) ==
    /\ At(p, "trySetBack") /\ Runs(p, t)
    /\ Return(p, "up")
    /\ UNCHANGED <<threadNs, named, linkVars, rootNetns, nsid, calls, stranded, astray>>

\* trySetNs, back again.
trySetBack(p, t) ==
    /\ At(p, "trySetBack") /\ Runs(p, t)
    /\ threadNs' = [threadNs EXCEPT ![t] = rootNetns[p]]
    /\ Return(p, "up")
    /\ UNCHANGED <<named, linkVars, rootNetns, nsid, calls, stranded, astray>>

setupPodNetNs(p, t) ==
    \/ trySetRoot(p, t) \/ tryGetHost(p, t) \/ tryHostUp(p, t) \/ tryGetCont(p, t)
    \/ trySetNs(p, t) \/ tryLoopbackUp(p, t) \/ trySetBack(p, t)

(***************************************************************************)
(* StopPodNetwork: the name goes, and the link that has the index of the   *)
(* bridge in the namespace of the thread.  If the bridge is elsewhere this *)
(* is no link, or another pod's bridge, or one end of a veth pair, which   *)
(* goes as a whole.  Nothing closes the handle: the namespace, with the    *)
(* container end of the veth pair, stays.                                  *)
(***************************************************************************)
DelBridge(q) == /\ bridge' = [bridge EXCEPT ![q] = None] /\ attached' = attached \ {q}
                /\ UNCHANGED <<hostIf, contIf, configured>>

DelVeth(q) == /\ hostIf' = [hostIf EXCEPT ![q] = None]
              /\ contIf' = [contIf EXCEPT ![q] = None]
              /\ attached' = attached \ {q} /\ configured' = configured \ {q}
              /\ UNCHANGED bridge

StopPodNetwork(p, t) ==
    /\ At(p, "idle") /\ named[p] # None
    /\ named' = [named EXCEPT ![p] = None]
    /\ crossed' = crossed \cup Joining(p, t)
    /\ \/ /\ bridge[p] = threadNs[t]
          /\ DelBridge(p) /\ UNCHANGED astray
       \/ /\ bridge[p] # threadNs[t]
          /\ \/ UNCHANGED <<bridge, hostIf, contIf, attached, configured, astray>>
             \/ \E q \in Pods \ {p} : /\ bridge[q] = threadNs[t] /\ DelBridge(q)
                                      /\ astray' = astray \cup {q}
             \/ \E q \in Pods : /\ threadNs[t] \in {hostIf[q], contIf[q]} /\ DelVeth(q)
                                /\ astray' = astray \cup {q}
    /\ outcome' = [outcome EXCEPT ![p] = "stopped"]
    /\ UNCHANGED <<threadNs, home, loopback, pc, rootNetns, nsid, calls, stranded>>
-----------------------------------------------------------------------------
Step(p, t) == tryGetBridge(p, t) \/ NewNamed(p, t) \/ setupPodNetNs(p, t)

Next == \E p \in Pods, t \in Threads :
            Step(p, t) \/ Retry(p, t) \/ AddBridge(p, t) \/ StopPodNetwork(p, t)

(***************************************************************************)
(* A goroutine that sleeps wakes up.  Nothing says on which thread, so all *)
(* that follows is that its step is not possible for ever on the thread    *)
(* that it is on: it wakes up there and takes it, or wakes up elsewhere.   *)
(* Nor is it to be hoped for that an index means another link.             *)
(***************************************************************************)
StepAtHome(p) == /\ pc[p] \in Looking => threadNs[home[p]] = Wanted(p)
                 /\ Step(p, home[p])

Fairness == \A p \in Pods : WF_vars(StepAtHome(p))

Spec == Init /\ [][Next]_vars /\ Fairness
-----------------------------------------------------------------------------
(***************************************************************************)
(* Properties.                                                             *)
(***************************************************************************)
TypeOK ==
    /\ threadNs \in [Threads -> Namespaces] /\ home \in [Pods -> Threads]
    /\ named \in [Pods -> Places] /\ bridge \in [Pods -> Places]
    /\ hostIf \in [Pods -> Places] /\ contIf \in [Pods -> Places]
    /\ attached \subseteq Pods /\ configured \subseteq Pods
    /\ loopback \subseteq Namespaces
    /\ pc \in [Pods -> {"idle", "tryGetBridge", "tryBridgeUp", "trySetRoot", "tryGetHost",
                        "tryHostUp", "tryGetCont", "trySetNs", "tryLoopbackUp",
                        "trySetBack"}]
    /\ rootNetns \in [Pods -> Namespaces] /\ nsid \in [Pods -> Places]
    /\ outcome \in [Pods -> {"none", "up", "failed", "stopped"}]
    /\ calls \in 0 .. MaxCalls
    /\ stranded \subseteq Threads /\ crossed \subseteq Threads /\ astray \subseteq Pods


(***************************************************************************)
(* What it keeps, wherever goroutines wake up: a thread is in the host's   *)
(* namespace unless a goroutine of setupPodNetNs is on it between the two  *)
(* switches, the default route failed on it, or a goroutine came to it, or *)
(* left it, or was joined on it, at such a time.  Early returns and what   *)
(* other threads are left with do not spread to it.                        *)
(***************************************************************************)
OthersAtRoot ==
    \A t \in Threads \ Upset : threadNs[t] # Root => \E p \in Pods : Between(p, t)

(***************************************************************************)
(* A pod that is up has the host end of its veth on its bridge, and the    *)
(* other end, with address and route, in a namespace with the pod's name   *)
(* and lo up, which no other pod has: whatever failed, whichever threads   *)
(* the goroutine went through, and even if all was done in a pod's         *)
(* namespace that an earlier call left a thread in.  Excepted are pods     *)
(* with a call, or a link hit by another's call, in a wrong namespace.     *)
(***************************************************************************)
PodsWired ==
    \A p \in Pods \ astray : outcome[p] = "up" =>
        /\ bridge[p] = hostIf[p] /\ p \in attached
        /\ named[p] \notin {bridge[p], Root, None}
        /\ contIf[p] = named[p] /\ p \in configured /\ named[p] \in loopback
        /\ \A q \in Pods \ {p} : named[q] # named[p]

(***************************************************************************)
(* No call means a link by an index of another namespace (LinkSetUp,       *)
(* LinkSetMaster, AddrAdd, and LinkDel of StopPodNetwork, which deletes    *)
(* what it finds) before a default route failed, or a goroutine changed or *)
(* shared a thread between two switches.                                   *)
(***************************************************************************)
StrayOnlyIfUpset == astray # {} => Upset # {}

(***************************************************************************)
(* The retry loops of tryGetLink, trySetLinkUp and trySetNs have no end of *)
(* their own.  InitPodNetwork returns all the same, whatever failed before *)
(* and though its goroutine wakes up on any thread, unless the default     *)
(* route failed on its thread, or it was changed or shared at a bad time,  *)
(* or a link of its pod was hit.                                           *)
(***************************************************************************)
Returns == \A p \in Pods :
    pc[p] # "idle" ~> pc[p] = "idle" \/ home[p] \in Upset \/ p \in astray
=============================================================================
