------------------------- MODULE MultiRuntimeNetwork -------------------------
(***************************************************************************)
(* MultiRuntimeNetworkManager: the pod network of mode "multiruntime".     *)
(* Its code is that of the pod-local manager (PodNetwork) without          *)
(* localhost: no programs in the namespace and on the taps, and so two     *)
(* steps, and the ways in which they fail, less.  It also looks for a new  *)
(* tap only once.                                                          *)
(*                                                                         *)
(* The steps that are the same are taken from PodNetwork; the names below  *)
(* group them by the method of this manager that takes them.  The maps     *)
(* fromLocalhostBpfMaps and linksToKeep stay empty.                        *)
(***************************************************************************)
EXTENDS PodNetwork

\* setupPodNetNs, then straight on to the split map.
MRSetupPodNetNs(h) ==
    /\ pc[h] = "addns"
    /\ LET p == frame[h].pod
       IN  /\ p \notin netns
           /\ netns' = netns \cup {p}
           /\ vethMaster' = [vethMaster EXCEPT ![p] = frame[h].podLink]
           /\ addressesUsed' = [addressesUsed EXCEPT ![podDevices[p].podBridge] =
                                   @ \cup {frame[h].subIp}]
    /\ Goto(h, "split")
    /\ UNCHANGED <<addressVars, podDevices, fromLocalhostBpfMaps, podNamespaces,
                   bridges, bridgeAddr, bpfVars, calls, frame, outcome>>

initFromSubpodRouting(h) == LoadRedirect(h) \/ AddRoute(h) \/ PublishRedirect(h)

updateSubpodRouting(h) == UpdateOther(h) \/ UpdateOtherPanics(h) \/ WriteBack(h)

MRInitPodNetwork(h) ==
    \/ RecordPodIP(h) \/ SetupPodBridge(h) \/ SetupPodBridgePanics(h)
    \/ GetNetNsIP(h) \/ MRSetupPodNetNs(h) \/ SetupPodNetNsFails(h)
    \/ LoadSplit(h) \/ LoadPanics(h)
    \/ initFromSubpodRouting(h) \/ updateSubpodRouting(h) \/ AttachBridge(h)

\* Fault: the copy of the entry made before the tap is not stored.
MRAddTapUnlisted(h) ==
    /\ pc[h] = "tap"
    /\ LET p == frame[h].pod  dev == frame[h].dev
       IN  /\ dev.toSubpodBpfMap # None
           /\ splitMap' = [splitMap EXCEPT ![dev.toSubpodBpfMap] =
                              PutNext(@, frame[h].subIp)]
           /\ podDevices' = [podDevices EXCEPT ![p] = dev]
    /\ Call(h, "idle", NoFrame)
    /\ UNCHANGED <<addressVars, addressesUsed, fromLocalhostBpfMaps, podNamespaces,
                   linkVars, redirectMap, calls, outcome>>

\* The tap is up: its address and its slot in the split map.
MRAddTap(h) ==
    /\ pc[h] = "tap"
    /\ LET p == frame[h].pod  dev == frame[h].dev  ip == frame[h].subIp
       IN  /\ dev.toSubpodBpfMap # None
           /\ addressesUsed' = [addressesUsed EXCEPT ![dev.podBridge] = @ \cup {ip}]
           /\ splitMap' = [splitMap EXCEPT ![dev.toSubpodBpfMap] = PutNext(@, ip)]
           /\ podDevices' = [podDevices EXCEPT ![p] = dev]
    /\ Call(h, "idle", NoFrame)
    /\ UNCHANGED <<addressVars, fromLocalhostBpfMaps, podNamespaces, linkVars,
                   redirectMap, calls, outcome>>

\* The tap is looked for once, and the error dropped: LinkSetUp of a nil link
\* panics.  (The pod-local manager calls tryGetLink, which looks until it is
\* there.)  The tap stays; nothing knows of it.
MRTapMissing(h) ==
    /\ pc[h] = "tap"
    /\ "lookup" \in Faults
    /\ Call(h, "idle", NoFrame)
    /\ UNCHANGED <<addressVars, goVars, linkVars, bpfVars, calls, outcome>>

MRCreateVMTun(h) == MRAddTap(h) \/ AddTapPanics(h) \/ MRTapMissing(h)

MRStopPodNetwork(h) == DeleteBridge(h) \/ DeleteBridgePanics(h)

MRStep(h) == MRInitPodNetwork(h) \/ MRCreateVMTun(h) \/ MRStopPodNetwork(h)

MRNext == \E h \in Handlers : MRStep(h) \/ \E p \in Pods : Begin(h, p)

MRSpec == Init /\ [][MRNext]_vars
=============================================================================
