----------------------------- MODULE MCPodRaces -----------------------------
(***************************************************************************)
(* PodNetwork with a history variable: which pods had RequestPodIP calls   *)
(* in flight at the same time.                                             *)
(***************************************************************************)
EXTENDS PodNetwork, TLC

VARIABLE overlapped

RaceInit == Init /\ overlapped = {}

InFlight(g, h) == g # h /\ pending'[g] # Idle /\ pending'[h] # Idle

RaceNext ==
    /\ Next
    /\ overlapped' = overlapped \cup
           {{pending'[gh[1]].pod, pending'[gh[2]].pod} :
               gh \in {gh \in Handlers \X Handlers : InFlight(gh[1], gh[2])}}

RaceSpec == RaceInit /\ [][RaceNext]_<<vars, overlapped>>

\* Pods differ in name only; so do handlers.
RaceSymmetry == Permutations(Pods) \cup Permutations(Handlers)

(***************************************************************************)
(* Without a lock around RequestPodIP, two pods can be handed one block,   *)
(* but only when their requests overlapped: a request that starts after    *)
(* another one returned never gets an address in the other one's block.    *)
(***************************************************************************)
SharedOnlyByOverlap ==
    \A g, h \in held :
        g # h /\ Addresses!Block(g[2]) \cap Addresses!Block(h[2]) # {} =>
            {g[1], h[1]} \in overlapped
=============================================================================
