---------------------------- MODULE MCPodNetwork ----------------------------
EXTENDS PodNetwork, TLC

\* Pods differ in name only; so do handlers.
Symmetry == Permutations(Pods) \cup Permutations(Handlers)
=============================================================================
