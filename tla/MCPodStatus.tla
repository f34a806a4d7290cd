----------------------------- MODULE MCPodStatus -----------------------------
(***************************************************************************)
(* The pods of the run of PodStatus, and how their requests come.          *)
(***************************************************************************)
EXTENDS PodStatus

Pod(backends, inits, sides, creators, deleters, overlap) ==
    [backends |-> backends, inits |-> inits, sides |-> sides, creators |-> creators,
     deleters |-> deleters, overlap |-> overlap]

PodSettings ==
    { \* an init container, a VM and a container, one request at a time;
      Pod(<<"containerd", "osv", "containerd">>, 1, {2}, {1}, {1}, FALSE),
      \* one client creates, two delete, at the same time;
      Pod(<<"osv", "containerd">>, 0, {1}, {1}, {1, 2, 3}, TRUE),
      \* two clients create.
      Pod(<<"osv">>, 0, {1}, {1, 2}, {1, 2, 3}, TRUE) }
=============================================================================
