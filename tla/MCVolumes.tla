------------------------------ MODULE MCVolumes ------------------------------
(***************************************************************************)
(* The pods of the run of Volumes.  Three settings have a resource manager *)
(* (see Volumes), the last is one of standalone mode.                      *)
(***************************************************************************)
EXTENDS Volumes, TLC

CONSTANTS i1, i2, i3, i4, cm, sec, acc   \* instances; a configMap, a secret, an account

Volume(pod, name)  == [pod |-> pod, name |-> name]
From(kind, sources, optional, type) ==
    [kind |-> kind, objects |-> sources, optional |-> optional, type |-> type]

\* The volumes of the runs.  Pods A and B have volumes with the same names.
AllSource ==
    (Volume("A", "all")    :> From("projected", <<cm, sec, acc>>, "true", "nil")) @@
    (Volume("A", "config") :> From("configMap", <<cm>>, "false", "nil")) @@
    (Volume("B", "all")    :> From("projected", <<cm>>, "nil", "nil")) @@
    (Volume("B", "config") :> From("configMap", <<sec>>, "nil", "nil")) @@
    (Volume("D", "dir1")   :> From("hostPath", <<>>, "nil", "DirectoryOrCreate")) @@
    (Volume("D", "dir2")   :> From("hostPath", <<>>, "nil", "Directory")) @@
    (Volume("D", "plain")  :> From("hostPath", <<>>, "nil", "")) @@
    (Volume("D", "untyped"):> From("hostPath", <<>>, "nil", "nil")) @@
    (Volume("D", "empty")  :> From("emptyDir", <<>>, "nil", "nil")) @@
    (Volume("D", "nfs")    :> From("nfs", <<>>, "nil", "nil")) @@
    (Volume("D", "csi")    :> From("other", <<>>, "nil", "nil")) @@
    (Volume("D", "secret") :> From("secret", <<sec>>, "nil", "nil"))
AllVolumes  == DOMAIN AllSource

Setting(mountsOf, podOf, backendOf, hasCluster, maxUpdates) ==
    [mountsOf |-> mountsOf, podOf |-> podOf, backendOf |-> backendOf,
     hasCluster |-> hasCluster, maxUpdates |-> maxUpdates, faults |-> {"disk"}]

\* Two containers of a pod over one projected volume, one with a configMap.
Shared == Setting((i1 :> <<Volume("A", "config"), Volume("A", "all")>>) @@
                  (i2 :> <<Volume("A", "all")>>),
                  (i1 :> "A") @@ (i2 :> "A"),
                  (i1 :> "containerd") @@ (i2 :> "containerd"), TRUE, 2)

\* Containers of two pods with volumes of one name.
Names == Setting((i1 :> <<Volume("A", "all")>>) @@ (i2 :> <<Volume("B", "all")>>),
                 (i1 :> "A") @@ (i2 :> "B"),
                 (i1 :> "containerd") @@ (i2 :> "containerd"), TRUE, 1)

\* A VM with a configMap that changes.
VM == Setting(i3 :> <<Volume("B", "config")>>, i3 :> "B", i3 :> "osv", TRUE, 3)

\* All the other kinds, in an agent without a cluster.  A pod may have both
\* backends.
OtherKinds ==
    Setting((i1 :> <<Volume("D", "plain"), Volume("D", "dir1"), Volume("D", "empty")>>) @@
            (i2 :> <<Volume("D", "dir1"), Volume("D", "dir2")>>) @@
            (i3 :> <<Volume("D", "nfs"), Volume("D", "untyped")>>) @@
            (i4 :> <<Volume("D", "empty"), Volume("D", "csi"), Volume("D", "secret")>>),
            (i1 :> "D") @@ (i2 :> "D") @@ (i3 :> "D") @@ (i4 :> "D"),
            (i1 :> "containerd") @@ (i2 :> "osv") @@ (i3 :> "osv") @@ (i4 :> "containerd"),
            FALSE, 0)

AllSettings == {Shared, Names, VM, OtherKinds}
=============================================================================
