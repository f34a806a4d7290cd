------------------------------- MODULE Volumes -------------------------------
(***************************************************************************)
(* The volumes of instances: newInstanceVolume looks up the objects of a   *)
(* volume in the cluster (instance_volume.go), then the backend puts their *)
(* data into directories and tells the runtime what to mount               *)
(* (getVolumeMountExtras of OSv, getVolumeMountsOpts of containerd).       *)
(*                                                                         *)
(* Objects change in the cluster while this goes on; directories stay when *)
(* instances are deleted, created again or fail to be created, and some    *)
(* are shared by the containers of a pod.  Data is abstracted to a version *)
(* for each key.                                                           *)
(*                                                                         *)
(* Definitions marked "Fault" are mistakes that the properties catch when  *)
(* they take the place of the definition that follows; nothing uses them.  *)
(***************************************************************************)
EXTENDS Naturals, Sequences

CONSTANTS
    Objects, Keys,
    Volumes,       \* the volumes of all pods: records with a pod and a name
    Source,        \* volume -> its VolumeSource
    Accounts,      \* the objects that are service accounts
    TokenKey,      \* the file in which a service account's token is put
    Settings,      \* the instances that there may be, and what happens around them
    MaxUpdates     \* bound: changes to objects in any setting

Kinds == {"hostPath", "emptyDir", "secret", "nfs", "configMap", "projected", "other"}

\* Optional is a pointer, and so is the type of a hostPath.
SourceType == [kind : Kinds, objects : Seq(Objects),
               optional : {"nil", "true", "false"},
               type : {"nil", "", "DirectoryOrCreate", "Directory", "File"}]

\* The version of a key in an object or of a file in a directory; a write
\* that fails may leave a file that is cut off.
Absent    == 0
Versions  == 1 .. MaxUpdates + 1
Truncated == MaxUpdates + 2
Content   == [Keys -> {Absent} \cup Versions]
Files     == [Keys -> {Absent, Truncated} \cup Versions]
Empty     == [k \in Keys |-> Absent]
TokenData == [k \in Keys |-> IF k = TokenKey THEN 1 ELSE Absent]

(***************************************************************************)
(* Instances with their pods, backends and the volumes of their            *)
(* volumeMounts; whether there is a resource manager; how often objects    *)
(* change (a bound); and whether writes fail ("disk").                     *)
(*                                                                         *)
(* Standalone mode has no resource manager, and in cluster mode CreatePod  *)
(* panics before it looks at a volume (pod.go:83): the settings with one   *)
(* are about the two functions as they stand, not about runs of the agent. *)
(***************************************************************************)
SettingOK(s) ==
    /\ DOMAIN s = {"mountsOf", "podOf", "backendOf", "hasCluster", "maxUpdates", "faults"}
    /\ \A i \in DOMAIN s.mountsOf : /\ s.backendOf[i] \in {"osv", "containerd"}
                                   /\ i \in DOMAIN s.podOf
                                   /\ s.mountsOf[i] \in Seq(Volumes)
    /\ s.hasCluster \in BOOLEAN
    /\ s.maxUpdates \in 0 .. MaxUpdates
    /\ s.faults \subseteq {"disk"}

ASSUME VolumesAssumption ==
    /\ Volumes \subseteq [pod : {v.pod : v \in Volumes}, name : {v.name : v \in Volumes}]
    /\ Source \in [Volumes -> SourceType]
    /\ Accounts \subseteq Objects
    /\ MaxUpdates \in Nat
    /\ \A s \in Settings : SettingOK(s)

VARIABLES
    setting,       \* one of Settings, always the same
    objects,       \* cluster: the data of the objects that exist
    existing,      \* cluster: the objects that exist
    history,       \* history variable: what was ever in an object
    updates,
    dirs,          \* disk: directory -> its files
    stage,         \* instance -> how far its creation is
    looked,        \* instance -> its InstanceVolumes so far
    mounts         \* instance -> what its runtime was told to mount so far

vars == <<setting, objects, existing, history, updates, dirs, stage, looked, mounts>>

Instances  == DOMAIN setting.mountsOf
MountsOf   == setting.mountsOf
PodOf      == setting.podOf
BackendOf  == setting.backendOf
HasCluster == setting.hasCluster
Faults     == setting.faults

\* The directories that get files: volumes/<volume ID> of containerd,
\* volumes/<instance ID>_configmaps/<mountPath> of OSv (here by the index of
\* the mount: only a cluster has configMaps, and it refuses a container with
\* one mount path twice).
VolumeDirs    == {<<"volume", v>> : v \in Volumes}
ConfigMapDirs == UNION {{<<"configmaps", i, n>> : n \in DOMAIN MountsOf[i]} : i \in Instances}
Dirs          == VolumeDirs \cup ConfigMapDirs

\* What the runtime mounts: nothing, a directory of the host, files that are
\* nobody else's, or one of Dirs.
NoDir == <<"none">>
Mounts == [what : {"nothing", "host", "files", "dir"}, files : Files,
           dir : Dirs \cup {NoDir}]

Init ==
    /\ setting \in Settings
    /\ existing = Objects
    /\ objects = [o \in Objects |-> IF o \in Accounts THEN TokenData
                                    ELSE [k \in Keys |-> 1]]
    /\ history = [o \in Objects |-> {<<k, objects[o][k]>> : k \in Keys}]
    /\ updates = 0
    /\ dirs = [d \in Dirs |-> Empty]
    /\ stage = [i \in Instances |-> "none"]
    /\ looked = [i \in Instances |-> <<>>]
    /\ mounts = [i \in Instances |-> <<>>]
-----------------------------------------------------------------------------
(***************************************************************************)
(* The cluster.                                                            *)
(***************************************************************************)
UpdateObject(o) ==
    /\ updates < setting.maxUpdates
    /\ updates' = updates + 1
    /\ \E data \in [Keys -> {Absent, updates + 2}] :
          /\ o \notin Accounts
          /\ existing' = existing \cup {o}
          /\ objects' = [objects EXCEPT ![o] = data]
          /\ history' = [history EXCEPT ![o] = @ \cup {<<k, data[k]>> : k \in Keys}]
    /\ UNCHANGED <<setting, dirs, stage, looked, mounts>>

DeleteObject(o) ==
    /\ updates < setting.maxUpdates
    /\ updates' = updates + 1
    /\ existing' = existing \ {o}
    /\ UNCHANGED <<setting, objects, history, dirs, stage, looked, mounts>>
-----------------------------------------------------------------------------
(***************************************************************************)
(* newInstance.  CreatePod creates the instances of a pod one after the    *)
(* other.  When an instance is created again (a CreatePod that failed, an  *)
(* agent that was restarted: see Provider), the backend deletes what is    *)
(* left of the earlier one first.                                          *)
(***************************************************************************)
InProgress(i) == stage[i] \in {"volumes", "mounts"}

\* The creation ends; of one that failed nothing is kept but its files.
End(i, result) ==
    /\ stage' = [stage EXCEPT ![i] = result]
    /\ looked' = [looked EXCEPT ![i] = <<>>]
    /\ mounts' = [mounts EXCEPT ![i] = <<>>]

Goto(i, label) == stage' = [stage EXCEPT ![i] = label]

Begin(i) ==
    /\ \A j \in Instances : PodOf[j] = PodOf[i] => ~InProgress(j)
    /\ End(i, "volumes")
    /\ UNCHANGED <<setting, objects, existing, history, updates, dirs>>

NextLookup(i) == MountsOf[i][Len(looked[i]) + 1]

\* An object is asked for that does not exist and that is not optional; for
\* a service account it does not matter what is optional.
Refused(v) ==
    \E n \in DOMAIN Source[v].objects :
        LET o == Source[v].objects[n]
        IN  o \notin existing /\ (Source[v].optional = "false" \/ o \in Accounts)

\* Fault: an object that does not exist is taken for one that is cut off.
FetchedMissing(v) == [n \in DOMAIN Source[v].objects |->
                         LET o == Source[v].objects[n]
                         IN  IF o \in existing THEN objects[o]
                             ELSE [k \in Keys |-> Truncated]]

\* The data of the objects of a volume, nothing for one that does not exist.
Fetched(v) == [n \in DOMAIN Source[v].objects |->
                  LET o == Source[v].objects[n]
                  IN  IF o \in existing THEN objects[o] ELSE Empty]

\* The backends see a secret or a configMap only if the object was found.
Found(v) == Source[v].kind \in {"secret", "configMap"} =>
                \A n \in DOMAIN Source[v].objects : Source[v].objects[n] \in existing

NeedsCluster(v) == Source[v].kind \in {"secret", "configMap", "projected"}

newInstanceVolume(i) ==
    /\ stage[i] = "volumes"
    /\ Len(looked[i]) < Len(MountsOf[i])
    /\ LET v == NextLookup(i)
       IN  IF NeedsCluster(v) /\ ~HasCluster
           THEN End(i, "panicked")
           ELSE IF Source[v].kind = "other" \/ (NeedsCluster(v) /\ Refused(v))
           THEN End(i, "failed")
           ELSE /\ looked' = [looked EXCEPT ![i] =
                                 Append(@, [found |-> Found(v), data |-> Fetched(v)])]
                /\ UNCHANGED <<stage, mounts>>
    /\ UNCHANGED <<setting, objects, existing, history, updates, dirs>>

VolumesDone(i) ==
    /\ stage[i] = "volumes"
    /\ Len(looked[i]) = Len(MountsOf[i])
    /\ Goto(i, "mounts")
    /\ UNCHANGED <<setting, objects, existing, history, updates, dirs, looked, mounts>>
-----------------------------------------------------------------------------
(***************************************************************************)
(* The backends, one volumeMount at a time.                                *)
(***************************************************************************)
\* A later source of a projected volume overwrites the files of an earlier.
Last(data, k, n) == data[n][k] # Absent /\ \A m \in DOMAIN data : m > n => data[m][k] = Absent
Merged(data) ==
    [k \in Keys |-> IF \E n \in DOMAIN data : Last(data, k, n)
                    THEN data[CHOOSE n \in DOMAIN data : Last(data, k, n)][k]
                    ELSE Absent]

\* Fault: a directory is emptied first.
WriteFilesOnly(files, data) == Merged(data)

\* Fault: a file that exists is left as it is.
WriteFilesOnce(files, data) ==
    [k \in Keys |-> IF files[k] = Absent THEN Merged(data)[k] ELSE files[k]]

\* Files are written over; what else is in the directory stays.
WriteFiles(files, data) ==
    [k \in Keys |-> IF Merged(data)[k] # Absent THEN Merged(data)[k] ELSE files[k]]

\* A write fails: some files were written, the one it failed on is cut off.
WriteFilesFail(files, data) ==
    {written \in Files : \A k \in Keys :
        \/ written[k] = files[k]
        \/ Merged(data)[k] # Absent /\ written[k] \in {Merged(data)[k], Truncated}}

\* Fault: the directory of a volume is named without its pod.
VolumeDirByName(v) == <<"volume", CHOOSE w \in Volumes : w.name = v.name>>

VolumeDir(v) == <<"volume", v>>

\* The mounts of the two backends, and the directory they fill.
Index(i)      == Len(mounts[i]) + 1
NextMount(i)  == MountsOf[i][Index(i)]
NextSource(i) == Source[NextMount(i)]
NextData(i)   == looked[i][Index(i)].data

Mount(i, what, files, dir) ==
    mounts' = [mounts EXCEPT ![i] =
        Append(@, [what |-> what, files |-> files, dir |-> dir])]

HostTypes(i) == {"DirectoryOrCreate", "Directory"} \cup
                (IF BackendOf[i] = "osv" THEN {} ELSE {""})

\* What neither case of the backend's switch takes: the default is an error.
Unsupported(i) ==
    \/ ~looked[i][Index(i)].found
    \/ NextSource(i).kind = "emptyDir" /\ BackendOf[i] = "osv"
    \/ NextSource(i).kind = "hostPath" /\ NextSource(i).type \notin HostTypes(i) \cup {"nil"}

\* Cases with no statements (TODO in the code).
Ignored(i) ==
    \/ NextSource(i).kind \in {"emptyDir", "secret", "nfs"}
    \/ NextSource(i).kind = "projected" /\ BackendOf[i] = "osv"

mounting(i) == stage[i] = "mounts" /\ Len(mounts[i]) < Len(MountsOf[i])

MountFails(i) ==
    /\ mounting(i)
    /\ \/ Unsupported(i) /\ End(i, "failed")
       \/ NextSource(i).kind = "hostPath" /\ NextSource(i).type = "nil" /\ End(i, "panicked")
       \/ NextSource(i).kind = "hostPath" /\ NextSource(i).type = "DirectoryOrCreate"
          /\ "disk" \in Faults /\ End(i, "failed")
    /\ UNCHANGED <<setting, objects, existing, history, updates, dirs>>

MountIgnored(i) ==
    /\ mounting(i) /\ ~Unsupported(i) /\ Ignored(i)
    /\ Mount(i, "nothing", Empty, NoDir)
    /\ UNCHANGED <<setting, objects, existing, history, updates, dirs, stage, looked>>

MountHostPath(i) ==
    /\ mounting(i)
    /\ NextSource(i).kind = "hostPath" /\ NextSource(i).type \in HostTypes(i)
    /\ Mount(i, "host", Empty, NoDir)
    /\ UNCHANGED <<setting, objects, existing, history, updates, dirs, stage, looked>>

\* Fault: the volume's directory instead of a temporary one.
MountTempFilesInDir(i) ==
    /\ mounting(i) /\ ~Unsupported(i)
    /\ NextSource(i).kind = "configMap" /\ BackendOf[i] = "containerd"
    /\ LET d == VolumeDir(NextMount(i))
       IN  /\ dirs' = [dirs EXCEPT ![d] = WriteFiles(@, NextData(i))]
           /\ Mount(i, "dir", Empty, d)
    /\ UNCHANGED <<setting, objects, existing, history, updates, stage, looked>>

\* configMap of containerd: each file in a new temporary directory.
MountTempFiles(i) ==
    /\ mounting(i) /\ ~Unsupported(i)
    /\ NextSource(i).kind = "configMap" /\ BackendOf[i] = "containerd"
    /\ \/ Mount(i, "files", WriteFiles(Empty, NextData(i)), NoDir)
          /\ UNCHANGED <<stage, looked>>
       \/ "disk" \in Faults /\ End(i, "failed")
    /\ UNCHANGED <<setting, objects, existing, history, updates, dirs>>

\* configMap of OSv: a directory of the instance, shared as a virtio-fs device.
\* projected of containerd: the directory of the volume.
FilledDir(i) ==
    CASE NextSource(i).kind = "configMap" /\ BackendOf[i] = "osv" ->
            <<"configmaps", i, Index(i)>>
      [] NextSource(i).kind = "projected" /\ BackendOf[i] = "containerd" ->
            VolumeDir(NextMount(i))
      [] OTHER -> NoDir

MountDir(i) ==
    /\ mounting(i) /\ ~Unsupported(i)
    /\ FilledDir(i) # NoDir
    /\ \/ /\ dirs' = [dirs EXCEPT ![FilledDir(i)] = WriteFiles(@, NextData(i))]
          /\ Mount(i, "dir", Empty, FilledDir(i))
          /\ UNCHANGED <<stage, looked>>
       \/ /\ "disk" \in Faults
          /\ \E files \in WriteFilesFail(dirs[FilledDir(i)], NextData(i)) :
                dirs' = [dirs EXCEPT ![FilledDir(i)] = files]
          /\ End(i, "failed")
    /\ UNCHANGED <<setting, objects, existing, history, updates>>

MountsDone(i) ==
    /\ stage[i] = "mounts"
    /\ Len(mounts[i]) = Len(MountsOf[i])
    /\ Goto(i, "created")
    /\ UNCHANGED <<setting, objects, existing, history, updates, dirs, looked, mounts>>

\* No backend removes the files of a volume.
DeleteInstance(i) ==
    /\ stage[i] = "created"
    /\ End(i, "none")
    /\ UNCHANGED <<setting, objects, existing, history, updates, dirs>>

Create(i) == \/ Begin(i) \/ newInstanceVolume(i) \/ VolumesDone(i)
             \/ MountFails(i) \/ MountIgnored(i) \/ MountHostPath(i)
             \/ MountTempFiles(i) \/ MountDir(i) \/ MountsDone(i)

Next == \/ \E o \in Objects : UpdateObject(o) \/ DeleteObject(o)
        \/ \E i \in Instances : Create(i) \/ DeleteInstance(i)

Spec == Init /\ [][Next]_vars
-----------------------------------------------------------------------------
(***************************************************************************)
(* Properties.                                                             *)
(***************************************************************************)
Lookups == [found : BOOLEAN, data : Seq(Content)]

TypeOK ==
    /\ setting \in Settings
    /\ objects \in [Objects -> Content] /\ existing \subseteq Objects
    /\ history \in [Objects -> SUBSET (Keys \X ({Absent} \cup Versions))]
    /\ updates \in 0 .. setting.maxUpdates
    /\ dirs \in [Dirs -> Files]
    /\ stage \in [Instances -> {"none", "volumes", "mounts", "created", "failed",
                                "panicked"}]
    /\ looked \in [Instances -> Seq(Lookups)] /\ mounts \in [Instances -> Seq(Mounts)]
    /\ \A i \in Instances : Len(looked[i]) <= Len(MountsOf[i])
                            /\ Len(mounts[i]) <= Len(MountsOf[i])

\* What a workload sees of a mount.
View(mount) == IF mount.what = "dir" THEN dirs[mount.dir] ELSE mount.files

Created == {i \in Instances : stage[i] = "created"}

(***************************************************************************)
(* A mount shows only data of the volume's own objects, of now or of an    *)
(* earlier time, whatever else was created, failed or deleted meanwhile    *)
(* (a file that a failed creation cut off shows nothing at all): the       *)
(* directories of two volumes never meet.                                  *)
(***************************************************************************)
Own(v, files) ==
    \A k \in Keys : files[k] \notin {Absent, Truncated} =>
        \E n \in DOMAIN Source[v].objects : <<k, files[k]>> \in history[Source[v].objects[n]]

MountsOnlyOwn ==
    \A i \in Instances : \A n \in DOMAIN mounts[i] :
        Own(MountsOf[i][n], View(mounts[i][n]))

(***************************************************************************)
(* An instance that was created has each file that its volumes had when    *)
(* they were looked up, and keeps them; if no other mount has the same     *)
(* directory, with the data of that time, even if an earlier creation      *)
(* failed half-way.                                                        *)
(***************************************************************************)
Unshared(i, n) ==
    \A j \in Instances : \A m \in DOMAIN MountsOf[j] :
        MountsOf[j][m] = MountsOf[i][n] => j = i /\ m = n

MountsComplete ==
    \A i \in Created : \A n \in DOMAIN mounts[i] :
        LET view == View(mounts[i][n])
            want == Merged(looked[i][n].data)
        IN  mounts[i][n].what \in {"files", "dir"} =>
                \A k \in Keys : want[k] # Absent =>
                    /\ view[k] # Absent
                    /\ Unshared(i, n) => view[k] = want[k]

(***************************************************************************)
(* A configMap in a container is exactly the object that was looked up for *)
(* it, no file more, for as long as the container exists.                  *)
(***************************************************************************)
ConfigMapExact ==
    \A i \in Created : \A n \in DOMAIN mounts[i] :
        BackendOf[i] = "containerd" /\ Source[MountsOf[i][n]].kind = "configMap" =>
            View(mounts[i][n]) = Merged(looked[i][n].data)
=============================================================================
