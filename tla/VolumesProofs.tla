---------------------------- MODULE VolumesProofs ----------------------------
(***************************************************************************)
(* Theorems about Volumes, for all pods, volumes, objects and keys.        *)
(***************************************************************************)
EXTENDS Volumes, SequenceTheorems, TLAPS

-----------------------------------------------------------------------------
(***************************************************************************)
(* The constants, and what stays when the setting does.                    *)
(***************************************************************************)
Results == {"none", "volumes", "mounts", "created", "failed", "panicked"}

LEMMA SettingFacts ==
    ASSUME TypeOK
    PROVE  /\ \A i \in Instances : /\ MountsOf[i] \in Seq(Volumes)
                                   /\ BackendOf[i] \in {"osv", "containerd"}
           /\ MaxUpdates \in Nat /\ setting.maxUpdates \in 0 .. MaxUpdates
BY VolumesAssumption DEF TypeOK, SettingOK, Instances, MountsOf, BackendOf

LEMMA SettingStays ==
    ASSUME UNCHANGED setting
    PROVE  /\ Instances' = Instances /\ MountsOf' = MountsOf /\ PodOf' = PodOf
           /\ BackendOf' = BackendOf /\ HasCluster' = HasCluster /\ Faults' = Faults
           /\ VolumeDirs' = VolumeDirs /\ ConfigMapDirs' = ConfigMapDirs
           /\ Dirs' = Dirs /\ Mounts' = Mounts
BY DEF Instances, MountsOf, PodOf, BackendOf, HasCluster, Faults, VolumeDirs,
       ConfigMapDirs, Dirs, Mounts

LEMMA SourceFacts ==
    ASSUME NEW v \in Volumes
    PROVE  /\ Source[v] \in SourceType
           /\ DOMAIN Source[v].objects = 1 .. Len(Source[v].objects)
           /\ Len(Source[v].objects) \in Nat
           /\ \A n \in DOMAIN Source[v].objects : Source[v].objects[n] \in Objects
<1>1. Source[v] \in SourceType
  BY VolumesAssumption
<1>2. Source[v].objects \in Seq(Objects)
  BY <1>1 DEF SourceType
<1>3. QED
  BY <1>1, <1>2

LEMMA ContentFacts ==
    /\ Absent \in Nat /\ Absent \notin Versions
    /\ Truncated # Absent /\ Truncated \notin Versions /\ Truncated \in Nat
    /\ Empty \in Content /\ Empty \in Files /\ Content \subseteq Files
    /\ TokenData \in Content
    /\ \A k \in Keys : Empty[k] = Absent
BY VolumesAssumption DEF Absent, Versions, Truncated, Empty, Content, Files, TokenData

LEMMA MountFacts ==
    ASSUME TypeOK, NEW i \in Instances, NEW n \in DOMAIN MountsOf[i]
    PROVE  /\ MountsOf[i][n] \in Volumes
           /\ DOMAIN MountsOf[i] = 1 .. Len(MountsOf[i])
           /\ VolumeDir(MountsOf[i][n]) \in Dirs
           /\ <<"configmaps", i, n>> \in Dirs
<1>1. MountsOf[i] \in Seq(Volumes)
  BY SettingFacts
<1>2. MountsOf[i][n] \in Volumes
  BY <1>1
<1>3. VolumeDir(MountsOf[i][n]) \in Dirs
  BY <1>2 DEF VolumeDir, Dirs, VolumeDirs
<1>4. <<"configmaps", i, n>> \in Dirs
  BY DEF Dirs, ConfigMapDirs
<1>5. QED
  BY <1>1, <1>2, <1>3, <1>4

(***************************************************************************)
(* The files of a volume: what is merged is some source's, what is written *)
(* is merged or was there before, and nothing that is there goes.          *)
(***************************************************************************)
LEMMA MergedFacts ==
    ASSUME NEW data \in Seq(Content)
    PROVE  /\ Merged(data) \in Content
           /\ \A k \in Keys : Merged(data)[k] # Absent =>
                  \E n \in DOMAIN data : Merged(data)[k] = data[n][k]
<1>1. \A n \in DOMAIN data : data[n] \in Content
  OBVIOUS
<1>2. ASSUME NEW k \in Keys
      PROVE  /\ Merged(data)[k] \in {Absent} \cup Versions
             /\ Merged(data)[k] # Absent => \E n \in DOMAIN data : Merged(data)[k] = data[n][k]
  <2>1. CASE \E n \in DOMAIN data : Last(data, k, n)
    <3>1. PICK n \in DOMAIN data : n = CHOOSE m \in DOMAIN data : Last(data, k, m)
      BY <2>1
    <3>2. Merged(data)[k] = data[n][k]
      BY <2>1, <3>1 DEF Merged
    <3>3. QED
      BY <1>1, <3>2 DEF Content
  <2>2. CASE ~ \E n \in DOMAIN data : Last(data, k, n)
    BY <2>2 DEF Merged
  <2>3. QED
    BY <2>1, <2>2
<1>3. QED
  BY <1>2 DEF Merged, Content

LEMMA WriteFacts ==
    ASSUME NEW data \in Seq(Content), NEW files \in Files
    PROVE  /\ WriteFiles(files, data) \in Files
           /\ \A k \in Keys : WriteFiles(files, data)[k] =
                  IF Merged(data)[k] # Absent THEN Merged(data)[k] ELSE files[k]
BY MergedFacts, ContentFacts DEF WriteFiles, Files, Content

LEMMA WriteFailFacts ==
    ASSUME NEW data \in Seq(Content), NEW files \in Files,
           NEW written \in WriteFilesFail(files, data)
    PROVE  /\ written \in Files
           /\ \A k \in Keys : written[k] \in {files[k], Truncated, WriteFiles(files, data)[k]}
           /\ \A k \in Keys : files[k] # Absent => written[k] # Absent
BY WriteFacts, ContentFacts DEF WriteFilesFail
-----------------------------------------------------------------------------
(***************************************************************************)
(* Types.  Mounts are made when every volume has been looked up.           *)
(***************************************************************************)
Staged ==
    \A i \in Instances :
        /\ stage[i] \in {"mounts", "created"} => Len(looked[i]) = Len(MountsOf[i])
        /\ mounts[i] # <<>> => stage[i] \in {"mounts", "created"}

TypeInv == TypeOK /\ Staged

\* What is next of an instance that is being mounted.
LEMMA NextFacts ==
    ASSUME TypeInv, NEW i \in Instances, mounting(i)
    PROVE  /\ Index(i) \in DOMAIN MountsOf[i] /\ Index(i) \in DOMAIN looked[i]
           /\ Index(i) = Len(mounts[i]) + 1 /\ Index(i) \in Nat /\ Index(i) > 0
           /\ NextMount(i) = MountsOf[i][Index(i)]
           /\ NextMount(i) \in Volumes
           /\ NextSource(i) \in SourceType
           /\ NextData(i) \in Seq(Content)
           /\ FilledDir(i) \in Dirs \cup {NoDir}
           /\ FilledDir(i) # NoDir => FilledDir(i) \in Dirs
<1>1. /\ MountsOf[i] \in Seq(Volumes) /\ mounts[i] \in Seq(Mounts)
      /\ looked[i] \in Seq(Lookups)
  BY SettingFacts DEF TypeInv, TypeOK
<1>2. /\ Index(i) \in DOMAIN MountsOf[i] /\ Index(i) \in DOMAIN looked[i]
      /\ Index(i) = Len(mounts[i]) + 1 /\ Index(i) \in Nat /\ Index(i) > 0
  BY <1>1 DEF TypeInv, Staged, mounting, Index
<1>3. NextMount(i) \in Volumes
  BY <1>2, MountFacts DEF NextMount, TypeInv
<1>4. NextSource(i) \in SourceType
  BY <1>3, SourceFacts DEF NextSource
<1>5. NextData(i) \in Seq(Content)
  <2>1. looked[i][Index(i)] \in Lookups
    BY <1>1, <1>2
  <2>2. QED
    BY <2>1 DEF NextData, Lookups
<1>6. FilledDir(i) \in Dirs \cup {NoDir}
  BY <1>2, MountFacts DEF FilledDir, NextMount, TypeInv
<1>7. QED
  BY <1>2, <1>3, <1>4, <1>5, <1>6 DEF NextMount

LEMMA FetchedTyped ==
    ASSUME TypeOK, NEW v \in Volumes
    PROVE  /\ Fetched(v) \in Seq(Content)
           /\ DOMAIN Fetched(v) = DOMAIN Source[v].objects
           /\ Found(v) \in BOOLEAN
<1>1. ASSUME NEW n \in DOMAIN Source[v].objects PROVE Fetched(v)[n] \in Content
  <2>1. Source[v].objects[n] \in Objects
    BY SourceFacts
  <2>2. objects[Source[v].objects[n]] \in Content
    BY <2>1 DEF TypeOK
  <2>3. QED
    BY <2>2, ContentFacts DEF Fetched
<1>2. Fetched(v) \in [1 .. Len(Source[v].objects) -> Content]
  BY <1>1, SourceFacts DEF Fetched
<1>3. QED
  BY <1>2, SourceFacts DEF Found

LEMMA EmptySequences == <<>> \in Seq(Lookups) /\ <<>> \in Seq(Mounts) /\ Len(<<>>) = 0
OBVIOUS

LEMMA InitTyped == Init => TypeInv
<1> SUFFICES ASSUME Init PROVE TypeInv
  OBVIOUS
<1>1. setting \in Settings /\ setting.maxUpdates \in Nat
  BY VolumesAssumption DEF Init, SettingOK
<1>2. \A i \in Instances : MountsOf[i] \in Seq(Volumes)
  BY <1>1, VolumesAssumption DEF SettingOK, Instances, MountsOf
<1>3. 1 \in Versions
  BY VolumesAssumption DEF Versions
<1>4. [k \in Keys |-> 1] \in Content
  BY <1>3 DEF Content
<1>5. ASSUME NEW o \in Objects PROVE objects[o] \in Content
  <2>1. objects[o] = IF o \in Accounts THEN TokenData ELSE [k \in Keys |-> 1]
    BY DEF Init
  <2>2. QED
    BY <1>4, <2>1, ContentFacts
<1>6. objects \in [Objects -> Content]
  BY <1>5 DEF Init
<1>7. ASSUME NEW o \in Objects
      PROVE  history[o] \in SUBSET (Keys \X ({Absent} \cup Versions))
  <2>1. history[o] = {<<k, objects[o][k]>> : k \in Keys}
    BY DEF Init
  <2>2. \A k \in Keys : objects[o][k] \in {Absent} \cup Versions
    BY <1>5 DEF Content
  <2>3. QED
    BY <2>1, <2>2
<1>8. history \in [Objects -> SUBSET (Keys \X ({Absent} \cup Versions))]
  BY <1>7 DEF Init
<1>9. dirs \in [Dirs -> Files]
  BY ContentFacts DEF Init
<1>10. /\ looked \in [Instances -> Seq(Lookups)] /\ mounts \in [Instances -> Seq(Mounts)]
       /\ \A i \in Instances : Len(looked[i]) <= Len(MountsOf[i])
                               /\ Len(mounts[i]) <= Len(MountsOf[i])
  BY <1>2, EmptySequences DEF Init
<1>11. TypeOK
  BY <1>1, <1>6, <1>8, <1>9, <1>10 DEF Init, TypeOK
<1>12. Staged
  BY DEF Init, Staged
<1>13. QED
  BY <1>11, <1>12 DEF TypeInv

\* What a creation that ends, or begins again, does to the instances.
LEMMA EndFacts ==
    ASSUME TypeInv, NEW i \in Instances, NEW r \in Results, End(i, r)
    PROVE  /\ stage' \in [Instances -> Results]
           /\ looked' \in [Instances -> Seq(Lookups)]
           /\ mounts' \in [Instances -> Seq(Mounts)]
           /\ looked'[i] = <<>> /\ mounts'[i] = <<>> /\ stage'[i] = r
           /\ \A j \in Instances \ {i} : /\ looked'[j] = looked[j]
                                         /\ mounts'[j] = mounts[j]
                                         /\ stage'[j] = stage[j]
<1>1. /\ stage \in [Instances -> Results] /\ looked \in [Instances -> Seq(Lookups)]
      /\ mounts \in [Instances -> Seq(Mounts)]
  BY DEF TypeInv, TypeOK, Results
<1>2. /\ stage' = [stage EXCEPT ![i] = r]
      /\ looked' = [looked EXCEPT ![i] = <<>>]
      /\ mounts' = [mounts EXCEPT ![i] = <<>>]
  BY DEF End
<1>3. /\ looked' \in [Instances -> Seq(Lookups)]
      /\ mounts' \in [Instances -> Seq(Mounts)]
  BY <1>1, <1>2, EmptySequences
<1>4. QED
  BY <1>1, <1>2, <1>3

LEMMA EndTyped ==
    ASSUME TypeInv, NEW i \in Instances, NEW r \in Results \ {"mounts", "created"},
           End(i, r), dirs' \in [Dirs -> Files],
           UNCHANGED <<setting, objects, existing, history, updates>>
    PROVE  TypeInv'
<1>1. \A j \in Instances : MountsOf[j] \in Seq(Volumes)
  BY SettingFacts DEF TypeInv
<1>2. ASSUME NEW j \in Instances
      PROVE  Len(looked'[j]) <= Len(MountsOf[j]) /\ Len(mounts'[j]) <= Len(MountsOf[j])
  <2>1. CASE j = i
    <3>1. looked'[j] = <<>> /\ mounts'[j] = <<>>
      BY <2>1, EndFacts
    <3>2. QED
      BY <1>1, <3>1, EmptySequences
  <2>2. CASE j # i
    <3>1. looked'[j] = looked[j] /\ mounts'[j] = mounts[j]
      BY <2>2, EndFacts
    <3>2. QED
      BY <3>1 DEF TypeInv, TypeOK
  <2>3. QED
    BY <2>1, <2>2
<1>3. Staged'
  BY EndFacts, SettingStays DEF TypeInv, Staged
<1>4. TypeOK'
  BY <1>2, EndFacts, SettingStays DEF TypeInv, TypeOK, Results
<1>5. QED
  BY <1>3, <1>4 DEF TypeInv

\* One more volume is looked up.
LEMMA LookFacts ==
    ASSUME TypeInv, NEW i \in Instances, stage[i] = "volumes",
           Len(looked[i]) < Len(MountsOf[i]),
           looked' = [looked EXCEPT ![i] = Append(@, [found |-> Found(NextLookup(i)),
                                                      data |-> Fetched(NextLookup(i))])]
    PROVE  /\ NextLookup(i) \in Volumes
           /\ Len(looked[i]) + 1 \in DOMAIN MountsOf[i]
           /\ NextLookup(i) = MountsOf[i][Len(looked[i]) + 1]
           /\ looked' \in [Instances -> Seq(Lookups)]
           /\ Len(looked[i]) \in Nat /\ Len(looked'[i]) = Len(looked[i]) + 1
           /\ DOMAIN looked'[i] = 1 .. Len(looked[i]) + 1
           /\ \A n \in 1 .. Len(looked[i]) : looked'[i][n] = looked[i][n]
           /\ looked'[i][Len(looked[i]) + 1] = [found |-> Found(NextLookup(i)),
                                                data |-> Fetched(NextLookup(i))]
           /\ \A j \in Instances \ {i} : looked'[j] = looked[j]
<1> DEFINE elt == [found |-> Found(NextLookup(i)), data |-> Fetched(NextLookup(i))]
<1>1. /\ looked \in [Instances -> Seq(Lookups)] /\ looked[i] \in Seq(Lookups)
      /\ MountsOf[i] \in Seq(Volumes)
  BY SettingFacts DEF TypeInv, TypeOK
<1>2. Len(looked[i]) + 1 \in DOMAIN MountsOf[i]
  BY <1>1
<1>3. NextLookup(i) \in Volumes
  BY <1>2, MountFacts DEF NextLookup, TypeInv
<1>4. elt \in Lookups
  BY <1>3, FetchedTyped DEF Lookups, TypeInv
<1>5. looked' = [looked EXCEPT ![i] = Append(looked[i], elt)]
  OBVIOUS
<1> HIDE DEF elt
<1>6. /\ Append(looked[i], elt) \in Seq(Lookups)
      /\ Len(Append(looked[i], elt)) = Len(looked[i]) + 1
      /\ \A n \in 1 .. Len(looked[i]) : Append(looked[i], elt)[n] = looked[i][n]
      /\ Append(looked[i], elt)[Len(looked[i]) + 1] = elt
  BY <1>1, <1>4, AppendProperties
<1>7. looked'[i] = Append(looked[i], elt)
  BY <1>1, <1>5
<1>8. looked' \in [Instances -> Seq(Lookups)]
  BY <1>1, <1>5, <1>6
<1>9. /\ Len(looked[i]) \in Nat
      /\ DOMAIN looked'[i] = 1 .. Len(looked[i]) + 1
  BY <1>1, <1>6, <1>7
<1>10. QED
  BY <1>1, <1>2, <1>3, <1>5, <1>6, <1>7, <1>8, <1>9 DEF NextLookup, elt

\* One more volume is mounted.
LEMMA MountAppended ==
    ASSUME TypeInv, NEW i \in Instances, mounting(i), NEW elt \in Mounts,
           mounts' = [mounts EXCEPT ![i] = Append(@, elt)]
    PROVE  /\ mounts' \in [Instances -> Seq(Mounts)]
           /\ Len(mounts'[i]) = Index(i) /\ mounts'[i] # <<>>
           /\ DOMAIN mounts'[i] = 1 .. Index(i)
           /\ DOMAIN mounts[i] = 1 .. Index(i) - 1
           /\ \A n \in DOMAIN mounts[i] : mounts'[i][n] = mounts[i][n]
           /\ mounts'[i][Index(i)] = elt
           /\ \A j \in Instances \ {i} : mounts'[j] = mounts[j]
<1>1. mounts \in [Instances -> Seq(Mounts)] /\ mounts[i] \in Seq(Mounts)
  BY DEF TypeInv, TypeOK
<1>2. Index(i) = Len(mounts[i]) + 1
  BY NextFacts
<1>3. mounts' = [mounts EXCEPT ![i] = Append(mounts[i], elt)]
  BY <1>1
<1>4. /\ Append(mounts[i], elt) \in Seq(Mounts)
      /\ Append(mounts[i], elt) # <<>>
      /\ Len(Append(mounts[i], elt)) = Len(mounts[i]) + 1
      /\ \A n \in 1 .. Len(mounts[i]) : Append(mounts[i], elt)[n] = mounts[i][n]
      /\ Append(mounts[i], elt)[Len(mounts[i]) + 1] = elt
  BY <1>1, AppendProperties
<1>5. mounts'[i] = Append(mounts[i], elt)
  BY <1>1, <1>3
<1>6. mounts' \in [Instances -> Seq(Mounts)]
  BY <1>1, <1>3, <1>4
<1>7. /\ DOMAIN mounts'[i] = 1 .. Index(i) /\ DOMAIN mounts[i] = 1 .. Index(i) - 1
      /\ DOMAIN mounts[i] = 1 .. Len(mounts[i])
  <2>1. DOMAIN mounts[i] = 1 .. Len(mounts[i]) /\ Len(mounts[i]) \in Nat
    BY <1>1
  <2>2. DOMAIN mounts'[i] = 1 .. Len(mounts'[i])
    BY <1>4, <1>5
  <2>3. QED
    BY <1>2, <1>4, <1>5, <2>1, <2>2
<1>8. QED
  BY <1>1, <1>2, <1>3, <1>4, <1>5, <1>6, <1>7

LEMMA MountStepFacts ==
    ASSUME TypeInv, NEW i \in Instances, mounting(i),
           NEW what \in {"nothing", "host", "files", "dir"}, NEW files \in Files,
           NEW dir \in Dirs \cup {NoDir},
           Mount(i, what, files, dir)
    PROVE  /\ mounts' \in [Instances -> Seq(Mounts)]
           /\ Len(mounts'[i]) = Index(i) /\ mounts'[i] # <<>>
           /\ DOMAIN mounts'[i] = 1 .. Index(i)
           /\ DOMAIN mounts[i] = 1 .. Index(i) - 1
           /\ \A n \in DOMAIN mounts[i] : mounts'[i][n] = mounts[i][n]
           /\ mounts'[i][Index(i)] =
                  [what |-> what, files |-> files, dir |-> dir]
           /\ \A j \in Instances \ {i} : mounts'[j] = mounts[j]
<1> DEFINE elt == [what |-> what, files |-> files, dir |-> dir]
<1>1. elt \in Mounts
  BY NextFacts DEF Mounts
<1>2. mounts' = [mounts EXCEPT ![i] = Append(@, elt)]
  BY DEF Mount
<1> HIDE DEF elt
<1>3. /\ mounts' \in [Instances -> Seq(Mounts)]
      /\ Len(mounts'[i]) = Index(i) /\ mounts'[i] # <<>>
      /\ DOMAIN mounts'[i] = 1 .. Index(i)
      /\ DOMAIN mounts[i] = 1 .. Index(i) - 1
      /\ \A n \in DOMAIN mounts[i] : mounts'[i][n] = mounts[i][n]
      /\ mounts'[i][Index(i)] = elt
      /\ \A j \in Instances \ {i} : mounts'[j] = mounts[j]
  BY <1>1, <1>2, MountAppended
<1>4. QED
  BY <1>3 DEF elt

LEMMA MountTyped ==
    ASSUME TypeInv, NEW i \in Instances, mounting(i),
           NEW what \in {"nothing", "host", "files", "dir"}, NEW files \in Files,
           NEW dir \in Dirs \cup {NoDir},
           Mount(i, what, files, dir), dirs' \in [Dirs -> Files],
           UNCHANGED <<setting, objects, existing, history, updates, stage, looked>>
    PROVE  TypeInv'
<1>1. MountsOf[i] \in Seq(Volumes)
  BY SettingFacts DEF TypeInv
<1>2. /\ mounts' \in [Instances -> Seq(Mounts)]
      /\ Len(mounts'[i]) = Index(i) /\ mounts'[i] # <<>>
      /\ \A j \in Instances \ {i} : mounts'[j] = mounts[j]
  BY MountStepFacts
<1>3. Index(i) <= Len(MountsOf[i])
  <2>1. Index(i) \in DOMAIN MountsOf[i]
    BY NextFacts
  <2>2. QED
    BY <1>1, <2>1
<1>4. \A j \in Instances : Len(mounts'[j]) <= Len(MountsOf[j])
  BY <1>2, <1>3 DEF TypeInv, TypeOK
<1>5. Staged'
  BY <1>2, SettingStays DEF TypeInv, Staged, mounting
<1>6. TypeOK'
  BY <1>2, <1>4, SettingStays DEF TypeInv, TypeOK
<1>7. QED
  BY <1>5, <1>6 DEF TypeInv

\* The cluster's steps.
LEMMA ObjectTyped ==
    ASSUME TypeInv, NEW o \in Objects, UpdateObject(o) \/ DeleteObject(o)
    PROVE  TypeInv'
<1>1. /\ UNCHANGED <<setting, dirs, stage, looked, mounts>>
      /\ updates' = updates + 1 /\ updates < setting.maxUpdates
      /\ existing' \subseteq Objects
  BY DEF UpdateObject, DeleteObject, TypeInv, TypeOK
<1>2. updates \in 0 .. setting.maxUpdates /\ setting.maxUpdates \in 0 .. MaxUpdates
  BY SettingFacts DEF TypeInv, TypeOK
<1>3. updates' \in 0 .. setting.maxUpdates /\ updates + 2 \in Versions
  BY <1>1, <1>2, SettingFacts DEF Versions, TypeInv
<1>4. /\ objects' \in [Objects -> Content]
      /\ history' \in [Objects -> SUBSET (Keys \X ({Absent} \cup Versions))]
  <2>1. CASE UpdateObject(o)
    <3>1. PICK data \in [Keys -> {Absent, updates + 2}] :
            /\ objects' = [objects EXCEPT ![o] = data]
            /\ history' = [history EXCEPT ![o] = @ \cup {<<k, data[k]>> : k \in Keys}]
      BY <2>1 DEF UpdateObject
    <3>2. data \in Content
      BY <1>3 DEF Content
    <3>3. {<<k, data[k]>> : k \in Keys} \in SUBSET (Keys \X ({Absent} \cup Versions))
      BY <3>2 DEF Content
    <3>4. objects' \in [Objects -> Content]
      BY <3>1, <3>2 DEF TypeInv, TypeOK
    <3>5. history' \in [Objects -> SUBSET (Keys \X ({Absent} \cup Versions))]
      BY <3>1, <3>3 DEF TypeInv, TypeOK
    <3>6. QED
      BY <3>4, <3>5
  <2>2. CASE DeleteObject(o)
    BY <2>2 DEF DeleteObject, TypeInv, TypeOK
  <2>3. QED
    BY <2>1, <2>2
<1>5. TypeOK'
  BY <1>1, <1>3, <1>4, SettingStays DEF TypeInv, TypeOK
<1>6. Staged'
  BY <1>1, SettingStays DEF TypeInv, Staged
<1>7. QED
  BY <1>5, <1>6 DEF TypeInv

LEMMA newInstanceVolumeTyped ==
    ASSUME TypeInv, NEW i \in Instances, newInstanceVolume(i) PROVE TypeInv'
<1>1. /\ UNCHANGED <<setting, objects, existing, history, updates, dirs>>
      /\ stage[i] = "volumes" /\ Len(looked[i]) < Len(MountsOf[i])
  BY DEF newInstanceVolume
<1>2. dirs' \in [Dirs -> Files]
  BY <1>1 DEF TypeInv, TypeOK
<1>3. CASE End(i, "panicked") \/ End(i, "failed")
  BY <1>1, <1>2, <1>3, EndTyped DEF Results
<1>4. CASE /\ looked' = [looked EXCEPT ![i] =
                            Append(@, [found |-> Found(NextLookup(i)),
                                       data |-> Fetched(NextLookup(i))])]
           /\ UNCHANGED <<stage, mounts>>
  <2>1. /\ looked' \in [Instances -> Seq(Lookups)]
        /\ Len(looked[i]) \in Nat /\ Len(looked'[i]) = Len(looked[i]) + 1
        /\ \A j \in Instances \ {i} : looked'[j] = looked[j]
    BY <1>1, <1>4, LookFacts
  <2>2. Len(looked'[i]) <= Len(MountsOf[i])
    <3>1. Len(MountsOf[i]) \in Nat
      BY SettingFacts DEF TypeInv
    <3>2. QED
      BY <1>1, <2>1, <3>1
  <2>3. TypeOK'
    BY <1>1, <1>4, <2>1, <2>2, SettingStays DEF TypeInv, TypeOK
  <2>4. Staged'
    BY <1>1, <1>4, <2>1, SettingStays DEF TypeInv, Staged
  <2>5. QED
    BY <2>3, <2>4 DEF TypeInv
<1>5. QED
  BY <1>3, <1>4 DEF newInstanceVolume

LEMMA GotoTyped ==
    ASSUME TypeInv, NEW i \in Instances, VolumesDone(i) \/ MountsDone(i)
    PROVE  TypeInv'
<1>1. /\ UNCHANGED <<setting, objects, existing, history, updates, dirs, looked, mounts>>
      /\ stage' \in {[stage EXCEPT ![i] = "mounts"], [stage EXCEPT ![i] = "created"]}
      /\ Len(looked[i]) = Len(MountsOf[i])
  BY DEF VolumesDone, MountsDone, Goto, TypeInv, Staged
<1>2. TypeOK'
  BY <1>1, SettingStays DEF TypeInv, TypeOK
<1>3. Staged'
  BY <1>1, SettingStays DEF TypeInv, TypeOK, Staged
<1>4. QED
  BY <1>2, <1>3 DEF TypeInv

\* The directory that a mount fills is of the mount's volume.
LEMMA FilledFacts ==
    ASSUME TypeInv, NEW i \in Instances, mounting(i), FilledDir(i) # NoDir
    PROVE  /\ FilledDir(i) \in {VolumeDir(NextMount(i)), <<"configmaps", i, Index(i)>>}
           /\ NextSource(i).kind \in {"configMap", "projected"}
           /\ NextSource(i).kind = "configMap" => BackendOf[i] = "osv"
BY DEF FilledDir

LEMMA MountDirTyped ==
    ASSUME TypeInv, NEW i \in Instances, MountDir(i) PROVE TypeInv'
<1>1. /\ UNCHANGED <<setting, objects, existing, history, updates>>
      /\ mounting(i) /\ FilledDir(i) # NoDir
  BY DEF MountDir
<1>2. /\ FilledDir(i) \in Dirs /\ NextData(i) \in Seq(Content)
      /\ dirs \in [Dirs -> Files] /\ dirs[FilledDir(i)] \in Files
  BY <1>1, NextFacts DEF TypeInv, TypeOK
<1>3. CASE /\ dirs' = [dirs EXCEPT ![FilledDir(i)] = WriteFiles(@, NextData(i))]
           /\ Mount(i, "dir", Empty, FilledDir(i))
           /\ UNCHANGED <<stage, looked>>
  <2>1. WriteFiles(dirs[FilledDir(i)], NextData(i)) \in Files
    BY <1>2, WriteFacts
  <2>2. dirs' \in [Dirs -> Files]
    BY <1>2, <1>3, <2>1
  <2>3. Empty \in Files
    BY ContentFacts
  <2>4. QED
    BY <1>1, <1>2, <1>3, <2>2, <2>3, MountTyped
<1>4. CASE /\ \E files \in WriteFilesFail(dirs[FilledDir(i)], NextData(i)) :
                  dirs' = [dirs EXCEPT ![FilledDir(i)] = files]
           /\ End(i, "failed")
  <2>1. PICK files \in WriteFilesFail(dirs[FilledDir(i)], NextData(i)) :
              dirs' = [dirs EXCEPT ![FilledDir(i)] = files]
    BY <1>4
  <2>2. files \in Files
    BY <1>2, WriteFailFacts
  <2>3. dirs' \in [Dirs -> Files]
    BY <1>2, <2>1, <2>2
  <2>4. QED
    BY <1>1, <1>4, <2>3, EndTyped DEF Results
<1>5. QED
  BY <1>3, <1>4 DEF MountDir

\* The mounts that fill no directory.
LEMMA PlainMountTyped ==
    ASSUME TypeInv, NEW i \in Instances,
           MountFails(i) \/ MountIgnored(i) \/ MountHostPath(i) \/ MountTempFiles(i)
    PROVE  TypeInv'
<1>1. /\ UNCHANGED <<setting, objects, existing, history, updates, dirs>> /\ mounting(i)
      /\ dirs' \in [Dirs -> Files]
  BY DEF MountFails, MountIgnored, MountHostPath, MountTempFiles, TypeInv, TypeOK
<1>2. CASE End(i, "failed") \/ End(i, "panicked")
  BY <1>1, <1>2, EndTyped DEF Results
<1>3. /\ Empty \in Files /\ NoDir \in Dirs \cup {NoDir}
      /\ WriteFiles(Empty, NextData(i)) \in Files
  <2>1. NextData(i) \in Seq(Content)
    BY <1>1, NextFacts
  <2>2. Empty \in Files
    BY ContentFacts
  <2>3. WriteFiles(Empty, NextData(i)) \in Files
    BY <2>1, <2>2, WriteFacts
  <2>4. QED
    BY <2>2, <2>3
<1>4. CASE MountIgnored(i)
  <2>1. Mount(i, "nothing", Empty, NoDir) /\ UNCHANGED <<stage, looked>>
    BY <1>4 DEF MountIgnored
  <2>2. QED
    BY <1>1, <1>3, <2>1, MountTyped
<1>5. CASE MountHostPath(i)
  <2>1. /\ Mount(i, "host", Empty, NoDir)
        /\ UNCHANGED <<stage, looked>>
    BY <1>5 DEF MountHostPath
  <2>2. QED
    BY <1>1, <1>3, <2>1, MountTyped
<1>6. CASE /\ Mount(i, "files", WriteFiles(Empty, NextData(i)), NoDir)
           /\ UNCHANGED <<stage, looked>>
  BY <1>1, <1>3, <1>6, MountTyped
<1>7. QED
  BY <1>2, <1>4, <1>5, <1>6 DEF MountFails, MountTempFiles

LEMMA NextTyped == TypeInv /\ [Next]_vars => TypeInv'
<1> SUFFICES ASSUME TypeInv, [Next]_vars PROVE TypeInv'
  OBVIOUS
<1>1. CASE \E o \in Objects : UpdateObject(o) \/ DeleteObject(o)
  BY <1>1, ObjectTyped
<1>2. ASSUME NEW i \in Instances, Begin(i) \/ DeleteInstance(i) PROVE TypeInv'
  <2>1. /\ End(i, "volumes") \/ End(i, "none")
        /\ UNCHANGED <<setting, objects, existing, history, updates, dirs>>
        /\ dirs' \in [Dirs -> Files]
    BY <1>2 DEF Begin, DeleteInstance, TypeInv, TypeOK
  <2>2. QED
    BY <2>1, EndTyped DEF Results
<1>3. ASSUME NEW i \in Instances, Create(i) PROVE TypeInv'
  BY <1>2, <1>3, newInstanceVolumeTyped, GotoTyped, PlainMountTyped, MountDirTyped DEF Create
<1>4. CASE UNCHANGED vars
  <2>1. TypeOK'
    BY <1>4, SettingStays DEF vars, TypeInv, TypeOK
  <2>2. Staged'
    BY <1>4, SettingStays DEF vars, TypeInv, Staged
  <2>3. QED
    BY <2>1, <2>2 DEF TypeInv
<1>5. QED
  BY <1>1, <1>2, <1>3, <1>4 DEF Next

(***************************************************************************)
(* The state of the cluster, of the disk and of all creations is well      *)
(* formed; no list of volumes or of mounts is longer than the container's. *)
(***************************************************************************)
THEOREM TypeCorrect == Spec => []TypeOK
<1>1. TypeInv => TypeOK
  BY DEF TypeInv
<1>2. QED
  BY <1>1, InitTyped, NextTyped, PTL DEF Spec
-----------------------------------------------------------------------------
(***************************************************************************)
(* What a mount shows.  The data of an object is in its history            *)
(* (Recorded), so what was looked up is too, source by source (LookedUp);  *)
(* hence each directory holds data of its volume only (DirsOwn).  A mount  *)
(* of a directory has that of its volume, or its own (Placed).             *)
(***************************************************************************)
Recorded == \A o \in Objects : \A k \in Keys : <<k, objects[o][k]>> \in history[o]

LookedUp ==
    \A i \in Instances : \A n \in DOMAIN looked[i] :
        LET source == Source[MountsOf[i][n]].objects
            data   == looked[i][n].data
        IN  /\ DOMAIN data = DOMAIN source
            /\ \A m \in DOMAIN data : \A k \in Keys :
                   data[m][k] # Absent => <<k, data[m][k]>> \in history[source[m]]

DirsOwn ==
    /\ \A v \in Volumes : Own(v, dirs[VolumeDir(v)])
    /\ \A i \in Instances : \A n \in DOMAIN MountsOf[i] :
           Own(MountsOf[i][n], dirs[<<"configmaps", i, n>>])

Placed ==
    \A i \in Instances : \A n \in DOMAIN mounts[i] :
        IF mounts[i][n].what = "dir"
        THEN mounts[i][n].dir \in {VolumeDir(MountsOf[i][n]), <<"configmaps", i, n>>}
        ELSE Own(MountsOf[i][n], mounts[i][n].files)

OwnInv == Recorded /\ LookedUp /\ DirsOwn /\ Placed

LEMMA MountsWithin ==
    ASSUME TypeOK, NEW i \in Instances, NEW n \in DOMAIN mounts[i]
    PROVE  n \in DOMAIN MountsOf[i]
<1>1. MountsOf[i] \in Seq(Volumes) /\ mounts[i] \in Seq(Mounts)
  BY SettingFacts DEF TypeOK
<1>2. Len(mounts[i]) <= Len(MountsOf[i])
  BY DEF TypeOK
<1>3. QED
  BY <1>1, <1>2

LEMMA OwnInvSuffices == TypeOK /\ OwnInv => MountsOnlyOwn
<1> SUFFICES ASSUME TypeOK, OwnInv, NEW i \in Instances, NEW n \in DOMAIN mounts[i]
             PROVE  Own(MountsOf[i][n], View(mounts[i][n]))
  BY DEF MountsOnlyOwn
<1>1. n \in DOMAIN MountsOf[i] /\ MountsOf[i][n] \in Volumes
  BY MountsWithin, MountFacts
<1>2. CASE mounts[i][n].what = "dir"
  <2>1. mounts[i][n].dir \in {VolumeDir(MountsOf[i][n]), <<"configmaps", i, n>>}
    BY <1>2 DEF OwnInv, Placed
  <2>2. Own(MountsOf[i][n], dirs[mounts[i][n].dir])
    BY <1>1, <2>1 DEF OwnInv, DirsOwn
  <2>3. QED
    BY <1>2, <2>2 DEF View
<1>3. CASE mounts[i][n].what # "dir"
  BY <1>3 DEF OwnInv, Placed, View
<1>4. QED
  BY <1>2, <1>3

LEMMA InitOwn == Init => OwnInv
<1> SUFFICES ASSUME Init PROVE OwnInv
  OBVIOUS
<1>1. \A v \in Volumes : Own(v, Empty)
  BY ContentFacts DEF Own
<1>2. TypeOK
  BY InitTyped DEF TypeInv
<1>3. DirsOwn
  <2>1. \A v \in Volumes : VolumeDir(v) \in Dirs
    BY DEF VolumeDir, Dirs, VolumeDirs
  <2>2. \A d \in Dirs : dirs[d] = Empty
    BY DEF Init
  <2>3. QED
    BY <1>1, <1>2, <2>1, <2>2, MountFacts DEF DirsOwn
<1>4. Recorded
  BY DEF Init, Recorded
<1>5. LookedUp /\ Placed
  BY DEF Init, LookedUp, Placed
<1>6. QED
  BY <1>3, <1>4, <1>5 DEF OwnInv

\* What is written for a volume is the volume's.
LEMMA MergedOwn ==
    ASSUME TypeInv, OwnInv, NEW i \in Instances, mounting(i)
    PROVE  /\ Own(NextMount(i), Merged(NextData(i)))
           /\ \A files \in Files : Own(NextMount(i), files) =>
                  Own(NextMount(i), WriteFiles(files, NextData(i)))
<1> DEFINE v == NextMount(i)
<1>1. /\ Index(i) \in DOMAIN looked[i] /\ NextData(i) = looked[i][Index(i)].data
      /\ v = MountsOf[i][Index(i)] /\ NextData(i) \in Seq(Content)
  BY NextFacts DEF NextData, NextMount
<1>2. /\ DOMAIN NextData(i) = DOMAIN Source[v].objects
      /\ \A m \in DOMAIN NextData(i) : \A k \in Keys :
             NextData(i)[m][k] # Absent =>
                 <<k, NextData(i)[m][k]>> \in history[Source[v].objects[m]]
  BY <1>1 DEF OwnInv, LookedUp
<1>3. Own(v, Merged(NextData(i)))
  <2>1. \A k \in Keys : Merged(NextData(i))[k] # Absent =>
            \E m \in DOMAIN NextData(i) : Merged(NextData(i))[k] = NextData(i)[m][k]
    BY <1>1, MergedFacts
  <2>2. QED
    BY <1>2, <2>1 DEF Own
<1>4. ASSUME NEW files \in Files, Own(v, files)
      PROVE  Own(v, WriteFiles(files, NextData(i)))
  <2>1. \A k \in Keys : WriteFiles(files, NextData(i))[k] \in {Merged(NextData(i))[k], files[k]}
    BY <1>1, WriteFacts
  <2>2. QED
    BY <1>3, <1>4, <2>1 DEF Own
<1>5. QED
  BY <1>3, <1>4

\* Steps that only change objects keep what is a volume's its own.
LEMMA ObjectOwn ==
    ASSUME TypeInv, OwnInv, NEW o \in Objects, UpdateObject(o) \/ DeleteObject(o)
    PROVE  OwnInv'
<1>1. UNCHANGED <<setting, dirs, stage, looked, mounts>>
  BY DEF UpdateObject, DeleteObject
<1>2. /\ \A q \in Objects : history[q] \subseteq history'[q]
      /\ Recorded'
  <2>1. CASE UpdateObject(o)
    <3>1. PICK data \in [Keys -> {Absent, updates + 2}] :
            /\ objects' = [objects EXCEPT ![o] = data]
            /\ history' = [history EXCEPT ![o] = @ \cup {<<k, data[k]>> : k \in Keys}]
      BY <2>1 DEF UpdateObject
    <3>2. \A q \in Objects : history[q] \subseteq history'[q]
      BY <3>1 DEF TypeInv, TypeOK
    <3>3. ASSUME NEW q \in Objects, NEW k \in Keys
          PROVE  <<k, objects'[q][k]>> \in history'[q]
      <4>1. CASE q = o
        BY <3>1, <4>1 DEF TypeInv, TypeOK
      <4>2. CASE q # o
        BY <3>1, <4>2 DEF TypeInv, TypeOK, OwnInv, Recorded
      <4>3. QED
        BY <4>1, <4>2
    <3>4. QED
      BY <3>2, <3>3 DEF Recorded
  <2>2. CASE DeleteObject(o)
    BY <2>2 DEF DeleteObject, OwnInv, Recorded
  <2>3. QED
    BY <2>1, <2>2
<1>3. \A v \in Volumes : \A n \in DOMAIN Source[v].objects :
          history[Source[v].objects[n]] \subseteq history'[Source[v].objects[n]]
  BY <1>2, SourceFacts
<1>4. TypeOK
  BY DEF TypeInv
<1>5. LookedUp'
  <2> SUFFICES ASSUME NEW i \in Instances, NEW n \in DOMAIN looked[i]
               PROVE  LET source == Source[MountsOf[i][n]].objects
                          data   == looked[i][n].data
                      IN  /\ DOMAIN data = DOMAIN source
                          /\ \A m \in DOMAIN data : \A k \in Keys : data[m][k] # Absent =>
                                 <<k, data[m][k]>> \in history'[source[m]]
    BY <1>1, SettingStays DEF LookedUp
  <2>1. n \in DOMAIN MountsOf[i]
    BY SettingFacts DEF TypeInv, TypeOK
  <2>2. MountsOf[i][n] \in Volumes
    BY <1>4, <2>1, MountFacts
  <2>3. QED
    BY <1>3, <2>2 DEF OwnInv, LookedUp
<1>6. DirsOwn'
  <2>1. ASSUME NEW v \in Volumes PROVE Own(v, dirs[VolumeDir(v)])'
    BY <1>1, <1>3 DEF Own, VolumeDir, OwnInv, DirsOwn
  <2>2. ASSUME NEW i \in Instances, NEW n \in DOMAIN MountsOf[i]
        PROVE  Own(MountsOf[i][n], dirs[<<"configmaps", i, n>>])'
    <3>1. MountsOf[i][n] \in Volumes /\ MountsOf' = MountsOf
      BY <1>1, <1>4, MountFacts, SettingStays
    <3>2. Own(MountsOf[i][n], dirs[<<"configmaps", i, n>>])
      BY DEF OwnInv, DirsOwn
    <3>3. QED
      BY <1>1, <1>3, <3>1, <3>2 DEF Own
  <2>3. QED
    BY <1>1, <2>1, <2>2, SettingStays DEF DirsOwn
<1>7. Placed'
  <2> SUFFICES ASSUME NEW i \in Instances, NEW n \in DOMAIN mounts[i],
                      mounts[i][n].what # "dir"
               PROVE  Own(MountsOf[i][n], mounts[i][n].files)'
    BY <1>1, SettingStays DEF OwnInv, Placed, VolumeDir
  <2>1. MountsOf[i][n] \in Volumes /\ MountsOf' = MountsOf
    BY <1>1, <1>4, MountsWithin, MountFacts, SettingStays
  <2>2. Own(MountsOf[i][n], mounts[i][n].files)
    BY DEF OwnInv, Placed
  <2>3. QED
    BY <1>1, <1>3, <2>1, <2>2 DEF Own
<1>8. QED
  BY <1>2, <1>5, <1>6, <1>7 DEF OwnInv

\* The instances and the disk change, the cluster does not.
LEMMA QuietCluster ==
    ASSUME OwnInv, UNCHANGED <<setting, objects, history>>
    PROVE  /\ Recorded'
           /\ UNCHANGED dirs => DirsOwn'
           /\ UNCHANGED looked => LookedUp'
           /\ UNCHANGED mounts => Placed'
<1>1. Recorded'
  BY DEF OwnInv, Recorded
<1>2. UNCHANGED dirs => DirsOwn'
  BY SettingStays DEF OwnInv, DirsOwn, Own, VolumeDir
<1>3. UNCHANGED looked => LookedUp'
  BY SettingStays DEF OwnInv, LookedUp
<1>4. UNCHANGED mounts => Placed'
  BY SettingStays DEF OwnInv, Placed, Own, VolumeDir
<1>5. QED
  BY <1>1, <1>2, <1>3, <1>4

LEMMA EndOwn ==
    ASSUME TypeInv, OwnInv, NEW i \in Instances, NEW r \in Results, End(i, r),
           UNCHANGED <<setting, objects, history>>
    PROVE  LookedUp' /\ Placed'
<1>1. \A j \in Instances : \/ looked'[j] = <<>> /\ mounts'[j] = <<>>
                           \/ looked'[j] = looked[j] /\ mounts'[j] = mounts[j]
  BY EndFacts
<1>2. LookedUp'
  BY <1>1, SettingStays DEF OwnInv, LookedUp
<1>3. Placed'
  BY <1>1, SettingStays DEF OwnInv, Placed, Own, VolumeDir
<1>4. QED
  BY <1>2, <1>3

LEMMA LookOwn ==
    ASSUME TypeInv, OwnInv, NEW i \in Instances, newInstanceVolume(i)
    PROVE  OwnInv'
<1>1. /\ UNCHANGED <<setting, objects, existing, history, updates, dirs>>
      /\ stage[i] = "volumes" /\ Len(looked[i]) < Len(MountsOf[i])
  BY DEF newInstanceVolume
<1>2. Recorded' /\ DirsOwn'
  BY <1>1, QuietCluster
<1>3. CASE End(i, "panicked") \/ End(i, "failed")
  BY <1>1, <1>2, <1>3, EndOwn DEF Results, OwnInv
<1>4. CASE /\ looked' = [looked EXCEPT ![i] =
                            Append(@, [found |-> Found(NextLookup(i)),
                                       data |-> Fetched(NextLookup(i))])]
           /\ UNCHANGED <<stage, mounts>>
  <2> DEFINE v == NextLookup(i)
             last == Len(looked[i]) + 1
  <2>1. /\ v \in Volumes /\ v = MountsOf[i][last]
        /\ Len(looked[i]) \in Nat
        /\ DOMAIN looked[i] = 1 .. Len(looked[i])
        /\ DOMAIN looked'[i] = 1 .. last
        /\ \A n \in 1 .. Len(looked[i]) : looked'[i][n] = looked[i][n]
        /\ looked'[i][last] = [found |-> Found(v), data |-> Fetched(v)]
        /\ \A j \in Instances \ {i} : looked'[j] = looked[j]
    <3>1. looked[i] \in Seq(Lookups)
      BY DEF TypeInv, TypeOK
    <3>2. DOMAIN looked[i] = 1 .. Len(looked[i])
      BY <3>1
    <3>3. QED
      BY <1>1, <1>4, <3>2, LookFacts
  <2>2. \A m \in DOMAIN Fetched(v) : \A k \in Keys : Fetched(v)[m][k] # Absent =>
            <<k, Fetched(v)[m][k]>> \in history[Source[v].objects[m]]
    BY <2>1, SourceFacts, ContentFacts DEF Fetched, OwnInv, Recorded
  <2>3. DOMAIN Fetched(v) = DOMAIN Source[v].objects
    BY DEF Fetched
  <2>4. ASSUME NEW j \in Instances, NEW n \in DOMAIN looked'[j]
        PROVE  LET source == Source[MountsOf[j][n]].objects
                   data   == looked'[j][n].data
               IN  /\ DOMAIN data = DOMAIN source
                   /\ \A m \in DOMAIN data : \A k \in Keys : data[m][k] # Absent =>
                          <<k, data[m][k]>> \in history[source[m]]
    <3>1. CASE j = i /\ n = last
      <4>1. looked'[j][n].data = Fetched(v) /\ MountsOf[j][n] = v
        BY <2>1, <3>1
      <4> HIDE DEF v
      <4>2. QED
        BY <2>2, <2>3, <4>1
    <3>2. CASE ~(j = i /\ n = last)
      <4>1. n \in DOMAIN looked[j] /\ looked'[j][n] = looked[j][n]
        BY <2>1, <3>2
      <4>2. QED
        BY <4>1 DEF OwnInv, LookedUp
    <3>3. QED
      BY <3>1, <3>2
  <2>5. LookedUp'
    BY <1>1, <2>4, SettingStays DEF LookedUp
  <2>6. Placed'
    BY <1>1, <1>4, QuietCluster
  <2>7. QED
    BY <1>2, <2>5, <2>6 DEF OwnInv
<1>5. QED
  BY <1>3, <1>4 DEF newInstanceVolume

LEMMA MountOwn ==
    ASSUME TypeInv, OwnInv, NEW i \in Instances, mounting(i),
           NEW what \in {"nothing", "host", "files", "dir"}, NEW files \in Files,
           NEW dir \in Dirs \cup {NoDir},
           Mount(i, what, files, dir), UNCHANGED <<setting, objects, history>>,
           what = "dir" => dir \in {VolumeDir(NextMount(i)),
                                   <<"configmaps", i, Index(i)>>},
           what # "dir" => Own(NextMount(i), files)
    PROVE  Placed'
<1>1. /\ DOMAIN mounts'[i] = 1 .. Index(i)
      /\ DOMAIN mounts[i] = 1 .. Index(i) - 1
      /\ \A n \in DOMAIN mounts[i] : mounts'[i][n] = mounts[i][n]
      /\ mounts'[i][Index(i)] =
             [what |-> what, files |-> files, dir |-> dir]
      /\ \A j \in Instances \ {i} : mounts'[j] = mounts[j]
  BY MountStepFacts
<1>2. Index(i) \in Nat /\ NextMount(i) = MountsOf[i][Index(i)]
  BY NextFacts
<1>3. ASSUME NEW j \in Instances, NEW n \in DOMAIN mounts'[j]
      PROVE  IF mounts'[j][n].what = "dir"
             THEN mounts'[j][n].dir \in {VolumeDir(MountsOf[j][n]),
                                        <<"configmaps", j, n>>}
             ELSE Own(MountsOf[j][n], mounts'[j][n].files)
  <2>1. CASE j = i /\ n = Index(i)
    <3>1. mounts'[j][n].what = what /\ mounts'[j][n].dir = dir /\ mounts'[j][n].files = files
      BY <1>1, <2>1
    <3>2. QED
      BY <1>2, <2>1, <3>1
  <2>2. CASE ~(j = i /\ n = Index(i))
    <3>1. n \in DOMAIN mounts[j] /\ mounts'[j][n] = mounts[j][n]
      BY <1>1, <1>2, <2>2
    <3>2. QED
      BY <3>1 DEF OwnInv, Placed
  <2>3. QED
    BY <2>1, <2>2
<1>4. QED
  BY <1>3, SettingStays DEF Placed, Own, VolumeDir

LEMMA WriteOwn ==
    ASSUME TypeInv, OwnInv, NEW i \in Instances, mounting(i), FilledDir(i) # NoDir,
           NEW written \in Files,
           \A k \in Keys : written[k] \in {dirs[FilledDir(i)][k], Truncated,
                                 WriteFiles(dirs[FilledDir(i)], NextData(i))[k]},
           dirs' = [dirs EXCEPT ![FilledDir(i)] = written],
           UNCHANGED <<setting, objects, history>>
    PROVE  DirsOwn'
<1> DEFINE u == NextMount(i)
           d == FilledDir(i)
<1>1. /\ d \in Dirs /\ u \in Volumes /\ Index(i) \in DOMAIN MountsOf[i]
      /\ u = MountsOf[i][Index(i)]
      /\ dirs \in [Dirs -> Files] /\ dirs[d] \in Files /\ TypeOK
  BY NextFacts DEF TypeInv, TypeOK
<1>2. d \in {VolumeDir(u), <<"configmaps", i, Index(i)>>}
  BY FilledFacts
<1>3. Own(u, dirs[d])
  BY <1>1, <1>2 DEF OwnInv, DirsOwn
<1>4. Own(u, WriteFiles(dirs[d], NextData(i)))
  BY <1>1, <1>3, MergedOwn
<1>5. Own(u, written)
  BY <1>3, <1>4 DEF Own
<1>6. /\ dirs'[d] = written
      /\ \A e \in Dirs \ {d} : dirs'[e] = dirs[e]
  BY <1>1
<1> HIDE DEF u, d
<1>7. ASSUME NEW v \in Volumes PROVE Own(v, dirs'[VolumeDir(v)])
  <2>1. VolumeDir(v) \in Dirs
    BY DEF VolumeDir, Dirs, VolumeDirs
  <2>2. CASE VolumeDir(v) = d
    <3>1. v = u
      BY <1>2, <2>2 DEF VolumeDir
    <3>2. QED
      BY <1>5, <1>6, <2>2, <3>1
  <2>3. CASE VolumeDir(v) # d
    BY <1>6, <2>1, <2>3 DEF OwnInv, DirsOwn
  <2>4. QED
    BY <2>2, <2>3
<1>8. ASSUME NEW j \in Instances, NEW n \in DOMAIN MountsOf[j]
      PROVE  Own(MountsOf[j][n], dirs'[<<"configmaps", j, n>>])
  <2>1. <<"configmaps", j, n>> \in Dirs
    BY <1>1, MountFacts
  <2>2. CASE <<"configmaps", j, n>> = d
    <3>1. j = i /\ n = Index(i)
      BY <1>2, <2>2 DEF VolumeDir
    <3>2. QED
      BY <1>1, <1>5, <1>6, <2>2, <3>1
  <2>3. CASE <<"configmaps", j, n>> # d
    BY <1>6, <2>1, <2>3 DEF OwnInv, DirsOwn
  <2>4. QED
    BY <2>2, <2>3
<1>9. QED
  BY <1>7, <1>8, SettingStays DEF DirsOwn, Own, VolumeDir

LEMMA MountDirOwn ==
    ASSUME TypeInv, OwnInv, NEW i \in Instances, MountDir(i) PROVE OwnInv'
<1>1. /\ UNCHANGED <<setting, objects, existing, history, updates>>
      /\ mounting(i) /\ FilledDir(i) # NoDir
  BY DEF MountDir
<1>2. /\ FilledDir(i) \in Dirs /\ NextData(i) \in Seq(Content)
      /\ dirs[FilledDir(i)] \in Files /\ Recorded'
  BY <1>1, NextFacts, QuietCluster DEF TypeInv, TypeOK
<1>3. CASE /\ dirs' = [dirs EXCEPT ![FilledDir(i)] = WriteFiles(@, NextData(i))]
           /\ Mount(i, "dir", Empty, FilledDir(i))
           /\ UNCHANGED <<stage, looked>>
  <2>1. WriteFiles(dirs[FilledDir(i)], NextData(i)) \in Files
    BY <1>2, WriteFacts
  <2>2. DirsOwn'
    BY <1>1, <1>3, <2>1, WriteOwn
  <2>3. Empty \in Files
    BY ContentFacts
  <2>4. Placed'
    BY <1>1, <1>2, <1>3, <2>3, FilledFacts, MountOwn
  <2>5. QED
    BY <1>1, <1>2, <1>3, <2>2, <2>4, QuietCluster DEF OwnInv
<1>4. CASE /\ \E files \in WriteFilesFail(dirs[FilledDir(i)], NextData(i)) :
                  dirs' = [dirs EXCEPT ![FilledDir(i)] = files]
           /\ End(i, "failed")
  <2>1. PICK files \in WriteFilesFail(dirs[FilledDir(i)], NextData(i)) :
              dirs' = [dirs EXCEPT ![FilledDir(i)] = files]
    BY <1>4
  <2>2. /\ files \in Files
        /\ \A k \in Keys : files[k] \in {dirs[FilledDir(i)][k], Truncated,
                                WriteFiles(dirs[FilledDir(i)], NextData(i))[k]}
    BY <1>2, WriteFailFacts
  <2>3. DirsOwn'
    BY <1>1, <2>1, <2>2, WriteOwn
  <2>4. QED
    BY <1>1, <1>2, <1>4, <2>3, EndOwn DEF Results, OwnInv
<1>5. QED
  BY <1>3, <1>4 DEF MountDir

LEMMA PlainMountOwn ==
    ASSUME TypeInv, OwnInv, NEW i \in Instances,
           MountFails(i) \/ MountIgnored(i) \/ MountHostPath(i) \/ MountTempFiles(i)
    PROVE  OwnInv'
<1>1. /\ UNCHANGED <<setting, objects, existing, history, updates, dirs>> /\ mounting(i)
  BY DEF MountFails, MountIgnored, MountHostPath, MountTempFiles
<1>2. Recorded' /\ DirsOwn' /\ (UNCHANGED looked => LookedUp')
  BY <1>1, QuietCluster
<1>3. CASE End(i, "failed") \/ End(i, "panicked")
  BY <1>1, <1>2, <1>3, EndOwn DEF Results, OwnInv
<1>4. NextMount(i) \in Volumes /\ NextData(i) \in Seq(Content)
  BY <1>1, NextFacts
<1>5. Empty \in Files /\ Own(NextMount(i), Empty)
  BY ContentFacts DEF Own
<1>6. /\ WriteFiles(Empty, NextData(i)) \in Files
      /\ Own(NextMount(i), WriteFiles(Empty, NextData(i)))
  BY <1>1, <1>4, <1>5, WriteFacts, MergedOwn
<1>7. CASE MountIgnored(i)
  <2>1. Mount(i, "nothing", Empty, NoDir) /\ UNCHANGED <<stage, looked>>
    BY <1>7 DEF MountIgnored
  <2>2. Placed'
    BY <1>1, <1>4, <1>5, <2>1, MountOwn
  <2>3. QED
    BY <1>2, <2>1, <2>2 DEF OwnInv
<1>8. CASE MountHostPath(i)
  <2>1. /\ Mount(i, "host", Empty, NoDir)
        /\ UNCHANGED <<stage, looked>>
    BY <1>8 DEF MountHostPath
  <2>2. Placed'
    BY <1>1, <1>4, <1>5, <2>1, MountOwn
  <2>3. QED
    BY <1>2, <2>1, <2>2 DEF OwnInv
<1>9. CASE /\ Mount(i, "files", WriteFiles(Empty, NextData(i)), NoDir)
           /\ UNCHANGED <<stage, looked>>
  <2>1. Placed'
    BY <1>1, <1>4, <1>6, <1>9, MountOwn
  <2>2. QED
    BY <1>2, <1>9, <2>1 DEF OwnInv
<1>10. QED
  BY <1>3, <1>7, <1>8, <1>9 DEF MountFails, MountTempFiles

LEMMA NextOwn == TypeInv /\ OwnInv /\ [Next]_vars => OwnInv'
<1> SUFFICES ASSUME TypeInv, OwnInv, [Next]_vars PROVE OwnInv'
  OBVIOUS
<1>1. CASE \E o \in Objects : UpdateObject(o) \/ DeleteObject(o)
  BY <1>1, ObjectOwn
<1>2. ASSUME NEW i \in Instances, Begin(i) \/ DeleteInstance(i) PROVE OwnInv'
  <2>1. /\ End(i, "volumes") \/ End(i, "none")
        /\ UNCHANGED <<setting, objects, existing, history, updates, dirs>>
    BY <1>2 DEF Begin, DeleteInstance
  <2>2. QED
    BY <2>1, EndOwn, QuietCluster DEF Results, OwnInv
<1>3. ASSUME NEW i \in Instances, VolumesDone(i) \/ MountsDone(i) PROVE OwnInv'
  BY <1>3, QuietCluster DEF VolumesDone, MountsDone, OwnInv
<1>4. ASSUME NEW i \in Instances, Create(i) PROVE OwnInv'
  BY <1>2, <1>3, <1>4, LookOwn, PlainMountOwn, MountDirOwn DEF Create
<1>5. CASE UNCHANGED vars
  BY <1>5, QuietCluster DEF vars, OwnInv
<1>6. QED
  BY <1>1, <1>2, <1>4, <1>5 DEF Next

(***************************************************************************)
(* Whatever pods there are and whatever fails, no mount shows data that    *)
(* was never in an object of its volume.                                   *)
(***************************************************************************)
THEOREM NoForeignData == Spec => []MountsOnlyOwn
<1>1. TypeInv => TypeOK
  BY DEF TypeInv
<1>2. QED
  BY <1>1, InitTyped, NextTyped, InitOwn, NextOwn, OwnInvSuffices, PTL DEF Spec
-----------------------------------------------------------------------------
(***************************************************************************)
(* What a mount must show: a file for each that was looked up, with that   *)
(* content if the volume is mounted nowhere else; a configMap of           *)
(* containerd exactly.                                                     *)
(***************************************************************************)
Completes(i, n) ==
    mounts[i][n].what \in {"files", "dir"} =>
        \A k \in Keys : Merged(looked[i][n].data)[k] # Absent =>
            /\ View(mounts[i][n])[k] # Absent
            /\ Unshared(i, n) => View(mounts[i][n])[k] = Merged(looked[i][n].data)[k]

ExactAt(i, n) ==
    BackendOf[i] = "containerd" /\ Source[MountsOf[i][n]].kind = "configMap" =>
        mounts[i][n].what = "files" /\ mounts[i][n].files = Merged(looked[i][n].data)

ShownInv == \A i \in Instances : \A n \in DOMAIN mounts[i] :
                Completes(i, n) /\ ExactAt(i, n)

LEMMA ShownSuffices ==
    TypeOK /\ ShownInv => MountsComplete /\ ConfigMapExact
<1> SUFFICES ASSUME TypeOK, ShownInv
             PROVE  MountsComplete /\ ConfigMapExact
  OBVIOUS
<1>1. MountsComplete
  BY DEF MountsComplete, ShownInv, Completes, Created
<1>2. ConfigMapExact
  BY DEF ConfigMapExact, ShownInv, ExactAt, View, Created
<1>3. QED
  BY <1>1, <1>2

LEMMA InitShown == Init => ShownInv
BY DEF Init, ShownInv

\* What a step must leave of the directory of a mount that is there already.
DirKept(j, n) ==
    mounts[j][n].what = "dir" =>
        /\ \A k \in Keys : dirs[mounts[j][n].dir][k] # Absent =>
                            dirs'[mounts[j][n].dir][k] # Absent
        /\ Unshared(j, n) => dirs'[mounts[j][n].dir] = dirs[mounts[j][n].dir]

LEMMA ShownStays ==
    ASSUME ShownInv, UNCHANGED setting, NEW j \in Instances, NEW n \in DOMAIN mounts[j],
           mounts'[j][n] = mounts[j][n], looked'[j][n] = looked[j][n], DirKept(j, n)
    PROVE  (Completes(j, n) /\ ExactAt(j, n))'
<1>1. Completes(j, n) /\ ExactAt(j, n)
  BY DEF ShownInv
<1>2. Unshared(j, n)' <=> Unshared(j, n)
  BY SettingStays DEF Unshared
<1>3. ExactAt(j, n)'
  BY <1>1, SettingStays DEF ExactAt
<1>4. Completes(j, n)'
  <2> SUFFICES ASSUME mounts[j][n].what \in {"files", "dir"}, NEW k \in Keys,
                      Merged(looked[j][n].data)[k] # Absent
               PROVE  /\ View(mounts[j][n])'[k] # Absent
                      /\ Unshared(j, n) =>
                             View(mounts[j][n])'[k] = Merged(looked[j][n].data)[k]
    BY <1>2 DEF Completes
  <2>1. /\ View(mounts[j][n])[k] # Absent
        /\ Unshared(j, n) => View(mounts[j][n])[k] = Merged(looked[j][n].data)[k]
    BY <1>1 DEF Completes
  <2>2. CASE mounts[j][n].what = "dir"
    BY <2>1, <2>2 DEF View, DirKept
  <2>3. CASE mounts[j][n].what # "dir"
    BY <2>1, <2>3 DEF View
  <2>4. QED
    BY <2>2, <2>3
<1>5. QED
  BY <1>3, <1>4

\* A directory that is written: of a mount elsewhere nothing goes, and one
\* that is written for another mount is shared.
LEMMA WriteKeeps ==
    ASSUME TypeInv, OwnInv, NEW i \in Instances, mounting(i), FilledDir(i) # NoDir,
           NEW written \in Files,
           \A k \in Keys : dirs[FilledDir(i)][k] # Absent => written[k] # Absent,
           dirs' = [dirs EXCEPT ![FilledDir(i)] = written],
           NEW j \in Instances, NEW n \in DOMAIN mounts[j]
    PROVE  DirKept(j, n)
<1> SUFFICES ASSUME mounts[j][n].what = "dir"
             PROVE  /\ \A k \in Keys : dirs[mounts[j][n].dir][k] # Absent =>
                                        dirs'[mounts[j][n].dir][k] # Absent
                    /\ Unshared(j, n) => dirs'[mounts[j][n].dir] = dirs[mounts[j][n].dir]
  BY DEF DirKept
<1> DEFINE d == FilledDir(i)
           e == mounts[j][n].dir
<1>1. /\ d \in Dirs /\ Index(i) \in DOMAIN MountsOf[i] /\ dirs \in [Dirs -> Files]
      /\ d \in {VolumeDir(MountsOf[i][Index(i)]), <<"configmaps", i, Index(i)>>}
  BY NextFacts, FilledFacts DEF TypeInv, TypeOK
<1>2. e \in {VolumeDir(MountsOf[j][n]), <<"configmaps", j, n>>}
  BY DEF OwnInv, Placed
<1>3. n \in DOMAIN MountsOf[j] /\ TypeOK
  BY MountsWithin DEF TypeInv
<1>4. e \in Dirs
  BY <1>2, <1>3, MountFacts
<1>5. ~(j = i /\ n = Index(i))
  <2>1. mounts[i] \in Seq(Mounts) /\ Index(i) = Len(mounts[i]) + 1
    BY NextFacts DEF TypeInv, TypeOK
  <2>2. Index(i) \notin DOMAIN mounts[i]
    BY <2>1
  <2>3. QED
    BY <2>2
<1>6. CASE e = d
  <2>1. ~Unshared(j, n)
    <3>1. MountsOf[i][Index(i)] = MountsOf[j][n]
      BY <1>1, <1>2, <1>5, <1>6 DEF VolumeDir
    <3>2. QED
      BY <1>1, <1>5, <3>1 DEF Unshared
  <2>2. dirs'[e] = written
    BY <1>1, <1>6
  <2>3. QED
    BY <1>6, <2>1, <2>2
<1>7. CASE e # d
  BY <1>1, <1>4, <1>7
<1>8. QED
  BY <1>6, <1>7

LEMMA EndShown ==
    ASSUME TypeInv, ShownInv, NEW i \in Instances, NEW r \in Results, End(i, r),
           UNCHANGED setting,
           \A j \in Instances : \A n \in DOMAIN mounts[j] : DirKept(j, n)
    PROVE  ShownInv'
<1> SUFFICES ASSUME NEW j \in Instances, NEW n \in DOMAIN mounts'[j]
             PROVE  (Completes(j, n) /\ ExactAt(j, n))'
  BY SettingStays DEF ShownInv
<1>1. mounts'[j] = mounts[j] /\ looked'[j] = looked[j]
  BY EndFacts
<1>2. QED
  BY <1>1, ShownStays

LEMMA MountShown ==
    ASSUME TypeInv, ShownInv, NEW i \in Instances, mounting(i),
           NEW what \in {"nothing", "host", "files", "dir"}, NEW files \in Files,
           NEW dir \in Dirs \cup {NoDir},
           Mount(i, what, files, dir), UNCHANGED <<setting, looked>>,
           \A j \in Instances : \A n \in DOMAIN mounts[j] : DirKept(j, n),
           what \in {"files", "dir"} =>
               \A k \in Keys : Merged(NextData(i))[k] # Absent =>
                   (IF what = "dir" THEN dirs'[dir] ELSE files)[k] = Merged(NextData(i))[k],
           BackendOf[i] = "containerd" /\ NextSource(i).kind = "configMap" =>
               what = "files" /\ files = Merged(NextData(i))
    PROVE  ShownInv'
<1> SUFFICES ASSUME NEW j \in Instances, NEW n \in DOMAIN mounts'[j]
             PROVE  (Completes(j, n) /\ ExactAt(j, n))'
  BY SettingStays DEF ShownInv
<1>1. /\ DOMAIN mounts'[i] = 1 .. Index(i)
      /\ DOMAIN mounts[i] = 1 .. Index(i) - 1
      /\ \A m \in DOMAIN mounts[i] : mounts'[i][m] = mounts[i][m]
      /\ mounts'[i][Index(i)] =
             [what |-> what, files |-> files, dir |-> dir]
      /\ \A q \in Instances \ {i} : mounts'[q] = mounts[q]
  <2> DEFINE elt == [what |-> what, files |-> files, dir |-> dir]
  <2>1. elt \in Mounts
    BY NextFacts DEF Mounts
  <2>2. mounts' = [mounts EXCEPT ![i] = Append(@, elt)]
    BY DEF Mount
  <2> HIDE DEF elt
  <2>3. /\ DOMAIN mounts'[i] = 1 .. Index(i)
        /\ DOMAIN mounts[i] = 1 .. Index(i) - 1
        /\ \A m \in DOMAIN mounts[i] : mounts'[i][m] = mounts[i][m]
        /\ mounts'[i][Index(i)] = elt
        /\ \A q \in Instances \ {i} : mounts'[q] = mounts[q]
    BY <2>1, <2>2, MountAppended
  <2>4. QED
    BY <2>3 DEF elt
<1>2. Index(i) \in Nat /\ NextMount(i) = MountsOf[i][Index(i)]
  BY NextFacts
<1>3. CASE j = i /\ n = Index(i)
  <2>1. /\ mounts'[j][n].what = what /\ mounts'[j][n].files = files
        /\ mounts'[j][n].dir = dir
    BY <1>1, <1>3
  <2>2. /\ looked'[j][n].data = NextData(i) /\ MountsOf'[j][n] = NextMount(i)
        /\ Source[MountsOf'[j][n]] = NextSource(i)
        /\ BackendOf'[j] = BackendOf[i]
    BY <1>2, <1>3, SettingStays DEF NextData, NextSource
  <2>3. ExactAt(j, n)'
    BY <2>1, <2>2 DEF ExactAt
  <2>4. Completes(j, n)'
    <3> SUFFICES ASSUME what \in {"files", "dir"}, NEW k \in Keys,
                        Merged(NextData(i))[k] # Absent
                 PROVE  View(mounts[j][n])'[k] = Merged(NextData(i))[k]
      BY <2>1, <2>2 DEF Completes
    <3>1. QED
      BY <2>1 DEF View
  <2>5. QED
    BY <2>3, <2>4
<1>4. CASE ~(j = i /\ n = Index(i))
  <2>1. n \in DOMAIN mounts[j] /\ mounts'[j][n] = mounts[j][n] /\ looked'[j][n] = looked[j][n]
    BY <1>1, <1>2, <1>4
  <2>2. QED
    BY <2>1, ShownStays
<1>5. QED
  BY <1>3, <1>4

LEMMA DirsStay ==
    ASSUME UNCHANGED dirs
    PROVE  \A j \in Instances : \A n \in DOMAIN mounts[j] : DirKept(j, n)
BY DEF DirKept

LEMMA MountDirShown ==
    ASSUME TypeInv, OwnInv, ShownInv, NEW i \in Instances, MountDir(i) PROVE ShownInv'
<1>1. UNCHANGED setting /\ mounting(i) /\ FilledDir(i) # NoDir
  BY DEF MountDir
<1>2. /\ FilledDir(i) \in Dirs /\ NextData(i) \in Seq(Content)
      /\ dirs[FilledDir(i)] \in Files /\ dirs \in [Dirs -> Files]
  BY <1>1, NextFacts DEF TypeInv, TypeOK
<1>3. CASE /\ dirs' = [dirs EXCEPT ![FilledDir(i)] = WriteFiles(@, NextData(i))]
           /\ Mount(i, "dir", Empty, FilledDir(i))
           /\ UNCHANGED <<stage, looked>>
  <2> DEFINE written == WriteFiles(dirs[FilledDir(i)], NextData(i))
  <2>1. /\ written \in Files
        /\ \A k \in Keys : written[k] = IF Merged(NextData(i))[k] # Absent
                                        THEN Merged(NextData(i))[k]
                                        ELSE dirs[FilledDir(i)][k]
    BY <1>2, WriteFacts
  <2>2. dirs' = [dirs EXCEPT ![FilledDir(i)] = written] /\ dirs'[FilledDir(i)] = written
    BY <1>2, <1>3
  <2> HIDE DEF written
  <2>3. \A k \in Keys : dirs[FilledDir(i)][k] # Absent => written[k] # Absent
    BY <2>1
  <2>4. \A j \in Instances : \A n \in DOMAIN mounts[j] : DirKept(j, n)
    BY <1>1, <2>1, <2>2, <2>3, WriteKeeps
  <2>5. Empty \in Files
    BY ContentFacts
  <2>6. ~(BackendOf[i] = "containerd" /\ NextSource(i).kind = "configMap")
    BY <1>1, FilledFacts
  <2>7. \A k \in Keys : Merged(NextData(i))[k] # Absent =>
            dirs'[FilledDir(i)][k] = Merged(NextData(i))[k]
    BY <2>1, <2>2
  <2>8. QED
    BY <1>1, <1>2, <1>3, <2>4, <2>5, <2>6, <2>7, MountShown
<1>4. CASE /\ \E files \in WriteFilesFail(dirs[FilledDir(i)], NextData(i)) :
                  dirs' = [dirs EXCEPT ![FilledDir(i)] = files]
           /\ End(i, "failed")
  <2>1. PICK files \in WriteFilesFail(dirs[FilledDir(i)], NextData(i)) :
              dirs' = [dirs EXCEPT ![FilledDir(i)] = files]
    BY <1>4
  <2>2. /\ files \in Files
        /\ \A k \in Keys : dirs[FilledDir(i)][k] # Absent => files[k] # Absent
    BY <1>2, WriteFailFacts
  <2>3. \A j \in Instances : \A n \in DOMAIN mounts[j] : DirKept(j, n)
    BY <1>1, <2>1, <2>2, WriteKeeps
  <2>4. QED
    BY <1>1, <1>4, <2>3, EndShown DEF Results
<1>5. QED
  BY <1>3, <1>4 DEF MountDir

LEMMA PlainMountShown ==
    ASSUME TypeInv, ShownInv, NEW i \in Instances,
           MountFails(i) \/ MountIgnored(i) \/ MountHostPath(i) \/ MountTempFiles(i)
    PROVE  ShownInv'
<1>1. UNCHANGED <<setting, dirs>> /\ mounting(i)
  BY DEF MountFails, MountIgnored, MountHostPath, MountTempFiles
<1>2. \A j \in Instances : \A n \in DOMAIN mounts[j] : DirKept(j, n)
  BY <1>1, DirsStay
<1>3. CASE End(i, "failed") \/ End(i, "panicked")
  BY <1>1, <1>2, <1>3, EndShown DEF Results
<1>4. NextData(i) \in Seq(Content)
  BY <1>1, NextFacts
<1>5. Empty \in Files /\ NoDir \in Dirs \cup {NoDir}
  BY ContentFacts
<1>6. CASE MountIgnored(i)
  <2>1. /\ Mount(i, "nothing", Empty, NoDir) /\ UNCHANGED <<stage, looked>>
        /\ NextSource(i).kind # "configMap"
    BY <1>6 DEF MountIgnored, Ignored
  <2>2. QED
    BY <1>1, <1>2, <1>5, <2>1, MountShown
<1>7. CASE MountHostPath(i)
  <2>1. /\ Mount(i, "host", Empty, NoDir)
        /\ UNCHANGED <<stage, looked>> /\ NextSource(i).kind = "hostPath"
    BY <1>7 DEF MountHostPath
  <2>2. QED
    BY <1>1, <1>2, <1>5, <2>1, MountShown
<1>8. CASE /\ Mount(i, "files", WriteFiles(Empty, NextData(i)), NoDir)
           /\ UNCHANGED <<stage, looked>> /\ NextSource(i).kind = "configMap"
  <2>1. WriteFiles(Empty, NextData(i)) = Merged(NextData(i))
    <3>1. Merged(NextData(i)) \in Content
      BY <1>4, MergedFacts
    <3>2. \A k \in Keys : (IF Merged(NextData(i))[k] # Absent
                           THEN Merged(NextData(i))[k] ELSE Empty[k]) = Merged(NextData(i))[k]
      BY ContentFacts
    <3>3. WriteFiles(Empty, NextData(i)) = [k \in Keys |-> Merged(NextData(i))[k]]
      BY <3>2 DEF WriteFiles
    <3>4. QED
      BY <3>1, <3>3 DEF Content
  <2>2. WriteFiles(Empty, NextData(i)) \in Files
    BY <1>4, <1>5, WriteFacts
  <2>3. QED
    BY <1>1, <1>2, <1>5, <1>8, <2>1, <2>2, MountShown
<1>9. QED
  BY <1>3, <1>6, <1>7, <1>8 DEF MountFails, MountTempFiles

LEMMA LookShown ==
    ASSUME TypeInv, ShownInv, NEW i \in Instances, newInstanceVolume(i)
    PROVE  ShownInv'
<1>1. /\ UNCHANGED <<setting, dirs>>
      /\ stage[i] = "volumes" /\ Len(looked[i]) < Len(MountsOf[i])
  BY DEF newInstanceVolume
<1>2. \A j \in Instances : \A n \in DOMAIN mounts[j] : DirKept(j, n)
  BY <1>1, DirsStay
<1>3. CASE End(i, "panicked") \/ End(i, "failed")
  BY <1>1, <1>2, <1>3, EndShown DEF Results
<1>4. CASE /\ looked' = [looked EXCEPT ![i] =
                            Append(@, [found |-> Found(NextLookup(i)),
                                       data |-> Fetched(NextLookup(i))])]
           /\ UNCHANGED <<stage, mounts>>
  <2> SUFFICES ASSUME NEW j \in Instances, NEW n \in DOMAIN mounts[j]
               PROVE  (Completes(j, n) /\ ExactAt(j, n))'
    BY <1>1, <1>4, SettingStays DEF ShownInv
  <2>1. j # i
    <3>1. mounts[i] = <<>>
      BY <1>1 DEF TypeInv, Staged
    <3>2. QED
      BY <3>1
  <2>2. looked'[j] = looked[j]
    BY <1>4, <2>1 DEF TypeInv, TypeOK
  <2>3. QED
    BY <1>1, <1>2, <1>4, <2>2, ShownStays
<1>5. QED
  BY <1>3, <1>4 DEF newInstanceVolume

LEMMA QuietShown ==
    ASSUME ShownInv, UNCHANGED <<setting, dirs, looked, mounts>> PROVE ShownInv'
<1> SUFFICES ASSUME NEW j \in Instances, NEW n \in DOMAIN mounts[j]
             PROVE  (Completes(j, n) /\ ExactAt(j, n))'
  BY SettingStays DEF ShownInv
<1>1. QED
  BY DirsStay, ShownStays

LEMMA NextShown == TypeInv /\ OwnInv /\ ShownInv /\ [Next]_vars => ShownInv'
<1> SUFFICES ASSUME TypeInv, OwnInv, ShownInv, [Next]_vars PROVE ShownInv'
  OBVIOUS
<1>1. CASE \E o \in Objects : UpdateObject(o) \/ DeleteObject(o)
  BY <1>1, QuietShown DEF UpdateObject, DeleteObject
<1>2. ASSUME NEW i \in Instances, Begin(i) \/ DeleteInstance(i) PROVE ShownInv'
  <2>1. (End(i, "volumes") \/ End(i, "none")) /\ UNCHANGED <<setting, dirs>>
    BY <1>2 DEF Begin, DeleteInstance
  <2>2. QED
    BY <2>1, DirsStay, EndShown DEF Results
<1>3. ASSUME NEW i \in Instances, VolumesDone(i) \/ MountsDone(i) PROVE ShownInv'
  BY <1>3, QuietShown DEF VolumesDone, MountsDone
<1>4. ASSUME NEW i \in Instances, Create(i) PROVE ShownInv'
  BY <1>2, <1>3, <1>4, LookShown, PlainMountShown, MountDirShown DEF Create
<1>5. CASE UNCHANGED vars
  BY <1>5, QuietShown DEF vars
<1>6. QED
  BY <1>1, <1>2, <1>4, <1>5 DEF Next

LEMMA ShownAlways == Spec => [](TypeOK /\ ShownInv)
<1>1. TypeInv => TypeOK
  BY DEF TypeInv
<1>2. QED
  BY <1>1, InitTyped, NextTyped, InitOwn, NextOwn, InitShown, NextShown, PTL DEF Spec

(***************************************************************************)
(* A created instance has, and keeps, every file its volumes had when they *)
(* were looked up, and with that content where the volume is mounted once. *)
(***************************************************************************)
THEOREM NothingMissing == Spec => []MountsComplete
BY ShownAlways, ShownSuffices, PTL

(***************************************************************************)
(* A configMap in a container is exactly the object that was looked up.    *)
(***************************************************************************)
THEOREM ConfigMapsFixed == Spec => []ConfigMapExact
BY ShownAlways, ShownSuffices, PTL

=============================================================================
