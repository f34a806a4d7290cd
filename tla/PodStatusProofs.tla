--------------------------- MODULE PodStatusProofs ---------------------------
(***************************************************************************)
(* Theorems about PodStatus, for every pod, every number of handlers and   *)
(* of requests, and whatever fails.                                        *)
(***************************************************************************)
EXTENDS PodStatus, SequenceTheorems, TLAPS

USE DEF backendVars

(***************************************************************************)
(* Types.  A handler is at a container of the pod, or idle; when it boots  *)
(* a VM this is one of that container; a VM with a waiter has a status.    *)
(***************************************************************************)
FrameOK(f) ==
    /\ f.step = "idle" <=> f = Idle
    /\ f.step # "idle" => f.at \in Containers
    /\ f.step \notin {"idle", "delete"} => f.op = "create"
    /\ f.step = "delete" => f.op = "delete"
    /\ f.step \in {"boot", "running"} =>
           f.vm \in DOMAIN vms /\ vms[f.vm].of = f.at /\ OSv(f.at)

FramesMatch == \A h \in Handlers : FrameOK(frame[h])

WaitersMatch ==
    \A v \in DOMAIN vms : vms[v].waiter = "none" <=> vms[v].cell = 0

TypeInv == TypeOK /\ FramesMatch /\ WaitersMatch

CellStates == {"waiting", "running", "terminated"}
TaskStates == {"none", "container", "created", "running", "stopped"}
FrameType  == [op : {"none", "create", "delete"}, at : 0 .. Len(Backends),
               step : {"idle", "new", "clean", "store", "status", "start", "boot",
                       "running", "register", "delete"},
               vm : 0 .. Len(vms)]

LEMMA SettingFacts ==
    ASSUME setting \in Settings
    PROVE  /\ Containers = 1 .. Len(Backends) /\ Len(Backends) \in Nat
           /\ Len(Backends) >= 1 /\ 1 \in Containers
           /\ \A c \in Containers : OSv(c) \in BOOLEAN /\ c \in Nat /\ c >= 1
<1>1. Backends \in Seq({"osv", "containerd"}) /\ Backends # <<>>
  BY PodStatusAssumption DEF SettingType, Backends
<1>2. Containers = 1 .. Len(Backends) /\ Len(Backends) \in Nat /\ Len(Backends) # 0
  BY <1>1 DEF Containers
<1>3. QED
  BY <1>2 DEF OSv

LEMMA SettingStays ==
    ASSUME UNCHANGED setting
    PROVE  /\ Backends' = Backends /\ Containers' = Containers
           /\ Sides' = Sides /\ (Overlap' <=> Overlap) /\ (OneCreator' <=> OneCreator)
           /\ \A c \in Containers : OSv(c)' <=> OSv(c)
BY DEF Backends, Containers, Sides, Overlap, OneCreator, OSv

LEMMA SeqSubset ==
    ASSUME NEW S, NEW T, S \subseteq T, NEW s \in Seq(S)
    PROVE  s \in Seq(T)
<1>1. s \in [1 .. Len(s) -> T] /\ Len(s) \in Nat
  OBVIOUS
<1>2. QED
  BY <1>1

\* VMs are only added, and stay what they are of.
VMsKept == /\ Len(vms) <= Len(vms')
           /\ DOMAIN vms \subseteq DOMAIN vms'
           /\ \A v \in DOMAIN vms : vms'[v].of = vms[v].of

LEMMA VMFacts ==
    ASSUME TypeOK
    PROVE  /\ vms \in Seq(VMType) /\ DOMAIN vms = 1 .. Len(vms) /\ Len(vms) \in Nat
           /\ \A v \in DOMAIN vms : vms[v] \in VMType
           /\ cells \in Seq(CellStates) /\ DOMAIN cells = 1 .. Len(cells)
           /\ Len(cells) \in Nat
<1>1. vms \in Seq(VMType) /\ cells \in Seq(CellStates)
  BY DEF TypeOK, CellStates
<1>2. QED
  BY <1>1

LEMMA VMsStay ==
    ASSUME TypeOK, UNCHANGED vms PROVE VMsKept
BY VMFacts DEF VMsKept

\* A VM is changed.
LEMMA EditVM ==
    ASSUME TypeOK, NEW v \in DOMAIN vms, NEW r \in VMType, vms' = [vms EXCEPT ![v] = r],
           r.of = vms[v].of
    PROVE  /\ vms' \in Seq(VMType) /\ Len(vms') = Len(vms) /\ DOMAIN vms' = DOMAIN vms
           /\ vms'[v] = r /\ \A w \in DOMAIN vms \ {v} : vms'[w] = vms[w]
           /\ VMsKept
<1>1. vms \in Seq(VMType) /\ v \in 1 .. Len(vms) /\ Len(vms) \in Nat
  BY VMFacts
<1>2. vms' \in Seq(VMType) /\ Len(vms') = Len(vms) /\ DOMAIN vms' = DOMAIN vms
  BY <1>1, ExceptSeq
<1>3. vms'[v] = r /\ \A w \in DOMAIN vms \ {v} : vms'[w] = vms[w]
  BY <1>1
<1>4. QED
  BY <1>1, <1>2, <1>3 DEF VMsKept

\* A VM is added.
LEMMA AddVM ==
    ASSUME TypeOK, NEW r \in VMType, vms' = Append(vms, r)
    PROVE  /\ vms' \in Seq(VMType) /\ Len(vms') = Len(vms) + 1
           /\ DOMAIN vms' = 1 .. Len(vms) + 1
           /\ vms'[Len(vms) + 1] = r /\ \A w \in DOMAIN vms : vms'[w] = vms[w]
           /\ VMsKept
<1>1. vms \in Seq(VMType) /\ DOMAIN vms = 1 .. Len(vms) /\ Len(vms) \in Nat
  BY VMFacts
<1>2. /\ vms' \in Seq(VMType) /\ Len(vms') = Len(vms) + 1
      /\ vms'[Len(vms) + 1] = r /\ \A w \in 1 .. Len(vms) : vms'[w] = vms[w]
  BY <1>1, AppendProperties
<1>3. DOMAIN vms' = 1 .. Len(vms) + 1
  BY <1>2
<1>4. QED
  BY <1>1, <1>2, <1>3 DEF VMsKept

\* A handler goes on.
LEMMA FrameStep ==
    ASSUME TypeInv, UNCHANGED setting, VMsKept, Len(vms') \in Nat, NEW h \in Handlers,
           NEW f, frame' = [frame EXCEPT ![h] = f], f \in FrameType', FrameOK(f)'
    PROVE  /\ frame' \in [Handlers -> FrameType'] /\ FramesMatch'
           /\ frame'[h] = f /\ \A g \in Handlers \ {h} : frame'[g] = frame[g]
<1>1. frame \in [Handlers -> FrameType] /\ Len(vms) \in Nat
  BY VMFacts DEF TypeInv, TypeOK, FrameType
<1>2. FrameType \subseteq FrameType'
  BY <1>1, SettingStays DEF FrameType, VMsKept
<1>3. frame' \in [Handlers -> FrameType']
  BY <1>1, <1>2
<1>4. frame'[h] = f /\ \A g \in Handlers \ {h} : frame'[g] = frame[g]
  BY <1>1
<1>5. ASSUME NEW g \in Handlers \ {h} PROVE FrameOK(frame[g])'
  <2>1. frame'[g] = frame[g] /\ FrameOK(frame[g])
    BY <1>4 DEF TypeInv, FramesMatch
  <2>2. QED
    BY <2>1, SettingStays DEF FrameOK, VMsKept
<1>6. FrameOK(frame[h])'
  BY <1>4 DEF FrameOK
<1>7. FramesMatch'
  BY <1>5, <1>6 DEF FramesMatch
<1>8. QED
  BY <1>3, <1>4, <1>7

LEMMA FramesStay ==
    ASSUME TypeInv, UNCHANGED <<setting, frame>>, VMsKept, Len(vms') \in Nat
    PROVE  frame' \in [Handlers -> FrameType'] /\ FramesMatch'
<1>1. frame \in [Handlers -> FrameType] /\ Len(vms) \in Nat
  BY VMFacts DEF TypeInv, TypeOK, FrameType
<1>2. FrameType \subseteq FrameType'
  BY <1>1, SettingStays DEF FrameType, VMsKept
<1>3. frame' \in [Handlers -> FrameType']
  BY <1>1, <1>2
<1>4. ASSUME NEW g \in Handlers PROVE FrameOK(frame[g])'
  <2>1. frame'[g] = frame[g] /\ FrameOK(frame[g])
    BY DEF TypeInv, FramesMatch
  <2>2. QED
    BY <2>1, SettingStays DEF FrameOK, VMsKept
<1>5. QED
  BY <1>3, <1>4 DEF FramesMatch

LEMMA InitTyped == Init => TypeInv
<1> SUFFICES ASSUME Init PROVE TypeInv
  OBVIOUS
<1>1. setting \in Settings /\ MaxRequests \in Nat
  BY PodStatusAssumption DEF Init
<1>2. cells \in Seq(CellStates) /\ vms \in Seq(VMType) /\ Len(cells) = 0 /\ Len(vms) = 0
  BY DEF Init
<1>3. /\ status \in [Containers -> 0 .. Len(cells)]
      /\ monitor \in [Containers -> 0 .. Len(vms)]
  BY <1>2 DEF Init
<1>4. Idle \in FrameType /\ FrameOK(Idle)
  BY <1>1, <1>2, SettingFacts DEF Idle, FrameType, FrameOK
<1>5. frame \in [Handlers -> FrameType] /\ FramesMatch
  BY <1>4 DEF Init, FramesMatch
<1>6. TypeOK
  <2>1. /\ registered \subseteq Containers /\ stored \subseteq Containers
        /\ task \in [Containers -> TaskStates]
    BY DEF Init, TaskStates
  <2>2. requests \in 0 .. MaxRequests
    BY <1>1 DEF Init
  <2>3. crashed \in BOOLEAN
    BY DEF Init
  <2>4. QED
    BY <1>1, <1>2, <1>3, <1>5, <2>1, <2>2, <2>3 DEF TypeOK, CellStates, TaskStates, FrameType
<1>7. WaitersMatch
  BY DEF Init, WaitersMatch
<1>8. QED
  BY <1>5, <1>6, <1>7 DEF TypeInv

(***************************************************************************)
(* Each step keeps the types.  What the last step of each proof collects   *)
(* is the type of every variable that the step changes.                    *)
(***************************************************************************)
LEMMA CollectTypes ==
    ASSUME TypeInv, UNCHANGED setting,
           registered' \subseteq Containers, stored' \subseteq Containers,
           cells' \in Seq(CellStates), status' \in [Containers -> 0 .. Len(cells')],
           monitor' \in [Containers -> 0 .. Len(vms')], vms' \in Seq(VMType'),
           task' \in [Containers -> TaskStates], frame' \in [Handlers -> FrameType'],
           FramesMatch', WaitersMatch', requests' \in 0 .. MaxRequests,
           crashed' \in BOOLEAN
    PROVE  TypeInv'
<1>1. TypeOK'
  BY SettingStays DEF TypeInv, TypeOK, CellStates, TaskStates, FrameType
<1>2. QED
  BY <1>1 DEF TypeInv

\* What a step of a handler leaves alone keeps its type.
LEMMA KeepTypes ==
    ASSUME TypeInv, UNCHANGED setting
    PROVE  /\ UNCHANGED registered => registered' \subseteq Containers
           /\ UNCHANGED stored => stored' \subseteq Containers
           /\ UNCHANGED cells => cells' \in Seq(CellStates) /\ VMType' = VMType
           /\ UNCHANGED <<cells, status>> => status' \in [Containers -> 0 .. Len(cells')]
           /\ UNCHANGED <<monitor, vms>> => monitor' \in [Containers -> 0 .. Len(vms')]
           /\ UNCHANGED <<cells, vms>> => vms' \in Seq(VMType')
           /\ UNCHANGED vms => WaitersMatch' /\ Len(vms') \in Nat /\ VMsKept
           /\ UNCHANGED task => task' \in [Containers -> TaskStates]
           /\ UNCHANGED requests => requests' \in 0 .. MaxRequests
           /\ UNCHANGED crashed => crashed' \in BOOLEAN
<1>1. TypeOK
  BY DEF TypeInv
<1>2. /\ UNCHANGED registered => registered' \subseteq Containers
      /\ UNCHANGED stored => stored' \subseteq Containers
      /\ UNCHANGED task => task' \in [Containers -> TaskStates]
      /\ UNCHANGED requests => requests' \in 0 .. MaxRequests
  BY <1>1 DEF TypeOK, TaskStates
<1>3. UNCHANGED crashed => crashed' \in BOOLEAN
  BY <1>1 DEF TypeOK
<1>4. UNCHANGED cells => VMType' = VMType
  BY SettingStays DEF VMType
<1>5. UNCHANGED cells => cells' \in Seq(CellStates)
  BY <1>1, VMFacts
<1>6. UNCHANGED <<cells, status>> => status' \in [Containers -> 0 .. Len(cells')]
  BY <1>1 DEF TypeOK
<1>7. UNCHANGED <<monitor, vms>> => monitor' \in [Containers -> 0 .. Len(vms')]
  BY <1>1 DEF TypeOK
<1>8. UNCHANGED <<cells, vms>> => vms' \in Seq(VMType')
  BY <1>1, <1>4, VMFacts
<1>9. UNCHANGED vms => WaitersMatch' /\ Len(vms') \in Nat /\ VMsKept
  BY <1>1, VMFacts, VMsStay DEF TypeInv, WaitersMatch
<1>10. QED
  BY <1>2, <1>3, <1>4, <1>5, <1>6, <1>7, <1>8, <1>9

\* The places a handler goes to.
LEMMA FramePlaces ==
    ASSUME TypeInv, UNCHANGED setting, VMsKept, Len(vms') \in Nat, NEW h \in Handlers
    PROVE  /\ Idle \in FrameType' /\ FrameOK(Idle)'
           /\ \A f : \A step \in {"clean", "store", "status", "register"} :
                 /\ frame[h].op = "create" /\ frame[h].step # "idle"
                 /\ f = [frame[h] EXCEPT !.step = step]
                 => f \in FrameType' /\ FrameOK(f)'
<1>1. frame[h] \in FrameType /\ FrameOK(frame[h]) /\ Len(vms) \in Nat
  BY VMFacts DEF TypeInv, TypeOK, FrameType, FramesMatch
<1>2. FrameType \subseteq FrameType'
  BY <1>1, SettingStays DEF FrameType, VMsKept
<1>3. setting \in Settings /\ Len(Backends) \in Nat
  BY SettingFacts DEF TypeInv, TypeOK
<1>4. Idle \in FrameType'
  BY <1>3, SettingStays DEF Idle, FrameType
<1>5. FrameOK(Idle)'
  BY DEF Idle, FrameOK
<1>6. ASSUME NEW step \in {"clean", "store", "status", "register"},
             frame[h].op = "create", frame[h].step # "idle",
             NEW f, f = [frame[h] EXCEPT !.step = step]
      PROVE  f \in FrameType' /\ FrameOK(f)'
  <2>1. f \in FrameType /\ f.step = step /\ f.at = frame[h].at /\ f.op = "create"
    BY <1>1, <1>6 DEF FrameType
  <2>2. frame[h].at \in Containers
    BY <1>1, <1>6 DEF FrameOK
  <2>3. f # Idle
    BY <2>1 DEF Idle
  <2>4. FrameOK(f)'
    BY <2>1, <2>2, <2>3, SettingStays DEF FrameOK
  <2>5. QED
    BY <1>2, <2>1, <2>4
<1>7. QED
  BY <1>4, <1>5, <1>6

LEMMA FreshFrame ==
    ASSUME TypeInv, UNCHANGED setting, Len(vms') \in Nat,
           NEW op \in {"create", "delete"}, NEW at \in Containers,
           NEW step \in {"new", "start", "delete"}, step = "delete" <=> op = "delete",
           NEW f, f = [op |-> op, at |-> at, step |-> step, vm |-> 0]
    PROVE  f \in FrameType' /\ FrameOK(f)'
<1>1. setting \in Settings
  BY DEF TypeInv, TypeOK
<1>2. at \in 0 .. Len(Backends)
  BY <1>1, SettingFacts
<1>3. f \in FrameType'
  BY <1>2, SettingStays DEF FrameType
<1>4. f # Idle
  BY DEF Idle
<1>5. FrameOK(f)'
  BY <1>4, SettingStays DEF FrameOK
<1>6. QED
  BY <1>3, <1>5

\* The next container of a loop, or what is after it.
LEMMA NextInFacts ==
    ASSUME TypeInv, UNCHANGED setting, VMsKept, Len(vms') \in Nat, NEW h \in Handlers,
           frame[h].step # "idle", NEW step \in {"new", "start", "delete"},
           step = "delete" <=> frame[h].op = "delete",
           NEW after, NextIn(h, step, after), after \in FrameType', FrameOK(after)'
    PROVE  /\ frame' \in [Handlers -> FrameType'] /\ FramesMatch'
           /\ \A g \in Handlers \ {h} : frame'[g] = frame[g]
           /\ frame'[h] = IF frame[h].at < Len(Backends)
                          THEN [op |-> frame[h].op, at |-> frame[h].at + 1,
                                step |-> step, vm |-> 0]
                          ELSE after
           /\ frame[h].at < Len(Backends) => frame[h].at + 1 \in Containers
<1>1. frame \in [Handlers -> FrameType] /\ frame[h] \in FrameType /\ FrameOK(frame[h])
  BY DEF TypeInv, TypeOK, FrameType, FramesMatch
<1>2. setting \in Settings
  BY DEF TypeInv, TypeOK
<1>3. frame[h].at \in Containers /\ frame[h].op \in {"create", "delete"}
  BY <1>1 DEF FrameOK
<1>4. frame[h].at < Len(Backends) => frame[h].at + 1 \in Containers
  BY <1>2, <1>3, SettingFacts
<1> DEFINE next == [op |-> frame[h].op, at |-> frame[h].at + 1, step |-> step, vm |-> 0]
<1>6. CASE frame[h].at < Len(Backends)
  <2>1. next \in FrameType' /\ \A f : f = next => FrameOK(f)'
    BY <1>3, <1>4, <1>6, FreshFrame
  <2>2. PICK f : f = next
    OBVIOUS
  <2>3. frame' = [frame EXCEPT ![h] = f]
    BY <1>6, <2>2 DEF NextIn
  <2>4. f \in FrameType' /\ FrameOK(f)'
    BY <2>1, <2>2
  <2>5. /\ frame' \in [Handlers -> FrameType'] /\ FramesMatch'
        /\ frame'[h] = f /\ \A g \in Handlers \ {h} : frame'[g] = frame[g]
    BY <2>3, <2>4, FrameStep
  <2>6. QED
    BY <1>4, <1>6, <2>2, <2>5
<1>7. CASE ~(frame[h].at < Len(Backends))
  <2>1. frame' = [frame EXCEPT ![h] = after]
    BY <1>7 DEF NextIn
  <2>2. /\ frame' \in [Handlers -> FrameType'] /\ FramesMatch'
        /\ frame'[h] = after /\ \A g \in Handlers \ {h} : frame'[g] = frame[g]
    BY <2>1, FrameStep
  <2>3. QED
    BY <1>7, <2>2
<1>8. QED
  BY <1>6, <1>7

\* A handler goes on, or gives up: the forms used by all the steps.
LEMMA GotoFacts ==
    ASSUME TypeInv, UNCHANGED setting, VMsKept, Len(vms') \in Nat, NEW h \in Handlers,
           frame[h].step \notin {"idle", "delete"},
           NEW step \in {"clean", "store", "status", "register"}, Goto(h, step)
    PROVE  /\ frame' \in [Handlers -> FrameType'] /\ FramesMatch'
           /\ frame'[h] = [frame[h] EXCEPT !.step = step]
           /\ \A g \in Handlers \ {h} : frame'[g] = frame[g]
<1>1. frame[h].op = "create"
  BY DEF TypeInv, FramesMatch, FrameOK
<1>2. PICK f : f = [frame[h] EXCEPT !.step = step]
  OBVIOUS
<1>3. f \in FrameType' /\ FrameOK(f)'
  BY <1>1, <1>2, FramePlaces
<1>4. frame' = [frame EXCEPT ![h] = f]
  BY <1>2 DEF Goto
<1>5. QED
  BY <1>2, <1>3, <1>4, FrameStep

LEMMA AbortFacts ==
    ASSUME TypeInv, UNCHANGED setting, VMsKept, Len(vms') \in Nat, NEW h \in Handlers,
           Abort(h)
    PROVE  /\ frame' \in [Handlers -> FrameType'] /\ FramesMatch'
           /\ frame'[h] = Idle
           /\ \A g \in Handlers \ {h} : frame'[g] = frame[g]
<1>1. PICK f : f = Idle
  OBVIOUS
<1>2. f \in FrameType' /\ FrameOK(f)'
  BY <1>1, FramePlaces
<1>3. frame' = [frame EXCEPT ![h] = f]
  BY <1>1 DEF Abort
<1>4. QED
  BY <1>1, <1>2, <1>3, FrameStep

\* What DeleteInstance does, to a container of either backend.
LEMMA DeleteFacts ==
    ASSUME TypeInv, UNCHANGED setting, NEW c \in Containers, DeleteInstance(c)
    PROVE  /\ UNCHANGED cells /\ VMType' = VMType
           /\ vms' \in Seq(VMType) /\ Len(vms') = Len(vms) /\ DOMAIN vms' = DOMAIN vms
           /\ VMsKept
           /\ \A v \in DOMAIN vms : \/ vms'[v] = vms[v]
                                    \/ vms'[v] = [vms[v] EXCEPT !.alive = FALSE]
           /\ stored' \subseteq stored
           /\ task' \in [Containers -> TaskStates]
           /\ status' \in [Containers -> 0 .. Len(cells)]
           /\ status'[c] \in {status[c], 0}
           /\ \A d \in Containers \ {c} : status'[d] = status[d]
           /\ monitor' \in [Containers -> 0 .. Len(vms)]
<1>1. TypeOK
  BY DEF TypeInv
<1>2. /\ vms \in Seq(VMType) /\ DOMAIN vms = 1 .. Len(vms) /\ Len(vms) \in Nat
      /\ Len(cells) \in Nat
      /\ \A v \in DOMAIN vms : vms[v] \in VMType
  BY <1>1, VMFacts
<1>3. /\ status \in [Containers -> 0 .. Len(cells)]
      /\ monitor \in [Containers -> 0 .. Len(vms)]
      /\ task \in [Containers -> TaskStates]
  BY <1>1 DEF TypeOK, TaskStates
<1>4. CASE UNCHANGED backendVars
  BY <1>1, <1>2, <1>3, <1>4, KeepTypes, VMsStay
<1>5. CASE DeleteTask(c) /\ ~OSv(c)
  <2>1. UNCHANGED <<cells, status, stored, monitor, vms>>
    BY <1>5 DEF DeleteTask
  <2>2. PICK s \in TaskStates : task' = [task EXCEPT ![c] = s]
    BY <1>3, <1>5 DEF DeleteTask, TaskStates
  <2>3. task' \in [Containers -> TaskStates]
    BY <1>3, <2>2
  <2>4. QED
    BY <1>1, <1>2, <1>3, <2>1, <2>3, KeepTypes, VMsStay
<1>6. CASE c \in stored /\ DeleteVM(c)
  <2>1. /\ vms' \in Stopped(c) /\ UNCHANGED <<cells, task>>
        /\ \/ /\ stored' = stored \ {c}
              /\ monitor' = [monitor EXCEPT ![c] = 0]
              /\ status' = [status EXCEPT ![c] = 0]
           \/ UNCHANGED <<stored, monitor, status>>
    BY <1>6 DEF DeleteVM
  <2>2. /\ VMType' = VMType
    BY <2>1, KeepTypes
  <2>3. /\ stored' \subseteq stored
        /\ status' \in [Containers -> 0 .. Len(cells)]
        /\ status'[c] \in {status[c], 0}
        /\ \A d \in Containers \ {c} : status'[d] = status[d]
        /\ monitor' \in [Containers -> 0 .. Len(vms)]
    <3>1. CASE /\ stored' = stored \ {c}
               /\ monitor' = [monitor EXCEPT ![c] = 0]
               /\ status' = [status EXCEPT ![c] = 0]
      <4>1. 0 \in 0 .. Len(cells) /\ 0 \in 0 .. Len(vms)
        BY <1>2
      <4>2. monitor' \in [Containers -> 0 .. Len(vms)]
        BY <1>3, <3>1, <4>1
      <4>3. QED
        BY <1>3, <3>1, <4>1, <4>2
    <3>2. CASE UNCHANGED <<stored, monitor, status>>
      BY <1>3, <3>2
    <3>3. QED
      BY <2>1, <3>1, <3>2
  <2>4. CASE UNCHANGED vms
    BY <1>1, <1>2, <1>3, <2>1, <2>2, <2>3, <2>4, VMsStay
  <2>5. CASE monitor[c] # 0 /\ vms' = [vms EXCEPT ![monitor[c]].alive = FALSE]
    <3> DEFINE v == monitor[c]
               r == [vms[v] EXCEPT !.alive = FALSE]
    <3>1. v \in DOMAIN vms
      BY <1>2, <1>3, <2>5
    <3>2. vms[v] \in VMType
      BY <1>2, <3>1
    <3>3. r \in VMType /\ r.of = vms[v].of
      BY <3>2 DEF VMType
    <3>4. vms' = [vms EXCEPT ![v] = r]
      BY <2>5
    <3> HIDE DEF v, r
    <3>5. /\ vms' \in Seq(VMType) /\ Len(vms') = Len(vms) /\ DOMAIN vms' = DOMAIN vms
          /\ vms'[v] = r /\ \A w \in DOMAIN vms \ {v} : vms'[w] = vms[w]
          /\ VMsKept
      BY <1>1, <3>1, <3>3, <3>4, EditVM
    <3>6. \A w \in DOMAIN vms : vms'[w] = vms[w] \/ vms'[w] = [vms[w] EXCEPT !.alive = FALSE]
      BY <3>5 DEF r
    <3>7. QED
      BY <1>3, <2>1, <2>2, <2>3, <3>5, <3>6
  <2>6. QED
    BY <2>1, <2>4, <2>5 DEF Stopped
<1>7. QED
  BY <1>4, <1>5, <1>6 DEF DeleteInstance, DeleteVM

LEMMA BeginTyped ==
    ASSUME TypeInv, NEW h \in Handlers,
           Begin(h, "create", "new") \/ Begin(h, "delete", "delete")
    PROVE  TypeInv'
<1>1. UNCHANGED <<setting, registered, backendVars, crashed>>
  BY DEF Begin
<1>2. 1 \in Containers /\ requests \in 0 .. MaxRequests /\ MaxRequests \in Nat
  BY SettingFacts, PodStatusAssumption DEF TypeInv, TypeOK
<1>3. requests' \in 0 .. MaxRequests
  BY <1>2 DEF Begin
<1>4. VMsKept /\ Len(vms') \in Nat
  BY <1>1, KeepTypes
<1>5. PICK f : f \in {[op |-> "create", at |-> 1, step |-> "new", vm |-> 0],
                     [op |-> "delete", at |-> 1, step |-> "delete", vm |-> 0]}
               /\ frame' = [frame EXCEPT ![h] = f]
  BY DEF Begin
<1>6. f \in FrameType' /\ FrameOK(f)'
  BY <1>1, <1>2, <1>4, <1>5, FreshFrame
<1>7. frame' \in [Handlers -> FrameType'] /\ FramesMatch'
  BY <1>1, <1>4, <1>5, <1>6, FrameStep
<1>8. QED
  BY <1>1, <1>3, <1>7, KeepTypes, CollectTypes

LEMMA newInstanceTyped ==
    ASSUME TypeInv, NEW h \in Handlers, newInstance(h) PROVE TypeInv'
<1>1. UNCHANGED <<setting, registered, backendVars, requests, crashed>>
  BY DEF newInstance
<1>2. VMsKept /\ Len(vms') \in Nat
  BY <1>1, KeepTypes
<1>3. frame' \in [Handlers -> FrameType'] /\ FramesMatch'
  <2>1. frame[h].step = "new" /\ (Abort(h) \/ Goto(h, "clean"))
    BY DEF newInstance, At
  <2>2. QED
    BY <1>1, <1>2, <2>1, GotoFacts, AbortFacts
<1>4. QED
  BY <1>1, <1>3, KeepTypes, CollectTypes

\* DeleteInstance keeps the types; the waiters of VMs stay.
LEMMA DeleteTyped ==
    ASSUME TypeInv, NEW c \in Containers, DeleteInstance(c) \/ UNCHANGED backendVars,
           UNCHANGED <<setting, registered, requests, crashed>>,
           frame' \in [Handlers -> FrameType'], FramesMatch'
    PROVE  TypeInv'
<1>1. CASE UNCHANGED backendVars
  BY <1>1, KeepTypes, CollectTypes
<1>2. CASE DeleteInstance(c)
  <2>1. /\ UNCHANGED cells /\ VMType' = VMType
        /\ vms' \in Seq(VMType) /\ Len(vms') = Len(vms) /\ DOMAIN vms' = DOMAIN vms
        /\ \A v \in DOMAIN vms : \/ vms'[v] = vms[v]
                                 \/ vms'[v] = [vms[v] EXCEPT !.alive = FALSE]
        /\ stored' \subseteq stored
        /\ task' \in [Containers -> TaskStates]
        /\ status' \in [Containers -> 0 .. Len(cells)]
        /\ monitor' \in [Containers -> 0 .. Len(vms)]
    BY <1>2, DeleteFacts
  <2>2. WaitersMatch'
    <3>1. ASSUME NEW v \in DOMAIN vms PROVE vms'[v].waiter = "none" <=> vms'[v].cell = 0
      <4>1. vms[v] \in VMType
        BY VMFacts DEF TypeInv
      <4>2. vms'[v].waiter = vms[v].waiter /\ vms'[v].cell = vms[v].cell
        BY <2>1, <4>1 DEF VMType
      <4>3. QED
        BY <4>2 DEF TypeInv, WaitersMatch
    <3>2. QED
      BY <2>1, <3>1 DEF WaitersMatch
  <2>3. stored' \subseteq Containers
    BY <2>1 DEF TypeInv, TypeOK
  <2>4. QED
    BY <2>1, <2>2, <2>3, KeepTypes, CollectTypes
<1>3. QED
  BY <1>1, <1>2

LEMMA DeleteKeeps ==
    ASSUME TypeInv, NEW c \in Containers, DeleteInstance(c) \/ UNCHANGED backendVars,
           UNCHANGED setting
    PROVE  VMsKept /\ Len(vms') \in Nat
<1>1. Len(vms) \in Nat
  BY VMFacts DEF TypeInv
<1>2. QED
  BY <1>1, DeleteFacts, KeepTypes

LEMMA CleanInstanceTyped ==
    ASSUME TypeInv, NEW h \in Handlers, CleanInstance(h) PROVE TypeInv'
<1>1. /\ frame[h].step = "clean" /\ DeleteInstance(frame[h].at) /\ Goto(h, "store")
      /\ UNCHANGED <<setting, registered, requests, crashed>>
  BY DEF CleanInstance, At
<1>2. frame[h].at \in Containers
  BY <1>1 DEF TypeInv, FramesMatch, FrameOK
<1>3. VMsKept /\ Len(vms') \in Nat
  BY <1>1, <1>2, DeleteKeeps
<1>4. frame' \in [Handlers -> FrameType'] /\ FramesMatch'
  BY <1>1, <1>3, GotoFacts
<1>5. QED
  BY <1>1, <1>2, <1>4, DeleteTyped

LEMMA DeleteNextTyped ==
    ASSUME TypeInv, NEW h \in Handlers, DeleteNext(h) PROVE TypeInv'
<1>1. /\ frame[h].step = "delete"
      /\ DeleteInstance(frame[h].at) \/ UNCHANGED backendVars
      /\ NextIn(h, "delete", Idle)
      /\ UNCHANGED <<setting, registered, requests, crashed>>
  BY DEF DeleteNext, At
<1>2. frame[h].at \in Containers /\ frame[h].op = "delete"
  BY <1>1 DEF TypeInv, FramesMatch, FrameOK
<1>3. VMsKept /\ Len(vms') \in Nat
  BY <1>1, <1>2, DeleteKeeps
<1>4. Idle \in FrameType' /\ FrameOK(Idle)'
  BY <1>1, <1>3, FramePlaces
<1>5. frame' \in [Handlers -> FrameType'] /\ FramesMatch'
  <2>1. PICK after : after = Idle
    OBVIOUS
  <2>2. NextIn(h, "delete", after) /\ after \in FrameType' /\ FrameOK(after)'
    BY <1>1, <1>4, <2>1
  <2>3. QED
    BY <1>1, <1>2, <1>3, <2>2, NextInFacts
<1>6. QED
  BY <1>1, <1>2, <1>5, DeleteTyped

LEMMA StoreInstanceTyped ==
    ASSUME TypeInv, NEW h \in Handlers, StoreInstance(h) PROVE TypeInv'
<1>1. /\ frame[h].step = "store" /\ (Goto(h, "status") \/ Abort(h))
      /\ UNCHANGED <<setting, registered, cells, status, monitor, vms, requests, crashed>>
  BY DEF StoreInstance, At
<1>2. frame[h].at \in Containers
  BY <1>1 DEF TypeInv, FramesMatch, FrameOK
<1>3. frame' \in [Handlers -> FrameType'] /\ FramesMatch'
  BY <1>1, KeepTypes, GotoFacts, AbortFacts
<1>4. stored' \subseteq Containers
  BY <1>2 DEF StoreInstance, TypeInv, TypeOK
<1>5. task' \in [Containers -> TaskStates]
  <2>1. \/ UNCHANGED task
        \/ \E s \in TaskStates : task' = [task EXCEPT ![frame[h].at] = s]
    BY DEF StoreInstance, TaskStates
  <2>2. QED
    BY <1>2, <2>1 DEF TypeInv, TypeOK, TaskStates
<1>6. QED
  BY <1>1, <1>3, <1>4, <1>5, KeepTypes, CollectTypes

LEMMA StartTaskTyped ==
    ASSUME TypeInv, NEW h \in Handlers, StartTask(h) PROVE TypeInv'
<1>1. /\ frame[h].step = "start" /\ Goto(h, "register")
      /\ UNCHANGED <<setting, registered, cells, status, stored, monitor, vms, requests,
                     crashed>>
  BY DEF StartTask, At
<1>2. frame' \in [Handlers -> FrameType'] /\ FramesMatch'
  BY <1>1, KeepTypes, GotoFacts
<1>3. task' \in [Containers -> TaskStates]
  BY DEF StartTask, TypeInv, TypeOK, TaskStates
<1>4. QED
  BY <1>1, <1>2, <1>3, KeepTypes, CollectTypes

LEMMA TaskExitsTyped ==
    ASSUME TypeInv, NEW c \in Containers, TaskExits(c) PROVE TypeInv'
<1>1. UNCHANGED <<setting, registered, cells, status, stored, monitor, vms, frame, requests,
                  crashed>>
  BY DEF TaskExits
<1>2. frame' \in [Handlers -> FrameType'] /\ FramesMatch'
  BY <1>1, KeepTypes, FramesStay
<1>3. task' \in [Containers -> TaskStates]
  BY DEF TaskExits, TypeInv, TypeOK, TaskStates
<1>4. QED
  BY <1>1, <1>2, <1>3, KeepTypes, CollectTypes

LEMMA RegisterTyped ==
    ASSUME TypeInv, NEW h \in Handlers, RegisterInstance(h) PROVE TypeInv'
<1>1. /\ frame[h].step = "register" /\ registered' = registered \cup {frame[h].at}
      /\ NextIn(h, "start", Idle) /\ UNCHANGED <<setting, backendVars, requests, crashed>>
  BY DEF RegisterInstance, At
<1>2. frame[h].at \in Containers /\ frame[h].op = "create"
  BY <1>1 DEF TypeInv, FramesMatch, FrameOK
<1>3. VMsKept /\ Len(vms') \in Nat
  BY <1>1, KeepTypes
<1>4. Idle \in FrameType' /\ FrameOK(Idle)'
  BY <1>1, <1>3, FramePlaces
<1>5. frame' \in [Handlers -> FrameType'] /\ FramesMatch'
  <2>1. PICK after : after = Idle
    OBVIOUS
  <2>2. NextIn(h, "start", after) /\ after \in FrameType' /\ FrameOK(after)'
    BY <1>1, <1>4, <2>1
  <2>3. QED
    BY <1>1, <1>2, <1>3, <2>2, NextInFacts
<1>6. registered' \subseteq Containers
  BY <1>1, <1>2 DEF TypeInv, TypeOK
<1>7. QED
  BY <1>1, <1>5, <1>6, KeepTypes, CollectTypes

\* A new status, for a VM.
LEMMA NewStatusFacts ==
    ASSUME TypeInv, NEW h \in Handlers, NewStatus(h)
    PROVE  /\ UNCHANGED <<setting, registered, stored, monitor, vms, task, requests, crashed>>
           /\ frame[h].at \in Containers /\ frame[h].step = "status"
           /\ frame[h].op = "create"
           /\ cells' \in Seq(CellStates) /\ Len(cells') >= Len(cells)
           /\ \A x \in DOMAIN cells : cells'[x] = cells[x]
           /\ status' \in [Containers -> 0 .. Len(cells')]
           /\ \A d \in Containers \ {frame[h].at} : status'[d] = status[d]
           /\ ~OSv(frame[h].at) => UNCHANGED <<cells, status>>
           /\ OSv(frame[h].at) => status'[frame[h].at] = Len(cells) + 1
           /\ vms' \in Seq(VMType')
           /\ frame' \in [Handlers -> FrameType'] /\ FramesMatch'
           /\ \A g \in Handlers \ {h} : frame'[g] = frame[g]
           /\ frame'[h] = IF frame[h].at < Len(Backends)
                          THEN [op |-> "create", at |-> frame[h].at + 1,
                                step |-> "new", vm |-> 0]
                          ELSE [op |-> "create", at |-> 1, step |-> "start", vm |-> 0]
<1> DEFINE c == frame[h].at
<1>1. /\ UNCHANGED <<setting, registered, stored, monitor, vms, task, requests, crashed>>
      /\ frame[h].step = "status" /\ NextIn(h, "new", ToStart(h))
  BY DEF NewStatus, At
<1>2. c \in Containers /\ frame[h].op = "create" /\ TypeOK
  BY <1>1 DEF TypeInv, FramesMatch, FrameOK
<1>3. /\ cells \in Seq(CellStates) /\ DOMAIN cells = 1 .. Len(cells) /\ Len(cells) \in Nat
      /\ vms \in Seq(VMType) /\ status \in [Containers -> 0 .. Len(cells)]
  BY <1>2, VMFacts DEF TypeOK
<1>4. /\ cells' \in Seq(CellStates) /\ Len(cells') >= Len(cells) /\ Len(cells') \in Nat
      /\ \A x \in DOMAIN cells : cells'[x] = cells[x]
      /\ status' \in [Containers -> 0 .. Len(cells')]
      /\ \A d \in Containers \ {c} : status'[d] = status[d]
      /\ ~OSv(c) => UNCHANGED <<cells, status>>
      /\ OSv(c) => status'[c] = Len(cells) + 1
  <2>1. CASE OSv(c)
    <3>1. cells' = Append(cells, "waiting") /\ status' = [status EXCEPT ![c] = Len(cells) + 1]
      BY <2>1 DEF NewStatus
    <3>2. "waiting" \in CellStates
      BY DEF CellStates
    <3>3. /\ cells' \in Seq(CellStates) /\ Len(cells') = Len(cells) + 1
          /\ \A x \in 1 .. Len(cells) : cells'[x] = cells[x]
      BY <1>3, <3>1, <3>2, AppendProperties
    <3>4. /\ Len(cells') >= Len(cells) /\ Len(cells) + 1 \in 0 .. Len(cells')
          /\ 0 .. Len(cells) \subseteq 0 .. Len(cells') /\ Len(cells') \in Nat
      BY <1>3, <3>3
    <3>5. status' \in [Containers -> 0 .. Len(cells')]
      BY <1>3, <3>1, <3>4
    <3>6. /\ \A d \in Containers \ {c} : status'[d] = status[d]
          /\ status'[c] = Len(cells) + 1
      BY <1>2, <1>3, <3>1
    <3>7. QED
      BY <1>3, <2>1, <3>3, <3>4, <3>5, <3>6
  <2>2. CASE ~OSv(c)
    <3>1. UNCHANGED <<cells, status>>
      BY <2>2 DEF NewStatus
    <3>2. QED
      BY <1>3, <2>2, <3>1
  <2>3. QED
    BY <2>1, <2>2
<1>5. vms' \in Seq(VMType')
  <2>1. VMType \subseteq VMType'
    BY <1>1, <1>3, <1>4, SettingStays DEF VMType
  <2>2. QED
    BY <1>1, <1>3, <2>1, SeqSubset
<1>6. VMsKept /\ Len(vms') \in Nat
  BY <1>1, KeepTypes
<1>7. /\ frame' \in [Handlers -> FrameType'] /\ FramesMatch'
      /\ \A g \in Handlers \ {h} : frame'[g] = frame[g]
      /\ frame'[h] = IF c < Len(Backends)
                     THEN [op |-> "create", at |-> c + 1, step |-> "new", vm |-> 0]
                     ELSE [op |-> "create", at |-> 1, step |-> "start", vm |-> 0]
  <2>1. PICK after : after = [op |-> "create", at |-> 1, step |-> "start", vm |-> 0]
    OBVIOUS
  <2>2. 1 \in Containers
    BY <1>2, SettingFacts DEF TypeOK
  <2>3. after \in FrameType' /\ FrameOK(after)'
    BY <1>1, <1>6, <2>1, <2>2, FreshFrame
  <2>4. NextIn(h, "new", after)
    BY <1>1, <1>2, <2>1 DEF ToStart
  <2>5. /\ frame' \in [Handlers -> FrameType'] /\ FramesMatch'
        /\ \A g \in Handlers \ {h} : frame'[g] = frame[g]
        /\ frame'[h] = IF frame[h].at < Len(Backends)
                       THEN [op |-> frame[h].op, at |-> frame[h].at + 1,
                             step |-> "new", vm |-> 0]
                       ELSE after
    BY <1>1, <1>2, <1>6, <2>3, <2>4, NextInFacts
  <2>6. QED
    BY <1>2, <2>1, <2>5
<1>8. QED
  BY <1>1, <1>2, <1>4, <1>5, <1>7

LEMMA NewStatusTyped ==
    ASSUME TypeInv, NEW h \in Handlers, NewStatus(h) PROVE TypeInv'
BY NewStatusFacts, KeepTypes, CollectTypes

\* A VM is prepared, with its side processes.
LEMMA StartSidesFacts ==
    ASSUME TypeInv, NEW h \in Handlers, StartSides(h), frame[h].at \in stored,
           vms' = Append(vms, NewVM(frame[h].at)),
           frame' = [frame EXCEPT ![h].step = "boot", ![h].vm = Len(vms) + 1]
    PROVE  /\ vms' \in Seq(VMType) /\ Len(vms') = Len(vms) + 1
           /\ DOMAIN vms' = 1 .. Len(vms) + 1
           /\ \A w \in DOMAIN vms : vms'[w] = vms[w]
           /\ vms'[Len(vms) + 1] = NewVM(frame[h].at)
           /\ frame' \in [Handlers -> FrameType'] /\ FramesMatch'
           /\ \A g \in Handlers \ {h} : frame'[g] = frame[g]
           /\ frame'[h] = [op |-> "create", at |-> frame[h].at, step |-> "boot",
                           vm |-> Len(vms) + 1]
<1> DEFINE c == frame[h].at
           new == [op |-> "create", at |-> c, step |-> "boot", vm |-> Len(vms) + 1]
<1>1. frame[h].step = "start" /\ OSv(c) /\ UNCHANGED <<setting, cells>>
  BY DEF StartSides, At
<1>2. c \in Containers /\ frame[h].op = "create" /\ TypeOK
  BY <1>1 DEF TypeInv, FramesMatch, FrameOK
<1>3. Len(vms) \in Nat /\ Len(cells) \in Nat /\ DOMAIN vms = 1 .. Len(vms)
  BY <1>2, VMFacts
<1>4. NewVM(c) \in VMType
  BY <1>2, <1>3 DEF NewVM, VMType
<1>5. /\ vms' \in Seq(VMType) /\ Len(vms') = Len(vms) + 1
      /\ DOMAIN vms' = 1 .. Len(vms) + 1
      /\ vms'[Len(vms) + 1] = NewVM(c) /\ \A w \in DOMAIN vms : vms'[w] = vms[w]
      /\ VMsKept
  BY <1>2, <1>4, AddVM
<1>6. frame' = [frame EXCEPT ![h] = new]
  <2>1. frame[h] \in FrameType /\ frame \in [Handlers -> FrameType]
    BY <1>2 DEF TypeOK, FrameType
  <2>2. frame'[h] = new
    BY <1>2, <2>1 DEF FrameType
  <2>3. \A g \in Handlers \ {h} : frame'[g] = frame[g]
    BY <2>1
  <2>4. DOMAIN frame' = Handlers /\ frame' = [g \in Handlers |-> frame'[g]]
    BY <2>1
  <2>5. QED
    BY <2>1, <2>2, <2>3, <2>4
<1>7. PICK f : f = new
  OBVIOUS
<1>8. f \in FrameType'
  <2>1. c \in 0 .. Len(Backends)
    BY <1>2, SettingFacts DEF TypeOK
  <2>2. Len(vms) + 1 \in 0 .. Len(vms')
    BY <1>3, <1>5
  <2>3. QED
    BY <1>1, <1>7, <2>1, <2>2, SettingStays DEF FrameType
<1>9. FrameOK(f)'
  <2>1. f # Idle
    BY <1>7 DEF Idle
  <2>2. f.vm \in DOMAIN vms' /\ vms'[f.vm].of = c
    BY <1>3, <1>5, <1>7 DEF NewVM
  <2>3. f.step = "boot" /\ f.at = c /\ f.op = "create"
    BY <1>7
  <2>4. QED
    BY <1>1, <1>2, <2>1, <2>2, <2>3, SettingStays DEF FrameOK
<1>10. /\ frame' \in [Handlers -> FrameType'] /\ FramesMatch'
       /\ frame'[h] = f /\ \A g \in Handlers \ {h} : frame'[g] = frame[g]
  <2>1. Len(vms') \in Nat
    BY <1>3, <1>5
  <2>2. QED
    BY <1>1, <1>5, <1>6, <1>7, <1>8, <1>9, <2>1, FrameStep
<1>11. QED
  BY <1>5, <1>7, <1>10

LEMMA StartSidesTyped ==
    ASSUME TypeInv, NEW h \in Handlers, StartSides(h) PROVE TypeInv'
<1>1. /\ frame[h].step = "start"
      /\ UNCHANGED <<setting, registered, cells, status, stored, monitor, task, requests,
                     crashed>>
  BY DEF StartSides, At
<1>2. CASE Goto(h, "register") /\ UNCHANGED vms
  <2>1. frame' \in [Handlers -> FrameType'] /\ FramesMatch'
    BY <1>1, <1>2, KeepTypes, GotoFacts
  <2>2. QED
    BY <1>1, <1>2, <2>1, KeepTypes, CollectTypes
<1>3. CASE /\ frame[h].at \in stored
           /\ vms' = Append(vms, NewVM(frame[h].at))
           /\ frame' = [frame EXCEPT ![h].step = "boot", ![h].vm = Len(vms) + 1]
  <2>1. /\ vms' \in Seq(VMType) /\ Len(vms') = Len(vms) + 1
        /\ DOMAIN vms' = 1 .. Len(vms) + 1
        /\ \A w \in DOMAIN vms : vms'[w] = vms[w]
        /\ vms'[Len(vms) + 1] = NewVM(frame[h].at)
        /\ frame' \in [Handlers -> FrameType'] /\ FramesMatch'
    BY <1>3, StartSidesFacts
  <2>2. Len(vms) \in Nat /\ DOMAIN vms = 1 .. Len(vms)
    BY VMFacts DEF TypeInv
  <2>3. WaitersMatch'
    <3>1. \A w \in DOMAIN vms' : w = Len(vms) + 1 \/ w \in DOMAIN vms
      BY <2>1, <2>2
    <3>2. QED
      BY <2>1, <3>1 DEF NewVM, TypeInv, WaitersMatch
  <2>4. monitor' \in [Containers -> 0 .. Len(vms')]
    <3>1. 0 .. Len(vms) \subseteq 0 .. Len(vms')
      BY <2>1, <2>2
    <3>2. QED
      BY <1>1, <3>1 DEF TypeInv, TypeOK
  <2>5. vms' \in Seq(VMType')
    BY <1>1, <2>1, KeepTypes
  <2>6. QED
    BY <1>1, <2>1, <2>3, <2>4, <2>5, KeepTypes, CollectTypes
<1>4. QED
  BY <1>2, <1>3 DEF StartSides

\* A VM is changed, and perhaps what a status says.
LEMMA EditFacts ==
    ASSUME TypeInv, UNCHANGED setting, NEW v \in DOMAIN vms, NEW r \in VMType,
           r.of = vms[v].of, r.waiter = "none" <=> r.cell = 0,
           vms' = [vms EXCEPT ![v] = r], Len(cells') = Len(cells)
    PROVE  /\ vms' \in Seq(VMType') /\ WaitersMatch' /\ VMsKept
           /\ Len(vms') = Len(vms) /\ Len(vms') \in Nat /\ DOMAIN vms' = DOMAIN vms
           /\ vms'[v] = r /\ \A w \in DOMAIN vms \ {v} : vms'[w] = vms[w]
           /\ UNCHANGED status => status' \in [Containers -> 0 .. Len(cells')]
           /\ UNCHANGED monitor => monitor' \in [Containers -> 0 .. Len(vms')]
<1>1. TypeOK /\ Len(vms) \in Nat
  BY VMFacts DEF TypeInv
<1>2. /\ vms' \in Seq(VMType) /\ Len(vms') = Len(vms) /\ DOMAIN vms' = DOMAIN vms
      /\ vms'[v] = r /\ \A w \in DOMAIN vms \ {v} : vms'[w] = vms[w]
      /\ VMsKept
  BY <1>1, EditVM
<1>3. VMType' = VMType
  BY SettingStays DEF VMType
<1>4. WaitersMatch'
  BY <1>2 DEF TypeInv, WaitersMatch
<1>5. QED
  BY <1>1, <1>2, <1>3, <1>4 DEF TypeOK

LEMMA EditAlive ==
    ASSUME TypeInv, UNCHANGED <<setting, cells>>, NEW v \in DOMAIN vms, NEW b \in BOOLEAN,
           vms' = [vms EXCEPT ![v].alive = b]
    PROVE  /\ vms' \in Seq(VMType') /\ WaitersMatch' /\ VMsKept
           /\ Len(vms') = Len(vms) /\ Len(vms') \in Nat /\ DOMAIN vms' = DOMAIN vms
           /\ \A w \in DOMAIN vms \ {v} : vms'[w] = vms[w]
           /\ vms'[v].of = vms[v].of /\ vms'[v].alive = b
           /\ vms'[v].waiter = vms[v].waiter /\ vms'[v].cell = vms[v].cell
           /\ UNCHANGED status => status' \in [Containers -> 0 .. Len(cells')]
           /\ UNCHANGED monitor => monitor' \in [Containers -> 0 .. Len(vms')]
<1>1. vms[v] \in VMType
  BY VMFacts DEF TypeInv
<1>2. PICK r : r = [vms[v] EXCEPT !.alive = b]
  OBVIOUS
<1>3. /\ r \in VMType /\ r.of = vms[v].of /\ r.alive = b
      /\ r.waiter = vms[v].waiter /\ r.cell = vms[v].cell
  BY <1>1, <1>2 DEF VMType
<1>4. r.waiter = "none" <=> r.cell = 0
  BY <1>3 DEF TypeInv, WaitersMatch
<1>5. vms' = [vms EXCEPT ![v] = r]
  BY <1>2
<1>6. QED
  BY <1>3, <1>4, <1>5, EditFacts

LEMMA VMExitsTyped ==
    ASSUME TypeInv, NEW v \in DOMAIN vms, VMExits(v) PROVE TypeInv'
<1>1. /\ UNCHANGED <<setting, registered, cells, status, stored, monitor, task, frame,
                     requests, crashed>>
      /\ vms' = [vms EXCEPT ![v].alive = FALSE]
  BY DEF VMExits
<1>2. /\ vms' \in Seq(VMType') /\ WaitersMatch' /\ VMsKept /\ Len(vms') \in Nat
      /\ status' \in [Containers -> 0 .. Len(cells')]
      /\ monitor' \in [Containers -> 0 .. Len(vms')]
  BY <1>1, EditAlive
<1>3. frame' \in [Handlers -> FrameType'] /\ FramesMatch'
  BY <1>1, <1>2, FramesStay
<1>4. QED
  BY <1>1, <1>2, <1>3, KeepTypes, CollectTypes

\* The VM runs.
LEMMA BootFacts ==
    ASSUME TypeInv, NEW h \in Handlers, BootVM(h),
           vms' = [vms EXCEPT ![frame[h].vm].alive = TRUE], Goto(h, "running")
    PROVE  /\ frame[h].vm \in DOMAIN vms /\ VMsKept /\ Len(vms') \in Nat
           /\ frame' \in [Handlers -> FrameType'] /\ FramesMatch'
           /\ frame'[h].at = frame[h].at /\ frame'[h].step = "running"
           /\ frame'[h].vm = frame[h].vm /\ frame'[h].op = "create"
           /\ \A g \in Handlers \ {h} : frame'[g] = frame[g]
<1>1. frame[h].step = "boot" /\ UNCHANGED <<setting, cells>>
  BY DEF BootVM, At
<1>2. FrameOK(frame[h]) /\ frame[h] \in FrameType
  BY DEF TypeInv, FramesMatch, TypeOK, FrameType
<1>3. /\ frame[h].vm \in DOMAIN vms /\ vms[frame[h].vm].of = frame[h].at
      /\ OSv(frame[h].at) /\ frame[h].at \in Containers /\ frame[h].op = "create"
  BY <1>1, <1>2 DEF FrameOK
<1>4. /\ VMsKept /\ Len(vms') = Len(vms) /\ Len(vms') \in Nat /\ DOMAIN vms' = DOMAIN vms
      /\ vms'[frame[h].vm].of = vms[frame[h].vm].of
  BY <1>1, <1>3, EditAlive
<1>5. PICK f : f = [frame[h] EXCEPT !.step = "running"]
  OBVIOUS
<1>6. /\ f \in FrameType /\ f.step = "running" /\ f.at = frame[h].at /\ f.op = "create"
      /\ f.vm = frame[h].vm
  BY <1>2, <1>3, <1>5 DEF FrameType
<1>7. f \in FrameType'
  BY <1>1, <1>4, <1>6, SettingStays DEF FrameType
<1>8. FrameOK(f)'
  <2>1. f # Idle
    BY <1>6 DEF Idle
  <2>2. QED
    BY <1>1, <1>3, <1>4, <1>6, <2>1, SettingStays DEF FrameOK
<1>9. frame' = [frame EXCEPT ![h] = f]
  BY <1>5 DEF Goto
<1>10. /\ frame' \in [Handlers -> FrameType'] /\ FramesMatch'
       /\ frame'[h] = f /\ \A g \in Handlers \ {h} : frame'[g] = frame[g]
  BY <1>1, <1>4, <1>7, <1>8, <1>9, FrameStep
<1>11. QED
  BY <1>3, <1>4, <1>6, <1>10

LEMMA BootVMTyped ==
    ASSUME TypeInv, NEW h \in Handlers, BootVM(h) PROVE TypeInv'
<1>1. /\ frame[h].step = "boot"
      /\ UNCHANGED <<setting, registered, cells, status, stored, task, requests, crashed>>
  BY DEF BootVM, At
<1>2. CASE Goto(h, "register") /\ UNCHANGED <<vms, monitor>>
  <2>1. frame' \in [Handlers -> FrameType'] /\ FramesMatch'
    BY <1>1, <1>2, KeepTypes, GotoFacts
  <2>2. QED
    BY <1>1, <1>2, <2>1, KeepTypes, CollectTypes
<1>3. CASE /\ vms' = [vms EXCEPT ![frame[h].vm].alive = TRUE]
           /\ monitor' = [monitor EXCEPT ![frame[h].at] = frame[h].vm]
           /\ Goto(h, "running")
  <2>1. /\ frame[h].vm \in DOMAIN vms
        /\ frame' \in [Handlers -> FrameType'] /\ FramesMatch'
    BY <1>3, BootFacts
  <2>2. /\ vms' \in Seq(VMType') /\ WaitersMatch' /\ Len(vms') = Len(vms)
        /\ status' \in [Containers -> 0 .. Len(cells')]
    BY <1>1, <1>3, <2>1, EditAlive
  <2>3. monitor' \in [Containers -> 0 .. Len(vms')]
    <3>1. frame[h].vm \in 0 .. Len(vms)
      BY DEF TypeInv, TypeOK
    <3>2. monitor \in [Containers -> 0 .. Len(vms)]
      BY DEF TypeInv, TypeOK
    <3>3. QED
      BY <1>3, <2>2, <3>1, <3>2
  <2>4. QED
    BY <1>1, <2>1, <2>2, <2>3, KeepTypes, CollectTypes
<1>4. QED
  BY <1>2, <1>3 DEF BootVM

\* A status says something else.
LEMMA EditCell ==
    ASSUME TypeInv, NEW x \in 1 .. Len(cells), NEW s \in CellStates,
           cells' = [cells EXCEPT ![x] = s]
    PROVE  /\ cells' \in Seq(CellStates) /\ Len(cells') = Len(cells)
           /\ cells'[x] = s /\ \A y \in 1 .. Len(cells) : y # x => cells'[y] = cells[y]
<1>1. cells \in Seq(CellStates)
  BY VMFacts DEF TypeInv
<1>2. QED
  BY <1>1, ExceptSeq

LEMMA RunningFacts ==
    ASSUME TypeInv, NEW h \in Handlers, RunningVM(h), status[frame[h].at] # 0
    PROVE  /\ frame[h].vm \in DOMAIN vms /\ frame[h].at \in Containers
           /\ vms[frame[h].vm].of = frame[h].at
           /\ status[frame[h].at] \in 1 .. Len(cells)
           /\ UNCHANGED <<setting, registered, status, stored, monitor, task, requests, crashed>>
           /\ cells' \in Seq(CellStates) /\ Len(cells') = Len(cells)
           /\ cells'[status[frame[h].at]] = "running"
           /\ \A y \in 1 .. Len(cells) : y # status[frame[h].at] => cells'[y] = cells[y]
           /\ vms' \in Seq(VMType') /\ WaitersMatch' /\ VMsKept /\ Len(vms') = Len(vms)
           /\ Len(vms') \in Nat /\ DOMAIN vms' = DOMAIN vms
           /\ \A w \in DOMAIN vms \ {frame[h].vm} : vms'[w] = vms[w]
           /\ vms'[frame[h].vm].of = frame[h].at
           /\ vms'[frame[h].vm].alive = vms[frame[h].vm].alive
           /\ vms'[frame[h].vm].waiter = "waiting"
           /\ vms'[frame[h].vm].cell = status[frame[h].at]
           /\ status' \in [Containers -> 0 .. Len(cells')]
           /\ monitor' \in [Containers -> 0 .. Len(vms')]
           /\ Goto(h, "register") /\ frame[h].step = "running"
<1> DEFINE c == frame[h].at
           v == frame[h].vm
<1>1. /\ UNCHANGED <<setting, registered, status, stored, monitor, task, requests, crashed>>
      /\ cells' = [cells EXCEPT ![status[c]] = "running"]
      /\ vms' = [vms EXCEPT ![v].waiter = "waiting", ![v].cell = status[c]]
      /\ Goto(h, "register") /\ frame[h].step = "running"
  BY DEF RunningVM, At
<1>2. c \in Containers /\ v \in DOMAIN vms /\ vms[v].of = c
  BY <1>1 DEF TypeInv, FramesMatch, FrameOK
<1>3. /\ status[c] \in 1 .. Len(cells) /\ vms[v] \in VMType
      /\ "running" \in CellStates
  BY <1>2, VMFacts DEF TypeInv, TypeOK, CellStates
<1>4. /\ cells' \in Seq(CellStates) /\ Len(cells') = Len(cells)
      /\ cells'[status[c]] = "running"
      /\ \A y \in 1 .. Len(cells) : y # status[c] => cells'[y] = cells[y]
  BY <1>1, <1>3, EditCell
<1>5. PICK r : r = [of |-> vms[v].of, alive |-> vms[v].alive, ran |-> vms[v].ran,
                    side |-> vms[v].side, waiter |-> "waiting", cell |-> status[c]]
  OBVIOUS
<1>6. /\ r \in VMType /\ r.of = vms[v].of /\ r.alive = vms[v].alive
      /\ r.waiter = "waiting" /\ r.cell = status[c]
  <2>1. status[c] \in 0 .. Len(cells)
    BY <1>3, VMFacts DEF TypeInv
  <2>2. QED
    BY <1>3, <1>5, <2>1 DEF VMType
<1>7. r.waiter = "none" <=> r.cell = 0
  BY <1>3, <1>6
<1>8. vms' = [vms EXCEPT ![v] = r]
  <2>1. vms \in [DOMAIN vms -> VMType]
    BY VMFacts DEF TypeInv
  <2>2. vms'[v] = r
    BY <1>1, <1>2, <1>5, <2>1 DEF VMType
  <2>3. \A w \in DOMAIN vms \ {v} : vms'[w] = vms[w]
    BY <1>1, <2>1
  <2>4. vms' = [w \in DOMAIN vms |-> vms'[w]]
    BY <1>1, <2>1
  <2>5. QED
    BY <2>1, <2>2, <2>3, <2>4
<1>9. /\ vms' \in Seq(VMType') /\ WaitersMatch' /\ VMsKept
      /\ Len(vms') = Len(vms) /\ Len(vms') \in Nat /\ DOMAIN vms' = DOMAIN vms
      /\ vms'[v] = r /\ \A w \in DOMAIN vms \ {v} : vms'[w] = vms[w]
      /\ status' \in [Containers -> 0 .. Len(cells')]
      /\ monitor' \in [Containers -> 0 .. Len(vms')]
  <2>1. UNCHANGED <<setting, status, monitor>> /\ r \in VMType
    BY <1>1, <1>6
  <2>2. r.of = vms[v].of /\ v \in DOMAIN vms /\ Len(cells') = Len(cells)
    BY <1>2, <1>4, <1>6
  <2>3. QED
    BY <1>7, <1>8, <2>1, <2>2, EditFacts
<1>10. QED
  BY <1>1, <1>2, <1>3, <1>4, <1>6, <1>9

LEMMA RunningVMTyped ==
    ASSUME TypeInv, NEW h \in Handlers, RunningVM(h) PROVE TypeInv'
<1>1. CASE status[frame[h].at] = 0
  <2>1. /\ Abort(h)
        /\ UNCHANGED <<setting, registered, cells, vms, status, stored, monitor, task,
                       requests, crashed>>
    BY <1>1 DEF RunningVM
  <2>2. frame' \in [Handlers -> FrameType'] /\ FramesMatch'
    BY <2>1, KeepTypes, AbortFacts
  <2>3. QED
    BY <2>1, <2>2, KeepTypes, CollectTypes
<1>2. CASE status[frame[h].at] # 0
  <2>1. /\ UNCHANGED <<setting, registered, status, stored, monitor, task, requests, crashed>>
        /\ cells' \in Seq(CellStates)
        /\ vms' \in Seq(VMType') /\ WaitersMatch' /\ VMsKept /\ Len(vms') \in Nat
        /\ status' \in [Containers -> 0 .. Len(cells')]
        /\ monitor' \in [Containers -> 0 .. Len(vms')]
        /\ Goto(h, "register") /\ frame[h].step = "running"
    BY <1>2, RunningFacts
  <2>2. frame' \in [Handlers -> FrameType'] /\ FramesMatch'
    BY <2>1, GotoFacts
  <2>3. QED
    BY <2>1, <2>2, KeepTypes, CollectTypes
<1>3. QED
  BY <1>1, <1>2

(***************************************************************************)
(* The waiter of a VM.                                                     *)
(***************************************************************************)
LEMMA WaitedFacts ==
    ASSUME TypeInv, NEW v \in DOMAIN vms, Waited(v)
    PROVE  /\ UNCHANGED <<setting, registered, cells, status, stored, monitor, task, frame,
                          requests, crashed>>
           /\ vms[v].waiter = "waiting" /\ ~vms[v].alive
           /\ vms' \in Seq(VMType') /\ WaitersMatch' /\ VMsKept /\ Len(vms') \in Nat
           /\ DOMAIN vms' = DOMAIN vms
           /\ \A w \in DOMAIN vms \ {v} : vms'[w] = vms[w]
           /\ vms'[v].of = vms[v].of /\ vms'[v].alive = vms[v].alive
           /\ vms'[v].waiter = "cancelled" /\ vms'[v].cell = vms[v].cell
           /\ status' \in [Containers -> 0 .. Len(cells')]
           /\ monitor' \in [Containers -> 0 .. Len(vms')]
<1>1. /\ UNCHANGED <<setting, registered, cells, status, stored, monitor, task, frame,
                     requests, crashed>>
      /\ vms[v].waiter = "waiting" /\ ~vms[v].alive
      /\ vms' = [vms EXCEPT ![v].waiter = "cancelled", ![v].side = FALSE]
  BY DEF Waited
<1>2. PICK r : r = [of |-> vms[v].of, alive |-> vms[v].alive, ran |-> vms[v].ran,
                    side |-> FALSE, waiter |-> "cancelled", cell |-> vms[v].cell]
  OBVIOUS
<1>3. /\ r \in VMType /\ r.of = vms[v].of /\ r.alive = vms[v].alive
      /\ r.waiter = "cancelled" /\ r.cell = vms[v].cell
  <2>1. vms[v] \in VMType
    BY VMFacts DEF TypeInv
  <2>2. QED
    BY <1>2, <2>1 DEF VMType
<1>4. r.waiter = "none" <=> r.cell = 0
  BY <1>1, <1>3 DEF TypeInv, WaitersMatch
<1>5. vms' = [vms EXCEPT ![v] = r]
  <2>1. vms \in [DOMAIN vms -> VMType]
    BY VMFacts DEF TypeInv
  <2>2. vms'[v] = r
    BY <1>1, <1>2, <2>1 DEF VMType
  <2>3. \A w \in DOMAIN vms \ {v} : vms'[w] = vms[w]
    BY <1>1, <2>1
  <2>4. vms' = [w \in DOMAIN vms |-> vms'[w]]
    BY <1>1, <2>1
  <2>5. QED
    BY <2>1, <2>2, <2>3, <2>4
<1>6. /\ vms' \in Seq(VMType') /\ WaitersMatch' /\ VMsKept
      /\ Len(vms') \in Nat /\ DOMAIN vms' = DOMAIN vms
      /\ vms'[v] = r /\ \A w \in DOMAIN vms \ {v} : vms'[w] = vms[w]
      /\ status' \in [Containers -> 0 .. Len(cells')]
      /\ monitor' \in [Containers -> 0 .. Len(vms')]
  BY <1>1, <1>3, <1>4, <1>5, EditFacts
<1>7. QED
  BY <1>1, <1>3, <1>6

LEMMA WaitedTyped ==
    ASSUME TypeInv, NEW v \in DOMAIN vms, Waited(v) PROVE TypeInv'
<1>1. /\ UNCHANGED <<setting, registered, cells, status, stored, monitor, task, frame,
                     requests, crashed>>
      /\ vms' \in Seq(VMType') /\ WaitersMatch' /\ VMsKept /\ Len(vms') \in Nat
      /\ status' \in [Containers -> 0 .. Len(cells')]
      /\ monitor' \in [Containers -> 0 .. Len(vms')]
  BY WaitedFacts
<1>2. frame' \in [Handlers -> FrameType'] /\ FramesMatch'
  BY <1>1, FramesStay
<1>3. QED
  BY <1>1, <1>2, KeepTypes, CollectTypes

LEMMA TerminatedFacts ==
    ASSUME TypeInv, NEW v \in DOMAIN vms, Terminated(v)
    PROVE  /\ UNCHANGED <<setting, registered, status, stored, monitor, task, frame, requests>>
           /\ vms[v].waiter = "cancelled" /\ vms[v].cell \in 1 .. Len(cells)
           /\ vms' \in Seq(VMType') /\ WaitersMatch' /\ VMsKept /\ Len(vms') \in Nat
           /\ DOMAIN vms' = DOMAIN vms
           /\ \A w \in DOMAIN vms \ {v} : vms'[w] = vms[w]
           /\ vms'[v].of = vms[v].of /\ vms'[v].alive = vms[v].alive
           /\ vms'[v].waiter = "done" /\ vms'[v].cell = vms[v].cell
           /\ status' \in [Containers -> 0 .. Len(cells')]
           /\ monitor' \in [Containers -> 0 .. Len(vms')]
           /\ cells' \in Seq(CellStates)
           /\ \A y \in 1 .. Len(cells) : y # vms[v].cell => cells'[y] = cells[y]
           /\ cells[vms[v].cell] = "running" => UNCHANGED crashed
           /\ crashed' \in BOOLEAN
<1>1. /\ UNCHANGED <<setting, registered, status, stored, monitor, task, frame, requests>>
      /\ vms[v].waiter = "cancelled"
      /\ vms' = [vms EXCEPT ![v].waiter = "done"]
      /\ cells[vms[v].cell] = "running" => UNCHANGED crashed
      /\ UNCHANGED cells \/ cells' = [cells EXCEPT ![vms[v].cell] = "terminated"]
  BY DEF Terminated
<1>2. crashed' \in BOOLEAN
  BY DEF Terminated, TypeInv, TypeOK
<1>3. vms[v] \in VMType /\ Len(cells) \in Nat
  BY VMFacts DEF TypeInv
<1>4. vms[v].cell \in 1 .. Len(cells) /\ vms[v].cell # 0
  <2>1. vms[v].cell # 0
    BY <1>1 DEF TypeInv, WaitersMatch
  <2>2. vms[v].cell \in 0 .. Len(cells)
    BY <1>3 DEF VMType
  <2>3. QED
    BY <1>3, <2>1, <2>2
<1>5. /\ cells' \in Seq(CellStates) /\ Len(cells') = Len(cells)
      /\ \A y \in 1 .. Len(cells) : y # vms[v].cell => cells'[y] = cells[y]
  <2>1. "terminated" \in CellStates
    BY DEF CellStates
  <2>2. CASE UNCHANGED cells
    BY <2>2, VMFacts DEF TypeInv
  <2>3. CASE cells' = [cells EXCEPT ![vms[v].cell] = "terminated"]
    BY <1>4, <2>1, <2>3, EditCell
  <2>4. QED
    BY <1>1, <2>2, <2>3
<1>6. PICK r : r = [vms[v] EXCEPT !.waiter = "done"]
  OBVIOUS
<1>7. /\ r \in VMType /\ r.of = vms[v].of /\ r.alive = vms[v].alive
      /\ r.waiter = "done" /\ r.cell = vms[v].cell
  BY <1>3, <1>6 DEF VMType
<1>8. r.waiter = "none" <=> r.cell = 0
  BY <1>4, <1>7
<1>9. vms' = [vms EXCEPT ![v] = r]
  BY <1>1, <1>6
<1>10. /\ vms' \in Seq(VMType') /\ WaitersMatch' /\ VMsKept
       /\ Len(vms') \in Nat /\ DOMAIN vms' = DOMAIN vms
       /\ vms'[v] = r /\ \A w \in DOMAIN vms \ {v} : vms'[w] = vms[w]
       /\ status' \in [Containers -> 0 .. Len(cells')]
       /\ monitor' \in [Containers -> 0 .. Len(vms')]
  BY <1>1, <1>5, <1>7, <1>8, <1>9, EditFacts
<1>11. QED
  BY <1>1, <1>2, <1>4, <1>5, <1>7, <1>10

LEMMA TerminatedTyped ==
    ASSUME TypeInv, NEW v \in DOMAIN vms, Terminated(v) PROVE TypeInv'
<1>1. /\ UNCHANGED <<setting, registered, status, stored, monitor, task, frame, requests>>
      /\ vms' \in Seq(VMType') /\ WaitersMatch' /\ VMsKept /\ Len(vms') \in Nat
      /\ status' \in [Containers -> 0 .. Len(cells')]
      /\ monitor' \in [Containers -> 0 .. Len(vms')]
      /\ cells' \in Seq(CellStates) /\ crashed' \in BOOLEAN
  BY TerminatedFacts
<1>2. frame' \in [Handlers -> FrameType'] /\ FramesMatch'
  BY <1>1, FramesStay
<1>3. QED
  BY <1>1, <1>2, KeepTypes, CollectTypes

LEMMA StutterTyped == ASSUME TypeInv, UNCHANGED vars PROVE TypeInv'
<1>1. UNCHANGED <<setting, registered, backendVars, frame, requests, crashed>>
  BY DEF vars
<1>2. frame' \in [Handlers -> FrameType'] /\ FramesMatch'
  BY <1>1, KeepTypes, FramesStay
<1>3. QED
  BY <1>1, <1>2, KeepTypes, CollectTypes

LEMMA NextTyped == TypeInv /\ [Next]_vars => TypeInv'
<1> SUFFICES ASSUME TypeInv, [Next]_vars PROVE TypeInv'
  OBVIOUS
<1>1. ASSUME NEW h \in Handlers, CreatePod(h) PROVE TypeInv'
  BY <1>1, BeginTyped, newInstanceTyped, CleanInstanceTyped, StoreInstanceTyped,
     NewStatusTyped, StartTaskTyped, StartSidesTyped, BootVMTyped, RunningVMTyped,
     RegisterTyped DEF CreatePod
<1>2. ASSUME NEW h \in Handlers, DeletePod(h) PROVE TypeInv'
  BY <1>2, BeginTyped, DeleteNextTyped DEF DeletePod
<1>3. ASSUME NEW v \in DOMAIN vms, VMExits(v) \/ Waiter(v) PROVE TypeInv'
  BY <1>3, VMExitsTyped, WaitedTyped, TerminatedTyped DEF Waiter
<1>4. ASSUME NEW c \in Containers, TaskExits(c) PROVE TypeInv'
  BY <1>4, TaskExitsTyped
<1>5. QED
  BY <1>1, <1>2, <1>3, <1>4, StutterTyped DEF Next

(***************************************************************************)
(* The state of the pod has its type, however its requests overlap: in     *)
(* particular the status that a waiter, StartInstance or GetPodStatus goes *)
(* through a pointer to has been made, and a VM that is booted or stopped  *)
(* has been prepared.                                                      *)
(***************************************************************************)
THEOREM TypeCorrect == Spec => []TypeOK
<1>1. TypeInv => TypeOK
  BY DEF TypeInv
<1>2. QED
  BY <1>1, InitTyped, NextTyped, PTL DEF Spec

(***************************************************************************)
(* One creator.  While it creates, nothing is registered and there is no   *)
(* VM; while it starts, the containers before are registered, so that only *)
(* these can be deleted, and the others have their status (Begun, Ready).  *)
(* Hence a container has one VM ever (OneEach), a status is of one         *)
(* container and of one VM (StatusOwned), and is what the waiter takes it  *)
(* to be (WaitersTrue).                                                    *)
(***************************************************************************)
Serial == /\ \A h \in Handlers : frame[h].op = "create" => h \in setting.creators
          /\ ~Overlap => \A g, h \in Handlers : frame[g] # Idle /\ frame[h] # Idle => g = h

Starting(h) == frame[h].step \in {"start", "boot", "running", "register"}
Creating(h) == \/ frame[h].step \in {"clean", "store", "status"}
               \/ frame[h].step = "new" /\ frame[h].at # 1

Begun == /\ \A h \in Handlers : Creating(h) => registered = {} /\ vms = <<>>
         /\ registered = {} /\ vms # <<>> => \E h \in Handlers : Starting(h)
         /\ registered # {} => 1 \in registered

Ready == \A h \in Handlers :
             /\ Creating(h) => \A c \in Containers :
                    OSv(c) /\ c < frame[h].at => status[c] # 0
             /\ Starting(h) =>
                    /\ registered = {c \in Containers : c < frame[h].at}
                    /\ \A c \in Containers : OSv(c) /\ c >= frame[h].at => status[c] # 0
                    /\ \A v \in DOMAIN vms :
                           \/ vms[v].of < frame[h].at
                           \/ frame[h].step # "start" /\ vms[v].of = frame[h].at
             /\ frame[h].step \in {"boot", "running"} => vms[frame[h].vm].waiter = "none"

OneEach == \A v, w \in DOMAIN vms : vms[v].of = vms[w].of => v = w

StatusOwned ==
    /\ \A c, d \in Containers : status[c] = status[d] /\ c # d => status[c] = 0
    /\ \A v \in DOMAIN vms : \A c \in Containers :
           vms[v].cell # 0 /\ status[c] = vms[v].cell => c = vms[v].of
    /\ \A v, w \in DOMAIN vms : vms[v].cell = vms[w].cell /\ v # w => vms[v].cell = 0

WaitersTrue ==
    \A v \in DOMAIN vms :
        /\ vms[v].waiter \in {"waiting", "cancelled"} => cells[vms[v].cell] = "running"
        /\ vms[v].alive => vms[v].waiter \in {"none", "waiting"}

Sole == Serial /\ Begun /\ Ready /\ OneEach /\ StatusOwned /\ WaitersTrue /\ ~crashed

SoleInv == OneCreator => Sole

Busy(h) == frame[h].step \notin {"idle", "delete"}

\* Only one handler creates.
LEMMA Alone ==
    ASSUME TypeInv, OneCreator, Serial, NEW g \in Handlers, NEW h \in Handlers,
           Busy(g), Busy(h)
    PROVE  g = h
<1>1. frame[g].op = "create" /\ frame[h].op = "create"
  BY DEF Busy, TypeInv, FramesMatch, FrameOK
<1>2. frame[g] # Idle /\ frame[h] # Idle
  BY <1>1 DEF Idle
<1>3. QED
  BY <1>1, <1>2 DEF OneCreator, Serial

LEMMA BusyStages ==
    ASSUME NEW h, Creating(h) \/ Starting(h) PROVE Busy(h)
BY DEF Creating, Starting, Busy

LEMMA OthersIdle ==
    ASSUME TypeInv, OneCreator, Serial, NEW h \in Handlers, Busy(h),
           NEW g \in Handlers \ {h}, frame'[g] = frame[g]
    PROVE  ~Creating(g)' /\ ~Starting(g)'
<1>1. ~Creating(g) /\ ~Starting(g)
  BY Alone, BusyStages
<1>2. QED
  BY <1>1 DEF Creating, Starting

LEMMA SerialKept ==
    ASSUME Serial, UNCHANGED setting, NEW h \in Handlers, frame[h] # Idle,
           \A g \in Handlers \ {h} : frame'[g] = frame[g],
           frame'[h].op \in {frame[h].op, "none"}
    PROVE  Serial'
BY SettingStays DEF Serial

LEMMA SerialStays ==
    ASSUME Serial, UNCHANGED <<setting, frame>> PROVE Serial'
BY SettingStays DEF Serial

LEMMA EmptyVMs ==
    ASSUME TypeInv PROVE vms = <<>> <=> DOMAIN vms = {}
<1>1. vms \in Seq(VMType)
  BY VMFacts DEF TypeInv
<1>2. QED
  BY <1>1, EmptySeq

\* A step that does not start anything, and changes the status of
\* registered containers only.
LEMMA QuietStep ==
    ASSUME TypeInv, Begun, Ready, OneEach, UNCHANGED <<setting, registered>>,
           vms' = <<>> <=> vms = <<>>, DOMAIN vms' = DOMAIN vms,
           \A v \in DOMAIN vms : /\ vms'[v].of = vms[v].of
                                 /\ vms[v].waiter = "none" => vms'[v].waiter = "none",
           \A c \in Containers : c \notin registered => status'[c] = status[c],
           \A g \in Handlers : \/ frame'[g] = frame[g]
                               \/ ~Starting(g) /\ ~Creating(g)' /\ ~Starting(g)'
    PROVE  Begun' /\ Ready' /\ OneEach'
<1>1. OneEach'
  BY DEF OneEach
<1>2. \A g \in Handlers : Creating(g)' \/ Starting(g)' => frame'[g] = frame[g]
  OBVIOUS
<1>3. \A g \in Handlers : Creating(g)' => Creating(g)
  BY <1>2 DEF Creating
<1>4. \A g \in Handlers : /\ Starting(g)' => Starting(g)
                          /\ Starting(g) => Starting(g)'
  BY <1>2 DEF Starting
<1>5. Begun'
  BY <1>3, <1>4 DEF Begun
<1>6. ASSUME NEW h \in Handlers, Creating(h)'
      PROVE  \A c \in Containers : OSv(c) /\ c < frame'[h].at => status'[c] # 0
  <2>1. Creating(h) /\ frame'[h] = frame[h] /\ registered = {}
    BY <1>2, <1>3, <1>6 DEF Begun
  <2>2. QED
    BY <2>1 DEF Ready
<1>7. ASSUME NEW h \in Handlers, Starting(h)'
      PROVE  /\ registered' = {c \in Containers : c < frame'[h].at}
             /\ \A c \in Containers : OSv(c) /\ c >= frame'[h].at => status'[c] # 0
             /\ \A v \in DOMAIN vms' :
                    \/ vms'[v].of < frame'[h].at
                    \/ frame'[h].step # "start" /\ vms'[v].of = frame'[h].at
  <2>1. Starting(h) /\ frame'[h] = frame[h]
    BY <1>2, <1>4, <1>7
  <2>2. /\ registered = {c \in Containers : c < frame[h].at}
        /\ \A c \in Containers : OSv(c) /\ c >= frame[h].at => status[c] # 0
        /\ \A v \in DOMAIN vms :
               \/ vms[v].of < frame[h].at
               \/ frame[h].step # "start" /\ vms[v].of = frame[h].at
    BY <2>1 DEF Ready
  <2>3. frame[h].at \in Nat /\ \A c \in Containers : c \in Nat
    <3>1. setting \in Settings /\ frame[h].at \in Containers
      BY <2>1 DEF TypeInv, TypeOK, FramesMatch, FrameOK, Starting
    <3>2. QED
      BY <3>1, SettingFacts
  <2>4. \A c \in Containers : c >= frame[h].at => c \notin registered
    BY <2>2, <2>3
  <2>5. QED
    BY <2>1, <2>2, <2>4
<1>8. ASSUME NEW h \in Handlers, frame'[h].step \in {"boot", "running"}
      PROVE  vms'[frame'[h].vm].waiter = "none"
  <2>1. frame'[h] = frame[h]
    BY <1>2, <1>8 DEF Starting
  <2>2. frame[h].vm \in DOMAIN vms
    BY <1>8, <2>1 DEF TypeInv, FramesMatch, FrameOK
  <2>3. QED
    BY <1>8, <2>1, <2>2 DEF Ready
<1>9. Ready'
  <2>1. Containers' = Containers /\ \A c \in Containers : OSv(c)' <=> OSv(c)
    BY SettingStays
  <2>2. QED
    BY <1>6, <1>7, <1>8, <2>1 DEF Ready
<1>10. QED
  BY <1>1, <1>5, <1>9

\* A step that changes no status but forgets some, and lets VMs end.
LEMMA QuietStatus ==
    ASSUME TypeInv, StatusOwned, WaitersTrue, UNCHANGED <<setting, cells>>,
           DOMAIN vms' = DOMAIN vms,
           \A v \in DOMAIN vms :
               /\ vms'[v].of = vms[v].of /\ vms'[v].cell = vms[v].cell
               /\ vms'[v].alive => vms[v].alive
               /\ \/ vms'[v].waiter = vms[v].waiter
                  \/ vms[v].waiter = "waiting" /\ vms'[v].waiter = "cancelled"
                                               /\ ~vms[v].alive,
           \A c \in Containers : status'[c] \in {status[c], 0}
    PROVE  StatusOwned' /\ WaitersTrue'
<1>1. Containers' = Containers
  BY SettingStays
<1>2. StatusOwned'
  <2>1. ASSUME NEW c \in Containers, NEW d \in Containers, status'[c] = status'[d], c # d
        PROVE  status'[c] = 0
    BY <2>1 DEF StatusOwned
  <2>2. ASSUME NEW v \in DOMAIN vms, NEW c \in Containers, vms'[v].cell # 0,
               status'[c] = vms'[v].cell
        PROVE  c = vms'[v].of
    BY <2>2 DEF StatusOwned
  <2>3. \A v, w \in DOMAIN vms : vms'[v].cell = vms'[w].cell /\ v # w => vms'[v].cell = 0
    BY DEF StatusOwned
  <2>4. QED
    BY <1>1, <2>1, <2>2, <2>3 DEF StatusOwned
<1>3. WaitersTrue'
  BY DEF WaitersTrue
<1>4. QED
  BY <1>2, <1>3

LEMMA DeleteSole ==
    ASSUME TypeInv, Sole, NEW c \in Containers, DeleteInstance(c) \/ UNCHANGED backendVars,
           UNCHANGED setting
    PROVE  /\ UNCHANGED cells /\ DOMAIN vms' = DOMAIN vms /\ (vms' = <<>> <=> vms = <<>>)
           /\ \A v \in DOMAIN vms :
                  /\ vms'[v].of = vms[v].of /\ vms'[v].cell = vms[v].cell
                  /\ vms'[v].waiter = vms[v].waiter
                  /\ vms'[v].alive => vms[v].alive
           /\ \A d \in Containers \ {c} : status'[d] = status[d]
           /\ StatusOwned' /\ WaitersTrue'
<1>1. CASE UNCHANGED backendVars
  <2>1. UNCHANGED <<cells, vms, status, setting>>
    BY <1>1
  <2>2. StatusOwned' /\ WaitersTrue'
    BY <2>1, SettingStays DEF Sole, StatusOwned, WaitersTrue
  <2>3. QED
    BY <2>1, <2>2
<1>2. CASE DeleteInstance(c)
  <2>1. /\ UNCHANGED cells /\ DOMAIN vms' = DOMAIN vms
        /\ vms' \in Seq(VMType) /\ Len(vms') = Len(vms)
        /\ \A v \in DOMAIN vms : \/ vms'[v] = vms[v]
                                 \/ vms'[v] = [vms[v] EXCEPT !.alive = FALSE]
        /\ status'[c] \in {status[c], 0}
        /\ \A d \in Containers \ {c} : status'[d] = status[d]
    BY <1>2, DeleteFacts
  <2>2. vms \in Seq(VMType) /\ \A v \in DOMAIN vms : vms[v] \in VMType
    BY VMFacts DEF TypeInv
  <2>3. vms' = <<>> <=> vms = <<>>
    BY <2>1, <2>2, EmptySeq
  <2>4. ASSUME NEW v \in DOMAIN vms
        PROVE  /\ vms'[v].of = vms[v].of /\ vms'[v].cell = vms[v].cell
               /\ vms'[v].waiter = vms[v].waiter
               /\ vms'[v].alive => vms[v].alive
    <3>1. CASE vms'[v] = vms[v]
      BY <3>1
    <3>2. CASE vms'[v] = [vms[v] EXCEPT !.alive = FALSE]
      <4>1. vms[v] \in VMType
        BY <2>2
      <4>2. /\ vms'[v].of = vms[v].of /\ vms'[v].cell = vms[v].cell
            /\ vms'[v].waiter = vms[v].waiter /\ vms'[v].alive = FALSE
        BY <3>2, <4>1 DEF VMType
      <4>3. QED
        BY <4>2
    <3>3. QED
      BY <2>1, <3>1, <3>2
  <2>5. \A d \in Containers : status'[d] \in {status[d], 0}
    BY <2>1
  <2>6. StatusOwned' /\ WaitersTrue'
    BY <2>1, <2>4, <2>5, QuietStatus DEF Sole
  <2>7. QED
    BY <2>1, <2>3, <2>4, <2>6
<1>3. QED
  BY <1>1, <1>2

(***************************************************************************)
(* Each step, with one creator.                                            *)
(***************************************************************************)
LEMMA BeginSole ==
    ASSUME TypeInv, OneCreator, Sole, NEW h \in Handlers,
           \/ h \in setting.creators /\ Begin(h, "create", "new")
           \/ Begin(h, "delete", "delete")
    PROVE  Sole'
<1>1. /\ UNCHANGED <<setting, registered, backendVars, crashed>> /\ frame[h] = Idle
      /\ Overlap \/ \A g \in Handlers : frame[g] = Idle
  BY DEF Begin
<1>2. PICK f : /\ frame' = [frame EXCEPT ![h] = f]
               /\ \/ /\ h \in setting.creators
                     /\ f = [op |-> "create", at |-> 1, step |-> "new", vm |-> 0]
                  \/ f = [op |-> "delete", at |-> 1, step |-> "delete", vm |-> 0]
  BY DEF Begin
<1>3. frame'[h] = f /\ \A g \in Handlers \ {h} : frame'[g] = frame[g]
  BY <1>2 DEF TypeInv, TypeOK
<1>4. /\ f.op = "create" => h \in setting.creators
      /\ (f.step = "new" /\ f.at = 1) \/ f.step = "delete"
  BY <1>2
<1>5. Serial'
  BY <1>1, <1>3, <1>4, SettingStays DEF Sole, Serial
<1>6. ~Starting(h) /\ ~Creating(h)' /\ ~Starting(h)'
  BY <1>1, <1>3, <1>4 DEF Idle, Starting, Creating
<1>7. Begun' /\ Ready' /\ OneEach'
  BY <1>1, <1>3, <1>6, QuietStep DEF Sole
<1>8. StatusOwned' /\ WaitersTrue'
  BY <1>1, SettingStays DEF Sole, StatusOwned, WaitersTrue
<1>9. QED
  BY <1>1, <1>5, <1>7, <1>8 DEF Sole

LEMMA DeleteNextSole ==
    ASSUME TypeInv, OneCreator, Sole, NEW h \in Handlers, DeleteNext(h)
    PROVE  Sole'
<1>1. /\ frame[h].step = "delete" /\ NextIn(h, "delete", Idle)
      /\ UNCHANGED <<setting, registered, requests, crashed>>
      /\ DeleteInstance(frame[h].at) \/ UNCHANGED backendVars
      /\ frame[h].at \notin registered => UNCHANGED backendVars
  BY DEF DeleteNext, At
<1>2. frame[h].at \in Containers /\ frame[h].op = "delete" /\ frame[h] # Idle
  BY <1>1 DEF TypeInv, FramesMatch, FrameOK, Idle
<1>3. /\ UNCHANGED cells /\ DOMAIN vms' = DOMAIN vms /\ (vms' = <<>> <=> vms = <<>>)
      /\ \A v \in DOMAIN vms :
             vms'[v].of = vms[v].of /\ vms'[v].waiter = vms[v].waiter
      /\ \A d \in Containers \ {frame[h].at} : status'[d] = status[d]
      /\ StatusOwned' /\ WaitersTrue'
  BY <1>1, <1>2, DeleteSole
<1>4. \A c \in Containers : c \notin registered => status'[c] = status[c]
  BY <1>1, <1>3
<1>5. PICK f : /\ frame' = [frame EXCEPT ![h] = f]
               /\ \/ f = [op |-> "delete", at |-> frame[h].at + 1, step |-> "delete",
                          vm |-> 0]
                  \/ f = Idle
  BY <1>1, <1>2 DEF NextIn
<1>6. frame'[h] = f /\ \A g \in Handlers \ {h} : frame'[g] = frame[g]
  BY <1>5 DEF TypeInv, TypeOK
<1>7. f.op \in {"delete", "none"} /\ f.step \in {"delete", "idle"}
  BY <1>5 DEF Idle
<1>8. Serial'
  BY <1>1, <1>2, <1>6, <1>7, SerialKept DEF Sole
<1>9. ~Starting(h) /\ ~Creating(h)' /\ ~Starting(h)'
  BY <1>1, <1>6, <1>7 DEF Starting, Creating
<1>10. Begun' /\ Ready' /\ OneEach'
  BY <1>1, <1>3, <1>4, <1>6, <1>9, QuietStep DEF Sole
<1>11. QED
  BY <1>1, <1>3, <1>8, <1>10 DEF Sole

\* CreatePod ends before anything is started.
LEMMA AbortSole ==
    ASSUME TypeInv, OneCreator, Sole, NEW h \in Handlers, Abort(h),
           frame[h].step \in {"new", "store"},
           UNCHANGED <<setting, registered, cells, status, vms, crashed>>
    PROVE  Sole'
<1>1. VMsKept /\ Len(vms') \in Nat
  BY KeepTypes
<1>2. frame'[h] = Idle /\ \A g \in Handlers \ {h} : frame'[g] = frame[g]
  BY <1>1, AbortFacts
<1>3. frame[h] # Idle
  BY DEF Idle
<1>4. Serial'
  BY <1>2, <1>3, SerialKept DEF Sole, Idle
<1>5. ~Starting(h) /\ ~Creating(h)' /\ ~Starting(h)'
  BY <1>2 DEF Starting, Creating, Idle
<1>6. Begun' /\ Ready' /\ OneEach'
  BY <1>2, <1>5, QuietStep DEF Sole
<1>7. StatusOwned' /\ WaitersTrue'
  BY SettingStays DEF Sole, StatusOwned, WaitersTrue
<1>8. QED
  BY <1>4, <1>6, <1>7 DEF Sole

\* What there is to show of a step of the creator: the other handlers are
\* idle or delete.
LEMMA CreatorStep ==
    ASSUME TypeInv, OneCreator, Serial, UNCHANGED setting, NEW h \in Handlers, Busy(h),
           \A g \in Handlers \ {h} : frame'[g] = frame[g],
           frame'[h].op \in {frame[h].op, "none"},
           registered' # {} => 1 \in registered',
           registered' = {} /\ vms' # <<>> => Starting(h)',
           Creating(h)' =>
               /\ registered' = {} /\ vms' = <<>>
               /\ \A c \in Containers : OSv(c) /\ c < frame'[h].at => status'[c] # 0,
           Starting(h)' =>
               /\ registered' = {c \in Containers : c < frame'[h].at}
               /\ \A c \in Containers : OSv(c) /\ c >= frame'[h].at => status'[c] # 0
               /\ \A v \in DOMAIN vms' :
                      \/ vms'[v].of < frame'[h].at
                      \/ frame'[h].step # "start" /\ vms'[v].of = frame'[h].at,
           frame'[h].step \in {"boot", "running"} => vms'[frame'[h].vm].waiter = "none"
    PROVE  Serial' /\ Begun' /\ Ready'
<1>1. frame[h] # Idle
  BY DEF Busy, Idle
<1>2. Serial'
  BY <1>1, SerialKept
<1>3. \A g \in Handlers \ {h} : ~Creating(g)' /\ ~Starting(g)'
  BY OthersIdle
<1>4. Begun'
  BY <1>3 DEF Begun
<1>5. Containers' = Containers /\ \A c \in Containers : OSv(c)' <=> OSv(c)
  BY SettingStays
<1>6. \A g \in Handlers \ {h} : frame'[g].step \notin {"boot", "running"}
  BY <1>3 DEF Starting
<1>7. Ready'
  BY <1>3, <1>5, <1>6 DEF Ready
<1>8. QED
  BY <1>2, <1>4, <1>7

\* CreatePod before anything is started: nothing is registered.
LEMMA Fresh ==
    ASSUME TypeInv, OneCreator, Sole, NEW h \in Handlers, Busy(h), ~Starting(h),
           frame[h].at = 1 => 1 \notin registered,
           frame[h].step = "new" \/ Creating(h)
    PROVE  registered = {} /\ vms = <<>>
<1>1. CASE Creating(h)
  BY <1>1 DEF Sole, Begun
<1>2. CASE ~Creating(h)
  <2>1. registered = {}
    BY <1>2 DEF Creating, Sole, Begun
  <2>2. \A g \in Handlers : ~Starting(g)
    BY Alone, BusyStages DEF Sole
  <2>3. QED
    BY <2>1, <2>2 DEF Sole, Begun
<1>3. QED
  BY <1>1, <1>2

LEMMA newInstanceSole ==
    ASSUME TypeInv, OneCreator, Sole, NEW h \in Handlers, newInstance(h)
    PROVE  Sole'
<1>1. /\ frame[h].step = "new"
      /\ UNCHANGED <<setting, registered, backendVars, requests, crashed>>
  BY DEF newInstance, At
<1>2. CASE Abort(h)
  BY <1>1, <1>2, AbortSole
<1>3. CASE frame[h].at \notin registered /\ Goto(h, "clean")
  <2>1. Busy(h) /\ ~Starting(h)
    BY <1>1 DEF Busy, Starting
  <2>2. registered = {} /\ vms = <<>>
    BY <1>1, <1>3, <2>1, Fresh
  <2>3. VMsKept /\ Len(vms') \in Nat
    BY <1>1, KeepTypes
  <2>4. /\ frame'[h] = [frame[h] EXCEPT !.step = "clean"]
        /\ \A g \in Handlers \ {h} : frame'[g] = frame[g]
    BY <1>1, <1>3, <2>3, GotoFacts
  <2>5. /\ frame'[h].step = "clean" /\ frame'[h].at = frame[h].at
        /\ frame'[h].op = frame[h].op
    BY <2>4 DEF TypeInv, TypeOK
  <2>6. ~Starting(h)'
    BY <2>5 DEF Starting
  <2>7. \A c \in Containers : OSv(c) /\ c < frame[h].at => status[c] # 0
    <3>1. frame[h].at \in Containers /\ setting \in Settings
      BY <1>1 DEF TypeInv, TypeOK, FramesMatch, FrameOK
    <3>2. CASE frame[h].at = 1
      BY <3>1, <3>2, SettingFacts
    <3>3. CASE frame[h].at # 1
      BY <1>1, <3>3 DEF Creating, Sole, Ready
    <3>4. QED
      BY <3>2, <3>3
  <2>8. Serial' /\ Begun' /\ Ready'
    BY <1>1, <2>1, <2>2, <2>4, <2>5, <2>6, <2>7, CreatorStep DEF Sole
  <2>9. OneEach' /\ StatusOwned' /\ WaitersTrue'
    BY <1>1, SettingStays DEF Sole, OneEach, StatusOwned, WaitersTrue
  <2>10. QED
    BY <1>1, <2>8, <2>9 DEF Sole
<1>4. QED
  BY <1>2, <1>3 DEF newInstance

LEMMA CleanInstanceSole ==
    ASSUME TypeInv, OneCreator, Sole, NEW h \in Handlers, CleanInstance(h)
    PROVE  Sole'
<1>1. /\ frame[h].step = "clean" /\ DeleteInstance(frame[h].at) /\ Goto(h, "store")
      /\ UNCHANGED <<setting, registered, requests, crashed>>
  BY DEF CleanInstance, At
<1>2. frame[h].at \in Containers /\ setting \in Settings
  BY <1>1 DEF TypeInv, TypeOK, FramesMatch, FrameOK
<1>3. /\ UNCHANGED cells /\ DOMAIN vms' = DOMAIN vms /\ (vms' = <<>> <=> vms = <<>>)
      /\ \A d \in Containers \ {frame[h].at} : status'[d] = status[d]
      /\ StatusOwned' /\ WaitersTrue'
  BY <1>1, <1>2, DeleteSole
<1>4. Creating(h) /\ Busy(h)
  BY <1>1 DEF Creating, Busy
<1>5. registered = {} /\ vms = <<>>
  BY <1>4 DEF Sole, Begun
<1>6. VMsKept /\ Len(vms') \in Nat
  BY <1>1, <1>2, DeleteKeeps
<1>7. /\ frame'[h] = [frame[h] EXCEPT !.step = "store"]
      /\ \A g \in Handlers \ {h} : frame'[g] = frame[g]
  BY <1>1, <1>6, GotoFacts
<1>8. /\ frame'[h].step = "store" /\ frame'[h].at = frame[h].at
      /\ frame'[h].op = frame[h].op
  BY <1>7 DEF TypeInv, TypeOK
<1>9. \A c \in Containers : OSv(c) /\ c < frame[h].at => status'[c] # 0
  <2>1. \A c \in Containers : c < frame[h].at => c # frame[h].at
    BY <1>2, SettingFacts
  <2>2. QED
    BY <1>3, <1>4, <2>1 DEF Sole, Ready
<1>10. ~Starting(h)'
  BY <1>8 DEF Starting
<1>11. Serial' /\ Begun' /\ Ready'
  BY <1>1, <1>3, <1>4, <1>5, <1>7, <1>8, <1>9, <1>10, CreatorStep DEF Sole
<1>12. OneEach'
  BY <1>3, <1>5 DEF OneEach
<1>13. QED
  BY <1>1, <1>3, <1>11, <1>12 DEF Sole

LEMMA StoreInstanceSole ==
    ASSUME TypeInv, OneCreator, Sole, NEW h \in Handlers, StoreInstance(h)
    PROVE  Sole'
<1>1. /\ frame[h].step = "store"
      /\ UNCHANGED <<setting, registered, cells, status, monitor, vms, requests, crashed>>
  BY DEF StoreInstance, At
<1>2. CASE Abort(h)
  BY <1>1, <1>2, AbortSole
<1>3. CASE Goto(h, "status")
  <2>1. Creating(h) /\ Busy(h)
    BY <1>1 DEF Creating, Busy
  <2>2. registered = {} /\ vms = <<>>
    BY <2>1 DEF Sole, Begun
  <2>3. VMsKept /\ Len(vms') \in Nat
    BY <1>1, KeepTypes
  <2>4. /\ frame'[h] = [frame[h] EXCEPT !.step = "status"]
        /\ \A g \in Handlers \ {h} : frame'[g] = frame[g]
    BY <1>1, <1>3, <2>3, GotoFacts
  <2>5. /\ frame'[h].step = "status" /\ frame'[h].at = frame[h].at
        /\ frame'[h].op = frame[h].op
    BY <2>4 DEF TypeInv, TypeOK
  <2>6. ~Starting(h)'
    BY <2>5 DEF Starting
  <2>7. \A c \in Containers : OSv(c) /\ c < frame[h].at => status[c] # 0
    BY <2>1 DEF Sole, Ready
  <2>8. Serial' /\ Begun' /\ Ready'
    BY <1>1, <2>1, <2>2, <2>4, <2>5, <2>6, <2>7, CreatorStep DEF Sole
  <2>9. OneEach' /\ StatusOwned' /\ WaitersTrue'
    BY <1>1, SettingStays DEF Sole, OneEach, StatusOwned, WaitersTrue
  <2>10. QED
    BY <1>1, <2>8, <2>9 DEF Sole
<1>4. QED
  BY <1>2, <1>3 DEF StoreInstance

LEMMA NewStatusSole ==
    ASSUME TypeInv, OneCreator, Sole, NEW h \in Handlers, NewStatus(h)
    PROVE  Sole'
<1> DEFINE at == frame[h].at
<1>1. /\ UNCHANGED <<setting, registered, stored, monitor, vms, task, requests, crashed>>
      /\ at \in Containers /\ frame[h].step = "status" /\ frame[h].op = "create"
      /\ \A d \in Containers \ {at} : status'[d] = status[d]
      /\ ~OSv(at) => UNCHANGED <<cells, status>>
      /\ OSv(at) => status'[at] = Len(cells) + 1
      /\ \A g \in Handlers \ {h} : frame'[g] = frame[g]
      /\ frame'[h] = IF at < Len(Backends)
                     THEN [op |-> "create", at |-> at + 1, step |-> "new", vm |-> 0]
                     ELSE [op |-> "create", at |-> 1, step |-> "start", vm |-> 0]
  BY NewStatusFacts
<1>2. /\ status \in [Containers -> 0 .. Len(cells)] /\ Len(cells) \in Nat
      /\ setting \in Settings
  BY VMFacts DEF TypeInv, TypeOK
<1>3. /\ Containers = 1 .. Len(Backends) /\ Len(Backends) \in Nat
      /\ \A c \in Containers : c \in Nat /\ c >= 1
  BY <1>2, SettingFacts
<1>4. Creating(h) /\ Busy(h)
  BY <1>1 DEF Creating, Busy
<1>5. registered = {} /\ vms = <<>>
  BY <1>4 DEF Sole, Begun
<1>6. \A c \in Containers : OSv(c) /\ c < at + 1 => status'[c] # 0
  <2>1. \A c \in Containers : OSv(c) /\ c < at => status[c] # 0
    BY <1>4 DEF Sole, Ready
  <2>2. \A c \in Containers : c < at + 1 => c = at \/ c < at
    BY <1>1, <1>3
  <2>3. OSv(at) => status'[at] # 0
    BY <1>1, <1>2
  <2>4. QED
    BY <1>1, <2>1, <2>2, <2>3
<1>7. StatusOwned'
  <2>1. ASSUME NEW c \in Containers, NEW d \in Containers, status'[c] = status'[d], c # d
        PROVE  status'[c] = 0
    <3>1. CASE ~OSv(at)
      BY <1>1, <2>1, <3>1 DEF Sole, StatusOwned
    <3>2. CASE OSv(at)
      <4>1. \A e \in Containers \ {at} : status'[e] = status[e] /\ status[e] # Len(cells) + 1
        BY <1>1, <1>2
      <4>2. c # at /\ d # at
        BY <1>1, <2>1, <3>2, <4>1
      <4>3. QED
        BY <2>1, <4>1, <4>2 DEF Sole, StatusOwned
    <3>3. QED
      BY <3>1, <3>2
  <2>2. Containers' = Containers
    BY <1>1, SettingStays
  <2>3. DOMAIN vms' = {}
    BY <1>1, <1>5
  <2>4. QED
    BY <2>1, <2>2, <2>3 DEF StatusOwned
<1>8. OneEach' /\ WaitersTrue'
  <2>1. DOMAIN vms' = {}
    BY <1>1, <1>5
  <2>2. QED
    BY <2>1 DEF OneEach, WaitersTrue
<1>9. Serial' /\ Begun' /\ Ready'
  <2>1. CASE at < Len(Backends)
    <3>1. /\ frame'[h].op = "create" /\ frame'[h].step = "new" /\ frame'[h].at = at + 1
      BY <1>1, <2>1
    <3>2. ~Starting(h)'
      BY <3>1 DEF Starting
    <3>3. QED
      BY <1>1, <1>4, <1>5, <1>6, <3>1, <3>2, CreatorStep DEF Sole
  <2>2. CASE ~(at < Len(Backends))
    <3>1. /\ frame'[h].op = "create" /\ frame'[h].step = "start" /\ frame'[h].at = 1
      BY <1>1, <2>2
    <3>2. ~Creating(h)'
      BY <3>1 DEF Creating
    <3>3. registered' = {c \in Containers : c < frame'[h].at}
      BY <1>1, <1>3, <1>5, <3>1
    <3>4. \A c \in Containers : OSv(c) => status'[c] # 0
      <4>1. \A c \in Containers : c < at + 1
        BY <1>1, <1>3, <2>2
      <4>2. QED
        BY <1>6, <4>1
    <3>5. DOMAIN vms' = {}
      BY <1>1, <1>5
    <3>6. QED
      BY <1>1, <1>4, <1>5, <3>1, <3>2, <3>3, <3>4, <3>5, CreatorStep DEF Sole
  <2>3. QED
    BY <2>1, <2>2
<1>10. QED
  BY <1>1, <1>7, <1>8, <1>9 DEF Sole

\* What a handler that starts knows.
LEMMA StartingFacts ==
    ASSUME TypeInv, Sole, NEW h \in Handlers, Starting(h)
    PROVE  /\ Busy(h) /\ frame[h].at \in Containers /\ frame[h].at \in Nat
           /\ frame[h].op = "create"
           /\ registered = {c \in Containers : c < frame[h].at}
           /\ registered # {} => 1 \in registered
           /\ \A c \in Containers : OSv(c) /\ c >= frame[h].at => status[c] # 0
           /\ \A v \in DOMAIN vms :
                  \/ vms[v].of < frame[h].at
                  \/ frame[h].step # "start" /\ vms[v].of = frame[h].at
           /\ \A v \in DOMAIN vms : vms[v].of \in Nat
           /\ \A c \in Containers : c \in Nat
<1>1. Busy(h)
  BY DEF Starting, Busy
<1>2. frame[h].at \in Containers /\ frame[h].op = "create" /\ setting \in Settings
  BY <1>1 DEF Busy, TypeInv, TypeOK, FramesMatch, FrameOK
<1>3. \A v \in DOMAIN vms : vms[v].of \in Containers
  BY VMFacts DEF TypeInv, VMType
<1>4. \A c \in Containers : c \in Nat
  BY <1>2, SettingFacts
<1>5. QED
  BY <1>1, <1>2, <1>3, <1>4 DEF Sole, Ready, Begun

\* A container that has no VM is to be registered next.
LEMMA SkipSole ==
    ASSUME TypeInv, OneCreator, Sole, NEW h \in Handlers, Starting(h), Goto(h, "register"),
           UNCHANGED <<setting, registered, cells, status, vms, crashed>>
    PROVE  Sole'
<1>1. VMsKept /\ Len(vms') \in Nat
  BY KeepTypes
<1>2. frame[h].step \notin {"idle", "delete"}
  BY DEF Starting
<1>3. /\ frame'[h] = [frame[h] EXCEPT !.step = "register"]
      /\ \A g \in Handlers \ {h} : frame'[g] = frame[g]
  BY <1>1, <1>2, GotoFacts
<1>4. /\ frame'[h].step = "register" /\ frame'[h].at = frame[h].at
      /\ frame'[h].op = frame[h].op
  BY <1>3 DEF TypeInv, TypeOK
<1>5. ~Creating(h)' /\ Starting(h)'
  BY <1>4 DEF Creating, Starting
<1>6. Serial' /\ Begun' /\ Ready'
  BY <1>3, <1>4, <1>5, StartingFacts, CreatorStep DEF Sole
<1>7. OneEach' /\ StatusOwned' /\ WaitersTrue'
  BY SettingStays DEF Sole, OneEach, StatusOwned, WaitersTrue
<1>8. QED
  BY <1>6, <1>7 DEF Sole

LEMMA StartTaskSole ==
    ASSUME TypeInv, OneCreator, Sole, NEW h \in Handlers, StartTask(h)
    PROVE  Sole'
<1>1. /\ frame[h].step = "start" /\ Goto(h, "register")
      /\ UNCHANGED <<setting, registered, cells, status, vms, crashed>>
  BY DEF StartTask, At
<1>2. Starting(h)
  BY <1>1 DEF Starting
<1>3. QED
  BY <1>1, <1>2, SkipSole

LEMMA StartSidesSole ==
    ASSUME TypeInv, OneCreator, Sole, NEW h \in Handlers, StartSides(h)
    PROVE  Sole'
<1>1. /\ frame[h].step = "start"
      /\ UNCHANGED <<setting, registered, cells, status, crashed>>
  BY DEF StartSides, At
<1>2. Starting(h)
  BY <1>1 DEF Starting
<1>3. CASE Goto(h, "register") /\ UNCHANGED vms
  BY <1>1, <1>2, <1>3, SkipSole
<1>4. CASE /\ frame[h].at \in stored
           /\ vms' = Append(vms, NewVM(frame[h].at))
           /\ frame' = [frame EXCEPT ![h].step = "boot", ![h].vm = Len(vms) + 1]
  <2> DEFINE at == frame[h].at
             new == Len(vms) + 1
  <2>1. /\ DOMAIN vms' = 1 .. Len(vms) + 1
        /\ \A w \in DOMAIN vms : vms'[w] = vms[w]
        /\ vms'[new] = NewVM(at)
        /\ \A g \in Handlers \ {h} : frame'[g] = frame[g]
        /\ frame'[h] = [op |-> "create", at |-> at, step |-> "boot", vm |-> new]
    BY <1>4, StartSidesFacts
  <2>2. Len(vms) \in Nat /\ DOMAIN vms = 1 .. Len(vms)
    BY VMFacts DEF TypeInv
  <2>3. /\ \A w \in DOMAIN vms' : w = new \/ w \in DOMAIN vms
        /\ new \in DOMAIN vms' /\ new \notin DOMAIN vms
    BY <2>1, <2>2
  <2>4. /\ vms'[new].of = at /\ vms'[new].waiter = "none" /\ vms'[new].cell = 0
        /\ vms'[new].alive = FALSE
    BY <2>1 DEF NewVM
  <2> HIDE DEF new
  <2>5. /\ Busy(h) /\ at \in Nat /\ frame[h].op = "create"
        /\ registered = {c \in Containers : c < at}
        /\ registered # {} => 1 \in registered
        /\ \A c \in Containers : OSv(c) /\ c >= at => status[c] # 0
        /\ \A v \in DOMAIN vms : vms[v].of < at
        /\ \A v \in DOMAIN vms : vms[v].of \in Nat
    BY <1>1, <1>2, StartingFacts
  <2>6. OneEach'
    <3>1. \A v \in DOMAIN vms : vms[v].of # at
      BY <2>5
    <3>2. QED
      BY <2>1, <2>3, <2>4, <3>1 DEF Sole, OneEach
  <2>7. StatusOwned'
    <3>1. Containers' = Containers
      BY <1>1, SettingStays
    <3>2. \A c, d \in Containers : status'[c] = status'[d] /\ c # d => status'[c] = 0
      BY <1>1 DEF Sole, StatusOwned
    <3>3. \A v \in DOMAIN vms' : \A c \in Containers :
              vms'[v].cell # 0 /\ status'[c] = vms'[v].cell => c = vms'[v].of
      BY <1>1, <2>1, <2>3, <2>4 DEF Sole, StatusOwned
    <3>4. \A v, w \in DOMAIN vms' :
              vms'[v].cell = vms'[w].cell /\ v # w => vms'[v].cell = 0
      BY <2>1, <2>3, <2>4 DEF Sole, StatusOwned
    <3>5. QED
      BY <3>1, <3>2, <3>3, <3>4 DEF StatusOwned
  <2>8. WaitersTrue'
    BY <1>1, <2>1, <2>3, <2>4 DEF Sole, WaitersTrue
  <2>9. /\ frame'[h].op = "create" /\ frame'[h].step = "boot" /\ frame'[h].at = at
        /\ frame'[h].vm = new
    BY <2>1
  <2>10. ~Creating(h)' /\ Starting(h)'
    BY <2>9 DEF Creating, Starting
  <2>11. \A v \in DOMAIN vms' : vms'[v].of < at \/ vms'[v].of = at
    BY <2>1, <2>3, <2>4, <2>5
  <2>12. Serial' /\ Begun' /\ Ready'
    BY <1>1, <2>1, <2>4, <2>5, <2>9, <2>10, <2>11, CreatorStep DEF Sole
  <2>13. QED
    BY <1>1, <2>6, <2>7, <2>8, <2>12 DEF Sole
<1>5. QED
  BY <1>3, <1>4 DEF StartSides

LEMMA BootVMSole ==
    ASSUME TypeInv, OneCreator, Sole, NEW h \in Handlers, BootVM(h)
    PROVE  Sole'
<1>1. /\ frame[h].step = "boot"
      /\ UNCHANGED <<setting, registered, cells, status, crashed>>
  BY DEF BootVM, At
<1>2. Starting(h)
  BY <1>1 DEF Starting
<1>3. CASE Goto(h, "register") /\ UNCHANGED vms
  BY <1>1, <1>2, <1>3, SkipSole
<1>4. CASE vms' = [vms EXCEPT ![frame[h].vm].alive = TRUE] /\ Goto(h, "running")
  <2> DEFINE at == frame[h].at
             v == frame[h].vm
  <2>1. /\ v \in DOMAIN vms /\ frame'[h].at = at /\ frame'[h].step = "running"
        /\ frame'[h].vm = v /\ frame'[h].op = "create"
        /\ \A g \in Handlers \ {h} : frame'[g] = frame[g]
    BY <1>4, BootFacts
  <2>2. vms[v].waiter = "none"
    BY <1>1 DEF Sole, Ready
  <2>3. /\ DOMAIN vms' = DOMAIN vms
        /\ \A w \in DOMAIN vms \ {v} : vms'[w] = vms[w]
        /\ vms'[v].of = vms[v].of
        /\ vms'[v].waiter = vms[v].waiter /\ vms'[v].cell = vms[v].cell
    BY <1>1, <1>4, <2>1, EditAlive
  <2>4. \A w \in DOMAIN vms : /\ vms'[w].of = vms[w].of /\ vms'[w].cell = vms[w].cell
                              /\ vms'[w].waiter = vms[w].waiter
    BY <2>3
  <2>5. /\ Busy(h) /\ frame[h].op = "create"
        /\ registered = {c \in Containers : c < at}
        /\ registered # {} => 1 \in registered
        /\ \A c \in Containers : OSv(c) /\ c >= at => status[c] # 0
        /\ \A w \in DOMAIN vms : vms[w].of < at \/ vms[w].of = at
    BY <1>2, StartingFacts
  <2>6. ~Creating(h)' /\ Starting(h)'
    BY <2>1 DEF Creating, Starting
  <2>7. Serial' /\ Begun' /\ Ready'
    BY <1>1, <2>1, <2>2, <2>3, <2>4, <2>5, <2>6, CreatorStep DEF Sole
  <2>8. OneEach'
    BY <2>3, <2>4 DEF Sole, OneEach
  <2>9. StatusOwned'
    BY <1>1, <2>3, <2>4, SettingStays DEF Sole, StatusOwned
  <2>10. WaitersTrue'
    BY <1>1, <2>2, <2>3, <2>4 DEF Sole, WaitersTrue
  <2>11. QED
    BY <1>1, <2>7, <2>8, <2>9, <2>10 DEF Sole
<1>5. QED
  BY <1>3, <1>4 DEF BootVM

(***************************************************************************)
(* The status is there, is not that of another container, and its VM is    *)
(* the only one of the container: so no other waiter has a pointer to it.  *)
(***************************************************************************)
LEMMA RunningVMSole ==
    ASSUME TypeInv, OneCreator, Sole, NEW h \in Handlers, RunningVM(h)
    PROVE  Sole'
<1> DEFINE at == frame[h].at
           v == frame[h].vm
           x == status[at]
<1>1. frame[h].step = "running"
  BY DEF RunningVM, At
<1>2. Starting(h)
  BY <1>1 DEF Starting
<1>3. OSv(at) /\ at \in Containers
  BY <1>1 DEF TypeInv, FramesMatch, FrameOK
<1>4. /\ Busy(h) /\ frame[h].op = "create" /\ at \in Nat
      /\ registered = {c \in Containers : c < at}
      /\ registered # {} => 1 \in registered
      /\ \A c \in Containers : OSv(c) /\ c >= at => status[c] # 0
      /\ \A w \in DOMAIN vms : vms[w].of < at \/ vms[w].of = at
  BY <1>2, StartingFacts
<1>5. x # 0
  BY <1>3, <1>4
<1>6. /\ v \in DOMAIN vms /\ vms[v].of = at /\ x \in 1 .. Len(cells)
      /\ UNCHANGED <<setting, registered, status, stored, monitor, task, requests, crashed>>
      /\ cells'[x] = "running"
      /\ \A y \in 1 .. Len(cells) : y # x => cells'[y] = cells[y]
      /\ VMsKept /\ Len(vms') \in Nat /\ DOMAIN vms' = DOMAIN vms
      /\ \A w \in DOMAIN vms \ {v} : vms'[w] = vms[w]
      /\ vms'[v].of = at /\ vms'[v].waiter = "waiting" /\ vms'[v].cell = x
      /\ Goto(h, "register")
  BY <1>5, RunningFacts
<1>7. /\ frame'[h] = [frame[h] EXCEPT !.step = "register"]
      /\ \A g \in Handlers \ {h} : frame'[g] = frame[g]
  BY <1>1, <1>6, GotoFacts
<1>8. /\ frame'[h].step = "register" /\ frame'[h].at = at /\ frame'[h].op = frame[h].op
  BY <1>7 DEF TypeInv, TypeOK
<1> HIDE DEF x
<1>9. ~Creating(h)' /\ Starting(h)'
  BY <1>8 DEF Creating, Starting
<1>10. \A w \in DOMAIN vms : vms'[w].of = vms[w].of
  BY <1>6
<1>11. Serial' /\ Begun' /\ Ready'
  <2>1. \A w \in DOMAIN vms' : vms'[w].of < at \/ vms'[w].of = at
    BY <1>4, <1>6, <1>10
  <2>2. \A c \in Containers : OSv(c) /\ c >= at => status'[c] # 0
    BY <1>4, <1>6
  <2>3. UNCHANGED <<setting, registered>>
    BY <1>6
  <2>4. QED
    BY <1>4, <1>7, <1>8, <1>9, <2>1, <2>2, <2>3, CreatorStep DEF Sole
<1>12. OneEach'
  BY <1>6, <1>10 DEF Sole, OneEach
<1>13. \A w \in DOMAIN vms \ {v} : vms[w].cell # x
  BY <1>3, <1>5, <1>6 DEF x, Sole, StatusOwned, OneEach
<1>14. StatusOwned'
  <2>1. Containers' = Containers
    BY <1>6, SettingStays
  <2>2. \A c, d \in Containers : status'[c] = status'[d] /\ c # d => status'[c] = 0
    BY <1>6 DEF Sole, StatusOwned
  <2>3. ASSUME NEW w \in DOMAIN vms, NEW c \in Containers,
               vms'[w].cell # 0, status'[c] = vms'[w].cell
        PROVE  c = vms'[w].of
    <3>1. CASE w = v
      BY <1>3, <1>5, <1>6, <2>3, <3>1 DEF x, Sole, StatusOwned
    <3>2. CASE w # v
      BY <1>6, <2>3, <3>2 DEF Sole, StatusOwned
    <3>3. QED
      BY <3>1, <3>2
  <2>4. \A u, w \in DOMAIN vms : vms'[u].cell = vms'[w].cell /\ u # w => vms'[u].cell = 0
    BY <1>6, <1>13 DEF Sole, StatusOwned
  <2>5. QED
    BY <1>6, <2>1, <2>2, <2>3, <2>4 DEF StatusOwned
<1>15. WaitersTrue'
  <2>1. ASSUME NEW w \in DOMAIN vms
        PROVE  /\ vms'[w].waiter \in {"waiting", "cancelled"} =>
                      cells'[vms'[w].cell] = "running"
               /\ vms'[w].alive => vms'[w].waiter \in {"none", "waiting"}
    <3>1. CASE w = v
      BY <1>6, <3>1
    <3>2. CASE w # v
      <4>1. vms'[w] = vms[w] /\ vms[w].cell # x
        BY <1>6, <1>13, <3>2
      <4>2. vms[w].waiter # "none" => vms[w].cell \in 1 .. Len(cells)
        <5>1. vms[w].cell \in 0 .. Len(cells) /\ Len(cells) \in Nat
          BY VMFacts DEF TypeInv, VMType
        <5>2. QED
          BY <5>1 DEF TypeInv, WaitersMatch
      <4>3. QED
        BY <1>6, <4>1, <4>2 DEF Sole, WaitersTrue
    <3>3. QED
      BY <3>1, <3>2
  <2>2. QED
    BY <1>6, <2>1 DEF WaitersTrue
<1>16. QED
  BY <1>6, <1>11, <1>12, <1>14, <1>15 DEF Sole

LEMMA RegisterSole ==
    ASSUME TypeInv, OneCreator, Sole, NEW h \in Handlers, RegisterInstance(h)
    PROVE  Sole'
<1> DEFINE at == frame[h].at
<1>1. /\ frame[h].step = "register" /\ registered' = registered \cup {at}
      /\ NextIn(h, "start", Idle) /\ UNCHANGED <<setting, backendVars, crashed>>
  BY DEF RegisterInstance, At
<1>2. Starting(h)
  BY <1>1 DEF Starting
<1>3. /\ Busy(h) /\ frame[h].op = "create" /\ at \in Nat /\ at \in Containers
      /\ registered = {c \in Containers : c < at}
      /\ registered # {} => 1 \in registered
      /\ \A c \in Containers : OSv(c) /\ c >= at => status[c] # 0
      /\ \A w \in DOMAIN vms : vms[w].of < at \/ vms[w].of = at
      /\ \A w \in DOMAIN vms : vms[w].of \in Nat
      /\ \A c \in Containers : c \in Nat
  BY <1>2, StartingFacts
<1>4. PICK f : /\ frame' = [frame EXCEPT ![h] = f]
               /\ \/ f = [op |-> "create", at |-> at + 1, step |-> "start", vm |-> 0]
                  \/ f = Idle
  BY <1>1, <1>3 DEF NextIn
<1>5. frame'[h] = f /\ \A g \in Handlers \ {h} : frame'[g] = frame[g]
  BY <1>4 DEF TypeInv, TypeOK
<1>6. /\ f.op \in {"create", "none"} /\ f.step \in {"start", "idle"}
      /\ f.step = "start" => f.at = at + 1
  BY <1>4 DEF Idle
<1>7. ~Creating(h)' /\ (Starting(h)' => f.step = "start")
  BY <1>5, <1>6 DEF Creating, Starting
<1>8. registered' = {c \in Containers : c < at + 1}
  BY <1>1, <1>3
<1>9. registered' # {} /\ 1 \in registered'
  <2>1. 1 \in Containers /\ at >= 1
    BY <1>3, SettingFacts DEF TypeInv, TypeOK
  <2>2. QED
    BY <1>3, <1>8, <2>1
<1>10. /\ \A c \in Containers : OSv(c) /\ c >= at + 1 => status'[c] # 0
       /\ \A w \in DOMAIN vms' : vms'[w].of < at + 1
  BY <1>1, <1>3
<1>11. Serial' /\ Begun' /\ Ready'
  BY <1>1, <1>3, <1>5, <1>6, <1>7, <1>8, <1>9, <1>10, CreatorStep DEF Sole
<1>12. OneEach' /\ StatusOwned' /\ WaitersTrue'
  BY <1>1, SettingStays DEF Sole, OneEach, StatusOwned, WaitersTrue
<1>13. QED
  BY <1>1, <1>11, <1>12 DEF Sole

LEMMA VMExitsSole ==
    ASSUME TypeInv, OneCreator, Sole, NEW v \in DOMAIN vms, VMExits(v)
    PROVE  Sole'
<1>1. /\ UNCHANGED <<setting, registered, cells, status, frame, crashed>>
      /\ vms' = [vms EXCEPT ![v].alive = FALSE]
  BY DEF VMExits
<1>2. /\ vms' \in Seq(VMType') /\ DOMAIN vms' = DOMAIN vms
      /\ \A w \in DOMAIN vms \ {v} : vms'[w] = vms[w]
      /\ vms'[v].of = vms[v].of /\ vms'[v].alive = FALSE
      /\ vms'[v].waiter = vms[v].waiter /\ vms'[v].cell = vms[v].cell
  BY <1>1, EditAlive
<1>3. vms # <<>> /\ vms' # <<>>
  BY <1>2
<1>4. \A w \in DOMAIN vms : /\ vms'[w].of = vms[w].of /\ vms'[w].cell = vms[w].cell
                            /\ vms'[w].alive => vms[w].alive
                            /\ vms'[w].waiter = vms[w].waiter
  BY <1>2
<1>5. Serial'
  BY <1>1, SerialStays DEF Sole
<1>6. Begun' /\ Ready' /\ OneEach'
  BY <1>1, <1>2, <1>3, <1>4, QuietStep DEF Sole
<1>7. StatusOwned' /\ WaitersTrue'
  BY <1>1, <1>2, <1>4, QuietStatus DEF Sole
<1>8. QED
  BY <1>1, <1>5, <1>6, <1>7 DEF Sole

LEMMA WaitedSole ==
    ASSUME TypeInv, OneCreator, Sole, NEW v \in DOMAIN vms, Waited(v)
    PROVE  Sole'
<1>1. /\ UNCHANGED <<setting, registered, cells, status, frame, crashed>>
      /\ vms[v].waiter = "waiting" /\ ~vms[v].alive
      /\ DOMAIN vms' = DOMAIN vms
      /\ \A w \in DOMAIN vms \ {v} : vms'[w] = vms[w]
      /\ vms'[v].of = vms[v].of /\ vms'[v].alive = vms[v].alive
      /\ vms'[v].waiter = "cancelled" /\ vms'[v].cell = vms[v].cell
  BY WaitedFacts
<1>2. vms # <<>> /\ vms' # <<>>
  BY <1>1
<1>3. \A w \in DOMAIN vms :
          /\ vms'[w].of = vms[w].of /\ vms'[w].cell = vms[w].cell
          /\ vms'[w].alive => vms[w].alive
          /\ vms[w].waiter = "none" => vms'[w].waiter = "none"
          /\ \/ vms'[w].waiter = vms[w].waiter
             \/ vms[w].waiter = "waiting" /\ vms'[w].waiter = "cancelled" /\ ~vms[w].alive
  BY <1>1
<1>4. Serial'
  BY <1>1, SerialStays DEF Sole
<1>5. Begun' /\ Ready' /\ OneEach'
  BY <1>1, <1>2, <1>3, QuietStep DEF Sole
<1>6. StatusOwned' /\ WaitersTrue'
  BY <1>1, <1>3, QuietStatus DEF Sole
<1>7. QED
  BY <1>1, <1>4, <1>5, <1>6 DEF Sole

\* The status is running, by WaitersTrue: the start time is there.
LEMMA TerminatedSole ==
    ASSUME TypeInv, OneCreator, Sole, NEW v \in DOMAIN vms, Terminated(v)
    PROVE  Sole'
<1>1. /\ UNCHANGED <<setting, registered, status, frame>>
      /\ vms[v].waiter = "cancelled" /\ vms[v].cell \in 1 .. Len(cells)
      /\ DOMAIN vms' = DOMAIN vms
      /\ \A w \in DOMAIN vms \ {v} : vms'[w] = vms[w]
      /\ vms'[v].of = vms[v].of /\ vms'[v].alive = vms[v].alive
      /\ vms'[v].waiter = "done" /\ vms'[v].cell = vms[v].cell
      /\ \A y \in 1 .. Len(cells) : y # vms[v].cell => cells'[y] = cells[y]
      /\ cells[vms[v].cell] = "running" => UNCHANGED crashed
  BY TerminatedFacts
<1>2. cells[vms[v].cell] = "running" /\ ~vms[v].alive
  BY <1>1 DEF Sole, WaitersTrue
<1>3. vms # <<>> /\ vms' # <<>>
  BY <1>1
<1>4. \A w \in DOMAIN vms :
          /\ vms'[w].of = vms[w].of /\ vms'[w].cell = vms[w].cell
          /\ vms[w].waiter = "none" => vms'[w].waiter = "none"
  BY <1>1
<1>5. Serial'
  BY <1>1, SerialStays DEF Sole
<1>6. Begun' /\ Ready' /\ OneEach'
  BY <1>1, <1>3, <1>4, QuietStep DEF Sole
<1>7. StatusOwned'
  BY <1>1, <1>4, SettingStays DEF Sole, StatusOwned
<1>8. WaitersTrue'
  <2>1. ASSUME NEW w \in DOMAIN vms
        PROVE  /\ vms'[w].waiter \in {"waiting", "cancelled"} =>
                      cells'[vms'[w].cell] = "running"
               /\ vms'[w].alive => vms'[w].waiter \in {"none", "waiting"}
    <3>1. CASE w = v
      BY <1>1, <1>2, <3>1
    <3>2. CASE w # v
      <4>1. vms'[w] = vms[w]
        BY <1>1, <3>2
      <4>2. vms[w].waiter # "none" => vms[w].cell \in 1 .. Len(cells)
        <5>1. vms[w].cell \in 0 .. Len(cells) /\ Len(cells) \in Nat
          BY VMFacts DEF TypeInv, VMType
        <5>2. QED
          BY <5>1 DEF TypeInv, WaitersMatch
      <4>3. vms[w].cell # vms[v].cell
        <5>1. vms[v].cell # 0
          BY <1>1 DEF TypeInv, WaitersMatch
        <5>2. QED
          BY <3>2, <5>1 DEF Sole, StatusOwned
      <4>4. QED
        BY <1>1, <4>1, <4>2, <4>3 DEF Sole, WaitersTrue
    <3>3. QED
      BY <3>1, <3>2
  <2>2. QED
    BY <1>1, <2>1 DEF WaitersTrue
<1>9. QED
  BY <1>1, <1>2, <1>5, <1>6, <1>7, <1>8 DEF Sole

LEMMA StillSole ==
    ASSUME TypeInv, OneCreator, Sole,
           UNCHANGED <<setting, registered, cells, status, vms, frame, crashed>>
    PROVE  Sole'
<1>1. Serial'
  BY SerialStays DEF Sole
<1>2. Begun' /\ Ready' /\ OneEach'
  BY QuietStep DEF Sole
<1>3. StatusOwned' /\ WaitersTrue'
  BY SettingStays DEF Sole, StatusOwned, WaitersTrue
<1>4. QED
  BY <1>1, <1>2, <1>3 DEF Sole

LEMMA InitSole == Init => Sole
<1> SUFFICES ASSUME Init PROVE Sole
  OBVIOUS
<1>1. \A h \in Handlers : frame[h] = Idle
  BY DEF Init
<1>2. \A h \in Handlers : ~Creating(h) /\ ~Starting(h)
                          /\ frame[h].op # "create"
                          /\ frame[h].step \notin {"boot", "running"}
  BY <1>1 DEF Idle, Creating, Starting
<1>3. DOMAIN vms = {} /\ vms = <<>> /\ registered = {} /\ ~crashed
  BY DEF Init
<1>4. \A c \in Containers : status[c] = 0
  BY DEF Init
<1>5. Serial
  BY <1>1, <1>2 DEF Serial
<1>6. Begun /\ Ready
  BY <1>2, <1>3 DEF Begun, Ready
<1>7. OneEach /\ StatusOwned /\ WaitersTrue
  BY <1>3, <1>4 DEF OneEach, StatusOwned, WaitersTrue
<1>8. QED
  BY <1>3, <1>5, <1>6, <1>7 DEF Sole

LEMMA NextSole == TypeInv /\ SoleInv /\ [Next]_vars => SoleInv'
<1> SUFFICES ASSUME TypeInv, SoleInv, [Next]_vars, OneCreator' PROVE Sole'
  BY DEF SoleInv
<1>1. UNCHANGED setting
  BY DEF Next, CreatePod, DeletePod, Waiter, Begin, newInstance, CleanInstance,
         StoreInstance, NewStatus, StartTask, StartSides, BootVM, RunningVM,
         RegisterInstance, DeleteNext, VMExits, Waited, Terminated, TaskExits, vars
<1>2. OneCreator /\ Sole
  BY <1>1, SettingStays DEF SoleInv
<1>3. ASSUME NEW h \in Handlers, CreatePod(h) PROVE Sole'
  BY <1>2, <1>3, BeginSole, newInstanceSole, CleanInstanceSole, StoreInstanceSole,
     NewStatusSole, StartTaskSole, StartSidesSole, BootVMSole, RunningVMSole,
     RegisterSole DEF CreatePod
<1>4. ASSUME NEW h \in Handlers, DeletePod(h) PROVE Sole'
  BY <1>2, <1>4, BeginSole, DeleteNextSole DEF DeletePod
<1>5. ASSUME NEW v \in DOMAIN vms, VMExits(v) \/ Waiter(v) PROVE Sole'
  BY <1>2, <1>5, VMExitsSole, WaitedSole, TerminatedSole DEF Waiter
<1>6. ASSUME NEW c \in Containers, TaskExits(c) PROVE Sole'
  BY <1>2, <1>6, StillSole DEF TaskExits
<1>7. CASE UNCHANGED vars
  BY <1>2, <1>7, StillSole DEF vars
<1>8. QED
  BY <1>3, <1>4, <1>5, <1>6, <1>7 DEF Next

LEMMA SoleInvariant == Spec => [](TypeInv /\ SoleInv)
<1>1. Init => TypeInv /\ SoleInv
  BY InitTyped, InitSole DEF SoleInv
<1>2. TypeInv /\ SoleInv /\ [Next]_vars => TypeInv' /\ SoleInv'
  BY NextTyped, NextSole
<1>3. QED
  BY <1>1, <1>2, PTL DEF Spec

(***************************************************************************)
(* No two VMs of one container run at once, if there is one creator: this  *)
(* is because a container has one VM ever, as DeletePod leaves it          *)
(* registered and newInstance refuses it from then on.                     *)
(***************************************************************************)
THEOREM OneVMEach == Spec => []OneVM
<1>1. SoleInv => OneVM
  BY DEF SoleInv, Sole, OneEach, OneVM
<1>2. QED
  BY <1>1, SoleInvariant, PTL

(***************************************************************************)
(* The status of a VM is its own and says what the VM does, while its      *)
(* waiter has a pointer to it, even if the instance is deleted meanwhile.  *)
(***************************************************************************)
THEOREM StatusIsTrue == Spec => []StatusTrue
<1>1. TypeInv /\ SoleInv => StatusTrue
  <2> SUFFICES ASSUME TypeInv, Sole, NEW v \in DOMAIN vms
      PROVE  /\ vms[v].waiter \in {"waiting", "cancelled"} => cells[vms[v].cell] = "running"
             /\ vms[v].waiter # "none" =>
                    \A w \in DOMAIN vms : w # v => vms[w].cell # vms[v].cell
             /\ vms[v].alive /\ vms[v].waiter # "none" => cells[vms[v].cell] # "terminated"
    BY DEF SoleInv, StatusTrue
  <2>1. /\ vms[v].waiter \in {"waiting", "cancelled"} => cells[vms[v].cell] = "running"
        /\ vms[v].alive => vms[v].waiter \in {"none", "waiting"}
    BY DEF Sole, WaitersTrue
  <2>2. vms[v].waiter # "none" => vms[v].cell # 0
    BY DEF TypeInv, WaitersMatch
  <2>3. QED
    BY <2>1, <2>2 DEF Sole, StatusOwned
<1>2. QED
  BY <1>1, SoleInvariant, PTL

(***************************************************************************)
(* A waiter never finds its status without a start time, which would bring *)
(* the agent down.                                                         *)
(***************************************************************************)
THEOREM WaitersSafe == Spec => []WaiterSafe
<1>1. SoleInv => WaiterSafe
  BY DEF SoleInv, Sole, WaiterSafe
<1>2. QED
  BY <1>1, SoleInvariant, PTL
=============================================================================
