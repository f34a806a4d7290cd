------------------------------ MODULE PodStatus ------------------------------
(***************************************************************************)
(* The instances of one pod and what is reported of them.                  *)
(*                                                                         *)
(* The OSv backend keeps a status for each instance, to which it gives out *)
(* pointers: StartInstance marks it running, and a goroutine that waits    *)
(* for the VM marks the status that StartInstance saw terminated, whatever *)
(* became of the instance meanwhile.  The containerd backend asks for the  *)
(* state of the task.  GetPodStatus makes a phase of both.                 *)
(*                                                                         *)
(* CreatePod and DeletePod are in the steps between which another          *)
(* goroutine can come: a handler of a second request, the one that waits   *)
(* for a VM, or the VM itself.  Provider has the networks, images and      *)
(* restarts that are left out here.                                        *)
(*                                                                         *)
(* Definitions marked "Fault" are mistakes that the properties catch when  *)
(* they take the place of the definition that follows; nothing uses them.  *)
(***************************************************************************)
EXTENDS Naturals, Sequences, FiniteSets

CONSTANTS
    Settings,       \* the pods, and how their requests come
    Handlers,       \* goroutines that serve requests
    MaxRequests,    \* bound: CreatePod and DeletePod requests
    MaxVMs,         \* the number of VMs that so many requests can start
    Faults          \* subset of {"store", "side", "boot", "stop", "delete", "task"}

(***************************************************************************)
(* The backend of each container of the pod, init containers first, the    *)
(* number of init containers, and the containers whose VM needs side       *)
(* processes (virtiofsd); the handlers that get CreatePod requests and     *)
(* those that get DeletePod requests, and whether requests may overlap.    *)
(***************************************************************************)
SettingType ==
    [backends : Seq({"osv", "containerd"}), inits : Nat, sides : SUBSET Nat,
     creators : SUBSET Handlers, deleters : SUBSET Handlers, overlap : BOOLEAN]

OSvContainers(s) == {c \in DOMAIN s.backends : s.backends[c] = "osv"}

ASSUME PodStatusAssumption ==
    /\ Settings \subseteq SettingType
    /\ MaxRequests \in Nat /\ MaxVMs \in Nat
    /\ \A s \in Settings : /\ s.backends # <<>> /\ s.inits <= Len(s.backends)
                           /\ s.sides \subseteq DOMAIN s.backends
                           /\ MaxRequests * Cardinality(OSvContainers(s)) <= MaxVMs
    /\ Faults \subseteq {"store", "side", "boot", "stop", "delete", "task"}

VARIABLES
    setting,        \* one of Settings, always the same
    registered,     \* p.instances
    cells,          \* the ContainerStatus objects ever made: their State
    status,         \* b.instanceStatuses: container -> its cell, or 0
    stored,         \* capstan: containers with a configuration on disk
    monitor,        \* capstan: container -> the VM that its monitor is of, or 0
    vms,            \* the VMs ever started, with their side processes and waiter
                    \* ("ran": a ghost, the hypervisor did start)
    task,           \* containerd: the state of a container and its task
    frame,          \* handler -> its request, container and step
    requests,
    crashed         \* the agent is gone

backendVars == <<cells, status, stored, monitor, vms, task>>
vars == <<setting, registered, backendVars, frame, requests, crashed>>

Backends   == setting.backends
Containers == DOMAIN Backends
OSv(c)     == Backends[c] = "osv"
Inits      == setting.inits
Sides      == setting.sides
Overlap    == setting.overlap

Idle == [op |-> "none", at |-> 0, step |-> "idle", vm |-> 0]

Init == /\ setting \in Settings
        /\ registered = {}
        /\ cells = <<>> /\ status = [c \in Containers |-> 0]
        /\ stored = {} /\ monitor = [c \in Containers |-> 0]
        /\ vms = <<>>
        /\ task = [c \in Containers |-> "none"]
        /\ frame = [h \in Handlers |-> Idle]
        /\ requests = 0 /\ crashed = FALSE
-----------------------------------------------------------------------------
(***************************************************************************)
(* Requests.                                                               *)
(***************************************************************************)
Begin(h, op, step) ==
    /\ ~crashed
    /\ frame[h] = Idle /\ requests < MaxRequests
    /\ Overlap \/ \A g \in Handlers : frame[g] = Idle
    /\ requests' = requests + 1
    /\ frame' = [frame EXCEPT ![h] = [op |-> op, at |-> 1, step |-> step, vm |-> 0]]
    /\ UNCHANGED <<setting, registered, backendVars, crashed>>

At(h, step)   == ~crashed /\ frame[h].step = step
Goto(h, step) == frame' = [frame EXCEPT ![h].step = step]

\* Fault: one container too many.
NextInPast(h, step, after) ==
    frame' = [frame EXCEPT ![h] =
                 IF @.at <= Len(Backends)
                 THEN [op |-> @.op, at |-> @.at + 1, step |-> step, vm |-> 0]
                 ELSE after]

\* The next container in a loop, or what comes after the loop.
NextIn(h, step, after) ==
    frame' = [frame EXCEPT ![h] =
                 IF @.at < Len(Backends)
                 THEN [op |-> @.op, at |-> @.at + 1, step |-> step, vm |-> 0]
                 ELSE after]

ToStart(h) == [op |-> frame[h].op, at |-> 1, step |-> "start", vm |-> 0]

\* CreatePod returns with an error, or panics (net/http recovers).
Abort(h) == frame' = [frame EXCEPT ![h] = Idle]
-----------------------------------------------------------------------------
(***************************************************************************)
(* The OSv backend: what happens to VMs.                                   *)
(***************************************************************************)
\* StopVM over the monitor of an instance; its error is dropped.
Stopped(c) ==
    IF monitor[c] = 0 THEN {vms}
    ELSE {[vms EXCEPT ![monitor[c]].alive = FALSE]} \cup (IF "stop" \in Faults THEN {vms} ELSE {})

(***************************************************************************)
(* DeleteInstance: an instance that capstan does not know is an error; the *)
(* VM is stopped, its files deleted, and only then its status.  One step,  *)
(* although the calls block, and although StopVM only asks the hypervisor  *)
(* to quit: a VM that takes its time is one that StopVM could not stop,    *)
(* and VMExits later.                                                      *)
(***************************************************************************)
DeleteVM(c) ==
    \/ c \notin stored /\ UNCHANGED backendVars
    \/ /\ c \in stored
       /\ vms' \in Stopped(c)
       /\ \/ /\ stored' = stored \ {c}
             /\ monitor' = [monitor EXCEPT ![c] = 0]
             /\ status' = [status EXCEPT ![c] = 0]
          \/ "delete" \in Faults /\ UNCHANGED <<stored, monitor, status>>
       /\ UNCHANGED <<cells, task>>

\* DeleteInstance of containerd, with the task and with the container.
DeleteTask(c) ==
    /\ task' \in {[task EXCEPT ![c] = s] :
                     s \in IF "delete" \in Faults THEN {"none", task[c]} ELSE {"none"}}
    /\ UNCHANGED <<cells, status, stored, monitor, vms>>

DeleteInstance(c) == IF OSv(c) THEN DeleteVM(c) ELSE DeleteTask(c)
-----------------------------------------------------------------------------
(***************************************************************************)
(* CreatePod: every container is created (the backend deletes what is left *)
(* of an earlier one first), then every one is started and registered.     *)
(***************************************************************************)
\* Fault: the check for a collision is left out.
newInstanceUnchecked(h) ==
    /\ At(h, "new")
    /\ Goto(h, "clean")
    /\ UNCHANGED <<setting, registered, backendVars, requests, crashed>>

newInstance(h) ==
    /\ At(h, "new")
    /\ IF frame[h].at \in registered THEN Abort(h)
       ELSE Goto(h, "clean")
    /\ UNCHANGED <<setting, registered, backendVars, requests, crashed>>

CleanInstance(h) ==
    /\ At(h, "clean")
    /\ DeleteInstance(frame[h].at)
    /\ Goto(h, "store")
    /\ UNCHANGED <<setting, registered, requests, crashed>>

\* The image, the tap, the volumes and the files of a VM; a container and
\* its task.  Any of it may fail, and CreatePod with it.
StoreInstance(h) ==
    LET c == frame[h].at
    IN  /\ At(h, "store")
        /\ \/ /\ IF OSv(c) THEN stored' = stored \cup {c} /\ UNCHANGED task
                 ELSE task' = [task EXCEPT ![c] = "created"] /\ UNCHANGED stored
              /\ Goto(h, "status")
           \/ /\ "store" \in Faults
              /\ \/ OSv(c) /\ UNCHANGED task
                 \/ ~OSv(c) /\ task' \in {[task EXCEPT ![c] = s] :
                                             s \in {"none", "container"}}
              /\ Abort(h) /\ UNCHANGED stored
        /\ UNCHANGED <<setting, registered, cells, status, monitor, vms, requests, crashed>>

\* The last part of CreateInstance: a VM gets a new ContainerStatus.
NewStatus(h) ==
    LET c == frame[h].at
    IN  /\ At(h, "status")
        /\ IF OSv(c)
           THEN /\ cells' = Append(cells, "waiting")
                /\ status' = [status EXCEPT ![c] = Len(cells) + 1]
           ELSE UNCHANGED <<cells, status>>
        /\ NextIn(h, "new", ToStart(h))
        /\ UNCHANGED <<setting, registered, stored, monitor, vms, task, requests, crashed>>

\* An error of StartInstance is logged; the instance is registered anyway.
StartTask(h) ==
    LET c == frame[h].at
    IN  /\ At(h, "start") /\ ~OSv(c)
        /\ \/ task[c] = "created" /\ task' = [task EXCEPT ![c] = "running"]
           \/ (task[c] # "created" \/ "task" \in Faults) /\ UNCHANGED task
        /\ Goto(h, "register")
        /\ UNCHANGED <<setting, registered, cells, status, stored, monitor, vms, requests, crashed>>

NewVM(c) == [of |-> c, alive |-> FALSE, ran |-> FALSE, side |-> c \in Sides,
             waiter |-> "none", cell |-> 0]

\* StartInstance of OSv, to the start of the side processes.  If one does
\* not start, the others are cancelled.
StartSides(h) ==
    LET c == frame[h].at
    IN  /\ At(h, "start") /\ OSv(c)
        /\ \/ /\ c \in stored
              /\ vms' = Append(vms, NewVM(c))
              /\ frame' = [frame EXCEPT ![h].step = "boot", ![h].vm = Len(vms) + 1]
           \/ /\ c \notin stored \/ (c \in Sides /\ "side" \in Faults)
              /\ Goto(h, "register") /\ UNCHANGED vms
        /\ UNCHANGED <<setting, registered, cells, status, stored, monitor, task, requests, crashed>>

\* The log file, and the hypervisor itself.  If they fail nothing cancels
\* the side processes.
BootVM(h) ==
    LET c == frame[h].at
        v == frame[h].vm
    IN  /\ At(h, "boot")
        /\ \/ /\ c \in stored
              /\ vms' = [vms EXCEPT ![v].alive = TRUE, ![v].ran = TRUE]
              /\ monitor' = [monitor EXCEPT ![c] = v]
              /\ Goto(h, "running")
           \/ /\ c \notin stored \/ "boot" \in Faults
              /\ Goto(h, "register") /\ UNCHANGED <<vms, monitor>>
        /\ UNCHANGED <<setting, registered, cells, status, stored, task, requests, crashed>>

\* Fault: the status is not marked.
RunningVMUnmarked(h) ==
    /\ At(h, "running") /\ status[frame[h].at] # 0
    /\ vms' = [vms EXCEPT ![frame[h].vm].waiter = "waiting",
                          ![frame[h].vm].cell = status[frame[h].at]]
    /\ Goto(h, "register")
    /\ UNCHANGED <<setting, registered, cells, status, stored, monitor, task, requests, crashed>>

(***************************************************************************)
(* The status becomes running and the waiter is started, with a pointer to *)
(* this status.  Without a status this panics: the VM goes on.             *)
(***************************************************************************)
RunningVM(h) ==
    LET c == frame[h].at
        v == frame[h].vm
    IN  /\ At(h, "running")
        /\ IF status[c] = 0
           THEN Abort(h) /\ UNCHANGED <<cells, vms>>
           ELSE /\ cells' = [cells EXCEPT ![status[c]] = "running"]
                /\ vms' = [vms EXCEPT ![v].waiter = "waiting", ![v].cell = status[c]]
                /\ Goto(h, "register")
        /\ UNCHANGED <<setting, registered, status, stored, monitor, task, requests, crashed>>

RegisterInstance(h) ==
    /\ At(h, "register")
    /\ registered' = registered \cup {frame[h].at}
    /\ NextIn(h, "start", Idle)
    /\ UNCHANGED <<setting, backendVars, requests, crashed>>

CreatePod(h) == \/ h \in setting.creators /\ Begin(h, "create", "new")
                \/ newInstance(h) \/ CleanInstance(h) \/ StoreInstance(h)
                \/ NewStatus(h) \/ StartTask(h) \/ StartSides(h)
                \/ BootVM(h) \/ RunningVM(h) \/ RegisterInstance(h)

\* DeletePod: what is registered, and stays registered.
DeleteNext(h) ==
    LET c == frame[h].at
    IN  /\ At(h, "delete")
        /\ IF c \in registered THEN DeleteInstance(c) ELSE UNCHANGED backendVars
        /\ NextIn(h, "delete", Idle)
        /\ UNCHANGED <<setting, registered, requests, crashed>>

DeletePod(h) == \/ h \in setting.deleters /\ Begin(h, "delete", "delete")
                \/ DeleteNext(h)
-----------------------------------------------------------------------------
(***************************************************************************)
(* What happens by itself: VMs and tasks end; the waiter of a VM cancels   *)
(* its side processes, then writes its status.                             *)
(***************************************************************************)
VMExits(v) ==
    /\ ~crashed /\ vms[v].alive
    /\ vms' = [vms EXCEPT ![v].alive = FALSE]
    /\ UNCHANGED <<setting, registered, cells, status, stored, monitor, task, frame, requests, crashed>>

TaskExits(c) ==
    /\ ~crashed /\ task[c] = "running"
    /\ task' = [task EXCEPT ![c] = "stopped"]
    /\ UNCHANGED <<setting, registered, cells, status, stored, monitor, vms, frame, requests, crashed>>

\* Fault: the side processes are not cancelled.
WaitedKeepsSides(v) ==
    /\ ~crashed /\ ~vms[v].alive /\ vms[v].waiter = "waiting"
    /\ vms' = [vms EXCEPT ![v].waiter = "cancelled"]
    /\ UNCHANGED <<setting, registered, cells, status, stored, monitor, task, frame, requests, crashed>>

\* Fault: the VM was started, but is not waited for.
WaitedNot(v) ==
    /\ ~crashed /\ vms[v].waiter = "waiting"
    /\ vms' = [vms EXCEPT ![v].waiter = "cancelled", ![v].side = FALSE]
    /\ UNCHANGED <<setting, registered, cells, status, stored, monitor, task, frame, requests, crashed>>

Waited(v) ==
    /\ ~crashed /\ ~vms[v].alive /\ vms[v].waiter = "waiting"
    /\ vms' = [vms EXCEPT ![v].waiter = "cancelled", ![v].side = FALSE]
    /\ UNCHANGED <<setting, registered, cells, status, stored, monitor, task, frame, requests, crashed>>

\* Fault: the instance is left for somebody to start it again.
TerminatedWaits(v) ==
    /\ ~crashed /\ vms[v].waiter = "cancelled"
    /\ vms' = [vms EXCEPT ![v].waiter = "done"]
    /\ cells' = [cells EXCEPT ![vms[v].cell] = "waiting"]
    /\ UNCHANGED <<setting, registered, status, stored, monitor, task, frame, requests, crashed>>

\* The start time is read from State.Running: if this is gone the goroutine
\* panics, and the agent with it.
Terminated(v) ==
    LET cell == vms[v].cell
    IN  /\ ~crashed /\ vms[v].waiter = "cancelled"
        /\ vms' = [vms EXCEPT ![v].waiter = "done"]
        /\ IF cells[cell] = "running"
           THEN cells' = [cells EXCEPT ![cell] = "terminated"] /\ UNCHANGED crashed
           ELSE crashed' = TRUE /\ UNCHANGED cells
        /\ UNCHANGED <<setting, registered, status, stored, monitor, task, frame, requests>>

Waiter(v) == Waited(v) \/ Terminated(v)

Next == \/ \E h \in Handlers : CreatePod(h) \/ DeletePod(h)
        \/ \E v \in DOMAIN vms : VMExits(v) \/ Waiter(v)
        \/ \E c \in Containers : TaskExits(c)

\* A goroutine that can go on does; clients and VMs need not do anything.
Fairness ==
    /\ \A h \in Handlers : WF_vars((CreatePod(h) \/ DeletePod(h)) /\ frame[h] # Idle)
    /\ \A v \in 1 .. MaxVMs :
          WF_vars(v \in DOMAIN vms /\ Waiter(v))

Spec == Init /\ [][Next]_vars /\ Fairness
-----------------------------------------------------------------------------
(***************************************************************************)
(* GetPodStatus.                                                           *)
(***************************************************************************)
\* GetInstanceStatus of the two backends: the State of a container.
State(c) ==
    IF OSv(c) THEN IF status[c] = 0 THEN "error" ELSE cells[status[c]]
    ELSE CASE task[c] \in {"none", "container"} -> "error"
           [] task[c] = "created" -> "waiting"
           [] task[c] = "running" -> "running"
           [] task[c] = "stopped" -> "terminated"

\* Containers are looked at in order: the first that is not registered, or
\* whose state is an error, decides.
Undecided(c) == c \in registered /\ State(c) # "error"

Phase ==
    LET workloads == (Inits + 1) .. Len(Backends)
        first     == CHOOSE c \in Containers :
                        ~Undecided(c) /\ \A d \in 1 .. c - 1 : Undecided(d)
    IN  IF \E c \in Containers : ~Undecided(c)
        THEN IF first \in registered THEN "error" ELSE "Pending"
        ELSE IF \A c \in workloads : State(c) # "terminated" THEN "Running"
        ELSE IF \A c \in workloads : State(c) # "waiting" THEN "Failed"
        ELSE "Pending"
-----------------------------------------------------------------------------
(***************************************************************************)
(* Properties.                                                             *)
(***************************************************************************)
VMType == [of : Containers, alive : BOOLEAN, ran : BOOLEAN, side : BOOLEAN,
           waiter : {"none", "waiting", "cancelled", "done"}, cell : 0 .. Len(cells)]

TypeOK ==
    /\ setting \in Settings
    /\ registered \subseteq Containers /\ stored \subseteq Containers
    /\ cells \in Seq({"waiting", "running", "terminated"})
    /\ status \in [Containers -> 0 .. Len(cells)]
    /\ monitor \in [Containers -> 0 .. Len(vms)]
    /\ vms \in Seq(VMType)
    /\ task \in [Containers -> {"none", "container", "created", "running", "stopped"}]
    /\ frame \in [Handlers -> [op : {"none", "create", "delete"}, at : 0 .. Len(Backends),
                               step : {"idle", "new", "clean", "store", "status", "start",
                                       "boot", "running", "register", "delete"},
                               vm : 0 .. Len(vms)]]
    /\ requests \in 0 .. MaxRequests /\ crashed \in BOOLEAN

\* CreatePod requests come one at a time, or all requests do.
OneCreator == ~Overlap \/ \A g, h \in setting.creators : g = h

(***************************************************************************)
(* No two VMs run for one container, whatever failed and however often the *)
(* pod was created and deleted, if its CreatePod requests do not overlap:  *)
(* a second StartInstance would have both write to one disk.               *)
(***************************************************************************)
OneVM == OneCreator =>
    \A v, w \in DOMAIN vms :
        vms[v].alive /\ vms[w].alive /\ vms[v].of = vms[w].of => v = w

(***************************************************************************)
(* The status of a VM that is waited for says so: it is running, and not   *)
(* also the status of another VM; a status that says terminated is of a VM *)
(* that is gone.  DeletePod requests may overlap the CreatePod.            *)
(***************************************************************************)
StatusTrue == OneCreator =>
    \A v \in DOMAIN vms :
        /\ vms[v].waiter \in {"waiting", "cancelled"} => cells[vms[v].cell] = "running"
        /\ vms[v].waiter # "none" =>
               \A w \in DOMAIN vms : w # v => vms[w].cell # vms[v].cell
        /\ vms[v].alive /\ vms[v].waiter # "none" => cells[vms[v].cell] # "terminated"

(***************************************************************************)
(* "Instance has terminated, update its status": when a VM ends its waiter *)
(* does this, and does not bring the agent down by reading a start time    *)
(* that is not there, even if DeletePod requests overlap the CreatePod.    *)
(* Two CreatePod requests at once are excepted: they start two VMs with    *)
(* one status, which the second waiter finds terminated.                   *)
(***************************************************************************)
WaiterSafe == OneCreator => ~crashed

(***************************************************************************)
(* When a VM of the pod has ended the pod is in the end not reported as    *)
(* running any more.  (Requests of the pod do not overlap.)                *)
(***************************************************************************)
HasEnded == \E v \in DOMAIN vms : ~vms[v].alive /\ vms[v].waiter # "none"
                                  /\ vms[v].of > Inits
ExitShows == (~Overlap /\ HasEnded) ~> (Phase # "Running")

(***************************************************************************)
(* The side processes of a VM that ran (its virtiofsd) do not outlive it   *)
(* as long as the agent runs, whatever StartInstance did after the VM was  *)
(* there and whatever requests came meanwhile.  If CreatePod requests      *)
(* overlap, only those of VMs that are waited for: StartInstance can find  *)
(* no status then and panic before the goroutine that would cancel them.   *)
(***************************************************************************)
Outlived(v) == v \in DOMAIN vms /\ vms[v].ran /\ ~vms[v].alive /\ vms[v].side
Excepted(v) == ~OneCreator /\ vms[v].waiter = "none"
SidesEnd == \A v \in 1 .. MaxVMs :
    (Outlived(v) /\ ~Excepted(v)) ~> (~Outlived(v) \/ crashed)
=============================================================================
