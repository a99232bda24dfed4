------------------------------ MODULE PowerOps ------------------------------
(***************************************************************************)
(* The power of a lab's guests: start, stop and restart of a lab or of one *)
(* virtual machine (KVMOrchestrator.start, stop, stop_vm, restart), their  *)
(* rollback, and the repair of the record (reconcile).                     *)
(*                                                                         *)
(* A command holds the lab lock and finds no pending transaction.  It      *)
(* observes power once, works from what it saw, and writes the state file  *)
(* in one go at its end.  Meanwhile guests go off, somebody starts one or  *)
(* takes the network down, any step may fail, and the process may die.     *)
(* VM state "running" lives in memory only and is left out.                *)
(***************************************************************************)
EXTENDS Integers

CONSTANTS
    N,            \* virtual machines of the lab; 1..N is vm_order
    DependsOn,    \* depends_on of each VM
    Participants, \* VMs of the controller access; {} without one
    MaxEvents     \* bound: how often others interfere

ASSUME NAssumption == N \in Nat \ {0}

VM  == 1 .. N
Lab == 0    \* the target of a command for all VMs

(* vm_order is a topological order. *)
ASSUME DependsOnAssumption ==
    /\ DependsOn \in [VM -> SUBSET VM]
    /\ \A v \in VM : \A w \in DependsOn[v] : w < v
ASSUME ParticipantsAssumption == Participants \subseteq VM
ASSUME MaxEventsAssumption == MaxEvents \in Nat

VARIABLES
    (* The state file. *)
    status,      \* field "state"
    vms,         \* state of each VM
    access,      \* controller_access_status
    (* The host. *)
    dom,         \* each domain: absent, off, booting, or up (SSH and cloud-init done)
    net,         \* the network: absent, inactive, active
    (* The process; lost when it dies. *)
    pc,
    op,          \* the command
    target,      \* the VM it names, or Lab
    before,      \* the VMs it has seen running
    todo,        \* VMs that the loop it is in has still to handle
    mem,         \* vms and access of the state it holds in memory
    found,       \* kinds of drift reconcile has met
    unrestored,  \* VMs whose power the rollback could not restore
    (* The environment. *)
    disturbed,   \* VMs that others switched since the command saw them
    events,      \* how often others have interfered
    calm         \* TRUE: from now on nothing fails, dies or interferes

record == <<status, vms, access>>
host   == <<dom, net>>
args   == <<op, target>>
locals == <<before, todo, mem, found, unrestored>>
env    == <<disturbed, events, calm>>
vars   == <<record, host, pc, args, locals, env>>

-----------------------------------------------------------------------------
(* Helpers. *)

MayFail == ~calm
On == {v \in VM : dom[v] \in {"booting", "up"}}
Absent == {v \in VM : dom[v] = "absent"}
IsFirst(v) == v \in todo /\ \A w \in todo : v <= w
IsLast(v)  == v \in todo /\ \A w \in todo : w <= v

(* _start_order: the target and everything it needs, by any chain; that is, what
   is in every set that holds the target and whatever a member depends on. *)
Needs ==
    [v \in VM |->
        {w \in VM :
            \A set \in SUBSET VM :
                v \in set /\ (\A u \in set : DependsOn[u] \subseteq set) => w \in set}]

(* _dependant_order: the target and everything that needs it. *)
TargetOnly == [v \in VM |-> {v}]   \* mutant: dependants are left running
NeededBy == [v \in VM |-> {w \in VM : v \in Needs[w]}]

(* The VMs a command is about; stop passes over those recorded as missing. *)
Scope(o, t) ==
    IF o = "stop"
    THEN {v \in (IF t = Lab THEN VM ELSE NeededBy[t]) : vms[v] # "missing"}
    ELSE IF t = Lab THEN VM ELSE IF o = "start" THEN Needs[t] ELSE {t}

Selected == Scope(op, target)

(* _set_power_state. *)
Powered(states, on) ==
    [v \in VM |-> IF v \in Selected THEN IF v \in on THEN "ready" ELSE "stopped" ELSE states[v]]
Summary(states) ==
    IF \A v \in VM : states[v] = "ready" THEN "ready"
    ELSE IF \A v \in VM : states[v] # "ready" THEN "stopped" ELSE "degraded"

Forget ==
    /\ pc' = "idle" /\ op' = "none" /\ target' = Lab
    /\ before' = {} /\ todo' = {} /\ found' = {} /\ unrestored' = {} /\ disturbed' = {}
    /\ mem' = [vms |-> [v \in VM |-> "stopped"], access |-> "pending"]

(* The except clause of start, stop and restart. *)
FaultKeepsLoop ==   \* mutant: only the VMs that the loop had not reached are restored
    /\ pc' = "restore" /\ UNCHANGED locals
Fault ==
    /\ pc' = "restore" /\ todo' = Selected
    /\ UNCHANGED <<before, mem, found, unrestored>>

(* A VM that was removed has no domain, and none of its dependants has. *)
Init ==
    /\ \E on \in SUBSET VM, gone \in SUBSET VM :
         /\ on \intersect gone = {}
         /\ \A v \in VM : DependsOn[v] \intersect gone # {} => v \in gone
         /\ dom = [v \in VM |-> IF v \in gone THEN "absent" ELSE IF v \in on THEN "up" ELSE "off"]
         /\ vms = [v \in VM |-> IF v \in gone THEN "missing"
                                ELSE IF v \in on THEN "ready" ELSE "stopped"]
         /\ status = IF gone = {} THEN Summary(vms) ELSE "degraded"
    /\ access = "ready"
    /\ net = "active"
    /\ pc = "idle" /\ op = "none" /\ target = Lab
    /\ before = {} /\ todo = {} /\ found = {} /\ unrestored = {} /\ disturbed = {}
    /\ mem = [vms |-> [v \in VM |-> "stopped"], access |-> "pending"]
    /\ events = 0 /\ calm = FALSE

-----------------------------------------------------------------------------
(* start, _start_locked. *)

Begin(o, t) ==
    /\ pc = "idle"
    /\ op' = o /\ target' = t
    /\ mem' = [vms |-> vms, access |-> access]
    /\ UNCHANGED <<record, host, found, unrestored, env>>

(* Power is observed for the whole lab, which fails on a domain that is gone. *)
BeginStart ==
    /\ Absent = {}
    /\ \E t \in VM \union {Lab} :
         /\ Begin("start", t)
         /\ before' = On /\ todo' = Scope("start", t)
    /\ pc' = "network"

(* _ensure_network_active, outside the try: a failure here rolls nothing back.
   Then offline VMs lose their saved readiness. *)
AutostartOnly ==   \* mutant: autostart is set, but an inactive network stays so
    /\ pc = "network" /\ pc' = "start" /\ UNCHANGED <<args, before, todo, found, unrestored>>
    /\ mem' = [mem EXCEPT !.vms = [v \in VM |-> IF v \in before THEN @[v] ELSE "stopped"]]
    /\ UNCHANGED <<record, host, env>>

EnsureNetwork ==
    /\ pc = "network"
    /\ \/ /\ net # "absent" /\ net' = "active" /\ pc' = "start"
          /\ mem' = [mem EXCEPT !.vms =
                        [v \in VM |-> IF v \notin before /\ @[v] = "ready" THEN "stopped" ELSE @[v]]]
          /\ UNCHANGED <<args, before, todo, found, unrestored, env>>
       \/ net = "absent" /\ Forget /\ UNCHANGED <<net, events, calm>>
       \/ MayFail /\ net # "absent" /\ net' \in {net, "active"} /\ Forget /\ UNCHANGED <<events, calm>>
    /\ UNCHANGED <<record, dom>>

(* Guests seen running are taken for ready; another one that somebody has
   started since makes virsh start fail. *)
UnwaitedStart ==   \* mutant: the next guest does not wait for this one
    /\ pc = "start" /\ op = "start"
    /\ \E v \in VM :
         /\ IsFirst(v) /\ todo' = todo \ {v} /\ mem' = [mem EXCEPT !.vms[v] = "ready"]
         /\ dom' = [dom EXCEPT ![v] = IF @ = "off" THEN "booting" ELSE @]
    /\ UNCHANGED <<record, net, pc, args, before, found, unrestored, env>>

StartVm ==
    /\ pc = "start" /\ op = "start"
    /\ \E v \in VM :
         /\ IsFirst(v)
         /\ \/ /\ v \in before
               /\ mem' = [mem EXCEPT !.vms[v] = "ready"] /\ todo' = todo \ {v}
               /\ UNCHANGED <<pc, dom, before, found, unrestored>>
            \/ /\ v \notin before /\ dom[v] = "off" /\ net = "active"
               /\ dom' = [dom EXCEPT ![v] = "booting"] /\ pc' = "await_start"
               /\ UNCHANGED locals
            \/ /\ v \notin before /\ (dom[v] # "off" \/ net # "active" \/ MayFail)
               /\ Fault /\ UNCHANGED dom
    /\ UNCHANGED <<record, net, args, env>>

(* _wait_ready; a guest that does not come up runs into its deadlines. *)
AwaitStart ==
    /\ pc = "await_start"
    /\ \E v \in VM :
         /\ IsFirst(v)
         /\ \/ /\ dom[v] = "up" /\ pc' = "start" /\ todo' = todo \ {v}
               /\ mem' = IF op = "start" THEN [mem EXCEPT !.vms[v] = "ready"] ELSE mem
               /\ UNCHANGED <<before, found, unrestored>>
            \/ (v \notin On \/ MayFail) /\ Fault
    /\ UNCHANGED <<record, host, args, env>>

StartDone ==
    /\ pc = "start" /\ todo = {} /\ pc' = "refresh"
    /\ mem' = IF op = "restart" THEN [mem EXCEPT !.vms = Powered(@, before)] ELSE mem
    /\ UNCHANGED <<record, host, args, before, todo, found, unrestored, env>>

(* _refresh_controller_access: participants are verified, and if all run, they
   are waited for and the controller's key is published among them. *)
RefreshAccess ==
    /\ pc = "refresh"
    /\ \/ /\ Participants = {} /\ pc' = "save" /\ UNCHANGED locals
       \/ /\ Participants # {} /\ Participants \intersect Absent = {}
          /\ ~(Participants \subseteq On)
          /\ mem' = [mem EXCEPT !.access = "pending"] /\ pc' = "save"
          /\ UNCHANGED <<before, todo, found, unrestored>>
       \/ /\ Participants # {} /\ \A v \in Participants : dom[v] = "up"
          /\ mem' = [mem EXCEPT !.access = "ready"] /\ pc' = "save"
          /\ UNCHANGED <<before, todo, found, unrestored>>
       \/ Participants \intersect Absent # {} /\ Fault
       \/ /\ MayFail /\ Participants # {} /\ Participants \subseteq On
          /\ pc' = "restore" /\ todo' = Selected
          /\ mem' = [mem EXCEPT !.access = "pending"]
          /\ UNCHANGED <<before, found, unrestored>>
    /\ UNCHANGED <<record, host, args, env>>

Saved(state) ==
    /\ vms' = state.vms /\ access' = state.access
    /\ status' = IF op # "start" THEN Summary(vms')
                 ELSE IF Summary(vms') = "ready" THEN "ready" ELSE "degraded"

(* save_state; an error may come after the file is in place. *)
Save ==
    /\ pc = "save"
    /\ \/ Saved(mem) /\ Forget
       \/ MayFail /\ (Saved(mem) \/ UNCHANGED record) /\ Fault /\ UNCHANGED <<args, disturbed>>
    /\ UNCHANGED <<host, events, calm>>

-----------------------------------------------------------------------------
(* stop, stop_vm, restart. *)

BeginStop ==
    /\ \E t \in VM \union {Lab} :
         /\ Scope("stop", t) \intersect Absent = {}
         /\ Begin("stop", t)
         /\ before' = On \intersect Scope("stop", t) /\ todo' = Scope("stop", t)
    /\ pc' = "shutdown"

(* Only what runs is restarted; dependants of a single VM are left running. *)
BeginRestart ==
    /\ \E t \in VM \union {Lab} :
         /\ Scope("restart", t) \intersect Absent = {}
         /\ Begin("restart", t)
         /\ before' = On \intersect Scope("restart", t) /\ todo' = Scope("restart", t)
    /\ pc' = "shutdown"

(* shutdown of a guest that has gone off since fails. *)
Shutdown ==
    /\ pc = "shutdown"
    /\ \E v \in VM :
         /\ IsLast(v)
         /\ \/ v \notin before /\ todo' = todo \ {v} /\ UNCHANGED <<pc, before, mem, found, unrestored>>
            \/ v \in before /\ v \in On /\ pc' = "await_stop" /\ UNCHANGED locals
            \/ v \in before /\ (v \notin On \/ MayFail) /\ Fault
    /\ UNCHANGED <<record, host, args, env>>

(* _wait_stopped: the guest goes off in time, or the deadline passes, and then
   it is destroyed with --force, and the command fails without. *)
AwaitStop ==
    /\ pc = "await_stop"
    /\ \E v \in VM :
         /\ IsLast(v)
         /\ \/ /\ dom[v] # "absent" /\ dom' = [dom EXCEPT ![v] = "off"]
               /\ pc' = "shutdown" /\ todo' = todo \ {v}
               /\ UNCHANGED <<before, mem, found, unrestored>>
            \/ pc' = "destroy" /\ UNCHANGED <<dom, locals>>
            \/ Fault /\ UNCHANGED dom
    /\ UNCHANGED <<record, net, args, env>>

(* destroy of a guest that went off just after the deadline fails. *)
Destroy ==
    /\ pc = "destroy"
    /\ \E v \in VM :
         /\ IsLast(v)
         /\ \/ /\ v \in On /\ dom' = [dom EXCEPT ![v] = "off"]
               /\ pc' = "shutdown" /\ todo' = todo \ {v}
               /\ UNCHANGED <<before, mem, found, unrestored>>
            \/ (v \notin On \/ MayFail) /\ Fault /\ UNCHANGED dom
    /\ UNCHANGED <<record, net, args, env>>

ShutdownDone ==
    /\ pc = "shutdown" /\ todo = {}
    /\ \/ /\ op = "stop" /\ pc' = "save" /\ todo' = {}
          /\ mem' = [mem EXCEPT !.vms = Powered(@, {})]
       \/ op = "restart" /\ pc' = "start" /\ todo' = before /\ UNCHANGED mem
    /\ UNCHANGED <<record, host, args, before, found, unrestored, env>>

(* The second loop of restart. *)
RestartVm ==
    /\ pc = "start" /\ op = "restart"
    /\ \E v \in VM :
         /\ IsFirst(v)
         /\ \/ /\ dom[v] = "off" /\ net = "active"
               /\ dom' = [dom EXCEPT ![v] = "booting"] /\ pc' = "await_start"
               /\ UNCHANGED locals
            \/ (dom[v] # "off" \/ net # "active" \/ MayFail) /\ Fault /\ UNCHANGED dom
    /\ UNCHANGED <<record, net, args, env>>

-----------------------------------------------------------------------------
(* _restore_power: first to last after a stop, last to first otherwise.  One
   failure does not keep it from the others. *)
Restore ==
    /\ pc = "restore"
    /\ \E v \in VM :
         /\ IF op = "stop" THEN IsFirst(v) ELSE IsLast(v)
         /\ todo' = todo \ {v}
         /\ \/ /\ v \notin Absent /\ (v \in On) = (v \in before)
               /\ UNCHANGED <<dom, unrestored>>
            \/ /\ v \in before /\ dom[v] = "off" /\ net = "active"
               /\ dom' = [dom EXCEPT ![v] = "booting"] /\ UNCHANGED unrestored
            \/ /\ v \notin before /\ v \in On
               /\ dom' = [dom EXCEPT ![v] = "off"] /\ UNCHANGED unrestored
            \/ /\ MayFail \/ v \in Absent \/ (v \in before /\ v \notin On /\ net # "active")
               /\ unrestored' = unrestored \union {v} /\ UNCHANGED dom
    /\ UNCHANGED <<record, net, pc, args, before, mem, found, env>>

(* The record says what was before, whatever the restoration did. *)
RestoreSaveUnpowered ==   \* mutant: the state in memory is saved as it is
    /\ pc = "restore" /\ todo = {} /\ Forget
    /\ vms' = mem.vms /\ access' = mem.access /\ status' = Summary(vms')
    /\ UNCHANGED <<host, events, calm>>

RestoreSave ==
    /\ pc = "restore" /\ todo = {} /\ Forget
    /\ \/ /\ vms' = Powered(mem.vms, before) /\ access' = mem.access
          /\ status' = Summary(vms')
       \/ MayFail /\ UNCHANGED record
    /\ UNCHANGED <<host, events, calm>>

-----------------------------------------------------------------------------
(* reconcile --repair, _reconcile_locked; without --repair it writes nothing. *)

BeginReconcile ==
    /\ Begin("reconcile", Lab)
    /\ todo' = VM /\ before' = {} /\ pc' = "inspect_network"

(* What is compared by content: the network's forward mode, bridge, addresses
   and range, and the snapshot of the definition; of a domain its memory, processors, disks and interface, and the
   backing of its disk.  Each may have been altered, and is left as it is. *)
NetworkDrift == IF MayFail THEN {{}, {"manual"}} ELSE {{}}
DomainDrift  == IF MayFail THEN {{}, {"manual"}} ELSE {{}}

InspectNetwork ==
    /\ pc = "inspect_network" /\ pc' = "inspect"
    /\ found' \in IF net = "absent" THEN {{"network"}} ELSE NetworkDrift
    /\ UNCHANGED <<record, host, args, before, todo, mem, unrestored, env>>

(* A guest that runs although the record does not say so is left alone. *)
PowerDrift(v) ==
    IF v \in On /\ mem.vms[v] # "ready" THEN {"manual"}
    ELSE IF v \notin On /\ mem.vms[v] = "ready" THEN {"stopped"} ELSE {}

(* A domain that is not ours, or whose recorded virt-install is not the one
   that labctl writes, is not looked at any further. *)
Inspect ==
    /\ pc = "inspect"
    /\ \E v \in VM :
         /\ IsFirst(v) /\ todo' = todo \ {v}
         /\ \/ /\ v \in Absent /\ found' = found \union {"missing"}
               /\ mem' = [mem EXCEPT !.vms[v] = "missing"]
            \/ /\ v \notin Absent /\ MayFail
               /\ found' = found \union {"manual"} /\ UNCHANGED mem
            \/ /\ v \notin Absent
               /\ \E drift \in DomainDrift : found' = found \union drift \union PowerDrift(v)
               /\ mem' = IF PowerDrift(v) = {"stopped"}
                         THEN [mem EXCEPT !.vms[v] = "stopped"] ELSE mem
    /\ UNCHANGED <<record, host, pc, args, before, unrestored, env>>

RepairRecordOnly ==   \* mutant: the VMs are corrected, the lab's own state is not
    /\ pc = "inspect" /\ todo = {} /\ Forget
    /\ vms' = mem.vms /\ UNCHANGED <<status, access, host, events, calm>>

RepairRecord ==
    /\ pc = "inspect" /\ todo = {} /\ Forget
    /\ \/ /\ vms' = mem.vms
          /\ status' = IF found = {"stopped"} THEN Summary(vms')
                       ELSE IF "network" \in found THEN "failed_cleanup"
                       ELSE IF found # {} THEN "degraded" ELSE status
       \/ MayFail /\ UNCHANGED <<vms, status>>
    /\ UNCHANGED <<access, host, events, calm>>

-----------------------------------------------------------------------------
(* The environment. *)

Crash ==
    /\ MayFail /\ pc # "idle" /\ Forget
    /\ UNCHANGED <<record, host, events, calm>>

(* A guest that has been started gets ready. *)
Boot(v) ==
    /\ dom[v] = "booting" /\ dom' = [dom EXCEPT ![v] = "up"]
    /\ UNCHANGED <<record, net, pc, args, locals, env>>

Event == MayFail /\ events < MaxEvents /\ events' = events + 1
Disturb(v) == Event /\ disturbed' = IF pc = "idle" THEN {} ELSE disturbed \union {v}

(* A guest powers itself off ... *)
GuestOff(v) ==
    /\ v \in On /\ Disturb(v) /\ dom' = [dom EXCEPT ![v] = "off"]
    /\ UNCHANGED <<record, net, pc, args, locals, calm>>

(* ... or somebody starts one ... *)
PowerOn(v) ==
    /\ dom[v] = "off" /\ net = "active" /\ Disturb(v)
    /\ dom' = [dom EXCEPT ![v] = "booting"]
    /\ UNCHANGED <<record, net, pc, args, locals, calm>>

(* ... or the network is removed ... *)
NetGone ==
    /\ Event /\ pc = "idle" /\ net' = "absent"
    /\ UNCHANGED <<record, dom, pc, args, locals, disturbed, calm>>

(* ... or the host restarts, with or without autostart of the network. *)
HostReboot ==
    /\ Event /\ Forget
    /\ net' \in {net, "inactive"} /\ (net = "absent" => net' = net)
    /\ dom' = [v \in VM |-> IF v \in On THEN "off" ELSE dom[v]]
    /\ UNCHANGED <<record, calm>>

CalmDown ==
    /\ ~calm /\ calm' = TRUE
    /\ UNCHANGED <<record, host, pc, args, locals, disturbed, events>>

Running ==
    \/ EnsureNetwork \/ StartVm \/ AwaitStart \/ StartDone \/ RefreshAccess \/ Save
    \/ Shutdown \/ AwaitStop \/ Destroy \/ ShutdownDone \/ RestartVm
    \/ Restore \/ RestoreSave \/ InspectNetwork \/ Inspect \/ RepairRecord

Commands == BeginStart \/ BeginStop \/ BeginRestart \/ BeginReconcile

Environment ==
    \/ Crash \/ HostReboot \/ NetGone \/ CalmDown
    \/ \E v \in VM : Boot(v) \/ GuestOff(v) \/ PowerOn(v)

Next == Commands \/ Running \/ Environment

Spec == Init /\ [][Next]_vars

(* A command that runs goes on, since every wait has a deadline; a guest that
   has been started boots; the operator starts the lab again and again. *)
StartLab == BeginStart /\ target' = Lab
FairSpec ==
    /\ Spec /\ WF_vars(Running) /\ SF_vars(StartLab)
    /\ \A v \in VM : WF_vars(Boot(v))

-----------------------------------------------------------------------------
(* Properties. *)

(* Every variable holds a value of its type. *)
VmStates == {"ready", "stopped", "missing"}
TypeOK ==
    /\ status \in {"ready", "stopped", "degraded", "failed_cleanup"}
    /\ vms \in [VM -> VmStates] /\ access \in {"pending", "ready"}
    /\ dom \in [VM -> {"absent", "off", "booting", "up"}]
    /\ net \in {"absent", "inactive", "active"}
    /\ pc \in {"idle", "network", "start", "await_start", "refresh", "save", "shutdown",
               "await_stop", "destroy", "restore", "inspect_network", "inspect"}
    /\ op \in {"none", "start", "stop", "restart", "reconcile"}
    /\ target \in VM \union {Lab}
    /\ before \subseteq VM /\ todo \subseteq VM
    /\ mem \in [vms : [VM -> VmStates], access : {"pending", "ready"}]
    /\ found \subseteq {"network", "missing", "stopped", "manual"} /\ unrestored \subseteq VM
    /\ disturbed \subseteq VM /\ events \in 0 .. MaxEvents /\ calm \in BOOLEAN

(* The lab's recorded state summarises those of its VMs, after any sequence of
   commands that failed, were interrupted or repaired the record: a lab is
   ready only if each VM is, and stopped only if none is. *)
RecordIsConsistent ==
    /\ status = "ready" => \A v \in VM : vms[v] = "ready"
    /\ status = "stopped" => \A v \in VM : vms[v] # "ready"

(* What a power command writes, when it succeeds and when it has rolled back,
   is how the VMs it is about are powered, save those that somebody else has
   switched or that it reports as not restored. *)
RecordTellsPower ==
    [][vms' # vms /\ op \in {"start", "stop", "restart"} =>
        \A v \in Selected \ (disturbed \union unrestored) :
            (vms'[v] = "ready") = (v \in On)]_vars

(* "restore prior power on failure" (start), and stop and restart alike: the
   rollback leaves every VM as the command found it, wherever it failed. *)
RollbackRestoresPower ==
    pc = "restore" /\ todo = {} =>
        \A v \in Selected \ (disturbed \union unrestored) : (v \in On) = (v \in before)

(* docs/architecture.md: "Start follows dependencies; stop reverses them."  The
   loop of start starts a guest when those it depends on are up or were running,
   the loop of stop takes one down when none of its dependants is left running.
   restart, which takes its VMs one by one, and the rollbacks, which put power
   back dependants first, keep no such order and are left out. *)
DependencyOrder ==
    [][op' = op => \A v \in VM \ disturbed' :
        /\ (op = "start" /\ pc = "start" /\ dom[v] = "off" /\ dom'[v] = "booting") =>
              \A w \in DependsOn[v] : dom[w] = "up" \/ w \in before \union disturbed
        /\ (op = "stop" /\ pc \in {"await_stop", "destroy"} /\ v \in On /\ dom'[v] = "off") =>
              \A w \in VM : v \in DependsOn[w] => w \notin On \/ w \in disturbed]_vars

(* docs/architecture.md: "A targeted stop also stops all transitive dependants",
   README.md: "start just a selected VM and its dependencies".  When a command
   is about to record its success, every VM that a started one depends on runs,
   and no VM runs that depends on a stopped one. *)
SelectionIsClosed ==
    pc = "save" =>
        \A v \in VM : \A w \in DependsOn[v] \ disturbed :
            /\ (op = "start" /\ v \in Selected) => w \in On
            /\ (op = "stop" /\ w \in Selected) => v \notin On \/ v \in disturbed

(* Whatever failed before, and also after a restart of the host, starting a lab
   that has all its domains and its network ends with all of it ready. *)
StartGetsReady ==
    (calm /\ Absent = {} /\ net # "absent") ~> (pc = "idle" /\ status = "ready")
=============================================================================
