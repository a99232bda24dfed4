----------------------------- MODULE RemoveTxn -----------------------------
(***************************************************************************)
(* Removal of a lab (KVMOrchestrator.remove) and of one of its virtual     *)
(* machines (remove_vm), with their staged journals and their retries.     *)
(*                                                                         *)
(* The lab is ready and owned, and has storage of its own; the lab lock    *)
(* keeps other commands away.  Every step of a command may fail, and the   *)
(* process may die between any two.  Meanwhile somebody may start a domain *)
(* of the lab, and define a removed one again while its disk is there.     *)
(* The stages that the journals list are left out: they are written and    *)
(* checked for form, but no step depends on them.                          *)
(***************************************************************************)
EXTENDS Integers

CONSTANTS
    N,          \* virtual machines of the lab; 1..N is vm_order
    DependsOn   \* depends_on of each VM

ASSUME NAssumption == N \in Nat \ {0}

VM == 1 .. N

(* vm_order is a topological order. *)
ASSUME DependsOnAssumption ==
    /\ DependsOn \in [VM -> SUBSET VM]
    /\ \A v \in VM : \A w \in DependsOn[v] : w < v

VARIABLES
    (* The journal. *)
    journal,   \* its operation, "none" without one
    target,    \* the VM of a remove-vm journal
    (* The state file. *)
    status,    \* field "state"; "absent" without a file
    vms,       \* state of each VM
    (* The host. *)
    dom,       \* each domain: absent, off, on, or transient (on, undefined)
    net,       \* the network: absent, inactive, active, or transient
    storage,   \* the storage directory: marked, stripped of its marker, absent
    files,     \* the files of each VM in it
    instance,  \* does the instance directory exist?
    (* The process; lost when it dies. *)
    pc,
    force,     \* its option --force
    todo,      \* VMs that the loop it is in has still to handle
    mem,       \* vms of the state it holds in memory
    failed,    \* has a cleanup step failed?
    (* The environment. *)
    calm       \* TRUE: from now on nothing fails, dies or interferes

txn    == <<journal, target>>
state  == <<status, vms>>
trees  == <<storage, files, instance>>
host   == <<dom, net, trees>>
locals == <<force, todo, mem, failed>>
vars   == <<txn, state, host, pc, locals, calm>>

VmFiles   == {"overlay", "seed"}
DomStates == {"absent", "off", "on", "transient"}
NetStates == {"absent", "inactive", "active", "transient"}
VmStates  == {"ready", "running", "stopped", "missing"}
Statuses  == {"absent", "ready", "stopped", "degraded", "failed_cleanup"}
RemovePcs == {"mark", "correct", "power", "stop", "stopped", "domains",
              "network", "storage", "instance", "unlink_state",
              "unlink_journal", "save_failure"}
RemoveVmPcs == {"vm_destroy", "vm_undefine", "vm_record", "vm_overlay",
                "vm_seed", "vm_save", "vm_unlink"}

-----------------------------------------------------------------------------
(* Helpers. *)

MayFail == ~calm
On      == {v \in VM : dom[v] \in {"on", "transient"}}
IsLast(v) == v \in todo /\ \A w \in todo : w <= v

(* _dependant_order: everything that needs v, by any chain; that is, what is in
   every set that holds v and whatever needs a member. *)
Dependants(v) ==
    {w \in VM \ {v} :
        \A set \in SUBSET VM :
            v \in set /\ (\A u \in VM : DependsOn[u] \intersect set # {} => u \in set)
                => w \in set}

Forget ==
    /\ pc' = "idle" /\ force' = FALSE /\ todo' = {} /\ failed' = FALSE
    /\ mem' = [v \in VM |-> "missing"]

Init ==
    /\ journal = "none" /\ target = 1
    /\ \E on \in SUBSET VM :
         /\ dom = [v \in VM |-> IF v \in on THEN "on" ELSE "off"]
         /\ vms = [v \in VM |-> IF v \in on THEN "ready" ELSE "stopped"]
         /\ status = IF on = VM THEN "ready" ELSE IF on = {} THEN "stopped" ELSE "degraded"
    /\ net \in {"active", "inactive"} /\ storage = "marked" /\ instance = TRUE
    /\ files = [v \in VM |-> VmFiles]
    /\ pc = "idle" /\ force = FALSE /\ todo = {} /\ failed = FALSE
    /\ mem = [v \in VM |-> "missing"]
    /\ calm = FALSE

-----------------------------------------------------------------------------
(* remove, _remove_locked. *)

(* A storage tree that is there must carry its marker. *)
StorageTrusted == storage # "stripped"

(* Only a removal that begins asks here whether guests run. *)
BeginRemove ==
    /\ pc = "idle" /\ status # "absent" /\ journal \in {"none", "remove"}
    /\ StorageTrusted
    /\ \E f \in BOOLEAN :
         /\ (journal = "none" /\ ~f) => On = {}
         /\ force' = f
    /\ journal' = "remove" /\ pc' = "mark" /\ mem' = vms
    /\ UNCHANGED <<target, state, host, todo, failed, calm>>

(* State went first: the journal alone is what is left of the lab. *)
FinishRemove ==
    /\ pc = "idle" /\ status = "absent" /\ journal = "remove"
    /\ journal' = "none"
    /\ UNCHANGED <<target, state, host, pc, locals, calm>>

(* Absent domains are put on record ... *)
MarkMissing ==
    /\ pc = "mark"
    /\ \/ /\ mem' = [v \in VM |-> IF dom[v] = "absent" THEN "missing" ELSE mem[v]]
          /\ vms' = mem' /\ pc' = "correct"
          /\ UNCHANGED <<force, todo, failed>>
       \/ MayFail /\ Forget /\ UNCHANGED vms
    /\ UNCHANGED <<txn, status, host, calm>>

(* ... and so are those that are there although the record says missing, since
   stopping skips what is recorded as missing. *)
UncorrectedVms == mem   \* mutant: a domain that came back stays on record as missing
CorrectedVms ==
    [v \in VM |-> IF dom[v] # "absent" /\ mem[v] = "missing"
                  THEN IF v \in On THEN "running" ELSE "stopped"
                  ELSE mem[v]]

Correct ==
    /\ pc = "correct"
    /\ \/ /\ mem' = CorrectedVms /\ vms' = mem' /\ pc' = "power"
          /\ UNCHANGED <<force, todo, failed>>
       \/ MayFail /\ Forget /\ UNCHANGED vms
    /\ UNCHANGED <<txn, status, host, calm>>

(* The guard against running guests, for retries as well; with --force they
   are stopped, which needs the marker of the storage. *)
GuardFirstOnly ==   \* mutant: the journal is taken for permission
    /\ pc = "power" /\ pc' = IF On = {} THEN "domains" ELSE "stop"
    /\ todo' = IF On = {} THEN VM ELSE {v \in On : vms[v] # "missing"}
    /\ UNCHANGED <<txn, state, host, force, mem, failed, calm>>

GuardRunning ==
    /\ pc = "power"
    /\ \/ /\ On = {} /\ pc' = "domains" /\ todo' = VM
          /\ UNCHANGED <<force, mem, failed>>
       \/ /\ On # {} /\ force /\ storage = "marked"
          /\ pc' = "stop" /\ todo' = {v \in On : vms[v] # "missing"}
          /\ UNCHANGED <<force, mem, failed>>
       \/ ((On # {} /\ (~force \/ storage # "marked")) \/ MayFail) /\ Forget
    /\ UNCHANGED <<txn, state, host, calm>>

(* _stop_locked with --force, last VM first.  A transient domain is gone once
   it is off, and the probe after its shutdown fails. *)
StopVm ==
    /\ pc = "stop"
    /\ \E v \in VM :
         /\ IsLast(v)
         /\ \/ /\ dom[v] # "transient" /\ dom' = [dom EXCEPT ![v] = "off"]
               /\ todo' = todo \ {v} /\ UNCHANGED <<pc, state, force, mem, failed>>
            \/ /\ dom[v] = "transient" \/ MayFail
               /\ Forget
               /\ \E back \in SUBSET {w \in VM : dom[w] = "off"} :
                    dom' = [w \in VM |->
                        IF w = v /\ dom[w] = "transient" THEN "absent"
                        ELSE IF w \in back THEN "on" ELSE dom[w]]
               /\ \/ UNCHANGED state
                  \/ /\ status' = "degraded"
                     /\ vms' = [w \in VM |-> IF vms[w] = "missing" THEN "missing"
                                             ELSE IF dom[w] = "off" /\ dom'[w] = "off"
                                             THEN "stopped" ELSE "ready"]
    /\ UNCHANGED <<txn, net, trees, calm>>

StopDone ==
    /\ pc = "stop" /\ todo = {}
    /\ \/ /\ vms' = [v \in VM |-> IF vms[v] = "missing" THEN "missing" ELSE "stopped"]
          /\ status' = "stopped"
          /\ mem' = vms' /\ todo' = VM /\ pc' = "domains"
          /\ UNCHANGED <<force, failed>>
       \/ MayFail /\ Forget /\ UNCHANGED state
    /\ UNCHANGED <<txn, host, calm>>

(* undefine turns a domain that somebody has started into a transient one. *)
Undefined(v) ==
    dom' = [dom EXCEPT ![v] = IF @ \in {"on", "transient"} THEN "transient" ELSE "absent"]

(* Dependants first; a failure is noted and the loop goes on. *)
RemoveDomain ==
    /\ pc = "domains"
    /\ \E v \in VM :
         /\ IsLast(v) /\ todo' = todo \ {v}
         /\ \/ /\ Undefined(v) /\ dom'[v] = "absent"
               /\ mem' = [mem EXCEPT ![v] = "missing"] /\ vms' = mem'
               /\ UNCHANGED failed
            \/ /\ Undefined(v) /\ (dom'[v] # "absent" \/ MayFail)
               /\ failed' = TRUE /\ UNCHANGED vms
               /\ mem' \in {mem, [mem EXCEPT ![v] = IF dom'[v] = "absent" THEN "missing" ELSE @]}
            \/ MayFail /\ failed' = TRUE /\ UNCHANGED <<dom, vms, mem>>
    /\ UNCHANGED <<txn, status, net, trees, pc, force, calm>>

(* With any failure so far the rest is left alone. *)
FailureIgnored(next) == pc' = next   \* mutant: storage goes although a domain stayed
NextUnlessFailed(next) == pc' = IF failed THEN "save_failure" ELSE next

DomainsDone ==
    /\ pc = "domains" /\ todo = {} /\ NextUnlessFailed("network")
    /\ UNCHANGED <<txn, state, host, locals, calm>>

(* net-destroy is not checked; undefining an active network leaves a transient
   one, and destroying that one leaves nothing to verify. *)
RemoveNetwork ==
    /\ pc = "network"
    /\ \/ /\ net # "transient" /\ net' = "absent"
          /\ pc' = "storage" /\ UNCHANGED failed
       \/ net = "transient" /\ net' = "absent" /\ failed' = TRUE /\ pc' = "save_failure"
       \/ /\ MayFail /\ failed' = TRUE /\ pc' = "save_failure"
          /\ \/ UNCHANGED net
             \/ net # "transient" /\ net' = "absent"
             \/ net = "active" /\ net' \in {"inactive", "transient"}
    /\ UNCHANGED <<txn, state, dom, trees, force, todo, mem, calm>>

(* rmtree deletes in no particular order. *)
PartOfTree ==
    /\ storage' \in {storage, IF storage = "marked" THEN "stripped" ELSE storage}
    /\ files' \in [VM -> SUBSET VmFiles] /\ \A v \in VM : files'[v] \subseteq files[v]

RemoveStorage ==
    /\ pc = "storage"
    /\ \/ /\ storage # "stripped" /\ storage' = "absent"
          /\ files' = [v \in VM |-> {}] /\ pc' = "instance" /\ UNCHANGED failed
       \/ /\ MayFail /\ failed' = TRUE /\ pc' = "save_failure"
          /\ \/ PartOfTree
             \/ storage' = "absent" /\ files' = [v \in VM |-> {}]
    /\ UNCHANGED <<txn, state, dom, net, instance, force, todo, mem, calm>>

RemoveInstanceQuiet ==   \* mutant: a failure is noted, and the state file goes all the same
    /\ pc = "instance" /\ pc' = "unlink_state"
    /\ \/ instance' = FALSE /\ UNCHANGED failed
       \/ MayFail /\ failed' = TRUE /\ UNCHANGED instance
    /\ UNCHANGED <<txn, state, dom, net, storage, files, force, todo, mem, calm>>

RemoveInstance ==
    /\ pc = "instance"
    /\ \/ instance' = FALSE /\ pc' = "unlink_state" /\ UNCHANGED failed
       \/ MayFail /\ failed' = TRUE /\ pc' = "save_failure" /\ instance' \in {instance, FALSE}
    /\ UNCHANGED <<txn, state, dom, net, storage, files, force, todo, mem, calm>>

SaveFailure ==
    /\ pc = "save_failure"
    /\ \/ status' = "failed_cleanup" /\ vms' = mem
       \/ MayFail /\ UNCHANGED state
    /\ Forget
    /\ UNCHANGED <<txn, host, calm>>

UnlinkState ==
    /\ pc = "unlink_state"
    /\ \/ status' = "absent" /\ pc' = "unlink_journal"
       \/ MayFail /\ status' \in {status, "absent"} /\ pc' = "save_failure"
    /\ UNCHANGED <<txn, vms, host, locals, calm>>

(* An error here puts the state file back. *)
UnlinkJournal ==
    /\ pc = "unlink_journal"
    /\ \/ journal' = "none" /\ Forget
       \/ /\ MayFail /\ journal' \in {journal, "none"}
          /\ pc' = "save_failure" /\ UNCHANGED locals
    /\ UNCHANGED <<target, state, host, calm>>

-----------------------------------------------------------------------------
(* remove_vm, _remove_vm_locked. *)

(* A VM already on record as missing is not asked for dependants again. *)
NoneRunning(v) ==   \* mutant: a dependant that is switched off does not count
    vms[v] = "missing" \/ \A w \in Dependants(v) : vms[w] \in {"missing", "stopped"}
NoDependants(v) ==
    vms[v] = "missing" \/ \A w \in Dependants(v) : vms[w] = "missing"

BeginRemoveVm ==
    /\ pc = "idle" /\ status # "absent" /\ storage = "marked"
    /\ \E v \in VM :
         /\ journal = "none" \/ (journal = "remove-vm" /\ target = v)
         /\ NoDependants(v)
         /\ journal' = "remove-vm" /\ target' = v
    /\ pc' = "vm_destroy" /\ mem' = vms
    /\ UNCHANGED <<state, host, force, todo, failed, calm>>

(* Destroying a transient domain leaves nothing to verify before undefine. *)
DestroyVm ==
    /\ pc = "vm_destroy"
    /\ \/ /\ dom[target] \in {"on", "off"}
          /\ dom' = [dom EXCEPT ![target] = "off"]
          /\ pc' = "vm_undefine" /\ UNCHANGED locals
       \/ /\ dom[target] = "absent" /\ pc' = "vm_record" /\ UNCHANGED <<dom, locals>>
       \/ /\ dom[target] = "transient" /\ dom' = [dom EXCEPT ![target] = "absent"]
          /\ Forget
       \/ MayFail /\ Forget /\ UNCHANGED dom
    /\ UNCHANGED <<txn, state, net, trees, calm>>

UndefineVm ==
    /\ pc = "vm_undefine"
    /\ Undefined(target)
    /\ \/ dom'[target] = "absent" /\ pc' = "vm_record" /\ UNCHANGED locals
       \/ (dom'[target] # "absent" \/ MayFail) /\ Forget
    /\ UNCHANGED <<txn, state, net, trees, calm>>

RecordVm ==
    /\ pc = "vm_record"
    /\ \/ /\ vms' = [vms EXCEPT ![target] = "missing"] /\ mem' = vms'
          /\ status' = "degraded" /\ pc' = "vm_overlay"
          /\ UNCHANGED <<force, todo, failed>>
       \/ MayFail /\ Forget /\ UNCHANGED state
    /\ UNCHANGED <<txn, host, calm>>

(* _unlink_owned_vm_file: a file that is gone already is no error; a path that
   is not the derived one, or goes through a link, is, and so is an error after
   the file is gone. *)
Unlinked(v, file) == [files EXCEPT ![v] = @ \ {file}]
NotUnlinked(v, file) == {files, Unlinked(v, file)}

(* The files one by one; the second is tried whatever became of the first. *)
UnlinkFile(at, file, next) ==
    /\ pc = at /\ pc' = next
    /\ \/ files' = Unlinked(target, file) /\ UNCHANGED failed
       \/ MayFail /\ failed' = TRUE /\ files' \in NotUnlinked(target, file)
    /\ UNCHANGED <<txn, state, dom, net, storage, instance, force, todo, mem, calm>>

SaveVmRemoved ==
    /\ pc = "vm_save"
    /\ \/ /\ ~failed /\ status' = "degraded" /\ pc' = "vm_unlink" /\ UNCHANGED locals
       \/ failed /\ status' = "failed_cleanup" /\ Forget
       \/ MayFail /\ UNCHANGED status /\ Forget
    /\ UNCHANGED <<txn, vms, host, calm>>

UnlinkVmJournal ==
    /\ pc = "vm_unlink" /\ Forget
    /\ \/ journal' = "none"
       \/ MayFail /\ UNCHANGED journal
    /\ UNCHANGED <<target, state, host, calm>>

-----------------------------------------------------------------------------
(* The environment. *)

Crash ==
    /\ MayFail /\ pc # "idle" /\ Forget
    /\ UNCHANGED <<txn, state, host, calm>>

(* rmtree dies half-way. *)
CrashInRmtree ==
    /\ MayFail /\ pc = "storage" /\ storage = "marked" /\ Forget
    /\ PartOfTree
    /\ UNCHANGED <<txn, state, dom, net, instance, calm>>

(* Somebody starts a domain, whose network must be up ... *)
PowerOn(v) ==
    /\ MayFail /\ dom[v] = "off" /\ "overlay" \in files[v]
    /\ net \in {"active", "transient"}
    /\ dom' = [dom EXCEPT ![v] = "on"]
    /\ UNCHANGED <<txn, state, net, trees, pc, locals, calm>>

(* ... or, between two commands, defines one again whose disk is there. *)
Redefine(v) ==
    /\ MayFail /\ pc = "idle" /\ storage = "marked"
    /\ dom[v] = "absent" /\ files[v] = VmFiles
    /\ dom' = [dom EXCEPT ![v] = "off"]
    /\ UNCHANGED <<txn, state, net, trees, pc, locals, calm>>

CalmDown == ~calm /\ calm' = TRUE /\ UNCHANGED <<txn, state, host, pc, locals>>

LabSteps ==
    \/ MarkMissing \/ Correct \/ GuardRunning \/ StopVm \/ StopDone \/ RemoveDomain
    \/ DomainsDone \/ RemoveNetwork \/ RemoveStorage \/ RemoveInstance
    \/ SaveFailure \/ UnlinkState \/ UnlinkJournal

VmSteps ==
    \/ DestroyVm \/ UndefineVm \/ RecordVm
    \/ UnlinkFile("vm_overlay", "overlay", "vm_seed")
    \/ UnlinkFile("vm_seed", "seed", "vm_save")
    \/ SaveVmRemoved \/ UnlinkVmJournal

Running == LabSteps \/ VmSteps
Begin == BeginRemove \/ FinishRemove \/ BeginRemoveVm
Environment ==
    \/ Crash \/ CrashInRmtree \/ CalmDown
    \/ \E v \in VM : PowerOn(v) \/ Redefine(v)

Next == Begin \/ Running \/ Environment

Spec == Init /\ [][Next]_vars

(* A command that runs goes on (its waits have deadlines), and the operator
   retries a pending removal as docs/troubleshooting.md asks, again and again
   with --force: a try without it is refused while guests run. *)
Retry ==
    /\ journal # "none"
    /\ \/ BeginRemove /\ force'
       \/ FinishRemove
       \/ BeginRemoveVm
FairSpec == Spec /\ WF_vars(Running) /\ SF_vars(Retry)

-----------------------------------------------------------------------------
(* Properties. *)

(* Every variable holds a value of its type. *)
TypeOK ==
    /\ journal \in {"none", "remove", "remove-vm"} /\ target \in VM
    /\ status \in Statuses /\ vms \in [VM -> VmStates]
    /\ dom \in [VM -> DomStates] /\ net \in NetStates
    /\ storage \in {"marked", "stripped", "absent"}
    /\ files \in [VM -> SUBSET VmFiles] /\ instance \in BOOLEAN
    /\ pc \in {"idle"} \union RemovePcs \union RemoveVmPcs
    /\ force \in BOOLEAN /\ todo \subseteq VM /\ mem \in [VM -> VmStates]
    /\ failed \in BOOLEAN /\ calm \in BOOLEAN

(* docs/architecture.md: "Cleanup orders domains and networks before dedicated
   storage, dedicated storage before private control files, and state and
   journals last."  So a VM whose files are touched has no domain any more, a
   lab whose storage is touched by a removal has no domain and no network, and
   without a state file nothing of the lab is left, whatever failed, wherever
   the process died and whoever started a guest meanwhile. *)
CleanupOrder ==
    /\ \A v \in VM : files[v] # VmFiles => dom[v] = "absent"
    /\ storage # "marked" => net = "absent" /\ \A v \in VM : dom[v] = "absent"
    /\ ~instance => storage = "absent"
    /\ status = "absent" => ~instance

(* docs/troubleshooting.md: "the journal is not permission to bypass the
   running-lab guard".  Without --force no step of a lab removal, first try or
   retry, takes a running guest down. *)
UnforcedLeavesGuests ==
    [][journal = "remove" /\ ~force =>
        \A v \in On : dom'[v] \in {"on", "transient"}]_vars

(* docs/architecture.md: "Targeted removal refuses to remove a VM while any
   transitive dependant remains."  In a lab that is kept, a VM without a domain
   has no dependant with one, also after interrupted and retried removals. *)
DependantsFirst ==
    journal # "remove" /\ status # "absent" =>
        \A v \in VM : dom[v] = "absent" => \A w \in Dependants(v) : dom[w] = "absent"

(* Once nothing interferes any more, a pending removal whose storage still has
   its marker is finished by retrying it. *)
RetryFinishes ==
    (calm /\ pc = "idle" /\ journal # "none" /\ StorageTrusted) ~> journal = "none"

(* docs/troubleshooting.md: "Lab removal: retry `labctl lab rm ID`", with no
   condition on where the removal was interrupted. *)
InterruptedIsRetried == (calm /\ pc = "idle" /\ journal = "remove") ~> journal = "none"

(* The removal implements its contract. *)
LabPhase == IF journal = "remove" THEN "leaving"
            ELSE IF status = "absent" THEN "gone" ELSE "kept"

CoreParts == {<<"network", 0>>, <<"storage", 0>>, <<"instance", 0>>}
LabParts  == CoreParts \union {<<"domain", v>> : v \in VM}

Left ==
    {<<"domain", v>> : v \in {w \in VM : dom[w] # "absent"}}
    \union {p \in CoreParts : \/ (p[1] = "network" /\ net # "absent")
                              \/ (p[1] = "storage" /\ storage # "absent")
                              \/ (p[1] = "instance" /\ instance)}

Outside == INSTANCE RemovalContract
    WITH Parts <- LabParts, Core <- CoreParts, phase <- LabPhase, left <- Left

ImplementsRemoval == Outside!Removal
=============================================================================
