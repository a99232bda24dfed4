----------------------------- MODULE CreateTxn -----------------------------
(***************************************************************************)
(* Creation of a lab: KVMOrchestrator.create with its in-process rollback, *)
(* and the recovery of an interrupted creation that `lab create` and       *)
(* `lab rm` run (_recover_create).                                         *)
(*                                                                         *)
(* One lab is modelled.  Its lock admits one operation at a time, so there *)
(* is one process; what makes the protocol hard is that the process may    *)
(* fail at every step, or die between any two of them, while libvirt, the  *)
(* storage tree and the two JSON files each keep what was already done.    *)
(* One action is one durable effect with the checks the code makes just    *)
(* before it.  Storage is the dedicated (split) layout, the one the        *)
(* application always configures.                                          *)
(***************************************************************************)
EXTENDS Integers

CONSTANTS
    N           \* virtual machines of the lab; 1..N is vm_order

ASSUME NAssumption == N \in Nat \ {0}

VM == 1 .. N

VARIABLES
    (* Durable files. *)
    journal,   \* does the create journal exist?
    stage,     \* stage of each VM record in the journal
    status,    \* field "state" of the state file, "absent" without a file
    vms,       \* state of each VM in the state file
    storage,   \* the instance's storage directory and its ownership marker
    instance,  \* does the private instance directory exist?
    (* libvirt. *)
    dom,       \* each deterministic domain name: who owns what it names
    running,   \* domains that are running
    net,       \* the lab's network
    (* The process; lost when it dies. *)
    pc,        \* where it is, "idle" outside the lab lock
    cmd,       \* the command being run
    k,         \* the VM create is working on
    mem,       \* the VM states of the state document in memory
    todo,      \* domains still to be cleaned up (rollback stack, or records)
    netUndo,   \* the network's part of the rollback stack
    made,      \* storage_created and instance_created
    failed,    \* has a cleanup step failed?
    (* The environment. *)
    calm,      \* TRUE: from now on nothing fails, dies or interferes
    (* History, which no step reads. *)
    slips      \* steps of this creation that raised with their effect in place

txn       == <<journal, stage>>
state     == <<status, vms>>
trees     == <<storage, instance>>
libvirt   == <<dom, running, net>>
undoStack == <<todo, netUndo, made>>
files     == <<txn, state, trees>>
locals    == <<cmd, k, mem, undoStack, failed>>
process   == <<pc, locals>>
vars      == <<files, libvirt, process, calm, slips>>

(* The failures that a rollback does not see: an effect of which it holds no
   entry, or a commit that is on disk. *)
Slips     == {"mkdir_storage", "net_define", "net_start", "commit", "undo_journal"}

Stages    == {"none", "planned", "attached"}
Statuses  == {"absent", "provisioning", "ready", "failed_cleanup"}
VmStates  == {"none", "provisioning", "running", "ready", "missing"}
Dirs      == {"absent", "unmarked", "marked"}
DomStates == {"absent", "foreign", "bare", "owned"}
    \* bare: defined by our virt-install, ownership metadata not yet attached
NetStates ==
    {"absent", "foreign", "defined", "autostart", "active", "transient"}
CreatePcs ==
    {"save_journal", "save_state", "mkdir_instance", "mkdir_storage", "marker",
     "net_define", "net_autostart", "net_start", "prepare", "plan",
     "virt_install", "metadata", "attach", "boot", "wait_ready", "commit",
     "unlink_journal"}
UndoPcs ==
    {"undo_domains", "undo_net_start", "undo_net_define", "undo_storage",
     "undo_rmtree", "undo_instance", "undo_state", "undo_journal",
     "save_failure"}
RecoverPcs ==
    {"recover_domains", "recover_network", "recover_storage", "recover_rmtree",
     "recover_instance", "recover_state", "recover_journal"}

-----------------------------------------------------------------------------
(* Helpers. *)

(* reversed(order) and reversed(rollback): the latest domain goes first. *)
IsLast(v) == v \in todo /\ \A w \in todo : w <= v

OurDomain(v) == dom[v] \in {"bare", "owned"}
OurNet       == net \in {"defined", "autostart", "active", "transient"}
Records      == {v \in VM : stage[v] # "none"}

(* A step may raise, before or (a failing fsync) after its effect, unless the
   environment is calm. *)
MayFail == ~calm

(* The process forgets everything: it returns, raises to its caller, or dies. *)
Forget ==
    /\ pc' = "idle" /\ cmd' = "none" /\ k' = 1
    /\ mem' = [v \in VM |-> "none"]
    /\ todo' = {} /\ netUndo' = "none" /\ made' = {} /\ failed' = FALSE

(* `except Exception`: control moves to the rollback, newest step first. *)
Rollback == pc' = "undo_domains"
Fault    == MayFail /\ Rollback

(* ... and a step that raises although its effect is there. *)
Slip(s)   == Fault /\ slips' = slips \union {s}

(* What the checks of _validated_create_journal distinguish: the state the
   records refer to, the marker of a storage tree that exists, the marker again
   for every VM record (through _validated_recreation_argv), and the shape of a
   committed creation. *)
ValidJournal ==
    /\ status = "absent" => Records = {}
    /\ status # "absent" /\ storage # "absent" => storage = "marked"
    /\ Records # {} => storage = "marked"
    /\ \A v \in Records : vms[v] # "none"
    /\ status = "ready" =>
          \A v \in VM : stage[v] = "attached" /\ vms[v] = "ready"

Init ==
    /\ slips = {}
    /\ journal = FALSE /\ stage = [v \in VM |-> "none"]
    /\ status = "absent" /\ vms = [v \in VM |-> "none"]
    /\ storage = "absent" /\ instance = FALSE
    /\ dom = [v \in VM |-> "absent"] /\ running = {} /\ net = "absent"
    /\ pc = "idle" /\ cmd = "none" /\ k = 1
    /\ mem = [v \in VM |-> "none"]
    /\ todo = {} /\ netUndo = "none" /\ made = {} /\ failed = FALSE
    /\ calm = FALSE

-----------------------------------------------------------------------------
(* create, _create_locked: the way forward.                                *)

(* No journal: create goes ahead when neither state nor instance exists. *)
BeginCreate ==
    /\ pc = "idle" /\ ~journal /\ status = "absent" /\ ~instance
    /\ pc' = "save_journal" /\ cmd' = "create"
    /\ UNCHANGED <<files, libvirt, k, mem, undoStack, failed, calm, slips>>

(* The first durable write.  The UUID is fresh, so every name derived from it
   is free, that of the storage directory too, and what an earlier creation
   left under its own names is not followed any further; a failure here is
   outside the try block. *)
SaveJournal ==
    /\ pc = "save_journal"
    /\ \/ /\ journal' = TRUE /\ stage' = [v \in VM |-> "none"]
          /\ dom' = [v \in VM |-> "absent"] /\ running' = {} /\ net' = "absent"
          /\ storage' = "absent" /\ slips' = {}
          /\ pc' = "save_state"
          /\ UNCHANGED locals
       \/ MayFail /\ Forget /\ UNCHANGED <<txn, storage, libvirt, slips>>
    /\ UNCHANGED <<state, instance, calm>>

SaveProvisioning ==
    /\ pc = "save_state"
    /\ \/ /\ status' = "provisioning" /\ vms' = mem
          /\ pc' = "mkdir_instance"
          /\ UNCHANGED locals
       \/ MayFail /\ Forget /\ UNCHANGED state
    /\ UNCHANGED <<txn, trees, libvirt, calm, slips>>

MkdirInstance ==
    /\ pc = "mkdir_instance"
    /\ \/ /\ instance' = TRUE /\ made' = made \union {"instance"}
          /\ pc' = "mkdir_storage"
       \/ Fault /\ UNCHANGED <<instance, made>>
    /\ UNCHANGED <<txn, state, storage, libvirt>>
    /\ UNCHANGED <<cmd, k, mem, todo, netUndo, failed, calm, slips>>

(* _mkdir_shared checks mode and group, and fsyncs, after the directory is
   there; storage_created is set only when it returns. *)
MkdirStorage ==
    /\ pc = "mkdir_storage"
    /\ \/ /\ storage' = "unmarked" /\ made' = made \union {"storage"}
          /\ pc' = "marker"
          /\ UNCHANGED slips
       \/ Fault /\ UNCHANGED <<storage, made, slips>>
       \/ Slip("mkdir_storage") /\ storage' = "unmarked" /\ UNCHANGED made
    /\ UNCHANGED <<txn, state, instance, libvirt>>
    /\ UNCHANGED <<cmd, k, mem, todo, netUndo, failed, calm>>

WriteMarker ==
    /\ pc = "marker"
    /\ \/ storage' = "marked" /\ pc' = "net_define"
       \/ Fault /\ storage' \in {"unmarked", "marked"}
    /\ UNCHANGED <<txn, state, instance, libvirt, locals, calm, slips>>

(* Snapshot, keys, network.xml; then the network must not exist yet.  Its undo
   is pushed only when net-define has returned: one that raises after it
   defined the network leaves it off the stack. *)
DefineNetwork ==
    /\ pc = "net_define"
    /\ \/ /\ net = "absent" /\ net' = "defined" /\ netUndo' = "undefine"
          /\ pc' = "net_autostart" /\ UNCHANGED slips
       \/ net # "absent" /\ Rollback /\ UNCHANGED <<net, netUndo, slips>>
       \/ Fault /\ UNCHANGED <<net, netUndo, slips>>
       \/ /\ net = "absent" /\ Slip("net_define")
          /\ net' = "defined" /\ UNCHANGED netUndo
    /\ UNCHANGED <<files, dom, running, cmd, k, mem, todo, made, failed, calm>>

AutostartNetwork ==
    /\ pc = "net_autostart"
    /\ \/ net' = "autostart" /\ pc' = "net_start"
       \/ Fault /\ net' \in {net, "autostart"}
    /\ UNCHANGED <<files, dom, running, locals, calm, slips>>

(* Here too: a net-start that raises after it started the network has nothing
   on the stack that would stop it. *)
StartNetwork ==
    /\ pc = "net_start"
    /\ \/ net' = "active" /\ netUndo' = "destroy" /\ pc' = "prepare"
          /\ UNCHANGED slips
       \/ Fault /\ UNCHANGED <<net, netUndo, slips>>
       \/ Slip("net_start") /\ net' = "active" /\ UNCHANGED netUndo
    /\ UNCHANGED <<files, dom, running, cmd, k, mem, todo, made, failed, calm>>

(* The name must be free; base, overlay, host key and seed are written; the VM
   enters the state document, which is saved. *)
PrepareVm ==
    /\ pc = "prepare"
    /\ \/ /\ dom[k] = "absent"
          /\ mem' = [mem EXCEPT ![k] = "provisioning"] /\ vms' = mem'
          /\ pc' = "plan"
       \/ dom[k] # "absent" /\ Rollback /\ UNCHANGED <<vms, mem>>
       \/ /\ Fault /\ mem' \in {mem, [mem EXCEPT ![k] = "provisioning"]}
          /\ vms' \in {vms, mem'}
    /\ UNCHANGED <<txn, status, trees, libvirt, cmd, k, undoStack, failed, calm, slips>>

(* The record that lets recovery adopt an unowned domain, saved before
   virt-install; the cleanup is pushed once it is saved. *)
PlanVmUnsaved ==   \* mutant: the record is not saved before virt-install
    /\ pc = "plan" /\ pc' = "virt_install" /\ todo' = todo \union {k}
    /\ UNCHANGED <<files, libvirt, cmd, k, mem, netUndo, made, failed, calm, slips>>

PlanVm ==
    /\ pc = "plan"
    /\ \/ /\ stage' = [stage EXCEPT ![k] = "planned"]
          /\ todo' = todo \union {k} /\ pc' = "virt_install"
       \/ /\ Fault /\ UNCHANGED todo
          /\ stage' \in {stage, [stage EXCEPT ![k] = "planned"]}
    /\ UNCHANGED <<journal, state, trees, libvirt>>
    /\ UNCHANGED <<cmd, k, mem, netUndo, made, failed, calm, slips>>

(* virt-install defines and boots the domain, without metadata; one that
   reports failure may leave the domain behind. *)
InstallVm ==
    /\ pc = "virt_install"
    /\ \/ /\ dom[k] = "absent" /\ dom' = [dom EXCEPT ![k] = "bare"]
          /\ running' = running \union {k} /\ pc' = "metadata"
       \/ dom[k] = "foreign" /\ Rollback /\ UNCHANGED <<dom, running>>
       \/ Fault /\ UNCHANGED <<dom, running>>
       \/ /\ Fault /\ dom[k] = "absent" /\ dom' = [dom EXCEPT ![k] = "bare"]
          /\ running' \in {running, running \union {k}}
    /\ UNCHANGED <<files, net, locals, calm, slips>>

AttachMetadata ==
    /\ pc = "metadata"
    /\ \/ dom' = [dom EXCEPT ![k] = "owned"] /\ pc' = "attach"
       \/ Fault /\ dom' \in {dom, [dom EXCEPT ![k] = "owned"]}
    /\ UNCHANGED <<files, running, net, locals, calm, slips>>

RecordAttached ==
    /\ pc = "attach"
    /\ \/ stage' = [stage EXCEPT ![k] = "attached"] /\ pc' = "boot"
       \/ Fault /\ stage' \in {stage, [stage EXCEPT ![k] = "attached"]}
    /\ UNCHANGED <<journal, state, trees, libvirt, locals, calm, slips>>

RecordRunning ==
    /\ pc = "boot"
    /\ mem' = [mem EXCEPT ![k] = "running"]
    /\ \/ vms' = mem' /\ pc' = "wait_ready"
       \/ Fault /\ vms' \in {vms, mem'}
    /\ UNCHANGED <<txn, status, trees, libvirt, cmd, k, undoStack, failed, calm, slips>>

(* Is this VM the last of vm_order? *)
LastVmEarly == k >= N - 1   \* mutants: the loop ends one VM early, or late
LastVmLate  == k > N
LastVm      == k = N

(* _wait_ready succeeds and is recorded, or the deadline passes. *)
WaitReady ==
    /\ pc = "wait_ready"
    /\ \/ /\ mem' = [mem EXCEPT ![k] = "ready"] /\ vms' = mem'
          /\ IF LastVm THEN pc' = "commit" /\ k' = k
                        ELSE pc' = "prepare" /\ k' = k + 1
       \/ /\ Fault /\ UNCHANGED k
          /\ mem' \in {mem, [mem EXCEPT ![k] = "ready"]} /\ vms' \in {vms, mem'}
    /\ UNCHANGED <<txn, status, trees, libvirt, cmd, undoStack, failed, calm, slips>>

(* Controller access, fsync of the tree, then the state "ready": the commit.
   From here on any failure, also one that touches nothing, finds "ready" on
   disk, and the try block has not ended. *)
Commit ==
    /\ pc = "commit"
    /\ \/ /\ status' = "ready" /\ vms' = mem /\ pc' = "unlink_journal"
          /\ UNCHANGED slips
       \/ Fault /\ UNCHANGED <<state, slips>>
       \/ Slip("commit") /\ status' = "ready" /\ vms' = mem
    /\ UNCHANGED <<txn, trees, libvirt, locals, calm>>

UnlinkJournal ==
    /\ pc = "unlink_journal"
    /\ \/ /\ journal' = FALSE /\ stage' = [v \in VM |-> "none"] /\ Forget
          /\ UNCHANGED slips
       \/ /\ Slip("commit") /\ UNCHANGED locals
          /\ \/ UNCHANGED txn
             \/ journal' = FALSE /\ stage' = [v \in VM |-> "none"]
    /\ UNCHANGED <<state, trees, libvirt, calm>>

-----------------------------------------------------------------------------
(* _create_locked's except block: the rollback stack, then storage, instance,
   state and journal, each only if nothing failed before it.               *)

(* May the name be cleaned up: is it free, or does its metadata say it is ours? *)
RemovableUnverified(v) == dom[v] # "bare"   \* mutant: ownership is not verified
Removable(v) == dom[v] \in {"absent", "owned"}

(* _cleanup_created_domain on v, called by the rollback and by recovery: probe,
   verify ownership, destroy if active, undefine.  It succeeds ... *)
Cleaned(v) ==
    /\ Removable(v)
    /\ dom' = [dom EXCEPT ![v] = "absent"] /\ running' = running \ {v}
    /\ UNCHANGED failed

(* ... or its error joins the others; the domain may then be off or gone. *)
NotCleaned(v) ==
    /\ ~Removable(v) \/ MayFail
    /\ failed' = TRUE
    /\ \/ UNCHANGED <<dom, running>>
       \/ /\ Removable(v) /\ running' = running \ {v}
          /\ dom' \in {dom, [dom EXCEPT ![v] = "absent"]}

UndoDomain ==
    /\ pc = "undo_domains"
    /\ \E v \in VM :
         /\ IsLast(v) /\ todo' = todo \ {v}
         /\ \/ Cleaned(v) /\ mem' = [mem EXCEPT ![v] = "missing"]
            \/ NotCleaned(v) /\ UNCHANGED mem
    /\ UNCHANGED <<files, net, pc, cmd, k, netUndo, made, calm, slips>>

UndoDomainsOnly ==   \* mutant: the network's part of the stack is skipped
    /\ pc = "undo_domains" /\ todo = {} /\ pc' = "undo_storage"
    /\ UNCHANGED <<files, libvirt, locals, calm, slips>>

UndoDomainsDone ==
    /\ pc = "undo_domains" /\ todo = {}
    /\ pc' = CASE netUndo = "destroy"  -> "undo_net_start"
               [] netUndo = "undefine" -> "undo_net_define"
               [] OTHER                -> "undo_storage"
    /\ UNCHANGED <<files, libvirt, locals, calm, slips>>

UndoNetStart ==
    /\ pc = "undo_net_start"
    /\ pc' = "undo_net_define" /\ netUndo' = "undefine"
    /\ \/ net = "active" /\ net' = "autostart" /\ UNCHANGED failed
       \/ MayFail /\ failed' = TRUE /\ net' \in {net, "autostart"}
    /\ UNCHANGED <<files, dom, running, cmd, k, mem, todo, made, calm, slips>>

(* Undefining a network that is still active leaves a transient one. *)
Undefined == IF net = "active" THEN "transient" ELSE "absent"

UndoNetDefine ==
    /\ pc = "undo_net_define"
    /\ pc' = "undo_storage" /\ netUndo' = "none"
    /\ \/ net' = Undefined /\ UNCHANGED failed
       \/ MayFail /\ failed' = TRUE /\ net' \in {net, Undefined}
    /\ UNCHANGED <<files, dom, running, cmd, k, mem, todo, made, calm, slips>>

(* The marker is validated, then rmtree starts; it deletes in no fixed order,
   so the marker may go first. *)
UndoStorage ==
    /\ pc = "undo_storage"
    /\ \/ failed /\ pc' = "save_failure" /\ UNCHANGED <<storage, failed>>
       \/ /\ ~failed /\ "storage" \notin made
          /\ pc' = "undo_instance" /\ UNCHANGED <<storage, failed>>
       \/ /\ ~failed /\ "storage" \in made /\ storage # "marked"
          /\ failed' = TRUE /\ pc' = "save_failure" /\ UNCHANGED storage
       \/ /\ ~failed /\ "storage" \in made /\ storage = "marked"
          /\ pc' = "undo_rmtree" /\ storage' \in {"marked", "unmarked"}
          /\ UNCHANGED failed
    /\ UNCHANGED <<txn, state, instance, libvirt, cmd, k, mem, undoStack, calm, slips>>

UndoRmtree ==
    /\ pc = "undo_rmtree"
    /\ \/ storage' = "absent" /\ pc' = "undo_instance" /\ UNCHANGED failed
       \/ /\ MayFail /\ failed' = TRUE /\ pc' = "save_failure"
          /\ storage' \in {storage, "absent"}
    /\ UNCHANGED <<txn, state, instance, libvirt, cmd, k, mem, undoStack, calm, slips>>

UndoInstance ==
    /\ pc = "undo_instance"
    /\ \/ instance' = FALSE /\ "instance" \in made
       \/ UNCHANGED instance
    /\ \/ /\ "instance" \in made => ~instance'
          /\ pc' = "undo_state" /\ UNCHANGED failed
       \/ /\ MayFail /\ "instance" \in made
          /\ failed' = TRUE /\ pc' = "save_failure"
    /\ UNCHANGED <<txn, state, storage, libvirt, cmd, k, mem, undoStack, calm, slips>>

UndoState ==
    /\ pc = "undo_state"
    /\ \/ status' = "absent" /\ vms' = [v \in VM |-> "none"]
       \/ MayFail /\ UNCHANGED state
    /\ \/ status' = "absent" /\ pc' = "undo_journal" /\ UNCHANGED failed
       \/ MayFail /\ failed' = TRUE /\ pc' = "save_failure"
    /\ UNCHANGED <<txn, trees, libvirt, cmd, k, mem, undoStack, calm, slips>>

UndoJournal ==
    /\ pc = "undo_journal"
    /\ \/ /\ journal' = FALSE /\ stage' = [v \in VM |-> "none"] /\ Forget
          /\ UNCHANGED slips
       \/ /\ MayFail /\ failed' = TRUE /\ pc' = "save_failure"
          /\ \/ UNCHANGED <<txn, slips>>
             \/ /\ journal' = FALSE /\ stage' = [v \in VM |-> "none"]
                /\ slips' = slips \union {"undo_journal"}
          /\ UNCHANGED <<cmd, k, mem, undoStack>>
    /\ UNCHANGED <<state, trees, libvirt, calm>>

SaveFailure ==
    /\ pc = "save_failure"
    /\ \/ status' = "failed_cleanup" /\ vms' = mem
       \/ MayFail /\ UNCHANGED state
    /\ Forget
    /\ UNCHANGED <<txn, trees, libvirt, calm, slips>>

-----------------------------------------------------------------------------
(* _recover_create, run by `lab create` and by `lab rm`.                   *)

(* Without state, or with a committed one, only the journal is left to remove. *)
NothingWithoutState == status = "absent"   \* mutant: a commit is not recognised
NothingToUndo       == status \in {"absent", "ready"}

(* A journal that fails validation is refused before anything is touched. *)
BeginRecovery(c) ==
    /\ pc = "idle" /\ journal /\ ValidJournal
    /\ cmd' = c
    /\ IF NothingToUndo
         THEN pc' = "recover_journal" /\ todo' = {}
         ELSE pc' = "recover_domains" /\ todo' = Records
    /\ UNCHANGED <<files, libvirt, k, mem, netUndo, made, failed, calm, slips>>

(* May an unowned domain be adopted?  Only under a planned record. *)
NeverAdoptable(v) == FALSE   \* mutant: recovery does not adopt
Adoptable(v) == dom[v] = "bare" /\ stage[v] = "planned"

(* External: `virsh metadata --live` is refused for a domain that is off. *)
TakesMetadata(v) == v \in running

(* One journalled domain; an adopted one is cleaned up like any other. *)
RecoverDomain ==
    /\ pc = "recover_domains"
    /\ \E v \in VM :
         /\ IsLast(v) /\ todo' = todo \ {v}
         /\ \/ ~Adoptable(v) /\ (Cleaned(v) \/ NotCleaned(v))
            \/ /\ Adoptable(v) /\ TakesMetadata(v)
               /\ dom' = [dom EXCEPT ![v] = "absent"]
               /\ running' = running \ {v} /\ UNCHANGED failed
            \/ /\ Adoptable(v) /\ TakesMetadata(v) /\ MayFail /\ failed' = TRUE
               /\ dom' = [dom EXCEPT ![v] = "owned"]
               /\ running' \in {running, running \ {v}}
            \/ /\ Adoptable(v) /\ (~TakesMetadata(v) \/ MayFail)
               /\ failed' = TRUE /\ UNCHANGED <<dom, running>>
    /\ UNCHANGED <<files, net, pc, cmd, k, mem, netUndo, made, calm, slips>>

RecoverStorageFirst ==   \* mutant: storage before the network
    /\ pc = "recover_domains" /\ todo = {} /\ pc' = "recover_storage"
    /\ UNCHANGED <<files, libvirt, locals, calm, slips>>

RecoverDomainsDone ==
    /\ pc = "recover_domains" /\ todo = {} /\ pc' = "recover_network"
    /\ UNCHANGED <<files, libvirt, locals, calm, slips>>

(* Verify, destroy if active, undefine if it still exists.  Any failure so far
   ends the recovery here, before storage and files. *)
RecoverNetwork ==
    /\ pc = "recover_network"
    /\ \/ /\ net # "foreign" /\ net' = "absent"
          /\ IF failed THEN Forget
             ELSE /\ pc' = "recover_storage"
                  /\ UNCHANGED locals
       \/ net = "foreign" /\ Forget /\ UNCHANGED net
       \/ MayFail /\ Forget /\ UNCHANGED net
       \/ MayFail /\ Forget /\ net = "active" /\ net' = "autostart"
       \/ MayFail /\ Forget /\ net # "foreign" /\ net' = "absent"
    /\ UNCHANGED <<files, dom, running, calm, slips>>

RecoverStorage ==
    /\ pc = "recover_storage"
    /\ \/ /\ storage = "absent" /\ pc' = "recover_instance" /\ UNCHANGED storage
          /\ UNCHANGED locals
       \/ /\ storage = "marked" /\ storage' \in {"marked", "unmarked"}
          /\ pc' = "recover_rmtree"
          /\ UNCHANGED locals
       \/ storage = "unmarked" /\ Forget /\ UNCHANGED storage
    /\ UNCHANGED <<txn, state, instance, libvirt, calm, slips>>

RecoverRmtreeQuiet ==   \* mutant: a failing rmtree is ignored
    /\ pc = "recover_rmtree" /\ pc' = "recover_instance"
    /\ \/ storage' = "absent"
       \/ MayFail /\ UNCHANGED storage
    /\ UNCHANGED <<txn, state, instance, libvirt, locals, calm, slips>>

RecoverRmtree ==
    /\ pc = "recover_rmtree"
    /\ \/ /\ storage' = "absent" /\ pc' = "recover_instance"
          /\ UNCHANGED locals
       \/ MayFail /\ Forget /\ UNCHANGED storage
    /\ UNCHANGED <<txn, state, instance, libvirt, calm, slips>>

RecoverInstance ==
    /\ pc = "recover_instance"
    /\ \/ /\ instance' = FALSE /\ pc' = "recover_state"
          /\ UNCHANGED locals
       \/ MayFail /\ Forget /\ UNCHANGED instance
    /\ UNCHANGED <<txn, state, storage, libvirt, calm, slips>>

RecoverState ==
    /\ pc = "recover_state"
    /\ \/ /\ status' = "absent" /\ vms' = [v \in VM |-> "none"]
          /\ pc' = "recover_journal"
          /\ UNCHANGED locals
       \/ MayFail /\ Forget /\ UNCHANGED state
    /\ UNCHANGED <<txn, trees, libvirt, calm, slips>>

(* The journal goes last.  `lab create` continues with a new creation when
   neither state nor instance is left. *)
RecoverJournal ==
    /\ pc = "recover_journal"
    /\ \/ /\ journal' = FALSE /\ stage' = [v \in VM |-> "none"]
          /\ IF cmd = "create" /\ status = "absent" /\ ~instance
               THEN /\ pc' = "save_journal"
                    /\ UNCHANGED locals
               ELSE Forget
       \/ MayFail /\ Forget /\ UNCHANGED txn
    /\ UNCHANGED <<state, trees, libvirt, calm, slips>>
-----------------------------------------------------------------------------
(* The environment. *)

(* The process is killed, or interrupted by an exception that is no Exception;
   the kernel releases the flock. *)
Crash ==
    /\ MayFail /\ pc # "idle" /\ Forget
    /\ UNCHANGED <<files, libvirt, calm, slips>>

(* The host restarts: domains are off, only an autostart network comes back. *)
HostReboot ==
    /\ MayFail /\ Forget
    /\ running' = {}
    /\ net' = CASE net = "autostart" -> "active"
                [] net = "transient" -> "absent"
                [] OTHER             -> net
    /\ UNCHANGED <<files, dom, calm, slips>>

(* Somebody else defines, or removes, a resource under a name labctl derives. *)
ForeignDomain(v) ==
    /\ MayFail /\ journal
    /\ \/ dom[v] = "absent"  /\ dom' = [dom EXCEPT ![v] = "foreign"]
       \/ dom[v] = "foreign" /\ dom' = [dom EXCEPT ![v] = "absent"]
    /\ UNCHANGED <<files, running, net, process, calm, slips>>

ForeignNetwork ==
    /\ MayFail /\ journal
    /\ \/ net = "absent"  /\ net' = "foreign"
       \/ net = "foreign" /\ net' = "absent"
    /\ UNCHANGED <<files, dom, running, process, calm, slips>>

(* The underlying problem is fixed: no more faults, no conflicting resource. *)
CalmDown ==
    /\ ~calm /\ calm' = TRUE
    /\ net # "foreign" /\ \A v \in VM : dom[v] # "foreign"
    /\ UNCHANGED <<files, libvirt, process, slips>>

-----------------------------------------------------------------------------
CreateForward ==
    \/ SaveJournal \/ SaveProvisioning \/ MkdirInstance \/ MkdirStorage
    \/ WriteMarker \/ DefineNetwork \/ AutostartNetwork \/ StartNetwork
    \/ PrepareVm \/ PlanVm \/ InstallVm \/ AttachMetadata \/ RecordAttached
    \/ RecordRunning \/ WaitReady \/ Commit \/ UnlinkJournal

CreateRollback ==
    \/ UndoDomain \/ UndoDomainsDone \/ UndoNetStart \/ UndoNetDefine
    \/ UndoStorage \/ UndoRmtree \/ UndoInstance \/ UndoState \/ UndoJournal
    \/ SaveFailure

Recovery ==
    \/ RecoverDomain \/ RecoverDomainsDone \/ RecoverNetwork \/ RecoverStorage
    \/ RecoverRmtree \/ RecoverInstance \/ RecoverState \/ RecoverJournal

Running == CreateForward \/ CreateRollback \/ Recovery

Retry == \E c \in {"create", "rm"} : BeginRecovery(c)

Environment ==
    \/ Crash \/ HostReboot \/ CalmDown \/ ForeignNetwork
    \/ \E v \in VM : ForeignDomain(v)

Next == BeginCreate \/ Retry \/ Running \/ Environment

Spec == Init /\ [][Next]_vars

(* A command that runs keeps running (one process, no waiting on others; the
   waits have deadlines, virsh and virt-install are taken to return), and an
   operator whose lab has a pending creation keeps retrying, as
   docs/troubleshooting.md asks. *)
FairSpec == Spec /\ WF_vars(Running) /\ WF_vars(Retry)

-----------------------------------------------------------------------------
(* Properties. *)

TypeFlags ==
    /\ journal \in BOOLEAN /\ instance \in BOOLEAN
    /\ failed \in BOOLEAN /\ calm \in BOOLEAN

TypeFiles ==
    /\ stage \in [VM -> Stages] /\ status \in Statuses
    /\ vms \in [VM -> VmStates] /\ storage \in Dirs

TypeLibvirt == dom \in [VM -> DomStates] /\ net \in NetStates

TypeProcess ==
    /\ pc \in {"idle"} \union CreatePcs \union UndoPcs \union RecoverPcs
    /\ cmd \in {"none", "create", "rm"} /\ k \in VM
    /\ mem \in [VM -> VmStates]
    /\ netUndo \in {"none", "undefine", "destroy"}

TypeSets ==
    /\ running \subseteq VM /\ todo \subseteq VM
    /\ made \subseteq {"instance", "storage"} /\ slips \subseteq Slips

(* Every variable holds a value of its type. *)
TypeOK == TypeFlags /\ TypeFiles /\ TypeLibvirt /\ TypeProcess /\ TypeSets

AnyDomain == \E v \in VM : OurDomain(v)

(* The slips that leave a network off the rollback stack, or half on it. *)
NetSlips == {"net_define", "net_start"}

(* Cleanup order, and no orphans: while a domain or the network of the lab
   exists its storage is there with its marker, while storage exists so does
   the instance directory, while that exists so does the state file, and an
   unfinished state file has its journal.  So without state nothing of the lab
   is left on the host, whatever failed and wherever the process died, but for
   what a step left that raised with its effect in place: a network that
   net-define or net-start left, an empty storage directory that mkdir left,
   and a state file whose journal was unlinked by a step that then failed.  A
   domain is never left, whatever slips. *)
CleanupOrder ==
    /\ AnyDomain => storage = "marked"
    /\ OurNet /\ storage # "marked" => slips \cap NetSlips # {}
    /\ storage # "absent" /\ ~instance => "mkdir_storage" \in slips
    /\ instance => status # "absent"
    /\ status \in {"provisioning", "failed_cleanup"} /\ ~journal
           => slips \cap {"commit", "undo_journal"} # {}

(* A domain that virt-install defined but whose metadata is missing can always
   be told from a foreign one: its journal record is durable and still
   "planned", the only stage at which recovery adopts. *)
BareIsAdoptable ==
    \A v \in VM : dom[v] = "bare" => journal /\ stage[v] = "planned"

(* A lab whose record says ready has every domain, owned, its network and its
   marked storage, and every VM was seen ready, unless the creation that wrote
   the record failed after that, at the commit. *)
ReadyIsComplete ==
    status = "ready" /\ "commit" \notin slips =>
        /\ \A v \in VM : dom[v] = "owned" /\ vms[v] = "ready"
        /\ net = "active" /\ storage = "marked" /\ instance

(* Nothing labctl does changes a resource it does not own; only the step that
   draws a fresh UUID turns to other names. *)
ForeignUntouched ==
    [][/\ pc # "save_journal"
       /\ \/ \E v \in VM : dom[v] = "foreign" /\ dom'[v] # "foreign"
          \/ net = "foreign" /\ net' # "foreign"
       => UNCHANGED <<files, process>>]_vars

(* A committed creation stays, but for the rollback of the very process whose
   commit failed: neither a recovery, nor another creation, nor a later rollback
   takes a lab apart whose record says ready, also when that rollback was cut
   off half way. *)
CommitIsFinal ==
    [][status = "ready" =>
        \/ /\ status' = "ready" /\ UNCHANGED <<vms, trees>>
           /\ net = "active" => net' = "active"
           /\ \A v \in VM : dom[v] = "owned" => dom'[v] = "owned"
        \/ pc \in UndoPcs /\ cmd = "create" /\ "commit" \in slips]_vars

(* Once the underlying problem is fixed, a pending creation whose journal
   passes validation is recovered and its journal goes away, provided that a
   domain still without metadata is running. *)
RecoveryCompletes ==
    (/\ calm /\ pc = "idle" /\ journal /\ ValidJournal
     /\ \A v \in VM : dom[v] = "bare" => TakesMetadata(v)) ~> ~journal

(* docs/troubleshooting.md: "Cleanup failures retain recovery metadata so the
   operation can be retried after fixing the underlying problem."  So retrying
   succeeds once the environment behaves. *)
RetryCompletes == (calm /\ pc = "idle" /\ journal /\ ValidJournal) ~> ~journal

(* A pending creation that validation refuses (and that no command can clear
   any more) owns no domain, and a network only when its define or its start
   raised with the effect in place: what it leaves behind is files. *)
RefusedHoldsNoResource ==
    pc = "idle" /\ journal /\ ~ValidJournal =>
        ~AnyDomain /\ (OurNet => slips \cap NetSlips # {})

(* docs/troubleshooting.md: "Already-absent resources are accepted during
   recovery."  So a journal that no command is working on, of a lab whose
   storage is absent or carries its marker, passes validation. *)
AbsentIsAccepted ==
    pc = "idle" /\ journal /\ storage # "unmarked" => ValidJournal

(* The creation implements the contract.  It is ready from the moment its
   process ends after the commit, or dies there; a record that says ready after
   the commit failed is no ready lab. *)
LabResources ==
    CASE /\ ~AnyDomain /\ ~OurNet /\ storage = "absent" /\ ~instance -> "none"
      [] /\ \A v \in VM : dom[v] = "owned"
         /\ net = "active" /\ storage = "marked" /\ instance -> "all"
      [] OTHER -> "some"

Committed == status = "ready" /\ "commit" \notin slips /\ pc # "unlink_journal"
Recorded  == journal /\ ("commit" \in slips => status # "ready")

LabPhase == CASE Committed -> "ready"
              [] ~Committed /\ Recorded -> "pending"
              [] ~Committed /\ ~journal /\ slips = {} -> "absent"
              [] OTHER -> "broken"

LabClean == slips = {}

Outside == INSTANCE LabContract
             WITH phase <- LabPhase, resources <- LabResources, clean <- LabClean

ImplementsContract == Outside!Contract
=============================================================================
