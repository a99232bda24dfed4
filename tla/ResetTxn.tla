------------------------------ MODULE ResetTxn ------------------------------
(***************************************************************************)
(* Reset of all or some virtual machines of a lab: KVMOrchestrator.reset,  *)
(* with its in-process rollback, and _recover_reset, which the next        *)
(* `lab reset` runs when a journal is left.                                *)
(*                                                                         *)
(* The lab is created and owned, its network is up, and the lab lock and   *)
(* the journal keep every other command away.  Each step of the process    *)
(* may fail and the process may die between any two of them.  Disks are    *)
(* told apart by their generation alone: "old" is what a VM had when the   *)
(* journal was written, "new" is what this reset puts in its place.        *)
(* A guest goes off by itself only between commands; during a command that *)
(* shows as the failure of the step that needed it.                        *)
(***************************************************************************)
EXTENDS Integers

CONSTANTS
    N,          \* virtual machines of the lab; 1..N is vm_order
    Rank        \* position of each VM's name in alphabetical order

ASSUME NAssumption == N \in Nat \ {0}

VM == 1 .. N

ASSUME RankAssumption ==
    /\ Rank \in [VM -> Nat]
    /\ \A v, w \in VM : Rank[v] = Rank[w] => v = w

VARIABLES
    (* The journal. *)
    journal,   \* its phase, "none" without one
    picked,    \* selected_vms
    before,    \* the selected VMs that were running
    stage,     \* stage of each VM record
    (* The state file. *)
    status,    \* field "state"
    vms,       \* state of each VM
    access,    \* controller_access_status
    (* The storage tree and libvirt. *)
    overlay,   \* generation of each disk.qcow2
    backup,    \* generation of each disk.qcow2.reset-backup
    dom,       \* each domain: absent, owned, or "bare" (without metadata)
    guest,     \* the disk each running guest has open, "off" if it is off
    granted,   \* do the disks in place carry the controller's access?
    (* The process; lost when it dies. *)
    pc, k,     \* where it is, and on which VM
    todo,      \* VMs that the loop it is in has still to handle
    recreated, backups, undefined,  \* what its rollback has to undo
    failed,    \* has a rollback, recovery or cleanup step failed?
    (* The environment. *)
    calm,      \* TRUE: from now on nothing fails, dies or goes off
    (* History, which no step reads. *)
    stray,     \* VMs whose domain a failing step left unowned or not removed
    torn       \* VMs of a reset whose commit is on disk although it raised

txn      == <<journal, picked, before, stage>>
state    == <<status, vms, access>>
disks    == <<overlay, backup, granted>>
libvirt  == <<dom, guest>>
undoWork == <<recreated, backups, undefined>>
locals   == <<k, todo, undoWork, failed>>
history  == <<stray, torn>>
vars     == <<txn, state, disks, libvirt, pc, locals, calm, history>>

Disks    == {"absent", "old", "new"}
Stages   == {"backup-planned", "virt-install-planned", "metadata-attached"}
ResetPcs ==
    {"shutdown", "undefine", "backup", "create_overlay", "plan", "virt_install",
     "metadata", "attach", "wait_ready", "save_ready", "commit", "drop_backups",
     "unlink_journal"}
UndoPcs    == {"undo_domains", "undo_disks", "undo_install", "undo_power", "undo_save"}
RecoverPcs == {"recover_vms", "recover_power", "recover_save", "recover_unlink", "begin"}

-----------------------------------------------------------------------------
(* Helpers. *)

IsFirst(v) == v \in todo /\ \A w \in todo : v <= w
IsLast(v)  == v \in todo /\ \A w \in todo : w <= v

MayFail == ~calm
On      == {v \in VM : guest[v] # "off"}

Forget ==
    /\ pc' = "idle" /\ k' = 1 /\ todo' = {} /\ failed' = FALSE
    /\ recreated' = {} /\ backups' = {} /\ undefined' = {}

(* `except Exception`: the rollback starts with the recreated domains. *)
Fault ==
    /\ MayFail /\ pc' = "undo_domains" /\ todo' = recreated
    /\ UNCHANGED <<k, failed>>

(* _set_power_state: the VMs in `set` become ready if they are in `on`, and
   the lab's state follows from all of its VMs. *)
PoweredRunning(set, on) ==   \* mutant: a state that no reset records
    [v \in VM |-> IF v \in on THEN "running" ELSE vms[v]]

Powered(set, on) ==
    [v \in VM |-> IF v \notin set THEN vms[v]
                  ELSE IF v \in on THEN "ready" ELSE "stopped"]

Lifecycle(states) ==
    IF \A v \in VM : states[v] = "ready" THEN "ready"
    ELSE IF \A v \in VM : states[v] # "ready" THEN "stopped" ELSE "degraded"

(* Practice access is declared stale before disks change, and again whenever
   old disks come back. *)
InvalidatedNever == access   \* mutant: the stale claim stays
Invalidated == "pending"

(* virt-install boots what it defines, on the overlay that is in place. *)
Installed(v, owner) ==
    /\ dom' = [dom EXCEPT ![v] = owner]
    /\ guest' = [guest EXCEPT ![v] = overlay[v]]

(* The old disk goes back where it was. *)
Restored(v) ==
    /\ overlay' = [overlay EXCEPT ![v] = backup[v]]
    /\ backup' = [backup EXCEPT ![v] = "absent"] /\ granted' = FALSE

(* ... or its return fails: before, between or after unlink and rename. *)
NotRestored(v) ==
    /\ MayFail
    /\ \/ UNCHANGED <<overlay, backup>>
       \/ overlay' = [overlay EXCEPT ![v] = "absent"] /\ UNCHANGED backup
       \/ Restored(v)
    /\ granted' = FALSE

(* What _validated_reset_journal distinguishes.  save_json sorts keys, so the
   records and the power observations come back in alphabetical order, and
   must then list the VMs like selected_vms. *)
ListedInOrder == \A v, w \in picked : v < w => Rank[v] < Rank[w]
ValidJournal ==
    /\ ListedInOrder
    /\ \A v \in picked : overlay[v] # "absent" \/ backup[v] # "absent"

Init ==
    /\ journal = "none" /\ picked = {} /\ before = {}
    /\ stage = [v \in VM |-> "backup-planned"]
    /\ overlay = [v \in VM |-> "old"] /\ backup = [v \in VM |-> "absent"]
    /\ dom = [v \in VM |-> "owned"]
    /\ \E on \in SUBSET VM :
         /\ guest = [v \in VM |-> IF v \in on THEN "old" ELSE "off"]
         /\ vms = [v \in VM |-> IF v \in on THEN "ready" ELSE "stopped"]
    /\ status = Lifecycle(vms)
    /\ access \in {"ready", "pending"} /\ granted = (access = "ready")
    /\ pc = "idle" /\ k = 1 /\ todo = {} /\ failed = FALSE
    /\ recreated = {} /\ backups = {} /\ undefined = {}
    /\ calm = FALSE /\ stray = {} /\ torn = {}

-----------------------------------------------------------------------------
(* reset, _reset_locked: the way forward.                                  *)

(* Every selected domain is ours, its disk is there and no backup is left. *)
Resettable(set) ==
    \A v \in set : dom[v] = "owned" /\ overlay[v] # "absent" /\ backup[v] = "absent"

(* Which of the selected VMs run. *)
ObservedNone(set) == {}   \* mutant: power is not observed
Observed(set) == set \intersect On

(* Observe, then write the journal: what is there now is what "old" means.  A
   domain that passed the checks and is off is nobody's stray any more. *)
BeginReset(set) ==
    /\ Resettable(set)
    /\ journal' = "rollback" /\ picked' = set /\ before' = Observed(set)
    /\ stage' = [v \in VM |-> "backup-planned"]
    /\ overlay' = [v \in VM |-> IF overlay[v] = "absent" THEN "absent" ELSE "old"]
    /\ guest' = [v \in VM |-> IF guest[v] = overlay[v] THEN "old" ELSE guest[v]]
    /\ pc' = "shutdown" /\ todo' = before'
    /\ stray' = stray \ (set \ On) /\ torn' = torn \ set
    /\ UNCHANGED <<state, backup, granted, dom, k, undoWork, failed, calm>>

Reset ==
    /\ pc = "idle" /\ journal = "none"
    /\ \E set \in SUBSET VM : set # {} /\ BeginReset(set)

(* A recovered reset goes on with the selection of its journal. *)
ResetAgain ==
    /\ pc = "begin"
    /\ \/ BeginReset(todo)
       \/ /\ ~Resettable(todo) \/ MayFail
          /\ Forget /\ UNCHANGED <<txn, state, disks, libvirt, calm, history>>

(* Shutdown in reverse order, by force after the timeout.  An error here is
   outside the try block: the journal is left to the next reset. *)
ShutDown ==
    /\ pc = "shutdown"
    /\ \E v \in VM :
         /\ IsLast(v)
         /\ \/ /\ guest' = [guest EXCEPT ![v] = "off"] /\ todo' = todo \ {v}
               /\ stray' = stray \ {v}
               /\ UNCHANGED <<pc, k, undoWork, failed>>
            \/ /\ MayFail /\ Forget /\ UNCHANGED stray
               /\ guest' \in {guest, [guest EXCEPT ![v] = "off"]}
    /\ UNCHANGED <<txn, state, disks, dom, calm, torn>>

(* The stopped VMs and the stale access are on record before a disk changes. *)
SaveStopped ==
    /\ pc = "shutdown" /\ todo = {}
    /\ \/ /\ vms' = Powered(picked, {}) /\ status' = Lifecycle(vms')
          /\ access' = Invalidated
          /\ pc' = "undefine"
          /\ k' \in picked /\ \A v \in picked : k' <= v
          /\ UNCHANGED <<todo, undoWork, failed>>
       \/ MayFail /\ Forget /\ UNCHANGED state
    /\ UNCHANGED <<txn, disks, libvirt, calm, history>>

Undefine ==
    /\ pc = "undefine"
    /\ \/ /\ dom[k] = "owned" /\ dom' = [dom EXCEPT ![k] = "absent"]
          /\ undefined' = undefined \union {k} /\ pc' = "backup"
          /\ UNCHANGED <<k, todo, failed>>
       \/ /\ Fault /\ UNCHANGED undefined
          /\ dom' \in {dom, [dom EXCEPT ![k] = "absent"]}
    /\ UNCHANGED <<txn, state, disks, guest, recreated, backups, calm, history>>

(* The overlay becomes the backup; the rollback learns of it after the fsync. *)
BackUpByUnlink ==   \* mutant: the old overlay is removed, not renamed
    /\ pc = "backup" /\ overlay' = [overlay EXCEPT ![k] = "absent"]
    /\ pc' = "create_overlay" /\ backups' = backups \union {k} /\ granted' = FALSE
    /\ UNCHANGED <<txn, state, backup, libvirt, k, todo, recreated, undefined,
                   failed, calm, history>>

BackUp ==
    /\ pc = "backup" /\ granted' = FALSE
    /\ \/ /\ backup' = [backup EXCEPT ![k] = overlay[k]]
          /\ overlay' = [overlay EXCEPT ![k] = "absent"]
          /\ \/ /\ pc' = "create_overlay" /\ backups' = backups \union {k}
                /\ UNCHANGED <<k, todo, failed>>
             \/ Fault /\ UNCHANGED backups
       \/ Fault /\ UNCHANGED <<overlay, backup, backups>>
    /\ UNCHANGED <<txn, state, libvirt, recreated, undefined, calm, history>>

CreateOverlay ==
    /\ pc = "create_overlay"
    /\ \/ /\ overlay' = [overlay EXCEPT ![k] = "new"] /\ pc' = "plan"
          /\ UNCHANGED <<k, todo, failed>>
       \/ Fault /\ overlay' \in {overlay, [overlay EXCEPT ![k] = "new"]}
    /\ UNCHANGED <<txn, state, backup, granted, libvirt, undoWork, calm, history>>

(* The record that lets recovery adopt an unowned domain. *)
PlanVm ==
    /\ pc = "plan"
    /\ \/ /\ stage' = [stage EXCEPT ![k] = "virt-install-planned"]
          /\ pc' = "virt_install"
          /\ UNCHANGED <<k, todo, failed>>
       \/ Fault /\ stage' \in {stage, [stage EXCEPT ![k] = "virt-install-planned"]}
    /\ UNCHANGED <<journal, picked, before, state, disks, libvirt, undoWork, calm, history>>

(* The rollback learns of the domain only when virt-install has returned; one
   that reports failure may leave the domain behind, running or not. *)
InstallVm ==
    /\ pc = "virt_install"
    /\ \/ /\ Installed(k, "bare") /\ recreated' = recreated \union {k}
          /\ pc' = "metadata"
          /\ UNCHANGED <<k, todo, failed, stray>>
       \/ Fault /\ UNCHANGED <<libvirt, recreated, stray>>
       \/ /\ Fault /\ UNCHANGED recreated /\ stray' = stray \union {k}
          /\ dom' = [dom EXCEPT ![k] = "bare"]
          /\ guest' \in {guest, [guest EXCEPT ![k] = overlay[k]]}
    /\ UNCHANGED <<txn, state, disks, backups, undefined, calm, torn>>

AttachMetadata ==
    /\ pc = "metadata"
    /\ \/ /\ dom' = [dom EXCEPT ![k] = "owned"] /\ pc' = "attach"
          /\ UNCHANGED <<k, todo, failed, stray>>
       \/ Fault /\ dom' = [dom EXCEPT ![k] = "owned"] /\ UNCHANGED stray
       \/ Fault /\ UNCHANGED dom /\ stray' = stray \union {k}
    /\ UNCHANGED <<txn, state, disks, guest, undoWork, calm, torn>>

RecordAttached ==
    /\ pc = "attach"
    /\ \/ /\ stage' = [stage EXCEPT ![k] = "metadata-attached"] /\ pc' = "wait_ready"
          /\ UNCHANGED <<k, todo, failed>>
       \/ Fault /\ stage' \in {stage, [stage EXCEPT ![k] = "metadata-attached"]}
    /\ UNCHANGED <<journal, picked, before, state, disks, libvirt, undoWork, calm, history>>

(* The VMs of the selection that come after k in vm_order. *)
LaterAny == {v \in VM : v > k}   \* mutant: the loop leaves the selection
Later    == {v \in picked : v > k}

WaitReady ==
    /\ pc = "wait_ready"
    /\ \/ /\ Later # {} /\ pc' = "undefine"
          /\ k' \in Later /\ \A v \in Later : k' <= v
          /\ UNCHANGED <<todo, failed>>
       \/ Later = {} /\ pc' = "save_ready" /\ UNCHANGED <<k, todo, failed>>
       \/ Fault
    /\ UNCHANGED <<txn, state, disks, libvirt, undoWork, calm, history>>

(* _refresh_controller_access, only if every VM runs; then the state file. *)
SaveReady ==
    /\ pc = "save_ready"
    /\ \/ /\ vms' = Powered(picked, picked) /\ status' = Lifecycle(vms')
          /\ IF On = VM THEN granted' = TRUE /\ access' = "ready"
                        ELSE access' = Invalidated /\ UNCHANGED granted
          /\ \/ pc' = "commit" /\ UNCHANGED <<k, todo, failed>>
             \/ Fault
       \/ Fault /\ UNCHANGED <<state, granted>>
    /\ UNCHANGED <<txn, overlay, backup, libvirt, undoWork, calm, history>>

(* From here on the new disks stay, unless the save raises with the phase on
   disk: it is the last statement of the try block. *)
Commit ==
    /\ pc = "commit"
    /\ \/ /\ journal' = "committed" /\ pc' = "drop_backups" /\ todo' = backups
          /\ UNCHANGED <<k, failed, torn>>
       \/ Fault /\ UNCHANGED <<journal, torn>>
       \/ Fault /\ journal' = "committed" /\ torn' = torn \union picked
    /\ UNCHANGED <<picked, before, stage, state, disks, libvirt, undoWork, calm, stray>>

(* Backups go one by one; one that stays keeps the journal.  The recovery of a
   committed reset does the same. *)
DropBackup ==
    /\ pc = "drop_backups"
    /\ \E v \in VM :
         /\ IsFirst(v) /\ todo' = todo \ {v}
         /\ \/ backup' = [backup EXCEPT ![v] = "absent"] /\ UNCHANGED failed
            \/ /\ MayFail /\ failed' = TRUE
               /\ backup' \in {backup, [backup EXCEPT ![v] = "absent"]}
    /\ UNCHANGED <<txn, state, overlay, granted, libvirt, pc, k, undoWork, calm, history>>

DropBackupsDone ==
    /\ pc = "drop_backups" /\ todo = {}
    /\ \/ ~failed /\ pc' = "unlink_journal" /\ UNCHANGED locals
       \/ (failed \/ MayFail) /\ Forget
    /\ UNCHANGED <<txn, state, disks, libvirt, calm, history>>

NoJournal ==
    /\ journal' = "none" /\ picked' = {} /\ before' = {}
    /\ stage' = [v \in VM |-> "backup-planned"]

UnlinkJournal ==
    /\ pc = "unlink_journal" /\ Forget
    /\ \/ NoJournal
       \/ MayFail /\ UNCHANGED txn
    /\ UNCHANGED <<state, disks, libvirt, calm, history>>

-----------------------------------------------------------------------------
(* _reset_locked's except block: domains, disks, domains again, power, state.
   Every part is tried, whatever failed before; the journal stays. *)

(* Verify, destroy if active, undefine. *)
UndoDomain ==
    /\ pc = "undo_domains"
    /\ \E v \in VM :
         /\ IsLast(v) /\ todo' = todo \ {v}
         /\ \/ /\ dom[v] = "owned" /\ dom' = [dom EXCEPT ![v] = "absent"]
               /\ guest' = [guest EXCEPT ![v] = "off"] /\ UNCHANGED failed
               /\ UNCHANGED stray
            \/ /\ dom[v] = "bare" \/ MayFail
               /\ failed' = TRUE /\ UNCHANGED dom /\ stray' = stray \union {v}
               /\ \/ UNCHANGED guest
                  \/ dom[v] = "owned" /\ guest' = [guest EXCEPT ![v] = "off"]
            \/ /\ MayFail /\ failed' = TRUE /\ dom[v] = "owned"
               /\ dom' = [dom EXCEPT ![v] = "absent"]
               /\ guest' = [guest EXCEPT ![v] = "off"] /\ UNCHANGED stray
    /\ UNCHANGED <<txn, state, disks, pc, k, undoWork, calm, torn>>

UndoDomainsDone ==
    /\ pc = "undo_domains" /\ todo = {}
    /\ pc' = "undo_disks" /\ todo' = backups
    /\ UNCHANGED <<txn, state, disks, libvirt, k, undoWork, failed, calm, history>>

UndoDisk ==
    /\ pc = "undo_disks"
    /\ \E v \in VM :
         /\ IsLast(v) /\ todo' = todo \ {v}
         /\ \/ Restored(v) /\ UNCHANGED failed
            \/ NotRestored(v) /\ failed' = TRUE
    /\ UNCHANGED <<txn, state, libvirt, pc, k, undoWork, calm, history>>

UndoDisksDone ==
    /\ pc = "undo_disks" /\ todo = {}
    /\ pc' = "undo_install" /\ todo' = undefined
    /\ UNCHANGED <<txn, state, disks, libvirt, k, undoWork, failed, calm, history>>

(* virt-install and metadata for what was undefined; virt-install refuses a
   name in use and an overlay that is missing.  Either may fail, and a domain
   then stays without metadata. *)
Rebuildable(v) == dom[v] = "absent" /\ overlay[v] # "absent"

RebuiltBare(v) ==
    /\ MayFail /\ Rebuildable(v) /\ Installed(v, "bare")
    /\ stray' = stray \union {v}

UndoInstall ==
    /\ pc = "undo_install"
    /\ \E v \in VM :
         /\ IsFirst(v) /\ todo' = todo \ {v}
         /\ \/ /\ Rebuildable(v) /\ Installed(v, "owned")
               /\ UNCHANGED <<failed, stray>>
            \/ /\ ~Rebuildable(v) \/ MayFail
               /\ failed' = TRUE /\ UNCHANGED <<libvirt, stray>>
            \/ RebuiltBare(v) /\ failed' = TRUE
    /\ UNCHANGED <<txn, state, disks, pc, k, undoWork, calm, torn>>

UndoInstallDone ==
    /\ pc = "undo_install" /\ todo = {}
    /\ pc' = "undo_power" /\ todo' = picked
    /\ UNCHANGED <<txn, state, disks, libvirt, k, undoWork, failed, calm, history>>

(* Can _restore_power bring v back to what it was before?  A VM that already
   is as before is left alone, whoever owns it. *)
PowerRestorable(v) ==
    /\ dom[v] # "absent"
    /\ (v \in On) # (v \in before) =>
          dom[v] = "owned" /\ (v \in before => overlay[v] # "absent")

PowerAsBefore(v) ==
    [guest EXCEPT ![v] = IF v \notin before THEN "off"
                         ELSE IF v \in On THEN guest[v] ELSE overlay[v]]

(* _restore_power on the last VM of the loop. *)
RestorePower ==
    \E v \in VM :
        /\ IsLast(v) /\ todo' = todo \ {v}
        /\ \/ /\ PowerRestorable(v) /\ UNCHANGED failed
              /\ guest' = PowerAsBefore(v)
           \/ /\ ~PowerRestorable(v) \/ MayFail
              /\ failed' = TRUE /\ UNCHANGED guest
           \/ /\ PowerRestorable(v) /\ MayFail
              /\ failed' = TRUE /\ guest' = PowerAsBefore(v)

UndoPower ==
    /\ pc = "undo_power" /\ RestorePower
    /\ UNCHANGED <<txn, state, disks, dom, pc, k, undoWork, calm, history>>

(* What rollback and recovery write to the state file. *)
RecordBefore ==
    /\ vms' = Powered(picked, before)
    /\ status' = IF failed THEN "degraded" ELSE Lifecycle(vms')
    /\ access' = Invalidated

UndoSave ==
    /\ pc = "undo_power" /\ todo = {} /\ Forget
    /\ \/ RecordBefore
       \/ MayFail /\ UNCHANGED state
    /\ UNCHANGED <<txn, disks, libvirt, calm, history>>

-----------------------------------------------------------------------------
(* _recover_reset, run by the next `lab reset`.                            *)

UncommittedAlways == TRUE   \* mutant: the committed phase is not recognised
Uncommitted == journal = "rollback"

(* A committed reset only finishes dropping its backups. *)
BeginRecovery ==
    /\ pc = "idle" /\ journal # "none" /\ ValidJournal
    /\ pc' = (IF Uncommitted THEN "recover_vms" ELSE "drop_backups")
    /\ todo' = picked
    /\ UNCHANGED <<txn, state, disks, libvirt, k, undoWork, failed, calm, history>>

(* An error ends the work on this VM, and the loop goes on with the next. *)
Skip(v) == failed' = TRUE /\ todo' = todo \ {v}

(* External: `virsh metadata --live` is refused for a domain that is off. *)
Adoptable(v) ==
    dom[v] = "bare" /\ stage[v] = "virt-install-planned" /\ v \in On

(* While the backup is there, the domain goes first: ours, or ours to adopt. *)
RecoverDomain ==
    /\ pc = "recover_vms"
    /\ \E v \in VM :
         /\ IsLast(v) /\ backup[v] # "absent" /\ dom[v] # "absent"
         /\ \/ /\ dom[v] = "owned" \/ Adoptable(v)
               /\ dom' = [dom EXCEPT ![v] = "absent"]
               /\ guest' = [guest EXCEPT ![v] = "off"] /\ stray' = stray \ {v}
               /\ \/ UNCHANGED <<todo, failed>>
                  \/ MayFail /\ Skip(v)
            \/ /\ Skip(v) /\ MayFail /\ (dom[v] = "owned" \/ Adoptable(v))
               /\ dom' = [dom EXCEPT ![v] = "owned"] /\ UNCHANGED stray
               /\ guest' \in {guest, [guest EXCEPT ![v] = "off"]}
            \/ /\ Skip(v) /\ UNCHANGED <<libvirt, stray>>
               /\ MayFail \/ (dom[v] = "bare" /\ ~Adoptable(v))
    /\ UNCHANGED <<txn, state, disks, pc, k, undoWork, calm, torn>>

(* Then the backup replaces the overlay. *)
RecoverDisk ==
    /\ pc = "recover_vms"
    /\ \E v \in VM :
         /\ IsLast(v) /\ backup[v] # "absent" /\ dom[v] = "absent"
         /\ \/ Restored(v) /\ UNCHANGED <<todo, failed>>
            \/ NotRestored(v) /\ Skip(v)
    /\ UNCHANGED <<txn, state, libvirt, pc, k, undoWork, calm, history>>

(* Then a domain that is missing is defined again; one that exists is kept. *)
RecoverInstall ==
    /\ pc = "recover_vms"
    /\ \E v \in VM :
         /\ IsLast(v) /\ backup[v] = "absent"
         /\ \/ /\ dom[v] # "absent" /\ todo' = todo \ {v}
               /\ UNCHANGED <<libvirt, failed, stray>>
            \/ /\ Rebuildable(v) /\ Installed(v, "owned")
               /\ todo' = todo \ {v} /\ UNCHANGED <<failed, stray>>
            \/ /\ (dom[v] = "absent" /\ overlay[v] = "absent") \/ MayFail
               /\ Skip(v) /\ UNCHANGED <<libvirt, stray>>
            \/ RebuiltBare(v) /\ Skip(v)
    /\ UNCHANGED <<txn, state, disks, pc, k, undoWork, calm, torn>>

RecoverVmsQuiet ==   \* mutant: failures are forgotten
    /\ pc = "recover_vms" /\ todo = {} /\ pc' = "recover_power"
    /\ todo' = picked /\ failed' = FALSE
    /\ UNCHANGED <<txn, state, disks, libvirt, k, undoWork, calm, history>>

RecoverVmsUnpowered ==   \* mutant: power is not restored
    /\ pc = "recover_vms" /\ todo = {}
    /\ \/ failed /\ Forget
       \/ ~failed /\ pc' = "recover_power" /\ UNCHANGED locals
    /\ UNCHANGED <<txn, state, disks, libvirt, calm, history>>

RecoverVmsDone ==
    /\ pc = "recover_vms" /\ todo = {}
    /\ \/ failed /\ Forget
       \/ /\ ~failed /\ pc' = "recover_power" /\ todo' = picked
          /\ UNCHANGED <<k, undoWork, failed>>
    /\ UNCHANGED <<txn, state, disks, libvirt, calm, history>>

RecoverPower ==
    /\ pc = "recover_power" /\ RestorePower
    /\ UNCHANGED <<txn, state, disks, dom, pc, k, undoWork, calm, history>>

RecoverSave ==
    /\ pc = "recover_power" /\ todo = {}
    /\ \/ /\ RecordBefore
          /\ \/ failed /\ Forget
             \/ ~failed /\ pc' = "recover_unlink" /\ UNCHANGED locals
       \/ MayFail /\ Forget /\ UNCHANGED state
    /\ UNCHANGED <<txn, disks, libvirt, calm, history>>

(* The journal goes, and the reset starts again with its selection. *)
RecoverUnlink ==
    /\ pc = "recover_unlink"
    /\ \/ /\ NoJournal /\ pc' = "begin" /\ todo' = picked
          /\ UNCHANGED <<k, undoWork, failed>>
       \/ MayFail /\ Forget /\ UNCHANGED txn
       \/ MayFail /\ Forget /\ NoJournal
    /\ UNCHANGED <<state, disks, libvirt, calm, history>>

-----------------------------------------------------------------------------
(* The environment. *)

(* The process is killed, or interrupted by an exception that is no Exception.
   A death between the definition of a domain by rollback or recovery and its
   metadata is RebuiltBare, then this. *)
Crash ==
    /\ MayFail /\ pc # "idle" /\ Forget
    /\ UNCHANGED <<txn, state, disks, libvirt, calm, history>>

HostReboot ==
    /\ MayFail /\ Forget /\ guest' = [v \in VM |-> "off"]
    /\ UNCHANGED <<txn, state, disks, dom, calm, history>>

GuestOff(v) ==
    /\ MayFail /\ pc = "idle" /\ guest' = [guest EXCEPT ![v] = "off"]
    /\ UNCHANGED <<txn, state, disks, dom, pc, locals, calm, history>>

CalmDown ==
    /\ ~calm /\ calm' = TRUE
    /\ UNCHANGED <<txn, state, disks, libvirt, pc, locals, history>>

-----------------------------------------------------------------------------
Forward ==
    \/ ResetAgain \/ ShutDown \/ SaveStopped \/ Undefine \/ BackUp
    \/ CreateOverlay \/ PlanVm \/ InstallVm \/ AttachMetadata \/ RecordAttached
    \/ WaitReady \/ SaveReady \/ Commit \/ DropBackup \/ DropBackupsDone
    \/ UnlinkJournal

Rollback ==
    \/ UndoDomain \/ UndoDomainsDone \/ UndoDisk \/ UndoDisksDone
    \/ UndoInstall \/ UndoInstallDone \/ UndoPower \/ UndoSave

Recovery ==
    \/ RecoverDomain \/ RecoverDisk \/ RecoverInstall \/ RecoverVmsDone
    \/ RecoverPower \/ RecoverSave \/ RecoverUnlink

Running == Forward \/ Rollback \/ Recovery

Environment ==
    \/ Crash \/ HostReboot \/ CalmDown
    \/ \E v \in VM : GuestOff(v)

Next == Reset \/ BeginRecovery \/ Running \/ Environment

Spec == Init /\ [][Next]_vars

(* One process that waits on nothing without a deadline, and an operator who
   retries a pending reset, as docs/troubleshooting.md asks. *)
FairSpec == Spec /\ WF_vars(Running) /\ WF_vars(BeginRecovery)

-----------------------------------------------------------------------------
(* Properties. *)

(* Every variable holds a value of its type. *)
TypeOK ==
    /\ journal \in {"none", "rollback", "committed"}
    /\ picked \subseteq VM /\ before \subseteq VM
    /\ stage \in [VM -> Stages]
    /\ status \in {"ready", "stopped", "degraded"}
    /\ vms \in [VM -> {"ready", "stopped"}] /\ access \in {"ready", "pending"}
    /\ overlay \in [VM -> Disks] /\ backup \in [VM -> Disks]
    /\ dom \in [VM -> {"absent", "bare", "owned"}]
    /\ guest \in [VM -> {"off", "old", "new"}] /\ granted \in BOOLEAN
    /\ pc \in {"idle"} \union ResetPcs \union UndoPcs \union RecoverPcs
    /\ k \in VM /\ todo \subseteq VM
    /\ recreated \subseteq VM /\ backups \subseteq VM /\ undefined \subseteq VM
    /\ failed \in BOOLEAN /\ calm \in BOOLEAN
    /\ stray \subseteq VM /\ torn \subseteq VM

(* The data of a reset is safe at every moment: until the commit every VM's
   old disk exists as its overlay or as its backup; after it every selected VM
   has its new disk; a VM that was not selected keeps its disk throughout.  A
   commit whose save raised with the phase on disk is the exception: rollback
   and recovery then work against each other on the VMs it was about. *)
DisksKept ==
    /\ journal = "rollback" =>
          \A v \in VM \ torn : "old" \in {overlay[v], backup[v]}
    /\ journal = "committed" => \A v \in picked \ torn : overlay[v] = "new"
    /\ journal # "none" =>
          \A v \in VM \ (picked \union torn) :
              overlay[v] = "old" /\ backup[v] = "absent"

(* A lab without a journal is whole: every domain exists and is owned, no
   backup is left, and a running guest has the disk open that its definition
   names.  So whatever failed, what is left half done is on record, but for a
   domain that a failing virt-install, metadata, destroy or undefine left: it
   may be unowned or run on a disk that is gone, and still it is there with a
   disk of its own, unless the commit itself was torn. *)
UnrecordedIsWhole ==
    journal = "none" =>
        \A v \in VM \ torn :
            /\ dom[v] # "absent" /\ backup[v] = "absent" /\ overlay[v] # "absent"
            /\ v \notin stray =>
                  dom[v] = "owned" /\ guest[v] \in {"off", overlay[v]}

(* A reset ends as a whole: the journal of a committed one goes away when all
   selected disks are new, that of an uncommitted one when all disks are old
   and the selected VMs run, or are off, as they were before the reset. *)
EndsWhole ==
    [][journal # "none" /\ journal' = "none" =>
          IF journal = "committed"
          THEN \A v \in picked \ torn : overlay[v] = "new"
          ELSE /\ \A v \in VM \ torn : overlay[v] = "old"
               /\ picked \intersect On = before]_vars

(* A committed reset is not undone, and the state file keeps what it says:
   only the rollback of the very process whose commit raised takes it back,
   never a recovery, whatever that rollback left. *)
CommitStays ==
    [][journal = "committed" =>
          \/ UNCHANGED <<overlay, dom, status, vms>>
          \/ pc \in UndoPcs /\ picked \subseteq torn]_vars

(* During a reset no disk is removed, replaced or renamed under a guest that
   runs, unless a failing step left that guest behind: the rollback and the
   recovery do not look whether the domain they could not remove still runs. *)
DiskChangesOffline ==
    [][journal # "none" =>
          \A v \in VM \ stray : overlay'[v] # overlay[v] => v \notin On]_vars

(* Outside of a pending reset, a lab recorded as having working practice
   access has it: no disk was replaced since it was last set up. *)
AccessIsCurrent ==
    journal = "none" /\ access = "ready" /\ torn = {} => granted

(* Once nothing fails any more, retrying a pending reset ends in a finished
   reset of exactly the VMs it was started for, provided that its commit was
   not torn and that a domain still without metadata can be adopted. *)
RetryFinishes ==
    \A set \in SUBSET VM :
        (/\ calm /\ pc = "idle" /\ journal # "none" /\ picked = set
         /\ ValidJournal /\ torn = {}
         /\ \A v \in set : dom[v] = "bare" => backup[v] # "absent" /\ Adoptable(v))
        ~> (/\ journal = "none" /\ pc = "idle"
            /\ \A v \in VM : overlay[v] = IF v \in set THEN "new" ELSE "old")

(* docs/troubleshooting.md: "Reset: retry `labctl lab reset ID` before
   attempting removal or other lifecycle changes."  So the journal that a reset
   leaves behind passes the validation of the retry. *)
RetryAccepted == pc = "idle" /\ journal # "none" => ValidJournal

(* docs/troubleshooting.md: "Cleanup failures retain recovery metadata so the
   operation can be retried after fixing the underlying problem."  So a domain
   whose ownership is still missing keeps the journal that can adopt it. *)
UnownedKeepsRecord ==
    \A v \in VM : dom[v] = "bare" => journal = "rollback"
=============================================================================
